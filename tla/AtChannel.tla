------------------------------ MODULE AtChannel ------------------------------
(***************************************************************************)
(* The AT command channel, src/usbmodem/src/Core/AtChannel.cpp: threads    *)
(* that call sendCommand() take at_cmd_mutex, publish the response they    *)
(* want filled in m_curr_response, write the command to the serial port    *)
(* and wait on the semaphore m_cmd_sem for a bounded time; one reader      *)
(* thread takes lines from the port, gives them to the running command or  *)
(* to the handlers of unsolicited lines and posts the semaphore when a     *)
(* final line comes.  The mutex excludes the callers from each other, but  *)
(* the reader never takes it: every interleaving of the reader with a      *)
(* caller that gives up waiting is a behaviour of this module.             *)
(***************************************************************************)
EXTENDS Naturals, Sequences

CONSTANTS
  Senders,    \* the threads that call sendCommand()
  Stoppers,   \* the one of them that also calls stop(), if any
  Requests,   \* the kinds of sendCommand() calls they make
  Prefixes,   \* the prefixes of lines ("+CREG", "^HCSQ", ...)
  None,       \* a null pointer, a free mutex, a line without a prefix
  MaxCmds,    \* bound: commands issued in a behaviour
  MaxUrcs     \* bound: unsolicited lines in a behaviour

Types == {"DEFAULT", "MULTILINE", "NUMERIC", "NO_RESPONSE", "DIAL",
          "NO_PREFIX", "NO_PREFIX_ALL"}

Errors == {"SUCCESS", "TIMEOUT", "ERROR", "IO_ERROR", "IO_BROKEN"}

\* A call: its result type, its prefix, and whether the caller reads the error
\* from the Response that a wrapper returns or from the return code.
Request == [type : Types, prefix : Prefixes \cup {None}, wrapper : BOOLEAN]

ASSUME ConstantsAssumption ==
  /\ Stoppers \subseteq Senders
  /\ \A s, t \in Stoppers : s = t
  /\ Requests \subseteq Request
  /\ None \notin Senders \cup Prefixes
  /\ MaxCmds \in Nat
  /\ MaxUrcs \in Nat

\* The wrappers of AtChannel.h ask for a prefix only where the type has a use for it.
ASSUME RequestsAssumption ==
  \A q \in Requests : q.type \in {"NO_RESPONSE", "DIAL", "NO_PREFIX", "NO_PREFIX_ALL"} =>
    q.prefix = None

-----------------------------------------------------------------------------
VARIABLES
  pc,         \* [Senders -> where the thread is in sendCommand() or stop()]
  cmd,        \* [Senders -> the call it makes: its serial number and request]
  resp,       \* [Senders -> the Response object of its call]
  result,     \* [Senders -> the error its call has just returned, or None]
  mutex,      \* at_cmd_mutex: its holder or None
  sem,        \* m_cmd_sem: its value
  curr,       \* m_curr_response: the owner of the response or None
  currReq,    \* m_curr_type and m_curr_prefix
  stop,       \* m_stop
  started,    \* m_started
  rpc,        \* where the reader thread is
  rptr,       \* the m_curr_response the reader saw when it tested it
  chunk,      \* the lines of the last readChunk() not handled yet
  ioBroken,   \* m_broken_io_handler has been called
  wake,       \* a byte is in the pipe of Serial::breakTransfer()
  broken,     \* the device is lost: poll() reports POLLHUP
  tx,         \* commands the modem has not read yet
  rx,         \* lines that wait to be read from the port
  issued,     \* commands issued so far
  urcs,       \* unsolicited lines sent so far
  answer,     \* history: [serial number -> the verdict of the modem]
  misjudged,  \* history: the calls that took a line before their kind was known
  disturbed,  \* history: a command has timed out or failed to be written
  orphaned    \* history: the reader has cleared the response of a later command

callerVars  == <<pc, cmd, resp, result, mutex, issued, disturbed>>
chanVars    == <<sem, curr, currReq, stop, started>>
readerVars  == <<rpc, rptr, chunk, ioBroken, orphaned>>
portVars    == <<wake, broken, tx, rx>>
historyVars == <<urcs, answer, misjudged>>
vars == <<callerVars, chanVars, readerVars, portVars, historyVars>>

Ids == 1 .. MaxCmds

\* A line: the command it answers (0 for none), what it says, its prefix.
Line == [from : 0 .. MaxCmds,
         kind : {"OK", "ERROR", "CONNECT", "NO CARRIER", "prefix", "digit", "text"},
         prefix : Prefixes \cup {None}]

Response == [error : Errors, lines : Seq(Line)]

SenderPCs == {"idle", "lock", "publish", "write", "wait", "done", "returned", "closed", "join"}
ReaderPCs == {"off", "top", "poll", "line", "finish", "collect", "clear",
              "post", "reclear", "broken", "brokenFinish", "brokenClear", "brokenPost", "brokenCall", "exit",
              "crashed"}

NoRequest == [type |-> "DEFAULT", prefix |-> None, wrapper |-> FALSE]
NoCall == [id |-> 0, req |-> NoRequest]
NoResponse == [error |-> "IO_ERROR", lines |-> <<>>]

Alive == rpc # "crashed"

-----------------------------------------------------------------------------
(* What a line means to the running command: handleLine(). *)

\* Mutant of IsSuccessResponse: "CONNECT" is not a final line.
OnlyOk(l, dial) == l.kind = "OK"

IsSuccessResponse(l, dial) == l.kind = "OK" \/ (dial /\ l.kind = "CONNECT")

IsErrorResponse(l, dial) == l.kind = "ERROR" \/ (dial /\ l.kind = "NO CARRIER")

IsFinal(l, q) == LET dial == q.type = "DIAL" IN
  IsSuccessResponse(l, dial) \/ IsErrorResponse(l, dial)

\* Mutant of IsCollected: a number is no line of a NUMERIC answer without its prefix.
CollectedByPrefix(l, q, lines) == ~ IsFinal(l, q) /\ l.prefix = q.prefix /\ q.prefix # None

\* The line becomes a line of the response, or extends its last one.  Every
\* prefix in use starts with '+', '*', '^' or '!'; every line starts with "".
IsCollected(l, q, lines) ==
  /\ ~ IsFinal(l, q)
  /\ \/ q.type \in {"DEFAULT", "MULTILINE"} /\ q.prefix \in {l.prefix, None}
     \/ q.type = "MULTILINE" /\ lines # <<>> /\ l.prefix = None
     \/ q.type = "NO_PREFIX" /\ l.prefix = None
     \/ q.type = "NUMERIC" /\ \/ q.prefix # None /\ l.prefix = q.prefix
                              \/ l.kind = "digit"
     \/ q.type = "NO_PREFIX_ALL"

-----------------------------------------------------------------------------
(* The threads that send commands. *)

\* sendCommand() up to at_cmd_mutex.lock().  A DEFAULT or MULTILINE call
\* without a prefix becomes NO_RESPONSE.  On a closed channel the function
\* returns AT_IO_BROKEN and leaves the Response alone: a wrapper then returns
\* an error field that nothing initialised.
Call(s, q) ==
  /\ Alive
  /\ pc[s] = "idle"
  /\ started \/ stop
  /\ issued < MaxCmds
  /\ issued' = issued + 1
  /\ cmd' = [cmd EXCEPT ![s] =
       [id |-> issued + 1,
        req |-> IF q.type \in {"DEFAULT", "MULTILINE"} /\ q.prefix = None
                THEN [q EXCEPT !.type = "NO_RESPONSE"] ELSE q]]
  /\ \/ /\ stop
        /\ \E e \in IF q.wrapper THEN Errors ELSE {"IO_BROKEN"} :
             result' = [result EXCEPT ![s] = e]
        /\ pc' = [pc EXCEPT ![s] = "closed"]
     \/ /\ ~ stop
        /\ pc' = [pc EXCEPT ![s] = "lock"]
        /\ result' = result
  /\ UNCHANGED <<resp, mutex, disturbed, chanVars, readerVars, portVars, historyVars>>

\* Mutant of Lock: at_cmd_mutex is not taken.
LockWithoutMutex(s) ==
  /\ Alive
  /\ pc[s] = "lock"
  /\ mutex' = s
  /\ resp' = [resp EXCEPT ![s] = NoResponse]
  /\ curr' = s
  /\ pc' = [pc EXCEPT ![s] = "publish"]
  /\ UNCHANGED <<cmd, result, issued, disturbed, sem, currReq, stop, started, readerVars,
                 portVars, historyVars>>

\* The mutex is taken, the response cleaned and published in m_curr_response.
Lock(s) ==
  /\ Alive
  /\ pc[s] = "lock"
  /\ mutex = None
  /\ mutex' = s
  /\ resp' = [resp EXCEPT ![s] = NoResponse]
  /\ curr' = s
  /\ pc' = [pc EXCEPT ![s] = "publish"]
  /\ UNCHANGED <<cmd, result, issued, disturbed, sem, currReq, stop, started, readerVars,
                 portVars, historyVars>>

\* m_curr_prefix and m_curr_type follow, before the command is written.  No
\* lock keeps the reader out in between: see Seen.
Publish(s) ==
  /\ Alive
  /\ pc[s] = "publish"
  /\ currReq' = cmd[s].req
  /\ pc' = [pc EXCEPT ![s] = "write"]
  /\ UNCHANGED <<cmd, resp, result, mutex, issued, disturbed, sem, curr, stop, started,
                 readerVars, portVars, historyVars>>

Write(s) ==
  /\ Alive
  /\ pc[s] = "write"
  /\ ~ broken
  /\ tx' = Append(tx, cmd[s])
  /\ pc' = [pc EXCEPT ![s] = "wait"]
  /\ UNCHANGED <<cmd, resp, result, mutex, issued, disturbed, chanVars, readerVars,
                 wake, broken, rx, historyVars>>

\* Serial::write() fails, is cut short, or is interrupted by the wake-up byte
\* that breakTransfer() meant for the reader, which it then takes.
WriteFails(s) ==
  /\ Alive
  /\ pc[s] = "write"
  /\ wake' \in {wake, FALSE}
  /\ resp' = [resp EXCEPT ![s].error = "IO_ERROR"]
  /\ pc' = [pc EXCEPT ![s] = "done"]
  /\ disturbed' = TRUE
  /\ UNCHANGED <<cmd, result, mutex, issued, chanVars, readerVars, broken, tx, rx,
                 historyVars>>

\* Mutants of WaitPosted: the wait does not take the token, or does not wait.
WaitKeepsToken(s) ==
  /\ Alive
  /\ pc[s] = "wait"
  /\ sem > 0
  /\ sem' = sem
  /\ pc' = [pc EXCEPT ![s] = "done"]
  /\ UNCHANGED <<cmd, resp, result, mutex, issued, disturbed, curr, currReq, stop,
                 started, readerVars, portVars, historyVars>>

WaitWithoutToken(s) ==
  /\ Alive
  /\ pc[s] = "wait"
  /\ sem' = sem - 1
  /\ pc' = [pc EXCEPT ![s] = "done"]
  /\ UNCHANGED <<cmd, resp, result, mutex, issued, disturbed, curr, currReq, stop,
                 started, readerVars, portVars, historyVars>>

WaitPosted(s) ==
  /\ Alive
  /\ pc[s] = "wait"
  /\ sem > 0
  /\ sem' = sem - 1
  /\ pc' = [pc EXCEPT ![s] = "done"]
  /\ UNCHANGED <<cmd, resp, result, mutex, issued, disturbed, curr, currReq, stop,
                 started, readerVars, portVars, historyVars>>

\* sem_timedwait() reports ETIMEDOUT only when there is no token to take.
WaitTimesOut(s) ==
  /\ Alive
  /\ pc[s] = "wait"
  /\ sem = 0
  /\ resp' = [resp EXCEPT ![s].error = "TIMEOUT"]
  /\ pc' = [pc EXCEPT ![s] = "done"]
  /\ disturbed' = TRUE
  /\ UNCHANGED <<cmd, result, mutex, issued, chanVars, readerVars, portVars, historyVars>>

\* Mutant of Release: m_curr_response keeps pointing at the returned Response.
ReleaseKeepsCurrent(s) ==
  /\ Alive
  /\ pc[s] = "done"
  /\ mutex' = None
  /\ result' = [result EXCEPT ![s] = resp[s].error]
  /\ pc' = [pc EXCEPT ![s] = "returned"]
  /\ cmd' = [cmd EXCEPT ![s] = NoCall]
  /\ resp' = [resp EXCEPT ![s] = NoResponse]
  /\ UNCHANGED <<issued, disturbed, sem, curr, currReq, stop, started, readerVars,
                 portVars, historyVars>>

\* m_curr_response is reset, the mutex released and the error returned with
\* the Response, whose life in the channel ends; the handler of errors
\* (m_global_error_handler) runs without the mutex.
Release(s) ==
  /\ Alive
  /\ pc[s] = "done"
  /\ curr' = None
  /\ mutex' = None
  /\ result' = [result EXCEPT ![s] = resp[s].error]
  /\ pc' = [pc EXCEPT ![s] = "returned"]
  /\ cmd' = [cmd EXCEPT ![s] = NoCall]
  /\ resp' = [resp EXCEPT ![s] = NoResponse]
  /\ UNCHANGED <<issued, disturbed, sem, currReq, stop, started, readerVars,
                 portVars, historyVars>>

\* The handler of errors is done and the caller has looked at the error.
Return(s) ==
  /\ Alive
  /\ pc[s] \in {"returned", "closed"}
  /\ pc' = [pc EXCEPT ![s] = "idle"]
  /\ result' = [result EXCEPT ![s] = None]
  /\ UNCHANGED <<cmd, resp, mutex, issued, disturbed, chanVars, readerVars,
                 portVars, historyVars>>

\* start(), called once, when the modem is opened.
Start ==
  /\ ~ started /\ ~ stop
  /\ started' = TRUE
  /\ rpc' = "top"
  /\ UNCHANGED <<callerVars, sem, curr, currReq, stop, rptr, chunk, ioBroken, orphaned,
                 portVars, historyVars>>

\* Mutant of Stop: m_stop is not set.
StopWithoutFlag(s) ==
  /\ Alive
  /\ pc[s] = "idle"
  /\ started
  /\ wake' = TRUE
  /\ pc' = [pc EXCEPT ![s] = "join"]
  /\ UNCHANGED <<cmd, resp, result, mutex, issued, disturbed, chanVars, readerVars,
                 broken, tx, rx, historyVars>>

\* stop() up to m_thread.join(), and the join with the reader thread.
Stop(s) ==
  /\ Alive
  /\ pc[s] = "idle"
  /\ started
  /\ stop' = TRUE
  /\ wake' = TRUE
  /\ pc' = [pc EXCEPT ![s] = "join"]
  /\ UNCHANGED <<cmd, resp, result, mutex, issued, disturbed, sem, curr, currReq, started,
                 readerVars, broken, tx, rx, historyVars>>

Join(s) ==
  /\ pc[s] = "join"
  /\ rpc = "exit"
  /\ started' = FALSE
  /\ pc' = [pc EXCEPT ![s] = "idle"]
  /\ UNCHANGED <<cmd, resp, result, mutex, issued, disturbed, sem, curr, currReq, stop,
                 readerVars, portVars, historyVars>>

-----------------------------------------------------------------------------
(* The reader thread: readerLoop() and handleLine(). *)

\* The head of the loop, and the test of m_stop after readChunk().
ReaderTop ==
  /\ rpc = "top"
  /\ rpc' = IF stop THEN "exit" ELSE "poll"
  /\ UNCHANGED <<callerVars, chanVars, orphaned, rptr, chunk, ioBroken, portVars, historyVars>>

\* poll() reports data: a chunk of the lines that have come in, thrown away
\* when the channel has been stopped meanwhile.
PollData ==
  /\ rpc = "poll"
  /\ ~ broken
  /\ \E n \in 1 .. Len(rx) :
       /\ rx' = SubSeq(rx, n + 1, Len(rx))
       /\ chunk' = IF stop THEN <<>> ELSE SubSeq(rx, 1, n)
  /\ rpc' = IF stop THEN "exit" ELSE "line"
  /\ UNCHANGED <<callerVars, chanVars, orphaned, rptr, ioBroken, wake, broken, tx, historyVars>>

\* poll() reports the wake-up byte, or its 30 seconds are over.
PollWoken ==
  /\ rpc = "poll"
  /\ ~ broken
  /\ rx = <<>>
  /\ wake' = FALSE
  /\ rpc' = IF stop THEN "exit" ELSE "top"
  /\ UNCHANGED <<callerVars, chanVars, orphaned, rptr, chunk, ioBroken, broken, tx, rx, historyVars>>

\* poll() reports that the device is gone.
PollBroken ==
  /\ rpc = "poll"
  /\ broken
  /\ stop' = TRUE
  /\ rpc' = IF stop THEN "exit" ELSE "broken"
  /\ UNCHANGED <<callerVars, sem, curr, currReq, started, orphaned, rptr, chunk, ioBroken, portVars,
                 historyVars>>

\* m_curr_response is tested without the mutex and read again when it is used.
BrokenTest ==
  /\ rpc = "broken"
  /\ rptr' = curr
  /\ rpc' = IF curr = None THEN "brokenCall" ELSE "brokenFinish"
  /\ UNCHANGED <<callerVars, chanVars, orphaned, chunk, ioBroken, portVars, historyVars>>

\* The line is done with; the loop starts over after the last one of the chunk.
NextLine ==
  /\ chunk' = Tail(chunk)
  /\ rpc' = IF Tail(chunk) = <<>> THEN "top" ELSE "line"

\* What the reader takes m_curr_type and m_curr_prefix for.  Until the caller
\* that has published its response has published them too, each may be the one
\* of the command before, or the first values of the members; the tests of the
\* type may fall between its two values, and those of the prefix on half a
\* string, and the line is then for no one, as with NO_RESPONSE.
Seen ==
  IF curr # None /\ pc[curr] = "publish"
  THEN LET q == cmd[curr].req
       IN  [type : {currReq.type, q.type, "NO_RESPONSE"},
            prefix : {currReq.prefix, q.prefix}, wrapper : {q.wrapper}]
  ELSE {currReq}

\* Mutant of TestLine: m_curr_response is not tested before a final line.
TestLineUnchecked ==
  /\ rpc = "line"
  /\ IF IsFinal(Head(chunk), currReq)
     THEN rpc' = "finish" /\ rptr' = curr /\ UNCHANGED chunk
     ELSE NextLine /\ UNCHANGED rptr
  /\ UNCHANGED <<callerVars, chanVars, orphaned, ioBroken, portVars, historyVars>>

\* handleLine(): the test of m_curr_response and of what the line is.  A line
\* that is not for the running command ends here.
TestLine ==
  /\ rpc = "line"
  /\ IF curr = None
     THEN NextLine /\ UNCHANGED <<rptr, misjudged>>
     ELSE \/ /\ \E q \in Seen : IsFinal(Head(chunk), q)
             /\ rpc' = "finish" /\ rptr' = curr /\ UNCHANGED <<chunk, misjudged>>
          \/ /\ \E q \in Seen : IsCollected(Head(chunk), q, resp[curr].lines)
             /\ rpc' = "collect" /\ rptr' = curr /\ UNCHANGED chunk
             /\ misjudged' = misjudged \cup
                  {cmd[s].id : s \in {u \in {curr} :
                     ~ IsCollected(Head(chunk), cmd[u].req, resp[u].lines)}}
          \/ /\ \E q \in Seen : ~ IsFinal(Head(chunk), q)
                              /\ ~ IsCollected(Head(chunk), q, resp[curr].lines)
             /\ NextLine /\ UNCHANGED <<rptr, misjudged>>
  /\ UNCHANGED <<callerVars, chanVars, orphaned, ioBroken, portVars, urcs, answer>>

\* Both accesses are to an unprotected pointer: the build may use the value it
\* tested or load it again, and a null that it loads ends the process.
Deref == {rptr, curr}

\* m_curr_response->lines.push_back(), or its last line extended.
CollectLine ==
  /\ rpc = "collect"
  /\ \/ /\ None \in Deref
        /\ rpc' = "crashed"
        /\ UNCHANGED <<resp, chunk>>
     \/ \E p \in Deref \ {None} :
        /\ resp' = [resp EXCEPT ![p].lines = Append(@, Head(chunk))]
        /\ NextLine
  /\ UNCHANGED <<pc, cmd, result, mutex, issued, disturbed, chanVars, orphaned, rptr, ioBroken,
                 portVars, historyVars>>

\* m_curr_response->error is set by a final line.
FinishLine ==
  /\ rpc = "finish"
  /\ \/ /\ None \in Deref
        /\ rpc' = "crashed"
        /\ UNCHANGED resp
     \/ \E p \in Deref \ {None} :
        /\ resp' = [resp EXCEPT ![p].error =
                      IF Head(chunk).kind \in {"OK", "CONNECT"} THEN "SUCCESS" ELSE "ERROR"]
        /\ rpc' = "clear"
  /\ UNCHANGED <<pc, cmd, result, mutex, issued, disturbed, chanVars, orphaned, rptr, chunk,
                 ioBroken, portVars, historyVars>>

\* m_curr_response->error is set by the loss of the device.
FinishBroken ==
  /\ rpc = "brokenFinish"
  /\ \/ /\ None \in Deref
        /\ rpc' = "crashed"
        /\ UNCHANGED resp
     \/ \E p \in Deref \ {None} :
        /\ resp' = [resp EXCEPT ![p].error = "IO_BROKEN"]
        /\ rpc' = "brokenClear"
  /\ UNCHANGED <<pc, cmd, result, mutex, issued, disturbed, chanVars, orphaned, rptr, chunk,
                 ioBroken, portVars, historyVars>>

\* m_curr_response = nullptr; whichever call it now belongs to.
ClearCurrent ==
  /\ \/ rpc = "clear" /\ rpc' = "post"
     \/ rpc = "brokenClear" /\ rpc' = "brokenPost"
  /\ curr' = None
  /\ UNCHANGED <<callerVars, sem, currReq, stop, started, orphaned, rptr, chunk, ioBroken, portVars,
                 historyVars>>

\* The semaphore is posted.  After an error the pointer is reset once more,
\* when the caller may have returned and another call may have begun.
PostLine ==
  /\ rpc = "post"
  /\ sem' = sem + 1
  /\ IF Head(chunk).kind \in {"OK", "CONNECT"}
     THEN NextLine
     ELSE rpc' = "reclear" /\ UNCHANGED chunk
  /\ UNCHANGED <<callerVars, curr, currReq, stop, started, orphaned, rptr, ioBroken, portVars,
                 historyVars>>

ClearAgain ==
  /\ rpc = "reclear"
  /\ curr' = None
  /\ orphaned' = (orphaned \/ curr # None)
  /\ NextLine
  /\ UNCHANGED <<callerVars, sem, currReq, stop, started, rptr, ioBroken, portVars,
                 historyVars>>

\* Mutant of PostBroken: the waiting caller is not woken.
PostBrokenForgotten ==
  /\ rpc = "brokenPost"
  /\ rpc' = "brokenCall"
  /\ UNCHANGED <<callerVars, chanVars, orphaned, rptr, chunk, ioBroken, portVars,
                 historyVars>>

PostBroken ==
  /\ rpc = "brokenPost"
  /\ sem' = sem + 1
  /\ rpc' = "brokenCall"
  /\ UNCHANGED <<callerVars, curr, currReq, stop, started, orphaned, rptr, chunk, ioBroken, portVars,
                 historyVars>>

\* m_broken_io_handler(), then the head of the loop.
CallBroken ==
  /\ rpc = "brokenCall"
  /\ ioBroken' = TRUE
  /\ rpc' = "top"
  /\ UNCHANGED <<callerVars, chanVars, orphaned, rptr, chunk, portVars, historyVars>>

Reader ==
  \/ ReaderTop \/ PollData \/ PollWoken \/ PollBroken
  \/ BrokenTest \/ FinishBroken \/ PostBroken \/ CallBroken
  \/ TestLine \/ CollectLine \/ FinishLine \/ ClearCurrent \/ PostLine
  \/ ClearAgain

-----------------------------------------------------------------------------
(* The modem at the other end of the port, seen from what the code expects  *)
(* of it: it answers each command it reads, in order, with lines and one    *)
(* final line; it may fall silent and it sends unsolicited lines at will.   *)

\* The lines of an answer: lines with the prefix asked for, with a line of text
\* after one when the command asks for several lines; digits, or text.
Bodies(c) ==
  LET asked == [from |-> c.id, kind |-> "prefix", prefix |-> c.req.prefix]
      digit == [from |-> c.id, kind |-> "digit", prefix |-> None]
      text  == [from |-> c.id, kind |-> "text", prefix |-> None]
      any   == IF c.req.prefix = None THEN {<<>>} ELSE {<<>>, <<asked>>}
  IN  CASE c.req.type = "MULTILINE" -> {<<asked, text>>}
        [] c.req.type = "NUMERIC"   -> any \cup {<<digit>>}
        [] c.req.type \in {"NO_PREFIX", "NO_PREFIX_ALL"} -> {<<>>, <<text>>}
        [] OTHER                    -> any

\* The final lines: a call that dials has two more.
Finals(q, verdict) ==
  LET dial == q.type = "DIAL" IN
    IF verdict = "SUCCESS" THEN {"OK"} \cup {k \in {"CONNECT"} : dial}
                           ELSE {"ERROR"} \cup {k \in {"NO CARRIER"} : dial}

ModemAnswers ==
  /\ tx # <<>>
  /\ tx' = Tail(tx)
  /\ \E body \in Bodies(Head(tx)), verdict \in {"SUCCESS", "ERROR"} :
       /\ \E final \in Finals(Head(tx).req, verdict) :
            rx' = Append(rx \o body, [from |-> Head(tx).id, kind |-> final, prefix |-> None])
       /\ answer' = [answer EXCEPT ![Head(tx).id] =
                       [verdict |-> verdict, lines |-> body]]
  /\ UNCHANGED <<callerVars, chanVars, readerVars, wake, broken, urcs, misjudged>>

\* An unsolicited line may come between two lines of an answer.
UnsolicitedLine ==
  /\ urcs < MaxUrcs
  /\ urcs' = urcs + 1
  /\ \E p \in Prefixes, n \in 0 .. Len(rx) :
       rx' = SubSeq(rx, 1, n) \o <<[from |-> 0, kind |-> "prefix", prefix |-> p]>>
                              \o SubSeq(rx, n + 1, Len(rx))
  /\ UNCHANGED <<callerVars, chanVars, readerVars, wake, broken, tx, answer, misjudged>>

\* The USB device is unplugged or resets itself.
DeviceLost ==
  /\ ~ broken
  /\ broken' = TRUE
  /\ UNCHANGED <<callerVars, chanVars, readerVars, wake, tx, rx, historyVars>>

Modem == ModemAnswers \/ UnsolicitedLine \/ DeviceLost

-----------------------------------------------------------------------------
NoAnswer == [verdict |-> "TIMEOUT", lines |-> <<>>]

Init ==
  /\ pc = [s \in Senders |-> "idle"]
  /\ cmd = [s \in Senders |-> NoCall]
  /\ resp = [s \in Senders |-> NoResponse]
  /\ result = [s \in Senders |-> None]
  /\ mutex = None
  /\ sem = 0
  /\ curr = None
  /\ currReq = NoRequest
  /\ stop = FALSE /\ started = FALSE
  /\ rpc = "off" /\ rptr = None
  /\ chunk = <<>>
  /\ ioBroken = FALSE
  /\ wake = FALSE /\ broken = FALSE
  /\ tx = <<>> /\ rx = <<>>
  /\ issued = 0 /\ urcs = 0
  /\ answer = [i \in Ids |-> NoAnswer] /\ misjudged = {}
  /\ disturbed = FALSE /\ orphaned = FALSE

Sender(s) ==
  \/ \E q \in Requests : Call(s, q)
  \/ Lock(s) \/ Publish(s) \/ Write(s) \/ WriteFails(s) \/ WaitPosted(s) \/ WaitTimesOut(s)
  \/ Release(s) \/ Return(s) \/ Join(s)

Next ==
  \/ Start
  \/ \E s \in Senders : Sender(s)
  \/ \E s \in Stoppers : Stop(s)
  \/ Reader
  \/ Modem

Spec == Init /\ [][Next]_vars

-----------------------------------------------------------------------------
(* Properties. *)

CallerTypeOK ==
  /\ pc \in [Senders -> SenderPCs]
  /\ cmd \in [Senders -> [id : 0 .. MaxCmds, req : Request]]
  /\ resp \in [Senders -> Response]
  /\ result \in [Senders -> Errors \cup {None}]
  /\ mutex \in Senders \cup {None}
  /\ issued \in 0 .. MaxCmds
  /\ disturbed \in BOOLEAN

ChanTypeOK ==
  /\ sem \in Nat
  /\ curr \in Senders \cup {None}
  /\ currReq \in Request
  /\ stop \in BOOLEAN /\ started \in BOOLEAN

ReaderTypeOK ==
  /\ rpc \in ReaderPCs
  /\ rptr \in Senders \cup {None}
  /\ chunk \in Seq(Line)
  /\ ioBroken \in BOOLEAN /\ orphaned \in BOOLEAN

PortTypeOK ==
  /\ wake \in BOOLEAN /\ broken \in BOOLEAN
  /\ tx \in Seq([id : Ids, req : Request])
  /\ rx \in Seq(Line)

HistoryTypeOK ==
  /\ urcs \in 0 .. MaxUrcs
  /\ answer \in [Ids -> [verdict : {"SUCCESS", "ERROR", "TIMEOUT"}, lines : Seq(Line)]]
  /\ misjudged \subseteq 0 .. MaxCmds

\* Every variable has its type; the semaphore is never taken below zero.
TypeOK == CallerTypeOK /\ ChanTypeOK /\ ReaderTypeOK /\ PortTypeOK /\ HistoryTypeOK

\* The thread is between at_cmd_mutex.lock() and unlock().
Inside(s) == pc[s] \in {"publish", "write", "wait", "done"}

\* One thread at a time is inside sendCommand(), and the response that the
\* reader may fill is never the one of a call that has returned: a Response is
\* on the stack of its caller.
CurrOwned ==
  /\ \A s \in Senders : Inside(s) <=> mutex = s
  /\ curr # None => mutex = curr

\* The reader tests m_curr_response and uses it later without a lock.  That is
\* safe as long as no caller gives up: only a command that timed out or could
\* not be written can take the pointer away under the reader's hands.
CrashNeedsGivingUp == ~ Alive => disturbed

\* The lines that are of an answer are those of part, in its order.
OwnPart(lines, part) ==
  \E at \in [DOMAIN part -> DOMAIN lines] :
    /\ \A i, j \in DOMAIN part : i < j => at[i] < at[j]
    /\ \A i \in DOMAIN part : lines[at[i]] = part[i]
    /\ \A k \in DOMAIN lines : lines[k].from # 0 => \E i \in DOMAIN part : at[i] = k

\* What a caller gets is the answer of the modem to its own command, and all
\* the lines of it; what else is taken for its lines has the prefix it asked for,
\* or it asked for everything, or it came after the response was published and
\* before its kind and prefix were.  All this as long as no command has timed
\* out or failed to be written; a caller that is told the device is gone is
\* told the truth.
AnswerIsOwn ==
  ~ disturbed => \A s \in Senders : pc[s] = "done" =>
    \/ resp[s].error = "IO_BROKEN" /\ broken
    \/ LET mine == answer[cmd[s].id]
       IN  /\ resp[s].error = mine.verdict
           /\ OwnPart(resp[s].lines, mine.lines)
           /\ \A i \in DOMAIN resp[s].lines :
                \/ resp[s].lines[i].from # 0 \/ cmd[s].req.type = "NO_PREFIX_ALL"
                \/ resp[s].lines[i].prefix = cmd[s].req.prefix
                \/ cmd[s].id \in misjudged

\* When the reader has found the device gone and has reported it, no caller is
\* left asleep until its timeout: response and prefix are published before the
\* command is written, so either the reader sees them or the write fails.  Only
\* a call whose response the reader had cleared by mistake is forgotten.
LossWakesCaller ==
  ioBroken /\ ~ orphaned => \A s \in Senders : pc[s] = "wait" => sem > 0

\* When the reader has handled everything the modem has sent and the modem has
\* answered, the final line, whatever its kind for this call, has ended the wait.
AnswerEndsWait ==
  (~ disturbed /\ ~ orphaned /\ rx = <<>> /\ chunk = <<>> /\ rpc \in {"top", "poll"}) =>
    \A s \in Senders : pc[s] = "wait" /\ answer[cmd[s].id] # NoAnswer => sem > 0

-----------------------------------------------------------------------------
(* What the channel promises its callers. *)

\* The channel implements remote calls: see AtCommands.  A call is active from
\* lock to return; its answer is what the modem said to that very command.
CallState == [s \in Senders |-> CASE pc[s] = "lock"     -> "queued"
                                  [] Inside(s)          -> "active"
                                  [] pc[s] = "returned" -> "returned"
                                  [] OTHER              -> "idle"]

CallReply == [s \in Senders |-> IF pc[s] = "returned" THEN result[s] ELSE "TIMEOUT"]

CallSaid == IF mutex = None THEN "TIMEOUT" ELSE answer[cmd[mutex].id].verdict

Commands == INSTANCE AtCommands WITH
  Callers <- Senders, state <- CallState, reply <- CallReply, said <- CallSaid,
  lost <- broken, faulty <- disturbed

\* Every behaviour of the channel is one of AtCommands: calls are served one at
\* a time and, until one is given up, each is told what the modem said to it.
ImplementsCommands == Commands!Spec

=============================================================================

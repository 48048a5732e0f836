----------------------------- MODULE BaseAtModem -----------------------------
(***************************************************************************)
(* How BaseAtModem::open() (src/usbmodem/src/Modem/BaseAt.cpp) uses the    *)
(* channel.  The thread of the Loop is the only one that sends commands    *)
(* once the modem is open.  When one of them fails with a timeout or an    *)
(* I/O error, the handler of errors pings the modem on that same thread    *)
(* and, when no ping is answered, emits EvIoBroken and stops the channel.  *)
(* When the reader finds the device gone, a Loop timer does the same.      *)
(* EvIoBroken makes the service stop its loops; the modem is then closed.  *)
(***************************************************************************)
EXTENDS AtChannel

CONSTANTS
  LoopThread,  \* the thread of the Loop
  PingTries,   \* 32 in the code
  MaxWork      \* bound: commands other than pings

\* ping(): sendCommandNoResponse("AT").
Ping == [type |-> "NO_RESPONSE", prefix |-> None, wrapper |-> FALSE]

ASSUME LoopAssumption ==
  /\ Senders = {LoopThread} /\ Stoppers = {LoopThread}
  /\ Ping \in Requests
  /\ PingTries \in Nat \ {0}
  /\ MaxWork \in Nat

VARIABLES
  selfTest,   \* m_self_test
  tries,      \* pings that the loop of ping() may still send
  timer,      \* the Loop timer of the onIoBroken() handler is queued
  reported,   \* EvIoBroken has been emitted
  shutdown,   \* the loops have been told to stop
  hung,       \* the modem has fallen silent for good
  work        \* commands other than pings issued so far

modemObjVars == <<selfTest, tries, timer, reported, shutdown, hung, work>>
allVars == <<vars, modemObjVars>>

t == LoopThread

MInit ==
  /\ Init
  /\ selfTest = FALSE /\ tries = 0
  /\ timer = FALSE /\ reported = FALSE
  /\ shutdown = FALSE /\ hung = FALSE
  /\ work = 0

\* A timer of the Loop runs a command of the modem's code.
RunCommand ==
  /\ ~ selfTest /\ ~ shutdown
  /\ work < MaxWork
  /\ work' = work + 1
  /\ \E q \in Requests : Call(t, q)
  /\ UNCHANGED <<selfTest, tries, timer, reported, shutdown, hung>>

\* Mutant of CommandReturns: a timeout starts no self test.
TimeoutIgnored ==
  LET failed == pc[t] = "returned" /\ result[t] \in {"IO_ERROR"}
  IN  /\ Return(t)
      /\ IF selfTest
         THEN IF result[t] = "SUCCESS"
              THEN selfTest' = FALSE /\ tries' = 0
              ELSE selfTest' = TRUE /\ tries' = tries - 1
         ELSE IF failed
              THEN selfTest' = TRUE /\ tries' = PingTries
              ELSE UNCHANGED <<selfTest, tries>>
      /\ UNCHANGED <<timer, reported, shutdown, hung, work>>

\* Mutant of CommandReturns: a failed ping does not use up a try.
PingsNotCounted ==
  LET failed == pc[t] = "returned" /\ result[t] \in {"IO_ERROR", "TIMEOUT"}
  IN  /\ Return(t)
      /\ IF selfTest
         THEN IF result[t] = "SUCCESS"
              THEN selfTest' = FALSE /\ tries' = 0
              ELSE selfTest' = TRUE /\ tries' = tries
         ELSE IF failed
              THEN selfTest' = TRUE /\ tries' = PingTries
              ELSE UNCHANGED <<selfTest, tries>>
      /\ UNCHANGED <<timer, reported, shutdown, hung, work>>

\* sendCommand() returns, after onAnyError() when it has failed.  The handler
\* starts a self test unless one is running: a ping that fails only uses up a
\* try, and one that succeeds ends the test.
CommandReturns ==
  LET failed == pc[t] = "returned" /\ result[t] \in {"IO_ERROR", "TIMEOUT"}
  IN  /\ Return(t)
      /\ IF selfTest
         THEN IF result[t] = "SUCCESS"
              THEN selfTest' = FALSE /\ tries' = 0
              ELSE selfTest' = TRUE /\ tries' = tries - 1
         ELSE IF failed
              THEN selfTest' = TRUE /\ tries' = PingTries
              ELSE UNCHANGED <<selfTest, tries>>
      /\ UNCHANGED <<timer, reported, shutdown, hung, work>>

SendPing ==
  /\ selfTest /\ tries > 0
  /\ Call(t, Ping)
  /\ UNCHANGED modemObjVars

\* All pings have failed: emit<EvIoBroken>() and m_at.stop(), which waits for
\* the reader; m_self_test is reset when it returns.
PingsFailed ==
  /\ selfTest /\ tries = 0
  /\ Stop(t)
  /\ reported' = TRUE
  /\ UNCHANGED <<selfTest, tries, timer, shutdown, hung, work>>

\* The timer of onIoBroken(): the same, where stop() does nothing on a channel
\* that a self test has stopped before.
IoBrokenTimer ==
  /\ timer /\ ~ selfTest /\ ~ shutdown
  /\ timer' = FALSE
  /\ reported' = TRUE
  /\ \/ Stop(t)
     \/ ~ started /\ pc[t] = "idle" /\ UNCHANGED vars
  /\ UNCHANGED <<selfTest, tries, shutdown, hung, work>>

StopReturned ==
  /\ Join(t)
  /\ selfTest' = FALSE
  /\ UNCHANGED <<tries, timer, reported, shutdown, hung, work>>

\* emit() queues a timer too: the handler of EvIoBroken, ModemService::setError,
\* stops the loops.  A signal does so at any time; the Loop ends when the
\* callback that it runs has returned.
HandleIoBroken ==
  /\ reported /\ ~ shutdown
  /\ Alive /\ pc[t] = "idle" /\ ~ selfTest
  /\ shutdown' = TRUE
  /\ UNCHANGED <<vars, selfTest, tries, timer, reported, hung, work>>

Signal ==
  /\ started /\ ~ shutdown
  /\ shutdown' = TRUE
  /\ UNCHANGED <<vars, selfTest, tries, timer, reported, hung, work>>

\* close(), when the thread of the Loop has ended.
Close ==
  /\ shutdown /\ ~ selfTest
  /\ Stop(t)
  /\ UNCHANGED modemObjVars

\* Mutant of ReaderStep: m_broken_io_handler is not set.
ReaderStepWithoutHandler ==
  /\ Reader
  /\ UNCHANGED modemObjVars

\* The reader thread; its m_broken_io_handler queues the timer.
ReaderStep ==
  /\ Reader
  /\ timer' = (timer \/ rpc = "brokenCall")
  /\ UNCHANGED <<selfTest, tries, reported, shutdown, hung, work>>

\* The steps of sendCommand() that concern the channel alone.
ChannelStep ==
  /\ \/ Lock(t) \/ Publish(t) \/ Write(t) \/ WriteFails(t) \/ WaitPosted(t) \/ WaitTimesOut(t)
     \/ Release(t)
  /\ UNCHANGED modemObjVars

\* open() starts the channel.
Open ==
  /\ Start
  /\ UNCHANGED modemObjVars

ModemHangs ==
  /\ ~ hung
  /\ hung' = TRUE
  /\ UNCHANGED <<vars, selfTest, tries, timer, reported, shutdown, work>>

\* The modem, without unsolicited lines, which the channel only passes on.
ModemStep ==
  /\ \/ ~ hung /\ ModemAnswers
     \/ DeviceLost
  /\ UNCHANGED modemObjVars

MNext ==
  \/ Open \/ RunCommand \/ CommandReturns \/ SendPing \/ PingsFailed
  \/ IoBrokenTimer \/ StopReturned \/ HandleIoBroken \/ Close
  \/ ReaderStep \/ ChannelStep
  \/ Signal \/ ModemHangs \/ ModemStep

\* Two threads that are scheduled, and time that passes.  Nothing is asked of
\* the modem, of signals, or of the timers that run commands.
MFairness ==
  /\ WF_allVars(Open)
  /\ WF_allVars(ReaderStep)
  /\ WF_allVars(ChannelStep)
  /\ WF_allVars(CommandReturns \/ SendPing \/ PingsFailed \/ StopReturned)
  /\ SF_allVars(IoBrokenTimer)
  /\ SF_allVars(HandleIoBroken)
  /\ WF_allVars(Close)

MSpec == MInit /\ [][MNext]_allVars /\ MFairness

-----------------------------------------------------------------------------
(* Properties. *)

MTypeOK ==
  /\ selfTest \in BOOLEAN /\ timer \in BOOLEAN /\ reported \in BOOLEAN
  /\ shutdown \in BOOLEAN /\ hung \in BOOLEAN
  /\ tries \in 0 .. PingTries /\ work \in 0 .. MaxWork

\* The loss of the device is reported, whatever the two threads are doing when
\* it happens, unless the program is being shut down anyway.
DeviceLossReported == broken ~> (reported \/ shutdown \/ ~ Alive)

\* Nothing of what the modem has sent is still on its way.
Quiet ==
  /\ rx = <<>> /\ chunk = <<>> /\ sem = 0
  /\ rpc \in {"top", "poll"}

\* A modem that has fallen silent is reported, once a command waits for it:
\* "Detect modem hangs" (BaseAt.cpp:113).
SilentModemReported ==
  (hung /\ Quiet /\ pc[t] = "wait" /\ ~ selfTest) ~> (reported \/ shutdown \/ ~ Alive)

\* A self test that ends has no ping left over: one has been answered, or the
\* channel is stopped.
SelfTestStops ==
  [][selfTest /\ ~ selfTest' => tries' = 0 /\ (result[t] = "SUCCESS" \/ ~ started')]_allVars

\* Every self test ends, and ends with the channel stopped when it has failed.
SelfTestEnds == (selfTest ~> (~ selfTest \/ ~ Alive)) /\ SelfTestStops

\* A shutdown ends with the reader gone and the thread of the Loop outside the
\* channel: finishModem() is not left waiting in join().
ShutdownCompletes == shutdown ~> (~ Alive \/ (~ started /\ rpc = "exit" /\ pc[t] = "idle"))

=============================================================================

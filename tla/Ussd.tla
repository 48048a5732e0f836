--------------------------------- MODULE Ussd ---------------------------------
(***************************************************************************)
(* USSD, src/usbmodem/src/Modem/BaseAt/Ussd.cpp and the two calls of       *)
(* ModemService/Api.cpp that use it.  Requests are jobs of the Loop, which *)
(* waits in its commands; +CUSD lines are handled on the reader's thread,  *)
(* which posts the answer as a job.  The protocol does not say which       *)
(* request a +CUSD line answers.                                           *)
(***************************************************************************)
EXTENDS Naturals, Sequences

CONSTANTS
  Requests,   \* calls of sendUssd
  Answers,    \* those that are an "answer" in a dialogue
  Invalid,    \* those whose text is not valid
  None,
  MaxCancels, \* bound: calls of cancelUssd
  MaxLines,   \* bound: +CUSD lines that come
  MaxFaults   \* bound: commands that fail

ASSUME UssdAssumption ==
  /\ Answers \subseteq Requests /\ Invalid \subseteq Requests /\ None \notin Requests
  /\ MaxCancels \in Nat /\ MaxLines \in Nat /\ MaxFaults \in Nat

VARIABLES
  called,     \* the requests made so far
  cancels, lines, faults,  \* how many of each so far
  jobs,       \* the due timers of the Loop, in order
  step,       \* the command the Loop thread waits in, or "free"
  current,    \* the request it works for
  callback,   \* m_ussd_callback: the request that waits, or None
  requestId,  \* m_ussd_request_id
  timer,      \* m_ussd_timeout: the request of the live timer, or None
  session,    \* m_ussd_session
  reader,     \* the line the reader's thread works on, or None
  replies,    \* [Requests -> the replies to each]
  raced       \* history: the id changed while the reader was at work

inputVars == <<called, cancels, lines, faults>>
loopVars == <<jobs, step, current>>
ussdVars == <<callback, requestId, timer, session>>
vars == <<inputVars, loopVars, ussdVars, reader, replies, raced>>

Steps == {"free", "closeSession", "cancelBusy", "send", "cancel", "cancelStray"}

Init ==
  /\ called = {} /\ cancels = 0 /\ lines = 0 /\ faults = 0
  /\ jobs = <<>> /\ step = "free" /\ current = None
  /\ callback = None /\ requestId = 0 /\ timer = None /\ session = FALSE
  /\ reader = None /\ replies = [r \in Requests |-> <<>>] /\ raced = FALSE

Replied(r, what) == replies' = [replies EXCEPT ![r] = Append(@, what)]
Error == [error |-> TRUE]
Post(job) == jobs' = Append(jobs, job)

-----------------------------------------------------------------------------
(* Calls, and the network. *)

ApiSendUssd(r) ==
  /\ r \notin called /\ called' = called \cup {r}
  /\ Post([do |-> "send", for |-> r])
  /\ UNCHANGED <<cancels, lines, faults, step, current, ussdVars, reader, replies, raced>>

ApiCancelUssd ==
  /\ cancels < MaxCancels /\ cancels' = cancels + 1
  /\ Post([do |-> "cancel"])
  /\ UNCHANGED <<called, lines, faults, step, current, ussdVars, reader, replies, raced>>

\* handleCusd() and the first half of handleUssdResponse(): a line when nobody waits
\* is dropped.  The network answers a request, late or never, or says something of
\* its own; the dialogue goes on or is over.
NetworkSpeaks ==
  /\ reader = None /\ lines < MaxLines /\ lines' = lines + 1
  /\ \E code \in {0, 1} :
       reader' = IF callback = None THEN None ELSE [code |-> code, waiting |-> callback]
  /\ UNCHANGED <<called, cancels, faults, loopVars, ussdVars, replies, raced>>

\* The second half of handleUssdResponse(): the id is read, without a lock.
ReaderPosts ==
  /\ reader # None
  /\ Post([do |-> "answer", id |-> requestId, line |-> reader])
  /\ reader' = None
  /\ UNCHANGED <<inputVars, step, current, ussdVars, replies, raced>>

-----------------------------------------------------------------------------
(* The thread of the Loop. *)

\* Mutant of CancelUssd: the one that waits is not told.
CanceledSilently(rest) ==
  /\ callback' = None /\ session' = FALSE /\ timer' = None
  /\ jobs' = rest

\* cancelUssd() up to its command: who waits is told by a job.
CancelUssd(rest) ==
  /\ callback' = None /\ session' = FALSE /\ timer' = None
  /\ jobs' = rest \o (IF callback = None THEN <<>> ELSE <<[do |-> "canceled", for |-> callback]>>)

\* sendUssd() from the new id to its command.
StartSending(r) ==
  /\ step' = "send" /\ current' = r
  /\ requestId' = requestId + 1 /\ callback' = r
  /\ raced' = (raced \/ reader # None)

\* The job of apiSendUssd().  What is refused gets an error from the callback and
\* one from the call.
SendJob ==
  /\ step = "free" /\ jobs # <<>> /\ Head(jobs).do = "send"
  /\ LET r == Head(jobs).for
     IN  \/ /\ r \notin Answers /\ session
            /\ CancelUssd(Tail(jobs)) /\ step' = "closeSession" /\ current' = r
            /\ UNCHANGED <<requestId, replies, raced>>
         \/ /\ r \in Answers \/ ~ session
            /\ r \in Invalid
            /\ Replied(r, Error) /\ jobs' = Tail(jobs)
            /\ UNCHANGED <<step, current, ussdVars, raced>>
         \/ /\ r \in Answers \/ ~ session
            /\ r \notin Invalid /\ callback # None
            /\ CancelUssd(Tail(jobs)) /\ step' = "cancelBusy" /\ current' = r
            /\ UNCHANGED <<requestId, replies, raced>>
         \/ /\ r \in Answers \/ ~ session
            /\ r \notin Invalid /\ callback = None
            /\ jobs' = Tail(jobs) /\ StartSending(r)
            /\ UNCHANGED <<timer, session, replies>>
  /\ UNCHANGED <<called, cancels, lines, faults, reader>>

\* AT+CUSD=2 has been answered; when it closed a session its result is not looked at.
SendAfterCancel ==
  /\ step \in {"closeSession", "cancelBusy"}
  /\ \/ /\ current \notin Invalid
        /\ faults' = faults /\ StartSending(current)
        /\ UNCHANGED <<jobs, timer, session, replies>>
     \/ /\ current \in Invalid
        /\ Replied(current, Error) /\ step' = "free" /\ current' = None
        /\ UNCHANGED <<faults, jobs, ussdVars, raced>>
     \/ /\ step = "cancelBusy" /\ faults < MaxFaults
        /\ faults' = faults + 1
        /\ Replied(current, Error) /\ step' = "free" /\ current' = None
        /\ UNCHANGED <<jobs, ussdVars, raced>>
  /\ UNCHANGED <<called, cancels, lines, reader>>

\* AT+CUSD=1 has been answered; a job that has come meanwhile runs after this.
SendDone ==
  /\ step = "send" /\ step' = "free" /\ current' = None
  /\ \/ /\ timer' = current
        /\ UNCHANGED <<faults, callback, replies>>
     \/ /\ faults < MaxFaults /\ faults' = faults + 1
        /\ callback' = None /\ Replied(current, Error)
        /\ UNCHANGED timer
  /\ UNCHANGED <<called, cancels, lines, jobs, requestId, session, reader, raced>>

\* The timer of sendUssd(): the session stays as it was.
TimeoutFires ==
  /\ step = "free" /\ timer # None
  /\ Replied(timer, Error)
  /\ timer' = None /\ callback' = None
  /\ UNCHANGED <<inputVars, loopVars, requestId, session, reader, raced>>

\* apiCancelUssd(), its result is that of the command.
CancelJob ==
  /\ step = "free" /\ jobs # <<>> /\ Head(jobs).do = "cancel"
  /\ CancelUssd(Tail(jobs)) /\ step' = "cancel"
  /\ UNCHANGED <<inputVars, current, requestId, reader, replies, raced>>

CancelDone ==
  /\ step \in {"cancel", "cancelStray"} /\ step' = "free"
  /\ UNCHANGED <<inputVars, jobs, current, ussdVars, reader, replies, raced>>

CanceledJob ==
  /\ step = "free" /\ jobs # <<>> /\ Head(jobs).do = "canceled"
  /\ Replied(Head(jobs).for, Error) /\ jobs' = Tail(jobs)
  /\ UNCHANGED <<inputVars, step, current, ussdVars, reader, raced>>

\* Mutant of AnswerJob: the timer is not cleared.
TimerLeft ==
  /\ step = "free" /\ jobs # <<>> /\ Head(jobs).do = "answer"
  /\ LET job == Head(jobs)
     IN  IF job.id = requestId
         THEN /\ callback' = None /\ session' = (job.line.code = 1)
              /\ IF callback = None THEN UNCHANGED replies ELSE Replied(callback, job.line)
              /\ jobs' = Tail(jobs) /\ UNCHANGED <<step, timer>>
         ELSE IF callback = None /\ job.line.code = 1
         THEN CancelUssd(Tail(jobs)) /\ step' = "cancelStray" /\ UNCHANGED replies
         ELSE jobs' = Tail(jobs) /\ UNCHANGED <<step, callback, timer, session, replies>>
  /\ UNCHANGED <<inputVars, current, requestId, reader, raced>>

\* Mutant of AnswerJob: the number of the request is not compared.
NumberNotCompared ==
  /\ step = "free" /\ jobs # <<>> /\ Head(jobs).do = "answer"
  /\ callback' = None /\ timer' = None /\ session' = (Head(jobs).line.code = 1)
  /\ IF callback = None THEN UNCHANGED replies ELSE Replied(callback, Head(jobs).line)
  /\ jobs' = Tail(jobs)
  /\ UNCHANGED <<step, inputVars, current, requestId, reader, raced>>

\* The job that handleUssdResponse() posts.
AnswerJob ==
  /\ step = "free" /\ jobs # <<>> /\ Head(jobs).do = "answer"
  /\ LET job == Head(jobs)
     IN  IF job.id = requestId
         THEN /\ callback' = None /\ timer' = None /\ session' = (job.line.code = 1)
              /\ IF callback = None THEN UNCHANGED replies ELSE Replied(callback, job.line)
              /\ jobs' = Tail(jobs) /\ UNCHANGED step
         ELSE IF callback = None /\ job.line.code = 1
         THEN CancelUssd(Tail(jobs)) /\ step' = "cancelStray" /\ UNCHANGED replies
         ELSE jobs' = Tail(jobs) /\ UNCHANGED <<step, callback, timer, session, replies>>
  /\ UNCHANGED <<inputVars, current, requestId, reader, raced>>

LoopNext ==
  SendJob \/ SendAfterCancel \/ SendDone \/ CancelJob \/ CancelDone \/ CanceledJob \/ AnswerJob

Next ==
  \/ \E r \in Requests : ApiSendUssd(r)
  \/ ApiCancelUssd \/ NetworkSpeaks
  \/ ReaderPosts \/ LoopNext \/ TimeoutFires

\* Jobs run, commands end, timers fire and the reader goes on; nothing is assumed of
\* the network.
Fairness == WF_vars(LoopNext) /\ WF_vars(ReaderPosts) /\ WF_vars(TimeoutFires)

Spec == Init /\ [][Next]_vars /\ Fairness

-----------------------------------------------------------------------------
(* Properties. *)

\* Every call is replied to: by an answer, by its timeout, by whoever cancels it or
\* takes its place, or because the command failed.
Answered == \A r \in Requests : r \in called ~> replies[r] # <<>>

\* Between two steps of the Loop a request waits exactly as long as its timer runs:
\* none waits without a timeout, and no timer is left that would end a later one.
WaitingHasTimer == step = "free" => timer = callback

\* A call gets one result, and a line only if it waited when the line came: what came
\* for an earlier one is dropped by its number.  Not when the number was read after
\* it had changed (Ussd.cpp:13).  Whom the network meant nobody can know.
AnswerInTime ==
  \A r \in Requests : \A i \in DOMAIN replies[r] :
    replies[r][i] # Error /\ ~ raced => i = 1 /\ replies[r][i].waiting = r

=============================================================================

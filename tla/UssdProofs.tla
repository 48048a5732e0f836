------------------------------ MODULE UssdProofs ------------------------------
(***************************************************************************)
(* Theorems about Ussd for any set of requests, whichever of them answer   *)
(* in a dialogue or are invalid, and any number of lines, calls and        *)
(* failures.                                                               *)
(***************************************************************************)
EXTENDS Ussd, TLAPS

-----------------------------------------------------------------------------
(* Types. *)

Line == [code : {0, 1}, waiting : Requests]
Job == [do : {"send", "canceled"}, for : Requests] \cup [do : {"cancel"}]
         \cup [do : {"answer"}, id : Nat, line : Line]

TypeOK ==
  /\ called \subseteq Requests
  /\ jobs \in Seq(Job) /\ step \in Steps
  /\ current \in Requests \cup {None} /\ callback \in Requests \cup {None}
  /\ timer \in Requests \cup {None}
  /\ step \in {"closeSession", "cancelBusy", "send"} => current \in Requests
  /\ requestId \in Nat
  /\ reader \in Line \cup {None}
  /\ replies \in [Requests -> Seq(Line \cup {Error})]
  /\ raced \in BOOLEAN

-----------------------------------------------------------------------------
(* The request that waits, and its timer. *)

\* Who waits while the Loop is in a command: the request that is sent, without a timer
\* yet; nobody while AT+CUSD=2 is on its way.
Waiting ==
  /\ WaitingHasTimer
  /\ step = "send" => callback = current /\ timer = None
  /\ step \notin {"free", "send"} => callback = None /\ timer = None

-----------------------------------------------------------------------------
(* What a request is replied to with. *)

Elements(q) == {q[k] : k \in DOMAIN q}

\* A job of this kind that is about this request is queued.
Queued(q, what, r) == \E job \in Elements(q) : job.do = what /\ job.for = r

\* No request is queued twice.
Once(q) ==
  \A j, k \in DOMAIN q :
    q[j].do = "send" /\ q[k].do = "send" /\ q[j].for = q[k].for => j = k

\* The request that the Loop works for and has not yet made the waiting one.
Held(r) == step \in {"closeSession", "cancelBusy"} /\ current = r

\* A request is new, queued, held, waiting or over.  It is queued once, and it is
\* replied to when it is over.
Pending(r) == r \notin called \/ Queued(jobs, "send", r) \/ Held(r) \/ callback = r

Fresh ==
  /\ Once(jobs)
  /\ \A r \in Requests :
       /\ r \notin called => ~ Queued(jobs, "send", r) /\ ~ Held(r) /\ callback # r
       /\ Queued(jobs, "send", r) => ~ Held(r) /\ callback # r
       /\ Held(r) => callback # r
       /\ Queued(jobs, "canceled", r) => ~ Pending(r)
       /\ Pending(r) => replies[r] = <<>>

\* A line that is still to be handed over, with the number that the waiting request has
\* now, came while this one waited; but when the number was read too late.
Numbered ==
  /\ \A job \in Elements(jobs) : job.do = "answer" => job.id <= requestId
  /\ ~ raced /\ callback # None =>
       /\ reader # None => reader.waiting = callback
       /\ \A job \in Elements(jobs) :
            job.do = "answer" /\ job.id = requestId => job.line.waiting = callback

UssdInv == TypeOK /\ Waiting /\ Fresh /\ Numbered /\ AnswerInTime

-----------------------------------------------------------------------------
(* Lemmas about the queue of jobs. *)

\* Taking the first job.
LEMMA FirstJob ==
  ASSUME NEW q \in Seq(Job), q # <<>>
  PROVE  /\ Head(q) \in Job /\ Head(q) \in Elements(q) /\ Tail(q) \in Seq(Job)
         /\ Elements(Tail(q)) \subseteq Elements(q)
         /\ Once(q) => Once(Tail(q))
         /\ Once(q) /\ Head(q).do = "send" => ~ Queued(Tail(q), "send", Head(q).for)
<1>1. /\ Head(q) \in Job /\ Tail(q) \in Seq(Job)
      /\ 1 \in DOMAIN q /\ Head(q) = q[1]
  OBVIOUS
<1>2. \A k \in DOMAIN Tail(q) : k + 1 \in DOMAIN q /\ Tail(q)[k] = q[k + 1] /\ k \in Nat \ {0}
  OBVIOUS
<1>3. Elements(Tail(q)) \subseteq Elements(q) /\ Head(q) \in Elements(q)
  BY <1>1, <1>2 DEF Elements
<1>4. Once(q) => Once(Tail(q))
  <2> SUFFICES ASSUME Once(q), NEW j \in DOMAIN Tail(q), NEW k \in DOMAIN Tail(q),
                      Tail(q)[j].do = "send", Tail(q)[k].do = "send",
                      Tail(q)[j].for = Tail(q)[k].for
               PROVE  j = k
    BY DEF Once
  <2>1. j + 1 = k + 1
    BY <1>2 DEF Once
  <2> QED BY <2>1, <1>2
<1>5. Once(q) /\ Head(q).do = "send" => ~ Queued(Tail(q), "send", Head(q).for)
  <2> SUFFICES ASSUME Once(q), q[1].do = "send", NEW k \in DOMAIN Tail(q),
                      Tail(q)[k].do = "send", Tail(q)[k].for = q[1].for
               PROVE  FALSE
    BY <1>1 DEF Queued, Elements
  <2>1. k + 1 = 1
    BY <1>1, <1>2 DEF Once
  <2> QED BY <2>1, <1>2
<1> QED BY <1>1, <1>3, <1>4, <1>5

\* Posting a job.
LEMMA NewJob ==
  ASSUME NEW q \in Seq(Job), NEW job \in Job
  PROVE  /\ Append(q, job) \in Seq(Job)
         /\ Elements(Append(q, job)) = Elements(q) \cup {job}
         /\ Once(q) /\ (job.do = "send" => ~ Queued(q, "send", job.for)) =>
              Once(Append(q, job))
<1> DEFINE a == Append(q, job)
<1>1. /\ a \in Seq(Job)
      /\ DOMAIN a = DOMAIN q \cup {Len(q) + 1} /\ Len(q) + 1 \notin DOMAIN q
      /\ a[Len(q) + 1] = job /\ \A k \in DOMAIN q : a[k] = q[k]
  OBVIOUS
<1> HIDE DEF a
<1>2. Elements(a) = Elements(q) \cup {job}
  BY <1>1 DEF Elements
<1>3. ASSUME Once(q), job.do = "send" => ~ Queued(q, "send", job.for) PROVE Once(a)
  BY <1>1, <1>3 DEF Once, Queued, Elements
<1> QED BY <1>1, <1>2, <1>3 DEF a

\* cancelUssd() posts at most one job, for the request that waited.
LEMMA CancelFacts ==
  ASSUME callback \in Requests \cup {None}, NEW rest \in Seq(Job), CancelUssd(rest)
  PROVE  /\ jobs' \in Seq(Job)
         /\ \A job \in Elements(jobs') :
               job \in Elements(rest) \/ (job.do = "canceled" /\ job.for = callback)
         /\ Once(rest) => Once(jobs')
         /\ callback' = None /\ timer' = None /\ session' = FALSE
<1>1. CASE callback = None
  <2>1. jobs' = rest
    BY <1>1 DEF CancelUssd
  <2> QED BY <1>1, <2>1 DEF CancelUssd
<1>2. CASE callback # None
  <2> DEFINE new == [do |-> "canceled", for |-> callback]
  <2>1. new \in Job /\ new.do = "canceled" /\ new.for = callback
    BY <1>2 DEF Job
  <2>2. jobs' = Append(rest, new)
    <3>1. jobs' = rest \o <<new>>
      BY <1>2 DEF CancelUssd
    <3> HIDE DEF new
    <3> QED BY <3>1, <2>1
  <2>3. callback' = None /\ timer' = None /\ session' = FALSE
    BY DEF CancelUssd
  <2> HIDE DEF new
  <2> QED BY <2>1, <2>2, <2>3, NewJob
<1> QED BY <1>1, <1>2

-----------------------------------------------------------------------------
(* The request that waits has a timer. *)

\* Each command leaves the waiting request and the timer as the Loop finds them next.
LEMMA WaitingStep == Waiting /\ [Next]_vars => Waiting'
<1> SUFFICES ASSUME Waiting, [Next]_vars PROVE Waiting'
  OBVIOUS
<1>1. CASE SendJob
  BY <1>1, UssdAssumption DEF SendJob, CancelUssd, StartSending, Waiting, WaitingHasTimer, ussdVars
<1>2. CASE SendAfterCancel
  BY <1>2, UssdAssumption
     DEF SendAfterCancel, StartSending, Waiting, WaitingHasTimer, ussdVars
<1>3. CASE SendDone
  BY <1>3 DEF SendDone, Waiting, WaitingHasTimer
<1>4. CASE CancelJob \/ CancelDone
  BY <1>4 DEF CancelJob, CancelDone, CancelUssd, Waiting, WaitingHasTimer, ussdVars
<1>5. CASE CanceledJob
  BY <1>5 DEF CanceledJob, Waiting, WaitingHasTimer, ussdVars
<1>6. CASE AnswerJob
  BY <1>6 DEF AnswerJob, CancelUssd, Waiting, WaitingHasTimer, ussdVars
<1>7. CASE TimeoutFires
  BY <1>7 DEF TimeoutFires, Waiting, WaitingHasTimer, loopVars
<1>8. CASE \/ \E r \in Requests : ApiSendUssd(r)
           \/ ApiCancelUssd \/ NetworkSpeaks \/ ReaderPosts \/ UNCHANGED vars
  BY <1>8 DEF ApiSendUssd, ApiCancelUssd, NetworkSpeaks, ReaderPosts, Waiting, WaitingHasTimer,
              vars, loopVars, ussdVars
<1> QED BY <1>1, <1>2, <1>3, <1>4, <1>5, <1>6, <1>7, <1>8 DEF Next, LoopNext

\* No request waits without a timeout and no timer outlives its request, whatever is
\* called and answered while the Loop waits for a command (sendUssd(), cancelUssd()).
THEOREM WaitingTimed == Spec => []WaitingHasTimer
<1>1. Init => Waiting
  BY DEF Init, Waiting, WaitingHasTimer
<1>2. Waiting => WaitingHasTimer
  BY DEF Waiting
<1> QED BY <1>1, <1>2, WaitingStep, PTL DEF Spec

-----------------------------------------------------------------------------
(* Type correctness. *)

\* What is appended to the replies keeps them of their type.
LEMMA RepliedFacts ==
  ASSUME replies \in [Requests -> Seq(Line \cup {Error})],
         NEW r \in Requests, NEW what \in Line \cup {Error}, Replied(r, what)
  PROVE  /\ replies' \in [Requests -> Seq(Line \cup {Error})]
         /\ replies'[r] = Append(replies[r], what)
         /\ \A q \in Requests \ {r} : replies'[q] = replies[q]
BY DEF Replied

\* Queued jobs, lines and replies stay of their kinds.
LEMMA TypeStep == TypeOK /\ [Next]_vars => TypeOK'
<1> SUFFICES ASSUME TypeOK, [Next]_vars PROVE TypeOK'
  OBVIOUS
<1>e. Error \in Line \cup {Error}
  OBVIOUS
<1>h. jobs # <<>> => Head(jobs) \in Job /\ Tail(jobs) \in Seq(Job)
  BY FirstJob DEF TypeOK
<1>t. /\ jobs \in Seq(Job) /\ callback \in Requests \cup {None}
      /\ replies \in [Requests -> Seq(Line \cup {Error})]
  BY DEF TypeOK
<1>1. ASSUME NEW r \in Requests, ApiSendUssd(r) PROVE TypeOK'
  <2>1. [do |-> "send", for |-> r] \in Job
    BY DEF Job
  <2> QED BY <1>1, <2>1, <1>t, NewJob DEF ApiSendUssd, Post, TypeOK, ussdVars
<1>2. CASE ApiCancelUssd
  <2>1. [do |-> "cancel"] \in Job
    BY DEF Job
  <2> QED BY <1>2, <2>1, <1>t, NewJob DEF ApiCancelUssd, Post, TypeOK, ussdVars
<1>3. CASE NetworkSpeaks
  BY <1>3 DEF NetworkSpeaks, TypeOK, Line, loopVars, ussdVars
<1>4. CASE ReaderPosts
  <2>1. [do |-> "answer", id |-> requestId, line |-> reader] \in Job
    BY <1>4 DEF ReaderPosts, TypeOK, Job
  <2> QED BY <1>4, <2>1, <1>t, NewJob DEF ReaderPosts, Post, TypeOK, inputVars, ussdVars
<1>5. CASE SendJob
  <2> DEFINE r == Head(jobs).for
  <2>1. r \in Requests /\ jobs # <<>>
    BY <1>5, <1>h DEF SendJob, Job
  <2>2. CASE CancelUssd(Tail(jobs)) /\ step' \in {"closeSession", "cancelBusy"} /\ current' = r
             /\ UNCHANGED <<requestId, replies, raced>>
    BY <1>5, <2>1, <2>2, <1>h, <1>t, CancelFacts DEF SendJob, TypeOK, Steps
  <2>3. CASE Replied(r, Error) /\ jobs' = Tail(jobs)
             /\ UNCHANGED <<step, current, ussdVars, raced>>
    BY <1>5, <2>1, <2>3, <1>h, <1>t, RepliedFacts DEF SendJob, TypeOK, ussdVars
  <2>4. CASE jobs' = Tail(jobs) /\ StartSending(r) /\ UNCHANGED <<timer, session, replies>>
    <3>1. raced' \in BOOLEAN
      BY <2>4, Zenon DEF StartSending
    <3> QED BY <1>5, <2>1, <2>4, <3>1, <1>h DEF SendJob, StartSending, TypeOK, Steps
  <2> QED BY <1>5, <2>2, <2>3, <2>4, Zenon DEF SendJob
<1>6. CASE SendAfterCancel
  <2>1. current \in Requests
    BY <1>6 DEF SendAfterCancel, TypeOK
  <2>2. CASE StartSending(current) /\ UNCHANGED <<jobs, timer, session, replies>>
    <3>1. raced' \in BOOLEAN
      BY <2>2, Zenon DEF StartSending
    <3> QED BY <1>6, <2>1, <2>2, <3>1 DEF SendAfterCancel, StartSending, TypeOK, Steps
  <2>3. CASE Replied(current, Error) /\ step' = "free" /\ current' = None
             /\ UNCHANGED <<jobs, ussdVars, raced>>
    BY <1>6, <2>1, <2>3, <1>t, RepliedFacts DEF SendAfterCancel, TypeOK, Steps, ussdVars
  <2> QED BY <1>6, <2>2, <2>3, Zenon DEF SendAfterCancel
<1>7. CASE SendDone
  <2>1. current \in Requests
    BY <1>7 DEF SendDone, TypeOK
  <2>2. replies' \in [Requests -> Seq(Line \cup {Error})]
    BY <1>7, <2>1, <1>t, RepliedFacts DEF SendDone
  <2> QED BY <1>7, <2>1, <2>2 DEF SendDone, TypeOK, Steps
<1>8. CASE CancelJob \/ CancelDone
  BY <1>8, <1>h, <1>t, CancelFacts
     DEF CancelJob, CancelDone, TypeOK, Steps, inputVars, ussdVars
<1>9. CASE CanceledJob
  <2>1. Head(jobs).for \in Requests
    BY <1>9, <1>h DEF CanceledJob, Job
  <2> QED BY <1>9, <2>1, <1>h, <1>t, RepliedFacts
          DEF CanceledJob, TypeOK, inputVars, ussdVars
<1>10. CASE AnswerJob
  <2> DEFINE job == Head(jobs)
  <2>1. job \in Job /\ job.do = "answer" /\ jobs # <<>>
    BY <1>10, <1>h DEF AnswerJob
  <2>2. job.line \in Line
    BY <2>1 DEF Job
  <2>3. replies' \in [Requests -> Seq(Line \cup {Error})]
    BY <1>10, <2>2, <1>t, RepliedFacts DEF AnswerJob
  <2>4. /\ jobs' \in Seq(Job) /\ callback' \in {callback, None} /\ timer' \in {timer, None}
        /\ step' \in {step, "cancelStray"}
    BY <1>10, <2>1, <1>h, <1>t, CancelFacts DEF AnswerJob
  <2> QED BY <1>10, <2>3, <2>4 DEF AnswerJob, TypeOK, Steps, inputVars
<1>11. CASE TimeoutFires
  <2>1. timer \in Requests
    BY <1>11 DEF TimeoutFires, TypeOK
  <2> QED BY <1>11, <2>1, <1>t, RepliedFacts DEF TimeoutFires, TypeOK, inputVars, loopVars
<1>12. CASE UNCHANGED vars
  BY <1>12 DEF vars, inputVars, loopVars, ussdVars, TypeOK
<1> QED BY <1>1, <1>2, <1>3, <1>4, <1>5, <1>6, <1>7, <1>8, <1>9, <1>10, <1>11, <1>12
        DEF Next, LoopNext

-----------------------------------------------------------------------------
(* A request is replied to when it is over. *)

\* The request that waited is over once it is only told that it was canceled.
LEMMA Canceling ==
  ASSUME TypeOK, Fresh, jobs # <<>>, Elements(Tail(jobs)) \subseteq Elements(jobs),
         step = "free", step' \in {"free", "cancel", "cancelStray"},
         Once(jobs'), callback' = None, UNCHANGED <<called, replies>>,
         \A job \in Elements(jobs') :
           job \in Elements(Tail(jobs)) \/ (job.do = "canceled" /\ job.for = callback)
  PROVE  Fresh'
<1>1. \A q \in Requests : Queued(jobs', "send", q) => Queued(jobs, "send", q)
  BY DEF Queued
<1>2. \A q \in Requests :
        Queued(jobs', "canceled", q) => Queued(jobs, "canceled", q) \/ callback = q
  BY DEF Queued
<1> QED BY <1>1, <1>2, UssdAssumption DEF Fresh, Pending, Held

\* Every step moves a request on: called, queued, held, waiting, over.
LEMMA FreshStep == TypeOK /\ Waiting /\ Fresh /\ [Next]_vars => Fresh'
<1> SUFFICES ASSUME TypeOK, Waiting, Fresh, [Next]_vars PROVE Fresh'
  OBVIOUS
<1>t. /\ jobs \in Seq(Job) /\ callback \in Requests \cup {None}
      /\ replies \in [Requests -> Seq(Line \cup {Error})]
      /\ None \notin Requests
      /\ called \subseteq Requests
  BY UssdAssumption DEF TypeOK
<1>h. jobs # <<>> =>
        /\ Head(jobs) \in Job /\ Head(jobs) \in Elements(jobs) /\ Tail(jobs) \in Seq(Job)
        /\ Elements(Tail(jobs)) \subseteq Elements(jobs) /\ Once(Tail(jobs))
        /\ Head(jobs).do = "send" => ~ Queued(Tail(jobs), "send", Head(jobs).for)
  BY <1>t, FirstJob DEF Fresh
<1>1. ASSUME NEW r \in Requests, ApiSendUssd(r) PROVE Fresh'
  <2> DEFINE job == [do |-> "send", for |-> r]
  <2>1. job \in Job /\ job.do = "send" /\ job.for = r
    BY DEF Job
  <2>2. Elements(jobs') = Elements(jobs) \cup {job} /\ Once(jobs')
    <3>1. jobs' = Append(jobs, job) /\ r \notin called
      BY <1>1 DEF ApiSendUssd, Post
    <3>2. ~ Queued(jobs, "send", r)
      BY <3>1 DEF Fresh
    <3> HIDE DEF job
    <3> QED BY <3>1, <3>2, <2>1, <1>t, NewJob DEF Fresh
  <2> HIDE DEF job
  <2> QED BY <1>1, <2>1, <2>2 DEF ApiSendUssd, Fresh, Pending, Queued, Held, ussdVars
<1>2. CASE ApiCancelUssd \/ ReaderPosts
  <2>1. PICK job \in Job : jobs' = Append(jobs, job) /\ job.do \in {"cancel", "answer"}
    BY <1>2 DEF ApiCancelUssd, ReaderPosts, Post, TypeOK, Job
  <2>2. Elements(jobs') = Elements(jobs) \cup {job} /\ Once(jobs')
    BY <2>1, <1>t, NewJob DEF Fresh
  <2> QED BY <1>2, <2>1, <2>2
          DEF ApiCancelUssd, ReaderPosts, Fresh, Pending, Queued, Held, ussdVars, inputVars
<1>3. CASE NetworkSpeaks \/ UNCHANGED vars
  BY <1>3 DEF NetworkSpeaks, vars, inputVars, loopVars, ussdVars, Fresh, Pending, Held
<1>4. CASE SendJob
  <2> DEFINE r == Head(jobs).for
  <2>1. /\ r \in Requests /\ jobs # <<>> /\ step = "free"
        /\ Queued(jobs, "send", r) /\ ~ Queued(Tail(jobs), "send", r)
    BY <1>4, <1>h DEF SendJob, Job, Queued
  <2>2. /\ r \in called /\ callback # r /\ replies[r] = <<>> /\ ~ Queued(jobs, "canceled", r)
    BY <2>1 DEF Fresh, Pending
  <2>3. CASE CancelUssd(Tail(jobs)) /\ step' \in {"closeSession", "cancelBusy"} /\ current' = r
             /\ UNCHANGED <<requestId, replies, raced>>
    <3>1. /\ Once(jobs') /\ callback' = None
          /\ \A job \in Elements(jobs') :
                job \in Elements(Tail(jobs)) \/ (job.do = "canceled" /\ job.for = callback)
      BY <2>1, <2>3, <1>h, <1>t, CancelFacts
    <3>2. \A q \in Requests : Queued(jobs', "send", q) => Queued(Tail(jobs), "send", q)
      BY <3>1 DEF Queued
    <3>3. \A q \in Requests :
            Queued(jobs', "canceled", q) => Queued(jobs, "canceled", q) \/ callback = q
      BY <2>1, <3>1, <1>h DEF Queued
    <3>4. \A q \in Requests : Queued(Tail(jobs), "send", q) => Queued(jobs, "send", q)
      BY <2>1, <1>h DEF Queued
    <3> QED BY <1>4, <2>1, <2>2, <2>3, <3>1, <3>2, <3>3, <3>4, <1>t
            DEF SendJob, Fresh, Pending, Held
  <2>4. CASE Replied(r, Error) /\ jobs' = Tail(jobs)
             /\ UNCHANGED <<step, current, ussdVars, raced>>
    <3>1. \A q \in Requests \ {r} : replies'[q] = replies[q]
      BY <2>1, <2>4, <1>t, RepliedFacts
    <3>2. \A q \in Requests, what \in {"send", "canceled"} :
            Queued(jobs', what, q) => Queued(jobs, what, q)
      BY <2>1, <2>4, <1>h DEF Queued
    <3> QED BY <1>4, <2>1, <2>2, <2>4, <3>1, <3>2, <1>h, <1>t
            DEF SendJob, Fresh, Pending, Held, ussdVars
  <2>5. CASE jobs' = Tail(jobs) /\ StartSending(r) /\ UNCHANGED <<timer, session, replies>>
             /\ callback = None
    <3>1. \A q \in Requests, what \in {"send", "canceled"} :
            Queued(jobs', what, q) => Queued(jobs, what, q)
      BY <2>1, <2>5, <1>h DEF Queued
    <3> QED BY <1>4, <2>1, <2>2, <2>5, <3>1, <1>h, <1>t
            DEF SendJob, StartSending, Fresh, Pending, Held
  <2> QED BY <1>4, <2>3, <2>4, <2>5, Zenon DEF SendJob
<1>5. CASE SendAfterCancel
  <2>1. /\ current \in Requests /\ Held(current) /\ step # "free" /\ step # "send"
        /\ callback # current /\ replies[current] = <<>> /\ current \in called
        /\ ~ Queued(jobs, "send", current) /\ ~ Queued(jobs, "canceled", current)
    BY <1>5 DEF SendAfterCancel, TypeOK, Held, Fresh, Pending
  <2>2. CASE StartSending(current) /\ UNCHANGED <<jobs, timer, session, replies>>
    <3>1. callback = None
      BY <2>1 DEF Waiting
    <3> QED BY <1>5, <2>1, <2>2, <3>1, <1>t
            DEF SendAfterCancel, StartSending, Fresh, Pending, Held
  <2>3. CASE Replied(current, Error) /\ step' = "free" /\ current' = None
             /\ UNCHANGED <<jobs, ussdVars, raced>>
    <3>1. \A q \in Requests \ {current} : replies'[q] = replies[q]
      BY <2>1, <2>3, <1>t, RepliedFacts
    <3> QED BY <1>5, <2>1, <2>3, <3>1, <1>t
            DEF SendAfterCancel, Fresh, Pending, Held, ussdVars
  <2> QED BY <1>5, <2>2, <2>3, Zenon DEF SendAfterCancel
<1>6. CASE SendDone
  <2>1. current \in Requests /\ callback = current /\ step = "send" /\ step' = "free"
    BY <1>6 DEF SendDone, TypeOK, Waiting
  <2>2. \/ UNCHANGED <<callback, replies>>
        \/ callback' = None /\ \A q \in Requests \ {current} : replies'[q] = replies[q]
    BY <1>6, <2>1, <1>t, RepliedFacts DEF SendDone
  <2>3. UNCHANGED <<jobs, called>>
    BY <1>6 DEF SendDone
  <2> QED BY <2>1, <2>2, <2>3, <1>t DEF Fresh, Pending, Held
<1>7. CASE CancelJob
  <2>1. CancelUssd(Tail(jobs)) /\ jobs # <<>> /\ step = "free" /\ step' = "cancel"
        /\ UNCHANGED <<called, replies>>
    BY <1>7 DEF CancelJob, inputVars
  <2>2. /\ Once(jobs') /\ callback' = None
        /\ \A job \in Elements(jobs') :
              job \in Elements(Tail(jobs)) \/ (job.do = "canceled" /\ job.for = callback)
    BY <2>1, <1>h, <1>t, CancelFacts
  <2> QED BY <2>1, <2>2, <1>h, <1>t, Canceling
<1>8. CASE CancelDone
  BY <1>8 DEF CancelDone, Fresh, Pending, Held, inputVars, ussdVars
<1>9. CASE CanceledJob
  <2> DEFINE r == Head(jobs).for
  <2>1. r \in Requests /\ jobs # <<>> /\ Queued(jobs, "canceled", r) /\ jobs' = Tail(jobs)
    BY <1>9, <1>h DEF CanceledJob, Job, Queued
  <2>2. ~ Pending(r)
    BY <2>1 DEF Fresh
  <2>3. \A q \in Requests \ {r} : replies'[q] = replies[q]
    BY <1>9, <2>1, <1>t, RepliedFacts DEF CanceledJob
  <2>4. \A q \in Requests, what \in {"send", "canceled"} :
          Queued(jobs', what, q) => Queued(jobs, what, q)
    BY <2>1, <1>h DEF Queued
  <2> HIDE DEF r
  <2> QED BY <1>9, <2>1, <2>2, <2>3, <2>4, <1>h, <1>t
          DEF CanceledJob, Fresh, Pending, Held, inputVars, ussdVars
<1>10. CASE AnswerJob
  <2>1. jobs # <<>> /\ Head(jobs) \in Job /\ Head(jobs).do = "answer" /\ step = "free"
        /\ UNCHANGED called /\ step' \in {"free", "cancelStray"}
    BY <1>10, <1>h DEF AnswerJob, inputVars
  <2>2. CASE CancelUssd(Tail(jobs)) /\ UNCHANGED replies
    <3>1. /\ Once(jobs') /\ callback' = None
          /\ \A job \in Elements(jobs') :
                job \in Elements(Tail(jobs)) \/ (job.do = "canceled" /\ job.for = callback)
      BY <2>1, <2>2, <1>h, <1>t, CancelFacts
    <3> QED BY <2>1, <2>2, <3>1, <1>h, <1>t, Canceling
  <2>3. CASE jobs' = Tail(jobs) /\ UNCHANGED <<step, callback, replies>>
    <3>1. \A q \in Requests, what \in {"send", "canceled"} :
            Queued(jobs', what, q) => Queued(jobs, what, q)
      BY <2>1, <2>3, <1>h DEF Queued
    <3> QED BY <2>1, <2>3, <3>1, <1>h, <1>t DEF Fresh, Pending, Held
  <2>4. CASE /\ jobs' = Tail(jobs) /\ callback' = None /\ UNCHANGED step
             /\ IF callback = None THEN UNCHANGED replies ELSE Replied(callback, Head(jobs).line)
    <3>1. \A q \in Requests, what \in {"send", "canceled"} :
            Queued(jobs', what, q) => Queued(jobs, what, q)
      BY <2>1, <2>4, <1>h DEF Queued
    <3>2. Head(jobs).line \in Line
      BY <2>1 DEF Job
    <3>3. \A q \in Requests : q # callback => replies'[q] = replies[q]
      BY <2>4, <3>2, <1>t, RepliedFacts
    <3> QED BY <2>1, <2>4, <3>1, <3>3, <1>h, <1>t DEF Fresh, Pending, Held
  <2> QED BY <1>10, <2>2, <2>3, <2>4, Zenon DEF AnswerJob
<1>11. CASE TimeoutFires
  <2>1. timer \in Requests /\ callback = timer /\ callback' = None
        /\ UNCHANGED <<called, jobs, step, current>>
    BY <1>11 DEF TimeoutFires, TypeOK, Waiting, WaitingHasTimer, inputVars, loopVars
  <2>2. \A q \in Requests \ {timer} : replies'[q] = replies[q]
    BY <1>11, <2>1, <1>t, RepliedFacts DEF TimeoutFires
  <2> QED BY <2>1, <2>2, <1>t DEF Fresh, Pending, Held
<1> QED BY <1>1, <1>2, <1>3, <1>4, <1>5, <1>6, <1>7, <1>8, <1>9, <1>10, <1>11 DEF Next, LoopNext

-----------------------------------------------------------------------------
(* The line that a request is replied to with. *)

\* The numbers of the lines on their way.
LEMMA NumberedStep == TypeOK /\ Waiting /\ Numbered /\ [Next]_vars => Numbered'
<1> SUFFICES ASSUME TypeOK, Waiting, Numbered, [Next]_vars PROVE Numbered'
  OBVIOUS
<1>t. /\ jobs \in Seq(Job) /\ callback \in Requests \cup {None} /\ requestId \in Nat
      /\ None \notin Requests
  BY UssdAssumption DEF TypeOK
<1>b. raced \in BOOLEAN
  BY DEF TypeOK
<1>h. jobs # <<>> =>
        /\ Tail(jobs) \in Seq(Job) /\ Elements(Tail(jobs)) \subseteq Elements(jobs)
  BY <1>t, FirstJob
\* Steps that put no line on its way, and do not begin a request.
<1>q. ASSUME \A job \in Elements(jobs') : job \in Elements(jobs) \/ job.do # "answer",
             callback' = callback \/ callback' = None, requestId' = requestId,
             UNCHANGED <<reader, raced>>
      PROVE  Numbered'
  BY <1>q DEF Numbered
\* The request gets a number that no line has.
<1>s. ASSUME NEW r \in Requests, StartSending(r), Elements(jobs') \subseteq Elements(jobs),
             UNCHANGED reader
      PROVE  Numbered'
  <2>1. requestId' = requestId + 1
    BY <1>s DEF StartSending
  <2>2. ~ raced' => reader = None
    BY <1>s, Zenon DEF StartSending
  <2>3. \A job \in Elements(jobs') : job \in Job /\ (job.do = "answer" => job.id <= requestId)
    BY <1>s, <1>t DEF Numbered, Elements
  <2>4. \A job \in Elements(jobs') : job.do = "answer" => job.id \in Nat
    BY <2>3 DEF Job
  <2> QED BY <1>s, <1>t, <2>1, <2>2, <2>3, <2>4 DEF Numbered
<1>1. ASSUME NEW r \in Requests, ApiSendUssd(r) PROVE Numbered'
  <2> DEFINE job == [do |-> "send", for |-> r]
  <2>1. job \in Job /\ job.do = "send"
    BY DEF Job
  <2>2. jobs' = Append(jobs, job)
    BY <1>1 DEF ApiSendUssd, Post
  <2> HIDE DEF job
  <2>3. Elements(jobs') = Elements(jobs) \cup {job}
    BY <2>1, <2>2, <1>t, NewJob
  <2> QED BY <1>1, <2>1, <2>3, <1>q DEF ApiSendUssd, ussdVars
<1>2. CASE ApiCancelUssd
  <2> DEFINE job == [do |-> "cancel"]
  <2>1. job \in Job /\ job.do = "cancel"
    BY DEF Job
  <2>2. jobs' = Append(jobs, job)
    BY <1>2 DEF ApiCancelUssd, Post
  <2> HIDE DEF job
  <2>3. Elements(jobs') = Elements(jobs) \cup {job}
    BY <2>1, <2>2, <1>t, NewJob
  <2> QED BY <1>2, <2>1, <2>3, <1>q DEF ApiCancelUssd, ussdVars
<1>3. CASE NetworkSpeaks
  <2>1. reader' = None \/ reader'.waiting = callback
    BY <1>3 DEF NetworkSpeaks
  <2>2. UNCHANGED <<jobs, callback, requestId, raced>>
    BY <1>3 DEF NetworkSpeaks, loopVars, ussdVars
  <2> QED BY <2>1, <2>2 DEF Numbered
<1>4. CASE ReaderPosts
  <2> DEFINE job == [do |-> "answer", id |-> requestId, line |-> reader]
  <2>1. job \in Job /\ job.id = requestId /\ job.line = reader
    BY <1>4 DEF ReaderPosts, TypeOK, Job
  <2>2. jobs' = Append(jobs, job) /\ reader' = None /\ reader # None
        /\ UNCHANGED <<callback, requestId, raced>>
    BY <1>4 DEF ReaderPosts, Post, ussdVars
  <2> HIDE DEF job
  <2>3. Elements(jobs') = Elements(jobs) \cup {job}
    BY <2>1, <2>2, <1>t, NewJob
  <2> QED BY <2>1, <2>2, <2>3, <1>t DEF Numbered
<1>5. CASE SendJob
  <2> DEFINE r == Head(jobs).for
  <2>1. r \in Requests /\ jobs # <<>> /\ UNCHANGED reader
    BY <1>5, <1>t, FirstJob DEF SendJob, Job
  <2>2. CASE CancelUssd(Tail(jobs)) /\ UNCHANGED <<requestId, replies, raced>>
    <3>1. /\ callback' = None
          /\ \A job \in Elements(jobs') :
                job \in Elements(Tail(jobs)) \/ (job.do = "canceled" /\ job.for = callback)
      BY <2>1, <2>2, <1>h, <1>t, CancelFacts
    <3> QED BY <2>1, <2>2, <3>1, <1>h, <1>q
  <2>3. CASE jobs' = Tail(jobs) /\ UNCHANGED <<step, current, ussdVars, raced>>
    BY <2>1, <2>3, <1>h, <1>q DEF ussdVars
  <2>4. CASE jobs' = Tail(jobs) /\ StartSending(r)
    BY <2>1, <2>4, <1>h, <1>s
  <2> QED BY <1>5, <2>2, <2>3, <2>4, Zenon DEF SendJob
<1>6. CASE SendAfterCancel
  <2>1. current \in Requests /\ UNCHANGED reader
    BY <1>6 DEF SendAfterCancel, TypeOK
  <2>2. CASE StartSending(current) /\ UNCHANGED <<jobs, timer, session, replies>>
    BY <2>1, <2>2, <1>s
  <2>3. CASE UNCHANGED <<jobs, ussdVars, raced>>
    BY <2>1, <2>3, <1>q DEF ussdVars
  <2> QED BY <1>6, <2>2, <2>3, Zenon DEF SendAfterCancel
<1>7. CASE SendDone
  BY <1>7, <1>q DEF SendDone
<1>8. CASE CancelJob
  <2>1. CancelUssd(Tail(jobs)) /\ jobs # <<>> /\ UNCHANGED <<requestId, reader, raced>>
    BY <1>8 DEF CancelJob
  <2>2. /\ callback' = None
        /\ \A job \in Elements(jobs') :
              job \in Elements(Tail(jobs)) \/ (job.do = "canceled" /\ job.for = callback)
    BY <2>1, <1>h, <1>t, CancelFacts
  <2> QED BY <2>1, <2>2, <1>h, <1>q
<1>9. CASE CancelDone \/ CanceledJob \/ TimeoutFires \/ UNCHANGED vars
  BY <1>9, <1>h, <1>q
     DEF CancelDone, CanceledJob, TimeoutFires, inputVars, loopVars, ussdVars, vars
<1>10. CASE AnswerJob
  <2>1. jobs # <<>> /\ UNCHANGED <<requestId, reader, raced>>
    BY <1>10 DEF AnswerJob
  <2>2. CASE CancelUssd(Tail(jobs))
    <3>1. /\ callback' = None
          /\ \A job \in Elements(jobs') :
                job \in Elements(Tail(jobs)) \/ (job.do = "canceled" /\ job.for = callback)
      BY <2>1, <2>2, <1>h, <1>t, CancelFacts
    <3> QED BY <2>1, <3>1, <1>h, <1>q
  <2>3. CASE jobs' = Tail(jobs) /\ callback' \in {callback, None}
    BY <2>1, <2>3, <1>h, <1>q
  <2> QED BY <1>10, <2>2, <2>3 DEF AnswerJob
<1> QED BY <1>1, <1>2, <1>3, <1>4, <1>5, <1>6, <1>7, <1>8, <1>9, <1>10 DEF Next, LoopNext


\* What a request is told next keeps AnswerInTime: an error, or the first thing it is
\* told and a line that it waited for.
LEMMA Replying ==
  ASSUME replies \in [Requests -> Seq(Line \cup {Error})], AnswerInTime,
         NEW r \in Requests, NEW what \in Line \cup {Error}, Replied(r, what),
         ~ raced' => ~ raced,
         what # Error /\ ~ raced => replies[r] = <<>> /\ what.waiting = r
  PROVE  AnswerInTime'
<1> SUFFICES ASSUME NEW q \in Requests, NEW i \in DOMAIN replies'[q],
                    replies'[q][i] # Error, ~ raced'
             PROVE  i = 1 /\ replies'[q][i].waiting = q
  BY DEF AnswerInTime
<1>1. CASE q # r
  <2>1. replies'[q] = replies[q]
    BY <1>1, RepliedFacts
  <2> QED BY <2>1 DEF AnswerInTime
<1>2. CASE q = r
  <2>1. replies'[r] = Append(replies[r], what) /\ replies[r] \in Seq(Line \cup {Error})
    BY RepliedFacts
  <2>2. CASE i \in DOMAIN replies[r]
    <3>1. replies'[r][i] = replies[r][i]
      BY <2>1, <2>2
    <3> QED BY <1>2, <2>2, <3>1 DEF AnswerInTime
  <2>3. CASE i \notin DOMAIN replies[r]
    <3>1. i = Len(replies[r]) + 1 /\ replies'[r][i] = what
      BY <1>2, <2>1, <2>3
    <3> QED BY <1>2, <3>1
  <2> QED BY <2>2, <2>3
<1> QED BY <1>1, <1>2

\* The only step that gives a request a line is AnswerJob, for the number of the one
\* that waits.
LEMMA AnswerStep == UssdInv /\ [Next]_vars => AnswerInTime'
<1> SUFFICES ASSUME TypeOK, Waiting, Fresh, Numbered, AnswerInTime, [Next]_vars
             PROVE  AnswerInTime'
  BY DEF UssdInv
<1>t. /\ jobs \in Seq(Job) /\ None \notin Requests
      /\ callback \in Requests \cup {None} /\ timer \in Requests \cup {None}
      /\ replies \in [Requests -> Seq(Line \cup {Error})]
  BY UssdAssumption DEF TypeOK
<1>h. jobs # <<>> => Head(jobs) \in Job /\ Head(jobs) \in Elements(jobs)
  BY <1>t, FirstJob
<1>m. ~ raced' => ~ raced
  BY Zenon DEF Next, LoopNext, ApiSendUssd, ApiCancelUssd, NetworkSpeaks, ReaderPosts, SendJob,
       SendAfterCancel, SendDone, CancelJob, CancelDone, CanceledJob, AnswerJob, TimeoutFires,
       StartSending, vars
<1>n. ASSUME UNCHANGED replies PROVE AnswerInTime'
  BY <1>n, <1>m DEF AnswerInTime
<1>e. ASSUME NEW r \in Requests, Replied(r, Error) PROVE AnswerInTime'
  BY <1>e, <1>m, <1>t, Replying
<1>1. CASE \/ \E r \in Requests : ApiSendUssd(r)
           \/ ApiCancelUssd \/ NetworkSpeaks \/ ReaderPosts
           \/ CancelJob \/ CancelDone \/ UNCHANGED vars
  BY <1>1, <1>n
     DEF ApiSendUssd, ApiCancelUssd, NetworkSpeaks, ReaderPosts, CancelJob, CancelDone, vars
<1>2. CASE SendJob
  <2>1. Head(jobs).for \in Requests
    BY <1>2, <1>h DEF SendJob, Job
  <2> QED BY <1>2, <2>1, <1>n, <1>e, Zenon DEF SendJob
<1>3. CASE SendAfterCancel \/ SendDone
  <2>1. current \in Requests
    BY <1>3 DEF SendAfterCancel, SendDone, TypeOK
  <2> QED BY <1>3, <2>1, <1>n, <1>e, Zenon DEF SendAfterCancel, SendDone
<1>4. CASE CanceledJob
  <2>1. Head(jobs).for \in Requests
    BY <1>4, <1>h DEF CanceledJob, Job
  <2> QED BY <1>4, <2>1, <1>e DEF CanceledJob
<1>5. CASE TimeoutFires
  <2>1. timer \in Requests
    BY <1>5, <1>t DEF TimeoutFires
  <2> QED BY <1>5, <2>1, <1>e DEF TimeoutFires
<1>6. CASE AnswerJob
  <2> DEFINE job == Head(jobs)
  <2>1. job \in Elements(jobs) /\ job \in Job /\ job.do = "answer"
    BY <1>6, <1>h DEF AnswerJob
  <2>2. job.line \in Line
    BY <2>1 DEF Job
  <2>3. \/ UNCHANGED replies
        \/ job.id = requestId /\ callback # None /\ Replied(callback, job.line)
    BY <1>6, Zenon DEF AnswerJob
  <2>4. CASE job.id = requestId /\ callback # None /\ Replied(callback, job.line)
    <3>1. callback \in Requests /\ replies[callback] = <<>>
      BY <2>4, <1>t DEF Fresh, Pending
    <3>2. ~ raced => job.line.waiting = callback
      BY <2>1, <2>4 DEF Numbered
    <3> HIDE DEF job
    <3> QED BY <2>2, <2>4, <3>1, <3>2, <1>m, <1>t, Replying
  <2> QED BY <2>3, <2>4, <1>n
<1> QED BY <1>1, <1>2, <1>3, <1>4, <1>5, <1>6 DEF Next, LoopNext

\* The invariant holds at first and is kept by every step.
LEMMA UssdInvariant == Spec => []UssdInv
<1>1. Init => TypeOK /\ Waiting
  <2> SUFFICES ASSUME Init PROVE TypeOK /\ Waiting
    OBVIOUS
  <2>1. raced \in BOOLEAN
    BY Zenon DEF Init
  <2>2. replies \in [Requests -> Seq(Line \cup {Error})]
    BY DEF Init
  <2>3. /\ called = {} /\ jobs = <<>> /\ step = "free" /\ current = None /\ callback = None
        /\ requestId = 0 /\ timer = None /\ reader = None
    BY DEF Init
  <2> QED BY <2>1, <2>2, <2>3 DEF TypeOK, Waiting, WaitingHasTimer, Steps
<1>2. Init => Fresh /\ Numbered /\ AnswerInTime
  <2> SUFFICES ASSUME Init PROVE Fresh /\ Numbered /\ AnswerInTime
    OBVIOUS
  <2>1. /\ jobs = <<>> /\ step = "free" /\ callback = None /\ reader = None
        /\ called = {} /\ \A r \in Requests : replies[r] = <<>>
    BY DEF Init
  <2>2. Elements(jobs) = {}
    BY <2>1 DEF Elements
  <2> QED BY <2>1, <2>2, UssdAssumption
          DEF Fresh, Once, Queued, Held, Pending, Numbered, AnswerInTime
<1>3. UssdInv /\ [Next]_vars => UssdInv'
  BY TypeStep, WaitingStep, FreshStep, NumberedStep, AnswerStep DEF UssdInv
<1> QED BY <1>1, <1>2, <1>3, PTL DEF Spec, UssdInv

\* The jobs, the waiting request, the lines and the replies are of their kinds.
THEOREM TypesHold == Spec => []TypeOK
BY UssdInvariant, PTL DEF UssdInv

\* sendUssd() promises its callback one result; handleUssdResponse() (Ussd.cpp:10) gives
\* a line to the request that waited when it came, as long as it read the number in time.
THEOREM AnswersInTime == Spec => []AnswerInTime
BY UssdInvariant, PTL DEF UssdInv

\* A request that is new, queued, held by the Loop or waiting has been told nothing yet,
\* and it is in one of these places at a time (apiSendUssd(), sendUssd(), cancelUssd()).
THEOREM OnePlace == Spec => []Fresh
BY UssdInvariant, PTL DEF UssdInv

=============================================================================

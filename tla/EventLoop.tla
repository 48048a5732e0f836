------------------------------ MODULE EventLoop ------------------------------
(***************************************************************************)
(* The timer loop that every thread of the daemon posts its work to,       *)
(* src/usbmodem/src/Core/LoopBase.cpp with the poll() loop of Loop.cpp:    *)
(* timers sorted by deadline, a pipe that wakes the owner thread, and      *)
(* execOnThisThread(), which runs a function on the owner thread and waits *)
(* for its value.                                                          *)
(***************************************************************************)
EXTENDS Integers, Sequences, FiniteSets, SequencesExt

CONSTANTS
  Owner,      \* the thread that runs the loop
  Others,     \* the threads that post timers to it
  Delays,     \* the delays of timers
  MaxTimers,  \* bound: timers in a behaviour
  MaxTime     \* bound: the clock

ASSUME LoopAssumption ==
  /\ Owner \notin Others
  /\ Delays \subseteq Nat
  /\ MaxTimers \in Nat /\ MaxTime \in Nat

Threads == Others \cup {Owner}
Ids == 1 .. MaxTimers

\* The deadline that stands for "no timer": 60 seconds, beyond the bound.
Never == MaxTime + 1

VARIABLES
  now,       \* the clock
  timer,     \* [ids in use -> the timer]
  queue,     \* m_list
  known,     \* the keys of m_timers
  nextRun,   \* m_next_run
  pipe,      \* a byte is in the waker pipe
  lpc,       \* where the owner thread is
  cur,       \* the timer that runTimeouts() has taken
  pc,        \* [Threads -> where the thread is in addTimer(), stop() or exec]
  promise,   \* [Others -> its promise: "none", "pending" or "set"]
  running,   \* m_run
  needStop,  \* m_need_stop
  ran,       \* history: the timers whose callback has been called
  late       \* history: the threads whose promise was made after the last sweep

vars == <<now, timer, queue, known, nextRun, pipe, lpc, cur, pc, promise, running,
          needStop, ran, late>>

Installed == {queue[i] : i \in DOMAIN queue}

Timer == [time : Nat, delay : Delays \cup {0}, loop : BOOLEAN, cancel : BOOLEAN,
          client : Threads]

-----------------------------------------------------------------------------
(* Timers. *)

\* Mutant of Inserted: the timer goes before those that are due when it is.
InsertedBeforeEqual(q, id, tm) ==
  LET later == {i \in DOMAIN q : tm[q[i]].time >= tm[id].time}
      pos   == IF later = {} THEN Len(q) + 1
               ELSE CHOOSE i \in later : \A j \in later : i <= j
  IN  InsertAt(q, pos, id)

\* addTimerToQueue(): the timer goes before the first one that is due later.
Inserted(q, id, tm) ==
  LET later == {i \in DOMAIN q : tm[q[i]].time > tm[id].time}
      pos   == IF later = {} THEN Len(q) + 1
               ELSE CHOOSE i \in later : \A j \in later : i <= j
  IN  InsertAt(q, pos, id)

\* The first timer, 0 when there is none.
First == IF queue = <<>> THEN 0 ELSE Head(queue)

\* removeTimerFromQueue(): an installed timer is erased at its place.
Removed(q, id) == IF id \in {q[i] : i \in DOMAIN q}
                  THEN RemoveAt(q, CHOOSE i \in DOMAIN q : q[i] = id)
                  ELSE q

Install(delay, loop, client) ==
  LET id == Cardinality(DOMAIN timer) + 1
      tm == [i \in DOMAIN timer \cup {id} |->
               IF i = id THEN [time |-> now + delay, delay |-> delay, loop |-> loop,
                               cancel |-> FALSE, client |-> client]
                         ELSE timer[i]]
  IN  /\ id \in Ids
      /\ timer' = tm
      /\ queue' = Inserted(queue, id, tm)
      /\ known' = known \cup {id}

\* A callback runs on the owner thread, which then can do what others can.
Free(t) == pc[t] = "idle" /\ (t = Owner => lpc = "callback")

\* addTimer() up to the unlock, and the wake() that follows.
AddTimer(t, delay, loop) ==
  /\ Free(t)
  /\ now + delay <= MaxTime
  /\ loop => delay > 0
  /\ Install(delay, loop, Owner)
  /\ pc' = [pc EXCEPT ![t] = "wake"]
  /\ UNCHANGED <<now, nextRun, pipe, lpc, cur, promise, running, needStop, ran, late>>

\* Mutant of Wake: only the owner's own calls write to the pipe.
WakeOnlyOwner(t) ==
  /\ pc[t] \in {"wake", "execWake"}
  /\ pipe' = (pipe \/ t = Owner)
  /\ pc' = [pc EXCEPT ![t] = IF @ = "wake" THEN "idle" ELSE "wait"]
  /\ UNCHANGED <<now, timer, queue, known, nextRun, lpc, cur, promise, running, needStop,
                 ran, late>>

Wake(t) ==
  /\ pc[t] \in {"wake", "execWake"}
  /\ pipe' = TRUE
  /\ pc' = [pc EXCEPT ![t] = IF @ = "wake" THEN "idle" ELSE "wait"]
  /\ UNCHANGED <<now, timer, queue, known, nextRun, lpc, cur, promise, running, needStop,
                 ran, late>>

\* removeTimer() only marks the timer; one that is gone is not found, and the
\* id of a timer of execOnThisThread() is told to no one.
RemoveTimer(t, id) ==
  /\ Free(t)
  /\ id \in known /\ timer[id].client = Owner
  /\ timer' = [timer EXCEPT ![id].cancel = TRUE]
  /\ UNCHANGED <<now, queue, known, nextRun, pipe, lpc, cur, pc, promise, running,
                 needStop, ran, late>>

\* Mutant of RequestStop: stop() only sets its flag.
StopWithoutWake(t) ==
  /\ Free(t)
  /\ ~ needStop
  /\ needStop' = TRUE
  /\ UNCHANGED <<now, timer, queue, known, nextRun, pipe, lpc, cur, pc, promise, running,
                 ran, late>>

\* stop(); the owner's own call is made in a callback.
RequestStop(t) ==
  /\ Free(t)
  /\ ~ needStop
  /\ needStop' = TRUE
  /\ pc' = [pc EXCEPT ![t] = "wake"]
  /\ UNCHANGED <<now, timer, queue, known, nextRun, pipe, lpc, cur, promise, running,
                 ran, late>>

-----------------------------------------------------------------------------
(* execOnThisThread(), called on another thread. *)

\* checkThreadId() finds the loop running; when it is not, the function is run
\* at once on the calling thread and nothing of the loop changes.
ExecBegins(t) ==
  /\ pc[t] = "idle"
  /\ running
  /\ pc' = [pc EXCEPT ![t] = "exec"]
  /\ UNCHANGED <<now, timer, queue, known, nextRun, pipe, lpc, cur, promise, running,
                 needStop, ran, late>>

ExecMakesPromise(t) ==
  /\ pc[t] = "exec"
  /\ promise' = [promise EXCEPT ![t] = "pending"]
  /\ late' = IF lpc = "done" THEN late \cup {t} ELSE late
  /\ pc' = [pc EXCEPT ![t] = "execAdd"]
  /\ UNCHANGED <<now, timer, queue, known, nextRun, pipe, lpc, cur, running, needStop, ran>>

ExecAddsTimer(t) ==
  /\ pc[t] = "execAdd"
  /\ Install(0, FALSE, t)
  /\ pc' = [pc EXCEPT ![t] = "execWake"]
  /\ UNCHANGED <<now, nextRun, pipe, lpc, cur, promise, running, needStop, ran, late>>

\* future.get(), then the promise is erased.
ExecReturns(t) ==
  /\ pc[t] = "wait"
  /\ promise[t] = "set"
  /\ promise' = [promise EXCEPT ![t] = "none"]
  /\ pc' = [pc EXCEPT ![t] = "idle"]
  /\ UNCHANGED <<now, timer, queue, known, nextRun, pipe, lpc, cur, running, needStop,
                 ran, late>>

-----------------------------------------------------------------------------
(* The owner thread: run(), implRun() and runTimeouts(). *)

Run ==
  /\ lpc = "off"
  /\ IF needStop THEN lpc' = "sweep" /\ UNCHANGED running
                 ELSE lpc' = "top" /\ running' = TRUE
  /\ UNCHANGED <<now, timer, queue, known, nextRun, pipe, cur, pc, promise, needStop, ran,
                 late>>

\* The head of implRun(): no poll() when the next deadline has passed.
Top ==
  /\ lpc = "top"
  /\ \/ needStop /\ lpc' = "stopped" /\ running' = FALSE
     \/ ~ needStop /\ lpc' = (IF nextRun > now THEN "poll" ELSE "timeouts")
                   /\ UNCHANGED running
  /\ UNCHANGED <<now, timer, queue, known, nextRun, pipe, cur, pc, promise, needStop, ran,
                 late>>

\* poll() ends with a byte in the pipe, which is drained, or with its timeout.
Poll ==
  /\ lpc = "poll"
  /\ pipe \/ nextRun <= now
  /\ pipe' = FALSE
  /\ lpc' = "timeouts"
  /\ UNCHANGED <<now, timer, queue, known, nextRun, cur, pc, promise, running, needStop,
                 ran, late>>

\* runTimeouts(): the first timer is taken when it is due.
TakeFirst ==
  /\ lpc = "timeouts"
  /\ IF needStop THEN lpc' = "top" /\ UNCHANGED cur
     ELSE /\ cur' = First
          /\ lpc' = IF First # 0 /\ timer[First].time <= now THEN "call" ELSE "setNext"
  /\ UNCHANGED <<now, timer, queue, known, nextRun, pipe, pc, promise, running, needStop, ran, late>>

\* A cancelled timer is skipped.
CallTimer ==
  /\ lpc = "call"
  /\ IF timer[cur].cancel
     THEN lpc' = "requeue" /\ UNCHANGED ran
     ELSE lpc' = "callback" /\ ran' = ran \cup {cur}
  /\ UNCHANGED <<now, timer, queue, known, nextRun, pipe, cur, pc, promise, running,
                 needStop, late>>

\* The callback of execOnThisThread() ends by fulfilling its client's promise.
CallbackReturns ==
  /\ lpc = "callback"
  /\ pc[Owner] = "idle"
  /\ promise' = [t \in Others |-> IF t = timer[cur].client THEN "set" ELSE promise[t]]
  /\ lpc' = "requeue"
  /\ UNCHANGED <<now, timer, queue, known, nextRun, pipe, cur, pc, running, needStop, ran,
                 late>>

\* An interval that is not cancelled is queued again, other timers are dropped.
Requeue ==
  /\ lpc = "requeue"
  /\ IF timer[cur].loop /\ ~ timer[cur].cancel
     THEN LET tm == [timer EXCEPT ![cur].time = now + timer[cur].delay]
          IN  /\ timer' = tm
              /\ queue' = Inserted(Removed(queue, cur), cur, tm)
              /\ UNCHANGED known
     ELSE /\ queue' = Removed(queue, cur)
          /\ known' = known \ {cur}
          /\ UNCHANGED timer
  /\ lpc' = "second"
  /\ UNCHANGED <<now, nextRun, pipe, cur, pc, promise, running, needStop, ran, late>>

\* The new first timer is read under the lock, its deadline used without it.
ReadNext ==
  /\ lpc = "second"
  /\ cur' = First
  /\ lpc' = "setNext"
  /\ UNCHANGED <<now, timer, queue, known, nextRun, pipe, pc, promise, running, needStop,
                 ran, late>>

\* Mutant of SetNext: the deadline of a timer that was not due is not set.
SetNextOnlyWhenDue ==
  /\ lpc = "setNext"
  /\ nextRun' = IF cur = 0 \/ timer[cur].time > now THEN Never ELSE timer[cur].time
  /\ lpc' = "top"
  /\ UNCHANGED <<now, timer, queue, known, pipe, cur, pc, promise, running, needStop, ran,
                 late>>

SetNext ==
  /\ lpc = "setNext"
  /\ nextRun' = IF cur = 0 THEN Never ELSE timer[cur].time
  /\ lpc' = "top"
  /\ UNCHANGED <<now, timer, queue, known, pipe, cur, pc, promise, running, needStop, ran,
                 late>>

\* Mutant of Sweep: run() ends and leaves the promises.
SweepForgets ==
  /\ lpc \in {"stopped", "sweep"}
  /\ lpc' = "done"
  /\ UNCHANGED <<now, timer, queue, known, nextRun, pipe, cur, pc, promise, running,
                 needStop, ran, late>>

\* The end of run(): every promise is fulfilled, without the lock.  One that has
\* been fulfilled before and not yet erased throws, which ends the process.
Sweep ==
  /\ lpc \in {"stopped", "sweep"}
  /\ IF \E t \in Others : promise[t] = "set"
     THEN lpc' = "crashed" /\ UNCHANGED promise
     ELSE /\ promise' = [t \in Others |-> IF promise[t] = "pending" THEN "set"
                                          ELSE promise[t]]
          /\ lpc' = "done"
  /\ UNCHANGED <<now, timer, queue, known, nextRun, pipe, cur, pc, running, needStop, ran,
                 late>>

Tick ==
  /\ now < MaxTime
  /\ now' = now + 1
  /\ UNCHANGED <<timer, queue, known, nextRun, pipe, lpc, cur, pc, promise, running,
                 needStop, ran, late>>

-----------------------------------------------------------------------------
Init ==
  /\ now = 0
  /\ timer = <<>>
  /\ queue = <<>>
  /\ known = {}
  /\ nextRun = 0
  /\ pipe = FALSE
  /\ lpc = "off"
  /\ cur = 0
  /\ pc = [t \in Threads |-> "idle"]
  /\ promise = [t \in Others |-> "none"]
  /\ running = FALSE /\ needStop = FALSE
  /\ ran = {} /\ late = {}

Alive == lpc # "crashed"

OwnerStep ==
  \/ Run \/ Top \/ Poll \/ TakeFirst \/ CallTimer \/ CallbackReturns \/ Requeue
  \/ ReadNext \/ SetNext \/ Sweep

\* The steps of a call that has begun.
Continue(t) ==
  \/ Wake(t)
  \/ t \in Others /\ (ExecMakesPromise(t) \/ ExecAddsTimer(t) \/ ExecReturns(t))

Post(t) ==
  \/ \E d \in Delays, l \in BOOLEAN : AddTimer(t, d, l)
  \/ \E id \in Ids : RemoveTimer(t, id)
  \/ RequestStop(t)
  \/ t \in Others /\ ExecBegins(t)

Next ==
  /\ Alive
  /\ \/ OwnerStep
     \/ \E t \in Threads : Continue(t) \/ Post(t)
     \/ Tick

\* The owner and the threads that have begun a call are scheduled; callbacks
\* return.  Time may stand still: only what is due has to happen.
Fairness == WF_vars(Alive /\ OwnerStep) /\ \A t \in Threads : WF_vars(Alive /\ Continue(t))

Spec == Init /\ [][Next]_vars /\ Fairness

-----------------------------------------------------------------------------
(* Properties. *)

OwnerPCs == {"off", "top", "poll", "timeouts", "call", "callback", "requeue", "second",
             "setNext", "stopped", "sweep", "done", "crashed"}

TypeOK ==
  /\ now \in 0 .. MaxTime
  /\ DOMAIN timer \subseteq Ids
  /\ \A id \in DOMAIN timer : timer[id] \in Timer
  /\ known = Installed /\ IsInjective(queue) /\ known \subseteq DOMAIN timer
  /\ nextRun \in Nat /\ pipe \in BOOLEAN
  /\ lpc \in OwnerPCs
  /\ cur \in DOMAIN timer \cup {0}
  /\ pc \in [Threads -> {"idle", "wake", "exec", "execAdd", "execWake", "wait"}]
  /\ promise \in [Others -> {"none", "pending", "set"}]
  /\ running \in BOOLEAN /\ needStop \in BOOLEAN
  /\ ran \subseteq DOMAIN timer /\ late \subseteq Others

\* The owner is never asleep past the deadline of a timer, whoever added it and
\* whenever: a thread that adds one while the owner computes its next deadline
\* from the old first timer has left, or is about to leave, a byte in the pipe.
\* The same holds of a request to stop.
AwakeForFirst ==
  (lpc = "poll" /\ ~ pipe /\ \A t \in Threads : pc[t] \notin {"wake", "execWake"}) =>
    /\ ~ needStop
    /\ \A id \in Installed : nextRun <= timer[id].time

\* Timers run in the order in which they were set, unless a later one asked for
\* a shorter delay: what one thread posts with delay 0 is done in its order.
RunsInOrder ==
  \A i \in ran : \A j \in DOMAIN timer :
    (j < i /\ timer[j].delay <= timer[i].delay /\ ~ timer[j].cancel) => j \in ran

\* A timer that is due is run, unless it is cancelled or the loop is stopped.
DueTimersRun == \A id \in Ids :
  (id \in Installed /\ timer[id].time <= now)
    ~> (id \in ran \/ needStop \/ ~ Alive \/ (id \in DOMAIN timer /\ timer[id].cancel))

\* A thread that waits for a function to be run on the owner's gets an answer,
\* be it that the loop has stopped; only a promise that is made after the loop
\* has swept them is forgotten.
ExecIsAnswered == \A t \in Others :
  pc[t] = "wait" ~> (pc[t] = "idle" \/ t \in late \/ ~ Alive)

\* A stopped loop ends: nothing but the end of run() follows a stop().
StopEndsLoop == needStop ~> (lpc = "done" \/ ~ Alive)

=============================================================================

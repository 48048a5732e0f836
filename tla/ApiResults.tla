----------------------------- MODULE ApiResults -----------------------------
(***************************************************************************)
(* How a ubus call gets its answer: src/usbmodem/src/ModemService/Api.cpp  *)
(* and Core/UbusRequest.cpp.  Handlers run on the thread of the UbusLoop,  *)
(* post their work to the thread of the Loop and defer the request.  The   *)
(* Loop thread hands the result back through a timer of the UbusLoop.  An  *)
(* "async" request that takes more than five seconds is answered with a    *)
(* key instead, under which its result is kept in m_deferred_results until *)
(* the client, luci's usbmodem-api.js, fetches it.  That map has no lock.  *)
(***************************************************************************)
EXTENDS Naturals, Sequences

CONSTANTS
  Requests,   \* the ubus calls
  None,       \* no entry, no result, no request
  MaxTime     \* bound: the clock, in milliseconds

ASSUME RequestsAssumption ==
  /\ None \notin Requests
  /\ MaxTime \in Nat \ {0}

\* What becomes of a call: its result is computed on the Loop thread, or its
\* arguments are refused at once; a USSD string that is not valid, or that comes
\* while another cannot be cancelled, is answered twice.
Kinds == {"plain", "invalid", "ussdRefused"}

Times == 1 .. MaxTime

VARIABLES
  now,      \* the clock
  key,      \* [Requests -> uniqKey(), 0 before the call]
  kind,     \* [Requests -> its kind]
  client,   \* [Requests -> what its client does]
  got,      \* [Requests -> the result its client has got, or None]
  done,     \* m_done of the requests
  timers,   \* the async requests whose five seconds are not over
  uq,       \* the UbusLoop's due timers, in order
  upc,      \* the request whose entry the UbusLoop thread is about to make
  lq,       \* the Loop's due timers, in order
  lpc,      \* where the Loop thread is in reply()
  lcur,     \* the request it works for
  ln,       \* how many times it has replied to it
  table,    \* m_deferred_results
  missed,   \* history: the requests whose result came between key and entry
  torn      \* history: the requests fetched between "ready" and the result

loopVars == <<lq, lpc, lcur, ln>>
vars == <<now, key, kind, client, got, done, timers, uq, upc, loopVars, table, missed, torn>>

Entry == [ready : BOOLEAN, result : (Requests \X (1 .. 2)) \cup {None}]
Pending == [ready |-> FALSE, result |-> None]

ASSUME NoneAssumption == None \notin Entry /\ None \notin Requests \X (1 .. 2)

\* A due timer of the UbusLoop: the end of the five seconds or a reply.
Job == [what : {"defer", "reply"}, req : Requests,
        result : (Requests \X (1 .. 2)) \cup {None}]

-----------------------------------------------------------------------------
(* The thread of the UbusLoop. *)

\* uniqKey() is meant to be the time and the number of the request: the format
\* PRIu64 "_%zu" has no '%' before PRIu64, so the one conversion prints the
\* first argument, the time, and the number is left out.
UniqKey(time, id) == time

\* A handler: initApiRequest(), then the method, which checks its arguments
\* here and posts the rest to the Loop.  reply() looks for an entry first.
Arrive(r, async, k) ==
  /\ upc = None
  /\ key[r] = 0
  /\ now \in Times
  /\ key' = [key EXCEPT ![r] = UniqKey(now, r)]
  /\ kind' = [kind EXCEPT ![r] = k]
  /\ client' = [client EXCEPT ![r] = "wait"]
  /\ timers' = IF async THEN timers \cup {r} ELSE timers
  /\ \/ /\ k # "invalid"
        /\ lq' = Append(lq, r)
        /\ UNCHANGED <<uq, table>>
     \/ /\ k = "invalid"
        /\ IF table[UniqKey(now, r)] = None
           THEN /\ uq' = Append(uq, [what |-> "reply", req |-> r, result |-> <<r, 1>>])
                /\ UNCHANGED table
           ELSE /\ table' = [table EXCEPT ![UniqKey(now, r)] =
                               [ready |-> TRUE, result |-> <<r, 1>>]]
                /\ UNCHANGED uq
        /\ UNCHANGED lq
  /\ UNCHANGED <<now, got, done, upc, lpc, lcur, ln, missed, torn>>

\* Five seconds have passed: the timer takes its place among the due ones.
FiveSeconds(r) ==
  /\ r \in timers
  /\ timers' = timers \ {r}
  /\ uq' = Append(uq, [what |-> "defer", req |-> r, result |-> None])
  /\ UNCHANGED <<now, key, kind, client, got, done, upc, loopVars, table, missed, torn>>

\* The callback of the timer: the client gets the key before the entry exists.
DeferJob ==
  /\ upc = None
  /\ uq # <<>> /\ Head(uq).what = "defer"
  /\ uq' = Tail(uq)
  /\ LET r == Head(uq).req IN
       IF done[r]
       THEN UNCHANGED <<client, done, upc>>
       ELSE /\ done' = [done EXCEPT ![r] = TRUE]
            /\ client' = [client EXCEPT ![r] = "poll"]
            /\ upc' = r
  /\ UNCHANGED <<now, key, kind, got, timers, loopVars, table, missed, torn>>

\* Mutant of DeferInsert: no entry is made.
DeferWithoutInsert ==
  /\ upc # None
  /\ upc' = None
  /\ UNCHANGED <<now, key, kind, client, got, done, timers, uq, loopVars, table, missed, torn>>

DeferInsert ==
  /\ upc # None
  /\ table' = [table EXCEPT ![key[upc]] = Pending]
  /\ upc' = None
  /\ UNCHANGED <<now, key, kind, client, got, done, timers, uq, loopVars, missed, torn>>

\* req->reply(): nothing is sent when the request has been replied to.
ReplyJob ==
  /\ upc = None
  /\ uq # <<>> /\ Head(uq).what = "reply"
  /\ uq' = Tail(uq)
  /\ LET r == Head(uq).req IN
       IF done[r]
       THEN /\ missed' = IF client[r] = "poll" THEN missed \cup {r} ELSE missed
            /\ UNCHANGED <<client, got, done>>
       ELSE /\ done' = [done EXCEPT ![r] = TRUE]
            /\ client' = [client EXCEPT ![r] = "served"]
            /\ got' = [got EXCEPT ![r] = Head(uq).result]
            /\ UNCHANGED missed
  /\ UNCHANGED <<now, key, kind, timers, upc, loopVars, table, torn>>

\* Mutants of GetDeferredResult: the time of the entry is not tested, or the
\* entry is not erased.
GetUnreadyResult(r) ==
  /\ upc = None
  /\ client[r] = "poll"
  /\ LET e == table[key[r]] IN
       IF e = None
       THEN client' = [client EXCEPT ![r] = "expired"] /\ UNCHANGED <<got, table, torn>>
       ELSE /\ client' = [client EXCEPT ![r] = "served"]
            /\ got' = [got EXCEPT ![r] = e.result]
            /\ table' = [table EXCEPT ![key[r]] = None]
            /\ torn' = IF e.ready /\ e.result = None THEN torn \cup {r} ELSE torn
  /\ UNCHANGED <<now, key, kind, done, timers, uq, upc, loopVars, missed>>

GetWithoutErase(r) ==
  /\ upc = None
  /\ client[r] = "poll"
  /\ LET e == table[key[r]] IN
       IF e = None
       THEN client' = [client EXCEPT ![r] = "expired"] /\ UNCHANGED <<got, torn>>
       ELSE /\ e.ready
            /\ client' = [client EXCEPT ![r] = "served"]
            /\ got' = [got EXCEPT ![r] = e.result]
            /\ torn' = IF e.result = None THEN torn \cup {r} ELSE torn
  /\ UNCHANGED <<now, key, kind, done, timers, uq, upc, loopVars, table, missed>>

\* apiGetDeferredResult(), called again and again by the client until there is
\* a result or no entry; a call that finds an entry not ready changes nothing.
GetDeferredResult(r) ==
  /\ upc = None
  /\ client[r] = "poll"
  /\ LET e == table[key[r]] IN
       IF e = None
       THEN client' = [client EXCEPT ![r] = "expired"] /\ UNCHANGED <<got, table, torn>>
       ELSE /\ e.ready
            /\ client' = [client EXCEPT ![r] = "served"]
            /\ got' = [got EXCEPT ![r] = e.result]
            /\ table' = [table EXCEPT ![key[r]] = None]
            /\ torn' = IF e.result = None THEN torn \cup {r} ELSE torn
  /\ UNCHANGED <<now, key, kind, done, timers, uq, upc, loopVars, missed>>

-----------------------------------------------------------------------------
(* The thread of the Loop: the work, and reply(). *)

Replies(k) == IF k = "ussdRefused" THEN 2 ELSE 1

LoopTakes ==
  /\ lpc = "idle"
  /\ lq # <<>>
  /\ lq' = Tail(lq)
  /\ lcur' = Head(lq)
  /\ ln' = 1
  /\ lpc' = "find"
  /\ UNCHANGED <<now, key, kind, client, got, done, timers, uq, upc, table, missed, torn>>

\* The end of reply(): there may be another one to make.
ReplyDone ==
  IF ln < Replies(kind[lcur])
  THEN lpc' = "find" /\ ln' = ln + 1 /\ UNCHANGED lcur
  ELSE lpc' = "idle" /\ ln' = 0 /\ lcur' = None

\* No entry: the reply is posted to the UbusLoop.
FindEntry ==
  /\ lpc = "find"
  /\ IF table[key[lcur]] = None
     THEN /\ uq' = Append(uq, [what |-> "reply", req |-> lcur, result |-> <<lcur, ln>>])
          /\ ReplyDone
     ELSE lpc' = "setTime" /\ UNCHANGED <<uq, lcur, ln>>
  /\ UNCHANGED <<now, key, kind, client, got, done, timers, upc, lq, table, missed, torn>>

\* The entry is made ready first and gets its result then; operator[] makes a
\* new one each time when there is none.
SetTime ==
  /\ lpc = "setTime"
  /\ table' = [table EXCEPT ![key[lcur]] =
                 IF @ = None THEN [Pending EXCEPT !.ready = TRUE] ELSE [@ EXCEPT !.ready = TRUE]]
  /\ lpc' = "setResult"
  /\ UNCHANGED <<now, key, kind, client, got, done, timers, uq, upc, lq, lcur, ln, missed, torn>>

SetResult ==
  /\ lpc = "setResult"
  /\ table' = [table EXCEPT ![key[lcur]] =
                 IF @ = None THEN [Pending EXCEPT !.result = <<lcur, ln>>]
                             ELSE [@ EXCEPT !.result = <<lcur, ln>>]]
  /\ ReplyDone
  /\ UNCHANGED <<now, key, kind, client, got, done, timers, uq, upc, lq, missed, torn>>

Tick ==
  /\ now < MaxTime
  /\ now' = now + 1
  /\ UNCHANGED <<key, kind, client, got, done, timers, uq, upc, loopVars, table, missed, torn>>

-----------------------------------------------------------------------------
Init ==
  /\ now = 1
  /\ key = [r \in Requests |-> 0]
  /\ kind = [r \in Requests |-> "plain"]
  /\ client = [r \in Requests |-> "idle"]
  /\ got = [r \in Requests |-> None]
  /\ done = [r \in Requests |-> FALSE]
  /\ timers = {}
  /\ uq = <<>> /\ upc = None
  /\ lq = <<>> /\ lpc = "idle" /\ lcur = None /\ ln = 0
  /\ table = [t \in Times |-> None]
  /\ missed = {} /\ torn = {}

UbusJob == DeferJob \/ DeferInsert \/ ReplyJob
LoopStep == LoopTakes \/ FindEntry \/ SetTime \/ SetResult

Next ==
  \/ \E r \in Requests, a \in BOOLEAN, k \in Kinds : Arrive(r, a, k)
  \/ \E r \in Requests : FiveSeconds(r) \/ GetDeferredResult(r)
  \/ UbusJob \/ LoopStep \/ Tick

\* Both threads are scheduled, the work of a call ends (every AT command has a
\* timeout) and luci polls every few seconds.
Fairness ==
  /\ WF_vars(UbusJob) /\ WF_vars(LoopStep)
  /\ \A r \in Requests : WF_vars(GetDeferredResult(r))

Spec == Init /\ [][Next]_vars /\ Fairness

-----------------------------------------------------------------------------
(* Properties. *)

Results == (Requests \X (1 .. 2)) \cup {None}

TypeOK ==
  /\ now \in Times
  /\ key \in [Requests -> Times \cup {0}]
  /\ kind \in [Requests -> Kinds]
  /\ client \in [Requests -> {"idle", "wait", "poll", "served", "expired"}]
  /\ got \in [Requests -> Results]
  /\ done \in [Requests -> BOOLEAN]
  /\ timers \subseteq Requests /\ missed \subseteq Requests /\ torn \subseteq Requests
  /\ uq \in Seq(Job)
  /\ upc \in Requests \cup {None}
  /\ lq \in Seq(Requests)
  /\ lpc \in {"idle", "find", "setTime", "setResult"}
  /\ lcur \in Requests \cup {None}
  /\ ln \in 0 .. 2
  /\ table \in [Times -> Entry \cup {None}]

\* No other request has been made in the same millisecond.
Alone(r) == \A q \in Requests \ {r} : key[q] # key[r]

\* The client of a request gets the result of that request, directly or under
\* the key it was given, and no client is told that a result it waits for has
\* expired; except for requests that share a millisecond, and for a client that
\* asks between the two assignments that make its entry ready.
OwnResult == \A r \in Requests :
  Alone(r) /\ r \notin torn =>
    /\ client[r] # "expired"
    /\ client[r] = "served" => got[r] \in {r} \X (1 .. 2)

\* Every client is served in the end.  A result that was on its way to the
\* client as a direct reply when the key was sent is lost, and its client asks
\* for it forever: that is the only way.
EveryoneServed == \A r \in Requests :
  client[r] = "wait" ~> (client[r] = "served" \/ r \in missed \/ ~ Alone(r))

\* Nothing stays in m_deferred_results that no client will fetch, except what a
\* second reply, or a fetch between the two assignments, puts back.
NoLeak == \A t \in Times :
  table[t] # None =>
    \E r \in Requests : /\ key[r] = t
                        /\ client[r] = "poll" \/ r \in torn \/ kind[r] = "ussdRefused" \/ ~ Alone(r)

\* What the name uniqKey() says (UbusRequest.h:44): a key leads to one request,
\* so that a client gets no result but that of its own call.
KeyIsUnique == \A r \in Requests :
  client[r] = "served" /\ got[r] # None => got[r] \in {r} \X (1 .. 2)

=============================================================================

-------------------------- MODULE ApiResultsProofs --------------------------
(***************************************************************************)
(* Theorems about ApiResults for any set of calls, of any kinds, in any    *)
(* number of milliseconds.                                                 *)
(***************************************************************************)
EXTENDS ApiResults, TLAPS

-----------------------------------------------------------------------------
(* The invariant. *)

Elements(q) == {q[i] : i \in DOMAIN q}
Distinct(q) == \A i, j \in DOMAIN q : q[i] = q[j] => i = j

\* The Loop has still work to do for r.
AtWork(r) == r \in Elements(lq) \/ (lpc # "idle" /\ lcur = r)

\* Every job, timer and step is of a call that has been made; the Loop works for each
\* one once.
Called ==
  /\ \A r \in Requests : AtWork(r) \/ r \in timers => key[r] # 0
  /\ \A j \in Elements(uq) : /\ key[j.req] # 0
                             /\ j.what = "reply" => j.result \in {j.req} \X (1 .. 2)
  /\ lpc # "idle" => lcur \in Requests /\ ln \in 1 .. 2
  /\ Distinct(lq)
  /\ lpc # "idle" => lcur \notin Elements(lq)
  /\ upc # None => key[upc] # 0 /\ client[upc] = "poll"

\* A client that has an answer has the one its request was done with.
Clients == \A r \in Requests :
  /\ key[r] = 0 => client[r] = "idle"
  /\ client[r] \in {"poll", "served", "expired"} => done[r]

\* An entry is made under the key of a call.
Keyed == \A t \in Times : table[t] # None => \E r \in Requests : key[r] = t

\* No other call has its key, and it has not been fetched between the two assignments.
Sole(r) == key[r] # 0 /\ Alone(r) /\ r \notin torn

\* What is kept under a key that no other call has.
Own(r) ==
  /\ client[r] = "poll" => table[key[r]] # None \/ upc = r
  /\ table[key[r]] # None => table[key[r]].result \in {None} \cup ({r} \X (1 .. 2))
  /\ client[r] # "expired"
  /\ client[r] = "served" => got[r] \in {r} \X (1 .. 2)

\* A call that is replied to once has an entry only while its client asks, and the
\* entry gets its result when the work is done.
Once(r) ==
  /\ table[key[r]] # None => client[r] = "poll"
  /\ lcur = r /\ lpc \in {"setTime", "setResult"} => client[r] = "poll"
  /\ table[key[r]] # None /\ AtWork(r) =>
       /\ table[key[r]].result = None
       /\ ~ (lcur = r /\ lpc = "setResult") => table[key[r]].ready = FALSE

Kept == \A r \in Requests : Sole(r) => Own(r) /\ (kind[r] # "ussdRefused" => Once(r))

ResultsInv == TypeOK /\ Called /\ Clients /\ Keyed /\ Kept

-----------------------------------------------------------------------------
(* Lemmas about the queues. *)

\* Taking the first element of a queue.
LEMMA First ==
  ASSUME NEW S, NEW q \in Seq(S), q # <<>>
  PROVE  /\ Head(q) \in S /\ Head(q) \in Elements(q) /\ Tail(q) \in Seq(S)
         /\ Elements(q) = {Head(q)} \cup Elements(Tail(q))
         /\ Distinct(q) => Head(q) \notin Elements(Tail(q)) /\ Distinct(Tail(q))
<1>1. /\ Head(q) \in S /\ Tail(q) \in Seq(S)
      /\ 1 \in DOMAIN q /\ Head(q) = q[1]
  OBVIOUS
<1>2. \A k \in DOMAIN Tail(q) : k + 1 \in DOMAIN q /\ Tail(q)[k] = q[k + 1] /\ k \in Nat \ {0}
  OBVIOUS
<1>3. \A k \in DOMAIN q : k = 1 \/ (k - 1 \in DOMAIN Tail(q) /\ Tail(q)[k - 1] = q[k])
  OBVIOUS
<1>4. Head(q) \in Elements(q) /\ Elements(Tail(q)) \subseteq Elements(q)
  BY <1>1, <1>2 DEF Elements
<1>5. Elements(q) \subseteq {Head(q)} \cup Elements(Tail(q))
  BY <1>1, <1>3 DEF Elements
<1>6. ASSUME Distinct(q)
      PROVE  Head(q) \notin Elements(Tail(q)) /\ Distinct(Tail(q))
  <2>1. Head(q) \notin Elements(Tail(q))
    <3> SUFFICES ASSUME NEW k \in DOMAIN Tail(q), Tail(q)[k] = q[1] PROVE FALSE
      BY <1>1 DEF Elements
    <3>1. k + 1 = 1
      BY <1>1, <1>2, <1>6 DEF Distinct
    <3> QED BY <3>1, <1>2
  <2>2. ASSUME NEW i \in DOMAIN Tail(q), NEW j \in DOMAIN Tail(q), Tail(q)[i] = Tail(q)[j]
        PROVE  i = j
    <3>1. i + 1 = j + 1
      BY <1>2, <1>6, <2>2 DEF Distinct
    <3> QED BY <3>1, <1>2
  <2> QED BY <2>1, <2>2 DEF Distinct
<1> QED BY <1>1, <1>4, <1>5, <1>6

\* Appending an element to a queue.
LEMMA Last ==
  ASSUME NEW S, NEW q \in Seq(S), NEW e \in S
  PROVE  /\ Append(q, e) \in Seq(S)
         /\ Elements(Append(q, e)) = Elements(q) \cup {e}
         /\ Distinct(q) /\ e \notin Elements(q) => Distinct(Append(q, e))
<1> DEFINE a == Append(q, e)
<1>1. /\ a \in Seq(S)
      /\ DOMAIN a = DOMAIN q \cup {Len(q) + 1} /\ Len(q) + 1 \notin DOMAIN q
      /\ a[Len(q) + 1] = e /\ \A k \in DOMAIN q : a[k] = q[k]
  OBVIOUS
<1> HIDE DEF a
<1>2. Elements(a) = Elements(q) \cup {e}
  BY <1>1 DEF Elements
<1>3. ASSUME Distinct(q), e \notin Elements(q) PROVE Distinct(a)
  BY <1>1, <1>3 DEF Elements, Distinct
<1> QED BY <1>1, <1>2, <1>3 DEF a

-----------------------------------------------------------------------------
(* Types. *)

\* What the end of reply() leaves: the Loop is at another reply to the same request, or
\* it is idle.  A request that is replied to once is over.
LEMMA AfterReply ==
  ASSUME TypeOK, Called, lpc # "idle", ReplyDone
  PROVE  /\ lpc' \in {"idle", "find"} /\ lcur' \in Requests \cup {None} /\ ln' \in 0 .. 2
         /\ \/ lpc' = "find" /\ lcur' = lcur /\ ln' \in 1 .. 2 /\ kind[lcur] = "ussdRefused"
            \/ lpc' = "idle" /\ lcur' = None
<1>1. lcur \in Requests /\ ln \in 1 .. 2
  BY DEF Called
<1>2. CASE ln < Replies(kind[lcur])
  BY <1>1, <1>2 DEF ReplyDone, Replies
<1>3. CASE ~ (ln < Replies(kind[lcur]))
  BY <1>3 DEF ReplyDone
<1> QED BY <1>2, <1>3

ReplyOf(r, n) == [what |-> "reply", req |-> r, result |-> <<r, n>>]
DeferOf(r) == [what |-> "defer", req |-> r, result |-> None]
ReadyEntry(r) == [ready |-> TRUE, result |-> <<r, 1>>]

\* What is queued for a request, and kept for it, is of its kind.
LEMMA JobKinds ==
  \A r \in Requests : \A n \in 1 .. 2 :
    /\ <<r, n>> \in Results
    /\ ReplyOf(r, n) \in Job /\ ReplyOf(r, 1) \in Job /\ DeferOf(r) \in Job
    /\ ReadyEntry(r) \in Entry
<1> TAKE r \in Requests
<1> TAKE n \in 1 .. 2
<1>1. <<r, n>> \in Results /\ <<r, 1>> \in Results /\ None \in Results
  BY DEF Results
<1>2. \A x \in Results : /\ [what |-> "reply", req |-> r, result |-> x] \in Job
                         /\ [what |-> "defer", req |-> r, result |-> x] \in Job
                         /\ [ready |-> TRUE, result |-> x] \in Entry
  BY DEF Results, Job, Entry
<1>3. ReplyOf(r, n) \in Job
  BY <1>1, <1>2, Zenon DEF ReplyOf
<1>6. ReplyOf(r, 1) \in Job
  BY <1>1, <1>2, Zenon DEF ReplyOf
<1>4. DeferOf(r) \in Job
  BY <1>1, <1>2, Zenon DEF DeferOf
<1>5. ReadyEntry(r) \in Entry
  BY <1>1, <1>2, Zenon DEF ReadyEntry
<1> QED BY <1>1, <1>3, <1>4, <1>5, <1>6, Zenon

\* The assignments to an entry, or to the one operator[] makes, keep it of its kind.
LEMMA Entries ==
  /\ Pending \in Entry
  /\ \A e \in Entry : [e EXCEPT !.ready = TRUE] \in Entry
  /\ \A e \in Entry, x \in Results : [e EXCEPT !.result = x] \in Entry
<1>1. Pending \in Entry
  BY DEF Pending, Entry
<1>2. /\ \A e \in Entry : [e EXCEPT !.ready = TRUE] \in Entry
      /\ \A e \in Entry, x \in Results : [e EXCEPT !.result = x] \in Entry
  BY DEF Entry, Results
<1> QED BY <1>1, <1>2

\* The first of each queue.
LEMMA Heads ==
  ASSUME TypeOK
  PROVE  /\ uq # <<>> => /\ Tail(uq) \in Seq(Job)
                         /\ Head(uq).req \in Requests /\ Head(uq).result \in Results
         /\ lq # <<>> => Head(lq) \in Requests /\ Tail(lq) \in Seq(Requests)
<1>1. /\ uq # <<>> => Head(uq) \in Job /\ Tail(uq) \in Seq(Job)
      /\ lq # <<>> => Head(lq) \in Requests /\ Tail(lq) \in Seq(Requests)
  BY First DEF TypeOK
<1>2. \A j \in Job : j.req \in Requests /\ j.result \in Results
  BY DEF Job, Results
<1> QED BY <1>1, <1>2

\* Clients, queues and entries stay of their kinds.
LEMMA TypeStep == TypeOK /\ Called /\ Clients /\ [Next]_vars => TypeOK'
<1> SUFFICES ASSUME TypeOK, Called, Clients, [Next]_vars PROVE TypeOK'
  OBVIOUS
<1>t. /\ now \in Times /\ key \in [Requests -> Times \cup {0}]
      /\ uq \in Seq(Job) /\ lq \in Seq(Requests)
      /\ table \in [Times -> Entry \cup {None}] /\ done \in [Requests -> BOOLEAN]
  BY DEF TypeOK
<1>k. 1 \in 1 .. 2
  OBVIOUS
<1>u. \A j \in Job : Append(uq, j) \in Seq(Job)
  BY <1>t
<1>1. ASSUME NEW r \in Requests, NEW a \in BOOLEAN, NEW k \in Kinds, Arrive(r, a, k)
      PROVE  TypeOK'
  <2>1. timers' \subseteq Requests
    BY <1>1, Zenon DEF Arrive, TypeOK
  <2>2. lq' \in Seq(Requests)
    <3>1. lq' = lq \/ lq' = Append(lq, r)
      BY <1>1, Zenon DEF Arrive
    <3> QED BY <3>1, <1>t
  <2>3. uq' \in Seq(Job)
    <3>1. uq' = uq \/ uq' = Append(uq, ReplyOf(r, 1))
      BY <1>1, Zenon DEF Arrive, ReplyOf
    <3>2. ReplyOf(r, 1) \in Job
      BY JobKinds, <1>k, Zenon
    <3> QED BY <3>1, <3>2, <1>u, <1>t, Zenon
  <2>4. table' \in [Times -> Entry \cup {None}]
    <3>1. \/ table' = table
          \/ table' = [table EXCEPT ![UniqKey(now, r)] = ReadyEntry(r)]
      BY <1>1, Zenon DEF Arrive, ReadyEntry
    <3>2. ReadyEntry(r) \in Entry
      BY JobKinds, <1>k, Zenon
    <3> QED BY <3>1, <3>2, <1>t
  <2>5. /\ key' \in [Requests -> Times \cup {0}]
        /\ kind' \in [Requests -> Kinds]
        /\ client' \in [Requests -> {"idle", "wait", "poll", "served", "expired"}]
    <3>1. /\ key' = [key EXCEPT ![r] = UniqKey(now, r)]
          /\ kind' = [kind EXCEPT ![r] = k]
          /\ client' = [client EXCEPT ![r] = "wait"]
      BY <1>1, Zenon DEF Arrive
    <3> QED BY <3>1 DEF TypeOK, UniqKey
  <2>6. UNCHANGED <<now, got, done, upc, lpc, lcur, ln, missed, torn>>
    BY <1>1, Zenon DEF Arrive
  <2> QED BY <2>1, <2>2, <2>3, <2>4, <2>5, <2>6 DEF TypeOK
<1>2. ASSUME NEW r \in Requests, FiveSeconds(r) PROVE TypeOK'
  <2>1. uq' = Append(uq, DeferOf(r))
    BY <1>2 DEF FiveSeconds, DeferOf
  <2>2. uq' \in Seq(Job)
    <3>1. DeferOf(r) \in Job
      BY JobKinds, <1>k, Zenon
    <3> QED BY <3>1, <2>1, <1>u, Zenon
  <2> QED BY <1>2, <2>2 DEF FiveSeconds, TypeOK, loopVars
<1>3. CASE DeferJob
  <2>1. Head(uq).req \in Requests /\ Tail(uq) \in Seq(Job)
    BY <1>3, Heads DEF DeferJob
  <2>2. done' \in [Requests -> BOOLEAN]
    <3>1. done' = done \/ done' = [done EXCEPT ![Head(uq).req] = TRUE]
      BY <1>3, Zenon DEF DeferJob
    <3> QED BY <3>1, <1>t
  <2>3. /\ client' = client \/ client' = [client EXCEPT ![Head(uq).req] = "poll"]
        /\ upc' = upc \/ upc' = Head(uq).req
        /\ uq' = Tail(uq)
        /\ UNCHANGED <<now, key, kind, got, timers, loopVars, table, missed, torn>>
    BY <1>3, Zenon DEF DeferJob
  <2> QED BY <2>1, <2>2, <2>3 DEF TypeOK, loopVars
<1>4. CASE DeferInsert
  <2>1. table' \in [Times -> Entry \cup {None}]
    BY <1>4, <1>t, Entries DEF DeferInsert
  <2> QED BY <1>4, <2>1 DEF DeferInsert, TypeOK, loopVars
<1>5. CASE ReplyJob
  <2>1. /\ Head(uq).req \in Requests /\ Tail(uq) \in Seq(Job)
        /\ Head(uq).result \in Results
    BY <1>5, Heads DEF ReplyJob
  <2>2. done' \in [Requests -> BOOLEAN]
    <3>1. done' = done \/ done' = [done EXCEPT ![Head(uq).req] = TRUE]
      BY <1>5, Zenon DEF ReplyJob
    <3> QED BY <3>1, <1>t
  <2>3. /\ client' = client \/ client' = [client EXCEPT ![Head(uq).req] = "served"]
        /\ got' = got \/ got' = [got EXCEPT ![Head(uq).req] = Head(uq).result]
        /\ missed' = missed \/ missed' = missed \cup {Head(uq).req}
        /\ uq' = Tail(uq)
        /\ UNCHANGED <<now, key, kind, timers, upc, loopVars, table, torn>>
    BY <1>5, Zenon DEF ReplyJob
  <2> QED BY <2>1, <2>2, <2>3 DEF TypeOK, loopVars
<1>6. ASSUME NEW r \in Requests, GetDeferredResult(r) PROVE TypeOK'
  <2>1. /\ client' = [client EXCEPT ![r] = "expired"] \/ client' = [client EXCEPT ![r] = "served"]
        /\ torn' = torn \/ torn' = torn \cup {r}
        /\ table' = table \/ table' = [table EXCEPT ![key[r]] = None]
        /\ UNCHANGED <<now, key, kind, done, timers, uq, upc, loopVars, missed>>
    BY <1>6, Zenon DEF GetDeferredResult
  <2>2. got' = got \/ (table[key[r]] # None /\ key[r] # 0 /\ got' = [got EXCEPT ![r] = table[key[r]].result])
    <3>1. key[r] # 0
      BY <1>6 DEF Clients, GetDeferredResult
    <3> QED BY <1>6, <3>1 DEF GetDeferredResult
  <2>3. table[key[r]] # None /\ key[r] # 0 => table[key[r]].result \in Results
    BY <1>t DEF Entry, Results
  <2> QED BY <2>1, <2>2, <2>3 DEF TypeOK, loopVars
<1>7. CASE LoopTakes
  <2>1. Head(lq) \in Requests /\ Tail(lq) \in Seq(Requests)
    BY <1>7, Heads DEF LoopTakes
  <2> QED BY <1>7, <2>1 DEF LoopTakes, TypeOK
<1>8. CASE FindEntry
  <2>1. lcur \in Requests /\ ln \in 1 .. 2
    BY <1>8 DEF Called, FindEntry
  <2>2. lpc' \in {"idle", "find", "setTime"} /\ lcur' \in Requests \cup {None} /\ ln' \in 0 .. 2
    <3>1. \/ ReplyDone
          \/ lpc' = "setTime" /\ UNCHANGED <<lcur, ln>>
      BY <1>8, Zenon DEF FindEntry
    <3>2. CASE ReplyDone
      BY <3>2, <1>8, AfterReply DEF FindEntry
    <3> QED BY <3>1, <3>2, <2>1
  <2>3. uq' \in Seq(Job)
    <3>1. uq' = uq \/ uq' = Append(uq, ReplyOf(lcur, ln))
      BY <1>8, Zenon DEF FindEntry, ReplyOf
    <3>2. ReplyOf(lcur, ln) \in Job
      BY JobKinds, <2>1, Zenon
    <3> QED BY <3>1, <3>2, <1>u, <1>t, Zenon
  <2>4. UNCHANGED <<now, key, kind, client, got, done, timers, upc, lq, table, missed, torn>>
    BY <1>8, Zenon DEF FindEntry
  <2> QED BY <2>2, <2>3, <2>4 DEF TypeOK
<1>9. CASE SetTime
  <2>1. table' \in [Times -> Entry \cup {None}]
    <3>1. PICK e \in Entry : table' = [table EXCEPT ![key[lcur]] = e]
      <4>1. lcur \in Requests /\ key[lcur] # 0
        BY <1>9 DEF Called, SetTime, AtWork
      <4>2. table[key[lcur]] \in Entry \cup {None}
        <5>1. key[lcur] \in Times
          BY <4>1, <1>t
        <5> QED BY <5>1, <1>t
      <4>3. /\ [Pending EXCEPT !.ready = TRUE] \in Entry
            /\ table[key[lcur]] # None => [table[key[lcur]] EXCEPT !.ready = TRUE] \in Entry
        BY <4>2, Entries
      <4>4. table' = [table EXCEPT ![key[lcur]] =
                        IF table[key[lcur]] = None THEN [Pending EXCEPT !.ready = TRUE]
                        ELSE [table[key[lcur]] EXCEPT !.ready = TRUE]]
        BY <1>9 DEF SetTime
      <4> QED BY <4>3, <4>4
    <3> QED BY <3>1, <1>t
  <2> QED BY <1>9, <2>1 DEF SetTime, TypeOK
<1>10. CASE SetResult
  <2>1. table' \in [Times -> Entry \cup {None}]
    <3>1. PICK e \in Entry : table' = [table EXCEPT ![key[lcur]] = e]
      <4>1. lcur \in Requests /\ key[lcur] # 0 /\ ln \in 1 .. 2
        BY <1>10 DEF Called, SetResult, AtWork
      <4>2. table[key[lcur]] \in Entry \cup {None}
        <5>1. key[lcur] \in Times
          BY <4>1, <1>t
        <5> QED BY <5>1, <1>t
      <4>5. <<lcur, ln>> \in Results
        BY <4>1, JobKinds, Zenon
      <4>3. /\ [Pending EXCEPT !.result = <<lcur, ln>>] \in Entry
            /\ table[key[lcur]] # None => [table[key[lcur]] EXCEPT !.result = <<lcur, ln>>] \in Entry
        BY <4>2, <4>5, Entries
      <4>4. table' = [table EXCEPT ![key[lcur]] =
                        IF table[key[lcur]] = None THEN [Pending EXCEPT !.result = <<lcur, ln>>]
                        ELSE [table[key[lcur]] EXCEPT !.result = <<lcur, ln>>]]
        BY <1>10 DEF SetResult
      <4> QED BY <4>3, <4>4
    <3> QED BY <3>1, <1>t
  <2>2. lpc' \in {"idle", "find"} /\ lcur' \in Requests \cup {None} /\ ln' \in 0 .. 2
    BY <1>10, AfterReply DEF SetResult
  <2> QED BY <1>10, <2>1, <2>2 DEF SetResult, TypeOK
<1>11. CASE Tick \/ UNCHANGED vars
  <2>1. now' \in Times
    BY <1>11, RequestsAssumption DEF Tick, vars, TypeOK, Times
  <2> QED BY <1>11, <2>1 DEF Tick, TypeOK, vars, loopVars
<1> QED BY <1>1, <1>2, <1>3, <1>4, <1>5, <1>6, <1>7, <1>8, <1>9, <1>10, <1>11
        DEF Next, UbusJob, LoopStep

-----------------------------------------------------------------------------
(* Who is at work. *)

\* Taking and ending a request of the Loop, and what the UbusLoop's timers are about.
LEMMA CalledStep == TypeOK /\ Called /\ Clients /\ [Next]_vars => Called'
<1> SUFFICES ASSUME TypeOK, Called, Clients, [Next]_vars PROVE Called'
  OBVIOUS
<1>t. /\ now \in Times /\ now # 0 /\ key \in [Requests -> Times \cup {0}]
      /\ uq \in Seq(Job) /\ lq \in Seq(Requests)
      /\ client \in [Requests -> {"idle", "wait", "poll", "served", "expired"}]
      /\ lcur \in Requests \cup {None} /\ upc \in Requests \cup {None}
  BY DEF TypeOK, Times
<1>j. \A j \in Elements(uq) : j.req \in Requests
  <2>1. \A j \in Job : j.req \in Requests
    BY DEF Job
  <2>2. \A i \in DOMAIN uq : uq[i] \in Job
    BY <1>t
  <2> QED BY <2>1, <2>2 DEF Elements
<1>k. 1 \in 1 .. 2
  OBVIOUS
<1>1. ASSUME NEW r \in Requests, NEW a \in BOOLEAN, NEW k \in Kinds, Arrive(r, a, k)
      PROVE  Called'
  <2>1. /\ key[r] = 0 /\ upc = None /\ upc' = upc
        /\ key' = [key EXCEPT ![r] = now] /\ client' = [client EXCEPT ![r] = "wait"]
        /\ timers' = timers \/ timers' = timers \cup {r}
        /\ UNCHANGED <<lpc, lcur, ln>>
    BY <1>1, Zenon DEF Arrive, UniqKey
  <2>2. lq' = lq \/ lq' = Append(lq, r)
    BY <1>1, Zenon DEF Arrive
  <2>3. /\ Elements(lq') \subseteq Elements(lq) \cup {r}
        /\ Distinct(lq')
    <3>1. r \notin Elements(lq) /\ Distinct(lq)
      BY <2>1 DEF Called, AtWork
    <3>2. /\ Elements(Append(lq, r)) = Elements(lq) \cup {r}
          /\ Distinct(lq) /\ r \notin Elements(lq) => Distinct(Append(lq, r))
      BY <1>t, Last, Zenon
    <3> QED BY <3>1, <3>2, <2>2
  <2>4. \A q \in Requests : key'[q] = 0 => q # r /\ key[q] = 0
    BY <2>1, <1>t
  <2>5. \A q \in Requests : AtWork(q)' \/ q \in timers' => key'[q] # 0
    BY <2>1, <2>3, <2>4 DEF Called, AtWork
  <2>6. lpc' # "idle" => lcur' \notin Elements(lq')
    <3>1. lpc # "idle" => lcur # r
      BY <2>1 DEF Called, AtWork
    <3> QED BY <3>1, <2>1, <2>3 DEF Called
  <2>7. \A j \in Elements(uq') : j \in Elements(uq) \/ j = ReplyOf(r, 1)
    <3>1. uq' = uq \/ uq' = Append(uq, ReplyOf(r, 1))
      BY <1>1, Zenon DEF Arrive, ReplyOf
    <3>2. ReplyOf(r, 1) \in Job
      BY JobKinds, <1>k, Zenon
    <3>3. Elements(Append(uq, ReplyOf(r, 1))) = Elements(uq) \cup {ReplyOf(r, 1)}
      BY <3>2, <1>t, Last, Zenon
    <3> QED BY <3>1, <3>3
  <2>8. \A j \in Elements(uq') : /\ key'[j.req] # 0
                                 /\ j.what = "reply" => j.result \in {j.req} \X (1 .. 2)
    <3>1. ReplyOf(r, 1).req = r /\ ReplyOf(r, 1).result \in {r} \X (1 .. 2)
      BY DEF ReplyOf
    <3>2. key'[r] # 0
      BY <2>4
    <3> QED BY <2>7, <2>4, <3>1, <3>2, <1>j DEF Called
  <2> QED BY <2>1, <2>3, <2>5, <2>6, <2>8 DEF Called
<1>2. ASSUME NEW r \in Requests, FiveSeconds(r) PROVE Called'
  <2>1. /\ r \in timers /\ timers' \subseteq timers /\ uq' = Append(uq, DeferOf(r))
        /\ UNCHANGED <<key, client, lq, lpc, lcur, ln, upc>>
    BY <1>2 DEF FiveSeconds, DeferOf, loopVars
  <2>2. DeferOf(r) \in Job
    BY JobKinds, <1>k, Zenon
  <2>3. Elements(uq') = Elements(uq) \cup {DeferOf(r)}
    <3>1. Elements(Append(uq, DeferOf(r))) = Elements(uq) \cup {DeferOf(r)}
      BY <2>2, <1>t, Last, Zenon
    <3> QED BY <3>1, <2>1
  <2>4. DeferOf(r).req = r /\ DeferOf(r).what # "reply"
    BY DEF DeferOf
  <2>5. key[r] # 0
    BY <2>1 DEF Called
  <2> QED BY <2>1, <2>3, <2>4, <2>5 DEF Called, AtWork
<1>3. CASE DeferJob
  <2>1. /\ Head(uq) \in Elements(uq) /\ Elements(Tail(uq)) \subseteq Elements(uq)
        /\ Head(uq).req \in Requests
    <3>1. uq # <<>>
      BY <1>3 DEF DeferJob
    <3>2. Head(uq).req \in Requests
      BY <3>1, Heads
    <3>3. /\ Head(uq) \in Elements(uq)
          /\ Elements(uq) = {Head(uq)} \cup Elements(Tail(uq))
      BY <3>1, <1>t, First, Zenon
    <3> QED BY <3>2, <3>3
  <2>2. /\ uq' = Tail(uq) /\ UNCHANGED <<key, timers, lq, lpc, lcur, ln>>
        /\ upc = None
        /\ \/ client' = client /\ upc' = upc
           \/ client' = [client EXCEPT ![Head(uq).req] = "poll"] /\ upc' = Head(uq).req
    BY <1>3, Zenon DEF DeferJob, loopVars
  <2>3. upc' # None => key[upc'] # 0 /\ client'[upc'] = "poll"
    BY <2>1, <2>2, <1>t DEF Called
  <2> QED BY <2>1, <2>2, <2>3 DEF Called, AtWork
<1>4. CASE DeferInsert
  BY <1>4 DEF DeferInsert, Called, AtWork, loopVars
<1>5. CASE ReplyJob
  <2>1. Elements(Tail(uq)) \subseteq Elements(uq)
    BY <1>5, <1>t, First DEF ReplyJob
  <2>2. /\ uq' = Tail(uq) /\ UNCHANGED <<key, timers, lq, lpc, lcur, ln>>
        /\ upc = None /\ upc' = None
    BY <1>5, Zenon DEF ReplyJob, loopVars
  <2> QED BY <2>1, <2>2 DEF Called, AtWork
<1>6. ASSUME NEW r \in Requests, GetDeferredResult(r) PROVE Called'
  BY <1>6 DEF GetDeferredResult, Called, AtWork, loopVars
<1>7. CASE LoopTakes
  <2>1. /\ Head(lq) \in Requests /\ Head(lq) \in Elements(lq)
        /\ Elements(lq) = {Head(lq)} \cup Elements(Tail(lq))
        /\ Head(lq) \notin Elements(Tail(lq)) /\ Distinct(Tail(lq))
    BY <1>7, <1>t, First DEF LoopTakes, Called
  <2> QED BY <1>7, <2>1 DEF LoopTakes, Called, AtWork
<1>8. CASE FindEntry
  <2>1. lcur \in Requests /\ ln \in 1 .. 2
    BY <1>8 DEF Called, FindEntry
  <2>2. /\ lpc' # "idle" => lcur' = lcur /\ ln' \in 1 .. 2
        /\ UNCHANGED <<key, client, timers, upc, lq>> /\ lpc # "idle"
    <3>1. \/ ReplyDone
          \/ lpc' = "setTime" /\ UNCHANGED <<lcur, ln>>
      BY <1>8, Zenon DEF FindEntry
    <3>2. CASE ReplyDone
      BY <3>2, <1>8, AfterReply DEF FindEntry
    <3> QED BY <3>1, <3>2, <2>1, <1>8 DEF FindEntry
  <2>3. \A j \in Elements(uq') : j \in Elements(uq) \/ j = ReplyOf(lcur, ln)
    <3>1. uq' = uq \/ uq' = Append(uq, ReplyOf(lcur, ln))
      BY <1>8, Zenon DEF FindEntry, ReplyOf
    <3>2. ReplyOf(lcur, ln) \in Job
      BY JobKinds, <2>1, Zenon
    <3>3. Elements(Append(uq, ReplyOf(lcur, ln))) = Elements(uq) \cup {ReplyOf(lcur, ln)}
      BY <3>2, <1>t, Last, Zenon
    <3> QED BY <3>1, <3>3
  <2>4. ReplyOf(lcur, ln).req = lcur /\ ReplyOf(lcur, ln).result \in {lcur} \X (1 .. 2)
    BY <2>1 DEF ReplyOf
  <2>5. key[lcur] # 0
    BY <2>1, <2>2 DEF Called, AtWork
  <2> QED BY <2>1, <2>2, <2>3, <2>4, <2>5 DEF Called, AtWork
<1>9. CASE SetTime
  BY <1>9 DEF SetTime, Called, AtWork
<1>10. CASE SetResult
  <2>1. lpc' # "idle" => lcur' = lcur /\ ln' \in 1 .. 2 /\ lcur \in Requests
    BY <1>10, AfterReply DEF SetResult, Called
  <2> QED BY <1>10, <2>1 DEF SetResult, Called, AtWork
<1>11. CASE Tick \/ UNCHANGED vars
  BY <1>11 DEF Tick, vars, loopVars, Called, AtWork
<1> QED BY <1>1, <1>2, <1>3, <1>4, <1>5, <1>6, <1>7, <1>8, <1>9, <1>10, <1>11
        DEF Next, UbusJob, LoopStep

\* A client has an answer only when its request is done.
LEMMA ClientsStep == TypeOK /\ Called /\ Clients /\ [Next]_vars => Clients'
<1> SUFFICES ASSUME TypeOK, Called, Clients, [Next]_vars, NEW r \in Requests
             PROVE  /\ key'[r] = 0 => client'[r] = "idle"
                    /\ client'[r] \in {"poll", "served", "expired"} => done'[r]
  BY DEF Clients
<1>t. /\ now # 0 /\ key \in [Requests -> Times \cup {0}] /\ done \in [Requests -> BOOLEAN]
      /\ client \in [Requests -> {"idle", "wait", "poll", "served", "expired"}]
  BY DEF TypeOK, Times
<1>r. /\ key[r] = 0 => client[r] = "idle"
      /\ client[r] \in {"poll", "served", "expired"} => done[r]
  BY DEF Clients
<1>1. CASE \E q \in Requests, a \in BOOLEAN, k \in Kinds : Arrive(q, a, k)
  <2>1. PICK q \in Requests : /\ key' = [key EXCEPT ![q] = now] /\ done' = done
                              /\ client' = [client EXCEPT ![q] = "wait"]
    BY <1>1 DEF Arrive, UniqKey
  <2>2. CASE q = r
    BY <2>1, <2>2, <1>t
  <2>3. CASE q # r
    <3>1. key'[r] = key[r] /\ client'[r] = client[r] /\ done'[r] = done[r]
      BY <2>1, <2>3, <1>t
    <3> QED BY <3>1, <1>r, Zenon
  <2> QED BY <2>2, <2>3
<1>2. CASE DeferJob \/ ReplyJob
  <2>1. \A q \in Requests : key[q] = 0 => q # Head(uq).req
    <3>1. uq # <<>> /\ uq \in Seq(Job)
      BY <1>2 DEF DeferJob, ReplyJob, TypeOK
    <3>2. Head(uq) \in Elements(uq)
      BY <3>1, First, Zenon
    <3> QED BY <3>2 DEF Called
  <2>2. /\ key' = key
        /\ \/ done' = done /\ client' = client
           \/ /\ done' = [done EXCEPT ![Head(uq).req] = TRUE]
              /\ \/ client' = [client EXCEPT ![Head(uq).req] = "poll"]
                 \/ client' = [client EXCEPT ![Head(uq).req] = "served"]
    BY <1>2, Zenon DEF DeferJob, ReplyJob
  <2>3. CASE r # Head(uq).req \/ (client' = client /\ done' = done)
    <3>1. key'[r] = key[r] /\ client'[r] = client[r] /\ (done[r] => done'[r])
      BY <2>2, <2>3, <1>t
    <3> QED BY <3>1, <1>r, Zenon
  <2>4. CASE r = Head(uq).req /\ ~ (client' = client /\ done' = done)
    <3>1. key'[r] # 0
      BY <2>1, <2>2, <2>4
    <3>2. done' = [done EXCEPT ![r] = TRUE]
      BY <2>2, <2>4, Zenon
    <3>3. done'[r]
      BY <3>2, <1>t, Zenon
    <3> QED BY <3>1, <3>3, Zenon
  <2> QED BY <2>3, <2>4
<1>3. CASE \E q \in Requests : GetDeferredResult(q)
  <2>1. PICK q \in Requests :
          /\ client[q] = "poll" /\ key' = key /\ done' = done
          /\ \/ client' = [client EXCEPT ![q] = "expired"]
             \/ client' = [client EXCEPT ![q] = "served"]
    BY <1>3, Zenon DEF GetDeferredResult
  <2>2. key'[r] = key[r] /\ (done[r] => done'[r])
        /\ (client'[r] = client[r] \/ (client[r] = "poll" /\ client'[r] # "idle"))
    BY <2>1, <1>t
  <2>3. client[r] = "poll" => key[r] # 0
    BY <1>r
  <2> QED BY <2>2, <2>3, <1>r, Zenon
<1>4. CASE \/ \E q \in Requests : FiveSeconds(q)
           \/ DeferInsert \/ LoopStep \/ Tick \/ UNCHANGED vars
  <2>1. UNCHANGED <<key, client, done>>
    BY <1>4 DEF FiveSeconds, DeferInsert, LoopStep, LoopTakes, FindEntry, SetTime, SetResult,
                Tick, vars
  <2> QED BY <2>1, <1>r, Zenon
<1> QED BY <1>1, <1>2, <1>3, <1>4 DEF Next, UbusJob

-----------------------------------------------------------------------------
(* What is kept under the keys. *)

\* Steps that make no call leave the keys alone, and put an entry only under one of them.
LEMMA KeyedStep == TypeOK /\ Called /\ Keyed /\ [Next]_vars => Keyed'
<1> SUFFICES ASSUME TypeOK, Called, Keyed, [Next]_vars, NEW t \in Times, table'[t] # None
             PROVE  \E r \in Requests : key'[r] = t
  BY DEF Keyed
<1>t. /\ now # 0 /\ t # 0 /\ key \in [Requests -> Times \cup {0}]
      /\ table \in [Times -> Entry \cup {None}]
      /\ upc \in Requests \cup {None}
  BY DEF TypeOK, Times
<1>1. CASE \E q \in Requests, a \in BOOLEAN, k \in Kinds : Arrive(q, a, k)
  <2>1. PICK q \in Requests :
          /\ key[q] = 0 /\ key' = [key EXCEPT ![q] = now]
          /\ \/ table' = table
             \/ table' = [table EXCEPT ![now] = ReadyEntry(q)]
    BY <1>1, Zenon DEF Arrive, UniqKey, ReadyEntry
  <2>2. table[t] # None \/ t = now
    BY <2>1, <1>t
  <2>3. CASE table[t] # None
    BY <2>1, <2>3, <1>t DEF Keyed
  <2>4. CASE t = now
    BY <2>1, <2>4, <1>t
  <2> QED BY <2>2, <2>3, <2>4
<1>2. ASSUME key' = key, table[t] # None \/ (\E q \in Requests : t = key[q])
      PROVE  \E r \in Requests : key'[r] = t
  BY <1>2 DEF Keyed
<1>3. CASE DeferInsert
  <2>1. key' = key /\ table' = [table EXCEPT ![key[upc]] = Pending] /\ upc \in Requests
    BY <1>3, <1>t DEF DeferInsert
  <2>2. table[t] # None \/ t = key[upc]
    BY <2>1, <1>t
  <2> QED BY <2>1, <2>2, <1>2
<1>4. CASE SetTime \/ SetResult
  <2>1. key' = key /\ lcur \in Requests
    BY <1>4 DEF SetTime, SetResult, Called
  <2>2. table[t] # None \/ t = key[lcur]
    BY <1>4, <1>t DEF SetTime, SetResult
  <2> QED BY <2>1, <2>2, <1>2
<1>5. CASE \E q \in Requests : GetDeferredResult(q)
  <2>1. PICK q \in Requests :
          key' = key /\ (table' = table \/ table' = [table EXCEPT ![key[q]] = None])
    BY <1>5, Zenon DEF GetDeferredResult
  <2>2. table[t] # None
    BY <2>1, <1>t
  <2> QED BY <2>1, <2>2, <1>2
<1>6. CASE \/ \E q \in Requests : FiveSeconds(q)
           \/ DeferJob \/ ReplyJob \/ LoopTakes \/ FindEntry \/ Tick \/ UNCHANGED vars
  <2>1. key' = key /\ table' = table
    BY <1>6, Zenon DEF FiveSeconds, DeferJob, ReplyJob, LoopTakes, FindEntry, Tick, vars
  <2> QED BY <2>1, <1>2
<1> QED BY <1>1, <1>3, <1>4, <1>5, <1>6 DEF Next, UbusJob, LoopStep

\* A request that has its key alone after a step had it alone before.
LEMMA SoleBefore ==
  ASSUME TypeOK, [Next]_vars, NEW r \in Requests, key[r] # 0, Sole(r)'
  PROVE  /\ Sole(r) /\ key'[r] = key[r] /\ kind'[r] = kind[r]
         /\ \A q \in Requests \ {r} : key[q] # key[r] /\ key'[q] # key[r]
<1>t. /\ key \in [Requests -> Times \cup {0}] /\ now # 0
      /\ kind \in [Requests -> Kinds]
  BY DEF TypeOK, Times
<1>1. CASE \E q \in Requests, a \in BOOLEAN, k \in Kinds : Arrive(q, a, k)
  <2>1. PICK q \in Requests, k \in Kinds :
          /\ key[q] = 0 /\ key' = [key EXCEPT ![q] = now]
          /\ kind' = [kind EXCEPT ![q] = k] /\ torn' = torn
    BY <1>1, Zenon DEF Arrive, UniqKey
  <2>2. key'[r] = key[r] /\ kind'[r] = kind[r]
    BY <2>1, <1>t
  <2>3. \A p \in Requests \ {r} : key'[p] # key[r]
    BY <2>2 DEF Sole, Alone
  <2>4. \A p \in Requests \ {r} : key[p] # key[r]
    BY <2>1, <2>3, <1>t
  <2> QED BY <2>1, <2>2, <2>3, <2>4 DEF Sole, Alone
<1>2. CASE \/ \E q \in Requests : FiveSeconds(q) \/ GetDeferredResult(q)
           \/ UbusJob \/ LoopStep \/ Tick \/ UNCHANGED vars
  <2>1. key' = key /\ kind' = kind /\ torn \subseteq torn'
    <3>1. CASE \E q \in Requests : GetDeferredResult(q)
      <4>1. PICK q \in Requests :
              key' = key /\ kind' = kind /\ (torn' = torn \/ torn' = torn \cup {q})
        BY <3>1, Zenon DEF GetDeferredResult
      <4> QED BY <4>1
    <3>2. CASE \/ \E q \in Requests : FiveSeconds(q)
               \/ UbusJob \/ LoopStep \/ Tick \/ UNCHANGED vars
      <4>1. key' = key /\ kind' = kind /\ torn' = torn
        BY <3>2, Zenon DEF FiveSeconds, UbusJob, DeferJob, DeferInsert, ReplyJob, LoopStep,
                           LoopTakes, FindEntry, SetTime, SetResult, Tick, vars
      <4> QED BY <4>1
    <3> QED BY <1>2, <3>1, <3>2
  <2> QED BY <2>1 DEF Sole, Alone
<1> QED BY <1>1, <1>2 DEF Next

Keeps(r) == Own(r) /\ (kind[r] # "ussdRefused" => Once(r))

\* A new request finds no entry under its key.
LEMMA NewRequest ==
  ASSUME TypeOK, Called, Clients, Keyed,
         NEW r \in Requests, NEW a \in BOOLEAN, NEW k \in Kinds, Arrive(r, a, k), Sole(r)'
  PROVE  Keeps(r)'
<1>1. /\ key[r] = 0 /\ key' = [key EXCEPT ![r] = now] /\ now \in Times
      /\ client' = [client EXCEPT ![r] = "wait"]
      /\ \/ table' = table
         \/ /\ table[now] # None
            /\ table' = [table EXCEPT ![now] = ReadyEntry(r)]
      /\ UNCHANGED <<lpc, lcur>>
  BY Zenon DEF Arrive, UniqKey, ReadyEntry
<1>2. key'[r] = now /\ client'[r] = "wait"
  BY <1>1 DEF TypeOK
<1>3. table[now] = None
  <2> SUFFICES ASSUME table[now] # None PROVE FALSE
    OBVIOUS
  <2>1. PICK q \in Requests : key[q] = now
    BY <1>1 DEF Keyed
  <2>2. q # r /\ key'[q] = now
    BY <2>1, <1>1 DEF TypeOK, Times
  <2> QED BY <2>2, <1>2 DEF Sole, Alone
<1>4. table'[key'[r]] = None
  BY <1>1, <1>2, <1>3
<1>5. ~ (lcur' = r /\ lpc' \in {"setTime", "setResult"})
  BY <1>1 DEF Called, AtWork
<1> QED BY <1>2, <1>4, <1>5 DEF Keeps, Own, Once

\* A step that does not touch the request and its entry.
LEMMA Untouched ==
  ASSUME NEW r \in Requests, Keeps(r), key'[r] = key[r], kind'[r] = kind[r],
         table'[key[r]] = table[key[r]], client'[r] = client[r], got'[r] = got[r],
         client[r] = "poll" /\ upc = r => upc' = r,
         AtWork(r)' => AtWork(r),
         lcur' = r /\ lpc' \in {"setTime", "setResult"} => lcur = r /\ lpc = lpc',
         lcur = r /\ lpc = "setResult" /\ AtWork(r)' => lcur' = r /\ lpc' = lpc
  PROVE  Keeps(r)'
<1>1. Own(r)'
  BY DEF Keeps, Own
<1>2. kind[r] # "ussdRefused" => Once(r)'
  BY DEF Keeps, Once
<1> QED BY <1>1, <1>2 DEF Keeps

\* The UbusLoop's jobs: the key is sent and then the entry is made; or the result is
\* sent.
LEMMA UbusKeeps ==
  ASSUME TypeOK, Called, Clients, UbusJob, NEW r \in Requests, Keeps(r),
         \A q \in Requests \ {r} : key[q] # key[r], key[r] # 0
  PROVE  Keeps(r)'
<1>t. /\ key[r] \in Times /\ client[r] \in {"idle", "wait", "poll", "served", "expired"}
      /\ table \in [Times -> Entry \cup {None}] /\ upc \in Requests \cup {None}
      /\ client \in [Requests -> {"idle", "wait", "poll", "served", "expired"}]
      /\ got \in [Requests -> Results]
      /\ r # None
  BY RequestsAssumption DEF TypeOK
<1>u. UNCHANGED <<key, kind, lq, lpc, lcur>>
  BY Zenon DEF UbusJob, DeferJob, DeferInsert, ReplyJob, loopVars
<1>w. (AtWork(r)' <=> AtWork(r))
  BY <1>u DEF AtWork
<1>1. CASE DeferJob
  <2>1. /\ upc = None /\ table' = table /\ got' = got
        /\ \/ client' = client /\ upc' = upc
           \/ client' = [client EXCEPT ![Head(uq).req] = "poll"] /\ upc' = Head(uq).req
    BY <1>1, Zenon DEF DeferJob
  <2>2. CASE client'[r] = client[r]
    BY <2>1, <2>2, <1>t, <1>u, <1>w, Untouched
  <2>3. CASE client'[r] # client[r]
    <3>1. client'[r] = "poll" /\ upc' = r
      BY <2>1, <2>3, <1>t
    <3>2. Own(r)'
      BY <3>1, <2>1, <1>u DEF Keeps, Own
    <3>3. kind[r] # "ussdRefused" => Once(r)'
      BY <3>1, <2>1, <1>u, <1>w DEF Keeps, Once
    <3> QED BY <3>2, <3>3, <1>u DEF Keeps
  <2> QED BY <2>2, <2>3
<1>2. CASE DeferInsert
  <2>1. /\ table' = [table EXCEPT ![key[upc]] = Pending]
        /\ upc \in Requests /\ client[upc] = "poll" /\ UNCHANGED <<client, got>>
    BY <1>2, <1>t DEF DeferInsert, Called
  <2>2. CASE upc = r
    <3>1. table'[key[r]] = Pending /\ client'[r] = "poll"
      BY <2>1, <2>2, <1>t
    <3>2. Pending.result = None /\ Pending.ready = FALSE /\ Pending # None
      BY NoneAssumption, Entries DEF Pending
    <3>3. Own(r)'
      BY <3>1, <3>2, <1>u DEF Own
    <3>4. Once(r)'
      BY <3>1, <3>2, <1>u DEF Once
    <3> QED BY <3>3, <3>4 DEF Keeps
  <2>3. CASE upc # r
    <3>1. table'[key[r]] = table[key[r]]
      BY <2>1, <2>3
    <3> QED BY <3>1, <2>1, <2>3, <1>u, <1>w, Untouched
  <2> QED BY <2>2, <2>3
<1>3. CASE ReplyJob
  <2>1. /\ upc' = upc /\ table' = table
        /\ \/ client' = client /\ got' = got
           \/ /\ ~ done[Head(uq).req]
              /\ client' = [client EXCEPT ![Head(uq).req] = "served"]
              /\ got' = [got EXCEPT ![Head(uq).req] = Head(uq).result]
    BY <1>3, Zenon DEF ReplyJob
  <2>2. CASE client'[r] = client[r] /\ got'[r] = got[r]
    BY <2>1, <2>2, <1>u, <1>w, Untouched
  <2>3. CASE ~ (client'[r] = client[r] /\ got'[r] = got[r])
    <3>1. /\ ~ done[r] /\ r = Head(uq).req
          /\ client' = [client EXCEPT ![r] = "served"]
          /\ got' = [got EXCEPT ![r] = Head(uq).result]
      <4>1. r = Head(uq).req
        BY <2>1, <2>3, <1>t
      <4> QED BY <4>1, <2>1, <2>3, Zenon
    <3>2. client[r] \notin {"poll", "served", "expired"}
      BY <3>1, Zenon DEF Clients
    <3>3. Head(uq).result \in {r} \X (1 .. 2)
      <4>1. uq # <<>> /\ uq \in Seq(Job) /\ Head(uq).what = "reply"
        BY <1>3 DEF ReplyJob, TypeOK
      <4>2. Head(uq) \in Elements(uq)
        BY <4>1, First, Zenon
      <4> QED BY <4>1, <4>2, <3>1 DEF Called
    <3>4. client'[r] = "served" /\ got'[r] \in {r} \X (1 .. 2)
      BY <3>1, <3>3, <1>t
    <3>5. Own(r)'
      BY <3>4, <2>1, <1>u DEF Keeps, Own
    <3>6. kind[r] # "ussdRefused" => Once(r)'
      BY <3>2, <2>1, <1>u DEF Keeps, Once
    <3> QED BY <3>5, <3>6, <1>u DEF Keeps
  <2> QED BY <2>2, <2>3
<1> QED BY <1>1, <1>2, <1>3 DEF UbusJob

\* A fetch: the client gets what was kept for it, and the entry is erased.
LEMMA FetchKeeps ==
  ASSUME TypeOK, NEW q \in Requests, GetDeferredResult(q), NEW r \in Requests, Keeps(r),
         r \notin torn', \A p \in Requests \ {r} : key[p] # key[r], key[r] # 0
  PROVE  Keeps(r)'
<1>t. /\ key[r] \in Times
      /\ table \in [Times -> Entry \cup {None}]
      /\ client \in [Requests -> {"idle", "wait", "poll", "served", "expired"}]
      /\ got \in [Requests -> Results] /\ upc = None /\ r # None
  BY RequestsAssumption DEF TypeOK, GetDeferredResult
<1>u. UNCHANGED <<key, kind, lq, lpc, lcur, upc>>
  BY Zenon DEF GetDeferredResult, loopVars
<1>w. (AtWork(r)' <=> AtWork(r))
  BY <1>u DEF AtWork
<1>1. CASE q = r
  <2>1. table[key[r]] # None
    BY <1>1, <1>t DEF Keeps, Own, GetDeferredResult
  <2>2. /\ table[key[r]].ready
        /\ client' = [client EXCEPT ![r] = "served"]
        /\ got' = [got EXCEPT ![r] = table[key[r]].result]
        /\ table' = [table EXCEPT ![key[r]] = None]
        /\ torn' = IF table[key[r]].result = None THEN torn \cup {r} ELSE torn
    BY <1>1, <2>1, Zenon DEF GetDeferredResult
  <2>3. table[key[r]].result # None
    BY <2>2
  <2>4. client'[r] = "served" /\ table'[key[r]] = None /\ got'[r] \in {r} \X (1 .. 2)
    BY <2>1, <2>2, <2>3, <1>t DEF Keeps, Own
  <2>5. Own(r)'
    BY <2>4, <1>u DEF Own
  <2>6. kind[r] # "ussdRefused" => Once(r)'
    <3> SUFFICES ASSUME kind[r] # "ussdRefused", lcur = r, lpc \in {"setTime", "setResult"}
                 PROVE  FALSE
      BY <2>4, <1>u DEF Once
    <3>1. AtWork(r)
      BY DEF AtWork
    <3> QED BY <3>1, <2>1, <2>3 DEF Keeps, Once
  <2> QED BY <2>5, <2>6, <1>u DEF Keeps
<1>2. CASE q # r
  <2>1. /\ client' = [client EXCEPT ![q] = "expired"] \/ client' = [client EXCEPT ![q] = "served"]
        /\ got' = got \/ got' = [got EXCEPT ![q] = table[key[q]].result]
        /\ table' = table \/ table' = [table EXCEPT ![key[q]] = None]
    BY Zenon DEF GetDeferredResult
  <2>2. client'[r] = client[r] /\ got'[r] = got[r] /\ table'[key[r]] = table[key[r]]
    BY <2>1, <1>2, <1>t
  <2> QED BY <2>2, <1>u, <1>w, Untouched
<1> QED BY <1>1, <1>2

\* The Loop's steps: an entry is made ready and gets the result of its own request, and
\* after its one reply the Loop is done with it.
LEMMA LoopKeeps ==
  ASSUME TypeOK, Called, LoopStep, NEW r \in Requests, Keeps(r),
         \A q \in Requests \ {r} : key[q] # key[r], key[r] # 0
  PROVE  Keeps(r)'
<1>t. /\ key[r] \in Times /\ r # None
      /\ table \in [Times -> Entry \cup {None}] /\ lcur \in Requests \cup {None}
  BY RequestsAssumption DEF TypeOK
<1>u. UNCHANGED <<key, kind, client, got, upc>>
  BY Zenon DEF LoopStep, LoopTakes, FindEntry, SetTime, SetResult
<1>1. CASE LoopTakes
  <2>1. lq # <<>> /\ lq \in Seq(Requests)
    BY <1>1 DEF LoopTakes, TypeOK
  <2>2. Head(lq) \in Elements(lq) /\ Elements(lq) = {Head(lq)} \cup Elements(Tail(lq))
    BY <2>1, First, Zenon
  <2>3. AtWork(r)' => AtWork(r)
    BY <1>1, <2>2 DEF LoopTakes, AtWork
  <2>4. table' = table /\ lpc = "idle" /\ lpc' = "find"
    BY <1>1 DEF LoopTakes
  <2> QED BY <2>3, <2>4, <1>u, Untouched
<1>2. CASE FindEntry
  <2>1. /\ table' = table /\ lq' = lq /\ lpc = "find"
        /\ \/ ReplyDone
           \/ table[key[lcur]] # None /\ lpc' = "setTime" /\ lcur' = lcur
    BY <1>2, Zenon DEF FindEntry
  <2>2. CASE ReplyDone
    <3>1. lpc' \in {"idle", "find"} /\ (lpc' = "find" => lcur' = lcur)
      BY <2>1, <2>2, AfterReply
    <3>2. AtWork(r)' => AtWork(r)
      BY <2>1, <3>1 DEF AtWork
    <3> QED BY <2>1, <3>1, <3>2, <1>u, Untouched
  <2>3. CASE lcur # r /\ lcur' = lcur /\ lpc' = "setTime"
    <3>1. AtWork(r)' => AtWork(r)
      BY <2>1, <2>3 DEF AtWork
    <3> QED BY <2>1, <2>3, <3>1, <1>u, Untouched
  <2>4. CASE lcur = r /\ lcur' = lcur /\ lpc' = "setTime" /\ table[key[lcur]] # None
    <3>1. Own(r)'
      BY <2>1, <1>u DEF Keeps, Own
    <3>2. kind[r] # "ussdRefused" => Once(r)'
      BY <2>1, <2>4, <1>u DEF Keeps, Once, AtWork
    <3> QED BY <3>1, <3>2, <1>u DEF Keeps
  <2> QED BY <2>1, <2>2, <2>3, <2>4
<1>3. CASE SetTime
  <2>1. /\ table' = [table EXCEPT ![key[lcur]] =
                       IF table[key[lcur]] = None THEN [Pending EXCEPT !.ready = TRUE]
                       ELSE [table[key[lcur]] EXCEPT !.ready = TRUE]]
        /\ lpc = "setTime" /\ lpc' = "setResult" /\ lcur' = lcur /\ lq' = lq
        /\ lcur \in Requests
    BY <1>3 DEF SetTime, Called
  <2>2. AtWork(r)' => AtWork(r)
    BY <2>1 DEF AtWork
  <2>3. CASE lcur # r
    <3>1. table'[key[r]] = table[key[r]]
      BY <2>1, <2>3
    <3> QED BY <2>1, <2>2, <2>3, <3>1, <1>u, Untouched
  <2>4. CASE lcur = r
    <3>1. /\ table'[key[r]] # None
          /\ table[key[r]] = None => table'[key[r]].result = None
          /\ table[key[r]] # None => table'[key[r]].result = table[key[r]].result
      <4>1. CASE table[key[r]] = None
        <5>1. table'[key[r]] = [Pending EXCEPT !.ready = TRUE]
          BY <2>1, <2>4, <4>1, <1>t
        <5>2. [Pending EXCEPT !.ready = TRUE].result = None
          BY DEF Pending
        <5>3. [Pending EXCEPT !.ready = TRUE] \in Entry
          BY Entries
        <5> QED BY <4>1, <5>1, <5>2, <5>3, NoneAssumption
      <4>2. CASE table[key[r]] # None
        <5>1. table[key[r]] \in Entry
          BY <4>2, <1>t
        <5>2. table'[key[r]] = [table[key[r]] EXCEPT !.ready = TRUE]
          BY <2>1, <2>4, <4>2, <1>t
        <5>3. [table[key[r]] EXCEPT !.ready = TRUE] \in Entry
          BY <5>1, Entries
        <5>4. [table[key[r]] EXCEPT !.ready = TRUE].result = table[key[r]].result
          BY <5>1 DEF Entry
        <5> QED BY <4>2, <5>2, <5>3, <5>4, NoneAssumption
      <4> QED BY <4>1, <4>2
    <3>2. Own(r)'
      BY <3>1, <1>u DEF Keeps, Own
    <3>3. kind[r] # "ussdRefused" => Once(r)'
      BY <3>1, <2>1, <2>4, <1>u DEF Keeps, Once, AtWork
    <3> QED BY <3>2, <3>3, <1>u DEF Keeps
  <2> QED BY <2>3, <2>4
<1>4. CASE SetResult
  <2>1. /\ table' = [table EXCEPT ![key[lcur]] =
                       IF table[key[lcur]] = None THEN [Pending EXCEPT !.result = <<lcur, ln>>]
                       ELSE [table[key[lcur]] EXCEPT !.result = <<lcur, ln>>]]
        /\ lpc = "setResult" /\ lq' = lq /\ lcur \in Requests /\ ln \in 1 .. 2
        /\ lcur \notin Elements(lq)
    BY <1>4 DEF SetResult, Called
  <2>2. \/ lpc' = "find" /\ lcur' = lcur /\ kind[lcur] = "ussdRefused"
        \/ lpc' = "idle" /\ lcur' = None
    BY <1>4, <2>1, AfterReply DEF SetResult
  <2>3. AtWork(r)' => AtWork(r) /\ (lcur = r => kind[r] = "ussdRefused")
    BY <2>1, <2>2 DEF AtWork
  <2>4. CASE lcur # r
    <3>1. table'[key[r]] = table[key[r]]
      BY <2>1, <2>4
    <3> QED BY <2>2, <2>3, <2>4, <3>1, <1>u, Untouched
  <2>5. CASE lcur = r
    <3>1. table'[key[r]] # None /\ table'[key[r]].result \in {r} \X (1 .. 2)
      <4>0. <<r, ln>> \in Results /\ <<r, ln>> \in {r} \X (1 .. 2)
        <5>1. <<r, ln>> \in Results
          BY <2>1, JobKinds, Zenon
        <5>2. <<r, ln>> \in {r} \X (1 .. 2)
          BY <2>1
        <5> QED BY <5>1, <5>2
      <4>1. CASE table[key[r]] = None
        <5>1. table'[key[r]] = [Pending EXCEPT !.result = <<r, ln>>]
          BY <2>1, <2>5, <4>1, <1>t
        <5>2. [Pending EXCEPT !.result = <<r, ln>>].result = <<r, ln>>
          BY DEF Pending
        <5>3. [Pending EXCEPT !.result = <<r, ln>>] \in Entry
          BY <4>0, Entries
        <5>4. table'[key[r]] # None
          BY <5>1, <5>3, NoneAssumption
        <5> QED BY <4>0, <5>1, <5>2, <5>4
      <4>2. CASE table[key[r]] # None
        <5>1. table[key[r]] \in Entry
          BY <4>2, <1>t
        <5>2. table'[key[r]] = [table[key[r]] EXCEPT !.result = <<r, ln>>]
          BY <2>1, <2>5, <4>2, <1>t
        <5>3. [table[key[r]] EXCEPT !.result = <<r, ln>>] \in Entry
          BY <4>0, <5>1, Entries
        <5>4. [table[key[r]] EXCEPT !.result = <<r, ln>>].result = <<r, ln>>
          BY <5>1 DEF Entry
        <5>5. table'[key[r]] # None
          BY <5>2, <5>3, NoneAssumption
        <5> QED BY <4>0, <5>2, <5>4, <5>5
      <4> QED BY <4>1, <4>2
    <3>2. Own(r)'
      BY <3>1, <1>u DEF Keeps, Own
    <3>3. kind[r] # "ussdRefused" => Once(r)'
      BY <2>1, <2>2, <2>3, <2>5, <1>u DEF Keeps, Once
    <3> QED BY <3>2, <3>3, <1>u DEF Keeps
  <2> QED BY <2>4, <2>5
<1> QED BY <1>1, <1>2, <1>3, <1>4 DEF LoopStep

\* Whatever either thread does, a request that has its key alone keeps what it should.
LEMMA KeptStep == ResultsInv /\ [Next]_vars => Kept'
<1> SUFFICES ASSUME TypeOK, Called, Clients, Keyed, Kept, [Next]_vars,
                    NEW r \in Requests, Sole(r)'
             PROVE  Keeps(r)'
  BY DEF ResultsInv, Kept, Keeps
<1>1. CASE key[r] = 0
  <2>1. CASE \E a \in BOOLEAN, k \in Kinds : Arrive(r, a, k)
    BY <2>1, NewRequest, Zenon
  <2>2. CASE key'[r] = key[r]
    BY <1>1, <2>2 DEF Sole
  <2>3. key'[r] = key[r] \/ (\E a \in BOOLEAN, k \in Kinds : Arrive(r, a, k))
    <3>1. CASE \E q \in Requests, a \in BOOLEAN, k \in Kinds : Arrive(q, a, k)
      <4>1. PICK q \in Requests, a \in BOOLEAN, k \in Kinds : Arrive(q, a, k)
        BY <3>1
      <4>2. key' = [key EXCEPT ![q] = now]
        BY <4>1 DEF Arrive, UniqKey
      <4> QED BY <4>1, <4>2 DEF TypeOK
    <3>2. CASE \/ \E q \in Requests : FiveSeconds(q) \/ GetDeferredResult(q)
               \/ UbusJob \/ LoopStep \/ Tick \/ UNCHANGED vars
      <4>1. key' = key
        BY <3>2, Zenon DEF FiveSeconds, GetDeferredResult, UbusJob, DeferJob, DeferInsert,
                           ReplyJob, LoopStep, LoopTakes, FindEntry, SetTime, SetResult, Tick, vars
      <4> QED BY <4>1
    <3> QED BY <3>1, <3>2 DEF Next
  <2> QED BY <2>1, <2>2, <2>3
<1>2. CASE key[r] # 0
  <2>1. /\ Sole(r) /\ key'[r] = key[r] /\ kind'[r] = kind[r]
        /\ \A q \in Requests \ {r} : key[q] # key[r] /\ key'[q] # key[r]
    BY <1>2, SoleBefore
  <2>2. Keeps(r) /\ r \notin torn'
    BY <2>1 DEF Kept, Keeps, Sole
  <2>3. CASE \E q \in Requests, a \in BOOLEAN, k \in Kinds : Arrive(q, a, k)
    <3>1. PICK q \in Requests : \E a \in BOOLEAN, k \in Kinds : Arrive(q, a, k)
      BY <2>3
    <3>2. /\ key[q] = 0 /\ key' = [key EXCEPT ![q] = now]
          /\ client' = [client EXCEPT ![q] = "wait"]
          /\ table' = table \/ table' = [table EXCEPT ![now] = ReadyEntry(q)]
          /\ lq' = lq \/ lq' = Append(lq, q)
          /\ UNCHANGED <<got, upc, lpc, lcur>>
      BY <3>1, Zenon DEF Arrive, UniqKey, ReadyEntry
    <3>3. q # r /\ key[r] # now
      BY <1>2, <2>1, <3>2 DEF TypeOK
    <3>4. table'[key[r]] = table[key[r]] /\ client'[r] = client[r]
      <4>1. /\ key[r] \in Times /\ table \in [Times -> Entry \cup {None}]
            /\ client \in [Requests -> {"idle", "wait", "poll", "served", "expired"}]
        BY <1>2 DEF TypeOK
      <4> QED BY <3>2, <3>3, <4>1
    <3>5. AtWork(r)' => AtWork(r)
      <4>1. Elements(Append(lq, q)) = Elements(lq) \cup {q}
        <5>1. lq \in Seq(Requests)
          BY DEF TypeOK
        <5> QED BY <5>1, Last, Zenon
      <4> QED BY <4>1, <3>2, <3>3 DEF AtWork
    <3> QED BY <2>1, <2>2, <3>2, <3>4, <3>5, Untouched
  <2>4. CASE \E q \in Requests : GetDeferredResult(q)
    BY <1>2, <2>1, <2>2, <2>4, FetchKeeps
  <2>5. CASE UbusJob
    BY <1>2, <2>1, <2>2, <2>5, UbusKeeps
  <2>6. CASE LoopStep
    BY <1>2, <2>1, <2>2, <2>6, LoopKeeps
  <2>7. CASE (\E q \in Requests : FiveSeconds(q)) \/ Tick \/ UNCHANGED vars
    <3>1. UNCHANGED <<table, client, got, upc, lq, lpc, lcur>>
      BY <2>7, Zenon DEF FiveSeconds, Tick, vars, loopVars
    <3>2. AtWork(r)' => AtWork(r)
      BY <3>1 DEF AtWork
    <3> QED BY <2>1, <2>2, <3>1, <3>2, Untouched
  <2> QED BY <2>3, <2>4, <2>5, <2>6, <2>7 DEF Next
<1> QED BY <1>1, <1>2

\* The invariant, for every step of every run.
LEMMA ResultsInvariant == Spec => []ResultsInv
<1>1. Init => ResultsInv
  <2> SUFFICES ASSUME Init PROVE ResultsInv
    OBVIOUS
  <2>1. TypeOK
    <3>1. done \in [Requests -> BOOLEAN]
      BY Zenon DEF Init
    <3>2. now \in Times /\ ln \in 0 .. 2
      BY RequestsAssumption DEF Init, Times
    <3>3. uq \in Seq(Job) /\ lq \in Seq(Requests)
      BY DEF Init
    <3> QED BY <3>1, <3>2, <3>3 DEF Init, TypeOK, Kinds, Results
  <2>2. Called
    BY DEF Init, Called, AtWork, Elements, Distinct
  <2>3. Clients /\ Keyed /\ Kept
    BY DEF Init, Clients, Keyed, Kept, Sole
  <2> QED BY <2>1, <2>2, <2>3 DEF ResultsInv
<1>2. ResultsInv /\ [Next]_vars => ResultsInv'
  BY TypeStep, CalledStep, ClientsStep, KeyedStep, KeptStep DEF ResultsInv
<1> QED BY <1>1, <1>2, PTL DEF Spec

-----------------------------------------------------------------------------
(* The theorems. *)

\* The requests, results and entries are what the two threads take them for, in every
\* state.
THEOREM ResultTypes == Spec => []TypeOK
<1>1. ResultsInv => TypeOK
  BY DEF ResultsInv
<1> QED BY <1>1, ResultsInvariant, PTL

\* The client of a call gets the result of that call, through reply() or through the
\* table of deferred results, when no other call was made in its millisecond and it was
\* not fetched between "ready" and the result (initApiRequest(), apiGetDeferredResult()).
THEOREM OwnResults == Spec => []OwnResult
<1>1. ResultsInv => OwnResult
  <2> SUFFICES ASSUME ResultsInv, NEW r \in Requests, Alone(r), r \notin torn
               PROVE  /\ client[r] # "expired"
                      /\ client[r] = "served" => got[r] \in {r} \X (1 .. 2)
    BY DEF OwnResult
  <2>1. CASE key[r] = 0
    BY <2>1 DEF ResultsInv, Clients
  <2>2. CASE key[r] # 0
    BY <2>2 DEF ResultsInv, Kept, Sole, Own
  <2> QED BY <2>1, <2>2
<1> QED BY <1>1, ResultsInvariant, PTL

\* Every entry of m_deferred_results has a client that still asks for it, except what a
\* second reply, or a fetch between the two assignments, puts back.
THEOREM NothingLeaks == Spec => []NoLeak
<1>1. ResultsInv => NoLeak
  <2> SUFFICES ASSUME ResultsInv, NEW t \in Times, table[t] # None
               PROVE  \E r \in Requests :
                        /\ key[r] = t
                        /\ client[r] = "poll" \/ r \in torn \/ kind[r] = "ussdRefused" \/ ~ Alone(r)
    BY DEF NoLeak
  <2>1. PICK r \in Requests : key[r] = t
    BY DEF ResultsInv, Keyed
  <2>2. key[r] # 0
    BY <2>1 DEF Times
  <2>3. CASE Alone(r) /\ r \notin torn /\ kind[r] # "ussdRefused"
    BY <2>1, <2>2, <2>3 DEF ResultsInv, Kept, Sole, Once
  <2> QED BY <2>1, <2>3
<1> QED BY <1>1, ResultsInvariant, PTL

=============================================================================

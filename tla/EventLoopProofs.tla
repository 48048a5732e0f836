--------------------------- MODULE EventLoopProofs ---------------------------
(***************************************************************************)
(* Theorems about EventLoop for any set of threads and delays and any      *)
(* number of timers.                                                       *)
(***************************************************************************)
EXTENDS EventLoop, FiniteSetTheorems, SequenceTheorems, WellFoundedInduction, TLAPS

-----------------------------------------------------------------------------
(* The queue. *)

\* What is queued by these times is in the order of its deadlines.
SortedBy(q, tm) ==
  \A a, b \in DOMAIN q : a <= b => tm[q[a]].time <= tm[q[b]].time

Sorted == queue \in Seq(Ids) /\ SortedBy(queue, timer)

\* Ids are given in turn.
Numbered == \E n \in Nat : DOMAIN timer = 1 .. n

-----------------------------------------------------------------------------
(* The owner's sleep. *)

\* A byte is in the pipe, or about to be.
WakePending == pipe \/ \E t \in Threads : pc[t] \in {"wake", "execWake"}

\* Nothing is due before this.
Covered(deadline) == \A id \in Installed : deadline <= timer[id].time

Awake ==
  /\ lpc = "off" => nextRun = 0
  /\ lpc = "setNext" => WakePending \/ Covered(IF cur = 0 THEN Never ELSE timer[cur].time)
  /\ lpc = "top" => needStop \/ WakePending \/ Covered(nextRun)
  /\ lpc = "poll" => WakePending \/ (~ needStop /\ Covered(nextRun))

-----------------------------------------------------------------------------
(* The order in which timers run. *)

\* Timer j was set before timer i, for no later a deadline.
Earlier(j, i) == j < i /\ timer[j].delay <= timer[i].delay

\* A timer that has not run is due when it was set and its delay has passed.
SetByNow == \A id \in DOMAIN timer \ ran : timer[id].time <= now + timer[id].delay

\* A timer waits until it has run or is cancelled.
Kept == \A id \in DOMAIN timer : id \in Installed \/ id \in ran \/ timer[id].cancel

QueuedInOrder ==
  \A a, b \in DOMAIN queue :
    (Earlier(queue[b], queue[a]) /\ queue[a] \notin ran /\ queue[b] \notin ran) => b < a

\* What runTimeouts() knows of the timer it has taken.
Taken ==
  /\ lpc \in {"call", "callback", "requeue"} => cur \in Installed
  /\ lpc = "call" /\ cur \notin ran =>
       \A j \in DOMAIN timer : Earlier(j, cur) /\ ~ timer[j].cancel => j \in ran
  /\ lpc = "callback" => cur \in ran
  /\ lpc = "requeue" => cur \in ran \/ timer[cur].cancel

Order == SetByNow /\ Kept /\ QueuedInOrder /\ Taken /\ RunsInOrder

LoopInv == TypeOK /\ Numbered /\ Sorted /\ Awake /\ Order

-----------------------------------------------------------------------------
(* Lemmas about the queue. *)

\* A set of naturals has a least element.
LEMMA Least ==
  ASSUME NEW T \in SUBSET Nat, T # {}
  PROVE  \E i \in T : \A j \in T : i <= j
<1> DEFINE R == {ss \in Nat \X Nat : ss[1] < ss[2]}
<1>1. IsWellFoundedOn(R, Nat)
  BY NatLessThanWellFounded DEF OpToRel
<1> HIDE DEF R
<1>2. PICK i \in T : \A j \in T : ~ (<<j, i>> \in R)
  BY <1>1, WFMin
<1>3. \A j \in T : ~ (j < i)
  BY <1>2 DEF R
<1> QED BY <1>3

\* What InsertAt() makes of a sequence.
LEMMA InsertAtFacts ==
  ASSUME NEW S, NEW q \in Seq(S), NEW pos \in 1 .. Len(q) + 1, NEW id \in S
  PROVE  /\ InsertAt(q, pos, id) \in Seq(S)
         /\ DOMAIN InsertAt(q, pos, id) = 1 .. Len(q) + 1
         /\ \A k \in 1 .. Len(q) + 1 :
              InsertAt(q, pos, id)[k] = IF k < pos THEN q[k]
                                        ELSE IF k = pos THEN id ELSE q[k - 1]
<1> DEFINE a == SubSeq(q, 1, pos - 1)
           c == SubSeq(q, pos, Len(q))
<1>1. /\ a \in Seq(S) /\ Len(a) = pos - 1 /\ \A k \in 1 .. pos - 1 : a[k] = q[k]
  BY SubSeqProperties
<1>2. /\ c \in Seq(S) /\ Len(c) = Len(q) - pos + 1
      /\ \A k \in 1 .. Len(q) - pos + 1 : c[k] = q[pos + k - 1]
  BY SubSeqProperties
<1>3. <<id>> \in Seq(S) /\ Len(<<id>>) = 1 /\ <<id>>[1] = id
  OBVIOUS
<1> DEFINE r == (a \o <<id>>) \o c
<1>r. InsertAt(q, pos, id) = r
  BY DEF InsertAt
<1> HIDE DEF a, c
<1>4. /\ a \o <<id>> \in Seq(S) /\ Len(a \o <<id>>) = pos
      /\ \A k \in 1 .. pos : (a \o <<id>>)[k] = IF k < pos THEN a[k] ELSE id
  BY <1>1, <1>3, ConcatProperties
<1>5. /\ r \in Seq(S) /\ Len(r) = Len(q) + 1
      /\ \A k \in 1 .. Len(q) + 1 : r[k] = IF k <= pos THEN (a \o <<id>>)[k] ELSE c[k - pos]
  BY <1>2, <1>4, ConcatProperties
<1> HIDE DEF r
<1>6. ASSUME NEW k \in 1 .. Len(q) + 1
      PROVE  r[k] = IF k < pos THEN q[k] ELSE IF k = pos THEN id ELSE q[k - 1]
  <2>1. CASE k < pos
    BY <2>1, <1>1, <1>4, <1>5
  <2>2. CASE k = pos
    BY <2>2, <1>4, <1>5
  <2>3. CASE k > pos
    <3>1. k - pos \in 1 .. Len(q) - pos + 1 /\ pos + (k - pos) - 1 = k - 1
      BY <2>3
    <3>2. r[k] = c[k - pos]
      BY <1>5, <2>3
    <3>3. c[k - pos] = q[k - 1]
      BY <3>1, <1>2
    <3> QED BY <2>3, <3>2, <3>3
  <2> QED BY <2>1, <2>2, <2>3
<1> QED BY <1>5, <1>6, <1>r

\* What RemoveAt() makes of a sequence.
LEMMA RemoveAtFacts ==
  ASSUME NEW S, NEW q \in Seq(S), NEW pos \in 1 .. Len(q)
  PROVE  /\ RemoveAt(q, pos) \in Seq(S)
         /\ DOMAIN RemoveAt(q, pos) = 1 .. Len(q) - 1
         /\ \A k \in 1 .. Len(q) - 1 :
              RemoveAt(q, pos)[k] = IF k < pos THEN q[k] ELSE q[k + 1]
<1> DEFINE a == SubSeq(q, 1, pos - 1)
           c == SubSeq(q, pos + 1, Len(q))
<1>1. /\ a \in Seq(S) /\ Len(a) = pos - 1 /\ \A k \in 1 .. pos - 1 : a[k] = q[k]
  BY SubSeqProperties
<1>2. /\ c \in Seq(S) /\ Len(c) = Len(q) - pos
      /\ \A k \in 1 .. Len(q) - pos : c[k] = q[pos + k]
  BY SubSeqProperties
<1> DEFINE r == a \o c
<1>r. RemoveAt(q, pos) = r
  BY DEF RemoveAt
<1> HIDE DEF a, c
<1>c. /\ r \in Seq(S) /\ Len(r) = Len(a) + Len(c)
      /\ \A k \in 1 .. Len(a) + Len(c) : r[k] = IF k <= Len(a) THEN a[k] ELSE c[k - Len(a)]
  BY <1>1, <1>2, ConcatProperties
<1>3. /\ r \in Seq(S) /\ Len(r) = Len(q) - 1
      /\ \A k \in 1 .. Len(q) - 1 : r[k] = IF k < pos THEN a[k] ELSE c[k - (pos - 1)]
  <2> HIDE DEF r
  <2>1. Len(q) \in Nat /\ pos \in Nat /\ Len(a) + Len(c) = Len(q) - 1
    BY <1>1, <1>2
  <2>2. \A k \in 1 .. Len(q) - 1 : k <= Len(a) <=> k < pos
    BY <1>1, <2>1
  <2> QED BY <1>1, <1>c, <2>1, <2>2
<1> HIDE DEF r
<1>4. ASSUME NEW k \in 1 .. Len(q) - 1
      PROVE  r[k] = IF k < pos THEN q[k] ELSE q[k + 1]
  BY <1>1, <1>2, <1>3
<1> QED BY <1>3, <1>4, <1>r

\* A timer is put behind those that are due no later than it, and before the others.
LEMMA InsertedFacts ==
  ASSUME NEW q \in Seq(Ids), NEW id \in Ids, NEW tm,
         \A k \in DOMAIN q : tm[q[k]].time \in Nat, tm[id].time \in Nat, SortedBy(q, tm)
  PROVE  \E pos \in 1 .. Len(q) + 1 :
           /\ Inserted(q, id, tm) = InsertAt(q, pos, id)
           /\ \A k \in 1 .. pos - 1 : tm[q[k]].time <= tm[id].time
           /\ \A k \in pos .. Len(q) : tm[q[k]].time > tm[id].time
<1> DEFINE later == {i \in DOMAIN q : tm[q[i]].time > tm[id].time}
           pos == IF later = {} THEN Len(q) + 1
                  ELSE CHOOSE i \in later : \A j \in later : i <= j
<1>1. DOMAIN q = 1 .. Len(q) /\ Len(q) \in Nat
  OBVIOUS
<1>2. CASE later = {}
  <2>1. pos = Len(q) + 1
    BY <1>2
  <2>2. \A k \in 1 .. Len(q) : tm[q[k]].time <= tm[id].time
    BY <1>1, <1>2
  <2> QED BY <1>1, <2>1, <2>2 DEF Inserted
<1>3. CASE later # {}
  <2>1. later \in SUBSET Nat
    BY <1>1
  <2>2. \E i \in later : \A j \in later : i <= j
    BY <1>3, <2>1, Least
  <2>3. pos \in later /\ \A j \in later : pos <= j
    BY <1>3, <2>2
  <2>4. Inserted(q, id, tm) = InsertAt(q, pos, id)
    BY DEF Inserted
  <2> HIDE DEF pos
  <2>5. pos \in 1 .. Len(q) /\ tm[q[pos]].time > tm[id].time
    BY <1>1, <2>3
  <2>6. \A k \in 1 .. pos - 1 : tm[q[k]].time <= tm[id].time
    BY <1>1, <2>3, <2>5
  <2>7. \A k \in pos .. Len(q) : tm[q[k]].time > tm[id].time
    <3> TAKE k \in pos .. Len(q)
    <3>1. tm[q[pos]].time <= tm[q[k]].time /\ k \in DOMAIN q /\ pos \in DOMAIN q
      BY <1>1, <2>5 DEF SortedBy
    <3> QED BY <2>5, <3>1
  <2> QED BY <2>4, <2>5, <2>6, <2>7
<1> QED BY <1>2, <1>3

\* An installed timer is erased and the others keep their order.
LEMMA RemovedFacts ==
  ASSUME NEW q \in Seq(Ids), NEW id \in {q[i] : i \in DOMAIN q}
  PROVE  \E pos \in 1 .. Len(q) :
           /\ q[pos] = id
           /\ Removed(q, id) = RemoveAt(q, pos)
<1> DEFINE pos == CHOOSE i \in DOMAIN q : q[i] = id
<1>1. pos \in DOMAIN q /\ q[pos] = id
  OBVIOUS
<1>2. Removed(q, id) = RemoveAt(q, pos)
  BY DEF Removed
<1> HIDE DEF pos
<1> QED BY <1>1, <1>2

\* r is the queue q in which the timer has been put, behind those due no later.
WithTimer(r, q, id, tm) ==
  /\ r \in Seq(Ids) /\ IsInjective(r) /\ SortedBy(r, tm)
  /\ {r[i] : i \in DOMAIN r} = {q[i] : i \in DOMAIN q} \cup {id}
  /\ \A a, b \in DOMAIN r : r[a] # id /\ r[b] # id =>
       \E c, d \in DOMAIN q : q[c] = r[a] /\ q[d] = r[b] /\ (d < c => b < a)
  /\ \A a, b \in DOMAIN r :
       r[a] = id /\ r[b] # id /\ tm[r[b]].time <= tm[id].time => b < a

\* r is the queue q without the timer.
WithoutTimer(r, q, id, tm) ==
  /\ r \in Seq(Ids) /\ IsInjective(r) /\ SortedBy(r, tm)
  /\ {r[i] : i \in DOMAIN r} = {q[i] : i \in DOMAIN q} \ {id}
  /\ \A a, b \in DOMAIN r :
       \E c, d \in DOMAIN q : q[c] = r[a] /\ q[d] = r[b] /\ (d < c => b < a)

\* Putting a timer in a sorted queue.
LEMMA InsertedKeeps ==
  ASSUME NEW q \in Seq(Ids), NEW id \in Ids, NEW tm,
         \A k \in DOMAIN q : tm[q[k]].time \in Nat /\ q[k] # id,
         tm[id].time \in Nat, SortedBy(q, tm), IsInjective(q)
  PROVE  WithTimer(Inserted(q, id, tm), q, id, tm)
<1> DEFINE r == Inserted(q, id, tm)
<1>1. PICK pos \in 1 .. Len(q) + 1 :
           /\ r = InsertAt(q, pos, id)
           /\ \A k \in 1 .. pos - 1 : tm[q[k]].time <= tm[id].time
           /\ \A k \in pos .. Len(q) : tm[q[k]].time > tm[id].time
  BY InsertedFacts
<1>2. /\ r \in Seq(Ids) /\ DOMAIN r = 1 .. Len(q) + 1
      /\ \A k \in 1 .. Len(q) + 1 : r[k] = IF k < pos THEN q[k]
                                           ELSE IF k = pos THEN id ELSE q[k - 1]
  <2>1. r = InsertAt(q, pos, id)
    BY <1>1
  <2> HIDE DEF r
  <2> HIDE DEF Ids
  <2>2. /\ InsertAt(q, pos, id) \in Seq(Ids)
        /\ DOMAIN InsertAt(q, pos, id) = 1 .. Len(q) + 1
        /\ \A k \in 1 .. Len(q) + 1 :
             InsertAt(q, pos, id)[k] = IF k < pos THEN q[k]
                                       ELSE IF k = pos THEN id ELSE q[k - 1]
    BY InsertAtFacts, SMTT(30)
  <2> QED BY <2>1, <2>2, Zenon
<1> HIDE DEF r
<1> DEFINE Old(k) == IF k < pos THEN k ELSE k - 1
<1>3. DOMAIN q = 1 .. Len(q) /\ Len(q) \in Nat /\ pos \in Nat
  OBVIOUS
<1>4. \A k \in DOMAIN r \ {pos} : Old(k) \in DOMAIN q /\ r[k] = q[Old(k)] /\ k \in Nat
  <2> TAKE k \in DOMAIN r \ {pos}
  <2>1. CASE k < pos
    <3>1. k \in 1 .. Len(q) /\ k \in 1 .. Len(q) + 1 /\ Old(k) = k
      BY <2>1, <1>2, <1>3
    <3>2. r[k] = q[k]
      BY <2>1, <3>1, <1>2
    <3> HIDE DEF Old
    <3> QED BY <3>1, <3>2, <1>3
  <2>2. CASE k > pos
    <3>1. k - 1 \in 1 .. Len(q) /\ k \in 1 .. Len(q) + 1 /\ Old(k) = k - 1
      BY <2>2, <1>2, <1>3
    <3>2. r[k] = q[k - 1]
      BY <2>2, <3>1, <1>2, <1>3
    <3> HIDE DEF Old
    <3> QED BY <3>1, <3>2, <1>3
  <2> QED BY <2>1, <2>2, <1>2, <1>3
<1>5. pos \in DOMAIN r /\ r[pos] = id
  BY <1>2
<1>6. \A a, b \in DOMAIN r \ {pos} : Old(a) < Old(b) <=> a < b
  BY <1>2, <1>3
<1>6a. \A a, b \in DOMAIN r \ {pos} : Old(a) = Old(b) => a = b
  BY <1>2, <1>3
<1>7. \A k \in DOMAIN r \ {pos} :
        /\ k < pos => tm[r[k]].time <= tm[id].time
        /\ k > pos => tm[r[k]].time > tm[id].time
  <2> TAKE k \in DOMAIN r \ {pos}
  <2>1. ASSUME k < pos PROVE tm[r[k]].time <= tm[id].time
    <3>1. k \in 1 .. pos - 1 /\ Old(k) = k
      BY <2>1, <1>2, <1>3
    <3> QED BY <3>1, <1>1, <1>4
  <2>2. ASSUME k > pos PROVE tm[r[k]].time > tm[id].time
    <3>1. k - 1 \in pos .. Len(q) /\ Old(k) = k - 1
      BY <2>2, <1>2, <1>3
    <3> QED BY <3>1, <1>1, <1>4
  <2> QED BY <2>1, <2>2
<1>8. \A k \in DOMAIN q : \E j \in DOMAIN r \ {pos} : r[j] = q[k]
  <2> TAKE k \in DOMAIN q
  <2>1. CASE k < pos
    BY <2>1, <1>2, <1>3
  <2>2. CASE k >= pos
    <3>1. k + 1 \in DOMAIN r \ {pos} /\ r[k + 1] = q[k]
      BY <2>2, <1>2, <1>3
    <3> QED BY <3>1
  <2> QED BY <2>1, <2>2, <1>3
<1> HIDE DEF Old
<1>9. \A k \in DOMAIN r \ {pos} : r[k] # id
  BY <1>4
<1>10. IsInjective(r)
  <2> SUFFICES ASSUME NEW a \in DOMAIN r, NEW b \in DOMAIN r, r[a] = r[b]
               PROVE  a = b
    BY DEF IsInjective
  <2>1. CASE a # pos /\ b # pos
    <3>1. Old(a) = Old(b)
      BY <2>1, <1>4 DEF IsInjective
    <3> QED BY <2>1, <3>1, <1>6a
  <2> QED BY <2>1, <1>5, <1>9
<1>11. {r[i] : i \in DOMAIN r} = {q[i] : i \in DOMAIN q} \cup {id}
  BY <1>4, <1>5, <1>8
<1>12. SortedBy(r, tm)
  <2> SUFFICES ASSUME NEW a \in DOMAIN r, NEW b \in DOMAIN r, a <= b
               PROVE  tm[r[a]].time <= tm[r[b]].time
    BY DEF SortedBy
  <2>1. CASE a # pos /\ b # pos
    <3>1. Old(a) \in Nat /\ Old(b) \in Nat /\ a \in Nat /\ b \in Nat
      BY <2>1, <1>3, <1>4
    <3>2. Old(a) <= Old(b)
      <4>1. ~ (b < a)
        BY <3>1
      <4> QED BY <2>1, <3>1, <4>1, <1>6
    <3> QED BY <2>1, <3>2, <1>4 DEF SortedBy
  <2>2. CASE a = pos /\ b # pos
    <3>1. b > pos
      BY <2>2, <1>3, <1>4
    <3>2. tm[r[b]].time \in Nat
      BY <2>2, <1>4
    <3> QED BY <2>2, <3>1, <3>2, <1>5, <1>7
  <2>3. CASE a # pos /\ b = pos
    <3>1. a < pos
      BY <2>3, <1>3, <1>4
    <3> QED BY <2>3, <3>1, <1>5, <1>7
  <2>4. CASE a = pos /\ b = pos
    BY <2>4, <1>5
  <2> QED BY <2>1, <2>2, <2>3, <2>4
<1>13. ASSUME NEW a \in DOMAIN r, NEW b \in DOMAIN r, r[a] # id, r[b] # id
       PROVE  \E c, d \in DOMAIN q : q[c] = r[a] /\ q[d] = r[b] /\ (d < c => b < a)
  BY <1>13, <1>4, <1>5, <1>6
<1>14. ASSUME NEW a \in DOMAIN r, NEW b \in DOMAIN r,
              r[a] = id, r[b] # id, tm[r[b]].time <= tm[id].time
       PROVE  b < a
  <2>1. a = pos /\ b \in DOMAIN r \ {pos}
    BY <1>14, <1>5, <1>9
  <2>2. tm[r[b]].time \in Nat /\ b \in Nat
    BY <2>1, <1>4
  <2> QED BY <1>14, <2>1, <2>2, <1>3, <1>7
<1> QED BY <1>2, <1>10, <1>11, <1>12, <1>13, <1>14 DEF WithTimer, r

\* Taking a timer out of a sorted queue.
LEMMA RemovedKeeps ==
  ASSUME NEW q \in Seq(Ids), NEW id \in {q[i] : i \in DOMAIN q}, NEW tm,
         SortedBy(q, tm), IsInjective(q)
  PROVE  WithoutTimer(Removed(q, id), q, id, tm)
<1> DEFINE r == Removed(q, id)
<1>1. PICK pos \in 1 .. Len(q) : q[pos] = id /\ r = RemoveAt(q, pos)
  BY RemovedFacts
<1> HIDE DEF r
<1>2. /\ r \in Seq(Ids) /\ DOMAIN r = 1 .. Len(q) - 1
      /\ \A k \in 1 .. Len(q) - 1 : r[k] = IF k < pos THEN q[k] ELSE q[k + 1]
  BY <1>1, RemoveAtFacts
<1> DEFINE Old(k) == IF k < pos THEN k ELSE k + 1
<1>3. DOMAIN q = 1 .. Len(q) /\ Len(q) \in Nat /\ pos \in Nat
  OBVIOUS
<1>4. \A k \in DOMAIN r : Old(k) \in DOMAIN q \ {pos} /\ r[k] = q[Old(k)] /\ k \in Nat
  BY <1>2, <1>3
<1>5. \A a, b \in DOMAIN r : (Old(a) < Old(b) <=> a < b) /\ (Old(a) = Old(b) => a = b)
  BY <1>2, <1>3
<1>6. \A k \in DOMAIN q \ {pos} : \E j \in DOMAIN r : r[j] = q[k]
  <2> TAKE k \in DOMAIN q \ {pos}
  <2>1. CASE k < pos
    BY <2>1, <1>2, <1>3
  <2>2. CASE k > pos
    <3>1. k - 1 \in DOMAIN r /\ r[k - 1] = q[k]
      BY <2>2, <1>2, <1>3
    <3> QED BY <3>1
  <2> QED BY <2>1, <2>2, <1>3
<1> HIDE DEF Old
<1>7. \A k \in DOMAIN q \ {pos} : q[k] # id
  BY <1>1, <1>3 DEF IsInjective
<1>8. IsInjective(r)
  BY <1>4, <1>5 DEF IsInjective
<1>9. {r[i] : i \in DOMAIN r} = {q[i] : i \in DOMAIN q} \ {id}
  BY <1>1, <1>3, <1>4, <1>6, <1>7
<1>10. SortedBy(r, tm)
  <2> SUFFICES ASSUME NEW a \in DOMAIN r, NEW b \in DOMAIN r, a <= b
               PROVE  tm[r[a]].time <= tm[r[b]].time
    BY DEF SortedBy
  <2>1. Old(a) \in Nat /\ Old(b) \in Nat /\ a \in Nat /\ b \in Nat
    BY <1>3, <1>4
  <2>2. Old(a) <= Old(b)
    BY <2>1, <1>5
  <2> QED BY <2>2, <1>4 DEF SortedBy
<1>11. ASSUME NEW a \in DOMAIN r, NEW b \in DOMAIN r
       PROVE  \E c, d \in DOMAIN q : q[c] = r[a] /\ q[d] = r[b] /\ (d < c => b < a)
  BY <1>4, <1>5
<1> QED BY <1>2, <1>8, <1>9, <1>10, <1>11 DEF WithoutTimer, r

-----------------------------------------------------------------------------
(* What the steps do to the timers. *)

\* A timer with the next id has been added, the others are as they were.
Added(id, delay, loop, client) ==
  /\ id \notin DOMAIN timer /\ DOMAIN timer' = DOMAIN timer \cup {id}
  /\ \A i \in DOMAIN timer : i < id /\ timer'[i] = timer[i]
  /\ timer'[id] = [time |-> now + delay, delay |-> delay, loop |-> loop,
                   cancel |-> FALSE, client |-> client]
  /\ Numbered' /\ Sorted' /\ IsInjective(queue')
  /\ Installed' = Installed \cup {id} /\ known' = known \cup {id}
  /\ \A a, b \in DOMAIN queue' : queue'[a] # id /\ queue'[b] # id =>
       \E c, d \in DOMAIN queue :
         queue[c] = queue'[a] /\ queue[d] = queue'[b] /\ (d < c => b < a)
  /\ \A a, b \in DOMAIN queue' :
       queue'[a] = id /\ queue'[b] # id /\ timer'[queue'[b]].time <= now + delay => b < a

\* addTimer() gives the timer the next id and leaves the others as they are.
LEMMA InstallFacts ==
  ASSUME TypeOK, Numbered, Sorted,
         NEW delay \in Delays \cup {0}, NEW loop \in BOOLEAN, NEW client \in Threads,
         Install(delay, loop, client)
  PROVE  \E id \in Ids : Added(id, delay, loop, client)
<1> DEFINE id == Cardinality(DOMAIN timer) + 1
           new == [time |-> now + delay, delay |-> delay, loop |-> loop,
                   cancel |-> FALSE, client |-> client]
           tm == [i \in DOMAIN timer \cup {id} |-> IF i = id THEN new ELSE timer[i]]
<1>1. id \in Ids /\ timer' = tm /\ queue' = Inserted(queue, id, tm) /\ known' = known \cup {id}
  BY DEF Install
<1>2. PICK n \in Nat : DOMAIN timer = 1 .. n
  BY DEF Numbered
<1>3. id = n + 1
  <2>1. Cardinality(1 .. n) = n
    BY FS_Interval
  <2> QED BY <1>2, <2>1
<1>4. new.time = now + delay /\ now + delay \in Nat
  BY LoopAssumption DEF TypeOK
<1> HIDE DEF id, new
<1>5. /\ id \notin DOMAIN timer /\ DOMAIN tm = DOMAIN timer \cup {id} /\ DOMAIN tm = 1 .. id
      /\ tm[id] = new /\ \A i \in DOMAIN timer : i < id /\ tm[i] = timer[i]
  BY <1>2, <1>3
<1> HIDE DEF tm
<1>6. \A k \in DOMAIN queue : queue[k] \in DOMAIN timer
  BY DEF TypeOK, Installed
<1>7. \A i \in DOMAIN timer : timer[i].time \in Nat
  BY DEF TypeOK, Timer
<1>8. SortedBy(queue, tm)
  BY <1>5, <1>6 DEF Sorted, SortedBy
<1>9. /\ \A k \in DOMAIN queue : tm[queue[k]].time \in Nat /\ queue[k] # id
      /\ tm[id].time \in Nat
  BY <1>4, <1>5, <1>6, <1>7
<1>10. IsInjective(queue) /\ queue \in Seq(Ids)
  BY DEF TypeOK, Sorted
<1>11. WithTimer(queue', queue, id, tm)
  <2>1. WithTimer(Inserted(queue, id, tm), queue, id, tm)
    BY <1>1, <1>8, <1>9, <1>10, InsertedKeeps
  <2> QED BY <1>1, <2>1
<1>12. Numbered'
  BY <1>1, <1>2, <1>3, <1>5 DEF Numbered
<1>13. Sorted' /\ Installed' = Installed \cup {id}
  BY <1>1, <1>11 DEF Sorted, Installed, WithTimer
<1>14. /\ timer'[id] = new
       /\ \A a, b \in DOMAIN queue' :
            queue'[a] = id /\ queue'[b] # id /\ timer'[queue'[b]].time <= now + delay
              => b < a
  BY <1>1, <1>4, <1>5, <1>11 DEF WithTimer
<1>15. /\ IsInjective(queue')
       /\ \A a, b \in DOMAIN queue' : queue'[a] # id /\ queue'[b] # id =>
            \E c, d \in DOMAIN queue :
              queue[c] = queue'[a] /\ queue[d] = queue'[b] /\ (d < c => b < a)
  BY <1>11 DEF WithTimer
<1>16. /\ id \notin DOMAIN timer /\ DOMAIN timer' = DOMAIN timer \cup {id}
       /\ \A i \in DOMAIN timer : i < id /\ timer'[i] = timer[i]
  BY <1>1, <1>5
<1>17. Added(id, delay, loop, client)
  BY <1>1, <1>12, <1>13, <1>14, <1>15, <1>16 DEF new, Added
<1> QED BY <1>1, <1>17

\* The end of a timer's turn.
LEMMA RequeueFacts ==
  ASSUME TypeOK, Numbered, Sorted, Taken, Requeue
  PROVE  /\ cur \in DOMAIN timer /\ DOMAIN timer' = DOMAIN timer
         /\ \A i \in DOMAIN timer : /\ timer'[i].delay = timer[i].delay
                                    /\ timer'[i].cancel = timer[i].cancel
                                    /\ i # cur => timer'[i] = timer[i]
         /\ Sorted' /\ IsInjective(queue') /\ Installed \ {cur} \subseteq Installed'
         /\ Installed' \subseteq Installed /\ known' = Installed'
         /\ \A i \in DOMAIN timer' : timer'[i] \in Timer
         /\ \A a, b \in DOMAIN queue' : queue'[a] # cur /\ queue'[b] # cur =>
              \E c, d \in DOMAIN queue :
                queue[c] = queue'[a] /\ queue[d] = queue'[b] /\ (d < c => b < a)
         /\ cur \in Installed' => timer[cur].loop /\ ~ timer[cur].cancel
<1>1. lpc = "requeue" /\ cur \in Installed /\ cur \in DOMAIN timer
  BY DEF Requeue, Taken, TypeOK
<1>2. /\ queue \in Seq(Ids) /\ SortedBy(queue, timer) /\ IsInjective(queue)
      /\ known = Installed /\ Installed \subseteq DOMAIN timer
      /\ \A i \in DOMAIN timer : timer[i] \in Timer
  BY DEF TypeOK, Sorted
<1> DEFINE rest == Removed(queue, cur)
<1>3. WithoutTimer(rest, queue, cur, timer)
  BY <1>1, <1>2, RemovedKeeps DEF Installed
<1> HIDE DEF rest
<1>3a. {rest[i] : i \in DOMAIN rest} = Installed \ {cur}
  BY <1>3 DEF WithoutTimer, Installed
<1>4. CASE ~ (timer[cur].loop /\ ~ timer[cur].cancel)
  <2>1. queue' = rest /\ known' = known \ {cur} /\ timer' = timer
    BY <1>4 DEF Requeue, rest
  <2>2. /\ Sorted' /\ IsInjective(queue') /\ Installed' = Installed \ {cur}
        /\ \A a, b \in DOMAIN queue' :
             \E c, d \in DOMAIN queue :
               queue[c] = queue'[a] /\ queue[d] = queue'[b] /\ (d < c => b < a)
    <3>1. Installed' = Installed \ {cur}
      BY <1>3a, <2>1 DEF Installed
    <3>2. Sorted'
      BY <1>3, <2>1 DEF WithoutTimer, Sorted
    <3> QED BY <1>3, <2>1, <3>1, <3>2 DEF WithoutTimer
  <2> QED BY <1>1, <1>2, <2>1, <2>2
<1>5. CASE timer[cur].loop /\ ~ timer[cur].cancel
  <2> DEFINE tm == [timer EXCEPT ![cur].time = now + timer[cur].delay]
  <2>1. timer' = tm /\ queue' = Inserted(rest, cur, tm) /\ known' = known
    BY <1>5, Zenon DEF Requeue, rest
  <2>2. now + timer[cur].delay \in Nat
    <3>1. now \in Nat
      BY LoopAssumption DEF TypeOK
    <3>2. timer[cur].delay \in Nat
      <4>1. timer[cur] \in Timer
        BY <1>1, <1>2
      <4>2. timer[cur].delay \in Delays \cup {0}
        BY <4>1 DEF Timer
      <4>3. \A d \in Delays \cup {0} : d \in Nat
        BY LoopAssumption
      <4> QED BY <4>2, <4>3
    <3> QED BY <3>1, <3>2
  <2>3. /\ DOMAIN tm = DOMAIN timer /\ tm[cur].time = now + timer[cur].delay
        /\ \A i \in DOMAIN timer : /\ tm[i].delay = timer[i].delay
                                   /\ tm[i].cancel = timer[i].cancel
                                   /\ i # cur => tm[i] = timer[i]
        /\ \A i \in DOMAIN timer : tm[i] \in Timer
    BY <1>1, <1>2, <2>2 DEF Timer
  <2> HIDE DEF tm
  <2>4. \A k \in DOMAIN rest : rest[k] \in DOMAIN timer /\ rest[k] # cur
    BY <1>2, <1>3a
  <2>5. SortedBy(rest, tm)
    BY <1>3, <2>3, <2>4 DEF SortedBy, WithoutTimer
  <2>6. (\A k \in DOMAIN rest : tm[rest[k]].time \in Nat /\ rest[k] # cur) /\ tm[cur].time \in Nat
    BY <2>2, <2>3, <2>4 DEF Timer
  <2>7. cur \in Ids
    BY <1>1 DEF TypeOK
  <2>8. WithTimer(queue', rest, cur, tm)
    <3>1. rest \in Seq(Ids) /\ IsInjective(rest)
      BY <1>3 DEF WithoutTimer
    <3>2. WithTimer(Inserted(rest, cur, tm), rest, cur, tm)
      BY <2>5, <2>6, <2>7, <3>1, InsertedKeeps
    <3> QED BY <2>1, <3>2
  <2>9. Installed' = Installed
    <3>1. Installed' = {rest[i] : i \in DOMAIN rest} \cup {cur}
      BY <2>8 DEF Installed, WithTimer
    <3> QED BY <1>1, <1>3a, <3>1
  <2>10. Sorted' /\ IsInjective(queue')
    BY <2>1, <2>8 DEF Sorted, WithTimer
  <2>11. ASSUME NEW a \in DOMAIN queue', NEW b \in DOMAIN queue',
                queue'[a] # cur, queue'[b] # cur
         PROVE  \E c, d \in DOMAIN queue :
                  queue[c] = queue'[a] /\ queue[d] = queue'[b] /\ (d < c => b < a)
    <3>1. PICK c1 \in DOMAIN rest, d1 \in DOMAIN rest :
            rest[c1] = queue'[a] /\ rest[d1] = queue'[b] /\ (d1 < c1 => b < a)
      BY <2>8, <2>11 DEF WithTimer
    <3>2. PICK c \in DOMAIN queue, d \in DOMAIN queue :
            queue[c] = rest[c1] /\ queue[d] = rest[d1] /\ (d < c => d1 < c1)
      BY <1>3 DEF WithoutTimer
    <3> QED BY <3>1, <3>2
  <2> QED BY <1>1, <1>2, <1>5, <2>1, <2>3, <2>9, <2>10, <2>11
<1> QED BY <1>4, <1>5

-----------------------------------------------------------------------------
(* Types and the order of the queue. *)

\* The steps that leave the timers and the queue as they are.
LEMMA QuietStep ==
  ASSUME TypeOK, Numbered, Sorted, UNCHANGED <<timer, queue, known>>
  PROVE  /\ Numbered' /\ Sorted' /\ Installed' = Installed
         /\ known' = Installed' /\ IsInjective(queue') /\ known' \subseteq DOMAIN timer'
BY DEF TypeOK, Numbered, Sorted, SortedBy, Installed

\* The part of TypeOK that is about timers, for a thread that adds one.
LEMMA InstallKeeps ==
  ASSUME TypeOK, Numbered, Sorted,
         NEW delay \in Delays \cup {0}, NEW loop \in BOOLEAN, NEW client \in Threads,
         Install(delay, loop, client)
  PROVE  /\ Numbered' /\ Sorted'
         /\ DOMAIN timer' \subseteq Ids /\ DOMAIN timer \subseteq DOMAIN timer'
         /\ \A id \in DOMAIN timer' : timer'[id] \in Timer
         /\ known' = Installed' /\ IsInjective(queue') /\ known' \subseteq DOMAIN timer'
<1>0. PICK id \in Ids : Added(id, delay, loop, client)
  BY InstallFacts
<1>1. /\ DOMAIN timer' = DOMAIN timer \cup {id}
      /\ \A i \in DOMAIN timer : timer'[i] = timer[i]
      /\ timer'[id] = [time |-> now + delay, delay |-> delay, loop |-> loop,
                       cancel |-> FALSE, client |-> client]
      /\ Numbered' /\ Sorted' /\ IsInjective(queue')
      /\ Installed' = Installed \cup {id} /\ known' = known \cup {id}
  BY <1>0 DEF Added
<1>2. now + delay \in Nat
  BY LoopAssumption DEF TypeOK
<1>3. timer'[id] \in Timer
  <2>1. FALSE \in BOOLEAN
    OBVIOUS
  <2> QED BY <1>1, <1>2, <2>1 DEF Timer
<1>4. /\ known = Installed /\ known \subseteq DOMAIN timer /\ DOMAIN timer \subseteq Ids
      /\ \A i \in DOMAIN timer : timer[i] \in Timer
  BY DEF TypeOK
<1> QED BY <1>1, <1>3, <1>4

\* The part of TypeOK that is about timers.
TimersOK ==
  /\ DOMAIN timer \subseteq Ids
  /\ \A id \in DOMAIN timer : timer[id] \in Timer
  /\ known = Installed /\ IsInjective(queue) /\ known \subseteq DOMAIN timer

\* Adding, cancelling and dropping timers keeps them of their types and in order.
LEMMA TimersStep ==
  ASSUME TypeOK, Numbered, Sorted, Taken, [Next]_vars
  PROVE  TimersOK' /\ Numbered' /\ Sorted' /\ DOMAIN timer \subseteq DOMAIN timer'
<1>t. /\ TimersOK /\ queue \in Seq(Ids) /\ SortedBy(queue, timer)
      /\ 0 \in Delays \cup {0} /\ FALSE \in BOOLEAN
  BY DEF TypeOK, Sorted, TimersOK
<1>1. ASSUME NEW t \in Threads, NEW d \in Delays, NEW l \in BOOLEAN, AddTimer(t, d, l)
      PROVE  TimersOK' /\ Numbered' /\ Sorted' /\ DOMAIN timer \subseteq DOMAIN timer'
  <2>1. Install(d, l, Owner) /\ Owner \in Threads /\ d \in Delays \cup {0}
    BY <1>1 DEF AddTimer, Threads
  <2> QED BY <2>1, InstallKeeps DEF TimersOK
<1>2. ASSUME NEW t \in Others, ExecAddsTimer(t)
      PROVE  TimersOK' /\ Numbered' /\ Sorted' /\ DOMAIN timer \subseteq DOMAIN timer'
  <2>1. Install(0, FALSE, t) /\ t \in Threads
    BY <1>2 DEF ExecAddsTimer, Threads
  <2> QED BY <2>1, <1>t, InstallKeeps DEF TimersOK
<1>3. ASSUME NEW t \in Threads, NEW id \in Ids, RemoveTimer(t, id)
      PROVE  TimersOK' /\ Numbered' /\ Sorted' /\ DOMAIN timer \subseteq DOMAIN timer'
  <2>1. /\ timer' = [timer EXCEPT ![id].cancel = TRUE] /\ id \in DOMAIN timer
        /\ UNCHANGED <<queue, known>>
    BY <1>3, <1>t DEF RemoveTimer, TimersOK
  <2>2. \A i \in DOMAIN timer : timer'[i] \in Timer /\ timer'[i].time = timer[i].time
    BY <2>1, <1>t DEF TimersOK, Timer
  <2>3. DOMAIN timer' = DOMAIN timer /\ Installed' = Installed
    BY <2>1 DEF Installed
  <2>4. \A k \in DOMAIN queue : queue[k] \in DOMAIN timer
    BY <1>t DEF TimersOK, Installed
  <2>5. SortedBy(queue', timer')
    BY <1>t, <2>1, <2>2, <2>4 DEF SortedBy
  <2> QED BY <1>t, <2>1, <2>2, <2>3, <2>5 DEF TimersOK, Numbered, Sorted
<1>4. CASE Requeue
  <2>1. /\ DOMAIN timer' = DOMAIN timer /\ Sorted' /\ IsInjective(queue')
        /\ Installed' \subseteq Installed /\ known' = Installed'
        /\ \A i \in DOMAIN timer' : timer'[i] \in Timer
    BY <1>4, RequeueFacts
  <2> QED BY <1>t, <2>1 DEF TimersOK, Numbered
<1>5. CASE UNCHANGED <<timer, queue, known>>
  BY <1>5, <1>t, QuietStep DEF TimersOK
<1>6. \/ \E t \in Threads, d \in Delays, l \in BOOLEAN : AddTimer(t, d, l)
      \/ \E t \in Others : ExecAddsTimer(t)
      \/ \E t \in Threads, id \in Ids : RemoveTimer(t, id)
      \/ Requeue
      \/ UNCHANGED <<timer, queue, known>>
  BY Zenon DEF Next, OwnerStep, Continue, Post, Run, Top, Poll, TakeFirst, CallTimer,
       CallbackReturns, ReadNext, SetNext, Sweep, Wake, ExecMakesPromise, ExecReturns,
       RequestStop, ExecBegins, Tick, vars
<1> QED BY <1>1, <1>2, <1>3, <1>4, <1>5, <1>6

\* The first timer is the one that is due first.
LEMMA FirstFacts ==
  ASSUME TypeOK, Sorted
  PROVE  \/ queue = <<>> /\ First = 0 /\ Installed = {}
         \/ /\ First \in Installed /\ First \in DOMAIN timer
            /\ 1 \in DOMAIN queue /\ First = queue[1] /\ First # 0
            /\ Covered(timer[First].time)
<1>1. CASE queue = <<>>
  <2>1. First = 0 /\ DOMAIN queue = {}
    BY <1>1 DEF First
  <2> QED BY <1>1, <2>1 DEF Installed
<1>2. CASE queue # <<>>
  <2>1. /\ 1 \in DOMAIN queue /\ First = queue[1] /\ \A k \in DOMAIN queue : 1 <= k
    BY <1>2 DEF First, Sorted
  <2>2. First \in Installed
    BY <2>1 DEF Installed
  <2>3. Installed \subseteq DOMAIN timer /\ DOMAIN timer \subseteq Ids
    BY DEF TypeOK
  <2>4. First # 0
    BY <2>2, <2>3 DEF Ids
  <2>5. Covered(timer[First].time)
    BY <2>1 DEF Covered, Installed, Sorted, SortedBy
  <2> QED BY <2>1, <2>2, <2>3, <2>4, <2>5
<1> QED BY <1>1, <1>2

\* The rest of TypeOK.
ControlOK ==
  /\ now \in 0 .. MaxTime /\ nextRun \in Nat
  /\ lpc \in OwnerPCs
  /\ cur \in DOMAIN timer \cup {0}
  /\ pc \in [Threads -> {"idle", "wake", "exec", "execAdd", "execWake", "wait"}]
  /\ promise \in [Others -> {"none", "pending", "set"}]
  /\ ran \subseteq DOMAIN timer /\ late \subseteq Others

FlagsOK == pipe \in BOOLEAN /\ running \in BOOLEAN /\ needStop \in BOOLEAN

\* The steps of the owner thread keep the control state in its types.
LEMMA OwnerTypes ==
  ASSUME TypeOK, Sorted, Taken, DOMAIN timer \subseteq DOMAIN timer', OwnerStep
  PROVE  ControlOK'
<1>t. ControlOK /\ Installed \subseteq DOMAIN timer
  BY DEF TypeOK, ControlOK
<1>f. First \in DOMAIN timer \cup {0}
  BY FirstFacts
<1>1. CASE Run \/ Top \/ Poll
  BY <1>1, <1>t DEF Run, Top, Poll, ControlOK, OwnerPCs
<1>2. CASE TakeFirst \/ ReadNext
  BY <1>2, <1>t, <1>f DEF TakeFirst, ReadNext, ControlOK, OwnerPCs
<1>3. CASE SetNext
  <2>1. nextRun' \in Nat
    BY <1>3, LoopAssumption DEF SetNext, TypeOK, Timer, Never
  <2> QED BY <1>3, <1>t, <2>1 DEF SetNext, ControlOK, OwnerPCs
<1>4. CASE CallbackReturns
  BY <1>4, <1>t DEF CallbackReturns, ControlOK, OwnerPCs
<1>5. CASE Requeue
  BY <1>5, <1>t DEF Requeue, ControlOK, OwnerPCs
<1>6. CASE Sweep
  BY <1>6, <1>t DEF Sweep, ControlOK, OwnerPCs
<1>7. CASE CallTimer
  <2>1. cur \in DOMAIN timer
    BY <1>7, <1>t DEF CallTimer, Taken
  <2> QED BY <1>7, <1>t, <2>1 DEF CallTimer, ControlOK, OwnerPCs
<1> QED BY <1>1, <1>2, <1>3, <1>4, <1>5, <1>6, <1>7 DEF OwnerStep

\* So do the other threads and the clock.
LEMMA TypeStep ==
  ASSUME TypeOK, Numbered, Sorted, Taken, [Next]_vars
  PROVE  TypeOK' /\ Numbered' /\ Sorted'
<1>1. TimersOK' /\ Numbered' /\ Sorted' /\ DOMAIN timer \subseteq DOMAIN timer'
  BY TimersStep
<1>t. ControlOK
  BY DEF TypeOK, ControlOK
<1>2. FlagsOK'
  <2>1. FlagsOK
    BY DEF TypeOK, FlagsOK
  <2> QED BY <2>1, Zenon
     DEF Next, OwnerStep, Continue, Post, Run, Top, Poll, TakeFirst, CallTimer, CallbackReturns,
         Requeue, ReadNext, SetNext, Sweep, Wake, ExecMakesPromise, ExecAddsTimer, ExecReturns,
         AddTimer, RemoveTimer, RequestStop, ExecBegins, Tick, vars, FlagsOK
\* What other threads leave alone.
<1>k. ASSUME UNCHANGED <<now, nextRun, lpc, cur, ran>>, late' \subseteq Others,
             pc' \in [Threads -> {"idle", "wake", "exec", "execAdd", "execWake", "wait"}],
             promise' \in [Others -> {"none", "pending", "set"}]
      PROVE  ControlOK'
  BY <1>1, <1>k, <1>t DEF ControlOK
<1>3. ASSUME NEW t \in Threads, Continue(t) PROVE ControlOK'
  <2>1. CASE Wake(t)
    <3>1. pc' \in [Threads -> {"idle", "wake", "exec", "execAdd", "execWake", "wait"}]
      BY <2>1, <1>t DEF Wake, ControlOK
    <3> QED BY <2>1, <3>1, <1>k, <1>t DEF Wake, ControlOK
  <2>2. CASE t \in Others /\ ExecMakesPromise(t)
    <3>1. late' \subseteq Others
      BY <2>2, <1>t DEF ExecMakesPromise, ControlOK
    <3> QED BY <2>2, <3>1, <1>k, <1>t DEF ExecMakesPromise, ControlOK
  <2>3. CASE t \in Others /\ ExecAddsTimer(t)
    BY <2>3, <1>k, <1>t DEF ExecAddsTimer, ControlOK
  <2>4. CASE t \in Others /\ ExecReturns(t)
    BY <2>4, <1>k, <1>t DEF ExecReturns, ControlOK
  <2> QED BY <1>3, <2>1, <2>2, <2>3, <2>4 DEF Continue
<1>4. ASSUME NEW t \in Threads, Post(t) PROVE ControlOK'
  <2>1. /\ UNCHANGED <<now, nextRun, lpc, cur, ran, late, promise>>
        /\ \/ UNCHANGED pc
           \/ pc' = [pc EXCEPT ![t] = "wake"]
           \/ pc' = [pc EXCEPT ![t] = "exec"]
    BY <1>4, Zenon DEF Post, AddTimer, RemoveTimer, RequestStop, ExecBegins
  <2>2. pc' \in [Threads -> {"idle", "wake", "exec", "execAdd", "execWake", "wait"}]
    BY <2>1, <1>t DEF ControlOK
  <2> QED BY <2>1, <2>2, <1>k, <1>t DEF ControlOK
<1>5. ASSUME Tick \/ UNCHANGED vars PROVE ControlOK'
  <2>1. now' \in 0 .. MaxTime
    BY <1>5, <1>t, LoopAssumption DEF Tick, vars, ControlOK
  <2>2. UNCHANGED <<nextRun, lpc, cur, pc, promise, ran, late>>
    BY <1>5 DEF Tick, vars
  <2> QED BY <1>1, <2>1, <2>2, <1>t DEF ControlOK
<1>6. ASSUME OwnerStep PROVE ControlOK'
  BY <1>1, <1>6, OwnerTypes
<1>7. ControlOK'
  BY <1>3, <1>4, <1>5, <1>6 DEF Next
<1> QED BY <1>1, <1>2, <1>7 DEF TypeOK, TimersOK, ControlOK, FlagsOK

-----------------------------------------------------------------------------
(* The kinds of steps. *)

\* No timer comes or goes or is due at another time; one may be cancelled.
SameTimers ==
  /\ UNCHANGED queue /\ Installed' = Installed /\ DOMAIN timer' = DOMAIN timer
  /\ \A i \in DOMAIN timer : /\ timer'[i].time = timer[i].time
                             /\ timer'[i].delay = timer[i].delay
                             /\ timer[i].cancel => timer'[i].cancel

\* A thread has added a timer and is about to write to the pipe.
ThreadAdds ==
  /\ \E id \in Ids, delay \in Delays \cup {0}, loop \in BOOLEAN, client \in Threads :
       Added(id, delay, loop, client)
  /\ \E t \in Threads : pc'[t] \in {"wake", "execWake"}
  /\ UNCHANGED <<now, lpc, cur, ran, nextRun, needStop>>

\* What another thread does leaves the owner where it is, and it wakes it for a stop.
ThreadSteps ==
  /\ SameTimers
  /\ UNCHANGED <<lpc, cur, ran, nextRun>> /\ now <= now'
  /\ WakePending => WakePending'
  /\ needStop' => needStop \/ WakePending'
  /\ needStop => needStop'

LEMMA AddTimerKind ==
  ASSUME TypeOK, Numbered, Sorted,
         NEW t \in Threads, NEW d \in Delays, NEW l \in BOOLEAN, AddTimer(t, d, l)
  PROVE  ThreadAdds
<1>1. Install(d, l, Owner) /\ Owner \in Threads /\ d \in Delays \cup {0}
  BY DEF AddTimer, Threads
<1>2. \E id \in Ids : Added(id, d, l, Owner)
  BY <1>1, InstallFacts
<1>3. pc'[t] = "wake"
  BY DEF AddTimer, TypeOK
<1>4. UNCHANGED <<now, lpc, cur, ran, nextRun, needStop>>
  BY DEF AddTimer
<1> QED BY <1>1, <1>2, <1>3, <1>4 DEF ThreadAdds

LEMMA ExecAddsKind ==
  ASSUME TypeOK, Numbered, Sorted, NEW t \in Others, ExecAddsTimer(t)
  PROVE  ThreadAdds
<1>1. Install(0, FALSE, t) /\ t \in Threads /\ 0 \in Delays \cup {0} /\ FALSE \in BOOLEAN
  BY DEF ExecAddsTimer, Threads
<1>2. \E id \in Ids : Added(id, 0, FALSE, t)
  BY <1>1, InstallFacts
<1>3. pc'[t] = "execWake"
  BY <1>1 DEF ExecAddsTimer, TypeOK
<1>4. UNCHANGED <<now, lpc, cur, ran, nextRun, needStop>>
  BY DEF ExecAddsTimer
<1> QED BY <1>1, <1>2, <1>3, <1>4 DEF ThreadAdds

LEMMA RemoveTimerKind ==
  ASSUME TypeOK, NEW t \in Threads, NEW id \in Ids, RemoveTimer(t, id)
  PROVE  ThreadSteps
<1>1. /\ timer' = [timer EXCEPT ![id].cancel = TRUE] /\ id \in DOMAIN timer
      /\ UNCHANGED <<now, queue, lpc, cur, ran, nextRun, pipe, pc, needStop>>
  BY DEF RemoveTimer, TypeOK
<1>2. \A i \in DOMAIN timer : timer[i] \in Timer
  BY DEF TypeOK
<1>3. \A i \in DOMAIN timer : /\ timer'[i].time = timer[i].time
                              /\ timer'[i].delay = timer[i].delay
                              /\ timer[i].cancel => timer'[i].cancel
  <2> TAKE i \in DOMAIN timer
  <2>1. CASE i = id
    <3>1. timer'[i] = [timer[i] EXCEPT !.cancel = TRUE]
      BY <1>1, <2>1
    <3> QED BY <1>2, <3>1 DEF Timer
  <2>2. CASE i # id
    BY <1>1, <2>2
  <2> QED BY <2>1, <2>2
<1>4. SameTimers
  BY <1>1, <1>3 DEF SameTimers, Installed
<1>5. now <= now'
  BY <1>1, LoopAssumption DEF TypeOK
<1>6. (WakePending => WakePending') /\ (needStop' => needStop) /\ (needStop => needStop')
  BY <1>1 DEF WakePending
<1> QED BY <1>1, <1>4, <1>5, <1>6 DEF ThreadSteps

\* The other steps of threads and of the clock.
LEMMA OtherKinds ==
  ASSUME TypeOK,
         \/ \E t \in Threads : Wake(t) \/ RequestStop(t)
         \/ \E t \in Others : ExecMakesPromise(t) \/ ExecReturns(t) \/ ExecBegins(t)
         \/ Tick \/ UNCHANGED vars
  PROVE  ThreadSteps
<1>t. /\ now \in Nat /\ Others \subseteq Threads
      /\ pc \in [Threads -> {"idle", "wake", "exec", "execAdd", "execWake", "wait"}]
  BY LoopAssumption DEF TypeOK, Threads
<1>1. UNCHANGED <<timer, queue, lpc, cur, ran, nextRun>>
  BY DEF Wake, RequestStop, ExecMakesPromise, ExecReturns, ExecBegins, Tick, vars
<1>2. SameTimers
  BY <1>1 DEF SameTimers, Installed
<1>3. now <= now'
  BY <1>t DEF Wake, RequestStop, ExecMakesPromise, ExecReturns, ExecBegins, Tick, vars
<1>4. (WakePending => WakePending') /\ (needStop' => needStop \/ WakePending')
  <2>1. ASSUME NEW t \in Threads, Wake(t) PROVE WakePending' /\ (needStop' => needStop)
    BY <2>1, Zenon DEF Wake, WakePending
  <2>2. ASSUME NEW t \in Threads, RequestStop(t) PROVE WakePending'
    <3>1. pc'[t] = "wake"
      BY <1>t, <2>2 DEF RequestStop
    <3> QED BY <3>1 DEF WakePending
  <2>3. ASSUME NEW t \in Others, ExecMakesPromise(t) \/ ExecReturns(t) \/ ExecBegins(t)
        PROVE  (WakePending => WakePending') /\ (needStop' => needStop)
    <3>1. /\ pc[t] \notin {"wake", "execWake"}
          /\ \A u \in Threads \ {t} : pc'[u] = pc[u]
      BY <1>t, <2>3 DEF ExecMakesPromise, ExecReturns, ExecBegins
    <3>2. UNCHANGED <<pipe, needStop>>
      BY <2>3 DEF ExecMakesPromise, ExecReturns, ExecBegins
    <3> QED BY <3>1, <3>2 DEF WakePending
  <2>4. ASSUME Tick \/ UNCHANGED vars
        PROVE  (WakePending => WakePending') /\ (needStop' => needStop)
    BY <2>4 DEF Tick, vars, WakePending
  <2> QED BY <2>1, <2>2, <2>3, <2>4
<1>5. needStop => needStop'
  BY Zenon DEF Wake, RequestStop, ExecMakesPromise, ExecReturns, ExecBegins, Tick, vars
<1> QED BY <1>1, <1>2, <1>3, <1>4, <1>5 DEF ThreadSteps

\* Every step is the owner's, adds a timer, or is one of the others.
LEMMA Kinds ==
  ASSUME TypeOK, Numbered, Sorted, [Next]_vars
  PROVE  OwnerStep \/ ThreadAdds \/ ThreadSteps
<1>1. \/ OwnerStep
      \/ \E t \in Threads, d \in Delays, l \in BOOLEAN : AddTimer(t, d, l)
      \/ \E t \in Others : ExecAddsTimer(t)
      \/ \E t \in Threads, id \in Ids : RemoveTimer(t, id)
      \/ \E t \in Threads : Wake(t) \/ RequestStop(t)
      \/ \E t \in Others : ExecMakesPromise(t) \/ ExecReturns(t) \/ ExecBegins(t)
      \/ Tick \/ UNCHANGED vars
  BY Zenon DEF Next, Continue, Post
<1> QED BY <1>1, AddTimerKind, ExecAddsKind, RemoveTimerKind, OtherKinds

-----------------------------------------------------------------------------
(* The owner's sleep ends before what is due. *)

\* The next deadline is computed from the first timer; who adds one after that wakes.
LEMMA AwakeStep ==
  ASSUME TypeOK, Numbered, Sorted, Awake, [Next]_vars
  PROVE  Awake'
<1>t. /\ cur \in DOMAIN timer \cup {0} /\ 0 \notin DOMAIN timer
      /\ Installed \subseteq DOMAIN timer
      /\ \A i \in DOMAIN timer : timer[i].time \in Nat
  BY DEF TypeOK, Ids, Timer
<1>1. CASE ThreadAdds
  <2>1. WakePending' /\ UNCHANGED <<lpc, nextRun>>
    BY <1>1 DEF ThreadAdds, WakePending
  <2> QED BY <2>1 DEF Awake
<1>2. CASE ThreadSteps
  <2>1. /\ UNCHANGED <<lpc, nextRun, cur>> /\ (WakePending => WakePending')
        /\ (needStop' => needStop \/ WakePending')
    BY <1>2 DEF ThreadSteps
  <2>2. Installed' = Installed /\ \A i \in DOMAIN timer : timer'[i].time = timer[i].time
    BY <1>2 DEF ThreadSteps, SameTimers
  <2>3. ASSUME NEW d, Covered(d) PROVE Covered(d)'
    BY <1>t, <2>2, <2>3 DEF Covered
  <2>4. CASE lpc = "setNext"
    <3>1. CASE cur = 0
      BY <2>1, <2>3, <2>4, <3>1 DEF Awake
    <3>2. CASE cur # 0
      <4>1. timer'[cur].time = timer[cur].time
        BY <1>t, <2>2, <3>2
      <4>2. WakePending \/ Covered(timer[cur].time)
        BY <2>4, <3>2 DEF Awake
      <4>3. WakePending' \/ Covered(timer[cur].time)'
        BY <2>1, <2>2, <4>1, <4>2, <1>t DEF Covered
      <4> QED BY <2>1, <2>4, <3>2, <4>3 DEF Awake
    <3> QED BY <3>1, <3>2
  <2>5. CASE lpc = "off"
    BY <2>1, <2>5 DEF Awake
  <2>6. CASE lpc \in {"top", "poll"}
    <3>1. Covered(nextRun) => Covered(nextRun)'
      BY <1>t, <2>1, <2>2 DEF Covered
    <3>2. CASE lpc = "top"
      <4>1. needStop \/ WakePending \/ Covered(nextRun)
        BY <3>2 DEF Awake
      <4>2. needStop => needStop'
        BY <1>2 DEF ThreadSteps
      <4> QED BY <2>1, <3>1, <3>2, <4>1, <4>2 DEF Awake
    <3>3. CASE lpc = "poll"
      BY <2>1, <3>1, <3>3 DEF Awake
    <3> QED BY <2>6, <3>2, <3>3
  <2>7. CASE lpc \notin {"setNext", "off", "top", "poll"}
    BY <2>1, <2>7 DEF Awake
  <2> QED BY <2>4, <2>5, <2>6, <2>7
<1>3. CASE OwnerStep
  <2>1. CASE Run
    <3>1. \/ lpc' = "sweep"
          \/ lpc' = "top" /\ UNCHANGED nextRun
      BY <2>1 DEF Run
    <3>2. lpc = "off" /\ nextRun = 0 /\ UNCHANGED <<timer, queue>>
      BY <2>1 DEF Run, Awake
    <3>3. Covered(0)'
      BY <1>t, <3>2 DEF Covered, Installed
    <3> QED BY <3>1, <3>2, <3>3 DEF Awake
  <2>2. CASE Top
    <3>1. lpc = "top" /\ UNCHANGED <<timer, queue, nextRun, pipe, pc>>
      BY <2>2 DEF Top
    <3>2. (WakePending => WakePending') /\ (Covered(nextRun) => Covered(nextRun)')
      BY <3>1 DEF WakePending, Covered, Installed
    <3>3. needStop \/ WakePending \/ Covered(nextRun)
      BY <3>1 DEF Awake
    <3>4. lpc' \in {"stopped", "timeouts"} \/ (lpc' = "poll" /\ ~ needStop /\ ~ needStop')
      BY <2>2, Zenon DEF Top
    <3> QED BY <3>1, <3>2, <3>3, <3>4 DEF Awake
  <2>3. CASE TakeFirst
    <3>1. \/ lpc' = "top" /\ needStop'
          \/ lpc' = "call"
          \/ lpc' = "setNext" /\ cur' = First
      BY <2>3, Zenon DEF TakeFirst
    <3>2. UNCHANGED <<timer, queue>>
      BY <2>3 DEF TakeFirst
    <3>3. lpc' = "setNext" =>
            IF cur' = 0 THEN Installed' = {} ELSE Covered(timer[cur].time)'
      <4>1. First = 0 => Installed' = {}
        BY <3>2, FirstFacts DEF Installed
      <4>2. Covered(timer[First].time) /\ cur' = First => Covered(timer[cur].time)'
        BY <3>2 DEF Covered, Installed
      <4> QED BY <3>1, <4>1, <4>2, FirstFacts
    <3> QED BY <3>1, <3>3 DEF Awake, Covered
  <2>4. CASE ReadNext
    <3>1. lpc' = "setNext" /\ cur' = First /\ UNCHANGED <<timer, queue>>
      BY <2>4 DEF ReadNext
    <3>2. IF cur' = 0 THEN Installed' = {} ELSE Covered(timer[cur].time)'
      <4>1. First = 0 => Installed' = {}
        BY <3>1, FirstFacts DEF Installed
      <4>2. Covered(timer[First].time) => Covered(timer[cur].time)'
        BY <3>1 DEF Covered, Installed
      <4> QED BY <3>1, <4>1, <4>2, FirstFacts
    <3> QED BY <3>1, <3>2 DEF Awake, Covered
  <2>5. CASE SetNext
    <3>1. /\ lpc = "setNext" /\ lpc' = "top" /\ UNCHANGED <<timer, queue, pipe, pc>>
          /\ nextRun' = IF cur = 0 THEN Never ELSE timer[cur].time
      BY <2>5 DEF SetNext
    <3>2. WakePending \/ Covered(nextRun')
      BY <3>1 DEF Awake
    <3>3. (WakePending => WakePending') /\ (Covered(nextRun') => Covered(nextRun)')
      BY <3>1 DEF WakePending, Covered, Installed
    <3> QED BY <3>1, <3>2, <3>3 DEF Awake
  <2>6. CASE Poll \/ CallTimer \/ CallbackReturns \/ Requeue \/ Sweep
    <3>1. lpc' \notin {"off", "setNext", "top", "poll"}
      BY <2>6 DEF Poll, CallTimer, CallbackReturns, Requeue, Sweep
    <3> QED BY <3>1 DEF Awake
  <2> QED BY <1>3, <2>1, <2>2, <2>3, <2>4, <2>5, <2>6 DEF OwnerStep
<1> QED BY <1>1, <1>2, <1>3, Kinds

-----------------------------------------------------------------------------
(* The order in which timers run. *)

\* A timer that is added comes after all that were set before it.
LEMMA OrderAdds ==
  ASSUME TypeOK, Numbered, Sorted, Order, ThreadAdds
  PROVE  Order'
<1>1. PICK id \in Ids, delay \in Delays \cup {0}, loop \in BOOLEAN, client \in Threads :
        Added(id, delay, loop, client)
  BY DEF ThreadAdds
<1>2. UNCHANGED <<now, lpc, cur, ran>>
  BY DEF ThreadAdds
<1>3. /\ id \notin DOMAIN timer /\ DOMAIN timer' = DOMAIN timer \cup {id}
      /\ \A i \in DOMAIN timer : i < id /\ timer'[i] = timer[i] /\ i \in Nat
      /\ timer'[id].time = now + delay /\ timer'[id].delay = delay
      /\ Installed' = Installed \cup {id} /\ id \in Nat
  BY <1>1 DEF Added, TypeOK, Ids
<1>4. /\ ran \subseteq DOMAIN timer /\ cur \in DOMAIN timer \cup {0}
      /\ Installed \subseteq DOMAIN timer
      /\ now \in Nat /\ delay \in Nat
  BY LoopAssumption DEF TypeOK
<1>4a. \A i \in DOMAIN timer : timer[i].time \in Nat /\ timer[i].delay \in Nat
  <2>1. \A i \in DOMAIN timer : timer[i].time \in Nat /\ timer[i].delay \in Delays \cup {0}
    BY DEF TypeOK, Timer
  <2>2. \A d \in Delays \cup {0} : d \in Nat
    BY LoopAssumption
  <2> QED BY <2>1, <2>2
\* The new timer is earlier than none.
<1>e. \A i, j \in DOMAIN timer' : Earlier(j, i)' /\ i # id => j # id /\ Earlier(j, i)
  BY <1>3 DEF Earlier
<1>5. SetByNow'
  BY <1>2, <1>3, <1>4 DEF SetByNow, Order
<1>6. Kept'
  BY <1>2, <1>3 DEF Kept, Order
<1>7. QueuedInOrder'
  <2> SUFFICES ASSUME NEW a \in DOMAIN queue', NEW b \in DOMAIN queue',
                      Earlier(queue[b], queue[a])', queue'[a] \notin ran, queue'[b] \notin ran
               PROVE  b < a
    BY <1>2 DEF QueuedInOrder
  <2>1. queue'[a] \in Installed' /\ queue'[b] \in Installed'
    BY DEF Installed
  <2>2. CASE queue'[a] = id
    <3>1. queue'[b] # id /\ queue'[b] \in DOMAIN timer
      BY <2>1, <2>2, <1>3, <1>4 DEF Earlier
    <3>2. timer'[queue'[b]].time <= now + timer[queue'[b]].delay
      BY <3>1, <1>3 DEF SetByNow, Order
    <3>3. timer[queue'[b]].delay <= delay
      BY <2>2, <3>1, <1>3 DEF Earlier
    <3>4. timer'[queue'[b]].time <= now + delay
      BY <3>1, <3>2, <3>3, <1>3, <1>4, <1>4a
    <3> QED BY <1>1, <2>2, <3>1, <3>4 DEF Added
  <2>3. CASE queue'[a] # id
    <3>1. queue'[b] # id /\ Earlier(queue'[b], queue'[a])
      BY <2>1, <2>3, <1>e, <1>3, <1>4
    <3>2. PICK c \in DOMAIN queue, d \in DOMAIN queue :
            queue[c] = queue'[a] /\ queue[d] = queue'[b] /\ (d < c => b < a)
      BY <1>1, <2>3, <3>1 DEF Added
    <3>3. d < c
      BY <3>1, <3>2 DEF QueuedInOrder, Order
    <3> QED BY <3>2, <3>3
  <2> QED BY <2>2, <2>3
<1>8. Taken'
  <2>1. cur \in Installed => cur # id /\ cur \in DOMAIN timer /\ timer'[cur] = timer[cur]
    BY <1>3, <1>4
  <2>2. ASSUME lpc = "call", cur \notin ran, NEW j \in DOMAIN timer',
               Earlier(j, cur)', ~ timer'[j].cancel
        PROVE  j \in ran
    <3>1. cur \in Installed
      BY <2>2 DEF Taken, Order
    <3>2. j # id /\ Earlier(j, cur)
      BY <2>1, <2>2, <3>1, <1>2, <1>3, <1>e
    <3>3. j \in DOMAIN timer /\ ~ timer[j].cancel
      BY <2>2, <3>2, <1>3
    <3> QED BY <2>2, <3>2, <3>3 DEF Taken, Order
  <2> QED BY <1>2, <1>3, <2>1, <2>2 DEF Taken, Order
<1>9. RunsInOrder'
  <2> SUFFICES ASSUME NEW i \in ran, NEW j \in DOMAIN timer', j < i,
                      timer'[j].delay <= timer'[i].delay, ~ timer'[j].cancel
               PROVE  j \in ran
    BY <1>2 DEF RunsInOrder
  <2>1. i \in DOMAIN timer /\ i # id
    BY <1>3, <1>4
  <2>2. j # id
    BY <2>1, <1>3
  <2>3. /\ j \in DOMAIN timer /\ ~ timer[j].cancel /\ timer[j].delay <= timer[i].delay
    BY <2>1, <2>2, <1>3
  <2> QED BY <2>3 DEF RunsInOrder, Order
<1> QED BY <1>5, <1>6, <1>7, <1>8, <1>9 DEF Order


\* A timer that is cancelled need not have run.
LEMMA OrderSame ==
  ASSUME TypeOK, TypeOK', Order, ThreadSteps
  PROVE  Order'
<1>1. /\ UNCHANGED <<queue, lpc, cur, ran>> /\ now <= now' /\ Installed' = Installed
      /\ DOMAIN timer' = DOMAIN timer
      /\ \A i \in DOMAIN timer : /\ timer'[i].time = timer[i].time
                                 /\ timer'[i].delay = timer[i].delay
                                 /\ timer[i].cancel => timer'[i].cancel
  BY DEF ThreadSteps, SameTimers
<1>2. /\ Installed \subseteq DOMAIN timer /\ ran \subseteq DOMAIN timer
      /\ now \in Nat /\ now' \in Nat
      /\ \A i \in DOMAIN timer : timer[i].time \in Nat
  BY LoopAssumption DEF TypeOK, Timer
<1>2a. \A i \in DOMAIN timer : timer[i].delay \in Nat
  <2>1. \A i \in DOMAIN timer : timer[i].delay \in Delays \cup {0}
    BY DEF TypeOK, Timer
  <2>2. \A d \in Delays \cup {0} : d \in Nat
    BY LoopAssumption
  <2> QED BY <2>1, <2>2
<1>e. \A i, j \in DOMAIN timer : Earlier(j, i)' => Earlier(j, i)
  BY <1>1 DEF Earlier
<1>3. SetByNow'
  BY <1>1, <1>2, <1>2a DEF SetByNow, Order
<1>4. Kept'
  BY <1>1 DEF Kept, Order
<1>5. QueuedInOrder'
  <2>1. \A k \in DOMAIN queue : queue[k] \in DOMAIN timer
    BY <1>2 DEF Installed
  <2> QED BY <1>1, <1>e, <2>1 DEF QueuedInOrder, Order
<1>6. Taken'
  BY <1>1, <1>2, <1>e DEF Taken, Order
<1>7. RunsInOrder'
  BY <1>1, <1>2 DEF RunsInOrder, Order
<1> QED BY <1>3, <1>4, <1>5, <1>6, <1>7 DEF Order

\* The timer that is taken is run, or not, in its turn.
LEMMA OrderOwner ==
  ASSUME TypeOK, Numbered, Sorted, Order, OwnerStep
  PROVE  Order'
<1>t. /\ Installed \subseteq DOMAIN timer /\ ran \subseteq DOMAIN timer
      /\ cur \in DOMAIN timer \cup {0} /\ IsInjective(queue)
  BY DEF TypeOK
<1>1. CASE Requeue
  <2>1. /\ cur \in DOMAIN timer /\ DOMAIN timer' = DOMAIN timer
        /\ \A i \in DOMAIN timer : /\ timer'[i].delay = timer[i].delay
                                   /\ timer'[i].cancel = timer[i].cancel
                                   /\ i # cur => timer'[i] = timer[i]
        /\ Installed \ {cur} \subseteq Installed'
        /\ \A a, b \in DOMAIN queue' : queue'[a] # cur /\ queue'[b] # cur =>
             \E c, d \in DOMAIN queue :
               queue[c] = queue'[a] /\ queue[d] = queue'[b] /\ (d < c => b < a)
        /\ cur \in Installed' => timer[cur].loop /\ ~ timer[cur].cancel
        /\ Installed' \subseteq Installed
    BY <1>1, RequeueFacts DEF Order
  <2>2. /\ lpc = "requeue" /\ lpc' = "second" /\ UNCHANGED <<now, cur, ran>>
        /\ cur \in ran \/ timer[cur].cancel
    BY <1>1 DEF Requeue, Taken, Order
  <2>3. cur \in ran \/ timer' = timer
    BY <1>1, <2>2, Zenon DEF Requeue
  <2>4. SetByNow'
    BY <2>1, <2>2, <2>3 DEF SetByNow, Order
  <2>5. Kept'
    BY <2>1, <2>2 DEF Kept, Order
  <2>6. QueuedInOrder'
    <3> SUFFICES ASSUME NEW a \in DOMAIN queue', NEW b \in DOMAIN queue',
                        Earlier(queue[b], queue[a])', queue'[a] \notin ran, queue'[b] \notin ran
                 PROVE  b < a
      BY <2>2 DEF QueuedInOrder
    <3>1. queue'[a] \in Installed' /\ queue'[b] \in Installed'
      BY DEF Installed
    <3>2. queue'[a] # cur /\ queue'[b] # cur
      BY <2>1, <2>2, <3>1
    <3>3. Earlier(queue'[b], queue'[a])
      BY <1>t, <2>1, <3>1, <3>2 DEF Earlier
    <3>4. PICK c \in DOMAIN queue, d \in DOMAIN queue :
            queue[c] = queue'[a] /\ queue[d] = queue'[b] /\ (d < c => b < a)
      BY <2>1, <3>2
    <3>5. d < c
      BY <3>3, <3>4 DEF QueuedInOrder, Order
    <3> QED BY <3>4, <3>5
  <2>7. Taken'
    BY <2>2 DEF Taken
  <2>8. RunsInOrder'
    BY <1>t, <2>1, <2>2 DEF RunsInOrder, Order
  <2> QED BY <2>4, <2>5, <2>6, <2>7, <2>8 DEF Order
\* The other steps of the owner leave the timers.
<1>k. ASSUME UNCHANGED <<now, timer, queue>>, ran \subseteq ran', ran' \subseteq DOMAIN timer
      PROVE  SetByNow' /\ Kept' /\ QueuedInOrder'
  <2>1. Installed' = Installed
    BY <1>k DEF Installed
  <2>2. SetByNow'
    BY <1>k DEF SetByNow, Order
  <2>3. Kept'
    BY <1>k, <2>1 DEF Kept, Order
  <2>4. QueuedInOrder'
    BY <1>k DEF QueuedInOrder, Earlier, Order
  <2> QED BY <2>2, <2>3, <2>4
<1>2. CASE CallTimer
  <2>1. /\ lpc = "call" /\ UNCHANGED <<now, timer, queue, cur>> /\ cur \in Installed
        /\ Installed' = Installed
    BY <1>2 DEF CallTimer, Taken, Order, Installed
  <2>2. CASE timer[cur].cancel /\ lpc' = "requeue" /\ UNCHANGED ran
    <3>1. Taken'
      BY <2>1, <2>2 DEF Taken
    <3>2. RunsInOrder'
      BY <2>1, <2>2 DEF RunsInOrder, Order
    <3> QED BY <1>k, <1>t, <2>1, <2>2, <3>1, <3>2 DEF Order
  <2>3. CASE lpc' = "callback" /\ ran' = ran \cup {cur}
    <3>1. Taken'
      BY <2>1, <2>3 DEF Taken
    <3>2. RunsInOrder'
      <4> SUFFICES ASSUME NEW i \in ran', NEW j \in DOMAIN timer, j < i,
                          timer[j].delay <= timer[i].delay, ~ timer[j].cancel
                   PROVE  j \in ran'
        BY <2>1 DEF RunsInOrder
      <4>1. CASE i \in ran
        BY <4>1, <2>3 DEF RunsInOrder, Order
      <4>2. CASE i = cur /\ i \notin ran
        BY <4>2, <2>1, <2>3 DEF Taken, Earlier, Order
      <4> QED BY <2>3, <4>1, <4>2
    <3> QED BY <1>k, <1>t, <2>1, <2>3, <3>1, <3>2 DEF Order
  <2> QED BY <1>2, <2>2, <2>3, Zenon DEF CallTimer
<1>3. CASE TakeFirst
  <2>1. UNCHANGED <<now, timer, queue, ran>>
    BY <1>3 DEF TakeFirst
  <2>2. \/ lpc' = "top" \/ lpc' = "setNext"
        \/ lpc' = "call" /\ cur' = First /\ First # 0
    <3>1. \/ lpc' = "top"
          \/ /\ cur' = First
             /\ lpc' = IF First # 0 /\ timer[First].time <= now THEN "call" ELSE "setNext"
      BY <1>3, Zenon DEF TakeFirst
    <3> QED BY <3>1
  <2>3. ASSUME lpc' \in {"top", "setNext"} PROVE Taken'
    BY <2>3 DEF Taken
  <2>4. ASSUME lpc' = "call", cur' = First, First # 0 PROVE Taken'
    <3>1. /\ First \in Installed /\ 1 \in DOMAIN queue /\ First = queue[1]
          /\ \A k \in DOMAIN queue : 1 <= k /\ k \in Nat
      BY <2>4, FirstFacts DEF Sorted
    <3>2. ASSUME First \notin ran, NEW j \in DOMAIN timer, Earlier(j, First),
                 ~ timer[j].cancel, j \notin ran
          PROVE  FALSE
      <4>1. j \in Installed
        BY <3>2 DEF Kept, Order
      <4>2. PICK b \in DOMAIN queue : queue[b] = j
        BY <4>1 DEF Installed
      <4>3. b < 1
        BY <3>1, <3>2, <4>2 DEF QueuedInOrder, Order
      <4> QED BY <3>1, <4>3
    <3>3. Installed' = Installed /\ \A j \in DOMAIN timer : Earlier(j, First) <=> Earlier(j, cur)'
      BY <2>1, <2>4 DEF Installed, Earlier
    <3>4. cur' \in Installed'
      BY <2>4, <3>1, <3>3
    <3>5. cur' \notin ran' =>
            \A j \in DOMAIN timer' : Earlier(j, cur)' /\ ~ timer'[j].cancel => j \in ran'
      BY <2>1, <2>4, <3>2, <3>3
    <3> QED BY <2>4, <3>4, <3>5 DEF Taken
  <2>5. RunsInOrder'
    BY <2>1 DEF RunsInOrder, Order
  <2> QED BY <1>k, <1>t, <2>1, <2>2, <2>3, <2>4, <2>5 DEF Order
<1>4. CASE Run \/ Top \/ Poll \/ CallbackReturns \/ ReadNext \/ SetNext \/ Sweep
  <2>1. UNCHANGED <<now, timer, queue, ran>>
    BY <1>4 DEF Run, Top, Poll, CallbackReturns, ReadNext, SetNext, Sweep
  <2>2. \/ lpc' \notin {"call", "callback", "requeue"}
        \/ lpc = "callback" /\ lpc' = "requeue" /\ UNCHANGED cur
    BY <1>4 DEF Run, Top, Poll, CallbackReturns, ReadNext, SetNext, Sweep
  <2>3. Taken'
    BY <2>1, <2>2 DEF Taken, Installed, Order
  <2>4. RunsInOrder'
    BY <2>1 DEF RunsInOrder, Order
  <2> QED BY <1>k, <1>t, <2>1, <2>3, <2>4 DEF Order
<1> QED BY <1>1, <1>2, <1>3, <1>4 DEF OwnerStep

-----------------------------------------------------------------------------
(* The theorems. *)

\* The invariant holds at first and is kept by every step.
LEMMA LoopInvariant == Spec => []LoopInv
<1>1. Init => LoopInv
  <2> SUFFICES ASSUME Init PROVE LoopInv
    OBVIOUS
  <2>1. /\ timer = <<>> /\ queue = <<>> /\ DOMAIN timer = {} /\ DOMAIN queue = {}
        /\ ran = {} /\ lpc = "off" /\ nextRun = 0 /\ cur = 0 /\ known = {} /\ now = 0
        /\ late = {} /\ pc = [t \in Threads |-> "idle"] /\ promise = [t \in Others |-> "none"]
    BY DEF Init
  <2>2. FlagsOK
    BY Zenon DEF Init, FlagsOK
  <2>3. Installed = {}
    BY <2>1 DEF Installed
  <2>4. ControlOK
    BY <2>1, LoopAssumption DEF ControlOK, OwnerPCs
  <2>5. TimersOK
    BY <2>1, <2>3 DEF TimersOK, IsInjective
  <2>6. Numbered
    <3>1. 1 .. 0 = {}
      OBVIOUS
    <3> QED BY <2>1, <3>1 DEF Numbered
  <2>7. Sorted
    BY <2>1 DEF Sorted, SortedBy
  <2>8. Awake
    BY <2>1 DEF Awake
  <2>9. Order
    BY <2>1 DEF Order, SetByNow, Kept, QueuedInOrder, Taken, RunsInOrder
  <2> QED BY <2>2, <2>4, <2>5, <2>6, <2>7, <2>8, <2>9
          DEF LoopInv, TypeOK, TimersOK, ControlOK, FlagsOK
<1>2. ASSUME LoopInv, [Next]_vars PROVE LoopInv'
  <2>1. TypeOK /\ Numbered /\ Sorted /\ Awake /\ Order /\ Taken
    BY <1>2 DEF LoopInv, Order
  <2>2. TypeOK' /\ Numbered' /\ Sorted'
    BY <1>2, <2>1, TypeStep
  <2>3. Awake'
    BY <1>2, <2>1, AwakeStep
  <2>4. Order'
    BY <1>2, <2>1, <2>2, Kinds, OrderAdds, OrderSame, OrderOwner
  <2> QED BY <2>2, <2>3, <2>4 DEF LoopInv
<1> QED BY <1>1, <1>2, PTL DEF Spec

\* The timers, the queue, the promises and the steps of the threads are of their kinds,
\* and m_list holds each timer of m_timers once.
THEOREM LoopTypes == Spec => []TypeOK
BY LoopInvariant, PTL DEF LoopInv

\* poll() never sleeps past a timer or a stop that another thread has asked for, whatever
\* that thread did while runTimeouts() computed the deadline (addTimer(), wake(), stop()).
THEOREM NeverOversleeps == Spec => []AwakeForFirst
<1>1. LoopInv => AwakeForFirst
  BY DEF LoopInv, Awake, WakePending, Covered, AwakeForFirst
<1> QED BY <1>1, LoopInvariant, PTL

\* Of two timers the one set first runs first, unless it asked for a longer delay:
\* addTimerToQueue() puts a timer behind those that are due when it is.
THEOREM TimersRunInOrder == Spec => []RunsInOrder
<1>1. LoopInv => RunsInOrder
  BY DEF LoopInv, Order
<1> QED BY <1>1, LoopInvariant, PTL

\* m_list is sorted by deadline.
THEOREM QueueSorted == Spec => []Sorted
<1>1. LoopInv => Sorted
  BY DEF LoopInv
<1> QED BY <1>1, LoopInvariant, PTL

=============================================================================

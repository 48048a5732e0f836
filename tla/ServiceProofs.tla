----------------------------- MODULE ServiceProofs -----------------------------
(***************************************************************************)
(* Theorems about Service for any number of interfaces, modems and names   *)
(* of their files: the lock files keep two daemons off one device.         *)
(***************************************************************************)
EXTENDS Service, SequenceTheorems, TLAPS

-----------------------------------------------------------------------------
(* The invariant. *)

\* A process is a record with the fields of Idle.
Fields == {"pc", "iface", "devices", "device", "probes", "used", "names", "left", "error",
           "fatal", "manual", "needStop", "cancelled", "missed", "strayed"}

Shape ==
    /\ DOMAIN proc = Procs /\ \A p \in Procs : DOMAIN proc[p] = Fields
    /\ DOMAIN holder = Names

Resolving == {"take", "lock"}
Working == {"open", "loop", "enter", "run", "join"}

\* The process i with the state r has the lock of each name that it has resolved and
\* is not still to take, if h tells who has the locks.
Owns(i, r, h) ==
    r.pc \in Resolving \cup Working =>
        /\ r.left \in Seq(Range(r.names))
        /\ r.pc \in Working => r.left = <<>>
        /\ r.pc = "lock" => r.left # <<>> /\ Head(r.left) \in Names
        /\ \A n \in Range(r.names) :
              n \in Range(r.left) \/ (n \in Names /\ (r.strayed \/ h[RealPath[n]] = i))

Locked == \A i \in Ifaces : Owns(i, proc[i], holder)

LockInv == Shape /\ Locked

-----------------------------------------------------------------------------
(* Lemmas about records of processes, names and locks. *)

\* resolveDevices() works on a list of one to three names.
LEMMA ResolvedSeq ==
  ASSUME NEW i, NEW d
  PROVE  Resolved(i, d) \in Seq(Range(Resolved(i, d)))
<1>1. ASSUME NEW a, NEW b, NEW c
      PROVE  /\ <<a>> \o <<b>> \o <<c>> \in Seq({a, b, c})
             /\ <<a>> \o <<b>> \o <<>> \in Seq({a, b, c})
             /\ <<a>> \o <<>> \o <<c>> \in Seq({a, b, c})
             /\ <<a>> \o <<>> \o <<>> \in Seq({a, b, c})
  OBVIOUS
<1>2. \E S : Resolved(i, d) \in Seq(S)
  <2> DEFINE name(list, value) == IF Option[i].device = "usb" THEN FromDevice(list, value) ELSE value
             ttys == IF Option[i].device = "usb" THEN Tty[d] ELSE <<>>
             nets == IF Option[i].device = "usb" THEN Net[d] ELSE <<>>
             a == name(ttys, Option[i].control)
             b == name(ttys, Option[i].ppp)
             c == name(nets, Option[i].net)
  <2>1. Resolved(i, d) = <<a>> \o (IF HasPppDev(Option[i].type) THEN <<b>> ELSE <<>>)
                              \o (IF HasNetDev(Option[i].type) THEN <<c>> ELSE <<>>)
    BY Zenon DEF Resolved
  <2> DEFINE second == IF HasPppDev(Option[i].type) THEN <<b>> ELSE <<>>
             third  == IF HasNetDev(Option[i].type) THEN <<c>> ELSE <<>>
  <2>2. second = <<b>> \/ second = <<>>
    OBVIOUS
  <2>3. third = <<c>> \/ third = <<>>
    OBVIOUS
  <2>4. Resolved(i, d) = <<a>> \o second \o third
    BY <2>1
  <2> HIDE DEF a, b, c, second, third
  <2>5. Resolved(i, d) \in Seq({a, b, c})
    BY <2>2, <2>3, <2>4, <1>1
  <2> QED BY <2>5
<1> QED BY <1>2, SeqOfRange

\* What a process gives up with has the fields of a process, and nothing taken.
LEMMA GivesUpFacts ==
  ASSUME NEW p \in Procs, NEW code, NEW isFatal
  PROVE  /\ DOMAIN Idle = Fields /\ \A i : DOMAIN NextCheck(i) = Fields
         /\ DOMAIN GivesUp(p, code, isFatal) = Fields
         /\ p \in Ifaces => GivesUp(p, code, isFatal).pc = "report"
<1>1. DOMAIN Idle = Fields
  BY DEF Idle, Fields
<1>2. \A i : DOMAIN NextCheck(i) = Fields
  BY <1>1 DEF NextCheck
<1>3. p # Check => /\ DOMAIN GivesUp(p, code, isFatal) = Fields
                   /\ GivesUp(p, code, isFatal).pc = "report"
  BY <1>1 DEF GivesUp, SetError, Stop, Fields
<1> QED BY <1>1, <1>2, <1>3, ServiceAssumption DEF GivesUp

\* What i owns is not touched by a change of its state that leaves its names alone, nor
\* by a change of the locks that leaves its own.
LEMMA OwnsKept ==
  ASSUME NEW i, NEW r, NEW s, NEW g, NEW h, Owns(i, r, g),
         s.names = r.names, s.left = r.left, s.strayed = r.strayed,
         s.pc = r.pc \/ {s.pc, r.pc} \subseteq Working,
         \A f \in Names : g[f] = i => h[f] = i
  PROVE  Owns(i, s, h)
BY ServiceAssumption DEF Owns, Working, Resolving

\* A step of the process p that makes r of it, and leaves to the others their locks.
LEMMA Moves ==
  ASSUME LockInv, NEW p \in Procs, NEW r, Becomes(p, r), DOMAIN r = Fields,
         DOMAIN holder' = Names,
         \A f \in Names : holder[f] # p => holder'[f] = holder[f] \/ holder[f] = Nobody,
         p \in Ifaces => Owns(p, r, holder')
  PROVE  LockInv'
<1>1. /\ DOMAIN proc' = Procs /\ proc'[p] = r
      /\ \A q \in Procs \ {p} : proc'[q] = proc[q]
  BY DEF Becomes, LockInv, Shape
<1>2. Shape'
  BY <1>1 DEF LockInv, Shape
<1>3. ASSUME NEW i \in Ifaces PROVE Owns(i, proc'[i], holder')
  <2>1. CASE i = p
    BY <2>1, <1>1
  <2>2. CASE i # p
    <3>1. \A f \in Names : holder[f] = i => holder'[f] = i
      BY <2>2, ServiceAssumption DEF Procs
    <3>2. proc'[i] = proc[i] /\ Owns(i, proc[i], holder)
      BY <2>2, <1>1 DEF Procs, LockInv, Locked
    <3> QED BY <3>1, <3>2, OwnsKept
  <2> QED BY <2>1, <2>2
<1> QED BY <1>2, <1>3 DEF LockInv, Locked

-----------------------------------------------------------------------------
(* The steps of a process that looks for its devices. *)

\* What is at hand of a process whose step is looked at.
LEMMA ProcFacts ==
  ASSUME LockInv, NEW p \in Procs
  PROVE  /\ DOMAIN proc[p] = Fields /\ DOMAIN holder = Names
         /\ p \in Ifaces => Owns(p, proc[p], holder)
BY DEF LockInv, Shape, Locked

\* The steps before a name is taken change no lock but those that are probed.
LEMMA SearchSteps ==
  ASSUME LockInv, NEW p \in Procs,
         LoadOptions(p) \/ Search(p) \/ IsDeviceLocked(p) \/ Probed(p) \/ Found(p)
  PROVE  LockInv'
<1> DEFINE r == proc[p]
<1>f. DOMAIN r = Fields /\ DOMAIN holder = Names
  BY ProcFacts
<1>o. ASSUME NEW s, s.pc \notin Resolving \cup Working PROVE Owns(p, s, holder')
  BY <1>o DEF Owns
<1>n. ASSUME NEW s, s.pc = "take", s.names = s.left, s.left \in Seq(Range(s.left))
      PROVE  Owns(p, s, holder')
  BY <1>n DEF Owns, Resolving, Working
<1>1. CASE LoadOptions(p)
  <2> DEFINE i == r.iface
  <2>1. UNCHANGED holder
    BY <1>1 DEF LoadOptions
  <2>2. CASE Becomes(p, [r EXCEPT !.pc = "take", !.names = Resolved(i, None),
                                  !.left = Resolved(i, None)])
    <3> DEFINE s == [r EXCEPT !.pc = "take", !.names = Resolved(i, None),
                              !.left = Resolved(i, None)]
    <3>1. /\ DOMAIN s = Fields /\ s.pc = "take"
          /\ s.names = Resolved(i, None) /\ s.left = Resolved(i, None)
      BY <1>f DEF Fields
    <3>2. Owns(p, s, holder')
      <4> HIDE DEF s, i
      <4> QED BY <3>1, <1>n, ResolvedSeq
    <3> HIDE DEF s
    <3> QED BY <2>1, <2>2, <3>1, <3>2, <1>f, Moves DEF s
  <2>3. CASE Becomes(p, [r EXCEPT !.pc = "search", !.devices = GetUsbDevicesByUrl(i)])
    <3> DEFINE s == [r EXCEPT !.pc = "search", !.devices = GetUsbDevicesByUrl(i)]
    <3>1. DOMAIN s = Fields /\ s.pc \notin Resolving \cup Working
      BY <1>f DEF Fields, Resolving, Working
    <3> QED BY <2>1, <2>3, <3>1, <1>o, <1>f, Moves
  <2>4. ASSUME NEW code, Becomes(p, GivesUp(p, code, TRUE)) PROVE LockInv'
    BY <2>1, <2>4, <1>f, <1>o, GivesUpFacts, Moves DEF Resolving, Working
  <2> QED BY <1>1, <2>2, <2>3, <2>4 DEF LoadOptions
<1>2. CASE Search(p)
  <2> DEFINE s == [r EXCEPT !.pc = "probe", !.devices = Tail(@),
                            !.device = Head(r.devices), !.used = FALSE,
                            !.probes = Tty[Head(r.devices)] \o Net[Head(r.devices)]]
  <2>1. UNCHANGED holder
    BY <1>2 DEF Search
  <2>2. DOMAIN s = Fields /\ s.pc \notin Resolving \cup Working
    BY <1>f DEF Fields, Resolving, Working
  <2>3. DOMAIN Idle = Fields /\ Idle.pc \notin Resolving \cup Working
    BY GivesUpFacts DEF Idle, Resolving, Working
  <2>4. CASE Becomes(p, s)
    BY <2>1, <2>2, <2>4, <1>o, <1>f, Moves
  <2>5. CASE Becomes(p, Idle)
    BY <2>1, <2>3, <2>5, <1>o, <1>f, Moves
  <2>6. CASE Becomes(p, GivesUp(p, "NO_DEVICE", FALSE))
    BY <2>1, <2>6, <1>f, <1>o, GivesUpFacts, Moves DEF Resolving, Working
  <2> HIDE DEF s
  <2> QED BY <1>2, <2>4, <2>5, <2>6 DEF Search, s
<1>3. CASE IsDeviceLocked(p)
  <2>1. PICK s : /\ Becomes(p, s) /\ DOMAIN s = Fields
                 /\ s.pc \in {"probe", "probing"}
    <3>1. r.pc = "probe"
      BY <1>3 DEF IsDeviceLocked, At
    <3>2. \E x, y : \/ Becomes(p, [r EXCEPT !.probes = x])
                   \/ Becomes(p, [r EXCEPT !.pc = "probing"])
                   \/ Becomes(p, [r EXCEPT !.probes = x, !.used = y])
      BY <1>3, Zenon DEF IsDeviceLocked
    <3>3. /\ DOMAIN [r EXCEPT !.pc = "probing"] = Fields
          /\ [r EXCEPT !.pc = "probing"].pc = "probing"
      BY <1>f DEF Fields
    <3>4. ASSUME NEW x, NEW y
          PROVE  /\ DOMAIN [r EXCEPT !.probes = x] = Fields
                 /\ [r EXCEPT !.probes = x].pc = r.pc
                 /\ DOMAIN [r EXCEPT !.probes = x, !.used = y] = Fields
                 /\ [r EXCEPT !.probes = x, !.used = y].pc = r.pc
      BY <1>f DEF Fields
    <3> PICK x, y : \/ Becomes(p, [r EXCEPT !.probes = x])
                    \/ Becomes(p, [r EXCEPT !.pc = "probing"])
                    \/ Becomes(p, [r EXCEPT !.probes = x, !.used = y])
      BY <3>2
    <3> DEFINE a == [r EXCEPT !.probes = x]
               b == [r EXCEPT !.pc = "probing"]
               c == [r EXCEPT !.probes = x, !.used = y]
    <3>5. /\ DOMAIN a = Fields /\ a.pc = "probe"
          /\ DOMAIN b = Fields /\ b.pc = "probing"
          /\ DOMAIN c = Fields /\ c.pc = "probe"
      BY <3>1, <3>3, <3>4
    <3>6. Becomes(p, a) \/ Becomes(p, b) \/ Becomes(p, c)
      OBVIOUS
    <3> HIDE DEF a, b, c
    <3> QED BY <3>5, <3>6
  <2>2. \/ UNCHANGED holder
        \/ LET path == LockPath(Head(r.probes))
           IN  MayLock(path) /\ holder' = [holder EXCEPT ![path] = p]
    BY <1>3 DEF IsDeviceLocked
  <2>3. /\ DOMAIN holder' = Names
        /\ \A f \in Names : holder[f] # p => holder'[f] = holder[f] \/ holder[f] = Nobody
    BY <2>2, <1>f DEF MayLock
  <2> QED BY <2>1, <2>3, <1>o, Moves DEF Resolving, Working
<1>4. CASE Probed(p)
  <2> DEFINE s == [r EXCEPT !.pc = "probe", !.probes = Tail(@)]
  <2>1. DOMAIN s = Fields /\ s.pc = "probe" /\ Becomes(p, s)
    BY <1>4, <1>f DEF Probed, Fields
  <2>2. /\ DOMAIN holder' = Names
        /\ \A f \in Names : holder[f] # p => holder'[f] = holder[f]
    BY <1>4 DEF Probed
  <2> HIDE DEF s
  <2> QED BY <2>1, <2>2, <1>o, Moves DEF Resolving, Working
<1>5. CASE Found(p)
  <2> DEFINE names == Resolved(r.iface, r.device)
             s == [r EXCEPT !.pc = "take", !.names = names, !.left = names,
                            !.devices = <<>>, !.device = None]
             q == [r EXCEPT !.pc = "search"]
  <2>1. UNCHANGED holder
    BY <1>5 DEF Found
  <2>2. DOMAIN s = Fields /\ s.pc = "take" /\ s.names = names /\ s.left = names
    BY <1>f DEF Fields
  <2>3. DOMAIN q = Fields /\ q.pc \notin Resolving \cup Working
    BY <1>f DEF Fields, Resolving, Working
  <2>4. CASE Becomes(p, s)
    <3> HIDE DEF s
    <3>1. Owns(p, s, holder')
      <4>1. names \in Seq(Range(names))
        BY ResolvedSeq
      <4> HIDE DEF names
      <4> QED BY <4>1, <2>2, <1>n
    <3> QED BY <2>1, <2>2, <2>4, <3>1, <1>f, Moves
  <2>5. CASE Becomes(p, q)
    BY <2>1, <2>3, <2>5, <1>o, <1>f, Moves
  <2> HIDE DEF s, names
  <2> QED BY <1>5, <2>4, <2>5 DEF Found, Goes, s, names
<1> QED BY <1>1, <1>2, <1>3, <1>4, <1>5


\* A list consists of its head and the members of its tail.
LEMMA HeadAndTail ==
  ASSUME NEW S, NEW q \in Seq(S), q # <<>>
  PROVE  /\ Tail(q) \in Seq(S)
         /\ \A m \in Range(q) : m = Head(q) \/ m \in Range(Tail(q))
<1>1. Tail(q) \in Seq(S)
  OBVIOUS
<1>2. ASSUME NEW k \in DOMAIN q, k # 1 PROVE q[k] \in Range(Tail(q))
  <2>1. k - 1 \in DOMAIN Tail(q) /\ Tail(q)[k - 1] = q[k]
    BY <1>2
  <2> QED BY <2>1 DEF Range
<1>3. q[1] = Head(q)
  OBVIOUS
<1> QED BY <1>1, <1>2, <1>3 DEF Range

\* The names are taken one by one: each is the daemon's when it is no longer to take.
LEMMA TakeSteps ==
  ASSUME LockInv, NEW p \in Procs, FileExists(p) \/ Lock(p) \/ HasDevices(p)
  PROVE  LockInv'
<1> DEFINE r == proc[p]
<1>f. DOMAIN r = Fields /\ DOMAIN holder = Names
  BY ProcFacts
<1>i. p \in Ifaces => Owns(p, r, holder)
  BY ProcFacts
<1>o. ASSUME NEW s, s.pc \notin Resolving \cup Working PROVE Owns(p, s, holder')
  BY <1>o DEF Owns
<1>g. ASSUME NEW code, Becomes(p, GivesUp(p, code, FALSE)), DOMAIN holder' = Names,
             \A f \in Names : holder[f] # p => holder'[f] = holder[f] \/ holder[f] = Nobody
      PROVE  LockInv'
  BY <1>g, <1>o, GivesUpFacts, Moves DEF Resolving, Working
<1>1. CASE FileExists(p)
  <2> DEFINE s == [r EXCEPT !.left = Tail(@)]
             q == [r EXCEPT !.pc = "lock"]
  <2>1. UNCHANGED holder /\ r.pc = "take" /\ r.left # <<>>
    BY <1>1 DEF FileExists, At
  <2>2. CASE p = Check /\ Becomes(p, s)
    <3>1. DOMAIN s = Fields
      BY <1>f DEF Fields
    <3> HIDE DEF s
    <3> QED BY <2>1, <2>2, <3>1, <1>f, Moves, ServiceAssumption
  <2>3. CASE Head(r.left) \in Names /\ Becomes(p, q)
    <3>1. /\ DOMAIN q = Fields /\ q.pc = "lock" /\ q.left = r.left
          /\ q.names = r.names /\ q.strayed = r.strayed
      BY <1>f DEF Fields
    <3>2. p \in Ifaces => Owns(p, q, holder')
      <4> HIDE DEF q
      <4> QED BY <2>1, <2>3, <3>1, <1>i DEF Owns, Resolving, Working
    <3> HIDE DEF q
    <3> QED BY <2>1, <2>3, <3>1, <3>2, <1>f, Moves
  <2>4. CASE Becomes(p, GivesUp(p, "NO_DEVICE", FALSE))
    BY <2>1, <2>4, <1>f, <1>g
  <2> HIDE DEF s, q
  <2> QED BY <1>1, <2>2, <2>3, <2>4 DEF FileExists, s, q
<1>2. CASE Lock(p)
  <2> DEFINE n == Head(r.left)
             path == LockPath(n)
             s == [r EXCEPT !.pc = "take", !.left = Tail(@),
                            !.strayed = @ \/ ~Present(n)]
  <2>1. /\ r.pc = "lock"
        /\ holder' = [holder EXCEPT ![path] = IF @ = Nobody THEN p ELSE @]
    BY <1>2 DEF Lock, At, TryLockDevice
  <2>2. /\ DOMAIN holder' = Names
        /\ \A f \in Names : holder[f] # p => holder'[f] = holder[f] \/ holder[f] = Nobody
    BY <2>1, <1>f
  <2>3. CASE MayLock(path) /\ Becomes(p, s)
    <3>1. /\ DOMAIN s = Fields /\ s.pc = "take" /\ s.left = Tail(r.left)
          /\ s.names = r.names /\ s.strayed = (r.strayed \/ ~Present(n))
      BY <1>f DEF Fields
    <3>2. ASSUME p \in Ifaces PROVE Owns(p, s, holder')
      <4>1. /\ r.left \in Seq(Range(r.names)) /\ r.left # <<>> /\ n \in Names
            /\ \A m \in Range(r.names) :
                  m \in Range(r.left) \/ (m \in Names /\ (r.strayed \/ holder[RealPath[m]] = p))
        BY <2>1, <1>i, <3>2 DEF Owns, Resolving, Working
      <4>2. /\ Tail(r.left) \in Seq(Range(r.names))
            /\ \A m \in Range(r.left) : m = n \/ m \in Range(Tail(r.left))
        <5> HIDE DEF r
        <5> QED BY <4>1, HeadAndTail
      <4>4. Present(n) => holder'[RealPath[n]] = p
        BY <2>1, <2>3, <4>1, <1>f, ServiceAssumption DEF LockPath, MayLock
      <4>5. \A f \in Names : holder[f] = p => holder'[f] = p
        BY <2>1, <1>f
      <4>6. ASSUME NEW m \in Range(r.names)
            PROVE  m \in Range(Tail(r.left))
                     \/ (m \in Names /\ (s.strayed \/ holder'[RealPath[m]] = p))
        <5> HIDE DEF s
        <5>1. CASE m = n
          <6>1. s.strayed \/ Present(n)
            BY <3>1, Zenon
          <6> QED BY <5>1, <6>1, <4>1, <4>4
        <5>2. CASE m \in Range(Tail(r.left))
          BY <5>2
        <5>3. CASE m \in Names /\ (r.strayed \/ holder[RealPath[m]] = p)
          <6>1. r.strayed => s.strayed
            BY <3>1, Zenon
          <6> QED BY <5>3, <6>1, <4>5, ServiceAssumption
        <5> QED BY <5>1, <5>2, <5>3, <4>1, <4>2
      <4> HIDE DEF s
      <4> QED BY <3>1, <4>2, <4>6 DEF Owns, Resolving, Working
    <3> HIDE DEF s
    <3> QED BY <2>2, <2>3, <3>1, <3>2, Moves
  <2>4. CASE Becomes(p, GivesUp(p, "NO_DEVICE", FALSE))
    BY <2>2, <2>4, <1>g
  <2> HIDE DEF s
  <2> QED BY <1>2, <2>3, <2>4 DEF Lock, s
<1>3. CASE HasDevices(p)
  <2>1. UNCHANGED holder /\ r.pc = "take" /\ r.left = <<>>
    BY <1>3 DEF HasDevices, At
  <2>2. CASE p = Check /\ Becomes(p, NextCheck(r.iface))
    <3>1. DOMAIN NextCheck(r.iface) = Fields
      BY GivesUpFacts
    <3> QED BY <2>1, <2>2, <3>1, <1>f, Moves, ServiceAssumption
  <2>3. CASE Goes(p, "open")
    <3> DEFINE q == [r EXCEPT !.pc = "open"]
    <3>1. /\ DOMAIN q = Fields /\ q.pc = "open" /\ q.left = r.left
          /\ q.names = r.names /\ q.strayed = r.strayed
      BY <1>f DEF Fields
    <3>2. Becomes(p, q)
      BY <2>3 DEF Goes
    <3> HIDE DEF q
    <3>3. p \in Ifaces => Owns(p, q, holder')
      BY <2>1, <3>1, <1>i DEF Owns, Resolving, Working
    <3> QED BY <2>1, <3>1, <3>2, <3>3, <1>f, Moves
  <2>4. CASE Becomes(p, GivesUp(p, "USBMODEM_INTERNAL_ERROR", FALSE))
    BY <2>1, <2>4, <1>f, <1>g
  <2> QED BY <1>3, <2>2, <2>3, <2>4 DEF HasDevices
<1> QED BY <1>1, <1>2, <1>3

-----------------------------------------------------------------------------
(* The other steps. *)

\* The steps of a daemon that change where it is, and neither its names nor a lock.
LEMMA RunSteps ==
  ASSUME LockInv, NEW i \in Ifaces,
         \/ RunModem(i) \/ EnterUbusLoop(i) \/ UloopRun(i) \/ UbusLoopEnds(i)
         \/ ModemFails(i) \/ Signal(i)
  PROVE  LockInv'
<1> DEFINE r == proc[i]
<1>p. i \in Procs
  BY DEF Procs
<1>f. DOMAIN r = Fields /\ DOMAIN holder = Names /\ Owns(i, r, holder)
  BY <1>p, ProcFacts
<1>h. UNCHANGED holder
  BY DEF RunModem, EnterUbusLoop, UloopRun, UbusLoopEnds, ModemFails, Signal
<1>k. ASSUME NEW s, Becomes(i, s), DOMAIN s = Fields,
             s.names = r.names, s.left = r.left, s.strayed = r.strayed,
             s.pc = r.pc \/ {s.pc, r.pc} \subseteq Working
      PROVE  LockInv'
  BY <1>p, <1>f, <1>h, <1>k, OwnsKept, Moves
<1>w. ASSUME NEW pc \in Working, r.pc \in Working, Goes(i, pc) PROVE LockInv'
  <2> DEFINE s == [r EXCEPT !.pc = pc]
  <2>1. /\ DOMAIN s = Fields /\ s.pc = pc /\ s.left = r.left
        /\ s.names = r.names /\ s.strayed = r.strayed
    BY <1>f DEF Fields
  <2>2. Becomes(i, s)
    BY <1>w DEF Goes
  <2> HIDE DEF s
  <2> QED BY <1>w, <2>1, <2>2, <1>k
<1>1. CASE RunModem(i)
  <2>1. r.pc = "open"
    BY <1>1 DEF RunModem, At
  <2>2. ASSUME NEW code, NEW isFatal, Becomes(i, GivesUp(i, code, isFatal)) PROVE LockInv'
    BY <1>p, <1>f, <1>h, <2>2, GivesUpFacts, Moves DEF Owns, Resolving, Working
  <2>3. Goes(i, "loop") \/ \E code, isFatal : Becomes(i, GivesUp(i, code, isFatal))
    BY <1>1, Zenon DEF RunModem
  <2> QED BY <2>1, <2>2, <2>3, <1>w DEF Working
<1>2. CASE EnterUbusLoop(i) \/ UbusLoopEnds(i)
  <2>1. r.pc \in {"loop", "run"} /\ (Goes(i, "join") \/ Goes(i, "enter"))
    BY <1>2 DEF EnterUbusLoop, UbusLoopEnds, At
  <2> QED BY <2>1, <1>w DEF Working
<1>3. CASE UloopRun(i)
  <2> DEFINE s == [r EXCEPT !.pc = "run", !.missed = @ \/ r.cancelled, !.cancelled = FALSE]
  <2>1. r.pc = "enter" /\ Becomes(i, s)
    BY <1>3 DEF UloopRun, At
  <2>2. /\ DOMAIN s = Fields /\ s.pc = "run" /\ s.left = r.left
        /\ s.names = r.names /\ s.strayed = r.strayed
    BY <1>f DEF Fields
  <2> HIDE DEF s
  <2> QED BY <2>1, <2>2, <1>k DEF Working
<1>4. CASE ModemFails(i)
  <2> DEFINE s == SetError(r, "USBMODEM_INTERNAL_ERROR", FALSE)
  <2>1. Becomes(i, s)
    BY <1>4 DEF ModemFails
  <2>2. /\ DOMAIN s = Fields /\ s.pc = r.pc /\ s.left = r.left
        /\ s.names = r.names /\ s.strayed = r.strayed
    BY <1>f DEF Fields, SetError, Stop
  <2> HIDE DEF s
  <2> QED BY <2>1, <2>2, <1>k
<1>5. CASE Signal(i)
  <2> DEFINE s == Stop([r EXCEPT !.manual = TRUE])
  <2>1. Becomes(i, s)
    BY <1>5 DEF Signal
  <2>2. /\ DOMAIN s = Fields /\ s.pc = r.pc /\ s.left = r.left
        /\ s.names = r.names /\ s.strayed = r.strayed
    BY <1>f DEF Fields, Stop
  <2> HIDE DEF s
  <2> QED BY <2>1, <2>2, <1>k
<1> QED BY <1>1, <1>2, <1>3, <1>4, <1>5

\* The first and the last steps of a process: it works with nothing then, and its
\* locks end with it.
LEMMA EndSteps ==
  ASSUME LockInv,
         \/ StartCheck
         \/ \E i \in Ifaces : \/ Start(i) \/ Joined(i) \/ UserScript(i) \/ CheckError(i) \/ Flush(i)
                               \/ Exits(i) \/ Killed(i)
  PROVE  LockInv'
<1>d. DOMAIN Idle = Fields
  BY DEF Idle, Fields
<1>1. CASE StartCheck
  <2> DEFINE s == [Idle EXCEPT !.pc = "options", !.iface = Order[1]]
  <2>1. UNCHANGED holder /\ Becomes(Check, s)
    BY <1>1 DEF StartCheck
  <2>2. DOMAIN s = Fields
    BY <1>d
  <2> HIDE DEF s
  <2> QED BY <2>1, <2>2, Moves, ServiceAssumption DEF Procs, LockInv, Shape
<1>2. ASSUME NEW i \in Ifaces,
             Start(i) \/ Joined(i) \/ UserScript(i) \/ CheckError(i) \/ Flush(i) \/ Exits(i) \/ Killed(i)
      PROVE  LockInv'
  <2> DEFINE r == proc[i]
             started == [Idle EXCEPT !.pc = "options", !.iface = i]
             joined  == [r EXCEPT !.pc = "report", !.names = <<>>]
             checked == [r EXCEPT !.pc = "exit", !.error = "", !.fatal = FALSE]
             flushed == [r EXCEPT !.pc = "flushed"]
  <2>p. i \in Procs
    BY DEF Procs
  <2>f. DOMAIN r = Fields /\ DOMAIN holder = Names
    BY <2>p, ProcFacts
  <2>1. /\ DOMAIN started = Fields /\ started.pc = "options"
        /\ DOMAIN joined = Fields /\ joined.pc = "report"
        /\ DOMAIN checked = Fields /\ checked.pc = "exit"
        /\ DOMAIN flushed = Fields /\ flushed.pc = "flushed"
        /\ Idle.pc = "none"
    BY <1>d, <2>f DEF Idle, Fields
  <2>2. \/ Becomes(i, started) \/ Becomes(i, joined) \/ Becomes(i, checked)
        \/ Becomes(i, flushed) \/ Becomes(i, Idle)
    BY <1>2, Zenon DEF Start, Joined, UserScript, CheckError, Flush, Exits, Killed, Vanish, Goes
  <2>3. UNCHANGED holder \/ holder' = [f \in Names |-> IF holder[f] = i THEN Nobody ELSE holder[f]]
    BY <1>2, Zenon DEF Start, Joined, UserScript, CheckError, Flush, Exits, Killed, Vanish
  <2>4. /\ DOMAIN holder' = Names
        /\ \A f \in Names : holder[f] # i => holder'[f] = holder[f]
    BY <2>3, <2>f
  <2> HIDE DEF started, joined, checked, flushed
  <2>5. PICK s : Becomes(i, s) /\ DOMAIN s = Fields /\ s.pc \notin Resolving \cup Working
    BY <2>1, <2>2, <1>d DEF Resolving, Working
  <2>6. Owns(i, s, holder')
    BY <2>5 DEF Owns
  <2> QED BY <2>p, <2>4, <2>5, <2>6, Moves
<1> QED BY <1>1, <1>2

-----------------------------------------------------------------------------
(* The theorems. *)

LEMMA InitLocks == Init => LockInv
<1> SUFFICES ASSUME Init PROVE LockInv
  OBVIOUS
<1>1. DOMAIN Idle = Fields /\ Idle.pc = "none"
  BY DEF Idle, Fields
<1>2. proc = [p \in Procs |-> Idle] /\ holder = [f \in Names |-> Nobody]
  BY Zenon DEF Init
<1>3. Shape
  BY <1>1, <1>2 DEF Shape
<1>4. Locked
  BY <1>1, <1>2 DEF Locked, Owns, Resolving, Working, Procs
<1> QED BY <1>3, <1>4 DEF LockInv

\* A daemon has the lock of every name that it has resolved and not still to take.
THEOREM LocksHeld == Spec => []LockInv
<1>1. LockInv /\ [Next]_vars => LockInv'
  <2> SUFFICES ASSUME LockInv, [Next]_vars PROVE LockInv'
    OBVIOUS
  <2>1. ASSUME NEW p \in Procs, Resolves(p) PROVE LockInv'
    BY <2>1, SearchSteps, TakeSteps DEF Resolves
  <2>2. ASSUME NEW i \in Ifaces, MainThread(i) PROVE LockInv'
    BY <2>1, <2>2, RunSteps, EndSteps DEF MainThread, Procs
  <2>3. ASSUME UNCHANGED <<proc, holder>> PROVE LockInv'
    BY <2>3 DEF LockInv, Shape, Locked
  <2>4. ASSUME NEW i \in Ifaces, ModemLoopEnds(i) PROVE LockInv'
    BY <2>3, <2>4 DEF ModemLoopEnds
  <2>5. ASSUME NEW d \in Movable, Plug(d) PROVE LockInv'
    BY <2>3, <2>5 DEF Plug
  <2>6. ASSUME UNCHANGED vars PROVE LockInv'
    BY <2>3, <2>6 DEF vars
  <2> QED BY <2>1, <2>2, <2>4, <2>5, <2>6, RunSteps, EndSteps DEF Next, Procs
<1> QED BY <1>1, InitLocks, PTL DEF Spec

\* Two daemons never work with one device file, whatever their options name, however
\* the modems come and go and whenever a daemon or a check begins or ends: each has the
\* locks of its files from resolveDevices() to its end, and a lock has one owner.
THEOREM DevicesExclusive == Spec => []Exclusive
<1>1. LockInv => Exclusive
  <2> SUFFICES ASSUME LockInv, NEW i \in Ifaces, NEW j \in Ifaces, i # j,
                      ~ proc[i].strayed, ~ proc[j].strayed,
                      NEW f \in Using(i) \cap Using(j)
               PROVE  FALSE
    BY DEF Exclusive
  <2>1. ASSUME NEW k \in {i, j} PROVE holder[f] = k
    <3>1. proc[k].pc \in Working
      BY <2>1 DEF Using, Working
    <3>2. PICK n \in Range(proc[k].names) : f = RealPath[n]
      BY <2>1 DEF Using
    <3>3. Owns(k, proc[k], holder) /\ ~ proc[k].strayed
      BY DEF LockInv, Locked
    <3>4. proc[k].left = <<>>
      BY <3>1, <3>3 DEF Owns
    <3>5. n \notin Range(proc[k].left)
      BY <3>4 DEF Range
    <3> QED BY <3>1, <3>2, <3>3, <3>5 DEF Owns
  <2> QED BY <2>1
<1> QED BY <1>1, LocksHeld, PTL

=============================================================================

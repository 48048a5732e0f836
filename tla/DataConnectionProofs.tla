------------------------ MODULE DataConnectionProofs ------------------------
(***************************************************************************)
(* What the registration and the data connection agree on, for any         *)
(* networks, contexts and configurations and any number of changes.  The   *)
(* parts of DataInv all have one form: two places that should hold the     *)
(* same do, or what will make them agree is queued, awaited or excused.    *)
(* Once nothing is queued or awaited the first alone remains, which is     *)
(* what the properties of DataConnection say.                              *)
(***************************************************************************)
EXTENDS DataConnection, SequenceTheorems, TLAPS

-----------------------------------------------------------------------------
(* The queue of the Loop. *)

Events == {"evConnected", "evDisconnected"}

\* A job of this name is queued.
Has(q, j) == \E i \in DOMAIN q : q[i].job = j

NoEvents(q) == ~ Has(q, "evConnected") /\ ~ Has(q, "evDisconnected")

\* The job of init() is the first of all.
InitFirst(q) == Has(q, "init") => Head(q).job = "init" /\ ~ Has(Tail(q), "init")

\* The last event of the queue tells of the state the modem's object is in.
LastTells(q, connected, a) ==
  \A i \in DOMAIN q :
    q[i].job \in Events /\ (\A k \in DOMAIN q : k > i => q[k].job \notin Events) =>
      IF connected THEN q[i].job = "evConnected" /\ q[i].got = a
      ELSE q[i].job = "evDisconnected"

-----------------------------------------------------------------------------
(* The inductive invariants. *)

Connection == state = "CONNECTED"

\* The service has heard of the connection, or will.
Told ==
  /\ LastTells(jobs, Connection, addrs)
  /\ cfg.proto = "static" /\ ~ stopped /\ NoEvents(jobs) =>
       iface = IF Connection THEN addrs ELSE {}

\* Leases and connection belong together, or an event is queued.
Leases ==
  /\ leased \subseteq {"_4"}
  /\ dhcp.ifaces = IF dhcp.inited THEN {"_4"} ELSE {}
  /\ leased # {} => dhcp.inited
  /\ cfg.proto = "static" => leased = {} /\ delayed = 0
  /\ leased # {} /\ ~ late /\ ~ stopped /\ ~ Connection => ~ NoEvents(jobs)
  /\ cfg.proto = "dhcp" /\ ~ stopped /\ Connection =>
       leased # {} \/ delayed > 0 \/ ~ NoEvents(jobs)

\* Nothing happens before the job of init(), and an answer that is awaited is the
\* one the Loop waits for.
Starting ==
  /\ InitFirst(jobs)
  /\ Has(jobs, "init") => step = Idle /\ timers = 0 /\ state = "DISCONNECTED"
  /\ asked # "no" => step.op = "asked" /\ step.via = asked

\* The domains that are asked for from one on.
From == [CREG |-> AllDomains, CGREG |-> {"CGREG", "CEREG"}, CEREG |-> {"CEREG"}, signal |-> {}]

\* A domain whose answer is still to come.
WillAsk(d) ==
  \/ Has(jobs, "init")
  \/ step.op = "cid"
  \/ step.op \in {"query", "got"} /\ step.via = "detect"
  \/ step.op = "ask" /\ d \in From[step.via]
  \/ step.op = "asked" /\ (asked = d \/ d \in From[AskOrder[step.via]])

Registers ==
  ~ misread =>
    \A d \in Domains :
      \/ regs[d] = told[d]
      \/ d \in unheard
      \/ regs[d] = NotRegistered /\ ("unasked" \in excuse \/ WillAsk(d))

\* What the registers say has been worked out, or will be.
WorkedOut ==
  \/ /\ step.op # "cops"
     /\ netReg = NetworkReg(Deciding)
     /\ NetworkTech(Deciding) # "unknown" => tech = NetworkTech(Deciding)
  \/ Has(jobs, "networkChange")
  \/ step.op = "cops" /\ step.reg = NetworkReg(Deciding) /\ NetworkTech(Deciding) = "unknown"

\* A change of the context that is still to be handled.
News == IF ctx = {} THEN Has(jobs, "connect") \/ Has(jobs, "disconnect") ELSE Has(jobs, "connect")

\* The addresses are those of the modem's context, or will be.
Addressed ==
  /\ cfg.vendor = "huawei" => ~ Has(jobs, "disconnect")
  /\ Undisturbed /\ step.op = "got" => step.got = ctx \/ News
  /\ Undisturbed /\ state = "CONNECTED" =>
       \/ ctx # {} /\ ctx \subseteq addrs
       \/ News
       \/ step.op \in {"query", "got"}

\* The number of a timer is that of one that is pending.
Armed == retry => timers > 0

\* A dial or a first look at the context is under way.
UnderWay ==
  \/ Has(jobs, "dial")
  \/ step.op = "dial"
  \/ step.op \in {"query", "got"} /\ step.via \in {"first", "dial"}

\* A dial that has begun goes on.
Dialling == state = "CONNECTING" => UnderWay

\* What can be dialled is, or will be.
Dials ==
  Undisturbed /\ state = "DISCONNECTED" /\ CanDial =>
    retry \/ Has(jobs, "evTech") \/ Has(jobs, "evDisconnected") \/ UnderWay

\* A daemon that was started beside a running modem has heard nothing of it.
Unaware ==
  /\ jobs = <<>> /\ step = Idle /\ timers = 0
  /\ tech = "none" /\ asked = "no" /\ cfg.vendor = "asr"
  /\ \A d \in Domains : told[d] = Truth(net, d)

\* What finds a context that is there.
Finding ==
  \/ Has(jobs, "connect")
  \/ cfg.vendor = "asr" /\ Has(jobs, "init")
  \/ step.op \in {"cid", "query", "got"}
  \/ cfg.vendor = "huawei" /\ first
  \/ Unaware

\* A context without a connection is found, or will be.
Found == Undisturbed /\ ctx # {} /\ state # "CONNECTED" => Finding

DataInv ==
  /\ TypeOK
  /\ Told /\ Leases
  /\ Starting /\ Registers /\ WorkedOut
  /\ Addressed /\ Armed /\ Dialling /\ Dials /\ Found

-----------------------------------------------------------------------------
(* Lemmas about the queue. *)

\* A job is put at the end.
LEMMA Put ==
  ASSUME NEW q \in Seq(Jobs), NEW e \in Jobs
  PROVE  /\ Append(q, e) \in Seq(Jobs) /\ Append(q, e) # <<>>
         /\ \A j : Has(Append(q, e), j) <=> Has(q, j) \/ e.job = j
         /\ q # <<>> => Head(Append(q, e)) = Head(q) /\ Tail(Append(q, e)) = Append(Tail(q), e)
<1>1. /\ Append(q, e) \in Seq(Jobs) /\ Append(q, e) # <<>>
      /\ DOMAIN Append(q, e) = DOMAIN q \cup {Len(q) + 1}
      /\ Append(q, e)[Len(q) + 1] = e
  OBVIOUS
<1>2. \A i \in DOMAIN q : Append(q, e)[i] = q[i]
  OBVIOUS
<1>3. \A j : Has(Append(q, e), j) <=> Has(q, j) \/ e.job = j
  BY <1>1, <1>2, Zenon DEF Has
<1>4. ASSUME q # <<>>
      PROVE  Head(Append(q, e)) = Head(q) /\ Tail(Append(q, e)) = Append(Tail(q), e)
  BY <1>4, HeadTailAppend
<1>. QED
  BY <1>1, <1>3, <1>4

\* The first job is taken.
LEMMA Taken ==
  ASSUME NEW q \in Seq(Jobs), q # <<>>
  PROVE  /\ Tail(q) \in Seq(Jobs) /\ Head(q) \in Jobs
         /\ \A j : Has(q, j) <=> Has(Tail(q), j) \/ Head(q).job = j
<1>1. /\ Tail(q) \in Seq(Jobs) /\ Head(q) \in Jobs
      /\ 1 \in DOMAIN q /\ Head(q) = q[1]
  OBVIOUS
<1>2. \A k \in DOMAIN Tail(q) : k + 1 \in DOMAIN q /\ Tail(q)[k] = q[k + 1]
  OBVIOUS
<1>3. \A k \in DOMAIN q : k = 1 \/ (k - 1 \in DOMAIN Tail(q) /\ Tail(q)[k - 1] = q[k])
  OBVIOUS
<1>4. \A j : Has(Tail(q), j) => Has(q, j)
  BY <1>2, Zenon DEF Has
<1>5. \A j : Has(q, j) => Has(Tail(q), j) \/ Head(q).job = j
  BY <1>1, <1>3, Zenon DEF Has
<1>6. \A j : Head(q).job = j => Has(q, j)
  BY <1>1, Zenon DEF Has
<1>. QED
  BY <1>1, <1>4, <1>5, <1>6, Zenon

\* Nothing is queued in an empty queue.
LEMMA Nothing == \A j : ~ Has(<<>>, j)
  BY DEF Has

\* The last event is the one that is put, or the one it was.
LEMMA LastPut ==
  ASSUME NEW q \in Seq(Jobs), NEW e \in Jobs, NEW c \in BOOLEAN, NEW a
  PROVE  /\ e.job \notin Events /\ LastTells(q, c, a) => LastTells(Append(q, e), c, a)
         /\ e.job = "evConnected" /\ e.got = a => LastTells(Append(q, e), TRUE, a)
         /\ e.job = "evDisconnected" => LastTells(Append(q, e), FALSE, a)
<1>1. /\ DOMAIN Append(q, e) = DOMAIN q \cup {Len(q) + 1}
      /\ Append(q, e)[Len(q) + 1] = e
      /\ \A i \in DOMAIN q : i < Len(q) + 1 /\ i \in Nat
      /\ \A i \in DOMAIN q : Append(q, e)[i] = q[i]
  OBVIOUS
<1>2. ASSUME e.job \in Events, NEW i \in DOMAIN Append(q, e),
             \A k \in DOMAIN Append(q, e) : k > i => Append(q, e)[k].job \notin Events
      PROVE  i = Len(q) + 1
  <2>1. Len(q) + 1 \in DOMAIN Append(q, e) /\ Append(q, e)[Len(q) + 1].job \in Events
    BY <1>1, <1>2, Zenon
  <2>2. ~ (Len(q) + 1 > i)
    BY <1>2, <2>1, Zenon
  <2>. QED
    BY <1>1, <2>2
<1>3. e.job = "evConnected" /\ e.got = a => LastTells(Append(q, e), TRUE, a)
  BY <1>1, <1>2, Zenon DEF LastTells, Events
<1>4. e.job = "evDisconnected" => LastTells(Append(q, e), FALSE, a)
  BY <1>1, <1>2, Zenon DEF LastTells, Events
<1>5. ASSUME e.job \notin Events, LastTells(q, c, a), NEW i \in DOMAIN Append(q, e),
             Append(q, e)[i].job \in Events,
             \A k \in DOMAIN Append(q, e) : k > i => Append(q, e)[k].job \notin Events
      PROVE  IF c THEN Append(q, e)[i].job = "evConnected" /\ Append(q, e)[i].got = a
             ELSE Append(q, e)[i].job = "evDisconnected"
  <2>1. i \in DOMAIN q
    BY <1>1, <1>5, Zenon
  <2>2. \A k \in DOMAIN q : k > i => q[k].job \notin Events
    BY <1>1, <1>5, Zenon
  <2>. QED
    BY <1>1, <1>5, <2>1, <2>2, Zenon DEF LastTells
<1>. QED
  BY <1>3, <1>4, <1>5, Zenon DEF LastTells

\* The last event of a queue is not disturbed by what is taken before it, and tells
\* what it should when it is taken itself.
LEMMA LastTaken ==
  ASSUME NEW q \in Seq(Jobs), q # <<>>, NEW c \in BOOLEAN, NEW a, LastTells(q, c, a)
  PROVE  /\ LastTells(Tail(q), c, a)
         /\ Head(q).job \in Events /\ NoEvents(Tail(q)) =>
              IF c THEN Head(q).job = "evConnected" /\ Head(q).got = a
              ELSE Head(q).job = "evDisconnected"
<1>1. 1 \in DOMAIN q /\ Head(q) = q[1]
  OBVIOUS
<1>2. \A k \in DOMAIN Tail(q) : k + 1 \in DOMAIN q /\ Tail(q)[k] = q[k + 1] /\ k \in Nat \ {0}
  OBVIOUS
<1>3. \A k \in DOMAIN q :
        k \in Nat /\ (k = 1 \/ (k - 1 \in DOMAIN Tail(q) /\ Tail(q)[k - 1] = q[k]))
  OBVIOUS
<1>4. ASSUME NEW i \in DOMAIN Tail(q), Tail(q)[i].job \in Events,
             \A k \in DOMAIN Tail(q) : k > i => Tail(q)[k].job \notin Events
      PROVE  IF c THEN Tail(q)[i].job = "evConnected" /\ Tail(q)[i].got = a
             ELSE Tail(q)[i].job = "evDisconnected"
  <2>1. ASSUME NEW k \in DOMAIN q, k > i + 1
        PROVE  q[k].job \notin Events
    <3>1. k - 1 \in DOMAIN Tail(q) /\ Tail(q)[k - 1] = q[k] /\ k - 1 > i
      BY <1>2, <1>3, <2>1
    <3>. QED
      BY <1>4, <3>1, Zenon
  <2>2. i + 1 \in DOMAIN q /\ Tail(q)[i] = q[i + 1]
    BY <1>2
  <2>. QED
    BY <1>4, <2>1, <2>2, Zenon DEF LastTells
<1>5. ASSUME Head(q).job \in Events, NoEvents(Tail(q))
      PROVE  IF c THEN Head(q).job = "evConnected" /\ Head(q).got = a
             ELSE Head(q).job = "evDisconnected"
  <2>1. ASSUME NEW k \in DOMAIN q, k > 1
        PROVE  q[k].job \notin Events
    <3>1. k - 1 \in DOMAIN Tail(q) /\ Tail(q)[k - 1] = q[k]
      BY <1>3, <2>1
    <3>. QED
      BY <1>5, <3>1, Zenon DEF NoEvents, Has, Events
  <2>. QED
    BY <1>1, <1>5, <2>1, Zenon DEF LastTells
<1>. QED
  BY <1>4, <1>5, Zenon DEF LastTells

-----------------------------------------------------------------------------
(* Types. *)

Register == [stat : Stats, tech : Techs \ {"none"}]

\* What Job() makes is a job of its name.
LEMMA JobTypes == \A j \in JobNames : Job(j) \in Jobs /\ Job(j).job = j
  BY DEF Job, Jobs

\* What is read from a register and what decides have the types of registers.
LEMMA RegisterTypes ==
  /\ NotRegistered \in Register
  /\ \A r \in Register : NetworkTech(r) \in Techs /\ NetworkReg(r) \in Stats \ {"smsOnly"}
  /\ \A r \in Register, answer, isManual \in BOOLEAN : Parsed(r, answer, isManual) \subseteq Register
<1>1. NotRegistered \in Register
  BY DEF NotRegistered, Register, Stats, Techs
<1>2. \A r \in Register : NetworkTech(r) \in Techs /\ NetworkReg(r) \in Stats \ {"smsOnly"}
  BY DEF NetworkTech, NetworkReg, Register, Stats, Techs
<1>3. \A r \in Register, answer, isManual \in BOOLEAN : Parsed(r, answer, isManual) \subseteq Register
  BY <1>1 DEF Parsed, NotRegistered, Register, Stats, Techs
<1>. QED
  BY <1>1, <1>2, <1>3

\* What the modem has to say of a network is a network or none.
LEMMA ModemTypes ==
  /\ Networks \cup {NotRegistered} \subseteq Register
  /\ \A n, d : Truth(n, d) \in {n, NotRegistered}
  /\ \A d : Truth(NotRegistered, d) = NotRegistered
  /\ Domains \subseteq AllDomains
<1>1. Networks \cup {NotRegistered} \subseteq Register
  BY RegistrationAssumption, RegisterTypes DEF Register
<1>2. \A n, d : Truth(n, d) \in {n, NotRegistered}
  BY DEF Truth
<1>. QED
  BY <1>1, <1>2, RegistrationAssumption

\* What the reader does with a line.
LEMMA ReaderTypes ==
  ASSUME TypeOK, NEW d \in Domains, NEW r \in Networks \cup {NotRegistered},
         NEW answer \in BOOLEAN, HandleCreg(d, r, answer)
  PROVE  /\ manual' = "no" /\ misread' \in BOOLEAN
         /\ regs' \in [AllDomains -> Register] /\ jobs' \in Seq(Jobs)
         /\ unheard' \subseteq Domains
<1>1. /\ r \in Register /\ d \in AllDomains
      /\ regs \in [AllDomains -> Register] /\ jobs \in Seq(Jobs)
  BY ModemTypes DEF TypeOK, RegTypeOK, Register
<1>2. Parsed(r, answer, manual = d) \subseteq Register
  BY <1>1, RegisterTypes
<1>3. Job("networkChange") \in Jobs
  BY JobTypes DEF JobNames
<1>4. Append(jobs, Job("networkChange")) \in Seq(Jobs)
  BY <1>1, <1>3, Put
<1>5. \A v \in Register : [regs EXCEPT ![d] = v] \in [AllDomains -> Register]
  BY <1>1
<1>6. manual' = "no" /\ misread' \in BOOLEAN /\ unheard' \subseteq Domains
  BY DEF HandleCreg, TypeOK, RegTypeOK
<1>. QED
  BY <1>1, <1>2, <1>4, <1>5, <1>6, Zenon DEF HandleCreg

\* The variables have their types in the beginning.
LEMMA InitTypes == Init => TypeOK
<1>. SUFFICES ASSUME Init PROVE TypeOK
  OBVIOUS
<1>1. RegTypeOK
  <2>1. told \in [AllDomains -> Networks \cup {NotRegistered}]
    BY ModemTypes, Zenon DEF Init, RInit
  <2>2. regs \in [AllDomains -> Register]
    BY RegisterTypes DEF Init, RInit
  <2>3. /\ net \in Networks \cup {NotRegistered} /\ stopped \in BOOLEAN /\ misread \in BOOLEAN
        /\ unheard \subseteq Domains
    BY DEF Init, RInit
  <2>4. asked = "no" /\ manual = "no" /\ changes \in 0 .. MaxChanges
    BY RegistrationAssumption DEF Init, RInit
  <2>5. tech \in Techs /\ netReg \in Stats \ {"smsOnly"}
    BY DEF Init, RInit, Techs, Stats
  <2>. QED
    BY <2>1, <2>2, <2>3, <2>4, <2>5, Zenon DEF RegTypeOK, Register
<1>2. jobs \in Seq(Jobs)
  <2>1. <<>> \in Seq(Jobs) /\ <<Job("init")>> \in Seq(Jobs)
    BY JobTypes DEF JobNames
  <2>. QED
    BY <2>1, Zenon DEF Init
<1>3. StepTypes
  BY DEF Init, RInit, StepTypes, Steps, Idle, Step, Stats
<1>4. /\ cfg \in Configs /\ ctx \in Contexts \cup {{}}
      /\ excuse \subseteq Causes
  BY Zenon DEF Init, Causes
<1>5. /\ state \in {"DISCONNECTED", "CONNECTING", "CONNECTED"}
      /\ addrs \subseteq Addresses /\ iface \subseteq Addresses
      /\ leased \subseteq {"_4", "_6"} /\ delayed \in Nat
  BY DEF Init
<1>6. dhcp \in [inited : BOOLEAN, ifaces : SUBSET {"_4"}]
  BY DEF Init
<1>7. /\ retry \in BOOLEAN /\ first \in BOOLEAN /\ dropped \in BOOLEAN /\ late \in BOOLEAN
      /\ timers \in Nat
  BY DEF Init
<1>. QED
  BY <1>1, <1>2, <1>3, <1>4, <1>5, <1>6, <1>7, Zenon DEF TypeOK

\* What a step of the Loop may wait for.
LEMMA StepKinds ==
  /\ \A o \in {"idle", "cops", "cid", "dial"}, v \in {"none", "detect"}, x \in Stats \ {"smsOnly"} :
        [Step(o, v) EXCEPT !.reg = x] \in Steps
  /\ \A o \in {"idle", "cops", "cid", "dial"}, v \in {"none", "detect"} : Step(o, v) \in Steps
  /\ \A v \in AllDomains \cup {"signal"} : Step("ask", v) \in Steps
  /\ \A v \in AllDomains : Step("asked", v) \in Steps /\ AskOrder[v] \in AllDomains \cup {"signal"}
  /\ \A v \in {"event", "detect", "first", "dial"} : Step("query", v) \in Steps
  /\ \A o, v : Step(o, v).op = o /\ Step(o, v).via = v
  BY DEF Step, Steps, Stats, AskOrder, AllDomains

-----------------------------------------------------------------------------
(* What the helpers of the actions do to the queue. *)

\* "rest" is queued, and jobs of these names after it.
Queued(rest, names) ==
  /\ jobs' \in Seq(Jobs)
  /\ \A j : Has(jobs', j) <=> Has(rest, j) \/ j \in names
  /\ InitFirst(rest) => InitFirst(jobs')

\* Nothing new is queued.
LEMMA QueuedNothing ==
  ASSUME jobs' \in Seq(Jobs)
  PROVE  Queued(jobs', {})
BY Zenon DEF Queued

\* The job of init() stays the first when another one is put.
LEMMA PutAfter ==
  ASSUME NEW q \in Seq(Jobs), NEW e \in Jobs, e.job # "init", InitFirst(q)
  PROVE  InitFirst(Append(q, e))
<1>1. \A j : Has(Append(q, e), j) <=> Has(q, j) \/ e.job = j
  BY Put
<1>2. CASE q = <<>>
  BY <1>1, <1>2, Nothing, Zenon DEF InitFirst
<1>3. CASE q # <<>>
  <2>1. Head(Append(q, e)) = Head(q) /\ Tail(Append(q, e)) = Append(Tail(q), e)
    BY <1>3, Put, Zenon
  <2>2. Tail(q) \in Seq(Jobs)
    BY <1>3, Taken
  <2>3. Has(Append(Tail(q), e), "init") <=> Has(Tail(q), "init") \/ e.job = "init"
    BY <2>2, Put
  <2>. QED
    BY <1>1, <2>1, <2>3, Zenon DEF InitFirst
<1>. QED
  BY <1>2, <1>3

\* One job that is not that of init() is queued.
LEMMA QueuedOne ==
  ASSUME NEW rest \in Seq(Jobs), NEW e \in Jobs, jobs' = Append(rest, e), e.job # "init"
  PROVE  Queued(rest, {e.job})
<1>1. jobs' \in Seq(Jobs) /\ \A j : Has(jobs', j) <=> Has(rest, j) \/ j \in {e.job}
  BY Put
<1>2. InitFirst(rest) => InitFirst(jobs')
  BY PutAfter
<1>. QED
  BY <1>1, <1>2, Zenon DEF Queued

\* A job of the Loop begins: the queue without it.
LEMMA JobTaken ==
  ASSUME TypeOK, NEW j, LoopReady(j)
  PROVE  /\ jobs # <<>> /\ step = Idle /\ ~ stopped
         /\ Tail(jobs) \in Seq(Jobs) /\ Head(jobs) \in Jobs /\ Head(jobs).job = j
         /\ \A k : Has(jobs, k) <=> Has(Tail(jobs), k) \/ k = j
         /\ InitFirst(jobs) => InitFirst(Tail(jobs)) /\ (Has(jobs, "init") => j = "init")
<1>1. jobs # <<>> /\ step = Idle /\ ~ stopped /\ Head(jobs).job = j /\ jobs \in Seq(Jobs)
  BY Zenon DEF LoopReady, Head1, TypeOK
<1>2. /\ Tail(jobs) \in Seq(Jobs) /\ Head(jobs) \in Jobs
      /\ \A k : Has(jobs, k) <=> Has(Tail(jobs), k) \/ k = j
  BY <1>1, Taken, Zenon
<1>3. InitFirst(jobs) => InitFirst(Tail(jobs)) /\ (Has(jobs, "init") => j = "init")
  BY <1>1, <1>2, Zenon DEF InitFirst
<1>. QED
  BY <1>1, <1>2, <1>3, Zenon

\* handleDisconnect() tells of the loss if there was a connection, and forgets the addresses.
LEMMA Disconnecting ==
  ASSUME TypeOK, NEW rest \in Seq(Jobs), HandleDisconnect(rest)
  PROVE  /\ state' = "DISCONNECTED" /\ addrs' = {}
         /\ Queued(rest, IF Connection THEN {"evDisconnected"} ELSE {})
         /\ LastTells(rest, Connection, addrs) => LastTells(jobs', FALSE, {})
<1>1. state' = "DISCONNECTED" /\ addrs' = {}
  BY DEF HandleDisconnect
<1>2. CASE Connection
  <2>1. /\ jobs' = Append(rest, Job("evDisconnected"))
        /\ Job("evDisconnected") \in Jobs /\ Job("evDisconnected").job = "evDisconnected"
    BY <1>2, JobTypes DEF HandleDisconnect, Connection, JobNames
  <2>2. Queued(rest, {"evDisconnected"})
    BY <2>1, QueuedOne
  <2>3. LastTells(jobs', FALSE, {})
    BY <2>1, LastPut
  <2>. QED
    BY <1>1, <1>2, <2>2, <2>3, Zenon
<1>3. CASE ~ Connection
  <2>1. jobs' = rest
    BY <1>3 DEF HandleDisconnect, Connection
  <2>2. LastTells(rest, Connection, addrs) => LastTells(rest, FALSE, {})
    BY <1>3, Zenon DEF LastTells
  <2>3. Queued(rest, {})
    BY <2>1, QueuedNothing
  <2>. QED
    BY <1>1, <1>3, <2>1, <2>2, <2>3, Zenon
<1>. QED
  BY <1>2, <1>3

\* handleConnect() with an answer tells of the addresses it has merged.
LEMMA Connecting ==
  ASSUME TypeOK, NEW rest \in Seq(Jobs), NEW got \in SUBSET Addresses, got # {},
         Connected(got, rest)
  PROVE  /\ state' = "CONNECTED" /\ addrs' \subseteq Addresses /\ got \subseteq addrs'
         /\ Queued(rest, {"evConnected"})
         /\ LastTells(jobs', TRUE, addrs')
<1>1. state' = "CONNECTED" /\ addrs' = Merged(got)
  BY DEF Connected
<1>2. addrs' \subseteq Addresses /\ got \subseteq addrs'
  BY <1>1 DEF Merged, TypeOK
<1>3. PICK e \in Jobs : jobs' = Append(rest, e) /\ e.job = "evConnected" /\ e.got = addrs'
  <2>. DEFINE e == [job |-> "evConnected", update |-> state = "CONNECTED", got |-> Merged(got)]
  <2>1. e \in Jobs /\ e.job = "evConnected" /\ e.got = addrs'
    BY <1>1, <1>2 DEF Jobs, JobNames
  <2>2. jobs' = Append(rest, e)
    BY DEF Connected
  <2>. QED
    BY <2>1, <2>2
<1>4. Queued(rest, {"evConnected"})
  BY <1>3, QueuedOne
<1>5. LastTells(jobs', TRUE, addrs')
  BY <1>3, LastPut
<1>. QED
  BY <1>1, <1>2, <1>4, <1>5

\* startDataConnection() queues a dial or changes nothing, and tells nobody.
LEMMA Starts ==
  ASSUME TypeOK, NEW armed \in BOOLEAN, NEW rest \in Seq(Jobs), StartDataConnection(armed, rest)
  PROVE  /\ IF CanDial /\ ~ armed /\ state = "DISCONNECTED"
            THEN state' = "CONNECTING" /\ Queued(rest, {"dial"})
            ELSE state' = state /\ jobs' = rest /\ Queued(rest, {})
         /\ \A a : LastTells(rest, Connection, a) => LastTells(jobs', Connection', a)
         /\ Connection' <=> Connection
<1>1. CASE CanDial /\ ~ armed /\ state = "DISCONNECTED"
  <2>1. /\ jobs' = Append(rest, Job("dial")) /\ state' = "CONNECTING"
        /\ Job("dial") \in Jobs /\ Job("dial").job = "dial"
    BY <1>1, JobTypes DEF StartDataConnection, JobNames
  <2>2. Queued(rest, {"dial"})
    BY <2>1, QueuedOne
  <2>3. ~ Connection /\ ~ Connection'
    BY <1>1, <2>1 DEF Connection
  <2>4. \A a : LastTells(rest, FALSE, a) => LastTells(jobs', FALSE, a)
    BY <2>1, LastPut DEF Events
  <2>5. \A a : LastTells(rest, Connection, a) => LastTells(jobs', Connection', a)
    BY <2>3, <2>4, Zenon DEF LastTells
  <2>. QED
    BY <1>1, <2>1, <2>2, <2>3, <2>5, Zenon
<1>2. CASE ~ (CanDial /\ ~ armed /\ state = "DISCONNECTED")
  <2>1. state' = state /\ jobs' = rest
    BY <1>2, Zenon DEF StartDataConnection
  <2>2. Queued(rest, {})
    BY <2>1, QueuedNothing
  <2>3. Connection' <=> Connection
    BY <2>1 DEF Connection
  <2>. QED
    BY <1>2, <2>1, <2>2, <2>3, Zenon DEF LastTells
<1>. QED
  BY <1>1, <1>2

\* A change of the technology is told of by an event of its own.
LEMMA Networking ==
  ASSUME TypeOK, NEW newTech, NEW newReg, NEW rest \in Seq(Jobs), SetNetwork(newTech, newReg, rest)
  PROVE  /\ netReg' = newReg /\ tech' = newTech
         /\ Queued(rest, IF newTech # tech THEN {"evTech"} ELSE {})
         /\ \A a : LastTells(rest, Connection, a) => LastTells(jobs', Connection, a)
<1>1. netReg' = newReg /\ tech' = newTech
  BY DEF SetNetwork
<1>2. CASE newTech # tech
  <2>1. /\ jobs' = Append(rest, Job("evTech"))
        /\ Job("evTech") \in Jobs /\ Job("evTech").job = "evTech"
    BY <1>2, JobTypes DEF SetNetwork, JobNames
  <2>2. Queued(rest, {"evTech"})
    BY <2>1, QueuedOne
  <2>3. \A a : LastTells(rest, Connection, a) => LastTells(jobs', Connection, a)
    BY <2>1, LastPut DEF Events, Connection
  <2>. QED
    BY <1>1, <1>2, <2>2, <2>3, Zenon
<1>3. CASE newTech = tech
  <2>1. jobs' = rest
    BY <1>3 DEF SetNetwork
  <2>. QED
    BY <1>1, <1>3, <2>1, QueuedNothing, Zenon
<1>. QED
  BY <1>2, <1>3

\* What the handlers of +CGEV and ^NDISSTAT queue for a context, by vendor.
LEMMA Reporting ==
  ASSUME TypeOK, NEW c, jobs' = HandleCgev(c)
  PROVE  \E names \in SUBSET {"connect", "disconnect"} :
           /\ Queued(jobs, names)
           /\ \A a : LastTells(jobs, Connection, a) => LastTells(jobs', Connection, a)
           /\ cfg.vendor = "huawei" => names = {"connect"}
           /\ c # {} /\ tech = "lte" => names = {"connect"}
           /\ cfg.vendor # "huawei" /\ c = {} => names = {"disconnect"}
<1>1. jobs \in Seq(Jobs)
  BY DEF TypeOK
<1>2. ASSUME NEW n \in {"connect", "disconnect"}, jobs' = Append(jobs, Job(n))
      PROVE  /\ Queued(jobs, {n})
             /\ \A a : LastTells(jobs, Connection, a) => LastTells(jobs', Connection, a)
  <2>1. Job(n) \in Jobs /\ Job(n).job = n
    BY JobTypes DEF JobNames
  <2>2. Queued(jobs, {n})
    BY <1>1, <1>2, <2>1, QueuedOne
  <2>. QED
    BY <1>1, <1>2, <2>1, <2>2, LastPut DEF Events, Connection
<1>3. CASE jobs' = jobs /\ cfg.vendor # "huawei" /\ c # {} /\ tech # "lte"
  BY <1>1, <1>3, QueuedNothing, Zenon
<1>4. CASE jobs' = Append(jobs, Job("connect")) /\ (cfg.vendor = "huawei" \/ c # {})
  BY <1>2, <1>4
<1>5. CASE jobs' = Append(jobs, Job("disconnect")) /\ cfg.vendor # "huawei" /\ c = {}
  BY <1>2, <1>5
<1>. QED
  BY <1>3, <1>4, <1>5, Zenon DEF HandleCgev

\* A search for operators ends the connection, and the modem may say that it is detached.
LEMMA Searching ==
  ASSUME TypeOK, SearchOperators
  PROVE  /\ state' = "DISCONNECTED" /\ addrs' = {}
         /\ UNCHANGED <<retry, timers, first, step>>
         /\ \E names \in SUBSET {"connect", "evDisconnected"} :
              /\ Queued(jobs, names)
              /\ Connection => "evDisconnected" \in names
              /\ ctx' # ctx => ctx' = {} /\ "connect" \in names
         /\ LastTells(jobs, Connection, addrs) => LastTells(jobs', FALSE, {})
<1>1. /\ UNCHANGED <<retry, timers, first, step>> /\ cfg.vendor = "huawei"
      /\ jobs \in Seq(Jobs)
  BY Zenon DEF SearchOperators, dialVars, TypeOK
<1>2. Job("connect") \in Jobs /\ Job("connect").job = "connect"
  BY JobTypes DEF JobNames
<1>3. HandleCgev({}) = Append(jobs, Job("connect"))
  BY <1>1 DEF HandleCgev
<1>. DEFINE lost == IF Connection THEN {"evDisconnected"} ELSE {}
<1>4. CASE ctx' = {} /\ HandleDisconnect(HandleCgev({}))
  <2>. DEFINE q == Append(jobs, Job("connect"))
  <2>1. /\ q \in Seq(Jobs) /\ \A j : Has(q, j) <=> Has(jobs, j) \/ j = "connect"
        /\ InitFirst(jobs) => InitFirst(q)
    BY <1>1, <1>2, Put, PutAfter
  <2>2. LastTells(jobs, Connection, addrs) => LastTells(q, Connection, addrs)
    BY <1>1, <1>2, LastPut DEF Connection, Events
  <2>3. HandleDisconnect(q)
    BY <1>3, <1>4
  <2>. HIDE DEF q
  <2>4. /\ state' = "DISCONNECTED" /\ addrs' = {} /\ Queued(q, lost)
        /\ LastTells(q, Connection, addrs) => LastTells(jobs', FALSE, {})
    BY <2>1, <2>3, Disconnecting
  <2>5. Queued(jobs, {"connect"} \cup lost)
    BY <2>1, <2>4 DEF Queued
  <2>6. {"connect"} \cup lost \in SUBSET {"connect", "evDisconnected"}
    OBVIOUS
  <2>. QED
    BY <1>1, <1>4, <2>2, <2>4, <2>5, <2>6
<1>5. CASE ctx' = ctx /\ HandleDisconnect(jobs)
  <2>1. /\ state' = "DISCONNECTED" /\ addrs' = {} /\ Queued(jobs, lost)
        /\ LastTells(jobs, Connection, addrs) => LastTells(jobs', FALSE, {})
    BY <1>1, <1>5, Disconnecting
  <2>2. lost \in SUBSET {"connect", "evDisconnected"}
    OBVIOUS
  <2>. QED
    BY <1>1, <1>5, <2>1, <2>2
<1>. QED
  BY <1>4, <1>5, Zenon DEF SearchOperators

\* The reader only adds jobs of handleNetworkChange().
LEMMA Reading ==
  ASSUME TypeOK, NEW d \in Domains, NEW r \in Networks \cup {NotRegistered},
         NEW answer \in BOOLEAN, HandleCreg(d, r, answer)
  PROVE  /\ \E names \in SUBSET {"networkChange"} :
              Queued(jobs, names) /\ (regs' # regs => names = {"networkChange"})
         /\ \A a : LastTells(jobs, Connection, a) => LastTells(jobs', Connection, a)
         /\ ~ misread' => ~ misread /\ regs' = [regs EXCEPT ![d] = r]
<1>1. /\ jobs \in Seq(Jobs)
      /\ Job("networkChange") \in Jobs /\ Job("networkChange").job = "networkChange"
  BY JobTypes DEF TypeOK, JobNames
<1>2. ~ misread' => ~ misread /\ regs' = [regs EXCEPT ![d] = r]
  BY Zenon DEF HandleCreg, Parsed
<1>3. (regs' = regs /\ jobs' = jobs) \/ jobs' = Append(jobs, Job("networkChange"))
  BY Zenon DEF HandleCreg
<1>4. CASE regs' = regs /\ jobs' = jobs
  BY <1>1, <1>2, <1>4, QueuedNothing, Zenon
<1>5. CASE jobs' = Append(jobs, Job("networkChange"))
  <2>1. Queued(jobs, {"networkChange"})
    BY <1>1, <1>5, QueuedOne
  <2>2. \A a : LastTells(jobs, Connection, a) => LastTells(jobs', Connection, a)
    BY <1>1, <1>5, LastPut DEF Events, Connection
  <2>. QED
    BY <1>2, <2>1, <2>2, Zenon
<1>. QED
  BY <1>3, <1>4, <1>5

-----------------------------------------------------------------------------
(* Type correctness, part by part. *)

ConnTypes ==
  /\ cfg \in Configs /\ ctx \in Contexts \cup {{}}
  /\ state \in {"DISCONNECTED", "CONNECTING", "CONNECTED"}
  /\ retry \in BOOLEAN /\ timers \in Nat /\ first \in BOOLEAN
  /\ addrs \subseteq Addresses
  /\ excuse \subseteq Causes

SvcTypes ==
  /\ iface \subseteq Addresses
  /\ dhcp \in [inited : BOOLEAN, ifaces : SUBSET {"_4"}] /\ leased \subseteq {"_4", "_6"}
  /\ delayed \in Nat
  /\ dropped \in BOOLEAN /\ late \in BOOLEAN

\* A job or an answer of the connection leaves the registration alone, but for the
\* request that any command forgets.
LEMMA LoopKeeps ==
  /\ LoopStep \/ NetworkChanges \/ ContextChanges \/ SearchOperators =>
       /\ UNCHANGED <<told, asked, regs, tech, netReg, misread, unheard, cfg>>
       /\ manual' \in {manual, "no"}
  /\ LoopStep => UNCHANGED <<net, changes>>
<1>1. NetworkChanges => /\ UNCHANGED <<told, asked, regs, tech, netReg, misread, unheard, cfg>>
                        /\ manual' = manual
  BY Zenon DEF NetworkChanges, NetChanges, dataVars
<1>2. ContextChanges \/ SearchOperators =>
        /\ UNCHANGED <<told, asked, regs, tech, netReg, misread, unheard, cfg, net>>
        /\ manual' \in {manual, "no"}
  BY Zenon DEF ContextChanges, SearchOperators, SendOther, modemVars
<1>3. ASSUME LoopStep
      PROVE  /\ UNCHANGED <<told, asked, regs, tech, netReg, misread, unheard, cfg, net, changes>>
             /\ manual' \in {manual, "no"}
  <2>1. CASE ConnectJob \/ DialJob \/ InitJob
    BY <2>1, Zenon DEF ConnectJob, DialJob, InitJob, QueryContext, SendOther, modemVars, dataVars
  <2>2. CASE DisconnectJob \/ QueryAnswered \/ ConnectDone \/ DialAnswered \/ CidAnswered
    BY <2>2, Zenon DEF DisconnectJob, QueryAnswered, ConnectDone, DialAnswered, CidAnswered, regVars, modemVars
  <2>3. CASE RetryTimer \/ TechJob \/ ConnectedJob \/ DelayedStart \/ DisconnectedJob
    BY <2>3, Zenon DEF RetryTimer, TechJob, ConnectedJob, DelayedStart, DisconnectedJob, regVars, modemVars
  <2>. QED
    BY <1>3, <2>1, <2>2, <2>3, Zenon DEF LoopStep
<1>. QED
  BY <1>1, <1>2, <1>3, Zenon

LEMMA DecidingType == TypeOK => Deciding \in Register
<1>. SUFFICES ASSUME TypeOK PROVE Deciding \in Register
  OBVIOUS
<1>1. \A d \in AllDomains : regs[d] \in Register
  BY DEF TypeOK, RegTypeOK, Register
<1>. QED
  BY <1>1 DEF Deciding, AllDomains

\* The Loop stops or goes on.
LEMMA StopTypes == TypeOK /\ LoopStep => stopped' \in BOOLEAN
<1>. SUFFICES ASSUME TypeOK, LoopStep PROVE stopped' \in BOOLEAN
  OBVIOUS
<1>1. stopped \in BOOLEAN
  BY Zenon DEF TypeOK, RegTypeOK
<1>2. CASE ConnectJob \/ DisconnectJob \/ QueryAnswered \/ ConnectDone \/ DialJob
  BY <1>1, <1>2, Zenon DEF ConnectJob, DisconnectJob, QueryAnswered, ConnectDone, DialJob
<1>3. CASE DialAnswered \/ RetryTimer \/ TechJob \/ InitJob \/ CidAnswered
  BY <1>1, <1>3, Zenon DEF DialAnswered, RetryTimer, TechJob, InitJob, CidAnswered
<1>4. StartDhcp => stopped' \in BOOLEAN
  BY DEF StartDhcp, DhcpCalls
<1>5. StopDhcp => stopped' \in BOOLEAN
  BY <1>1, Zenon DEF StopDhcp, DhcpCalls
<1>6. CASE ConnectedJob
  BY <1>1, <1>4, <1>6, Zenon DEF ConnectedJob
<1>7. CASE DelayedStart \/ DisconnectedJob
  BY <1>4, <1>5, <1>7, Zenon DEF DelayedStart, DisconnectedJob
<1>. QED
  BY <1>2, <1>3, <1>6, <1>7, Zenon DEF LoopStep

\* The variables of the registration keep their types.
LEMMA RegTypesStep == TypeOK /\ [Next]_vars => RegTypeOK'
<1>. SUFFICES ASSUME TypeOK, [Next]_vars PROVE RegTypeOK'
  OBVIOUS
<1>1. RegTypeOK
  BY DEF TypeOK
<1>2. /\ regs \in [AllDomains -> Register] /\ tech \in Techs /\ netReg \in Stats \ {"smsOnly"}
      /\ net \in Networks \cup {NotRegistered} /\ told \in [AllDomains -> Networks \cup {NotRegistered}]
      /\ asked \in Domains \cup {"no"} /\ manual \in AllDomains \cup {"no"}
      /\ changes \in 0 .. MaxChanges
      /\ stopped \in BOOLEAN /\ misread \in BOOLEAN /\ unheard \subseteq Domains
  BY <1>1, Zenon DEF RegTypeOK, Register
<1>3. ASSUME NEW d \in Domains, Report(d)
      PROVE  RegTypeOK'
  <2>1. Truth(net, d) \in Networks \cup {NotRegistered} /\ d \in AllDomains
    BY <1>2, ModemTypes, Zenon
  <2>2. /\ told' = [told EXCEPT ![d] = Truth(net, d)]
        /\ HandleCreg(d, Truth(net, d), FALSE) \/ Drop(d)
        /\ UNCHANGED <<net, asked, changes, tech, netReg, step, stopped>>
    BY <1>3, Zenon DEF Report
  <2>3. told' \in [AllDomains -> Networks \cup {NotRegistered}]
    BY <1>2, <2>1, <2>2
  <2>4. /\ manual' \in {"no", manual} /\ misread' \in BOOLEAN /\ regs' \in [AllDomains -> Register]
        /\ unheard' \subseteq Domains
    <3>1. CASE HandleCreg(d, Truth(net, d), FALSE)
      BY <2>1, <3>1, ReaderTypes
    <3>2. CASE Drop(d)
      BY <1>2, <3>2 DEF Drop
    <3>. QED
      BY <2>2, <3>1, <3>2
  <2>. QED
    BY <1>2, <2>2, <2>3, <2>4, Zenon DEF RegTypeOK, Register
<1>4. CASE AnswerReg
  <2>1. /\ asked \in Domains /\ HandleCreg(asked, told[asked], TRUE) /\ asked' = "no"
        /\ UNCHANGED <<net, told, changes, tech, netReg, step, stopped>>
    BY <1>2, <1>4, Zenon DEF AnswerReg
  <2>2. told[asked] \in Networks \cup {NotRegistered}
    BY <1>2, <2>1, ModemTypes
  <2>3. /\ manual' = "no" /\ misread' \in BOOLEAN /\ regs' \in [AllDomains -> Register]
        /\ unheard' \subseteq Domains
    BY <2>1, <2>2, ReaderTypes
  <2>. QED
    BY <1>2, <2>1, <2>3, Zenon DEF RegTypeOK, Register
<1>5. NetworkTech(Deciding) \in Techs /\ NetworkReg(Deciding) \in Stats \ {"smsOnly"}
  BY DecidingType, RegisterTypes
<1>6. CASE NetworkChange
  <2>1. /\ UNCHANGED <<modemVars, changes, regs, stopped, misread, unheard>>
        /\ manual' \in {"no", manual}
        /\ (UNCHANGED <<tech, netReg>>) \/ SetNetwork(NetworkTech(Deciding), NetworkReg(Deciding), Tail(jobs))
    BY <1>6, Zenon DEF NetworkChange, SendOther
  <2>2. tech' \in Techs /\ netReg' \in Stats \ {"smsOnly"}
    BY <1>2, <1>5, <2>1, Zenon DEF SetNetwork
  <2>. QED
    BY <1>2, <2>1, <2>2, Zenon DEF RegTypeOK, Register, modemVars
<1>7. CASE CopsAnswered
  <2>1. PICK t \in {"unknown", "gsm"} \cup {net.tech} : SetNetwork(t, step.reg, jobs)
    BY <1>7, Zenon DEF CopsAnswered
  <2>2. net \in Register /\ step.reg \in Stats \ {"smsOnly"}
    BY <1>2, ModemTypes DEF TypeOK, StepTypes, Steps
  <2>3. tech' \in Techs /\ netReg' \in Stats \ {"smsOnly"}
    BY <2>1, <2>2 DEF SetNetwork, Register, Techs
  <2>4. UNCHANGED <<modemVars, changes, manual, regs, stopped, misread, unheard>>
    BY <1>7, Zenon DEF CopsAnswered
  <2>. QED
    BY <1>2, <2>3, <2>4, Zenon DEF RegTypeOK, Register, modemVars
<1>8. CASE AskReg
  <2>1. /\ manual' = step.via /\ asked' \in {step.via, "no"} /\ (asked' = step.via => step.via \in Domains \cup {"no"})
        /\ UNCHANGED <<net, told, changes, regs, tech, netReg, stopped, misread, unheard>>
        /\ step.op = "ask" /\ step.via # "signal"
    BY <1>8, Zenon DEF AskReg
  <2>2. step.via \in AllDomains
    BY <2>1 DEF TypeOK, StepTypes
  <2>. QED
    BY <1>2, <2>1, <2>2, Zenon DEF RegTypeOK, Register
<1>9. CASE AskDone \/ AskSignal
  <2>1. /\ UNCHANGED <<net, told, asked, changes, regs, tech, netReg, stopped, misread, unheard>>
        /\ manual' \in {"no", manual}
    BY <1>9, Zenon DEF AskDone, AskSignal, SendOther, regVars, modemVars
  <2>. QED
    BY <1>2, <2>1, Zenon DEF RegTypeOK, Register
<1>10. CASE LoopStep
  <2>1. stopped' \in BOOLEAN
    BY <1>10, StopTypes
  <2>2. net' = net /\ changes' = changes
    BY <1>10, LoopKeeps, Zenon
  <2>3. UNCHANGED <<told, asked, regs, tech, netReg, misread, unheard>> /\ manual' \in {manual, "no"}
    BY <1>10, LoopKeeps, Zenon
  <2>. QED
    BY <1>2, <2>1, <2>2, <2>3, Zenon DEF RegTypeOK, Register
<1>11. CASE ContextChanges \/ NetworkChanges \/ SearchOperators
  <2>1. /\ changes < MaxChanges /\ changes' = changes + 1
        /\ net' \in Networks \cup {NotRegistered} /\ stopped' = stopped
    BY <1>2, <1>11, Zenon DEF ContextChanges, NetworkChanges, NetChanges, SearchOperators, loopVars, modemVars
  <2>2. changes' \in 0 .. MaxChanges
    BY <1>2, <2>1, RegistrationAssumption
  <2>3. UNCHANGED <<told, asked, regs, tech, netReg, misread, unheard>> /\ manual' \in {manual, "no"}
    BY <1>11, LoopKeeps, Zenon
  <2>. QED
    BY <1>2, <2>1, <2>2, <2>3, Zenon DEF RegTypeOK, Register
<1>12. CASE UNCHANGED vars
  <2>1. UNCHANGED <<net, told, asked, changes, manual, regs, tech, netReg, misread, unheard, stopped>>
    BY <1>12, Zenon DEF vars, regVars, loopVars, modemVars
  <2>. QED
    BY <1>2, <2>1, Zenon DEF RegTypeOK, Register
<1>. QED
  BY <1>3, <1>4, <1>6, <1>7, <1>8, <1>9, <1>10, <1>11, <1>12, Zenon
     DEF Next, RegistrationStep, RegistrationReader, RegistrationLoop

\* The queue.
LEMMA JobTypesStep == TypeOK /\ [Next]_vars => jobs' \in Seq(Jobs)
<1>. SUFFICES ASSUME TypeOK, [Next]_vars PROVE jobs' \in Seq(Jobs)
  OBVIOUS
<1>1. /\ jobs \in Seq(Jobs) /\ retry \in BOOLEAN
      /\ net \in Networks \cup {NotRegistered} /\ told \in [AllDomains -> Networks \cup {NotRegistered}]
      /\ asked \in Domains \cup {"no"}
  BY Zenon DEF TypeOK, RegTypeOK
<1>2. CASE RegistrationReader
  <2>1. ASSUME NEW d \in Domains, Report(d)
        PROVE  jobs' \in Seq(Jobs)
    <3>1. /\ Truth(net, d) \in Networks \cup {NotRegistered}
          /\ HandleCreg(d, Truth(net, d), FALSE) \/ jobs' = jobs
      BY <1>1, <2>1, ModemTypes, Zenon DEF Report, Drop
    <3>. QED
      BY <1>1, <3>1, ReaderTypes
  <2>2. ASSUME AnswerReg
        PROVE  jobs' \in Seq(Jobs)
    <3>1. asked \in Domains /\ HandleCreg(asked, told[asked], TRUE)
      BY <1>1, <2>2, Zenon DEF AnswerReg
    <3>2. told[asked] \in Networks \cup {NotRegistered}
      BY <1>1, <3>1, ModemTypes
    <3>. QED
      BY <3>1, <3>2, ReaderTypes
  <2>. QED
    BY <1>2, <2>1, <2>2, Zenon DEF RegistrationReader
<1>3. CASE NetworkChange
  <2>1. Tail(jobs) \in Seq(Jobs)
    BY <1>3, JobTaken, Zenon DEF NetworkChange
  <2>2. jobs' = Tail(jobs) \/ SetNetwork(NetworkTech(Deciding), NetworkReg(Deciding), Tail(jobs))
    BY <1>3, Zenon DEF NetworkChange
  <2>. QED
    BY <2>1, <2>2, Networking, Zenon DEF Queued
<1>4. CASE CopsAnswered
  BY <1>1, <1>4, Networking, Zenon DEF CopsAnswered, Queued
<1>5. CASE AskReg \/ AskDone \/ AskSignal \/ NetworkChanges \/ QueryAnswered \/ CidAnswered \/ DelayedStart
  BY <1>1, <1>5, Zenon DEF AskReg, AskDone, AskSignal, NetworkChanges, NetChanges, loopVars,
     QueryAnswered, CidAnswered, DelayedStart
<1>6. CASE ConnectJob \/ DialJob \/ InitJob \/ ConnectedJob
  <2>1. jobs' = Tail(jobs) /\ \E j : LoopReady(j)
    BY <1>6, Zenon DEF ConnectJob, DialJob, InitJob, ConnectedJob
  <2>. QED
    BY <2>1, JobTaken, Zenon
<1>7. CASE DisconnectJob
  BY <1>7, JobTaken, Disconnecting, Zenon DEF DisconnectJob, Queued
<1>8. CASE TechJob \/ DisconnectedJob
  <2>1. StartDataConnection(retry, Tail(jobs)) /\ \E j : LoopReady(j)
    BY <1>8, Zenon DEF TechJob, DisconnectedJob
  <2>2. Tail(jobs) \in Seq(Jobs)
    BY <2>1, JobTaken, Zenon
  <2>. QED
    BY <1>1, <2>1, <2>2, Starts, Zenon DEF Queued
<1>9. CASE RetryTimer
  <2>1. StartDataConnection(FALSE, jobs)
    BY <1>9, Zenon DEF RetryTimer
  <2>. QED
    BY <1>1, <2>1, Starts, Zenon DEF Queued
<1>10. CASE ConnectDone
  <2>1. Connected(step.got, jobs) /\ step.got \in SUBSET Addresses
    BY <1>10 DEF ConnectDone, TypeOK, StepTypes, Steps
  <2>2. CASE step.got = {}
    BY <1>1, <2>1, <2>2, Disconnecting, Zenon DEF Connected, Queued
  <2>3. CASE step.got # {}
    BY <1>1, <2>1, <2>3, Connecting, Zenon DEF Queued
  <2>. QED
    BY <2>2, <2>3
<1>11. CASE DialAnswered
  <2>1. (\E c : jobs' = HandleCgev(c)) \/ jobs' = jobs \/ HandleDisconnect(jobs)
    BY <1>11, Zenon DEF DialAnswered
  <2>. QED
    BY <1>1, <2>1, Reporting, Disconnecting, Zenon DEF Queued
<1>12. CASE ContextChanges
  BY <1>1, <1>12, Reporting, Zenon DEF ContextChanges, Queued
<1>13. CASE UNCHANGED vars
  BY <1>1, <1>13, Zenon DEF vars, loopVars
<1>14. CASE SearchOperators
  BY <1>14, Searching, Zenon DEF Queued
<1>. QED
  BY <1>2, <1>3, <1>4, <1>5, <1>6, <1>7, <1>8, <1>9, <1>10, <1>11, <1>12, <1>13, <1>14, Zenon
     DEF Next, RegistrationStep, RegistrationLoop, LoopStep

\* What the Loop waits for.
LEMMA StepTypesStep == TypeOK /\ [Next]_vars => StepTypes'
<1>. SUFFICES ASSUME TypeOK, [Next]_vars PROVE StepTypes'
  OBVIOUS
<1>1. StepTypes
  BY DEF TypeOK
<1>2. CASE step' = step
  BY <1>1, <1>2 DEF StepTypes
<1>3. ASSUME NEW o \in {"idle", "cops", "cid", "dial"}, NEW v \in {"none", "detect"}, step' = Step(o, v)
      PROVE  StepTypes'
  BY <1>3, StepKinds DEF StepTypes
<1>4. ASSUME NEW v \in AllDomains \cup {"signal"}, step' = Step("ask", v)
      PROVE  StepTypes'
  BY <1>4, StepKinds DEF StepTypes
<1>5. ASSUME NEW v \in {"event", "detect", "first", "dial"}, step' = Step("query", v)
      PROVE  StepTypes'
  BY <1>5, StepKinds DEF StepTypes
<1>6. step' = Idle => StepTypes'
  BY <1>3 DEF Idle
<1>7. CASE RegistrationReader
  BY <1>2, <1>7, Zenon DEF RegistrationReader, Report, AnswerReg
<1>8. CASE NetworkChange
  <2>1. step' = step \/ step' = [Step("cops", "none") EXCEPT !.reg = NetworkReg(Deciding)]
    BY <1>8, Zenon DEF NetworkChange
  <2>2. [Step("cops", "none") EXCEPT !.reg = NetworkReg(Deciding)] \in Steps
    BY StepKinds, DecidingType, RegisterTypes
  <2>3. [Step("cops", "none") EXCEPT !.reg = NetworkReg(Deciding)].op = "cops"
    BY DEF Step
  <2>. QED
    BY <1>2, <2>1, <2>2, <2>3 DEF StepTypes
<1>9. CASE CopsAnswered \/ AskSignal
  BY <1>6, <1>9, Zenon DEF CopsAnswered, AskSignal
<1>10. CASE AskReg
  <2>1. step.via \in AllDomains
    BY <1>1, <1>10 DEF AskReg, StepTypes
  <2>2. CASE step' = Step("ask", AskOrder[step.via])
    BY <1>4, <2>1, <2>2, StepKinds
  <2>3. CASE step.via \in Domains /\ step' = Step("asked", step.via)
    BY <2>1, <2>3, StepKinds DEF StepTypes
  <2>. QED
    BY <1>10, <2>2, <2>3, Zenon DEF AskReg
<1>11. CASE AskDone
  <2>1. step.via \in AllDomains /\ step' = Step("ask", AskOrder[step.via])
    BY <1>1, <1>11, ModemTypes DEF AskDone, StepTypes
  <2>. QED
    BY <1>4, <2>1, StepKinds
<1>12. CASE ConnectJob
  BY <1>5, <1>12 DEF ConnectJob, QueryContext
<1>13. CASE DialJob
  BY <1>3, <1>5, <1>13 DEF DialJob, QueryContext
<1>14. CASE InitJob
  <2>1. step' = Step("cid", "detect") \/ step' = Step("ask", "CREG")
    BY <1>14, Zenon DEF InitJob
  <2>. QED
    BY <1>3, <1>4, <2>1 DEF AllDomains
<1>15. CASE CidAnswered
  <2>1. step' = Step("query", "detect") \/ step' = Step("ask", "CREG")
    BY <1>15, Zenon DEF CidAnswered
  <2>. QED
    BY <1>4, <1>5, <2>1 DEF AllDomains
<1>16. CASE QueryAnswered
  <2>1. step.op = "query" /\ \E got \in {ctx, {}} : step' = [step EXCEPT !.op = "got", !.got = got]
    BY <1>16, Zenon DEF QueryAnswered
  <2>2. \A c \in Contexts \cup {{}} : c \in SUBSET Addresses
    BY DEF Addresses
  <2>3. ctx \in SUBSET Addresses
    BY <2>2 DEF TypeOK
  <2>. QED
    BY <1>1, <2>1, <2>3 DEF StepTypes, Steps
<1>17. CASE ConnectDone
  <2>1. step' = Step("ask", "CREG") \/ step' = Step("dial", "none") \/ step' = Idle
    BY <1>17, Zenon DEF ConnectDone
  <2>. QED
    BY <1>3, <1>4, <1>6, <2>1 DEF AllDomains
<1>18. CASE DialAnswered
  <2>1. step' = Step("query", "dial") \/ step' = Idle
    BY <1>18, Zenon DEF DialAnswered
  <2>. QED
    BY <1>5, <1>6, <2>1
<1>19. CASE DisconnectJob \/ RetryTimer \/ TechJob \/ ConnectedJob \/ DelayedStart \/ DisconnectedJob
  BY <1>2, <1>19, Zenon DEF DisconnectJob, RetryTimer, TechJob, ConnectedJob, DelayedStart, DisconnectedJob
<1>20. CASE ContextChanges \/ NetworkChanges \/ SearchOperators \/ UNCHANGED vars
  BY <1>2, <1>20, Zenon DEF ContextChanges, NetworkChanges, NetChanges, SearchOperators, vars, loopVars
<1>. QED
  BY <1>7, <1>8, <1>9, <1>10, <1>11, <1>12, <1>13, <1>14, <1>15, <1>16, <1>17, <1>18, <1>19, <1>20, Zenon
     DEF Next, RegistrationStep, RegistrationLoop, LoopStep

\* Excuses are only added, and are causes.
LEMMA ExcuseStep ==
  TypeOK /\ [Next]_vars => excuse \subseteq excuse' /\ excuse' \subseteq Causes
<1>. SUFFICES ASSUME TypeOK, [Next]_vars
     PROVE  excuse \subseteq excuse' /\ excuse' \subseteq Causes
  OBVIOUS
<1>1. excuse \subseteq Causes
  BY DEF TypeOK
<1>2. excuse' = excuse => excuse \subseteq excuse' /\ excuse' \subseteq Causes
  BY <1>1
<1>3. ASSUME NEW c \in Causes, NEW cond, Blame(c, cond)
      PROVE  excuse \subseteq excuse' /\ excuse' \subseteq Causes
  BY <1>1, <1>3 DEF Blame
<1>4. CASE RegistrationStep
  <2>. DEFINE a == IF CanDial' /\ ~ CanDial /\ tech' = tech THEN {"unnoticed"} ELSE {}
              b == IF step.op = "ask" /\ step.via \in Domains /\ asked' = "no" THEN {"unasked"} ELSE {}
  <2>1. excuse' = excuse \cup a \cup b
    BY <1>4, Zenon DEF RegistrationStep
  <2>2. a \subseteq Causes /\ b \subseteq Causes
    BY DEF Causes
  <2>. HIDE DEF a, b
  <2>. QED
    BY <1>1, <2>1, <2>2
<1>5. CASE DisconnectJob \/ QueryAnswered \/ ConnectDone \/ CidAnswered \/ DialAnswered \/ ContextChanges
           \/ SearchOperators
  <2>1. excuse' = excuse \/ \E c \in Causes : \E cond : Blame(c, cond)
    BY <1>5, Zenon
       DEF DisconnectJob, QueryAnswered, ConnectDone, CidAnswered, DialAnswered, ContextChanges,
           SearchOperators, Causes
  <2>. QED
    BY <1>2, <1>3, <2>1
<1>6. CASE ConnectJob \/ DialJob \/ InitJob \/ NetworkChanges \/ UNCHANGED vars
  BY <1>2, <1>6, Zenon DEF ConnectJob, DialJob, InitJob, NetworkChanges, dataVars, vars
<1>7. CASE RetryTimer \/ TechJob \/ ConnectedJob \/ DelayedStart \/ DisconnectedJob
  BY <1>2, <1>7, Zenon DEF RetryTimer, TechJob, ConnectedJob, DelayedStart, DisconnectedJob
<1>. QED
  BY <1>4, <1>5, <1>6, <1>7, Zenon DEF Next, LoopStep

\* The connection.
LEMMA ConnTypesStep == TypeOK /\ [Next]_vars => ConnTypes'
<1>. SUFFICES ASSUME TypeOK, [Next]_vars PROVE ConnTypes'
  OBVIOUS
<1>1. /\ cfg \in Configs /\ ctx \in Contexts \cup {{}}
      /\ state \in {"DISCONNECTED", "CONNECTING", "CONNECTED"}
      /\ retry \in BOOLEAN /\ timers \in Nat /\ first \in BOOLEAN
      /\ addrs \subseteq Addresses /\ jobs \in Seq(Jobs)
  BY Zenon DEF TypeOK
<1>2. excuse' \subseteq Causes
  BY ExcuseStep
<1>3. cfg' = cfg
  BY LoopKeeps, Zenon DEF Next, RegistrationStep, vars, dataVars
<1>4. ctx' \in Contexts \cup {{}}
  <2>1. CASE LoopStep
    <3>1. ctx' = ctx \/ ctx' \in Contexts
      BY <2>1, Zenon DEF LoopStep, ConnectJob, DisconnectJob, QueryAnswered, ConnectDone, DialJob,
         DialAnswered, RetryTimer, TechJob, InitJob, CidAnswered, ConnectedJob, DelayedStart,
         DisconnectedJob, dataVars
    <3>. QED
      BY <1>1, <3>1
  <2>2. CASE RegistrationStep \/ NetworkChanges \/ UNCHANGED vars
    BY <1>1, <2>2, Zenon DEF RegistrationStep, NetworkChanges, dataVars, vars
  <2>3. CASE ContextChanges
    BY <2>3, Zenon DEF ContextChanges
  <2>4. CASE SearchOperators
    BY <1>1, <2>4 DEF SearchOperators
  <2>. QED
    BY <2>1, <2>2, <2>3, <2>4, Zenon DEF Next
<1>5. CASE UNCHANGED connVars
  BY <1>1, <1>2, <1>3, <1>4, <1>5, Zenon DEF ConnTypes, connVars, dialVars
<1>6. CASE RegistrationStep \/ NetworkChanges \/ ContextChanges \/ UNCHANGED vars
  BY <1>5, <1>6, Zenon DEF RegistrationStep, NetworkChanges, ContextChanges, vars, dataVars, connVars, dialVars
<1>7. CASE ConnectJob \/ QueryAnswered \/ DialJob \/ InitJob \/ CidAnswered \/ ConnectedJob \/ DelayedStart
  BY <1>5, <1>7, Zenon DEF ConnectJob, QueryAnswered, DialJob, InitJob, CidAnswered, ConnectedJob,
     DelayedStart, dataVars, connVars, dialVars
<1>8. CASE DisconnectJob
  <2>1. HandleDisconnect(Tail(jobs)) /\ UNCHANGED <<retry, timers, first>>
    BY <1>8, Zenon DEF DisconnectJob, dialVars
  <2>2. state' = "DISCONNECTED" /\ addrs' = {}
    BY <2>1 DEF HandleDisconnect
  <2>. QED
    BY <1>1, <1>2, <1>3, <1>4, <2>1, <2>2 DEF ConnTypes
<1>9. CASE ConnectDone
  <2>1. /\ Connected(step.got, jobs) /\ UNCHANGED <<retry, timers>>
        /\ first' \in {FALSE, first}
    BY <1>9, Zenon DEF ConnectDone, dialVars
  <2>2. step.got \in SUBSET Addresses
    BY DEF TypeOK, StepTypes, Steps
  <2>3. state' \in {"DISCONNECTED", "CONNECTED"} /\ addrs' \subseteq Addresses
    <3>1. CASE step.got = {}
      BY <2>1, <3>1 DEF Connected, HandleDisconnect
    <3>2. CASE step.got # {}
      BY <1>1, <2>1, <2>2, <3>2, Connecting
    <3>. QED
      BY <3>1, <3>2
  <2>4. first' \in BOOLEAN
    BY <1>1, <2>1, Zenon
  <2>. QED
    BY <1>1, <1>2, <1>3, <1>4, <2>1, <2>3, <2>4 DEF ConnTypes
<1>10. CASE DialAnswered
  <2>1. /\ \/ UNCHANGED <<state, addrs, retry, timers>>
           \/ HandleDisconnect(jobs) /\ retry' = TRUE /\ timers' = timers + 1
        /\ first' = first
    BY <1>10, Zenon DEF DialAnswered, dialVars
  <2>2. HandleDisconnect(jobs) => state' = "DISCONNECTED" /\ addrs' = {}
    BY DEF HandleDisconnect
  <2>3. state' \in {"DISCONNECTED", "CONNECTING", "CONNECTED"} /\ addrs' \subseteq Addresses
    BY <1>1, <2>1, <2>2
  <2>4. retry' \in BOOLEAN /\ first' \in BOOLEAN
    BY <1>1, <2>1, Zenon
  <2>5. timers' \in Nat
    BY <1>1, <2>1
  <2>. QED
    BY <1>2, <1>3, <1>1, <1>4, <2>3, <2>4, <2>5, Zenon DEF ConnTypes
<1>11. CASE RetryTimer \/ TechJob \/ DisconnectedJob
  <2>1. /\ \E armed, rest : StartDataConnection(armed, rest)
        /\ addrs' = addrs /\ first' = first /\ (retry' = FALSE \/ retry' = retry)
        /\ timers' = timers \/ (timers > 0 /\ timers' = timers - 1)
    BY <1>11, Zenon DEF RetryTimer, TechJob, DisconnectedJob, dialVars
  <2>2. state' \in {"CONNECTING", state}
    BY <2>1, Zenon DEF StartDataConnection
  <2>3. state' \in {"DISCONNECTED", "CONNECTING", "CONNECTED"}
    BY <1>1, <2>2
  <2>4. retry' \in BOOLEAN
    BY <1>1, <2>1, Zenon
  <2>5. timers' \in Nat
    BY <1>1, <2>1
  <2>. QED
    BY <1>1, <1>2, <1>3, <1>4, <2>1, <2>3, <2>4, <2>5, Zenon DEF ConnTypes
<1>12. CASE SearchOperators
  <2>1. state' = "DISCONNECTED" /\ addrs' = {} /\ UNCHANGED <<retry, timers, first>>
    BY <1>12, Searching
  <2>. QED
    BY <1>1, <1>2, <1>3, <1>4, <2>1 DEF ConnTypes
<1>. QED
  BY <1>6, <1>7, <1>8, <1>9, <1>10, <1>11, <1>12, Zenon DEF Next, LoopStep

\* The steps that are none of the service's.
LEMMA OthersServe ==
  Next /\ ~ ConnectedJob /\ ~ DelayedStart /\ ~ DisconnectedJob =>
    UNCHANGED svcVars /\ stopped' = stopped
<1>1. RegistrationStep => UNCHANGED svcVars /\ stopped' = stopped
  BY Zenon DEF RegistrationStep, RegistrationReader, RegistrationLoop, Report, AnswerReg,
     NetworkChange, CopsAnswered, AskReg, AskDone, AskSignal
<1>2. NetworkChanges \/ ContextChanges \/ SearchOperators => UNCHANGED svcVars /\ stopped' = stopped
  BY Zenon DEF NetworkChanges, NetChanges, ContextChanges, SearchOperators, dataVars, svcVars, loopVars
<1>3. ConnectJob \/ DialJob \/ InitJob => UNCHANGED svcVars /\ stopped' = stopped
  BY Zenon DEF ConnectJob, DialJob, InitJob, dataVars, svcVars
<1>4. QueryAnswered \/ CidAnswered \/ DisconnectJob \/ ConnectDone \/ DialAnswered \/ RetryTimer \/ TechJob =>
        UNCHANGED svcVars /\ stopped' = stopped
  BY Zenon DEF QueryAnswered, CidAnswered, DisconnectJob, ConnectDone, DialAnswered, RetryTimer, TechJob
<1>. QED
  BY <1>1, <1>2, <1>3, <1>4, Zenon DEF Next, LoopStep

\* What the service holds keeps its type.
LEMMA SvcTypesStep == TypeOK /\ [Next]_vars => SvcTypes'
<1>. SUFFICES ASSUME TypeOK, [Next]_vars PROVE SvcTypes'
  OBVIOUS
<1>1. /\ iface \subseteq Addresses
      /\ dhcp \in [inited : BOOLEAN, ifaces : SUBSET {"_4"}] /\ leased \subseteq {"_4", "_6"}
      /\ delayed \in Nat /\ dropped \in BOOLEAN /\ late \in BOOLEAN
  BY Zenon DEF TypeOK
<1>2. CASE UNCHANGED svcVars
  BY <1>1, <1>2, Zenon DEF SvcTypes, svcVars
<1>3. CASE UNCHANGED vars
  BY <1>2, <1>3, Zenon DEF vars, dataVars, svcVars
<1>4. Wanted \subseteq {"_4", "_6"}
  BY DEF Wanted
<1>5. StartDhcp => /\ dhcp' \in [inited : BOOLEAN, ifaces : SUBSET {"_4"}]
                   /\ leased' \subseteq {"_4", "_6"}
  <2>. SUFFICES ASSUME StartDhcp
                PROVE  /\ dhcp' \in [inited : BOOLEAN, ifaces : SUBSET {"_4"}]
                       /\ leased' \subseteq {"_4", "_6"}
    OBVIOUS
  <2>1. dhcp' = dhcp \/ dhcp' = [inited |-> TRUE, ifaces |-> {"_4"}]
    BY Zenon DEF StartDhcp, DhcpCalls
  <2>2. leased' = leased \/ leased' = leased \cup Wanted \/ leased' = leased \cup {"_4"}
    BY Zenon DEF StartDhcp
  <2>3. [inited |-> TRUE, ifaces |-> {"_4"}] \in [inited : BOOLEAN, ifaces : SUBSET {"_4"}]
    OBVIOUS
  <2>. QED
    BY <1>1, <1>4, <2>1, <2>2, <2>3
<1>6. StopDhcp => /\ dhcp' \in [inited : BOOLEAN, ifaces : SUBSET {"_4"}]
                  /\ leased' \subseteq {"_4", "_6"}
  BY <1>1 DEF StopDhcp, DhcpCalls
<1>7. CASE ConnectedJob
  <2>1. Head(jobs).got \subseteq Addresses
    BY <1>7, JobTaken DEF ConnectedJob, Jobs
  <2>2. /\ iface' \in {iface, Head(jobs).got} /\ delayed' \in {delayed, delayed + 1}
        /\ (UNCHANGED <<dhcp, leased>>) \/ StartDhcp
        /\ dropped' = dropped /\ late' = late
    <3>1. /\ iface' = iface \/ iface' = Head(jobs).got
          /\ delayed' = delayed \/ delayed' = delayed + 1
          /\ (UNCHANGED <<dhcp, leased>>) \/ StartDhcp
      BY <1>7, Zenon DEF ConnectedJob
    <3>2. dropped' = dropped /\ late' = late
      BY <1>7, Zenon DEF ConnectedJob
    <3>. QED
      BY <3>1, <3>2, Zenon
  <2>3. iface' \subseteq Addresses /\ delayed' \in Nat
    BY <1>1, <2>1, <2>2
  <2>4. dhcp' \in [inited : BOOLEAN, ifaces : SUBSET {"_4"}] /\ leased' \subseteq {"_4", "_6"}
    BY <1>1, <1>5, <2>2, Zenon
  <2>. QED
    BY <1>1, <2>2, <2>3, <2>4, Zenon DEF SvcTypes
<1>8. CASE DelayedStart
  <2>1. delayed > 0 /\ delayed' = delayed - 1
    BY <1>8, Zenon DEF DelayedStart
  <2>2. /\ StartDhcp /\ iface' = iface /\ dropped' = dropped /\ late' \in BOOLEAN
    BY <1>1, <1>8, Zenon DEF DelayedStart
  <2>3. delayed' \in Nat
    BY <1>1, <2>1
  <2>. QED
    BY <1>1, <1>5, <2>2, <2>3, Zenon DEF SvcTypes
<1>9. CASE DisconnectedJob
  <2>1. /\ iface' = iface \/ iface' = {}
        /\ (UNCHANGED <<dhcp, leased>>) \/ StopDhcp
        /\ dropped' = TRUE /\ late' = late /\ delayed' = delayed
    BY <1>9, Zenon DEF DisconnectedJob
  <2>2. iface' \subseteq Addresses
    BY <1>1, <2>1
  <2>3. dhcp' \in [inited : BOOLEAN, ifaces : SUBSET {"_4"}] /\ leased' \subseteq {"_4", "_6"}
    BY <1>1, <1>6, <2>1, Zenon
  <2>. QED
    BY <1>1, <2>1, <2>2, <2>3, Zenon DEF SvcTypes
<1>. QED
  BY <1>2, <1>3, <1>7, <1>8, <1>9, OthersServe, Zenon

\* All together.
LEMMA TypeStep == TypeOK /\ [Next]_vars => TypeOK'
<1>. SUFFICES ASSUME TypeOK, [Next]_vars PROVE TypeOK'
  OBVIOUS
<1>1. RegTypeOK' /\ (jobs' \in Seq(Jobs)) /\ StepTypes' /\ ConnTypes' /\ SvcTypes'
  BY RegTypesStep, JobTypesStep, StepTypesStep, ConnTypesStep, SvcTypesStep
<1>. QED
  BY <1>1, Zenon DEF TypeOK, ConnTypes, SvcTypes

\* The variables of the registration and the data connection have their types.
THEOREM ConnectionTypes == Spec => []TypeOK
<1>1. Init => TypeOK
  BY InitTypes
<1>2. TypeOK /\ [Next]_vars => TypeOK'
  BY TypeStep
<1>. QED
  BY <1>1, <1>2, PTL DEF Spec

-----------------------------------------------------------------------------
(* What the steps of the registration do to the queue. *)

\* A line of the registration queues a job if it changes a register, and no more.
LEMMA ReaderDoes ==
  ASSUME TypeOK, RegistrationReader
  PROVE  /\ \E names \in SUBSET {"networkChange"} :
              Queued(jobs, names) /\ (regs' # regs => names = {"networkChange"})
         /\ \A a : LastTells(jobs, Connection, a) => LastTells(jobs', Connection, a)
         /\ UNCHANGED <<net, changes, tech, netReg, step, stopped>>
         /\ asked' \in {asked, "no"}
<1>1. /\ net \in Networks \cup {NotRegistered} /\ told \in [AllDomains -> Networks \cup {NotRegistered}]
      /\ asked \in Domains \cup {"no"}
  BY Zenon DEF TypeOK, RegTypeOK
<1>2. ASSUME NEW d \in Domains, Report(d)
      PROVE  /\ Truth(net, d) \in Networks \cup {NotRegistered}
             /\ HandleCreg(d, Truth(net, d), FALSE) \/ (UNCHANGED <<regs, jobs>>)
             /\ UNCHANGED <<net, changes, tech, netReg, step, stopped>>
             /\ asked' \in {asked, "no"}
  BY <1>1, <1>2, ModemTypes, Zenon DEF Report, Drop
<1>3. ASSUME AnswerReg
      PROVE  /\ asked \in Domains /\ HandleCreg(asked, told[asked], TRUE)
             /\ told[asked] \in Networks \cup {NotRegistered}
             /\ UNCHANGED <<net, changes, tech, netReg, step, stopped>>
             /\ asked' \in {asked, "no"}
  <2>1. asked \in Domains /\ asked' = "no" /\ HandleCreg(asked, told[asked], TRUE)
    BY <1>1, <1>3, Zenon DEF AnswerReg
  <2>2. told[asked] \in Networks \cup {NotRegistered}
    BY <1>1, <2>1, ModemTypes
  <2>3. UNCHANGED <<net, changes, tech, netReg, step, stopped>>
    BY <1>3, Zenon DEF AnswerReg
  <2>. QED
    BY <2>1, <2>2, <2>3, Zenon
<1>4. CASE \E d \in Domains : Report(d)
  <2>1. PICK d \in Domains : Report(d)
    BY <1>4
  <2>2. UNCHANGED jobs => Queued(jobs, {})
    BY QueuedNothing, Zenon DEF TypeOK
  <2>. QED
    BY <1>2, <2>1, <2>2, Reading, Zenon
<1>5. CASE AnswerReg
  BY <1>3, <1>5, Reading, Zenon
<1>. QED
  BY <1>4, <1>5, Zenon DEF RegistrationReader

\* handleNetworkChange() asks the modem for the technology, or writes what decides.
LEMMA ChangeDoes ==
  ASSUME TypeOK, NetworkChange
  PROVE  /\ LoopReady("networkChange") /\ Tail(jobs) \in Seq(Jobs)
         /\ \A a : LastTells(Tail(jobs), Connection, a) => LastTells(jobs', Connection, a)
         /\ \/ /\ NetworkTech(Deciding) = "unknown" /\ Queued(Tail(jobs), {})
               /\ step'.op = "cops" /\ step'.reg = NetworkReg(Deciding)
               /\ UNCHANGED <<tech, netReg>>
            \/ /\ step' = step
               /\ tech' = NetworkTech(Deciding) /\ netReg' = NetworkReg(Deciding)
               /\ Queued(Tail(jobs), IF tech' # tech THEN {"evTech"} ELSE {})
<1>1. LoopReady("networkChange") /\ Tail(jobs) \in Seq(Jobs)
  BY JobTaken, Zenon DEF NetworkChange
<1>2. CASE NetworkTech(Deciding) = "unknown"
  <2>1. /\ jobs' = Tail(jobs) /\ step' = [Step("cops", "none") EXCEPT !.reg = NetworkReg(Deciding)]
        /\ UNCHANGED <<tech, netReg>>
    BY <1>2, Zenon DEF NetworkChange
  <2>2. step'.op = "cops" /\ step'.reg = NetworkReg(Deciding)
    BY <2>1 DEF Step
  <2>3. Queued(Tail(jobs), {})
    BY <1>1, <2>1, QueuedNothing
  <2>. QED
    BY <1>1, <1>2, <2>1, <2>2, <2>3, Zenon
<1>3. CASE NetworkTech(Deciding) # "unknown"
  <2>1. step' = step /\ SetNetwork(NetworkTech(Deciding), NetworkReg(Deciding), Tail(jobs))
    BY <1>3, Zenon DEF NetworkChange
  <2>. QED
    BY <1>1, <2>1, Networking, Zenon
<1>. QED
  BY <1>2, <1>3

\* After AT+COPS? the registration that was read before it is written.
LEMMA CopsDoes ==
  ASSUME TypeOK, CopsAnswered
  PROVE  /\ step.op = "cops" /\ step' = Idle /\ netReg' = step.reg
         /\ \A a : LastTells(jobs, Connection, a) => LastTells(jobs', Connection, a)
         /\ Queued(jobs, IF tech' # tech THEN {"evTech"} ELSE {})
<1>1. /\ step.op = "cops" /\ step' = Idle
      /\ \E t : SetNetwork(t, step.reg, jobs)
  BY Zenon DEF CopsAnswered
<1>2. jobs \in Seq(Jobs)
  BY DEF TypeOK
<1>. QED
  BY <1>1, <1>2, Networking, Zenon

-----------------------------------------------------------------------------
(* What the service has been told. *)

\* The registration, the queue and the connection before and after a step that is
\* none of the service's.
ToldOf ==
  /\ LastTells(jobs', Connection', addrs')
  /\ NoEvents(jobs') => NoEvents(jobs) /\ (Connection' <=> Connection) /\ (Connection => addrs' = addrs)

\* Who changes neither queue nor connection leaves what is told as it is.
LEMMA SameTell ==
  ASSUME TypeOK, Told, UNCHANGED <<jobs, state, addrs>>
  PROVE  ToldOf
BY Zenon DEF Told, ToldOf, Connection, LastTells, NoEvents, Has

\* The first job is taken and it is no event.
LEMMA TakenTell ==
  ASSUME TypeOK, Told, NEW j, LoopReady(j), j \notin Events
  PROVE  /\ Tail(jobs) \in Seq(Jobs) /\ LastTells(Tail(jobs), Connection, addrs)
         /\ NoEvents(Tail(jobs)) => NoEvents(jobs)
<1>1. jobs \in Seq(Jobs) /\ jobs # <<>> /\ Tail(jobs) \in Seq(Jobs)
  BY JobTaken, Zenon DEF TypeOK
<1>2. LastTells(Tail(jobs), Connection, addrs)
  BY <1>1, LastTaken DEF Told, Connection
<1>3. NoEvents(Tail(jobs)) => NoEvents(jobs)
  BY JobTaken, Zenon DEF NoEvents, Events
<1>. QED
  BY <1>1, <1>2, <1>3

\* The steps of all but the service's handlers tell what they change.
LEMMA OthersTell ==
  ASSUME TypeOK, Told, Next, ~ ConnectedJob, ~ DelayedStart, ~ DisconnectedJob
  PROVE  ToldOf
<1>1. /\ jobs \in Seq(Jobs) /\ retry \in BOOLEAN
      /\ net \in Networks \cup {NotRegistered} /\ told \in [AllDomains -> Networks \cup {NotRegistered}]
      /\ asked \in Domains \cup {"no"}
      /\ LastTells(jobs, Connection, addrs)
  BY Zenon DEF TypeOK, RegTypeOK, Told
<1>2. ASSUME UNCHANGED <<state, addrs>>, NEW q \in Seq(Jobs), NEW n, Queued(q, n),
             LastTells(jobs', Connection, addrs), NoEvents(q) => NoEvents(jobs)
      PROVE  ToldOf
  <2>1. NoEvents(jobs') => NoEvents(jobs)
    BY <1>2, Zenon DEF Queued, NoEvents
  <2>2. Connection' <=> Connection
    BY <1>2 DEF Connection
  <2>. QED
    BY <1>2, <2>1, <2>2, Zenon DEF ToldOf, LastTells
<1>3. CASE RegistrationStep
  <2>0. UNCHANGED <<state, addrs>>
    BY <1>3, Zenon DEF RegistrationStep, connVars
  <2>1. CASE RegistrationReader
    BY <1>1, <1>2, <2>0, <2>1, ReaderDoes, Zenon
  <2>2. CASE NetworkChange
    <3>1. /\ LastTells(Tail(jobs), Connection, addrs)
          /\ NoEvents(Tail(jobs)) => NoEvents(jobs)
          /\ Tail(jobs) \in Seq(Jobs)
      BY <2>2, TakenTell DEF NetworkChange, Events
    <3>. QED
      BY <1>2, <2>0, <2>2, <3>1, ChangeDoes, Zenon
  <2>3. CASE CopsAnswered
    BY <1>1, <1>2, <2>0, <2>3, CopsDoes, Zenon
  <2>4. CASE AskReg \/ AskDone \/ AskSignal
    <3>1. jobs' = jobs
      BY <2>4, Zenon DEF AskReg, AskDone, AskSignal
    <3>. QED
      BY <2>0, <3>1, SameTell, Zenon
  <2>. QED
    BY <1>3, <2>1, <2>2, <2>3, <2>4, Zenon DEF RegistrationStep, RegistrationLoop
<1>4. CASE NetworkChanges \/ QueryAnswered \/ CidAnswered
  <2>1. UNCHANGED <<jobs, state, addrs>>
    BY <1>4, Zenon DEF NetworkChanges, NetChanges, QueryAnswered, CidAnswered, loopVars, dataVars, connVars
  <2>. QED
    BY <2>1, SameTell
<1>5. CASE ConnectJob \/ DialJob \/ InitJob
  <2>1. /\ LoopReady("connect") \/ LoopReady("dial") \/ LoopReady("init")
        /\ jobs' = Tail(jobs) /\ UNCHANGED <<state, addrs>>
    BY <1>5, Zenon DEF ConnectJob, DialJob, InitJob, dataVars
  <2>2. /\ Tail(jobs) \in Seq(Jobs) /\ LastTells(Tail(jobs), Connection, addrs)
        /\ NoEvents(Tail(jobs)) => NoEvents(jobs)
    BY <2>1, TakenTell DEF Events
  <2>3. Queued(Tail(jobs), {})
    BY <2>1, <2>2, QueuedNothing
  <2>. QED
    BY <1>2, <2>1, <2>2, <2>3, Zenon
<1>6. ASSUME NEW q \in Seq(Jobs), HandleDisconnect(q), LastTells(q, Connection, addrs),
             NoEvents(q) => NoEvents(jobs)
      PROVE  ToldOf
  <2>1. /\ state' = "DISCONNECTED" /\ addrs' = {}
        /\ Queued(q, IF Connection THEN {"evDisconnected"} ELSE {})
        /\ LastTells(jobs', FALSE, {})
    BY <1>6, Disconnecting
  <2>2. ~ Connection'
    BY <2>1 DEF Connection
  <2>3. NoEvents(jobs') => NoEvents(q) /\ ~ Connection
    BY <2>1, Zenon DEF NoEvents, Queued
  <2>. QED
    BY <1>6, <2>1, <2>2, <2>3, Zenon DEF ToldOf, LastTells
<1>7. CASE DisconnectJob
  BY <1>6, <1>7, TakenTell DEF DisconnectJob, Events
<1>8. ASSUME NEW q \in Seq(Jobs), NEW armed \in BOOLEAN, StartDataConnection(armed, q),
             addrs' = addrs, LastTells(q, Connection, addrs), NoEvents(q) => NoEvents(jobs)
      PROVE  ToldOf
  <2>1. LastTells(jobs', Connection', addrs) /\ (Connection' <=> Connection)
    BY <1>8, Starts
  <2>2. Queued(q, {"dial"}) \/ Queued(q, {})
    BY <1>8, Starts
  <2>3. NoEvents(jobs') => NoEvents(q)
    BY <2>2, Zenon DEF NoEvents, Queued
  <2>. QED
    BY <1>8, <2>1, <2>3, Zenon DEF ToldOf
<1>9. CASE TechJob
  <2>1. LoopReady("evTech") /\ StartDataConnection(retry, Tail(jobs)) /\ addrs' = addrs
    BY <1>9, Zenon DEF TechJob
  <2>. QED
    BY <1>1, <1>8, <2>1, TakenTell DEF Events
<1>10. CASE RetryTimer
  <2>1. StartDataConnection(FALSE, jobs) /\ addrs' = addrs
    BY <1>10, Zenon DEF RetryTimer
  <2>. QED
    BY <1>1, <1>8, <2>1
<1>11. CASE ConnectDone
  <2>1. Connected(step.got, jobs) /\ step.got \in SUBSET Addresses
    BY <1>11 DEF ConnectDone, TypeOK, StepTypes, Steps
  <2>2. CASE step.got = {}
    BY <1>1, <1>6, <2>1, <2>2 DEF Connected
  <2>3. CASE step.got # {}
    <3>1. /\ state' = "CONNECTED" /\ Queued(jobs, {"evConnected"}) /\ LastTells(jobs', TRUE, addrs')
      BY <1>1, <2>1, <2>3, Connecting
    <3>2. Connection' /\ ~ NoEvents(jobs')
      BY <3>1, Zenon DEF Connection, NoEvents, Queued
    <3>. QED
      BY <3>1, <3>2, Zenon DEF ToldOf, LastTells
  <2>. QED
    BY <2>2, <2>3
<1>12. ASSUME NEW c, jobs' = HandleCgev(c), UNCHANGED <<state, addrs>>
       PROVE  ToldOf
  BY <1>1, <1>2, <1>12, Reporting, Zenon
<1>13. CASE DialAnswered
  <2>1. \/ UNCHANGED <<state, addrs>> /\ \E c : jobs' = HandleCgev(c)
        \/ UNCHANGED <<jobs, state, addrs>>
        \/ HandleDisconnect(jobs)
    BY <1>13, Zenon DEF DialAnswered
  <2>. QED
    BY <1>1, <1>6, <1>12, <2>1, SameTell, Zenon
<1>14. CASE ContextChanges
  <2>1. UNCHANGED <<state, addrs>> /\ (UNCHANGED jobs \/ \E c : jobs' = HandleCgev(c))
    BY <1>14, Zenon DEF ContextChanges, connVars
  <2>. QED
    BY <1>12, <2>1, SameTell, Zenon
<1>15. CASE SearchOperators
  <2>1. LastTells(jobs', FALSE, {}) /\ state' = "DISCONNECTED" /\ addrs' = {}
    BY <1>1, <1>15, Searching
  <2>2. ~ Connection'
    BY <2>1 DEF Connection
  <2>3. NoEvents(jobs') => NoEvents(jobs) /\ ~ Connection
    BY <1>15, Searching, Zenon DEF NoEvents, Queued
  <2>. QED
    BY <2>1, <2>2, <2>3, Zenon DEF ToldOf, LastTells
<1>. QED
  BY <1>3, <1>4, <1>5, <1>7, <1>9, <1>10, <1>11, <1>13, <1>14, <1>15, Zenon DEF Next, LoopStep

\* The handlers of the service take the event they were called for, and the modem's
\* own handler may dial.
LEMMA HandlersTell ==
  ASSUME TypeOK, Told, ConnectedJob \/ DisconnectedJob
  PROVE  /\ LastTells(jobs', Connection', addrs) /\ addrs' = addrs /\ (Connection' <=> Connection)
         /\ NoEvents(jobs') /\ ConnectedJob => Connection /\ Head(jobs).got = addrs
         /\ NoEvents(jobs') /\ DisconnectedJob => ~ Connection
<1>1. /\ jobs \in Seq(Jobs) /\ retry \in BOOLEAN /\ LastTells(jobs, Connection, addrs)
      /\ Connection \in BOOLEAN
  BY Zenon DEF TypeOK, Told, Connection
<1>2. ~ (ConnectedJob /\ DisconnectedJob)
  BY DEF ConnectedJob, DisconnectedJob, LoopReady, Head1
<1>3. CASE ConnectedJob
  <2>1. LoopReady("evConnected") /\ jobs' = Tail(jobs) /\ UNCHANGED <<state, addrs>>
    BY <1>3, Zenon DEF ConnectedJob, connVars
  <2>2. jobs # <<>> /\ Head(jobs).job = "evConnected"
    BY <2>1, JobTaken
  <2>3. /\ LastTells(Tail(jobs), Connection, addrs)
        /\ NoEvents(Tail(jobs)) => Connection /\ Head(jobs).got = addrs
    BY <1>1, <2>2, LastTaken DEF Events
  <2>4. Connection' <=> Connection
    BY <2>1 DEF Connection
  <2>. QED
    BY <1>2, <1>3, <2>1, <2>3, <2>4, Zenon DEF LastTells, NoEvents, Has
<1>4. CASE DisconnectedJob
  <2>1. /\ LoopReady("evDisconnected") /\ StartDataConnection(retry, Tail(jobs)) /\ addrs' = addrs
    BY <1>4, Zenon DEF DisconnectedJob
  <2>2. jobs # <<>> /\ Head(jobs).job = "evDisconnected" /\ Tail(jobs) \in Seq(Jobs)
    BY <2>1, JobTaken
  <2>3. /\ LastTells(Tail(jobs), Connection, addrs)
        /\ NoEvents(Tail(jobs)) => ~ Connection
    BY <1>1, <2>2, LastTaken DEF Events
  <2>4. LastTells(jobs', Connection', addrs) /\ (Connection' <=> Connection)
    BY <1>1, <2>1, <2>2, <2>3, Starts
  <2>5. Queued(Tail(jobs), {"dial"}) \/ Queued(Tail(jobs), {})
    BY <1>1, <2>1, <2>2, Starts
  <2>6. NoEvents(jobs') => NoEvents(Tail(jobs))
    BY <2>5, Zenon DEF NoEvents, Queued
  <2>. QED
    BY <1>2, <1>4, <2>1, <2>3, <2>4, <2>6, Zenon
<1>. QED
  BY <1>3, <1>4

\* The service has heard of the connection, or will: every step keeps that.
LEMMA ToldStep == TypeOK /\ Told /\ [Next]_vars => Told'
<1>. SUFFICES ASSUME TypeOK, Told, [Next]_vars PROVE Told'
  OBVIOUS
<1>1. cfg' = cfg
  BY LoopKeeps, Zenon DEF Next, RegistrationStep, vars, dataVars
<1>2. ASSUME ToldOf, iface' = iface, stopped' = stopped
      PROVE  Told'
  BY <1>1, <1>2, Zenon DEF Told, ToldOf, LastTells
<1>3. CASE Next /\ ~ ConnectedJob /\ ~ DelayedStart /\ ~ DisconnectedJob
  BY <1>2, <1>3, OthersTell, OthersServe, Zenon DEF svcVars
<1>4. CASE UNCHANGED vars
  <2>1. UNCHANGED <<jobs, state, addrs, iface, stopped>>
    BY <1>4, Zenon DEF vars, loopVars, dataVars
  <2>. QED
    BY <1>2, <2>1, SameTell
<1>5. CASE DelayedStart
  <2>1. UNCHANGED <<jobs, state, addrs, iface>> /\ ~ stopped
    BY <1>5, Zenon DEF DelayedStart, connVars
  <2>2. ToldOf
    BY <2>1, SameTell
  <2>. QED
    BY <1>1, <2>1, <2>2, Zenon DEF Told, ToldOf, LastTells
<1>6. CASE ConnectedJob
  <2>1. LastTells(jobs', Connection', addrs) /\ addrs' = addrs /\ (Connection' <=> Connection)
    BY <1>6, HandlersTell, Zenon
  <2>2. NoEvents(jobs') => Connection /\ Head(jobs).got = addrs
    BY <1>6, HandlersTell, Zenon
  <2>3. cfg.proto = "static" /\ ~ stopped' => iface' = Head(jobs).got
    BY <1>6, Zenon DEF ConnectedJob
  <2>. QED
    BY <1>1, <2>1, <2>2, <2>3, Zenon DEF Told, LastTells
<1>7. CASE DisconnectedJob
  <2>1. LastTells(jobs', Connection', addrs) /\ addrs' = addrs /\ (Connection' <=> Connection)
    BY <1>7, HandlersTell, Zenon
  <2>2. NoEvents(jobs') => ~ Connection
    BY <1>7, HandlersTell, Zenon
  <2>3. cfg.proto = "static" /\ ~ stopped' => iface' = {}
    BY <1>7, Zenon DEF DisconnectedJob
  <2>. QED
    BY <1>1, <2>1, <2>2, <2>3, Zenon DEF Told, LastTells
<1>. QED
  BY <1>3, <1>4, <1>5, <1>6, <1>7, Zenon

-----------------------------------------------------------------------------
(* Leases. *)

\* A start that does not stop the Loop leaves the lease of "_4", a stop none.
LEMMA DhcpDoes ==
  ASSUME TypeOK, Leases
  PROVE  /\ StartDhcp => \/ stopped' = TRUE /\ UNCHANGED <<dhcp, leased>>
                         \/ leased' = {"_4"} /\ dhcp'.inited = TRUE /\ dhcp'.ifaces = {"_4"}
         /\ StopDhcp => dhcp' = dhcp /\ (leased' = {} \/ (stopped' = TRUE /\ leased' = leased))
<1>1. /\ leased \subseteq {"_4"} /\ (dhcp.inited => dhcp.ifaces = {"_4"})
      /\ dhcp.inited \in BOOLEAN /\ (~ dhcp.inited => leased = {})
  BY DEF Leases, TypeOK
<1>2. Wanted \subseteq {"_4", "_6"} /\ Wanted # {}
  BY DataAssumption DEF TypeOK, Wanted, V4, V6
<1>3. Wanted \subseteq {"_4"} => Wanted = {"_4"}
  BY <1>2
<1>4. ASSUME StartDhcp, dhcp.inited
      PROVE  \/ stopped' = TRUE /\ UNCHANGED <<dhcp, leased>>
             \/ leased' = {"_4"} /\ dhcp'.inited = TRUE /\ dhcp'.ifaces = {"_4"}
  <2>1. \/ stopped' = TRUE /\ dhcp' = dhcp /\ leased' = leased
        \/ Wanted \subseteq dhcp.ifaces /\ dhcp' = dhcp /\ leased' = leased \cup Wanted
    BY <1>4, Zenon DEF StartDhcp, DhcpCalls
  <2>2. ASSUME Wanted \subseteq dhcp.ifaces, dhcp' = dhcp, leased' = leased \cup Wanted
        PROVE  leased' = {"_4"} /\ dhcp'.inited = TRUE /\ dhcp'.ifaces = {"_4"}
    <3>1. Wanted = {"_4"} /\ dhcp.ifaces = {"_4"}
      BY <1>1, <1>3, <1>4, <2>2
    <3>2. leased' = {"_4"}
      BY <1>1, <2>2, <3>1
    <3>. QED
      BY <1>1, <1>4, <2>2, <3>1, <3>2, Zenon
  <2>. QED
    BY <2>1, <2>2, Zenon
<1>5. ASSUME StartDhcp, ~ dhcp.inited
      PROVE  \/ stopped' = TRUE /\ UNCHANGED <<dhcp, leased>>
             \/ leased' = {"_4"} /\ dhcp'.inited = TRUE /\ dhcp'.ifaces = {"_4"}
  <2>1. \/ stopped' = TRUE /\ dhcp' = dhcp /\ leased' = leased
        \/ dhcp' = [inited |-> TRUE, ifaces |-> {"_4"}] /\ leased' = leased \cup {"_4"}
    BY <1>5, Zenon DEF StartDhcp, DhcpCalls
  <2>2. leased \cup {"_4"} = {"_4"}
    BY <1>1, <1>5
  <2>. QED
    BY <2>1, <2>2
<1>6. ASSUME StopDhcp
      PROVE  dhcp' = dhcp /\ (leased' = {} \/ (stopped' = TRUE /\ leased' = leased))
  <2>1. \/ dhcp' = dhcp /\ leased' = leased /\ (stopped' = TRUE \/ ~ dhcp.inited)
        \/ Wanted \subseteq dhcp.ifaces /\ dhcp' = dhcp /\ leased' = leased \ Wanted /\ dhcp.inited
    BY <1>6, Zenon DEF StopDhcp, DhcpCalls
  <2>2. ASSUME Wanted \subseteq dhcp.ifaces, leased' = leased \ Wanted, dhcp.inited
        PROVE  leased' = {}
    <3>1. Wanted = {"_4"}
      BY <1>1, <1>3, <2>2
    <3>. QED
      BY <1>1, <2>2, <3>1
  <2>. QED
    BY <1>1, <2>1, <2>2, Zenon
<1>. QED
  BY <1>1, <1>4, <1>5, <1>6, Zenon

\* Leases and connection keep together.
LEMMA LeasesStep == TypeOK /\ Told /\ Leases /\ [Next]_vars => Leases'
<1>. SUFFICES ASSUME TypeOK, Told, Leases, [Next]_vars PROVE Leases'
  OBVIOUS
<1>1. cfg' = cfg
  BY LoopKeeps, Zenon DEF Next, RegistrationStep, vars, dataVars
<1>2. /\ leased \subseteq {"_4"} /\ dhcp.ifaces = (IF dhcp.inited THEN {"_4"} ELSE {})
      /\ leased # {} => dhcp.inited
      /\ cfg.proto = "static" => leased = {} /\ delayed = 0
      /\ cfg.proto \in {"static", "dhcp"} /\ delayed \in Nat
  BY DataAssumption DEF Leases, TypeOK
<1>3. ASSUME ToldOf, UNCHANGED svcVars, stopped' = stopped
      PROVE  Leases'
  BY <1>1, <1>3, Zenon DEF Leases, ToldOf, svcVars
<1>4. CASE Next /\ ~ ConnectedJob /\ ~ DelayedStart /\ ~ DisconnectedJob
  BY <1>3, <1>4, OthersTell, OthersServe, Zenon
<1>5. CASE UNCHANGED vars
  <2>1. UNCHANGED <<jobs, state, addrs, stopped>> /\ UNCHANGED svcVars
    BY <1>5, Zenon DEF vars, loopVars, dataVars, svcVars
  <2>. QED
    BY <1>3, <2>1, SameTell
<1>6. ASSUME StartDhcp
      PROVE  stopped' \/ leased' # {}
  BY <1>6, DhcpDoes
<1>7. ASSUME (UNCHANGED <<dhcp, leased>>) \/ StartDhcp \/ StopDhcp
      PROVE  /\ leased' \subseteq {"_4"} /\ dhcp'.ifaces = (IF dhcp'.inited THEN {"_4"} ELSE {})
             /\ leased' # {} => dhcp'.inited
  <2>1. CASE leased' = {"_4"} /\ dhcp'.inited = TRUE /\ dhcp'.ifaces = {"_4"}
    BY <2>1
  <2>2. CASE dhcp' = dhcp /\ (leased' = leased \/ leased' = {})
    BY <1>2, <2>2
  <2>. QED
    BY <1>7, <2>1, <2>2, DhcpDoes, Zenon
<1>8. CASE ConnectedJob
  <2>1. CASE cfg.proto = "static"
    <3>1. UNCHANGED <<dhcp, leased, delayed>>
      BY <1>8, <2>1, Zenon DEF ConnectedJob
    <3>. QED
      BY <1>1, <1>2, <1>7, <2>1, <3>1 DEF Leases
  <2>2. CASE cfg.proto = "dhcp"
    <3>1. late' = late
      BY <1>8, Zenon DEF ConnectedJob
    <3>2. \/ delayed' = delayed + 1 /\ UNCHANGED <<dhcp, leased, stopped>>
          \/ StartDhcp
      BY <1>8, <2>2, Zenon DEF ConnectedJob
    <3>3. NoEvents(jobs') => Connection'
      BY <1>8, HandlersTell, Zenon
    <3>4. stopped' \/ leased' # {} \/ delayed' > 0
      BY <1>2, <1>6, <3>2
    <3>5. cfg'.proto # "static"
      BY <1>1, <2>2
    <3>. QED
      BY <1>7, <3>2, <3>3, <3>4, <3>5, Zenon DEF Leases
  <2>. QED
    BY <1>2, <2>1, <2>2
<1>9. CASE DelayedStart
  <2>1. StartDhcp /\ UNCHANGED <<jobs, state>> /\ delayed > 0
    BY <1>9, Zenon DEF DelayedStart, connVars
  <2>2. cfg'.proto # "static"
    BY <1>1, <1>2, <2>1
  <2>3. ~ Connection' => late'
    <3>1. late' = (late \/ state # "CONNECTED")
      BY <1>9, Zenon DEF DelayedStart
    <3>2. ~ Connection' => state # "CONNECTED"
      BY <2>1 DEF Connection
    <3>. QED
      BY <3>1, <3>2, Zenon
  <2>. QED
    BY <1>6, <1>7, <2>1, <2>2, <2>3, Zenon DEF Leases
<1>10. CASE DisconnectedJob
  <2>1. CASE cfg.proto = "static"
    <3>1. UNCHANGED <<dhcp, leased, delayed>>
      BY <1>10, <2>1, Zenon DEF DisconnectedJob
    <3>. QED
      BY <1>1, <1>2, <1>7, <2>1, <3>1 DEF Leases
  <2>2. CASE cfg.proto = "dhcp"
    <3>1. StopDhcp
      BY <1>10, <2>2 DEF DisconnectedJob
    <3>2. stopped' \/ leased' = {}
      BY <3>1, DhcpDoes
    <3>3. NoEvents(jobs') => ~ Connection'
      BY <1>10, HandlersTell, Zenon
    <3>4. cfg'.proto # "static"
      BY <1>1, <2>2
    <3>. QED
      BY <1>7, <3>1, <3>2, <3>3, <3>4, Zenon DEF Leases
  <2>. QED
    BY <1>2, <2>1, <2>2
<1>. QED
  BY <1>4, <1>5, <1>8, <1>9, <1>10, Zenon

-----------------------------------------------------------------------------
(* What a step does to the queue. *)

\* The step is the job of this name.
Handles(j) ==
  \/ j = "networkChange" /\ NetworkChange
  \/ j = "connect" /\ ConnectJob
  \/ j = "disconnect" /\ DisconnectJob
  \/ j = "dial" /\ DialJob
  \/ j = "evTech" /\ TechJob
  \/ j = "init" /\ InitJob
  \/ j = "evConnected" /\ ConnectedJob
  \/ j = "evDisconnected" /\ DisconnectedJob

\* What may be queued: not the job of init(), and none of "disconnect" for Huawei.
Later(names) == "init" \notin names /\ (cfg.vendor = "huawei" => "disconnect" \notin names)

\* A step adds jobs at the end, after it has taken the first one or none.
LEMMA QueueDoes ==
  ASSUME TypeOK, [Next]_vars
  PROVE  \/ \E names : Later(names) /\ Queued(jobs, names)
         \/ \E j, names : LoopReady(j) /\ Handles(j) /\ Later(names) /\ Queued(Tail(jobs), names)
<1>1. jobs \in Seq(Jobs) /\ retry \in BOOLEAN
  BY Zenon DEF TypeOK
<1>2. Later({}) /\ \A n : n \notin {"init", "disconnect"} => Later({n})
  BY DEF Later
<1>3. CASE UNCHANGED jobs
  BY <1>1, <1>2, <1>3, QueuedNothing, Zenon
<1>4. CASE RegistrationReader
  <2>1. \A names \in SUBSET {"networkChange"} : Later(names)
    BY DEF Later
  <2>. QED
    BY <1>4, <2>1, ReaderDoes, Zenon
<1>5. CASE NetworkChange
  <2>1. \A b : Later(IF b THEN {"evTech"} ELSE {})
    BY DEF Later
  <2>. QED
    BY <1>2, <1>5, <2>1, ChangeDoes, Zenon DEF Handles
<1>6. CASE CopsAnswered
  <2>1. Later(IF tech' # tech THEN {"evTech"} ELSE {})
    BY DEF Later
  <2>. QED
    BY <1>6, <2>1, CopsDoes, Zenon
<1>7. CASE AskReg \/ AskDone \/ AskSignal \/ NetworkChanges \/ QueryAnswered \/ CidAnswered
           \/ DelayedStart \/ UNCHANGED vars
  <2>1. jobs' = jobs
    BY <1>7, Zenon DEF AskReg, AskDone, AskSignal, NetworkChanges, NetChanges, loopVars,
       QueryAnswered, CidAnswered, DelayedStart, vars
  <2>. QED
    BY <1>3, <2>1
<1>8. CASE ConnectJob \/ DialJob \/ InitJob \/ ConnectedJob
  <2>1. jobs' = Tail(jobs) /\ \E j : LoopReady(j) /\ Handles(j)
    BY <1>8, Zenon DEF ConnectJob, DialJob, InitJob, ConnectedJob, Handles
  <2>2. Tail(jobs) \in Seq(Jobs)
    BY <2>1, JobTaken, Zenon
  <2>3. Queued(Tail(jobs), {})
    BY <2>1, <2>2, QueuedNothing
  <2>. QED
    BY <1>2, <2>1, <2>3, Zenon
<1>9. ASSUME NEW q \in Seq(Jobs), HandleDisconnect(q)
      PROVE  \E names : Later(names) /\ Queued(q, names)
  <2>1. Later(IF Connection THEN {"evDisconnected"} ELSE {})
    BY DEF Later
  <2>. QED
    BY <1>9, <2>1, Disconnecting, Zenon
<1>10. CASE DisconnectJob
  <2>1. LoopReady("disconnect") /\ HandleDisconnect(Tail(jobs)) /\ Handles("disconnect")
    BY <1>10, Zenon DEF DisconnectJob, Handles
  <2>2. Tail(jobs) \in Seq(Jobs)
    BY <2>1, JobTaken, Zenon
  <2>. QED
    BY <1>9, <2>1, <2>2, Zenon
<1>11. ASSUME NEW q \in Seq(Jobs), NEW armed \in BOOLEAN, StartDataConnection(armed, q)
       PROVE  \E names : Later(names) /\ Queued(q, names)
  <2>1. Queued(q, {"dial"}) \/ Queued(q, {})
    BY <1>11, Starts
  <2>2. Later({"dial"})
    BY DEF Later
  <2>. QED
    BY <1>2, <2>1, <2>2, Zenon
<1>12. CASE TechJob \/ DisconnectedJob
  <2>1. StartDataConnection(retry, Tail(jobs)) /\ \E j : LoopReady(j) /\ Handles(j)
    BY <1>12, Zenon DEF TechJob, DisconnectedJob, Handles
  <2>2. Tail(jobs) \in Seq(Jobs)
    BY <2>1, JobTaken, Zenon
  <2>. QED
    BY <1>1, <1>11, <2>1, <2>2, Zenon
<1>13. CASE RetryTimer
  <2>1. StartDataConnection(FALSE, jobs)
    BY <1>13, Zenon DEF RetryTimer
  <2>. QED
    BY <1>1, <1>11, <2>1
<1>14. CASE ConnectDone
  <2>1. Connected(step.got, jobs) /\ step.got \in SUBSET Addresses
    BY <1>14 DEF ConnectDone, TypeOK, StepTypes, Steps
  <2>2. CASE step.got = {}
    BY <1>1, <1>9, <2>1, <2>2 DEF Connected
  <2>3. CASE step.got # {}
    <3>1. Queued(jobs, {"evConnected"})
      BY <1>1, <2>1, <2>3, Connecting
    <3>2. Later({"evConnected"})
      BY DEF Later
    <3>. QED
      BY <3>1, <3>2
  <2>. QED
    BY <2>2, <2>3
<1>15. ASSUME NEW c, jobs' = HandleCgev(c)
       PROVE  \E names : Later(names) /\ Queued(jobs, names)
  <2>1. PICK names \in SUBSET {"connect", "disconnect"} :
               Queued(jobs, names) /\ (cfg.vendor = "huawei" => names = {"connect"})
    BY <1>15, Reporting, Zenon
  <2>2. Later(names)
    BY <2>1 DEF Later
  <2>. QED
    BY <2>1, <2>2
<1>16. CASE DialAnswered
  <2>1. (\E c : jobs' = HandleCgev(c)) \/ jobs' = jobs \/ HandleDisconnect(jobs)
    BY <1>16, Zenon DEF DialAnswered
  <2>. QED
    BY <1>1, <1>3, <1>9, <1>15, <2>1, Zenon
<1>17. CASE ContextChanges
  BY <1>3, <1>15, <1>17, Zenon DEF ContextChanges
<1>18. CASE SearchOperators
  <2>1. PICK names \in SUBSET {"connect", "evDisconnected"} : Queued(jobs, names)
    BY <1>18, Searching
  <2>2. Later(names)
    BY <2>1 DEF Later
  <2>. QED
    BY <2>1, <2>2
<1>. QED
  BY <1>4, <1>5, <1>6, <1>7, <1>8, <1>10, <1>12, <1>13, <1>14, <1>16, <1>17, <1>18, Zenon
     DEF Next, RegistrationStep, RegistrationLoop, LoopStep

\* A job stays in the queue until it is handled.
LEMMA Remains ==
  ASSUME TypeOK, [Next]_vars, NEW j, Has(jobs, j)
  PROVE  Has(jobs', j) \/ Handles(j)
<1>1. CASE \E names : Queued(jobs, names)
  BY <1>1, Zenon DEF Queued
<1>2. CASE \E k, names : LoopReady(k) /\ Handles(k) /\ Queued(Tail(jobs), names)
  <2>1. PICK k, names : LoopReady(k) /\ Handles(k) /\ Queued(Tail(jobs), names)
    BY <1>2
  <2>2. Has(Tail(jobs), j) \/ j = k
    BY <2>1, JobTaken, Zenon
  <2>. QED
    BY <2>1, <2>2, Zenon DEF Queued
<1>. QED
  BY <1>1, <1>2, QueueDoes, Zenon

\* Nothing is queued but what may be.
LEMMA Arrives ==
  ASSUME TypeOK, [Next]_vars
  PROVE  /\ InitFirst(jobs) => InitFirst(jobs')
         /\ Has(jobs', "init") => Has(jobs, "init")
         /\ cfg.vendor = "huawei" /\ Has(jobs', "disconnect") => Has(jobs, "disconnect")
<1>1. CASE \E names : Later(names) /\ Queued(jobs, names)
  BY <1>1, Zenon DEF Queued, Later
<1>2. CASE \E k, names : LoopReady(k) /\ Later(names) /\ Queued(Tail(jobs), names)
  BY <1>2, JobTaken, Zenon DEF Queued, Later
<1>. QED
  BY <1>1, <1>2, QueueDoes, Zenon

-----------------------------------------------------------------------------
(* The Loop waits for one thing at a time. *)

\* Who changes what the Loop waits for, by what it has waited for.
LEMMA Moves ==
  ASSUME [Next]_vars, step' # step
  PROVE  \/ step.op = "idle" /\ (NetworkChange \/ ConnectJob \/ DialJob \/ InitJob)
         \/ step.op = "cops" /\ CopsAnswered
         \/ step.op = "ask" /\ RegistrationStep /\ (AskReg \/ AskSignal)
         \/ step.op = "asked" /\ AskDone
         \/ step.op = "cid" /\ CidAnswered
         \/ step.op = "query" /\ QueryAnswered
         \/ step.op = "got" /\ ConnectDone
         \/ step.op = "dial" /\ DialAnswered
<1>1. ASSUME NEW j, LoopReady(j)
      PROVE  step.op = "idle"
  BY <1>1 DEF LoopReady, Idle, Step
<1>2. NetworkChange \/ ConnectJob \/ DialJob \/ InitJob => step.op = "idle"
  BY <1>1, Zenon DEF NetworkChange, ConnectJob, DialJob, InitJob
<1>3. /\ CopsAnswered => step.op = "cops"
      /\ AskReg => step.op = "ask"
      /\ AskDone => step.op = "asked"
      /\ CidAnswered => step.op = "cid"
      /\ QueryAnswered => step.op = "query"
      /\ ConnectDone => step.op = "got"
      /\ DialAnswered => step.op = "dial"
  BY Zenon DEF CopsAnswered, AskReg, AskDone, CidAnswered, QueryAnswered, ConnectDone, DialAnswered
<1>4. AskSignal => step.op = "ask"
  BY DEF AskSignal, Step
<1>5. ~ (RegistrationReader \/ RetryTimer \/ TechJob \/ DisconnectJob \/ ConnectedJob \/ DelayedStart
         \/ DisconnectedJob \/ ContextChanges \/ NetworkChanges \/ SearchOperators \/ UNCHANGED vars)
  BY Zenon DEF RegistrationReader, Report, AnswerReg, RetryTimer, TechJob, DisconnectJob, ConnectedJob,
     DelayedStart, DisconnectedJob, ContextChanges, NetworkChanges, NetChanges, SearchOperators, vars, loopVars
<1>. QED
  BY <1>2, <1>3, <1>4, <1>5, Zenon DEF Next, RegistrationStep, RegistrationLoop, LoopStep

\* What is waited for after a step.
LEMMA Comes ==
  ASSUME TypeOK, [Next]_vars, step' # step
  PROVE  /\ step'.op = "cops" => NetworkChange \/ CopsAnswered
         /\ step'.op = "got" => QueryAnswered
<1>1. ConnectJob \/ DialJob \/ InitJob \/ CidAnswered \/ DialAnswered =>
        \E o \in {"idle", "ask", "query", "dial", "cid"} : \E v : step' = Step(o, v)
  BY Zenon DEF ConnectJob, DialJob, InitJob, CidAnswered, DialAnswered, QueryContext, Idle
<1>2. AskReg \/ AskSignal \/ AskDone \/ ConnectDone \/ CopsAnswered =>
        \E o \in {"idle", "ask", "asked", "dial"} : \E v : step' = Step(o, v)
  BY Zenon DEF AskReg, AskSignal, AskDone, ConnectDone, CopsAnswered, Idle
<1>3. QueryAnswered => step'.op = "got"
  <2>1. QueryAnswered => \E g : step' = [step EXCEPT !.op = "got", !.got = g]
    BY Zenon DEF QueryAnswered
  <2>2. step \in Steps
    BY DEF TypeOK, StepTypes
  <2>. QED
    BY <2>1, <2>2 DEF Steps
<1>4. NetworkChange => step'.op = "cops" \/ step' = step
  BY ChangeDoes
<1>. QED
  BY <1>1, <1>2, <1>3, <1>4, Moves, StepKinds

\* Who leaves the registration as it is: all but its own steps.
LEMMA Registration ==
  ASSUME [Next]_vars, ~ RegistrationStep
  PROVE  UNCHANGED <<told, asked, regs, tech, netReg, misread, unheard, cfg>>
<1>1. UNCHANGED vars => UNCHANGED <<told, asked, regs, tech, netReg, misread, unheard, cfg>>
  BY Zenon DEF vars, regVars, modemVars, dataVars
<1>. QED
  BY <1>1, LoopKeeps, Zenon DEF Next

\* Nothing comes before the job of init().
LEMMA StartingStep == TypeOK /\ Starting /\ [Next]_vars => Starting'
<1>. SUFFICES ASSUME TypeOK, Starting, [Next]_vars PROVE Starting'
  OBVIOUS
<1>1. InitFirst(jobs) /\ InitFirst(jobs)'
  BY Arrives, Zenon DEF Starting, InitFirst, Has
<1>2. ASSUME Has(jobs', "init")
      PROVE  step' = Idle /\ timers' = 0 /\ state' = "DISCONNECTED"
  <2>1. /\ Has(jobs, "init") /\ Head(jobs).job = "init" /\ ~ Has(Tail(jobs), "init")
        /\ step = Idle /\ timers = 0 /\ state = "DISCONNECTED"
    BY <1>1, <1>2, Arrives, Zenon DEF Starting, InitFirst
  <2>2. \A j : LoopReady(j) => j = "init"
    BY <2>1, Zenon DEF LoopReady, Head1
  <2>3. ~ InitJob
    <3>1. InitJob => jobs' = Tail(jobs)
      BY Zenon DEF InitJob
    <3>. QED
      BY <1>2, <2>1, <3>1, Zenon
  <2>4. ~ (NetworkChange \/ ConnectJob \/ DialJob \/ DisconnectJob \/ TechJob \/ ConnectedJob \/ DisconnectedJob)
    <3>1. ASSUME NEW j \in JobNames, LoopReady(j), j # "init"
          PROVE  FALSE
      BY <2>2, <3>1
    <3>. QED
      BY <3>1 DEF NetworkChange, ConnectJob, DialJob, DisconnectJob, TechJob, ConnectedJob, DisconnectedJob, JobNames
  <2>5. step.op = "idle"
    BY <2>1 DEF Idle, Step
  <2>6. step' = step
    BY <2>3, <2>4, <2>5, Moves
  <2>7. ~ (ConnectDone \/ DialAnswered \/ RetryTimer)
    BY <2>1, <2>5 DEF ConnectDone, DialAnswered, RetryTimer
  <2>8. ConnectJob \/ DialJob \/ InitJob \/ NetworkChanges \/ UNCHANGED vars => UNCHANGED <<timers, state>>
    BY Zenon DEF ConnectJob, DialJob, InitJob, NetworkChanges, dataVars, vars
  <2>9. RegistrationStep \/ ContextChanges \/ QueryAnswered \/ CidAnswered \/ DelayedStart => UNCHANGED <<timers, state>>
    BY Zenon DEF RegistrationStep, ContextChanges, QueryAnswered, CidAnswered, DelayedStart, connVars, dialVars
  <2>10. SearchOperators => state' = "DISCONNECTED" /\ timers' = timers
    BY Searching
  <2>11. timers' = timers /\ state' = state
    BY <2>1, <2>4, <2>7, <2>8, <2>9, <2>10, Zenon DEF Next, LoopStep
  <2>. QED
    BY <2>1, <2>6, <2>11, Zenon
<1>3. ASSUME asked' # "no"
      PROVE  step'.op = "asked" /\ step'.via = asked'
  <2>1. CASE AskReg
    <3>1. step' = Step("asked", step.via) /\ asked' = step.via
      BY <1>3, <2>1, Zenon DEF AskReg
    <3>. QED
      BY <3>1, StepKinds
  <2>2. CASE ~ AskReg
    <3>1. asked' = asked
      <4>1. RegistrationStep => asked' = asked \/ asked' = "no"
        BY <2>2, Zenon DEF RegistrationStep, RegistrationReader, RegistrationLoop, Report, AnswerReg,
           NetworkChange, CopsAnswered, AskDone, AskSignal, regVars, modemVars
      <4>. QED
        BY <1>3, <4>1, Registration, Zenon
    <3>2. step.op = "asked" /\ step.via = asked
      BY <1>3, <3>1 DEF Starting
    <3>3. ~ AskDone
      BY <1>3, <3>1 DEF AskDone
    <3>4. step' = step
      BY <3>2, <3>3, Moves
    <3>. QED
      BY <3>1, <3>2, <3>4
  <2>. QED
    BY <2>1, <2>2
<1>. QED
  BY <1>1, <1>2, <1>3, Zenon DEF Starting

-----------------------------------------------------------------------------
(* The registration is worked out. *)

\* A register that changes is worked out, whatever AT+COPS? was waiting for.
LEMMA WorkedOutStep == TypeOK /\ WorkedOut /\ [Next]_vars => WorkedOut'
<1>. SUFFICES ASSUME TypeOK, WorkedOut, [Next]_vars PROVE WorkedOut'
  OBVIOUS
<1>1. regs' = regs => Deciding' = Deciding
  BY DEF Deciding
<1>2. CASE NetworkChange
  <2>1. regs' = regs
    BY <1>2, Zenon DEF NetworkChange
  <2>2. step.op = "idle"
    BY <1>2 DEF NetworkChange, LoopReady, Idle, Step
  <2>. QED
    BY <1>1, <1>2, <2>1, <2>2, ChangeDoes DEF WorkedOut
<1>3. CASE CopsAnswered
  <2>1. regs' = regs /\ step' = Idle /\ netReg' = step.reg /\ step.op = "cops" /\ ~ NetworkChange
    BY <1>3, CopsDoes DEF CopsAnswered, NetworkChange, LoopReady, Idle, Step
  <2>2. step'.op # "cops"
    BY <2>1 DEF Idle, Step
  <2>3. CASE Has(jobs, "networkChange")
    <3>1. ~ Handles("networkChange")
      BY <2>1 DEF Handles
    <3>. QED
      BY <2>3, <3>1, Remains DEF WorkedOut
  <2>4. CASE step.reg = NetworkReg(Deciding) /\ NetworkTech(Deciding) = "unknown"
    BY <1>1, <2>1, <2>2, <2>4, Zenon DEF WorkedOut
  <2>. QED
    BY <2>1, <2>3, <2>4, Zenon DEF WorkedOut
<1>4. CASE regs' # regs
  <2>1. RegistrationReader
    BY <1>4, Registration, Zenon DEF RegistrationStep, RegistrationLoop, NetworkChange, CopsAnswered,
       AskReg, AskDone, AskSignal, regVars
  <2>2. Has(jobs', "networkChange")
    BY <1>4, <2>1, ReaderDoes, Zenon DEF Queued
  <2>. QED
    BY <2>2 DEF WorkedOut
<1>5. CASE regs' = regs /\ ~ NetworkChange /\ ~ CopsAnswered
  <2>1. UNCHANGED <<tech, netReg>>
    BY <1>5, Registration, Zenon DEF RegistrationStep, RegistrationReader, RegistrationLoop, Report, AnswerReg,
       AskReg, AskDone, AskSignal, regVars
  <2>2. ~ Handles("networkChange")
    BY <1>5 DEF Handles
  <2>3. Has(jobs, "networkChange") => Has(jobs', "networkChange")
    BY <2>2, Remains
  <2>4. step.op = "cops" => step' = step
    BY <1>5, Moves
  <2>5. step'.op = "cops" => step' = step
    <3>1. step' # step => step'.op # "cops"
      BY <1>5, Comes
    <3>. QED
      BY <3>1
  <2>. QED
    BY <1>1, <1>5, <2>1, <2>3, <2>4, <2>5, Zenon DEF WorkedOut
<1>. QED
  BY <1>2, <1>3, <1>4, <1>5

-----------------------------------------------------------------------------
(* The registers follow what the modem reports. *)

\* A domain that is to be asked for is asked for, or an excuse is noted.
LEMMA AsksOn ==
  ASSUME TypeOK, Starting, [Next]_vars, NEW d \in Domains, WillAsk(d), ~ AnswerReg
  PROVE  WillAsk(d)' \/ "unasked" \in excuse'
<1>1. d \in AllDomains /\ d # "no"
  BY RegistrationAssumption DEF AllDomains
<1>2. step' = Step("ask", "CREG") => WillAsk(d)'
  BY <1>1, StepKinds DEF WillAsk, From
<1>3. \A v : step' = Step("query", v) /\ v = "detect" => WillAsk(d)'
  BY StepKinds DEF WillAsk
<1>4. CASE Has(jobs, "init")
  <2>1. CASE InitJob
    <3>1. step' = Step("cid", "detect") \/ step' = Step("ask", "CREG")
      BY <2>1, Zenon DEF InitJob
    <3>2. step' = Step("cid", "detect") => WillAsk(d)'
      BY StepKinds DEF WillAsk
    <3>. QED
      BY <1>2, <3>1, <3>2
  <2>2. CASE ~ InitJob
    <3>1. Has(jobs', "init")
      BY <1>4, <2>2, Remains DEF Handles
    <3>. QED
      BY <3>1 DEF WillAsk
  <2>. QED
    BY <2>1, <2>2
<1>5. CASE step.op = "cid"
  <2>1. CASE step' = step
    BY <1>5, <2>1 DEF WillAsk
  <2>2. CASE CidAnswered
    <3>1. step' = Step("query", "detect") \/ step' = Step("ask", "CREG")
      BY <2>2, Zenon DEF CidAnswered
    <3>. QED
      BY <1>2, <1>3, <3>1
  <2>. QED
    BY <1>5, <2>1, <2>2, Moves
<1>6. CASE step.op \in {"query", "got"} /\ step.via = "detect"
  <2>1. CASE step' = step
    BY <1>6, <2>1 DEF WillAsk
  <2>2. CASE QueryAnswered
    <3>1. \E g : step' = [step EXCEPT !.op = "got", !.got = g]
      BY <2>2, Zenon DEF QueryAnswered
    <3>2. step \in Steps
      BY DEF TypeOK, StepTypes
    <3>3. step'.op = "got" /\ step'.via = "detect"
      BY <1>6, <3>1, <3>2 DEF Steps
    <3>. QED
      BY <3>3 DEF WillAsk
  <2>3. CASE ConnectDone
    BY <1>2, <1>6, <2>3 DEF ConnectDone
  <2>. QED
    BY <1>6, <2>1, <2>2, <2>3, Moves
<1>7. CASE step.op = "ask" /\ d \in From[step.via]
  <2>1. CASE step' = step
    BY <1>7, <2>1 DEF WillAsk
  <2>2. CASE AskSignal
    <3>1. step.via = "signal"
      BY <2>2 DEF AskSignal, Step
    <3>. QED
      BY <1>7, <3>1 DEF From
  <2>3. CASE RegistrationStep /\ AskReg
    <3>1. step.via \in AllDomains
      BY <1>7, <2>3 DEF AskReg, TypeOK, StepTypes
    <3>2. d = step.via \/ d \in From[AskOrder[step.via]]
      BY <1>1, <1>7, <3>1 DEF From, AskOrder, AllDomains
    <3>3. CASE step' = Step("asked", step.via) /\ asked' = step.via
      BY <3>2, <3>3, StepKinds DEF WillAsk
    <3>4. CASE step' = Step("ask", AskOrder[step.via]) /\ asked' = "no"
      <4>1. CASE d \in From[AskOrder[step.via]]
        BY <3>4, <4>1, StepKinds DEF WillAsk
      <4>2. CASE d = step.via
        BY <1>7, <2>3, <3>4, <4>2 DEF RegistrationStep
      <4>. QED
        BY <3>2, <4>1, <4>2
    <3>. QED
      BY <2>3, <3>3, <3>4, Zenon DEF AskReg
  <2>. QED
    BY <1>7, <2>1, <2>2, <2>3, Moves
<1>8. CASE step.op = "asked" /\ (asked = d \/ d \in From[AskOrder[step.via]])
  <2>1. CASE AskDone
    <3>1. step' = Step("ask", AskOrder[step.via]) /\ asked = "no"
      BY <2>1, Zenon DEF AskDone
    <3>. QED
      BY <1>1, <1>8, <3>1, StepKinds DEF WillAsk
  <2>2. CASE step' = step /\ ~ AskDone
    <3>1. ~ AskReg
      BY <1>8 DEF AskReg
    <3>2. RegistrationStep => asked' = asked
      BY <2>2, <3>1, Zenon DEF RegistrationStep, RegistrationReader, RegistrationLoop, Report,
         NetworkChange, CopsAnswered, AskSignal, modemVars
    <3>3. asked' = asked
      BY <3>2, Registration, Zenon
    <3>. QED
      BY <1>8, <2>2, <3>3 DEF WillAsk
  <2>. QED
    BY <1>8, <2>1, <2>2, Moves
<1>. QED
  BY <1>4, <1>5, <1>6, <1>7, <1>8, Zenon DEF WillAsk

\* The registers hold what was told, or will be asked for.
LEMMA RegistersStep == TypeOK /\ Starting /\ Registers /\ [Next]_vars => Registers'
<1>. SUFFICES ASSUME TypeOK, Starting, Registers, [Next]_vars, ~ misread', NEW d \in Domains
              PROVE  \/ regs'[d] = told'[d]
                     \/ d \in unheard'
                     \/ regs'[d] = NotRegistered /\ ("unasked" \in excuse' \/ WillAsk(d)')
  BY Zenon DEF Registers
<1>1. /\ net \in Networks \cup {NotRegistered} /\ told \in [AllDomains -> Networks \cup {NotRegistered}]
      /\ asked \in Domains \cup {"no"} /\ regs \in [AllDomains -> Register] /\ d \in AllDomains
  BY ModemTypes, Zenon DEF TypeOK, RegTypeOK, Register
<1>2. excuse \subseteq excuse'
  BY ExcuseStep
<1>3. CASE AnswerReg
  <2>1. /\ asked \in Domains /\ HandleCreg(asked, told[asked], TRUE) /\ told' = told
    BY <1>1, <1>3, Zenon DEF AnswerReg
  <2>2. told[asked] \in Networks \cup {NotRegistered} /\ asked \in AllDomains
    BY <1>1, <2>1, ModemTypes
  <2>3. ~ misread /\ regs' = [regs EXCEPT ![asked] = told[asked]]
    BY <2>1, <2>2, Reading
  <2>4. CASE asked = d
    BY <1>1, <2>1, <2>3, <2>4
  <2>5. CASE asked # d
    <3>1. regs'[d] = regs[d] /\ told'[d] = told[d] /\ (d \in unheard => d \in unheard')
      BY <1>1, <2>1, <2>3, <2>5 DEF HandleCreg
    <3>2. WillAsk(d) => WillAsk(d)'
      <4>1. step' = step /\ step.op = "asked" /\ step.via = asked
        BY <1>3 DEF AnswerReg, Starting
      <4>2. ~ Handles("init")
        BY <4>1 DEF Handles, InitJob, LoopReady, Idle, Step
      <4>3. Has(jobs, "init") => Has(jobs', "init")
        BY <4>2, Remains
      <4>. QED
        BY <2>5, <4>1, <4>3 DEF WillAsk
    <3>. QED
      BY <1>2, <2>3, <3>1, <3>2, Zenon DEF Registers
  <2>. QED
    BY <2>4, <2>5
<1>4. CASE ~ AnswerReg /\ \E e \in Domains : Report(e)
  <2>1. PICK e \in Domains : Report(e)
    BY <1>4
  <2>2. /\ Truth(net, e) \in Networks \cup {NotRegistered}
        /\ HandleCreg(e, Truth(net, e), FALSE) \/ Drop(e)
        /\ told' = [told EXCEPT ![e] = Truth(net, e)]
    BY <1>1, <2>1, ModemTypes, Zenon DEF Report
  <2>3. ~ misread /\ (Drop(e) \/ regs' = [regs EXCEPT ![e] = Truth(net, e)])
    <3>1. CASE HandleCreg(e, Truth(net, e), FALSE)
      BY <2>2, <3>1, Reading
    <3>2. CASE Drop(e)
      BY <3>2, Zenon DEF Drop
    <3>. QED
      BY <2>2, <3>1, <3>2
  <2>4. CASE e = d
    BY <1>1, <2>2, <2>3, <2>4 DEF Drop
  <2>5. CASE e # d
    <3>1. regs'[d] = regs[d] /\ told'[d] = told[d] /\ (d \in unheard => d \in unheard')
      BY <1>1, <2>2, <2>3, <2>5 DEF Drop, HandleCreg
    <3>. QED
      BY <1>2, <1>4, <2>3, <3>1, AsksOn, Zenon DEF Registers
  <2>. QED
    BY <2>4, <2>5
<1>5. CASE ~ AnswerReg /\ ~ \E e \in Domains : Report(e)
  <2>1. RegistrationStep => UNCHANGED <<regs, told, misread, unheard>>
    BY <1>5, Zenon DEF RegistrationStep, RegistrationReader, RegistrationLoop, NetworkChange, CopsAnswered,
       AskReg, AskDone, AskSignal, regVars, modemVars
  <2>2. UNCHANGED <<regs, told, misread, unheard>>
    BY <2>1, Registration, Zenon
  <2>. QED
    BY <1>2, <1>5, <2>2, AsksOn, Zenon DEF Registers
<1>. QED
  BY <1>3, <1>4, <1>5

-----------------------------------------------------------------------------
(* The connection and the modem's context. *)

\* What is blamed does not leave the connection undisturbed.
LEMMA Blamed ==
  ASSUME NEW c \in Causes \ {"unasked"}, NEW cond, Blame(c, cond), Undisturbed'
  PROVE  ~ cond
BY DEF Blame, Undisturbed, Causes

\* Who changes the state of the connection.
LEMMA States ==
  ASSUME TypeOK, [Next]_vars
  PROVE  \/ UNCHANGED <<state, addrs>>
         \/ ConnectDone
         \/ DisconnectJob
         \/ DialAnswered /\ HandleDisconnect(jobs) /\ retry' = TRUE
         \/ state = "DISCONNECTED" /\ state' = "CONNECTING" /\ Has(jobs', "dial") /\ addrs' = addrs
         \/ SearchOperators /\ state' = "DISCONNECTED"
<1>1. jobs \in Seq(Jobs) /\ retry \in BOOLEAN
  BY Zenon DEF TypeOK
<1>2. CASE RegistrationStep \/ ContextChanges \/ QueryAnswered \/ CidAnswered \/ ConnectedJob \/ DelayedStart
  BY <1>2, Zenon DEF RegistrationStep, ContextChanges, QueryAnswered, CidAnswered, ConnectedJob, DelayedStart, connVars
<1>3. CASE NetworkChanges \/ ConnectJob \/ DialJob \/ InitJob \/ UNCHANGED vars
  BY <1>3, Zenon DEF NetworkChanges, ConnectJob, DialJob, InitJob, dataVars, vars
<1>4. ASSUME NEW q \in Seq(Jobs), NEW armed \in BOOLEAN, StartDataConnection(armed, q), addrs' = addrs
      PROVE  \/ UNCHANGED <<state, addrs>>
             \/ state = "DISCONNECTED" /\ state' = "CONNECTING" /\ Has(jobs', "dial") /\ addrs' = addrs
  BY <1>4, Starts, Zenon DEF Queued
<1>5. CASE RetryTimer
  <2>1. StartDataConnection(FALSE, jobs) /\ addrs' = addrs
    BY <1>5, Zenon DEF RetryTimer
  <2>. QED
    BY <1>1, <1>4, <2>1
<1>6. CASE TechJob \/ DisconnectedJob
  <2>1. StartDataConnection(retry, Tail(jobs)) /\ addrs' = addrs /\ \E j : LoopReady(j)
    BY <1>6, Zenon DEF TechJob, DisconnectedJob
  <2>2. Tail(jobs) \in Seq(Jobs)
    BY <2>1, JobTaken, Zenon
  <2>. QED
    BY <1>1, <1>4, <2>1, <2>2
<1>7. CASE DialAnswered
  BY <1>7, Zenon DEF DialAnswered
<1>8. CASE SearchOperators
  BY <1>8, Searching
<1>. QED
  BY <1>2, <1>3, <1>5, <1>6, <1>7, <1>8, Zenon DEF Next, LoopStep

\* Who changes the context, and that it is heard of.
LEMMA ContextHeard ==
  ASSUME TypeOK, [Next]_vars, ctx' # ctx, Undisturbed'
  PROVE  \/ News' /\ step' = step
         \/ step.op = "dial" /\ step'.op = "query"
<1>1. CASE ContextChanges
  <2>0. ~ Blame("unheard", TRUE)
    BY Blamed DEF Causes
  <2>1. /\ jobs' = HandleCgev(ctx') /\ step' = step
        /\ Blame("ignored", cfg.vendor = "asr" /\ ctx' # {} /\ tech # "lte")
    BY <1>1, <2>0, Zenon DEF ContextChanges
  <2>2. ~ (cfg.vendor = "asr" /\ ctx' # {} /\ tech # "lte")
    BY <2>1, Blamed DEF Causes
  <2>3. cfg.vendor \in {"asr", "huawei"}
    BY DataAssumption DEF TypeOK
  <2>4. PICK names \in SUBSET {"connect", "disconnect"} :
               /\ Queued(jobs, names)
               /\ cfg.vendor = "huawei" => names = {"connect"}
               /\ ctx' # {} /\ tech = "lte" => names = {"connect"}
               /\ cfg.vendor # "huawei" /\ ctx' = {} => names = {"disconnect"}
    BY <2>1, Reporting, Zenon
  <2>5. \A n \in names : Has(jobs', n)
    BY <2>4, Zenon DEF Queued
  <2>6. IF ctx' = {} THEN Has(jobs', "connect") \/ Has(jobs', "disconnect") ELSE Has(jobs', "connect")
    BY <2>2, <2>3, <2>4, <2>5
  <2>. QED
    BY <2>1, <2>6 DEF News
<1>2. CASE DialAnswered
  <2>1. step.op = "dial" /\ (step' = Step("query", "dial") \/ ctx' = ctx)
    BY <1>2, Zenon DEF DialAnswered
  <2>. QED
    BY <2>1, StepKinds
<1>3. ~ (RegistrationStep \/ NetworkChanges \/ UNCHANGED vars \/ ConnectJob \/ DialJob \/ InitJob)
  BY Zenon DEF RegistrationStep, NetworkChanges, vars, dataVars, ConnectJob, DialJob, InitJob
<1>4. ~ (DisconnectJob \/ QueryAnswered \/ ConnectDone \/ RetryTimer \/ TechJob \/ CidAnswered
         \/ ConnectedJob \/ DelayedStart \/ DisconnectedJob)
  BY Zenon DEF DisconnectJob, QueryAnswered, ConnectDone, RetryTimer, TechJob, CidAnswered,
     ConnectedJob, DelayedStart, DisconnectedJob
<1>5. CASE SearchOperators
  <2>1. ctx' = {} /\ Has(jobs', "connect") /\ step' = step
    BY <1>5, Searching, Zenon DEF Queued
  <2>. QED
    BY <2>1 DEF News
<1>. QED
  BY <1>1, <1>2, <1>3, <1>4, <1>5, Zenon DEF Next, LoopStep

\* The answer to the question what the context is.
LEMMA Answered ==
  ASSUME TypeOK, QueryAnswered
  PROVE  /\ step'.op = "got" /\ step'.via = step.via
         /\ Undisturbed' => step'.got = ctx'
<1>1. PICK g \in {ctx, {}} : step' = [step EXCEPT !.op = "got", !.got = g] /\ Blame("failed", g # ctx)
  BY Zenon DEF QueryAnswered
<1>2. ctx' = ctx /\ step \in Steps
  BY DEF QueryAnswered, TypeOK, StepTypes
<1>3. Undisturbed' => g = ctx
  BY <1>1, Blamed DEF Causes
<1>. QED
  BY <1>1, <1>2, <1>3 DEF Steps

\* The end of handleConnect().
LEMMA Concluded ==
  ASSUME TypeOK, ConnectDone
  PROVE  /\ step.op = "got" /\ ctx' = ctx /\ retry' = retry
         /\ step.got # {} => state' = "CONNECTED" /\ step.got \subseteq addrs'
         /\ step.got = {} => /\ HandleDisconnect(jobs) /\ state' = "DISCONNECTED"
                             /\ Undisturbed' => step.via # "dial"
                             /\ step.via = "first" => step'.op = "dial"
<1>1. /\ step.op = "got" /\ ctx' = ctx /\ retry' = retry
      /\ Connected(step.got, jobs)
      /\ Blame("failed", step.via = "dial" /\ step.got = {})
      /\ step.via = "first" /\ state' = "DISCONNECTED" => step' = Step("dial", "none")
  BY DEF ConnectDone, dialVars
<1>2. step.got \in SUBSET Addresses /\ jobs \in Seq(Jobs)
  BY DEF TypeOK, StepTypes, Steps
<1>3. CASE step.got # {}
  BY <1>1, <1>2, <1>3, Connecting
<1>4. CASE step.got = {}
  <2>1. HandleDisconnect(jobs) /\ state' = "DISCONNECTED"
    BY <1>1, <1>4 DEF Connected, HandleDisconnect
  <2>2. Undisturbed' => step.via # "dial"
    BY <1>1, <1>4, Blamed DEF Causes
  <2>. QED
    BY <1>1, <1>4, <2>1, <2>2, StepKinds
<1>. QED
  BY <1>3, <1>4

\* News stay until they are handled.
LEMMA NewsStay ==
  ASSUME TypeOK, [Next]_vars, News, ctx' = ctx
  PROVE  News' \/ ConnectJob \/ DisconnectJob
<1>1. \A j \in {"connect", "disconnect"} : Handles(j) => ConnectJob \/ DisconnectJob
  BY DEF Handles
<1>. QED
  BY <1>1, Remains, Zenon DEF News

\* The addresses keep up with the context.
LEMMA AddressedStep == TypeOK /\ Addressed /\ [Next]_vars => Addressed'
<1>. SUFFICES ASSUME TypeOK, Addressed, [Next]_vars PROVE Addressed'
  OBVIOUS
<1>1. Undisturbed' => Undisturbed
  BY ExcuseStep DEF Undisturbed
<1>2. cfg' = cfg
  BY LoopKeeps, Zenon DEF Next, RegistrationStep, vars, dataVars
<1>3. cfg'.vendor = "huawei" => ~ Has(jobs', "disconnect")
  BY <1>2, Arrives DEF Addressed
<1>4. ConnectJob \/ DisconnectJob => step.op = "idle"
  BY DEF ConnectJob, DisconnectJob, LoopReady, Idle, Step
<1>5. ASSUME Undisturbed', step'.op = "got"
      PROVE  step'.got = ctx' \/ News'
  <2>1. CASE QueryAnswered
    BY <1>5, <2>1, Answered
  <2>2. CASE step' = step
    <3>1. CASE ctx' = ctx
      <4>1. step.got = ctx \/ News
        BY <1>1, <1>5, <2>2 DEF Addressed
      <4>. QED
        BY <1>4, <1>5, <2>2, <3>1, <4>1, NewsStay
    <3>2. CASE ctx' # ctx
      BY <1>5, <2>2, <3>2, ContextHeard
    <3>. QED
      BY <3>1, <3>2
  <2>3. CASE step' # step /\ ~ QueryAnswered
    BY <1>5, <2>3, Comes
  <2>. QED
    BY <2>1, <2>2, <2>3
<1>6. ASSUME Undisturbed', state' = "CONNECTED"
      PROVE  \/ ctx' # {} /\ ctx' \subseteq addrs'
             \/ News'
             \/ step'.op \in {"query", "got"}
  <2>1. CASE ConnectDone
    <3>1. step.op = "got" /\ ctx' = ctx /\ step.got # {} /\ step.got \subseteq addrs'
      BY <1>6, <2>1, Concluded
    <3>2. step.got = ctx \/ News
      BY <1>1, <1>6, <3>1 DEF Addressed
    <3>. QED
      BY <1>4, <3>1, <3>2, NewsStay
  <2>2. CASE ~ ConnectDone
    <3>1. ~ DisconnectJob /\ UNCHANGED <<state, addrs>>
      BY <1>6, <2>2, States DEF DisconnectJob, HandleDisconnect
    <3>2. CASE ctx' # ctx
      BY <1>6, <3>2, ContextHeard
    <3>3. CASE ctx' = ctx
      <4>1. CASE ctx # {} /\ ctx \subseteq addrs
        BY <3>1, <3>3, <4>1
      <4>2. CASE News
        <5>1. ConnectJob => step'.op = "query"
          BY StepKinds DEF ConnectJob, QueryContext
        <5>. QED
          BY <3>1, <3>3, <4>2, <5>1, NewsStay
      <4>3. CASE step.op \in {"query", "got"}
        BY <2>2, <4>3, Moves, Answered
      <4>. QED
        BY <1>1, <1>6, <3>1, <4>1, <4>2, <4>3 DEF Addressed
    <3>. QED
      BY <3>2, <3>3
  <2>. QED
    BY <2>1, <2>2
<1>. QED
  BY <1>3, <1>5, <1>6 DEF Addressed

-----------------------------------------------------------------------------
(* Dialling. *)

\* It goes on, until its end or that of a failed dial.
LEMMA GoesOn ==
  ASSUME TypeOK, [Next]_vars, UnderWay
  PROVE  UnderWay' \/ ConnectDone \/ (DialAnswered /\ HandleDisconnect(jobs) /\ retry' = TRUE)
<1>1. CASE Has(jobs, "dial")
  <2>1. DialJob => step' = Step("query", "first") \/ step' = Step("dial", "none")
    BY Zenon DEF DialJob, QueryContext
  <2>2. DialJob => UnderWay'
    BY <2>1, StepKinds DEF UnderWay
  <2>3. ~ DialJob => Has(jobs', "dial")
    BY <1>1, Remains DEF Handles
  <2>. QED
    BY <2>2, <2>3 DEF UnderWay
<1>2. CASE step' = step /\ ~ Has(jobs, "dial")
  BY <1>2 DEF UnderWay
<1>3. CASE DialAnswered
  <2>1. step' = Step("query", "dial") \/ (HandleDisconnect(jobs) /\ retry' = TRUE)
    BY <1>3, Zenon DEF DialAnswered
  <2>. QED
    BY <1>3, <2>1, StepKinds DEF UnderWay
<1>4. CASE QueryAnswered /\ ~ Has(jobs, "dial")
  <2>1. step.op = "query"
    BY <1>4, Zenon DEF QueryAnswered
  <2>. QED
    BY <1>4, <2>1, Answered DEF UnderWay
<1>. QED
  BY <1>1, <1>2, <1>3, <1>4, Moves DEF UnderWay

\* While the Loop is idle, or at another question, only a queued dial is under way.
LEMMA OnlyQueued ==
  ASSUME UnderWay, step.op = "idle" \/ (step.op = "got" /\ step.via \notin {"first", "dial"})
  PROVE  Has(jobs, "dial")
BY DEF UnderWay

\* A dial that has begun goes on until it ends.
LEMMA DiallingStep == TypeOK /\ Dialling /\ [Next]_vars => Dialling'
<1>. SUFFICES ASSUME TypeOK, Dialling, [Next]_vars, state' = "CONNECTING"
              PROVE  UnderWay'
  BY DEF Dialling, UnderWay
<1>1. ~ ConnectDone
  BY Concluded
<1>2. ~ HandleDisconnect(jobs) /\ ~ DisconnectJob
  BY DEF DisconnectJob, HandleDisconnect
<1>3. CASE UNCHANGED <<state, addrs>>
  <2>1. UnderWay
    BY <1>3 DEF Dialling, UnderWay
  <2>. QED
    BY <1>1, <1>2, <2>1, GoesOn
<1>4. CASE Has(jobs', "dial")
  BY <1>4 DEF UnderWay
<1>. QED
  BY <1>1, <1>2, <1>3, <1>4, States

\* When a connection becomes possible the Loop is told, or it is noted.
LEMMA Possible ==
  ASSUME TypeOK, [Next]_vars, Undisturbed', CanDial', ~ CanDial
  PROVE  Has(jobs', "evTech")
<1>1. CASE ~ RegistrationStep
  <2>1. UNCHANGED <<tech, netReg, cfg>>
    BY <1>1, Registration, Zenon
  <2>2. CanDial' <=> CanDial
    BY <2>1, Zenon DEF CanDial, IsPacketServiceReady
  <2>. QED
    BY <2>2
<1>2. CASE RegistrationStep
  <2>1. tech' # tech
    <3>1. ASSUME tech' = tech
          PROVE  "unnoticed" \in excuse'
      BY <1>2, <3>1 DEF RegistrationStep
    <3>. QED
      BY <3>1 DEF Undisturbed
  <2>2. CASE NetworkChange
    <3>1. Queued(Tail(jobs), {"evTech"})
      BY <2>1, <2>2, ChangeDoes
    <3>. QED
      BY <3>1, Zenon DEF Queued
  <2>3. CASE CopsAnswered
    <3>1. Queued(jobs, {"evTech"})
      BY <2>1, <2>3, CopsDoes
    <3>. QED
      BY <3>1, Zenon DEF Queued
  <2>4. ~ (RegistrationReader \/ AskReg \/ AskDone \/ AskSignal)
    BY <2>1, ReaderDoes, Zenon DEF AskReg, AskDone, AskSignal, regVars
  <2>. QED
    BY <1>2, <2>2, <2>3, <2>4, Zenon DEF RegistrationStep, RegistrationLoop
<1>. QED
  BY <1>1, <1>2

\* A disconnection is told of.
LEMMA Lost ==
  ASSUME TypeOK, NEW q \in Seq(Jobs), HandleDisconnect(q), state = "CONNECTED"
  PROVE  Has(jobs', "evDisconnected")
BY Disconnecting, Zenon DEF Queued, Connection

\* The timer of a failed dial runs until it expires.
LEMMA RetryStays ==
  ASSUME TypeOK, [Next]_vars, retry, ~ RetryTimer
  PROVE  retry'
<1>1. UNCHANGED vars \/ RegistrationStep \/ ContextChanges \/ NetworkChanges \/ SearchOperators => retry' = retry
  BY Zenon DEF vars, RegistrationStep, ContextChanges, NetworkChanges, SearchOperators, dataVars, connVars, dialVars
<1>2. LoopStep => retry' = retry \/ retry' = TRUE
  BY Zenon DEF LoopStep, ConnectJob, DisconnectJob, QueryAnswered, ConnectDone, DialJob, DialAnswered,
     TechJob, InitJob, CidAnswered, ConnectedJob, DelayedStart, DisconnectedJob, dataVars, connVars, dialVars
<1>. QED
  BY <1>1, <1>2, Zenon DEF Next

\* Who forgets a timer forgets its number.
LEMMA ArmedStep == TypeOK /\ Armed /\ [Next]_vars => Armed'
<1>. SUFFICES ASSUME TypeOK, Armed, [Next]_vars, retry' PROVE timers' > 0
  BY DEF Armed
<1>1. timers \in Nat
  BY DEF TypeOK
<1>2. UNCHANGED vars \/ RegistrationStep \/ ContextChanges \/ NetworkChanges \/ SearchOperators =>
        UNCHANGED <<retry, timers>>
  BY Zenon DEF vars, RegistrationStep, ContextChanges, NetworkChanges, SearchOperators, dataVars, connVars, dialVars
<1>3. LoopStep => (UNCHANGED <<retry, timers>>) \/ timers' = timers + 1 \/ retry' = FALSE
  BY Zenon DEF LoopStep, ConnectJob, DisconnectJob, QueryAnswered, ConnectDone, DialJob, DialAnswered, RetryTimer,
     TechJob, InitJob, CidAnswered, ConnectedJob, DelayedStart, DisconnectedJob, dataVars, connVars, dialVars
<1>4. (timers > 0 /\ timers' = timers) \/ timers' = timers + 1
  BY <1>2, <1>3, Zenon DEF Next, Armed
<1>. QED
  BY <1>1, <1>4

\* A dial that ends without a connection is followed by another try.
LEMMA Again ==
  ASSUME TypeOK, [Next]_vars, UnderWay, Undisturbed', state' = "DISCONNECTED"
  PROVE  retry' \/ UnderWay'
<1>1. CASE ConnectDone
  <2>1. /\ step.op = "got" /\ step.via # "dial"
        /\ step.via = "first" => step'.op = "dial"
    BY <1>1, Concluded
  <2>2. CASE step.via = "first"
    BY <2>1, <2>2 DEF UnderWay
  <2>3. CASE step.via # "first"
    <3>1. Has(jobs, "dial") /\ ~ DialJob
      BY <2>1, <2>3, OnlyQueued DEF DialJob, LoopReady, Idle, Step
    <3>2. Has(jobs', "dial")
      BY <3>1, Remains DEF Handles
    <3>. QED
      BY <3>2 DEF UnderWay
  <2>. QED
    BY <2>2, <2>3
<1>. QED
  BY <1>1, GoesOn, Zenon

\* What can be dialled is dialled.
LEMMA DialsStep == TypeOK /\ Dialling /\ Dials /\ [Next]_vars => Dials'
<1>. SUFFICES ASSUME TypeOK, Dialling, Dials, [Next]_vars,
                     Undisturbed', state' = "DISCONNECTED", CanDial'
              PROVE  retry' \/ Has(jobs', "evTech") \/ Has(jobs', "evDisconnected") \/ UnderWay'
  BY DEF Dials, UnderWay
<1>1. Undisturbed
  BY ExcuseStep DEF Undisturbed
<1>2. jobs \in Seq(Jobs) /\ retry \in BOOLEAN /\ state \in {"DISCONNECTED", "CONNECTING", "CONNECTED"}
  BY Zenon DEF TypeOK
<1>3. CASE state = "CONNECTED"
  <2>1. SearchOperators \/ \E q \in Seq(Jobs) : HandleDisconnect(q)
    <3>1. ConnectDone => HandleDisconnect(jobs)
      BY Concluded
    <3>2. DisconnectJob => HandleDisconnect(Tail(jobs)) /\ Tail(jobs) \in Seq(Jobs)
      BY JobTaken, Zenon DEF DisconnectJob
    <3>. QED
      BY <1>2, <1>3, <3>1, <3>2, States
  <2>2. SearchOperators => Has(jobs', "evDisconnected")
    BY <1>3, Searching, Zenon DEF Queued, Connection
  <2>. QED
    BY <1>3, <2>1, <2>2, Lost
<1>4. CASE state = "CONNECTING"
  <2>1. UnderWay
    BY <1>4 DEF Dialling, UnderWay
  <2>. QED
    BY <2>1, Again
<1>5. CASE ~ CanDial
  BY <1>5, Possible
<1>6. CASE state = "DISCONNECTED" /\ CanDial
  <2>1. ASSUME NEW q \in Seq(Jobs), NEW armed \in BOOLEAN, StartDataConnection(armed, q)
        PROVE  armed
    BY <1>6, <2>1, Starts
  <2>2. CASE retry
    <3>1. RetryTimer => StartDataConnection(FALSE, jobs)
      BY Zenon DEF RetryTimer
    <3>2. ~ RetryTimer
      BY <1>2, <2>1, <3>1
    <3>. QED
      BY <2>2, <3>2, RetryStays
  <2>3. CASE ~ retry
    <3>1. ~ (TechJob \/ DisconnectedJob)
      <4>1. TechJob \/ DisconnectedJob => /\ StartDataConnection(retry, Tail(jobs))
                                          /\ \E j : LoopReady(j)
        BY Zenon DEF TechJob, DisconnectedJob
      <4>2. (\E j : LoopReady(j)) => Tail(jobs) \in Seq(Jobs)
        BY JobTaken, Zenon
      <4>. QED
        BY <1>2, <2>1, <2>3, <4>1, <4>2, Zenon
    <3>2. Has(jobs, "evTech") => Has(jobs', "evTech")
      BY <3>1, Remains DEF Handles
    <3>3. Has(jobs, "evDisconnected") => Has(jobs', "evDisconnected")
      BY <3>1, Remains DEF Handles
    <3>4. UnderWay => retry' \/ UnderWay'
      BY Again
    <3>5. Has(jobs, "evTech") \/ Has(jobs, "evDisconnected") \/ UnderWay
      BY <1>1, <1>6, <2>3 DEF Dials, UnderWay
    <3>. QED
      BY <3>2, <3>3, <3>4, <3>5
  <2>. QED
    BY <2>2, <2>3
<1>. QED
  BY <1>2, <1>3, <1>4, <1>5, <1>6

-----------------------------------------------------------------------------
(* A context is found. *)

\* A daemon that has heard nothing stays so.
LEMMA UnawareStays ==
  ASSUME TypeOK, [Next]_vars, Unaware, ctx' = ctx, ctx # {}
  PROVE  Unaware'
<1>1. jobs = <<>> /\ step = Idle /\ step.op = "idle" /\ ~ (timers > 0) /\ asked = "no" /\ cfg.vendor # "huawei"
  BY DEF Unaware, Idle, Step
<1>2. \A j : ~ LoopReady(j)
  BY <1>1, Zenon DEF LoopReady
<1>3. ~ (NetworkChange \/ ConnectJob \/ DialJob \/ InitJob \/ DisconnectJob \/ TechJob
         \/ ConnectedJob \/ DisconnectedJob)
  BY <1>2, Zenon DEF NetworkChange, ConnectJob, DialJob, InitJob, DisconnectJob, TechJob,
     ConnectedJob, DisconnectedJob
<1>4. ~ (CopsAnswered \/ AskReg \/ AskDone \/ CidAnswered \/ QueryAnswered \/ ConnectDone \/ DialAnswered)
  BY <1>1 DEF CopsAnswered, AskReg, AskDone, CidAnswered, QueryAnswered, ConnectDone, DialAnswered
<1>5. ~ (AskSignal \/ RetryTimer \/ AnswerReg \/ NetworkChanges \/ SearchOperators)
  BY <1>1 DEF AskSignal, RetryTimer, AnswerReg, NetworkChanges, SearchOperators, Step
<1>6. \A d \in Domains : ~ Report(d)
  BY Zenon DEF Report, Unaware
<1>7. ~ ContextChanges
  <2>1. ContextChanges => ctx' # ctx
    BY DEF ContextChanges
  <2>. QED
    BY <2>1
<1>8. DelayedStart \/ UNCHANGED vars
  BY <1>3, <1>4, <1>5, <1>6, <1>7, Zenon
     DEF Next, RegistrationStep, RegistrationReader, RegistrationLoop, LoopStep
<1>9. UNCHANGED <<jobs, step, timers, tech, asked, told, net, cfg>>
  BY <1>8, Zenon DEF DelayedStart, vars, regVars, modemVars, loopVars, dataVars, connVars, dialVars
<1>. QED
  BY <1>9, Zenon DEF Unaware, Idle, Step, Truth, NotRegistered

\* A context that is there is found.
LEMMA FoundStep ==
  TypeOK /\ Starting /\ Addressed /\ Found /\ [Next]_vars => Found'
<1>. SUFFICES ASSUME TypeOK, Starting, Addressed, Found, [Next]_vars,
                     Undisturbed', ctx' # {}, state' # "CONNECTED"
              PROVE  Finding'
  BY DEF Found, Finding
<1>1. Undisturbed
  BY ExcuseStep DEF Undisturbed
<1>2. cfg' = cfg
  BY LoopKeeps, Zenon DEF Next, RegistrationStep, vars, dataVars
<1>3. CASE ctx' # ctx
  BY <1>3, ContextHeard DEF News, Finding
<1>8. ~ SearchOperators
  <2>1. SearchOperators => Blame("overtaken", ctx' # {})
    BY Zenon DEF SearchOperators
  <2>. QED
    BY <2>1, Blamed DEF Causes
<1>4. ASSUME ctx' = ctx, Has(jobs, "connect")
      PROVE  Finding'
  <2>1. ConnectJob => step'.op = "query"
    BY StepKinds DEF ConnectJob, QueryContext
  <2>2. ~ ConnectJob => Has(jobs', "connect")
    BY <1>4, Remains DEF Handles
  <2>. QED
    BY <2>1, <2>2 DEF Finding
<1>5. CASE ctx' = ctx /\ ConnectDone
  <2>1. step.op = "got" /\ step.got = {}
    BY <1>5, Concluded
  <2>2. Has(jobs, "connect")
    BY <1>1, <1>5, <2>1 DEF Addressed, News
  <2>. QED
    BY <1>4, <1>5, <2>2
<1>6. CASE ctx' = ctx /\ ~ ConnectDone /\ state = "CONNECTED"
  <2>1. ~ DialAnswered \/ UNCHANGED <<state, addrs>>
    <3>1. ASSUME DialAnswered
          PROVE  (UNCHANGED <<state, addrs>>) \/ Blame("overtaken", state = "CONNECTED")
      BY <3>1, Zenon DEF DialAnswered
    <3>2. ~ Blame("overtaken", state = "CONNECTED")
      BY <1>6, Blamed DEF Causes
    <3>. QED
      BY <3>1, <3>2
  <2>2. DisconnectJob
    BY <1>6, <1>8, <2>1, States
  <2>3. /\ LoopReady("disconnect") /\ HandleDisconnect(Tail(jobs))
        /\ Blame("overtaken", cfg.vendor = "asr" /\ ctx # {}
                                /\ \A i \in 2 .. Len(jobs) : jobs[i].job # "connect")
    BY <2>2, Zenon DEF DisconnectJob
  <2>4. cfg.vendor = "asr"
    <3>1. Has(jobs, "disconnect")
      BY <2>3, JobTaken
    <3>. QED
      BY <3>1, DataAssumption DEF Addressed, TypeOK
  <2>5. PICK i \in 2 .. Len(jobs) : jobs[i].job = "connect"
    BY <1>6, <2>3, <2>4, Blamed DEF Causes
  <2>6. Has(jobs, "connect")
    <3>1. i \in DOMAIN jobs
      BY <2>5 DEF TypeOK
    <3>. QED
      BY <2>5, <3>1 DEF Has
  <2>. QED
    BY <1>4, <1>6, <2>6
<1>7. CASE ctx' = ctx /\ ~ ConnectDone /\ state # "CONNECTED"
  <2>1. Finding
    BY <1>1, <1>7 DEF Found, Finding
  <2>2. CASE cfg.vendor = "asr" /\ Has(jobs, "init")
    <3>1. InitJob => step' = Step("cid", "detect")
      BY <2>2 DEF InitJob, Starting
    <3>2. InitJob => step'.op = "cid"
      BY <3>1, StepKinds
    <3>3. ~ InitJob => Has(jobs', "init")
      BY <2>2, Remains DEF Handles
    <3>. QED
      BY <1>2, <2>2, <3>2, <3>3 DEF Finding
  <2>3. CASE step.op \in {"cid", "query", "got"}
    <3>1. CASE step' = step
      BY <2>3, <3>1 DEF Finding
    <3>2. CASE QueryAnswered
      BY <3>2, Answered DEF Finding
    <3>3. CASE CidAnswered
      <4>1. step' = Step("query", "detect") \/ Blame("failed", ctx # {})
        BY <3>3, Zenon DEF CidAnswered
      <4>2. ~ Blame("failed", ctx # {})
        BY <1>7, Blamed DEF Causes
      <4>. QED
        BY <4>1, <4>2, StepKinds DEF Finding
    <3>. QED
      BY <1>7, <2>3, <3>1, <3>2, <3>3, Moves
  <2>4. CASE cfg.vendor = "huawei" /\ first
    <3>1. first' = first
      BY <1>7, <1>8, Zenon DEF Next, RegistrationStep, LoopStep, ConnectJob, DisconnectJob, QueryAnswered,
         DialJob, DialAnswered, RetryTimer, TechJob, InitJob, CidAnswered, ConnectedJob, DelayedStart,
         DisconnectedJob, ContextChanges, NetworkChanges, vars, dataVars, connVars
    <3>. QED
      BY <1>2, <2>4, <3>1 DEF Finding
  <2>5. CASE Unaware
    BY <1>7, <2>5, UnawareStays DEF Finding
  <2>. QED
    BY <1>4, <1>7, <2>1, <2>2, <2>3, <2>4, <2>5 DEF Finding
<1>. QED
  BY <1>3, <1>5, <1>6, <1>7

-----------------------------------------------------------------------------
(* The theorems. *)

\* The inductive invariant holds in the beginning.
LEMMA DataStarts == Init => DataInv
<1>. SUFFICES ASSUME Init PROVE DataInv
  OBVIOUS
<1>1. TypeOK
  BY InitTypes
<1>2. /\ step = Idle /\ state = "DISCONNECTED" /\ addrs = {} /\ iface = {} /\ leased = {}
      /\ dhcp = [inited |-> FALSE, ifaces |-> {}] /\ delayed = 0
      /\ tech = "none" /\ netReg = "none" /\ asked = "no"
      /\ regs = [d \in AllDomains |-> NotRegistered]
      /\ told = [d \in AllDomains |-> IF d \in Domains THEN Truth(net, d) ELSE NotRegistered]
  BY Zenon DEF Init, RInit
<1>3. ~ retry /\ timers = 0 /\ first
  BY Zenon DEF Init
<1>4. \/ jobs = <<Job("init")>>
      \/ jobs = <<>> /\ cfg.vendor = "asr" /\ (net # NotRegistered => "unasked" \in excuse)
  <2>1. jobs = <<Job("init")>> \/ (jobs = <<>> /\ cfg.vendor = "asr")
    BY Zenon DEF Init
  <2>2. jobs = <<>> /\ net # NotRegistered => "unasked" \in excuse
    BY DEF Init
  <2>. QED
    BY <2>1, <2>2
<1>5. jobs = <<Job("init")>> =>
        /\ Has(jobs, "init") /\ Head(jobs).job = "init" /\ Tail(jobs) = <<>>
        /\ \A j : Has(jobs, j) => j = "init"
  BY DEF Has, Job
<1>6. \A j : Has(jobs, j) => j = "init"
  BY <1>4, <1>5, Nothing
<1>7. NoEvents(jobs) /\ ~ Connection
  BY <1>2, <1>6 DEF NoEvents, Connection
<1>8. LastTells(jobs, Connection, addrs)
  BY <1>7, Zenon DEF LastTells, NoEvents, Has, Events
<1>9. Told /\ Leases
  BY <1>2, <1>7, <1>8 DEF Told, Leases
<1>10. Starting
  BY <1>2, <1>3, <1>4, <1>5, Nothing, Zenon DEF Starting, InitFirst
<1>11. Registers
  <2>1. ASSUME NEW d \in Domains
        PROVE  \/ regs[d] = told[d]
               \/ regs[d] = NotRegistered /\ ("unasked" \in excuse \/ WillAsk(d))
    <3>1. d \in AllDomains /\ regs[d] = NotRegistered /\ told[d] = Truth(net, d)
      BY <1>2, RegistrationAssumption
    <3>2. net = NotRegistered => told[d] = NotRegistered
      BY <3>1, ModemTypes, Zenon
    <3>3. jobs = <<Job("init")>> => WillAsk(d)
      BY <1>5, Zenon DEF WillAsk
    <3>. QED
      BY <1>4, <3>1, <3>2, <3>3
  <2>. QED
    BY <2>1 DEF Registers
<1>12. WorkedOut
  <2>1. Deciding = NotRegistered
    BY <1>2 DEF Deciding, IsRegistered, AllDomains, NotRegistered
  <2>2. NetworkReg(NotRegistered) = "none" /\ NetworkTech(NotRegistered) = "none"
    BY DEF NetworkReg, NetworkTech, NotRegistered, IsRegistered
  <2>3. step.op = "idle"
    BY <1>2 DEF Idle, Step
  <2>. QED
    BY <1>2, <2>1, <2>2, <2>3 DEF WorkedOut
<1>13. Addressed
  <2>1. step.op = "idle"
    BY <1>2 DEF Idle, Step
  <2>. QED
    BY <1>2, <1>6, <2>1 DEF Addressed
<1>14. ~ CanDial
  BY <1>2 DEF CanDial
<1>15. Armed /\ Dialling /\ Dials
  BY <1>2, <1>3, <1>14 DEF Armed, Dialling, Dials
<1>16. Found
  <2>1. CASE jobs = <<>> /\ cfg.vendor = "asr"
    <3>1. \A d \in Domains : told[d] = Truth(net, d)
      BY <1>2, RegistrationAssumption
    <3>2. Unaware
      BY <1>2, <1>3, <2>1, <3>1, Zenon DEF Unaware
    <3>. QED
      BY <3>2 DEF Found, Finding
  <2>2. CASE jobs = <<Job("init")>>
    <3>1. cfg.vendor \in {"asr", "huawei"}
      BY <1>1, DataAssumption DEF TypeOK
    <3>. QED
      BY <1>3, <1>5, <2>2, <3>1, Zenon DEF Found, Finding
  <2>. QED
    BY <1>4, <2>1, <2>2
<1>. QED
  BY <1>1, <1>9, <1>10, <1>11, <1>12, <1>13, <1>15, <1>16, Zenon DEF DataInv

\* Every step keeps the inductive invariant.
LEMMA DataStep == DataInv /\ [Next]_vars => DataInv'
<1>. SUFFICES ASSUME DataInv, [Next]_vars PROVE DataInv'
  OBVIOUS
<1>1. TypeOK' /\ Told' /\ Leases'
  BY TypeStep, ToldStep, LeasesStep, Zenon DEF DataInv
<1>2. Starting' /\ Registers' /\ WorkedOut'
  BY StartingStep, RegistersStep, WorkedOutStep, Zenon DEF DataInv
<1>3. Addressed' /\ Armed' /\ Dialling' /\ Dials' /\ Found'
  BY AddressedStep, ArmedStep, DiallingStep, DialsStep, FoundStep, Zenon DEF DataInv
<1>. QED
  BY <1>1, <1>2, <1>3, Zenon DEF DataInv

\* Registration, connection, interface and leases agree, or what will make them agree
\* is queued, waited for or excused.
THEOREM Agreement == Spec => []DataInv
BY DataStarts, DataStep, PTL DEF Spec

\* When all is quiet nothing is queued, awaited or timed.
LEMMA WhenQuiet ==
  ASSUME Quiet
  PROVE  /\ NoEvents(jobs) /\ \A j : ~ Has(jobs, j)
         /\ step.op = "idle" /\ step = Idle /\ timers = 0 /\ ~ stopped
BY Nothing DEF Quiet, NoEvents, Idle, Step

\* However reports, queries and AT+COPS? come between each other, the technology and
\* the registration are in the end those of the register that decides.
THEOREM RegistrationKnown == Spec => []RegistrationFollows
<1>1. DataInv => RegistrationFollows
  <2>. SUFFICES ASSUME DataInv, Quiet
                PROVE  /\ ~ misread => \A d \in Domains :
                            \/ regs[d] = told[d]
                            \/ d \in unheard
                            \/ "unasked" \in excuse /\ regs[d] = NotRegistered
                       /\ netReg = NetworkReg(Deciding)
                       /\ NetworkTech(Deciding) # "unknown" => tech = NetworkTech(Deciding)
    BY Zenon DEF RegistrationFollows
  <2>1. \A d : ~ WillAsk(d)
    BY WhenQuiet DEF WillAsk
  <2>. QED
    BY <2>1, WhenQuiet DEF DataInv, Registers, WorkedOut
<1>. QED
  BY <1>1, Agreement, PTL

\* netifd has the addresses of the connection, which are those of the modem's context.
THEOREM IfaceKnown == Spec => []IfaceFollows
<1>1. DataInv => IfaceFollows
  <2>. SUFFICES ASSUME DataInv, cfg.proto = "static", ~ stopped
                PROVE  /\ (\A i \in DOMAIN jobs : jobs[i].job \notin {"evConnected", "evDisconnected"}) =>
                             iface = IF state = "CONNECTED" THEN addrs ELSE {}
                       /\ Quiet /\ Undisturbed /\ state = "CONNECTED" => ctx \subseteq iface /\ ctx # {}
    BY Zenon DEF IfaceFollows
  <2>1. NoEvents(jobs) => iface = IF state = "CONNECTED" THEN addrs ELSE {}
    BY Zenon DEF DataInv, Told, Connection
  <2>2. (\A i \in DOMAIN jobs : jobs[i].job \notin {"evConnected", "evDisconnected"}) => NoEvents(jobs)
    BY DEF NoEvents, Has
  <2>3. Quiet /\ Undisturbed /\ state = "CONNECTED" => ctx \subseteq addrs /\ ctx # {}
    BY WhenQuiet DEF DataInv, Addressed, News
  <2>4. Quiet => NoEvents(jobs)
    BY WhenQuiet
  <2>. QED
    BY <2>1, <2>2, <2>3, <2>4
<1>. QED
  BY <1>1, Agreement, PTL

\* The modem is never left without a connection that it could have.
THEOREM NothingLost == Spec => []NoSilentLoss
<1>1. DataInv => NoSilentLoss
  <2>. SUFFICES ASSUME DataInv, Quiet, Undisturbed, state # "CONNECTED"
                PROVE  /\ ~ CanDial
                       /\ ctx = {} \/ tech = "none" \/ (cfg.vendor = "huawei" /\ first)
    BY Zenon DEF NoSilentLoss
  <2>1. ~ UnderWay
    BY WhenQuiet DEF UnderWay
  <2>2. state = "DISCONNECTED"
    BY <2>1 DEF DataInv, TypeOK, Dialling
  <2>3. ~ CanDial
    BY <2>1, <2>2, WhenQuiet DEF DataInv, Armed, Dials
  <2>4. Finding => tech = "none" \/ (cfg.vendor = "huawei" /\ first)
    BY WhenQuiet, Zenon DEF Finding, Unaware
  <2>. QED
    BY <2>3, <2>4 DEF DataInv, Found
<1>. QED
  BY <1>1, Agreement, PTL

\* A lease ends with the connection it was asked for.
THEOREM LeasesEnd == Spec => []LeaseNeedsConnection
<1>1. DataInv => LeaseNeedsConnection
  BY WhenQuiet, Zenon DEF DataInv, Leases, LeaseNeedsConnection, Connection
<1>. QED
  BY <1>1, Agreement, PTL

\* With a connection the lease of IPv4 has been asked for.
THEOREM LeasesBegin == Spec => []ConnectedHasLease
<1>1. DataInv => ConnectedHasLease
  <2>. SUFFICES ASSUME DataInv, Quiet, delayed = 0, cfg.proto = "dhcp", state = "CONNECTED"
                PROVE  "_4" \in leased
    BY Zenon DEF ConnectedHasLease
  <2>1. leased # {} /\ leased \subseteq {"_4"}
    BY WhenQuiet DEF DataInv, Leases, Connection
  <2>. QED
    BY <2>1
<1>. QED
  BY <1>1, Agreement, PTL

=============================================================================

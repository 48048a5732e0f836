--------------------------- MODULE SmsStoreProofs ---------------------------
(***************************************************************************)
(* Theorems about Sim and SmsStore: for every kind of card, with a PIN or  *)
(* without, any parts and slots, and any number of failures and starts of  *)
(* the daemon.                                                             *)
(***************************************************************************)
EXTENDS SmsStore, FiniteSetTheorems, SequenceTheorems, WellFoundedInduction, TLAPS

-----------------------------------------------------------------------------
(* The SIM: the tries of the PIN. *)

TryTypes ==
  /\ sent \in Nat /\ starts \in Nat /\ tries \in Nat
  /\ entered \in BOOLEAN /\ unlock \in BOOLEAN

\* A job that sends the PIN is queued only when m_pincode_entered is set, so the try
\* of this start is spent, or queued, or left.
Budget ==
  /\ sent <= starts
  /\ unlock => entered
  /\ unlock \/ ~ entered => sent < starts

\* A wrong PIN that the card has counted is one that the program has sent.
Counted ==
  /\ tries <= sent
  /\ step = "unlocking" => tries < sent

TryInv == TryTypes /\ Budget /\ Counted

\* handleCpin() moves a try from those left to those queued, or leaves both alone.
LEMMA HandleCpinBudget ==
  ASSUME TryTypes, Budget, UNCHANGED <<sent, starts>>,
         NoLine \/ \E code \in Codes : HandleCpin(code)
  PROVE  Budget' /\ entered' \in BOOLEAN /\ unlock' \in BOOLEAN
<1>1. CASE NoLine
  BY <1>1 DEF NoLine, TryTypes, Budget
<1>2. CASE \E code \in Codes : HandleCpin(code)
  <2> PICK code \in Codes : HandleCpin(code)
    BY <1>2
  <2>1. CASE StateOf(code) = "PIN1_LOCK" /\ HasPin /\ ~ entered
    BY <2>1 DEF HandleCpin, TryTypes, Budget
  <2>2. CASE ~ (StateOf(code) = "PIN1_LOCK" /\ HasPin /\ ~ entered)
    BY <2>2 DEF HandleCpin, TryTypes, Budget
  <2> QED BY <2>1, <2>2
<1> QED BY <1>1, <1>2

\* The tries are kept account of in every step of the program, the card and netifd.
LEMMA TryStep == TryInv /\ [SimNext]_simVars => TryInv'
<1> SUFFICES ASSUME TryInv, [SimNext]_simVars PROVE TryInv'
  OBVIOUS
<1> USE DEF TryInv
<1>1. CASE CardChanges
  <2>1. NoLine \/ \E code \in Codes : HandleCpin(code)
    BY <1>1 DEF CardChanges
  <2>2. UNCHANGED <<sent, starts, tries, step>>
    BY <1>1 DEF CardChanges
  <2> QED BY <2>1, <2>2, HandleCpinBudget DEF TryTypes, Counted
<1>2. CASE AskAnswered
  <2>1. NoLine \/ \E code \in Codes : HandleCpin(code)
    BY <1>2 DEF AskAnswered
  <2>2. /\ UNCHANGED <<sent, starts, tries>>
        /\ step = "asking" /\ step' = "answered"
    BY <1>2 DEF AskAnswered, modemVars
  <2>3. Budget' /\ entered' \in BOOLEAN /\ unlock' \in BOOLEAN
    BY <2>1, <2>2, HandleCpinBudget
  <2> QED BY <2>2, <2>3 DEF TryTypes, Counted
<1>3. CASE PinTaken
  <2>1. NoLine \/ \E code \in Codes : HandleCpin(code)
    BY <1>3 DEF PinTaken
  <2>2. UNCHANGED <<sent, starts>>
    BY <1>3 DEF PinTaken
  <2>3. Budget' /\ entered' \in BOOLEAN /\ unlock' \in BOOLEAN
    BY <2>1, <2>2, HandleCpinBudget
  <2>4. /\ step = "unlocking" /\ step' = "unlocked"
        /\ tries' = tries + 1 \/ tries' = tries
    BY <1>3 DEF PinTaken
  <2> QED BY <2>2, <2>3, <2>4 DEF TryTypes, Counted
<1>4. CASE UnlockJob
  <2>1. /\ unlock /\ ~ unlock' /\ unlock' \in BOOLEAN
        /\ UNCHANGED entered
    BY <1>4, Zenon DEF UnlockJob
  <2>2. /\ sent' = sent + 1
        /\ step = "free" /\ step' = "unlocking"
        /\ UNCHANGED <<tries, starts>>
    BY <1>4, Zenon DEF UnlockJob, modemVars
  <2> QED BY <2>1, <2>2 DEF TryTypes, Budget, Counted
<1>5. CASE Restart
  <2>1. ~ entered' /\ ~ unlock' /\ entered' \in BOOLEAN /\ unlock' \in BOOLEAN
    BY <1>5, Zenon DEF Restart, ProgramStarts
  <2>2. step' = "asking" /\ starts' = starts + 1 /\ UNCHANGED <<tries, sent>>
    BY <1>5, Zenon DEF Restart, ProgramStarts, modemVars
  <2> QED BY <2>1, <2>2 DEF TryTypes, Budget, Counted
<1>6. CASE Poll \/ AskDone \/ UnlockDone \/ InitSms \/ InitSmsDone \/ UNCHANGED simVars
  BY <1>6 DEF Poll, AskDone, UnlockDone, InitSms, InitSmsDone, simVars, pollVars, modemVars,
              TryTypes, Budget, Counted
<1> QED BY <1>1, <1>2, <1>3, <1>4, <1>5, <1>6 DEF SimNext

\* The daemon never sends the PIN of the configuration more often than it is
\* started (handleSimLock(), m_pincode_entered), whatever lines the card sends, in
\* whatever order with the job, the command and the polling.
THEOREM OneTry == SimSpec => []OneTryPerStart
<1>1. SimInit => TryInv
  <2> SUFFICES ASSUME SimInit PROVE TryInv
    OBVIOUS
  <2>1. ~ entered /\ ~ unlock /\ entered \in BOOLEAN /\ unlock \in BOOLEAN
    BY Zenon DEF SimInit
  <2>2. step = "asking" /\ starts = 1 /\ sent = 0 /\ tries = 0
    BY Zenon DEF SimInit
  <2> QED BY <2>1, <2>2 DEF TryInv, TryTypes, Budget, Counted
<1>2. TryInv => OneTryPerStart
  BY DEF TryInv, TryTypes, Budget, OneTryPerStart
<1> QED BY <1>1, <1>2, TryStep, PTL DEF SimSpec

-----------------------------------------------------------------------------
(* The SIM: types. *)

\* The try of this start is not spent yet, or its command is on its way: the job
\* will begin a polling of its own.
Pending == unlock \/ ~ entered \/ step \in {"unlocking", "unlocked"}

Asking == step \in {"asking", "answered"}

\* There are at most two pollings, that of init() and that of the job.
TwoPollings ==
  /\ pollers \in Nat
  /\ pollers <= 2
  /\ Asking \/ Pending => pollers <= 1
  /\ Asking /\ Pending => pollers = 0
  /\ step \in {"unlocking", "unlocked"} => entered /\ ~ unlock

\* The variables that neither proof above is about.
RestTypes ==
  /\ card \in Cards /\ changes \in 0 .. MaxChanges
  /\ goodPin \in BOOLEAN /\ preferSim \in BOOLEAN /\ all \in Storages
  /\ sim \in SimStates /\ initTimers \in Nat
  /\ step \in Steps
  /\ answer \in CmeErrors \cup {"none", "OK", "TIMEOUT"}
  /\ smsReady \in BOOLEAN /\ starts \in 1 .. MaxStarts
  /\ excuses \subseteq {"failed", "overwritten", "unreported", "unsupported"}

\* Every code stands for a state, and no line leaves the types.
LEMMA HandleCpinTypes ==
  ASSUME sim \in SimStates, initTimers \in Nat,
         NoLine \/ \E code \in Codes : HandleCpin(code)
  PROVE  sim' \in SimStates /\ initTimers' \in Nat
<1>1. CASE NoLine
  BY <1>1, Zenon DEF NoLine
<1>2. CASE \E code \in Codes : HandleCpin(code)
  <2> PICK code \in Codes : HandleCpin(code)
    BY <1>2
  <2>1. StateOf(code) \in SimStates
    BY DEF StateOf, SimStates, Codes
  <2>2. sim' = StateOf(code) /\ initTimers' \in {initTimers, initTimers + 1}
    BY DEF HandleCpin, SetSimState
  <2> QED BY <2>1, <2>2
<1> QED BY <1>1, <1>2

\* What a line does to the PIN: nothing, or the try of this start is queued.
LEMMA HandleCpinPin ==
  ASSUME entered \in BOOLEAN, unlock \in BOOLEAN,
         NoLine \/ \E code \in Codes : HandleCpin(code)
  PROVE  \/ (entered' <=> entered) /\ (unlock' <=> unlock)
         \/ ~ entered /\ entered' /\ unlock'
<1>1. CASE NoLine
  <2>1. entered' = entered /\ unlock' = unlock
    BY <1>1 DEF NoLine
  <2> QED BY <2>1, Zenon
<1>2. CASE \E code \in Codes : HandleCpin(code)
  <2> PICK code \in Codes : HandleCpin(code)
    BY <1>2
  <2> DEFINE enter == StateOf(code) = "PIN1_LOCK" /\ HasPin /\ ~ entered
  <2>1. (unlock' <=> (unlock \/ enter)) /\ (entered' <=> (entered \/ enter))
    BY Zenon DEF HandleCpin
  <2>2. enter => ~ entered
    BY Zenon
  <2> HIDE DEF enter
  <2> QED BY <2>1, <2>2, Zenon
<1> QED BY <1>1, <1>2

\* Who polls is kept account of in every step.
LEMMA PollStep ==
  TryInv /\ TwoPollings /\ [SimNext]_simVars => TwoPollings'
<1> SUFFICES ASSUME TryInv, TwoPollings, [SimNext]_simVars PROVE TwoPollings'
  OBVIOUS
<1>b. /\ entered \in BOOLEAN /\ unlock \in BOOLEAN
      /\ unlock => entered
  BY DEF TryInv, TryTypes, Budget
<1>1. CASE CardChanges
  <2>1. NoLine \/ \E code \in Codes : HandleCpin(code)
    BY <1>1 DEF CardChanges
  <2>2. UNCHANGED <<pollers, step>>
    BY <1>1 DEF CardChanges
  <2> QED BY <1>b, <2>1, <2>2, HandleCpinPin DEF TwoPollings, Pending, Asking
<1>2. CASE AskAnswered
  <2>1. NoLine \/ \E code \in Codes : HandleCpin(code)
    BY <1>2 DEF AskAnswered
  <2>2. UNCHANGED pollers /\ step = "asking" /\ step' = "answered"
    BY <1>2 DEF AskAnswered
  <2> QED BY <1>b, <2>1, <2>2, HandleCpinPin DEF TwoPollings, Pending, Asking
<1>3. CASE PinTaken
  <2>1. NoLine \/ \E code \in Codes : HandleCpin(code)
    BY <1>3 DEF PinTaken
  <2>2. UNCHANGED pollers /\ step = "unlocking" /\ step' = "unlocked"
    BY <1>3 DEF PinTaken
  <2> QED BY <1>b, <2>1, <2>2, HandleCpinPin DEF TwoPollings, Pending, Asking
<1>4. CASE UnlockJob
  <2>1. unlock /\ ~ unlock' /\ (entered' <=> entered)
    BY <1>4, Zenon DEF UnlockJob
  <2>2. UNCHANGED pollers /\ step = "free" /\ step' = "unlocking"
    BY <1>4, Zenon DEF UnlockJob
  <2> QED BY <1>b, <2>1, <2>2 DEF TwoPollings, Pending, Asking
<1>5. CASE Restart
  <2>1. ~ entered' /\ ~ unlock'
    BY <1>5, Zenon DEF Restart, ProgramStarts
  <2>2. step' = "asking" /\ pollers' = 0
    BY <1>5, Zenon DEF Restart, ProgramStarts
  <2> QED BY <2>1, <2>2 DEF TwoPollings, Pending, Asking
<1>6. CASE Poll
  <2>1. UNCHANGED <<entered, unlock>>
    BY <1>6, Zenon DEF Poll
  <2>2. pollers > 0 /\ pollers' = pollers - 1 /\ step = "free" /\ step' \in {"asking", "free"}
    BY <1>6 DEF Poll
  <2> QED BY <2>1, <2>2 DEF TwoPollings, Pending, Asking
<1>7. CASE AskDone
  <2>1. UNCHANGED <<entered, unlock>>
    BY <1>7, Zenon DEF AskDone
  <2>2. pollers' = pollers + 1 /\ step = "answered" /\ step' = "free"
    BY <1>7, Zenon DEF AskDone
  <2> QED BY <2>1, <2>2 DEF TwoPollings, Pending, Asking
<1>8. CASE UnlockDone \/ InitSms \/ InitSmsDone \/ UNCHANGED simVars
  <2>1. UNCHANGED <<entered, unlock, pollers>>
    BY <1>8, Zenon DEF UnlockDone, InitSms, InitSmsDone, simVars, pollVars
  <2>2. \/ step = "unlocked" /\ step' = "asking"
        \/ step = "free" /\ step' \in {"free", "initSms"}
        \/ step = "initSms" /\ step' = "free"
        \/ UNCHANGED step
    BY <1>8 DEF UnlockDone, InitSms, InitSmsDone, simVars, pollVars
  <2> QED BY <1>b, <2>1, <2>2 DEF TwoPollings, Pending, Asking
<1> QED BY <1>1, <1>2, <1>3, <1>4, <1>5, <1>6, <1>7, <1>8 DEF SimNext

\* setSimState() keeps the type of what it writes.
LEMMA SetSimStateTypes ==
  ASSUME initTimers \in Nat, NEW new \in SimStates, SetSimState(new)
  PROVE  sim' \in SimStates /\ initTimers' \in Nat
BY DEF SetSimState

\* The remaining types are kept by every step.
LEMMA RestStep == RestTypes /\ [SimNext]_simVars => RestTypes'
<1> SUFFICES ASSUME RestTypes, [SimNext]_simVars PROVE RestTypes'
  OBVIOUS
<1>k. Cards = Codes \cup CmeErrors /\ FirstCards \subseteq Cards
  BY SimAssumption DEF Cards
<1>1. CASE CardChanges
  <2>1. NoLine \/ \E code \in Codes : HandleCpin(code)
    BY <1>1 DEF CardChanges
  <2>2. /\ changes < MaxChanges /\ changes' = changes + 1
        /\ card' \in Cards
        /\ UNCHANGED <<goodPin, preferSim, all, step, answer, smsReady, starts>>
    BY <1>1, Zenon DEF CardChanges
  <2>3. excuses' \subseteq {"failed", "overwritten", "unreported", "unsupported"}
    BY <1>1 DEF CardChanges, RestTypes
  <2> QED BY <2>1, <2>2, <2>3, HandleCpinTypes, SimAssumption DEF RestTypes
<1>2. CASE AskAnswered
  <2>1. NoLine \/ \E code \in Codes : HandleCpin(code)
    BY <1>2 DEF AskAnswered
  <2>2. /\ answer' \in CmeErrors \cup {"none", "OK", "TIMEOUT"} /\ step' = "answered"
        /\ UNCHANGED <<modemVars, smsReady, starts>>
        /\ excuses' \subseteq excuses \cup {"failed"}
    BY <1>2 DEF AskAnswered
  <2> QED BY <2>1, <2>2, HandleCpinTypes DEF RestTypes, modemVars, Steps
<1>3. CASE PinTaken
  <2>1. NoLine \/ \E code \in Codes : HandleCpin(code)
    BY <1>3 DEF PinTaken
  <2>2. /\ card' \in Cards /\ step' = "unlocked"
        /\ UNCHANGED <<changes, goodPin, preferSim, all, answer, smsReady, starts, excuses>>
    BY <1>3, <1>k DEF PinTaken, RestTypes, Codes, CmeErrors
  <2> QED BY <2>1, <2>2, HandleCpinTypes DEF RestTypes, Steps
<1>4. CASE AskDone
  <2>1. PICK new \in SimStates : SetSimState(new)
    BY <1>4, Zenon DEF AskDone, RestTypes, SimStates
  <2>2. /\ step' = "free" /\ answer' = "none"
        /\ UNCHANGED <<modemVars, smsReady, starts>>
        /\ excuses' \subseteq excuses \cup {"overwritten"}
    BY <1>4 DEF AskDone
  <2> QED BY <2>1, <2>2, SetSimStateTypes DEF RestTypes, modemVars, Steps
<1>5. CASE UnlockDone
  <2>1. SetSimState("WAIT_UNLOCK") /\ "WAIT_UNLOCK" \in SimStates
    BY <1>5 DEF UnlockDone, SimStates
  <2>2. step' = "asking" /\ UNCHANGED <<modemVars, answer, smsReady, starts, excuses>>
    BY <1>5 DEF UnlockDone
  <2> QED BY <2>1, <2>2, SetSimStateTypes DEF RestTypes, modemVars, Steps
<1>6. CASE Poll \/ UnlockJob
  BY <1>6 DEF Poll, UnlockJob, RestTypes, modemVars, Steps
<1>7. CASE InitSms \/ InitSmsDone
  <2>1. smsReady' \in BOOLEAN
    BY <1>7, Zenon DEF InitSms, InitSmsDone, RestTypes
  <2>2. /\ step' \in {"free", "initSms"}
        /\ \/ initTimers' = initTimers
           \/ initTimers > 0 /\ initTimers' = initTimers - 1
        /\ UNCHANGED <<modemVars, sim, answer, starts>>
    BY <1>7, Zenon DEF InitSms, InitSmsDone
  <2>3. excuses' \subseteq excuses \cup {"failed", "unsupported"}
    BY <1>7 DEF InitSms, InitSmsDone
  <2> QED BY <2>1, <2>2, <2>3 DEF RestTypes, modemVars, Steps
<1>8. CASE Restart
  <2>1. smsReady' \in BOOLEAN
    BY <1>8, Zenon DEF Restart, ProgramStarts
  <2>2. /\ starts < MaxStarts /\ starts' = starts + 1
        /\ sim' = "NOT_INITIALIZED" /\ step' = "asking" /\ answer' = "none"
        /\ initTimers' = 0 /\ excuses' = {}
        /\ UNCHANGED modemVars
    BY <1>8, Zenon DEF Restart, ProgramStarts
  <2> QED BY <2>1, <2>2, SimAssumption DEF RestTypes, modemVars, Steps, SimStates
<1>9. CASE UNCHANGED simVars
  BY <1>9 DEF simVars, pollVars, modemVars, RestTypes
<1> QED BY <1>1, <1>2, <1>3, <1>4, <1>5, <1>6, <1>7, <1>8, <1>9 DEF SimNext

\* The program starts with its try left and its types.
LEMMA SimStarts == SimInit => TryInv /\ TwoPollings /\ RestTypes
<1> SUFFICES ASSUME SimInit PROVE TryInv /\ TwoPollings /\ RestTypes
  OBVIOUS
<1>1. ~ entered /\ ~ unlock /\ entered \in BOOLEAN /\ unlock \in BOOLEAN
  BY Zenon DEF SimInit
<1>2. step = "asking" /\ starts = 1 /\ sent = 0 /\ tries = 0 /\ pollers = 0
  BY Zenon DEF SimInit
<1>3. goodPin \in BOOLEAN /\ preferSim \in BOOLEAN /\ smsReady \in BOOLEAN
  BY SimAssumption, Zenon DEF SimInit
<1>4. /\ card \in Cards /\ changes = 0 /\ all \in Storages
      /\ sim = "NOT_INITIALIZED" /\ answer = "none" /\ initTimers = 0 /\ excuses = {}
  BY SimAssumption, Zenon DEF SimInit
<1>5. RestTypes
  BY <1>2, <1>3, <1>4, SimAssumption DEF RestTypes, Steps, SimStates
<1> QED BY <1>1, <1>2, <1>5 DEF TryInv, TryTypes, Budget, Counted, TwoPollings, Pending, Asking

\* What is kept account of implies the types.
LEMMA SimImplies == TryInv /\ TwoPollings /\ RestTypes => SimTypeOK
BY SimAssumption DEF TryInv, TryTypes, Budget, Counted, TwoPollings, RestTypes, SimTypeOK

\* The types of the variables hold for any bounds.  They say of the code that no more
\* than two pollings run side by side, that of init() and that of the job that has
\* sent the PIN, and that the program spends at most one wrong PIN for each start.
THEOREM SimTypes == SimSpec => []SimTypeOK
BY SimStarts, SimImplies, TryStep, PollStep, RestStep, PTL DEF SimSpec

-----------------------------------------------------------------------------
(* The database. *)

\* A message has parts of its own reference only, each at its place.
Placed(sms) ==
  \A i \in DOMAIN sms.parts : sms.parts[i] # Empty =>
    LET raw == Decoded(sms.parts[i])
    IN  raw.part = i /\ raw.parts = Len(sms.parts) /\ raw.ref = sms.ref

\* A message that can be in the database or in its file.
Messages == {sms \in Message : Placed(sms)}

\* The list has every message once, newest first.
Index(list, storage, n) ==
  /\ list \in Seq(0 .. n - 1) /\ Len(list) = n
  /\ \A id \in 0 .. n - 1 : \E i \in 1 .. n : list[i] = id
  /\ \A i, j \in 1 .. n : i < j => storage[list[i]].time >= storage[list[j]].time

\* A list with a new entry at a place, after those that are newer.
With(after, list, pos, n) ==
  /\ after \in Seq(0 .. n) /\ Len(after) = n + 1
  /\ \A k \in 1 .. n + 1 : after[k] = IF k < pos THEN list[k]
                                      ELSE IF k = pos THEN n ELSE list[k - 1]

Between(storage, list, pos, n) ==
  /\ \A k \in 1 .. pos - 1 : storage[n].time <= storage[list[k]].time
  /\ pos <= n => storage[n].time >= storage[list[pos]].time

Consistent(d) ==
  /\ d = [storage |-> d.storage, list |-> d.list, used |-> d.used, next |-> d.next]
  /\ d.next \in Nat /\ d.used \in Nat
  /\ d.storage \in [0 .. d.next - 1 -> Messages]
  /\ Index(d.list, d.storage, d.next)

Has(messages, p) == \E i \in DOMAIN messages : Holds(messages[i], p)
InDb(d, p) == Has(d.storage, p)

\* A part is in one message only.
Single(messages) ==
  \A p \in Parts : \A i, j \in DOMAIN messages :
    Holds(messages[i], p) /\ Holds(messages[j], p) => i = j

-----------------------------------------------------------------------------
(* Lemmas about the database. *)

\* A set of naturals has a least element.
LEMMA Least ==
  ASSUME NEW T \in SUBSET Nat, T # {}
  PROVE  \E i \in T : \A j \in T : i <= j
<1> DEFINE R == {ss \in Nat \X Nat : ss[1] < ss[2]}
<1>1. IsWellFoundedOn(R, Nat)
  BY NatLessThanWellFounded DEF OpToRel
<1> HIDE DEF R
<1>2. PICK i \in T : \A j \in T : ~ (<<j, i>> \in R)
  BY <1>1, WFMin
<1>3. \A j \in T : ~ (j < i)
  BY <1>2 DEF R
<1> QED BY <1>3

\* What decodePduToSms() makes of a part: a place among as many as it has.
LEMMA DecodedFacts ==
  ASSUME NEW p \in Parts
  PROVE  /\ Decoded(p).text = p
         /\ Decoded(p).ref \in Nat /\ Decoded(p).time \in Nat
         /\ Decoded(p).parts \in Nat /\ Decoded(p).part \in 1 .. Decoded(p).parts
BY SmsAssumption DEF Decoded

\* A sequence with an element put at a place, and those from there on moved.
PutAt(after, S, q, pos, id) ==
  /\ after \in Seq(S) /\ Len(after) = Len(q) + 1
  /\ \A k \in 1 .. Len(q) + 1 :
       after[k] = IF k < pos THEN q[k] ELSE IF k = pos THEN id ELSE q[k - 1]

\* That is what InsertAt() makes of it.
LEMMA InsertAtFacts ==
  ASSUME NEW S, NEW q \in Seq(S), NEW pos \in 1 .. Len(q) + 1, NEW id \in S
  PROVE  PutAt(InsertAt(q, pos, id), S, q, pos, id)
<1> DEFINE a == SubSeq(q, 1, pos - 1)
           c == SubSeq(q, pos, Len(q))
<1>1. /\ a \in Seq(S) /\ Len(a) = pos - 1 /\ \A k \in 1 .. pos - 1 : a[k] = q[k]
  BY SubSeqProperties
<1>2. /\ c \in Seq(S) /\ Len(c) = Len(q) - pos + 1
      /\ \A k \in 1 .. Len(q) - pos + 1 : c[k] = q[pos + k - 1]
  BY SubSeqProperties
<1>3. <<id>> \in Seq(S) /\ Len(<<id>>) = 1 /\ <<id>>[1] = id
  OBVIOUS
<1> DEFINE x == a \o <<id>>
           r == x \o c
<1>r. InsertAt(q, pos, id) = r
  BY DEF InsertAt
<1> HIDE DEF a, c
<1>4. /\ x \in Seq(S) /\ Len(x) = pos
      /\ \A k \in 1 .. pos : x[k] = IF k < pos THEN a[k] ELSE id
  BY <1>1, <1>3, ConcatProperties
<1> HIDE DEF x
<1>5. /\ r \in Seq(S) /\ Len(r) = Len(q) + 1
      /\ \A k \in 1 .. Len(q) + 1 : r[k] = IF k <= pos THEN x[k] ELSE c[k - pos]
  <2>1. /\ r \in Seq(S) /\ Len(r) = Len(x) + Len(c)
        /\ \A k \in 1 .. Len(x) + Len(c) : r[k] = IF k <= Len(x) THEN x[k] ELSE c[k - Len(x)]
    BY <1>2, <1>4, ConcatProperties
  <2> HIDE DEF r
  <2>2. Len(x) + Len(c) = Len(q) + 1
    BY <1>2, <1>4
  <2>. QED
    BY <1>4, <2>1, <2>2
<1> HIDE DEF r
<1>6. ASSUME NEW k \in 1 .. Len(q) + 1
      PROVE  r[k] = IF k < pos THEN q[k] ELSE IF k = pos THEN id ELSE q[k - 1]
  <2>1. CASE k < pos
    BY <2>1, <1>1, <1>4, <1>5
  <2>2. CASE k = pos
    BY <2>2, <1>4, <1>5
  <2>3. CASE k > pos
    <3>1. k - pos \in 1 .. Len(q) - pos + 1 /\ pos + (k - pos) - 1 = k - 1
      BY <2>3
    <3>2. r[k] = c[k - pos]
      BY <1>5, <2>3
    <3>3. c[k - pos] = q[k - 1]
      BY <3>1, <1>2
    <3> QED BY <2>3, <3>2, <3>3
  <2> QED BY <2>1, <2>2, <2>3
<1> QED BY <1>5, <1>6, <1>r DEF PutAt

\* The list after addToList(): the new message is before those that are not newer.
LEMMA Inserted ==
  ASSUME NEW n \in Nat, NEW list, NEW storage, Index(list, storage, n),
         NEW new \in [0 .. n -> Message],
         \A i \in 0 .. n - 1 : new[i] = storage[i],
         NEW pos \in 1 .. n + 1, NEW after, With(after, list, pos, n),
         Between(new, list, pos, n)
  PROVE  Index(after, new, n + 1)
<1>w. /\ after \in Seq(0 .. n) /\ Len(after) = n + 1
      /\ \A k \in 1 .. n + 1 : after[k] = IF k < pos THEN list[k]
                                          ELSE IF k = pos THEN n ELSE list[k - 1]
  BY DEF With
<1>b. /\ \A k \in 1 .. pos - 1 : new[n].time <= new[list[k]].time
      /\ pos <= n => new[n].time >= new[list[pos]].time
  BY DEF Between
<1>1. \A k \in 1 .. n : list[k] \in 0 .. n - 1
  BY DEF Index
<1>2. \A i \in 0 .. n : new[i].time \in Nat
  BY DEF Message
<1>3. \A i, j \in 1 .. n : i < j => new[list[i]].time >= new[list[j]].time
  BY <1>1 DEF Index
<1> DEFINE u == [k \in 1 .. n |-> new[list[k]].time]
           v == [k \in 1 .. n + 1 |-> new[after[k]].time]
           m == new[n].time
<1>t. /\ m \in Nat /\ u \in [1 .. n -> Nat]
      /\ \A i, j \in 1 .. n : i < j => u[i] >= u[j]
      /\ \A k \in 1 .. pos - 1 : m <= u[k]
      /\ pos <= n => m >= u[pos]
  <2>1. m \in Nat /\ u \in [1 .. n -> Nat]
    BY <1>1, <1>2
  <2>2. \A i, j \in 1 .. n : i < j => u[i] >= u[j]
    BY <1>3
  <2>3. /\ \A k \in 1 .. pos - 1 : m <= u[k]
        /\ pos <= n => m >= u[pos]
    BY <1>b
  <2>. QED
    BY <2>1, <2>2, <2>3
<1>v. \A k \in 1 .. n + 1 : v[k] = IF k < pos THEN u[k] ELSE IF k = pos THEN m ELSE u[k - 1]
  BY <1>w
<1> HIDE DEF u, v, m
<1>4. ASSUME NEW k \in pos .. n
      PROVE  m >= u[k]
  <2>1. k \in 1 .. n /\ pos \in 1 .. n /\ (k = pos \/ pos < k)
    OBVIOUS
  <2>2. u[k] \in Nat /\ u[pos] \in Nat
    BY <1>t, <2>1
  <2>3. CASE k = pos
    BY <1>t, <2>1, <2>3
  <2>4. CASE pos < k
    <3>1. u[pos] >= u[k] /\ m >= u[pos] /\ m \in Nat
      BY <1>t, <2>1, <2>4
    <3>. QED
      BY <2>2, <3>1
  <2>. QED
    BY <2>1, <2>3, <2>4
<1>5. ASSUME NEW i \in 1 .. n + 1, NEW j \in 1 .. n + 1, i < j
      PROVE  v[i] >= v[j]
  <2>1. CASE j < pos
    <3>1. v[i] = u[i] /\ v[j] = u[j] /\ i \in 1 .. n /\ j \in 1 .. n
      BY <1>5, <1>v, <2>1
    <3>. QED
      BY <1>5, <1>t, <3>1
  <2>2. CASE j = pos
    <3>1. v[i] = u[i] /\ v[j] = m /\ i \in 1 .. n /\ i \in 1 .. pos - 1
      BY <1>5, <1>v, <2>2
    <3>2. m \in Nat /\ u[i] \in Nat /\ m <= u[i]
      BY <1>t, <3>1
    <3>. QED
      BY <3>1, <3>2
  <2>3. CASE i < pos /\ j > pos
    <3>1. v[i] = u[i] /\ v[j] = u[j - 1]
      BY <1>5, <1>v, <2>3
    <3>2. i \in 1 .. n /\ j - 1 \in 1 .. n /\ i < j - 1
      BY <1>5, <1>v, <2>3
    <3>. QED
      BY <1>t, <3>1, <3>2
  <2>4. CASE i = pos
    <3>1. v[i] = m /\ v[j] = u[j - 1] /\ j - 1 \in pos .. n
      BY <1>5, <1>v, <2>4
    <3>. QED
      BY <1>4, <3>1
  <2>5. CASE i > pos
    <3>1. v[i] = u[i - 1] /\ v[j] = u[j - 1]
      BY <1>5, <1>v, <2>5
    <3>2. i - 1 \in 1 .. n /\ j - 1 \in 1 .. n /\ i - 1 < j - 1
      BY <1>5, <1>v, <2>5
    <3>. QED
      BY <1>t, <3>1, <3>2
  <2>. QED
    BY <1>5, <2>1, <2>2, <2>3, <2>4, <2>5
<1>6. ASSUME NEW id \in 0 .. n
      PROVE  \E i \in 1 .. n + 1 : after[i] = id
  <2>1. CASE id = n
    BY <1>w, <2>1
  <2>2. CASE id # n
    <3>1. PICK k \in 1 .. n : list[k] = id
      BY <2>2 DEF Index
    <3>2. CASE k < pos
      BY <1>w, <3>1, <3>2
    <3>3. CASE k >= pos
      <4>1. after[k + 1] = id
        BY <1>w, <3>1, <3>3
      <4>. QED
        BY <4>1
    <3>. QED
      BY <3>2, <3>3
  <2>. QED
    BY <2>1, <2>2
<1>7. \A i, j \in 1 .. n + 1 : i < j => new[after[i]].time >= new[after[j]].time
  <2>1. \A k \in 1 .. n + 1 : v[k] = new[after[k]].time
    BY DEF v
  <2>. QED
    BY <1>5, <2>1, Zenon
<1>8. 0 .. (n + 1) - 1 = 0 .. n
  OBVIOUS
<1>9. /\ after \in Seq(0 .. (n + 1) - 1) /\ Len(after) = n + 1
      /\ \A id \in 0 .. (n + 1) - 1 : \E i \in 1 .. n + 1 : after[i] = id
  <2>1. after \in Seq(0 .. n) /\ Len(after) = n + 1
    BY <1>w
  <2>. QED
    BY <1>6, <1>8, <2>1, Zenon
<1>. QED
  BY <1>7, <1>9, Zenon DEF Index

\* InsertAt() puts a new entry at its place and moves those behind it.
LEMMA InsertAtWith ==
  ASSUME NEW n \in Nat, NEW list \in Seq(0 .. n), Len(list) = n, NEW pos \in 1 .. n + 1
  PROVE  With(InsertAt(list, pos, n), list, pos, n)
<1>1. pos \in 1 .. Len(list) + 1 /\ n \in 0 .. n
  OBVIOUS
<1>2. PutAt(InsertAt(list, pos, n), 0 .. n, list, pos, n)
  BY <1>1, InsertAtFacts, Zenon
<1>. QED
  BY <1>2, Zenon DEF PutAt, With

\* addToList() keeps the list in order and gives the message the next number.
LEMMA AddToListFacts ==
  ASSUME NEW d, Consistent(d), NEW sms \in Messages
  PROVE  /\ Consistent(AddToList(d, sms))
         /\ AddToList(d, sms).next = d.next + 1
         /\ AddToList(d, sms).storage =
              [i \in 0 .. d.next |-> IF i = d.next THEN sms ELSE d.storage[i]]
<1> DEFINE n == d.next
           storage == [i \in DOMAIN d.storage \cup {n} |-> IF i = n THEN sms ELSE d.storage[i]]
           older == {i \in DOMAIN d.list : sms.time >= storage[d.list[i]].time}
           pos == CHOOSE i \in older : \A j \in older : i <= j
           a == AddToList(d, sms)
<1>1. n \in Nat /\ d.used \in Nat /\ d.storage \in [0 .. n - 1 -> Messages]
  BY DEF Consistent
<1>2. /\ Index(d.list, d.storage, n) /\ d.list \in Seq(0 .. n - 1) /\ Len(d.list) = n
      /\ DOMAIN d.list = 1 .. n
  BY DEF Consistent, Index
<1>3. Len(sms.parts) \in Nat /\ sms \in Message
  BY DEF Messages, Message
<1>4. storage = [i \in 0 .. n |-> IF i = n THEN sms ELSE d.storage[i]]
  BY <1>1
<1>5. a = IF older = {}
          THEN [storage |-> storage, list |-> Append(d.list, n),
                used |-> d.used + Len(sms.parts), next |-> n + 1]
          ELSE [storage |-> storage, list |-> InsertAt(d.list, pos, n),
                used |-> d.used, next |-> n + 1]
  BY DEF AddToList
<1>6. a.next = n + 1 /\ a.storage = storage
  BY <1>5
<1> HIDE DEF a, storage
<1>7. /\ storage \in [0 .. n -> Messages] /\ storage \in [0 .. n -> Message]
      /\ storage[n] = sms /\ \A i \in 0 .. n - 1 : storage[i] = d.storage[i]
  BY <1>1, <1>4 DEF Messages
<1>8. d.list \in Seq(0 .. n) /\ \A i \in 1 .. n : d.list[i] \in 0 .. n - 1
  BY <1>1, <1>2
<1>9. \A i \in 1 .. n : storage[d.list[i]].time \in Nat /\ sms.time \in Nat
  BY <1>1, <1>3, <1>7, <1>8 DEF Message
<1>o. /\ older \in SUBSET (1 .. n)
      /\ \A k \in 1 .. n : k \in older <=> sms.time >= storage[d.list[k]].time
  BY <1>2
<1>c. \A k \in 1 .. n : k \notin older => storage[n].time <= storage[d.list[k]].time
  BY <1>1, <1>7, <1>9, <1>o
<1>10. CASE older = {}
  <2> DEFINE after == Append(d.list, n)
  <2>1. /\ after \in Seq(0 .. n) /\ Len(after) = n + 1
        /\ \A k \in 1 .. n + 1 : after[k] = IF k = n + 1 THEN n ELSE d.list[k]
    BY <1>1, <1>2, <1>8
  <2> HIDE DEF after
  <2>2. With(after, d.list, n + 1, n)
    BY <1>1, <2>1 DEF With
  <2>3. Between(storage, d.list, n + 1, n)
    BY <1>1, <1>c, <1>10 DEF Between
  <2>4. Index(after, storage, n + 1)
    <3>1. n + 1 \in 1 .. n + 1
      BY <1>1
    <3>. QED
      BY <1>1, <1>2, <1>7, <2>2, <2>3, <3>1, Inserted
  <2>5. a = [storage |-> storage, list |-> after, used |-> d.used + Len(sms.parts), next |-> n + 1]
    BY <1>5, <1>10 DEF after
  <2>. QED
    BY <1>1, <1>3, <1>4, <1>6, <1>7, <2>4, <2>5 DEF Consistent, a
<1>11. CASE older # {}
  <2> DEFINE after == InsertAt(d.list, pos, n)
  <2>1. pos \in older /\ \A j \in older : pos <= j
    <3>1. older \in SUBSET Nat
      BY <1>1, <1>o
    <3> HIDE DEF older
    <3>. QED
      BY <1>11, <3>1, Least
  <2> HIDE DEF pos, older
  <2>2. pos \in 1 .. n /\ storage[n].time >= storage[d.list[pos]].time
    BY <1>o, <1>7, <2>1
  <2>3. \A k \in 1 .. pos - 1 : k \in 1 .. n /\ k \notin older
    BY <1>1, <1>o, <2>1, <2>2
  <2>4. With(after, d.list, pos, n)
    <3>1. pos \in 1 .. Len(d.list) + 1 /\ n \in 0 .. n
      BY <1>1, <1>2, <2>2
    <3>2. n \in Nat /\ d.list \in Seq(0 .. n) /\ Len(d.list) = n /\ pos \in 1 .. n + 1
      BY <1>1, <1>2, <1>8, <3>1
    <3> HIDE DEF n
    <3>3. With(InsertAt(d.list, pos, n), d.list, pos, n)
      BY <3>2, InsertAtWith, Zenon
    <3>. QED
      BY <3>3
  <2>5. Between(storage, d.list, pos, n)
    BY <1>c, <2>2, <2>3 DEF Between
  <2> HIDE DEF after
  <2>7. Index(after, storage, n + 1)
    <3>1. pos \in 1 .. n + 1
      BY <1>1, <2>2
    <3>. QED
      BY <1>1, <1>2, <1>7, <2>4, <2>5, <3>1, Inserted, Zenon
  <2>8. a = [storage |-> storage, list |-> after, used |-> d.used, next |-> n + 1]
    BY <1>5, <1>11 DEF after, pos, older
  <2>. QED
    BY <1>1, <1>4, <1>6, <1>7, <2>7, <2>8 DEF Consistent, a
<1>. QED
  BY <1>10, <1>11

\* A message with a place for the part.
Lacks(sms, p) ==
  /\ sms.ref = Decoded(p).ref /\ Len(sms.parts) = Decoded(p).parts
  /\ sms.parts[Decoded(p).part] = Empty

Put(d, id, p) == [d EXCEPT !.storage[id].parts[Decoded(p).part] = p]

\* A part is put where none was: its message has one part more, the others are as before.
LEMMA PutFacts ==
  ASSUME NEW d, Consistent(d), NEW p \in Parts, NEW id \in 0 .. d.next - 1,
         Lacks(d.storage[id], p)
  PROVE  /\ Consistent(Put(d, id, p)) /\ Put(d, id, p).next = d.next
         /\ \A q \in Parts : \A i \in 0 .. d.next - 1 :
              Holds(Put(d, id, p).storage[i], q) <=> Holds(d.storage[i], q) \/ (i = id /\ q = p)
<1> DEFINE n == d.next
           k == Decoded(p).part
           sms == d.storage[id]
           full == [sms EXCEPT !.parts[k] = p]
           storage == [d.storage EXCEPT ![id] = full]
           a == Put(d, id, p)
<1>1. /\ n \in Nat /\ d.used \in Nat /\ d.storage \in [0 .. n - 1 -> Messages]
      /\ d = [storage |-> d.storage, list |-> d.list, used |-> d.used, next |-> n]
      /\ Index(d.list, d.storage, n)
  BY DEF Consistent
<1>2. a = [storage |-> storage, list |-> d.list, used |-> d.used, next |-> n]
  BY <1>1 DEF Put
<1> HIDE DEF a
<1>l. /\ sms.ref = Decoded(p).ref /\ Len(sms.parts) = Decoded(p).parts /\ sms.parts[k] = Empty
  BY DEF Lacks
<1>3. sms \in Message /\ Placed(sms)
  BY <1>1 DEF Messages
<1>4. /\ sms.parts \in Seq(Parts \cup {Empty}) /\ sms.ref \in Nat /\ sms.time \in Nat
      /\ sms = [ref |-> sms.ref, time |-> sms.time, parts |-> sms.parts]
  BY <1>3 DEF Message
<1>5. k \in 1 .. Len(sms.parts) /\ Len(sms.parts) \in Nat /\ DOMAIN sms.parts = 1 .. Len(sms.parts)
  BY <1>4, <1>l, DecodedFacts
<1> HIDE DEF k
<1> DEFINE parts == [sms.parts EXCEPT ![k] = p]
<1>6. full = [ref |-> sms.ref, time |-> sms.time, parts |-> parts]
  <2> HIDE DEF sms
  <2>. QED
    BY <1>4
<1>7. /\ parts \in Seq(Parts \cup {Empty}) /\ Len(parts) = Len(sms.parts)
      /\ DOMAIN parts = DOMAIN sms.parts
      /\ parts[k] = p /\ \A i \in DOMAIN parts : i # k => parts[i] = sms.parts[i]
  BY <1>4, <1>5
<1> HIDE DEF parts, full
<1>8. full \in Message /\ full.time = sms.time
  BY <1>4, <1>6, <1>7 DEF Message
<1>9. Placed(full)
  <2> SUFFICES ASSUME NEW i \in DOMAIN parts, parts[i] # Empty
               PROVE  LET raw == Decoded(parts[i])
                      IN  raw.part = i /\ raw.parts = Len(parts) /\ raw.ref = sms.ref
    BY <1>6 DEF Placed
  <2>1. CASE i = k
    BY <1>l, <1>7, <2>1 DEF k
  <2>2. CASE i # k
    BY <1>3, <1>7, <2>2 DEF Placed
  <2>. QED
    BY <2>1, <2>2
<1>10. full \in Messages
  BY <1>8, <1>9 DEF Messages
<1>11. /\ storage \in [0 .. n - 1 -> Messages]
       /\ \A i \in 0 .. n - 1 : storage[i].time = d.storage[i].time
       /\ storage[id] = full /\ \A i \in 0 .. n - 1 : i # id => storage[i] = d.storage[i]
  BY <1>1, <1>8, <1>10
<1> HIDE DEF storage
<1>12. Index(d.list, storage, n)
  <2>1. \A i \in 1 .. n : d.list[i] \in 0 .. n - 1
    BY <1>1 DEF Index
  <2>. QED
    BY <1>1, <1>11, <2>1 DEF Index
<1>13. Consistent(a) /\ a.next = n /\ a.storage = storage
  <2>1. a.next = n /\ a.storage = storage /\ a.used = d.used /\ a.list = d.list
    BY <1>2
  <2>. QED
    BY <1>1, <1>2, <1>11, <1>12, <2>1 DEF Consistent
<1>14. ASSUME NEW q \in Parts
       PROVE  Holds(full, q) <=> Holds(sms, q) \/ q = p
  <2>1. Holds(full, q) <=> \E i \in DOMAIN parts : parts[i] = q
    BY <1>6 DEF Holds
  <2>2. Holds(sms, q) <=> \E i \in DOMAIN parts : sms.parts[i] = q
    BY <1>7 DEF Holds
  <2>3. sms.parts[k] # q /\ k \in DOMAIN parts
    BY <1>l, <1>5, <1>7, SmsAssumption DEF k
  <2> HIDE DEF sms
  <2>. QED
    BY <1>7, <2>1, <2>2, <2>3
<1>. QED
  BY <1>11, <1>13, <1>14 DEF a

\* add() makes one message of the database hold the part, and changes nothing else.
Gains(a, d, p) ==
  \E id \in 0 .. a.next - 1 : \A q \in Parts : \A i \in 0 .. a.next - 1 :
    Holds(a.storage[i], q) <=> (i \in 0 .. d.next - 1 /\ Holds(d.storage[i], q)) \/ (i = id /\ q = p)

LEMMA AddGains ==
  ASSUME NEW d, Consistent(d), NEW p \in Parts
  PROVE  /\ Consistent(Add(d, Decoded(p))) /\ d.next <= Add(d, Decoded(p)).next
         /\ Gains(Add(d, Decoded(p)), d, p)
<1> DEFINE raw == Decoded(p)
           same == FindSameSms(d, raw)
           blank == [ref |-> raw.ref, time |-> raw.time, parts |-> [i \in 1 .. raw.parts |-> Empty]]
           new == AddToList(d, blank)
           first == CHOOSE i \in same : \A j \in same : i <= j
           a == Add(d, raw)
<1>1. /\ raw.text = p /\ raw.ref \in Nat /\ raw.time \in Nat
      /\ raw.parts \in Nat /\ raw.part \in 1 .. raw.parts
  BY DecodedFacts
<1>2. d.next \in Nat /\ d.storage \in [0 .. d.next - 1 -> Messages]
  BY DEF Consistent
<1>3. CASE same = {}
  <2>1. a = Put(new, d.next, p)
    BY <1>1, <1>3 DEF Add, Put
  <2>2. /\ blank \in Message /\ Len(blank.parts) = raw.parts /\ blank.ref = raw.ref
        /\ blank.parts[raw.part] = Empty /\ \A i \in DOMAIN blank.parts : blank.parts[i] = Empty
    <3>1. [i \in 1 .. raw.parts |-> Empty] \in Seq(Parts \cup {Empty})
      BY <1>1
    <3>2. Len([i \in 1 .. raw.parts |-> Empty]) = raw.parts
      BY <1>1
    <3>. QED
      BY <1>1, <3>1, <3>2 DEF Message
  <2> HIDE DEF blank
  <2>3. blank \in Messages
    BY <2>2 DEF Messages, Placed
  <2>4. /\ Consistent(new) /\ new.next = d.next + 1
        /\ new.storage = [i \in 0 .. d.next |-> IF i = d.next THEN blank ELSE d.storage[i]]
    BY <2>3, AddToListFacts
  <2> HIDE DEF new, raw
  <2>5. /\ new.storage[d.next] = blank /\ d.next \in 0 .. new.next - 1
        /\ \A i \in 0 .. d.next - 1 : new.storage[i] = d.storage[i]
    BY <1>2, <2>4
  <2>6. /\ Consistent(a) /\ a.next = new.next
        /\ \A q \in Parts : \A i \in 0 .. new.next - 1 :
             Holds(a.storage[i], q) <=> Holds(new.storage[i], q) \/ (i = d.next /\ q = p)
    <3>1. Lacks(new.storage[d.next], p)
      BY <2>2, <2>5 DEF Lacks, raw
    <3> DEFINE id == d.next
    <3>2. Consistent(new) /\ id \in 0 .. new.next - 1 /\ Lacks(new.storage[id], p)
      BY <2>4, <2>5, <3>1
    <3> HIDE DEF a, id
    <3>3. /\ Consistent(Put(new, id, p)) /\ Put(new, id, p).next = new.next
          /\ \A q \in Parts : \A i \in 0 .. new.next - 1 :
               Holds(Put(new, id, p).storage[i], q) <=> Holds(new.storage[i], q) \/ (i = id /\ q = p)
      BY <3>2, PutFacts
    <3>. QED
      BY <2>1, <3>3 DEF id
  <2> HIDE DEF a
  <2>7. \A q \in Parts : ~ Holds(blank, q)
    BY <2>2, SmsAssumption DEF Holds
  <2>8. \A i \in 0 .. a.next - 1 : i = d.next \/ (i # d.next /\ i \in 0 .. d.next - 1)
    BY <1>2, <2>4, <2>6
  <2>9. ~ (d.next \in 0 .. d.next - 1)
    BY <1>2
  <2>10. \A q \in Parts : \A i \in 0 .. a.next - 1 :
           Holds(a.storage[i], q) <=> (i \in 0 .. d.next - 1 /\ Holds(d.storage[i], q)) \/ (i = d.next /\ q = p)
    BY <2>5, <2>6, <2>7, <2>8, <2>9
  <2>11. d.next <= a.next /\ d.next \in 0 .. a.next - 1
    BY <1>2, <2>4, <2>5, <2>6
  <2>. QED
    BY <2>6, <2>10, <2>11 DEF Gains, a, raw
<1>4. CASE same # {}
  <2>1. first \in same
    <3>1. same \in SUBSET Nat
      BY <1>2 DEF FindSameSms
    <3> HIDE DEF same
    <3>. QED
      BY <1>4, <3>1, Least
  <2>2. a = Put(d, first, p)
    BY <1>1, <1>4 DEF Add, Put
  <2> HIDE DEF first
  <2>3. first \in 0 .. d.next - 1 /\ Lacks(d.storage[first], p)
    BY <1>2, <2>1 DEF FindSameSms, Lacks
  <2>4. /\ Consistent(a) /\ a.next = d.next
        /\ \A q \in Parts : \A i \in 0 .. d.next - 1 :
             Holds(a.storage[i], q) <=> Holds(d.storage[i], q) \/ (i = first /\ q = p)
    <3> HIDE DEF a, same, raw
    <3>1. /\ Consistent(Put(d, first, p)) /\ Put(d, first, p).next = d.next
          /\ \A q \in Parts : \A i \in 0 .. d.next - 1 :
               Holds(Put(d, first, p).storage[i], q) <=> Holds(d.storage[i], q) \/ (i = first /\ q = p)
      BY <2>3, PutFacts
    <3>. QED
      BY <2>2, <3>1
  <2>5. d.next <= a.next /\ Gains(a, d, p)
    <3> HIDE DEF a
    <3>1. d.next <= a.next /\ first \in 0 .. a.next - 1
      BY <1>2, <2>3, <2>4
    <3>2. \A q \in Parts : \A i \in 0 .. a.next - 1 :
            Holds(a.storage[i], q)
              <=> (i \in 0 .. d.next - 1 /\ Holds(d.storage[i], q)) \/ (i = first /\ q = p)
      BY <2>4
    <3>. QED
      BY <3>1, <3>2 DEF Gains
  <2>. QED
    BY <2>4, <2>5
<1>. QED
  BY <1>3, <1>4

\* After add() the database holds the part as well, and once if it did not hold it.
LEMMA AddFacts ==
  ASSUME NEW d, Consistent(d), NEW p \in Parts
  PROVE  /\ Consistent(Add(d, Decoded(p)))
         /\ \A q \in Parts : InDb(Add(d, Decoded(p)), q) <=> InDb(d, q) \/ q = p
         /\ Single(d.storage) /\ ~ InDb(d, p) => Single(Add(d, Decoded(p)).storage)
<1> DEFINE a == Add(d, Decoded(p))
           n == d.next
           m == a.next
<1>1. Consistent(a) /\ n <= m /\ Gains(a, d, p)
  BY AddGains
<1> HIDE DEF a
<1>2. n \in Nat /\ m \in Nat /\ DOMAIN d.storage = 0 .. n - 1 /\ DOMAIN a.storage = 0 .. m - 1
  BY <1>1 DEF Consistent
<1>3. PICK id \in 0 .. m - 1 : \A q \in Parts : \A i \in 0 .. m - 1 :
        Holds(a.storage[i], q) <=> (i \in 0 .. n - 1 /\ Holds(d.storage[i], q)) \/ (i = id /\ q = p)
  BY <1>1 DEF Gains
<1> HIDE DEF n, m
<1>4. 0 .. n - 1 \subseteq 0 .. m - 1
  BY <1>1, <1>2 DEF n, m
<1>5. ASSUME NEW q \in Parts
      PROVE  InDb(a, q) <=> InDb(d, q) \/ q = p
  BY <1>2, <1>3, <1>4, Zenon DEF InDb, Has
<1>6. ASSUME Single(d.storage), ~ InDb(d, p), NEW q \in Parts, NEW i \in 0 .. m - 1,
             NEW j \in 0 .. m - 1, Holds(a.storage[i], q), Holds(a.storage[j], q)
      PROVE  i = j
  <2>1. CASE q = p
    <3>1. ~ (i \in 0 .. n - 1 /\ Holds(d.storage[i], q)) /\ ~ (j \in 0 .. n - 1 /\ Holds(d.storage[j], q))
      BY <1>2, <1>6, <2>1, Zenon DEF InDb, Has
    <3>. QED
      BY <1>3, <1>6, <3>1, Zenon
  <2>2. CASE q # p
    <3>1. (i \in 0 .. n - 1 /\ Holds(d.storage[i], q)) /\ (j \in 0 .. n - 1 /\ Holds(d.storage[j], q))
      BY <1>3, <1>6, <2>2, Zenon
    <3>. QED
      BY <1>2, <1>6, <3>1, Zenon DEF Single
  <2>. QED
    BY <2>1, <2>2
<1>7. Single(d.storage) /\ ~ InDb(d, p) => Single(a.storage)
  BY <1>2, <1>6, Zenon DEF Single
<1>. QED
  BY <1>1, <1>5, <1>7 DEF a

\* AddAll() adds the first, then the next.
LEMMA AddAllUnfolds ==
  ASSUME NEW d, NEW raws, Len(raws) \in Nat
  PROVE  \E f : /\ f = [n \in 0 .. Len(raws) |-> IF n = 0 THEN d ELSE Add(f[n - 1], raws[n])]
                /\ AddAll(d, raws) = f[Len(raws)]
<1> DEFINE L == Len(raws)
           Good(m, f) == f = [n \in 0 .. m |-> IF n = 0 THEN d ELSE Add(f[n - 1], raws[n])]
           Bad == {m \in 0 .. L : ~ \E f : Good(m, f)}
<1>1. Bad = {}
  <2> SUFFICES ASSUME Bad # {}
               PROVE  FALSE
    OBVIOUS
  <2> HIDE DEF Good
  <2>1. PICK m \in Bad : \A k \in Bad : m <= k
    <3>1. Bad \in SUBSET Nat
      OBVIOUS
    <3> HIDE DEF Bad
    <3>. QED
      BY <3>1, Least
  <2>2. m \in 0 .. L /\ ~ \E f : Good(m, f)
    OBVIOUS
  <2>3. CASE m = 0
    <3> DEFINE f == [n \in 0 .. 0 |-> d]
    <3>1. Good(0, f)
      BY DEF Good
    <3>. QED
      BY <2>2, <2>3, <3>1
  <2>4. CASE m # 0
    <3>1. m - 1 \in 0 .. L /\ m \in Nat \ {0} /\ ~ (m - 1 \in Bad)
      BY <2>1, <2>2, <2>4
    <3>2. PICK f : Good(m - 1, f)
      BY <3>1
    <3> DEFINE g == [n \in 0 .. m |-> IF n = m THEN Add(f[m - 1], raws[m]) ELSE f[n]]
    <3>3. DOMAIN f = 0 .. m - 1 /\ f[0] = d /\ \A n \in 1 .. m - 1 : f[n] = Add(f[n - 1], raws[n])
      BY <3>1, <3>2 DEF Good
    <3>4. g[0] = d /\ \A n \in 1 .. m : g[n] = Add(g[n - 1], raws[n])
      BY <3>1, <3>3
    <3>5. Good(m, g)
      <4> HIDE DEF g
      <4>1. g = [n \in 0 .. m |-> g[n]]
        BY DEF g
      <4>2. \A n \in 0 .. m : g[n] = IF n = 0 THEN d ELSE Add(g[n - 1], raws[n])
        BY <3>1, <3>4
      <4>. QED
        BY <4>1, <4>2 DEF Good
    <3>. QED
      BY <2>2, <3>5
  <2>. QED
    BY <2>3, <2>4
<1>2. PICK h : Good(L, h)
  BY <1>1
<1> DEFINE f == CHOOSE f : Good(L, f)
<1>3. Good(L, f)
  BY <1>2
<1>4. AddAll(d, raws) = f[L]
  BY DEF AddAll
<1>. QED
  BY <1>3, <1>4

\* After add() of a list the database holds these parts as well, each once if they
\* are different and it held none of them.
LEMMA AddAllFacts ==
  ASSUME NEW d, Consistent(d), NEW ps \in Seq(Parts),
         NEW raws, Len(raws) = Len(ps), \A k \in 1 .. Len(ps) : raws[k] = Decoded(ps[k])
  PROVE  /\ Consistent(AddAll(d, raws))
         /\ \A q \in Parts :
              InDb(AddAll(d, raws), q) <=> InDb(d, q) \/ \E k \in 1 .. Len(ps) : ps[k] = q
         /\ (/\ Single(d.storage) /\ \A k \in 1 .. Len(ps) : ~ InDb(d, ps[k])
             /\ \A j, k \in 1 .. Len(ps) : ps[j] = ps[k] => j = k)
              => Single(AddAll(d, raws).storage)
<1> DEFINE L == Len(ps)
           Fresh == /\ Single(d.storage) /\ \A k \in 1 .. L : ~ InDb(d, ps[k])
                    /\ \A j, k \in 1 .. L : ps[j] = ps[k] => j = k
<1>1. L \in Nat /\ DOMAIN ps = 1 .. L /\ \A k \in 1 .. L : ps[k] \in Parts
  OBVIOUS
<1>2. Len(raws) = L /\ \A k \in 1 .. L : raws[k] = Decoded(ps[k])
  OBVIOUS
<1>3. PICK f : /\ f = [n \in 0 .. Len(raws) |-> IF n = 0 THEN d ELSE Add(f[n - 1], raws[n])]
               /\ AddAll(d, raws) = f[Len(raws)]
  <2>1. Len(raws) \in Nat
    BY <1>1, <1>2
  <2>. QED
    BY <2>1, AddAllUnfolds
<1>4. /\ f[0] = d /\ \A n \in 1 .. L : f[n] = Add(f[n - 1], Decoded(ps[n]))
      /\ AddAll(d, raws) = f[L]
  <2> HIDE DEF L
  <2>1. 0 \in 0 .. Len(raws) /\ \A n \in 1 .. L : n \in 0 .. Len(raws) /\ n # 0
    BY <1>1, <1>2
  <2>2. f[0] = d /\ \A n \in 1 .. L : f[n] = Add(f[n - 1], raws[n])
    BY <1>3, <2>1
  <2>3. AddAll(d, raws) = f[L]
    BY <1>2, <1>3
  <2>. QED
    BY <1>2, <2>2, <2>3
<1> HIDE DEF L, Fresh
<1> DEFINE Good(n) ==
      /\ Consistent(f[n])
      /\ \A q \in Parts : InDb(f[n], q) <=> InDb(d, q) \/ \E k \in 1 .. n : ps[k] = q
      /\ Fresh => Single(f[n].storage)
<1> DEFINE Bad == {n \in 0 .. L : ~ Good(n)}
<1>5. Bad = {}
  <2> SUFFICES ASSUME Bad # {}
               PROVE  FALSE
    OBVIOUS
  <2> HIDE DEF Good
  <2>1. PICK m \in Bad : \A k \in Bad : m <= k
    <3>1. Bad \in SUBSET Nat
      BY <1>1
    <3> HIDE DEF Bad
    <3>. QED
      BY <3>1, Least
  <2>2. m \in 0 .. L /\ ~ Good(m)
    OBVIOUS
  <2>3. CASE m = 0
    <3>1. Good(0)
      <4>1. \A q \in Parts : ~ \E k \in 1 .. 0 : ps[k] = q
        OBVIOUS
      <4>. QED
        BY <1>4, <4>1 DEF Good, Fresh
    <3>. QED
      BY <2>2, <2>3, <3>1
  <2>4. CASE m # 0
    <3>1. m - 1 \in 0 .. L /\ m \in 1 .. L /\ ~ (m - 1 \in Bad) /\ m \in Nat
      BY <1>1, <2>1, <2>2, <2>4
    <3>2. Good(m - 1)
      BY <3>1
    <3> DEFINE e == f[m - 1]
               p == ps[m]
    <3>3. /\ p \in Parts /\ f[m] = Add(e, Decoded(p)) /\ Consistent(e)
          /\ \A q \in Parts : InDb(e, q) <=> InDb(d, q) \/ \E k \in 1 .. m - 1 : ps[k] = q
          /\ Fresh => Single(e.storage)
      BY <1>1, <1>4, <3>1, <3>2 DEF Good
    <3> HIDE DEF e
    <3>4. /\ Consistent(f[m])
          /\ \A q \in Parts : InDb(f[m], q) <=> InDb(e, q) \/ q = p
          /\ Single(e.storage) /\ ~ InDb(e, p) => Single(f[m].storage)
      BY <3>3, AddFacts
    <3>5. \A q : (\E k \in 1 .. m : ps[k] = q) <=> (\E k \in 1 .. m - 1 : ps[k] = q) \/ q = p
      <4>1. 1 .. m = (1 .. m - 1) \cup {m}
        BY <3>1
      <4>. QED
        BY <4>1
    <3>6. Fresh => ~ InDb(e, p)
      <4>1. Fresh => ~ InDb(d, p)
        BY <1>1, <3>1 DEF Fresh
      <4>2. Fresh => \A k \in 1 .. m - 1 : ps[k] # p
        <5>1. \A k \in 1 .. m - 1 : k \in 1 .. L /\ k # m
          BY <1>1, <3>1
        <5>. QED
          BY <3>1, <5>1 DEF Fresh
      <4>. QED
        BY <3>3, <4>1, <4>2
    <3>7. Good(m)
      BY <3>3, <3>4, <3>5, <3>6, Zenon DEF Good
    <3>. QED
      BY <2>2, <3>7
  <2>. QED
    BY <2>3, <2>4
<1>6. L \in 0 .. L
  BY <1>1 DEF L
<1>7. Good(L)
  <2> HIDE DEF Good
  <2>. QED
    BY <1>5, <1>6
<1>. QED
  BY <1>4, <1>7, Zenon DEF Good, L, Fresh

\* Unserialized() begins with nothing and adds the first message, then the next.
LEMMA UnserializedUnfolds ==
  ASSUME NEW messages, Len(messages) \in Nat
  PROVE  \E f : /\ f = [n \in 0 .. Len(messages) |->
                         IF n = 0 THEN NoDb ELSE AddToList(f[n - 1], messages[n])]
                /\ Unserialized(messages) = f[Len(messages)]
<1> DEFINE L == Len(messages)
           Good(m, f) == f = [n \in 0 .. m |->
                               IF n = 0 THEN NoDb ELSE AddToList(f[n - 1], messages[n])]
           Bad == {m \in 0 .. L : ~ \E f : Good(m, f)}
<1>1. Bad = {}
  <2> SUFFICES ASSUME Bad # {}
               PROVE  FALSE
    OBVIOUS
  <2> HIDE DEF Good
  <2>1. PICK m \in Bad : \A k \in Bad : m <= k
    <3>1. Bad \in SUBSET Nat
      OBVIOUS
    <3> HIDE DEF Bad
    <3>. QED
      BY <3>1, Least
  <2>2. m \in 0 .. L /\ ~ \E f : Good(m, f)
    OBVIOUS
  <2>3. CASE m = 0
    <3> DEFINE f == [n \in 0 .. 0 |-> NoDb]
    <3>1. Good(0, f)
      BY DEF Good
    <3>. QED
      BY <2>2, <2>3, <3>1
  <2>4. CASE m # 0
    <3>1. m - 1 \in 0 .. L /\ m \in Nat \ {0} /\ ~ (m - 1 \in Bad)
      BY <2>1, <2>2, <2>4
    <3>2. PICK f : Good(m - 1, f)
      BY <3>1
    <3> DEFINE g == [n \in 0 .. m |-> IF n = m THEN AddToList(f[m - 1], messages[m]) ELSE f[n]]
    <3>3. DOMAIN f = 0 .. m - 1 /\ f[0] = NoDb /\ \A n \in 1 .. m - 1 : f[n] = AddToList(f[n - 1], messages[n])
      BY <3>1, <3>2 DEF Good
    <3>4. g[0] = NoDb /\ \A n \in 1 .. m : g[n] = AddToList(g[n - 1], messages[n])
      BY <3>1, <3>3
    <3>5. Good(m, g)
      <4> HIDE DEF g
      <4>1. g = [n \in 0 .. m |-> g[n]]
        BY DEF g
      <4>2. \A n \in 0 .. m : g[n] = IF n = 0 THEN NoDb ELSE AddToList(g[n - 1], messages[n])
        BY <3>1, <3>4
      <4>. QED
        BY <4>1, <4>2 DEF Good
    <3>. QED
      BY <2>2, <3>5
  <2>. QED
    BY <2>3, <2>4
<1>2. PICK h : Good(L, h)
  BY <1>1
<1> DEFINE f == CHOOSE f : Good(L, f)
<1>3. Good(L, f)
  BY <1>2
<1>4. Unserialized(messages) = f[L]
  BY DEF Unserialized
<1>. QED
  BY <1>3, <1>4

\* An empty database is consistent.
LEMMA NoDbConsistent == Consistent(NoDb)
<1>1. NoDb = [storage |-> NoDb.storage, list |-> NoDb.list, used |-> NoDb.used, next |-> NoDb.next]
  BY DEF NoDb
<1>2. NoDb.next = 0 /\ NoDb.used = 0 /\ NoDb.storage = <<>> /\ NoDb.list = <<>>
  BY DEF NoDb
<1>3. NoDb.storage \in [0 .. 0 - 1 -> Messages]
  BY <1>2
<1>4. Index(NoDb.list, NoDb.storage, 0)
  BY <1>2 DEF Index
<1>. QED
  BY <1>1, <1>2, <1>3, <1>4 DEF Consistent

\* The database that load() makes has the messages of the file, numbered in their order.
LEMMA UnserializedFacts ==
  ASSUME NEW messages \in Seq(Messages)
  PROVE  /\ Consistent(Unserialized(messages))
         /\ Unserialized(messages).next = Len(messages)
         /\ \A i \in 0 .. Len(messages) - 1 : Unserialized(messages).storage[i] = messages[i + 1]
<1> DEFINE L == Len(messages)
<1>1. L \in Nat /\ \A k \in 1 .. L : messages[k] \in Messages
  OBVIOUS
<1>2. PICK f : /\ f = [n \in 0 .. L |-> IF n = 0 THEN NoDb ELSE AddToList(f[n - 1], messages[n])]
               /\ Unserialized(messages) = f[L]
  BY <1>1, UnserializedUnfolds
<1>3. f[0] = NoDb /\ \A n \in 1 .. L : f[n] = AddToList(f[n - 1], messages[n])
  <2>1. 0 \in 0 .. L /\ \A n \in 1 .. L : n \in 0 .. L /\ n # 0
    BY <1>1
  <2>. QED
    BY <1>2, <2>1
<1> HIDE DEF L
<1> DEFINE Good(n) ==
      /\ Consistent(f[n]) /\ f[n].next = n
      /\ \A i \in 0 .. n - 1 : f[n].storage[i] = messages[i + 1]
<1> DEFINE Bad == {n \in 0 .. L : ~ Good(n)}
<1>4. Bad = {}
  <2> SUFFICES ASSUME Bad # {}
               PROVE  FALSE
    OBVIOUS
  <2> HIDE DEF Good
  <2>1. PICK m \in Bad : \A k \in Bad : m <= k
    <3>1. Bad \in SUBSET Nat
      BY <1>1
    <3> HIDE DEF Bad
    <3>. QED
      BY <3>1, Least
  <2>2. m \in 0 .. L /\ ~ Good(m)
    OBVIOUS
  <2>3. CASE m = 0
    <3>1. NoDb.next = 0 /\ 0 .. 0 - 1 = {}
      BY DEF NoDb
    <3>2. Good(0)
      BY <1>3, <3>1, NoDbConsistent DEF Good
    <3>. QED
      BY <2>2, <2>3, <3>2
  <2>4. CASE m # 0
    <3>1. m - 1 \in 0 .. L /\ m \in 1 .. L /\ ~ (m - 1 \in Bad) /\ m \in Nat
      BY <1>1, <2>1, <2>2, <2>4
    <3> DEFINE e == f[m - 1]
    <3>2. /\ messages[m] \in Messages /\ f[m] = AddToList(e, messages[m])
          /\ Consistent(e) /\ e.next = m - 1
          /\ \A i \in 0 .. (m - 1) - 1 : e.storage[i] = messages[i + 1]
      <4>1. Good(m - 1)
        BY <3>1
      <4>. QED
        BY <1>1, <1>3, <3>1, <4>1 DEF Good
    <3> HIDE DEF e
    <3>3. /\ Consistent(f[m]) /\ f[m].next = e.next + 1
          /\ f[m].storage = [i \in 0 .. e.next |-> IF i = e.next THEN messages[m] ELSE e.storage[i]]
      BY <3>2, AddToListFacts
    <3>4. \A i \in 0 .. m - 1 : f[m].storage[i] = messages[i + 1]
      BY <3>1, <3>2, <3>3
    <3>5. Good(m)
      BY <3>1, <3>2, <3>3, <3>4 DEF Good
    <3>. QED
      BY <2>2, <3>5
  <2>. QED
    BY <2>3, <2>4
<1>5. L \in 0 .. L
  BY <1>1 DEF L
<1>6. Good(L)
  <2> HIDE DEF Good
  <2>. QED
    BY <1>4, <1>5
<1>. QED
  BY <1>2, <1>6 DEF Good, L

\* The file that save() writes has the messages of the database.
LEMMA SerializedFacts ==
  ASSUME NEW d, Consistent(d)
  PROVE  /\ Serialized(d) \in Seq(Messages)
         /\ \A q \in Parts : Has(Serialized(d), q) <=> InDb(d, q)
         /\ Single(d.storage) => Single(Serialized(d))
<1>1. d.next \in Nat /\ d.storage \in [0 .. d.next - 1 -> Messages]
  BY DEF Consistent
<1>2. \A i \in 1 .. d.next : i - 1 \in 0 .. d.next - 1
  BY <1>1
<1>3. Serialized(d) \in [1 .. d.next -> Messages] /\ \A i \in 1 .. d.next : Serialized(d)[i] = d.storage[i - 1]
  BY <1>1, <1>2 DEF Serialized
<1>4. Serialized(d) \in Seq(Messages) /\ DOMAIN Serialized(d) = 1 .. d.next
  BY <1>1, <1>3
<1>5. ASSUME NEW q \in Parts
      PROVE  Has(Serialized(d), q) <=> InDb(d, q)
  <2>1. ASSUME Has(Serialized(d), q)
        PROVE  InDb(d, q)
    <3>1. PICK i \in 1 .. d.next : Holds(d.storage[i - 1], q)
      BY <1>3, <1>4, <2>1 DEF Has
    <3>. QED
      BY <1>1, <1>2, <3>1 DEF InDb, Has
  <2>2. ASSUME InDb(d, q)
        PROVE  Has(Serialized(d), q)
    <3>1. PICK i \in 0 .. d.next - 1 : Holds(d.storage[i], q)
      BY <1>1, <2>2 DEF InDb, Has
    <3>2. i + 1 \in 1 .. d.next /\ Serialized(d)[i + 1] = d.storage[i]
      BY <1>1, <1>3
    <3>. QED
      BY <1>4, <3>1, <3>2 DEF Has
  <2>. QED
    BY <2>1, <2>2
<1>6. ASSUME Single(d.storage), NEW q \in Parts, NEW i \in 1 .. d.next, NEW j \in 1 .. d.next,
             Holds(Serialized(d)[i], q), Holds(Serialized(d)[j], q)
      PROVE  i = j
  <2>1. i - 1 = j - 1
    <3>1. i - 1 \in 0 .. d.next - 1 /\ j - 1 \in 0 .. d.next - 1
      BY <1>2
    <3>2. Holds(d.storage[i - 1], q) /\ Holds(d.storage[j - 1], q)
      BY <1>3, <1>6
    <3>. QED
      BY <1>1, <1>6, <3>1, <3>2 DEF Single
  <2>. QED
    BY <1>1, <2>1
<1>7. Single(d.storage) => Single(Serialized(d))
  BY <1>4, <1>6 DEF Single
<1>. QED
  BY <1>4, <1>5, <1>7

\* A file that ends early has some of them.
LEMMA TornFacts ==
  ASSUME NEW messages \in Seq(Messages), NEW n \in 0 .. Len(messages)
  PROVE  /\ SubSeq(messages, 1, n) \in Seq(Messages)
         /\ \A q \in Parts : Has(SubSeq(messages, 1, n), q) => Has(messages, q)
         /\ Single(messages) => Single(SubSeq(messages, 1, n))
<1> DEFINE part == SubSeq(messages, 1, n)
<1>1. /\ part \in Seq(Messages) /\ DOMAIN part = 1 .. n
      /\ \A i \in 1 .. n : part[i] = messages[i] /\ i \in DOMAIN messages
  BY SubSeqProperties
<1> HIDE DEF part
<1>2. \A q \in Parts : Has(part, q) => Has(messages, q)
  BY <1>1 DEF Has
<1>3. Single(messages) => Single(part)
  BY <1>1 DEF Single
<1>. QED
  BY <1>1, <1>2, <1>3 DEF part

\* What load() makes of a file holds what the file does.
LEMMA LoadedFacts ==
  ASSUME NEW messages \in Seq(Messages)
  PROVE  /\ Consistent(Unserialized(messages))
         /\ \A q \in Parts : InDb(Unserialized(messages), q) <=> Has(messages, q)
         /\ Single(messages) => Single(Unserialized(messages).storage)
<1> DEFINE d == Unserialized(messages)
           n == Len(messages)
<1>1. /\ Consistent(d) /\ d.next = n
      /\ \A i \in 0 .. n - 1 : d.storage[i] = messages[i + 1]
  BY UnserializedFacts
<1>2. n \in Nat /\ DOMAIN messages = 1 .. n
  OBVIOUS
<1> HIDE DEF d, n
<1>3. DOMAIN d.storage = 0 .. n - 1
  BY <1>1 DEF Consistent
<1>4. ASSUME NEW q \in Parts
      PROVE  InDb(d, q) <=> Has(messages, q)
  <2>1. ASSUME InDb(d, q)
        PROVE  Has(messages, q)
    <3>1. PICK i \in 0 .. n - 1 : Holds(messages[i + 1], q)
      BY <1>1, <1>3, <2>1 DEF InDb, Has
    <3>2. i + 1 \in 1 .. n
      BY <1>2
    <3>. QED
      BY <1>2, <3>1, <3>2 DEF Has
  <2>2. ASSUME Has(messages, q)
        PROVE  InDb(d, q)
    <3>1. PICK i \in 1 .. n : Holds(messages[i], q)
      BY <1>2, <2>2 DEF Has
    <3>2. i - 1 \in 0 .. n - 1 /\ d.storage[i - 1] = messages[i]
      BY <1>1, <1>2
    <3>. QED
      BY <1>3, <3>1, <3>2 DEF InDb, Has
  <2>. QED
    BY <2>1, <2>2
<1>5. ASSUME Single(messages), NEW q \in Parts, NEW i \in 0 .. n - 1, NEW j \in 0 .. n - 1,
             Holds(d.storage[i], q), Holds(d.storage[j], q)
      PROVE  i = j
  <2>1. i + 1 = j + 1
    <3>1. i + 1 \in 1 .. n /\ j + 1 \in 1 .. n
      BY <1>2
    <3>2. Holds(messages[i + 1], q) /\ Holds(messages[j + 1], q)
      BY <1>1, <1>5
    <3>. QED
      BY <1>2, <1>5, <3>1, <3>2 DEF Single
  <2>. QED
    BY <1>2, <2>1
<1>6. Single(messages) => Single(d.storage)
  BY <1>3, <1>5 DEF Single
<1>. QED
  BY <1>1, <1>4, <1>6 DEF d

-----------------------------------------------------------------------------
(* The way of a message. *)

At(slots, p) == \E s \in Slots : slots[s] = p
Full(slots) == {s \in Slots : slots[s] # Empty}

\* The Loop is in loadSmsFromModem().
Loading == step \in {"list", "listing", "save", "delete"}

StoreTypes ==
  /\ slot \in [Slots -> Parts \cup {Empty}] /\ read \subseteq Full(slot) /\ arrived \subseteq Parts
  /\ loads \in Nat /\ dbReady \in BOOLEAN /\ smsReady \in BOOLEAN
  /\ Consistent(db) /\ file.messages \in Seq(Messages) /\ file.torn \in BOOLEAN
  /\ Loading => dbReady

\* What is stored has arrived, and the modem has it once.
Origin ==
  /\ \A p \in Parts : At(slot, p) \/ InDb(db, p) \/ Has(file.messages, p) => p \in arrived
  /\ \A s, u \in Full(slot) : slot[s] = slot[u] => s = u

\* While nothing has been lost, the modem or the file has every part, the database
\* has what the file has, and what is to be deleted has been added, then saved.
Saved ==
  lossy = {} =>
    /\ \A p \in arrived : At(slot, p) \/ Has(file.messages, p)
    /\ dbReady => \A p \in arrived : Has(file.messages, p) => InDb(db, p)
    /\ step = "save" => \A s \in read : InDb(db, slot[s])
    /\ step = "delete" => \A s \in read : Has(file.messages, slot[s])

\* While the modem has kept nothing that was added, a part is in the database and in
\* the file once, and the modem has only parts that are in neither, except those
\* that are being saved or deleted.
Once ==
  again = {} =>
    /\ Single(db.storage) /\ Single(file.messages)
    /\ \A s \in Full(slot) :
         /\ step \notin {"save", "delete"} \/ s \notin read => ~ InDb(db, slot[s])
         /\ step # "delete" \/ s \notin read => ~ Has(file.messages, slot[s])

\* When no loading is due, the database has all that has arrived, or the answer that
\* is being listed has it.
Known ==
  smsReady /\ missed = {} /\ lossy = {} =>
    \/ ListingDue
    \/ \A p \in arrived : InDb(db, p) \/ (step = "listing" /\ \E s \in read : slot[s] = p)

StoreInv == StoreTypes /\ Origin /\ Saved /\ Once /\ Known

\* A slot that holds a part is not empty, and holds a part.
LEMMA FullFacts ==
  ASSUME NEW slots \in [Slots -> Parts \cup {Empty}]
  PROVE  /\ \A s \in Full(slots) : s \in Slots /\ slots[s] \in Parts /\ At(slots, slots[s])
         /\ \A p \in Parts : At(slots, p) <=> \E s \in Full(slots) : slots[s] = p
<1>1. \A p \in Parts : p # Empty
  BY SmsAssumption
<1>. QED
  BY <1>1 DEF Full, At

\* A part that arrives goes to a slot of its own, and a listing is due, or its line
\* was dropped.
LEMMA ArrivesKeeps ==
  ASSUME StoreInv, Arrives
  PROVE  StoreInv'
<1>1. PICK p \in Parts, s \in Slots :
        /\ p \notin arrived /\ slot[s] = Empty
        /\ slot' = [slot EXCEPT ![s] = p] /\ arrived' = arrived \cup {p}
  BY DEF Arrives
<1>2. UNCHANGED <<read, db, file, lossy, again, step>>
  BY DEF Arrives, simVars, pollVars
<1>d. \/ loads' = loads + 1
      \/ ListingDue /\ loads' = loads
      \/ loads' = loads /\ missed' = missed \cup {"dropped"}
  BY DEF Arrives
<1>3. dbReady' = dbReady /\ smsReady' = smsReady
  BY Zenon DEF Arrives, simVars
<1>4. /\ slot \in [Slots -> Parts \cup {Empty}] /\ read \subseteq Full(slot) /\ arrived \subseteq Parts
      /\ loads \in Nat
  BY DEF StoreInv, StoreTypes
<1>5. p # Empty
  BY SmsAssumption
<1>6. /\ slot' \in [Slots -> Parts \cup {Empty}] /\ Full(slot') = Full(slot) \cup {s}
      /\ slot'[s] = p /\ s \notin Full(slot) /\ \A u \in Full(slot) : slot'[u] = slot[u]
      /\ \A q \in Parts : At(slot', q) <=> At(slot, q) \/ q = p
  BY <1>1, <1>4, <1>5, SmsAssumption DEF Full, At
<1>7. \A u \in Full(slot) : u \in Slots /\ slot[u] \in Parts /\ At(slot, slot[u])
  BY <1>4, FullFacts
<1>8. StoreTypes'
  <2>1. (dbReady \in BOOLEAN /\ smsReady \in BOOLEAN)' /\ (Loading => dbReady)'
    BY <1>2, <1>3, Zenon DEF StoreInv, StoreTypes, Loading
  <2>2. slot' \in [Slots -> Parts \cup {Empty}] /\ read' \subseteq Full(slot') /\ arrived' \subseteq Parts /\ loads' \in Nat
    <3>1. slot' \in [Slots -> Parts \cup {Empty}] /\ Full(slot) \subseteq Full(slot')
      BY <1>6
    <3>2. read' \subseteq Full(slot')
      BY <1>2, <1>4, <3>1
    <3>3. arrived' \subseteq Parts /\ loads' \in Nat
      BY <1>1, <1>4, <1>d
    <3>. QED
      BY <3>1, <3>2, <3>3
  <2>3. Consistent(db') /\ file'.messages \in Seq(Messages) /\ file'.torn \in BOOLEAN
    BY <1>2, Zenon DEF StoreInv, StoreTypes
  <2>. QED
    BY <2>1, <2>2, <2>3, Zenon DEF StoreTypes
<1>9. ~ InDb(db, p) /\ ~ Has(file.messages, p) /\ ~ At(slot, p)
  BY <1>1, Zenon DEF StoreInv, Origin
<1>10. Origin'
  <2>1. \A q \in Parts : At(slot', q) \/ InDb(db', q) \/ Has(file'.messages, q) => q \in arrived'
    BY <1>1, <1>2, <1>6, Zenon DEF StoreInv, Origin
  <2>2. \A u \in Full(slot) : slot[u] # p
    BY <1>7, <1>9, Zenon
  <2>3. \A u, v \in Full(slot') : slot'[u] = slot'[v] => u = v
    BY <1>6, <2>2 DEF StoreInv, Origin
  <2>. QED
    BY <2>1, <2>3, Zenon DEF Origin
<1>11. Saved'
  <2>1. \A u \in read : slot'[u] = slot[u]
    BY <1>4, <1>6
  <2>2. ASSUME lossy = {}
        PROVE  \A q \in arrived' : At(slot', q) \/ Has(file'.messages, q)
    BY <1>1, <1>2, <1>4, <1>6, <2>2, Zenon DEF StoreInv, Saved
  <2>3. ASSUME lossy = {}, dbReady
        PROVE  \A q \in arrived' : Has(file'.messages, q) => InDb(db', q)
    BY <1>1, <1>2, <1>9, <2>3, Zenon DEF StoreInv, Saved
  <2>. QED
    BY <1>2, <1>3, <2>1, <2>2, <2>3, Zenon DEF StoreInv, Saved
<1>12. Once'
  <2>1. s \notin read
    BY <1>4, <1>6
  <2>2. ASSUME again = {}, NEW u \in Full(slot')
        PROVE  /\ step \notin {"save", "delete"} \/ u \notin read => ~ InDb(db, slot'[u])
               /\ step # "delete" \/ u \notin read => ~ Has(file.messages, slot'[u])
    <3>1. CASE u = s
      BY <1>6, <1>9, <3>1, Zenon
    <3>2. CASE u \in Full(slot)
      BY <1>6, <2>2, <3>2, Zenon DEF StoreInv, Once
    <3>. QED
      BY <1>6, <2>2, <3>1, <3>2
  <2>. QED
    BY <1>2, <2>2, Zenon DEF StoreInv, Once
<1>13. Known'
  <2>1. CASE loads' = loads + 1
    <3>1. loads' > 0
      BY <1>4, <2>1
    <3>. QED
      BY <3>1, Zenon DEF Known, ListingDue
  <2>2. CASE ListingDue /\ loads' = loads
    BY <1>2, <1>3, <2>2, Zenon DEF Known, ListingDue
  <2>3. CASE missed' = missed \cup {"dropped"}
    <3>1. missed' # {}
      BY <2>3
    <3>. QED
      BY <3>1, Zenon DEF Known
  <2>. QED
    BY <1>d, <2>1, <2>2, <2>3, Zenon
<1>. QED
  BY <1>8, <1>10, <1>11, <1>12, <1>13 DEF StoreInv

\* A step of the SIM is none of loadSmsFromModem(), and SMS that become ready make a
\* loading due.
LEMMA SimStepDoes ==
  ASSUME SimStep, loads \in Nat, smsReady \in BOOLEAN
  PROVE  /\ UNCHANGED <<slot, read, arrived, db, file, lossy, again, missed>>
         /\ (dbReady' <=> dbReady) /\ dbReady' = dbReady
         /\ step' = step \/ (~ Loading /\ ~ Loading')
         /\ loads' \in Nat /\ loads' >= loads
         /\ smsReady' \in BOOLEAN
         /\ smsReady' => smsReady \/ loads' > 0
<1>1. UNCHANGED <<slot, read, arrived, db, file, lossy, again, missed>> /\ dbReady' = dbReady
  BY Zenon DEF SimStep
<1>4. /\ loads' \in Nat /\ loads' >= loads
      /\ smsReady' => smsReady \/ loads' > 0
  <2>1. CASE smsReady' /\ ~ smsReady
    <3>1. loads' = loads + 1
      BY <2>1, Zenon DEF SimStep
    <3>2. loads' \in Nat /\ loads' >= loads /\ loads' > 0
      BY <3>1
    <3>. QED
      BY <3>2, Zenon
  <2>2. CASE ~ (smsReady' /\ ~ smsReady)
    <3>1. loads' = loads + 0
      BY <2>2, Zenon DEF SimStep
    <3>2. loads' \in Nat /\ loads' >= loads
      BY <3>1
    <3>. QED
      BY <2>2, <3>2, Zenon
  <2>. QED
    BY <2>1, <2>2, Zenon
<1>5. /\ step' = step \/ (~ Loading /\ ~ Loading')
      /\ smsReady' = smsReady \/ smsReady' = TRUE
  <2>1. CASE CardChanges
    <3>1. step' = step /\ smsReady' = smsReady
      BY <2>1, Zenon DEF CardChanges
    <3>. QED
      BY <3>1, Zenon
  <2>2. CASE Poll
    <3>1. step = "free" /\ step' \in {"asking", "free"}
      BY <2>2 DEF Poll
    <3>2. smsReady' = smsReady
      BY <2>2, Zenon DEF Poll
    <3>3. ~ Loading /\ ~ Loading'
      BY <3>1 DEF Loading
    <3>. QED
      BY <3>2, <3>3, Zenon
  <2>3. CASE AskAnswered
    <3>1. step = "asking" /\ step' = "answered" /\ smsReady' = smsReady
      BY <2>3, Zenon DEF AskAnswered
    <3>2. ~ Loading /\ ~ Loading'
      BY <3>1 DEF Loading
    <3>. QED
      BY <3>1, <3>2, Zenon
  <2>4. CASE AskDone
    <3>1. step = "answered" /\ step' = "free" /\ smsReady' = smsReady
      BY <2>4, Zenon DEF AskDone
    <3>2. ~ Loading /\ ~ Loading'
      BY <3>1 DEF Loading
    <3>. QED
      BY <3>1, <3>2, Zenon
  <2>5. CASE UnlockJob
    <3>1. step = "free" /\ step' = "unlocking" /\ smsReady' = smsReady
      BY <2>5, Zenon DEF UnlockJob
    <3>2. ~ Loading /\ ~ Loading'
      BY <3>1 DEF Loading
    <3>. QED
      BY <3>1, <3>2, Zenon
  <2>6. CASE PinTaken
    <3>1. step = "unlocking" /\ step' = "unlocked" /\ smsReady' = smsReady
      BY <2>6, Zenon DEF PinTaken
    <3>2. ~ Loading /\ ~ Loading'
      BY <3>1 DEF Loading
    <3>. QED
      BY <3>1, <3>2, Zenon
  <2>7. CASE UnlockDone
    <3>1. step = "unlocked" /\ step' = "asking" /\ smsReady' = smsReady
      BY <2>7, Zenon DEF UnlockDone
    <3>2. ~ Loading /\ ~ Loading'
      BY <3>1 DEF Loading
    <3>. QED
      BY <3>1, <3>2, Zenon
  <2>8. CASE InitSms
    <3>1. step = "free" /\ smsReady' = smsReady
      BY <2>8, Zenon DEF InitSms
    <3>2. step' \in {"free", "initSms"}
      BY <2>8, Zenon DEF InitSms
    <3>3. ~ Loading /\ ~ Loading'
      BY <3>1, <3>2 DEF Loading
    <3>. QED
      BY <3>1, <3>3, Zenon
  <2>9. CASE InitSmsDone
    <3>1. step = "initSms" /\ step' = "free" /\ (smsReady' = smsReady \/ smsReady' = TRUE)
      BY <2>9, Zenon DEF InitSmsDone
    <3>2. ~ Loading /\ ~ Loading'
      BY <3>1 DEF Loading
    <3>. QED
      BY <3>1, <3>2, Zenon
  <2>. QED
    BY <2>1, <2>2, <2>3, <2>4, <2>5, <2>6, <2>7, <2>8, <2>9, Zenon DEF SimStep
<1>6. smsReady' \in BOOLEAN
  BY <1>5, Zenon
<1>. QED
  BY <1>1, <1>4, <1>5, <1>6, Zenon

\* What the store says is not disturbed by a step of the SIM.
LEMMA SimStepKeeps ==
  ASSUME StoreInv, SimStep
  PROVE  StoreInv'
<1>0. loads \in Nat /\ smsReady \in BOOLEAN
  BY Zenon DEF StoreInv, StoreTypes
<1>1. /\ UNCHANGED <<slot, read, arrived, db, file, lossy, again, missed>>
      /\ (dbReady' <=> dbReady) /\ dbReady' = dbReady
      /\ step' = step \/ (~ Loading /\ ~ Loading')
      /\ loads' \in Nat /\ loads' >= loads
      /\ smsReady' \in BOOLEAN
      /\ smsReady' => smsReady \/ loads' > 0
  BY <1>0, SimStepDoes
<1>2. \/ step' = step
      \/ /\ step \notin {"list", "listing", "save", "delete"}
         /\ step' \notin {"list", "listing", "save", "delete"}
  BY <1>1, Zenon DEF Loading
<1>3. /\ step = "list" <=> step' = "list"
      /\ step = "listing" <=> step' = "listing"
      /\ step = "save" <=> step' = "save"
      /\ step = "delete" <=> step' = "delete"
      /\ step \in {"save", "delete"} <=> step' \in {"save", "delete"}
      /\ Loading' <=> Loading
  BY <1>2, Zenon DEF Loading
<1>4. StoreTypes'
  BY <1>1, <1>3, Zenon DEF StoreInv, StoreTypes
<1>5. Origin'
  BY <1>1, Zenon DEF StoreInv, Origin
<1>6. Saved'
  BY <1>1, <1>3, Zenon DEF StoreInv, Saved
<1>7. Once'
  BY <1>1, <1>3, Zenon DEF StoreInv, Once
<1>8. Known'
  <2>1. loads > 0 => loads' > 0
    BY <1>0, <1>1
  <2>. QED
    BY <1>1, <1>3, <2>1, Zenon DEF StoreInv, Known, ListingDue
<1>. QED
  BY <1>4, <1>5, <1>6, <1>7, <1>8 DEF StoreInv

\* The database is what the file has, or what it was, or nothing after a failure.
LEMMA LoadJobKeeps ==
  ASSUME StoreInv, LoadJob
  PROVE  StoreInv'
<1>1. /\ UNCHANGED <<slot, read, arrived, file, again, missed>>
      /\ step = "free" /\ step' = "list" /\ dbReady' = TRUE
      /\ smsReady' = smsReady
  BY Zenon DEF LoadJob
<1>2. loads \in Nat /\ loads' \in Nat
  BY DEF LoadJob, StoreInv, StoreTypes
<1>3. file.messages \in Seq(Messages) /\ smsReady \in BOOLEAN
  BY Zenon DEF StoreInv, StoreTypes
<1>4. \/ ~ dbReady /\ db' = Unserialized(file.messages) /\ lossy' = lossy
      \/ db' = NoDb /\ lossy' = lossy \cup {"load"}
      \/ dbReady /\ UNCHANGED <<db, lossy>>
  BY Zenon DEF LoadJob
<1>5. /\ Consistent(Unserialized(file.messages))
      /\ \A q \in Parts : InDb(Unserialized(file.messages), q) <=> Has(file.messages, q)
      /\ Single(file.messages) => Single(Unserialized(file.messages).storage)
  BY <1>3, LoadedFacts
<1>6. (\A q \in Parts : ~ InDb(NoDb, q)) /\ Single(NoDb.storage)
  BY DEF InDb, Has, Single, NoDb
<1>7. lossy' = {} => lossy' = lossy
  BY <1>4
<1>n. /\ step \notin {"save", "delete"} /\ step' \notin {"save", "delete"}
      /\ step # "delete" /\ step' # "delete" /\ step' # "save"
  BY <1>1
<1>8. StoreTypes'
  <2>1. Consistent(db')
    BY <1>4, <1>5, NoDbConsistent, Zenon DEF StoreInv, StoreTypes
  <2>. QED
    BY <1>1, <1>2, <2>1, Zenon DEF StoreInv, StoreTypes
<1>9. \A q \in Parts : InDb(db', q) => InDb(db, q) \/ Has(file.messages, q)
  BY <1>4, <1>5, <1>6, Zenon
<1>10. Origin'
  BY <1>1, <1>9, Zenon DEF StoreInv, Origin
<1>11. Saved'
  <2>1. ASSUME lossy' = {}
        PROVE  \A q \in arrived : Has(file.messages, q) => InDb(db', q)
    <3>1. lossy = {} /\ lossy' # lossy \cup {"load"} /\ arrived \subseteq Parts
      BY <1>7, <2>1 DEF StoreInv, StoreTypes
    <3>. QED
      BY <1>4, <1>5, <3>1, Zenon DEF StoreInv, Saved
  <2>. QED
    BY <1>1, <1>7, <1>n, <2>1, Zenon DEF StoreInv, Saved
<1>12. Once'
  <2>1. ASSUME again = {}
        PROVE  Single(db'.storage)
    BY <1>4, <1>5, <1>6, <2>1, Zenon DEF StoreInv, Once
  <2>2. ASSUME again = {}, NEW s \in Full(slot)
        PROVE  ~ InDb(db', slot[s]) /\ ~ Has(file.messages, slot[s])
    <3>1. ~ InDb(db, slot[s]) /\ ~ Has(file.messages, slot[s])
      BY <1>n, <2>2, Zenon DEF StoreInv, Once
    <3>2. slot[s] \in Parts
      BY FullFacts DEF StoreInv, StoreTypes
    <3>. QED
      BY <1>9, <3>1, <3>2, Zenon
  <2>. QED
    BY <1>1, <2>1, <2>2, Zenon DEF StoreInv, Once
<1>13. Known'
  BY <1>1 DEF Known, ListingDue
<1>. QED
  BY <1>8, <1>10, <1>11, <1>12, <1>13 DEF StoreInv

\* The modem takes all that it holds, and the database has what is in the file.
LEMMA ListTakenKeeps ==
  ASSUME StoreInv, ListTaken
  PROVE  StoreInv'
<1>1. /\ UNCHANGED <<slot, arrived, loads, db, file, lossy, again>>
      /\ step = "list" /\ step' = "listing" /\ dbReady' = dbReady
      /\ smsReady' = smsReady /\ read' = Full(slot)
  BY Zenon DEF ListTaken, Listed, Stored, Full
<1>2. slot \in [Slots -> Parts \cup {Empty}] /\ arrived \subseteq Parts
  BY DEF StoreInv, StoreTypes
<1>3. \A p \in Parts : At(slot, p) <=> \E s \in Full(slot) : slot[s] = p
  BY <1>2, FullFacts
<1>4. dbReady
  BY <1>1, Zenon DEF StoreInv, StoreTypes, Loading
<1>n. /\ step \notin {"save", "delete"} /\ step' \notin {"save", "delete"}
      /\ step # "delete" /\ step' # "delete" /\ step' # "save"
  BY <1>1
<1>5. StoreTypes'
  <2>1. Full(slot) \subseteq Full(slot)
    OBVIOUS
  <2>. QED
    BY <1>1, <1>4, <2>1, Zenon DEF StoreInv, StoreTypes
<1>6. Origin'
  BY <1>1, Zenon DEF StoreInv, Origin
<1>7. Saved'
  BY <1>1, <1>n, Zenon DEF StoreInv, Saved
<1>8. Once'
  BY <1>1, <1>n, Zenon DEF StoreInv, Once
<1>9. Known'
  <2>1. lossy = {} => \A p \in arrived : InDb(db, p) \/ \E s \in Full(slot) : slot[s] = p
    BY <1>2, <1>3, <1>4, Zenon DEF StoreInv, Saved
  <2>2. ASSUME lossy' = {}, NEW p \in arrived'
        PROVE  InDb(db', p) \/ (step' = "listing" /\ \E s \in read' : slot'[s] = p)
    <3>1. p \in arrived /\ lossy = {}
      BY <1>1, <2>2
    <3>2. InDb(db, p) \/ \E s \in Full(slot) : slot[s] = p
      BY <2>1, <3>1, Zenon
    <3>3. db' = db /\ read' = Full(slot) /\ slot' = slot /\ step' = "listing"
      BY <1>1
    <3>. QED
      BY <3>2, <3>3, Zenon
  <2>. QED
    BY <2>2, Zenon DEF Known
<1>. QED
  BY <1>5, <1>6, <1>7, <1>8, <1>9 DEF StoreInv

\* What the modem lists is added, and is in it still.
LEMMA ListAnsweredKeeps ==
  ASSUME StoreInv, ListAnswered
  PROVE  StoreInv'
<1>1. /\ UNCHANGED <<slot, read, arrived, loads, file, lossy, again>>
      /\ step \in {"list", "listing"} /\ dbReady' = dbReady
      /\ smsReady' = smsReady
  BY DEF ListAnswered
<1>2. slot \in [Slots -> Parts \cup {Empty}] /\ read \subseteq Full(slot) /\ arrived \subseteq Parts
  BY DEF StoreInv, StoreTypes
<1>3. /\ \A s \in Full(slot) : s \in Slots /\ slot[s] \in Parts /\ At(slot, slot[s])
      /\ \A p \in Parts : At(slot, p) <=> \E s \in Full(slot) : slot[s] = p
  BY <1>2, FullFacts
<1>4. dbReady
  BY <1>1, Zenon DEF StoreInv, StoreTypes, Loading
<1>n. step \notin {"save", "delete"} /\ step # "delete"
  BY <1>1
<1>o. again = {} => /\ Single(db.storage) /\ Single(file.messages)
                    /\ \A s \in Full(slot) : ~ InDb(db, slot[s]) /\ ~ Has(file.messages, slot[s])
  BY <1>n, Zenon DEF StoreInv, Once
<1>5. CASE /\ step = "listing" /\ step' = "save" /\ missed' = missed
           /\ \E q \in Listings : db' = AddAll(db, [n \in DOMAIN q |-> Decoded(slot[q[n]])])
  <2>1. PICK q \in Listings : db' = AddAll(db, [n \in DOMAIN q |-> Decoded(slot[q[n]])])
    BY <1>5
  <2> DEFINE N == Cardinality(read)
             ps == [n \in 1 .. N |-> slot[q[n]]]
             raws == [n \in DOMAIN q |-> Decoded(slot[q[n]])]
  <2>2. N \in Nat
    <3>1. IsFiniteSet(read)
      BY <1>2, SmsAssumption, FS_Subset DEF Full
    <3>. QED
      BY <3>1, FS_CardinalityType
  <2> HIDE DEF N
  <2>3. /\ q \in [1 .. N -> read]
        /\ \A i, j \in 1 .. N : q[i] = q[j] => i = j
        /\ \A s \in read : \E i \in 1 .. N : q[i] = s
    BY DEF Listings, Bijection, Injection, Surjection, IsInjective, N
  <2>4. ps \in Seq(Parts) /\ Len(ps) = N /\ \A n \in 1 .. N : ps[n] = slot[q[n]]
    BY <1>2, <1>3, <2>2, <2>3
  <2>5. Len(raws) = N /\ \A n \in 1 .. N : raws[n] = Decoded(ps[n])
    BY <2>2, <2>3, <2>4
  <2> HIDE DEF ps, raws
  <2>6. /\ Consistent(db')
        /\ \A p \in Parts : InDb(db', p) <=> InDb(db, p) \/ \E k \in 1 .. N : ps[k] = p
        /\ (/\ Single(db.storage) /\ \A k \in 1 .. N : ~ InDb(db, ps[k])
            /\ \A j, k \in 1 .. N : ps[j] = ps[k] => j = k)
             => Single(db'.storage)
    <3>1. db' = AddAll(db, raws)
      BY <2>1 DEF raws
    <3>2. Consistent(db)
      BY DEF StoreInv, StoreTypes
    <3>3. /\ Consistent(AddAll(db, raws))
          /\ \A p \in Parts : InDb(AddAll(db, raws), p) <=> InDb(db, p) \/ \E k \in 1 .. Len(ps) : ps[k] = p
          /\ (/\ Single(db.storage) /\ \A k \in 1 .. Len(ps) : ~ InDb(db, ps[k])
              /\ \A j, k \in 1 .. Len(ps) : ps[j] = ps[k] => j = k)
               => Single(AddAll(db, raws).storage)
      BY <2>4, <2>5, <3>2, AddAllFacts
    <3>. QED
      BY <2>4, <3>1, <3>3
  <2>7. \A p : (\E k \in 1 .. N : ps[k] = p) <=> \E s \in read : slot[s] = p
    BY <2>3, <2>4
  <2>8. \A p \in Parts : InDb(db', p) <=> InDb(db, p) \/ \E s \in read : slot[s] = p
    BY <2>6, <2>7, Zenon
  <2>m. \A p \in Parts : (\E s \in read : slot[s] = p) => At(slot, p)
    BY <1>2, <1>3
  <2>9. \A j, k \in 1 .. N : ps[j] = ps[k] => j = k
    BY <1>2, <2>3, <2>4 DEF StoreInv, Origin
  <2>10. again = {} => Single(db'.storage)
    <3>1. again = {} => \A k \in 1 .. N : ~ InDb(db, ps[k])
      BY <1>2, <1>o, <2>3, <2>4
    <3>. QED
      BY <1>o, <2>6, <2>9, <3>1, Zenon
  <2>11. StoreTypes'
    BY <1>1, <1>2, <1>4, <1>5, <2>6, Zenon DEF StoreInv, StoreTypes
  <2>12. Origin'
    BY <1>1, <2>8, <2>m, Zenon DEF StoreInv, Origin
  <2>13. Saved'
    <3>1. step' # "delete"
      BY <1>5
    <3>2. \A s \in read' : InDb(db', slot[s])
      BY <1>1, <1>2, <1>3, <2>8
    <3>. QED
      BY <1>1, <1>2, <2>8, <3>1, <3>2 DEF StoreInv, Saved
  <2>14. Once'
    <3>1. step' # "delete" /\ step' \in {"save", "delete"}
      BY <1>5
    <3>2. \A s \in Full(slot) : s \notin read => \A u \in read : slot[u] # slot[s]
      BY <1>2 DEF StoreInv, Origin
    <3>3. again = {} => \A s \in Full(slot) : s \notin read => ~ InDb(db', slot[s])
      BY <1>3, <1>o, <2>8, <3>2, Zenon
    <3>. QED
      BY <1>1, <1>o, <2>10, <3>1, <3>3, Zenon DEF Once
  <2>15. Known'
    <3>1. ASSUME \A p \in arrived : InDb(db, p) \/ (step = "listing" /\ \E s \in read : slot[s] = p)
          PROVE  \A p \in arrived : InDb(db', p)
      BY <1>2, <2>8, <3>1
    <3>2. ~ step = "list"
      BY <1>5
    <3>. QED
      BY <1>1, <1>5, <3>1, <3>2, Zenon DEF StoreInv, Known, ListingDue
  <2>. QED
    BY <2>11, <2>12, <2>13, <2>14, <2>15 DEF StoreInv
<1>6. CASE step' = "free" /\ db' = db /\ missed' = missed \cup {"list"}
  <2>1. missed' # {}
    BY <1>6
  <2>2. /\ step' \notin {"save", "delete"} /\ step' # "delete" /\ step' # "save"
        /\ ~ Loading'
    BY <1>6 DEF Loading
  <2>3. StoreTypes'
    BY <1>1, <1>6, <2>2, Zenon DEF StoreInv, StoreTypes
  <2>4. Origin'
    BY <1>1, <1>6, Zenon DEF StoreInv, Origin
  <2>5. Saved'
    BY <1>1, <1>4, <1>6, <2>2, Zenon DEF StoreInv, Saved
  <2>6. Once'
    BY <1>1, <1>6, <1>o, Zenon DEF Once
  <2>7. Known'
    BY <2>1, Zenon DEF Known
  <2>. QED
    BY <2>3, <2>4, <2>5, <2>6, <2>7 DEF StoreInv
<1>. QED
  BY <1>5, <1>6, Zenon DEF ListAnswered

\* The file is the database, or a part of it or the old one, which is a loss.
LEMMA SaveDoneKeeps ==
  ASSUME StoreInv, SaveDone
  PROVE  StoreInv'
<1>1. /\ UNCHANGED <<slot, read, arrived, loads, db, missed>>
      /\ step = "save" /\ dbReady' = dbReady
      /\ smsReady' = smsReady
  BY Zenon DEF SaveDone
<1>2. dbReady /\ Consistent(db) /\ arrived \subseteq Parts /\ file.messages \in Seq(Messages)
  BY <1>1, Zenon DEF StoreInv, StoreTypes, Loading
<1>3. \A s \in Full(slot) : slot[s] \in Parts
  BY FullFacts DEF StoreInv, StoreTypes
<1>4. read \subseteq Full(slot)
  BY DEF StoreInv, StoreTypes
<1> DEFINE msgs == Serialized(db)
<1>5. /\ msgs \in Seq(Messages)
      /\ \A q \in Parts : Has(msgs, q) <=> InDb(db, q)
      /\ Single(db.storage) => Single(msgs)
  BY <1>2, SerializedFacts
<1> HIDE DEF msgs
<1>6. again = {} => /\ Single(db.storage) /\ Single(file.messages)
                    /\ \A s \in Full(slot) : /\ s \notin read => ~ InDb(db, slot[s])
                                             /\ ~ Has(file.messages, slot[s])
  <2>1. step # "delete"
    BY <1>1
  <2>. QED
    BY <2>1, Zenon DEF StoreInv, Once
<1>7. CASE step' = "delete" /\ file' = [messages |-> msgs, torn |-> FALSE] /\ lossy' = lossy /\ again' = again
  <2>1. file'.messages = msgs /\ file'.torn = FALSE
    BY <1>7
  <2>2. step' # "save" /\ step' # "list"
    BY <1>7
  <2>l. step # "listing"
    BY <1>1
  <2>3. StoreTypes'
    BY <1>1, <1>2, <1>5, <2>1, Zenon DEF StoreInv, StoreTypes
  <2>4. Origin'
    BY <1>1, <1>5, <2>1, Zenon DEF StoreInv, Origin
  <2>5. Saved'
    <3>1. ASSUME lossy = {}
          PROVE  \A q \in arrived : At(slot, q) \/ Has(msgs, q)
      BY <1>2, <1>5, <3>1, Zenon DEF StoreInv, Saved
    <3>2. ASSUME lossy = {}
          PROVE  \A s \in read : Has(msgs, slot[s])
      <4>1. \A s \in read : InDb(db, slot[s]) /\ slot[s] \in Parts
        BY <1>1, <1>3, <1>4, <3>2 DEF StoreInv, Saved
      <4>. QED
        BY <1>5, <4>1
    <3>3. \A q \in arrived : Has(msgs, q) => InDb(db, q)
      BY <1>2, <1>5
    <3>. QED
      BY <1>1, <1>7, <2>1, <2>2, <3>1, <3>2, <3>3, Zenon DEF Saved
  <2>6. Once'
    <3>1. again = {} => \A s \in Full(slot) : s \notin read => ~ InDb(db, slot[s]) /\ ~ Has(msgs, slot[s])
      BY <1>3, <1>5, <1>6, Zenon
    <3>2. step' \in {"save", "delete"} /\ ~ (step' # "delete")
      BY <1>7
    <3>. QED
      BY <1>1, <1>5, <1>6, <1>7, <2>1, <3>1, <3>2, Zenon DEF Once
  <2>7. Known'
    <3>1. step # "list"
      BY <1>1
    <3>. QED
      BY <1>1, <1>7, <2>l, <3>1, Zenon DEF StoreInv, Known, ListingDue
  <2>. QED
    BY <2>3, <2>4, <2>5, <2>6, <2>7 DEF StoreInv
<1>8. CASE step' = "free" /\ again' = again \cup {"unsaved"} /\ UNCHANGED <<file, lossy>>
  <2>1. /\ step' \notin {"save", "delete", "list"} /\ step' # "delete" /\ step' # "save"
        /\ step # "list" /\ step # "listing" /\ again' # {}
    BY <1>1, <1>8
  <2>2. StoreTypes'
    BY <1>1, <1>2, <1>8, Zenon DEF StoreInv, StoreTypes
  <2>3. Origin'
    BY <1>1, <1>8, Zenon DEF StoreInv, Origin
  <2>4. Saved'
    BY <1>1, <1>8, <2>1, Zenon DEF StoreInv, Saved
  <2>5. Once'
    BY <2>1, Zenon DEF Once
  <2>6. Known'
    BY <1>1, <1>8, <2>1, Zenon DEF StoreInv, Known, ListingDue
  <2>. QED
    BY <2>2, <2>3, <2>4, <2>5, <2>6 DEF StoreInv
<1>9. CASE step' = "delete" /\ TornFile /\ lossy' = lossy \cup {"write"} /\ again' = again
  <2>1. PICK n \in 0 .. db.next - 1 : file' = [messages |-> SubSeq(msgs, 1, n), torn |-> TRUE]
    BY <1>9 DEF TornFile, msgs
  <2>2. n \in 0 .. Len(msgs)
    <3>1. db.next \in Nat
      BY <1>2 DEF Consistent
    <3>2. Len(msgs) = db.next
      BY <3>1 DEF msgs, Serialized
    <3>. QED
      BY <3>1, <3>2
  <2> DEFINE part == SubSeq(msgs, 1, n)
  <2>3. /\ part \in Seq(Messages)
        /\ \A q \in Parts : Has(part, q) => Has(msgs, q)
        /\ Single(msgs) => Single(part)
    BY <1>5, <2>2, TornFacts
  <2>4. file'.messages = part /\ file'.torn = TRUE
    BY <2>1
  <2> HIDE DEF part
  <2>5. lossy' # {} /\ step' \in {"save", "delete"} /\ ~ (step' # "delete")
    BY <1>9
  <2>6. StoreTypes'
    BY <1>1, <1>2, <2>3, <2>4, Zenon DEF StoreInv, StoreTypes
  <2>7. Origin'
    BY <1>1, <1>5, <2>3, <2>4, Zenon DEF StoreInv, Origin
  <2>8. Saved'
    BY <2>5, Zenon DEF Saved
  <2>9. Once'
    <3>1. again = {} => \A s \in Full(slot) : s \notin read => ~ InDb(db, slot[s]) /\ ~ Has(part, slot[s])
      BY <1>3, <1>5, <1>6, <2>3, Zenon
    <3>. QED
      BY <1>1, <1>5, <1>6, <1>9, <2>3, <2>4, <2>5, <3>1, Zenon DEF Once
  <2>10. Known'
    BY <2>5, Zenon DEF Known
  <2>. QED
    BY <2>6, <2>7, <2>8, <2>9, <2>10 DEF StoreInv
<1>10. CASE step' = "delete" /\ lossy' = lossy \cup {"rename"} /\ UNCHANGED <<file, again>>
  <2>1. lossy' # {} /\ step' \in {"save", "delete"} /\ ~ (step' # "delete")
    BY <1>10
  <2>2. StoreTypes'
    BY <1>1, <1>2, <1>10, Zenon DEF StoreInv, StoreTypes
  <2>3. Origin'
    BY <1>1, <1>10, Zenon DEF StoreInv, Origin
  <2>4. Saved'
    BY <2>1, Zenon DEF Saved
  <2>5. Once'
    BY <1>1, <1>6, <1>10, <2>1, Zenon DEF Once
  <2>6. Known'
    BY <2>1, Zenon DEF Known
  <2>. QED
    BY <2>2, <2>3, <2>4, <2>5, <2>6 DEF StoreInv
<1>. QED
  BY <1>7, <1>8, <1>9, <1>10, Zenon DEF SaveDone, msgs

\* Slots that are emptied lose what the file has.
LEMMA DeleteDoneKeeps ==
  ASSUME StoreInv, DeleteDone
  PROVE  StoreInv'
<1>1. /\ UNCHANGED <<arrived, loads, db, file, missed, lossy>>
      /\ step = "delete" /\ step' = "free" /\ dbReady' = dbReady
      /\ smsReady' = smsReady
  BY Zenon DEF DeleteDone, dbVars
<1>2. dbReady /\ arrived \subseteq Parts
  BY <1>1, Zenon DEF StoreInv, StoreTypes, Loading
<1>n. /\ step' \notin {"save", "delete"} /\ step' # "delete" /\ step' # "save" /\ step' # "list"
      /\ step # "list" /\ step # "listing" /\ step # "save" /\ ~ Loading'
  BY <1>1 DEF Loading
<1>3. /\ slot \in [Slots -> Parts \cup {Empty}] /\ read \subseteq Full(slot)
      /\ \A s \in Full(slot) : slot[s] \in Parts
  BY FullFacts DEF StoreInv, StoreTypes
<1>k. Known'
  <2>1. smsReady /\ missed = {} /\ lossy = {} => loads > 0 \/ \A p \in arrived : InDb(db, p)
    BY <1>n, Zenon DEF StoreInv, Known, ListingDue
  <2>2. /\ (smsReady' <=> smsReady) /\ missed' = missed /\ lossy' = lossy /\ loads' = loads
        /\ arrived' = arrived /\ db' = db
    BY <1>1, Zenon
  <2>. QED
    BY <2>1, <2>2, Zenon DEF Known, ListingDue
<1>4. CASE slot' = [s \in Slots |-> IF s \in read THEN Empty ELSE slot[s]] /\ read' = {} /\ again' = again
  <2>1. /\ slot' \in [Slots -> Parts \cup {Empty}]
        /\ \A s \in Full(slot') : s \in Full(slot) /\ s \notin read /\ slot'[s] = slot[s]
        /\ \A s \in Full(slot) : s \notin read => s \in Full(slot') /\ slot'[s] = slot[s]
    BY <1>3, <1>4 DEF Full
  <2>2. \A p \in Parts : At(slot', p) => At(slot, p)
    <3>1. \A p \in Parts : At(slot', p) => \E s \in Full(slot') : slot'[s] = p
      BY <2>1, FullFacts
    <3>2. \A p \in Parts : (\E s \in Full(slot) : slot[s] = p) => At(slot, p)
      BY <1>3, FullFacts
    <3>. QED
      BY <2>1, <3>1, <3>2, Zenon
  <2>3. \A p \in Parts : At(slot, p) => At(slot', p) \/ \E s \in read : slot[s] = p
    <3>1. \A p \in Parts : At(slot, p) => \E s \in Full(slot) : slot[s] = p
      BY <1>3, FullFacts
    <3>2. \A p \in Parts : (\E s \in Full(slot') : slot'[s] = p) => At(slot', p)
      BY <2>1, FullFacts
    <3>. QED
      BY <2>1, <3>1, <3>2, Zenon
  <2>4. StoreTypes'
    <3>1. read' \subseteq Full(slot')
      BY <1>4
    <3>. QED
      BY <1>1, <1>n, <2>1, <3>1, Zenon DEF StoreInv, StoreTypes
  <2>5. Origin'
    BY <1>1, <2>1, <2>2, Zenon DEF StoreInv, Origin
  <2>6. Saved'
    <3>1. ASSUME lossy = {}
          PROVE  \A p \in arrived : At(slot', p) \/ Has(file.messages, p)
      BY <1>1, <1>2, <2>3, <3>1, Zenon DEF StoreInv, Saved
    <3>. QED
      BY <1>1, <1>n, <3>1, Zenon DEF StoreInv, Saved
  <2>7. Once'
    <3>1. again = {} => \A s \in Full(slot) : s \notin read => ~ InDb(db, slot[s]) /\ ~ Has(file.messages, slot[s])
      BY Zenon DEF StoreInv, Once
    <3>. QED
      BY <1>1, <1>4, <2>1, <3>1, Zenon DEF StoreInv, Once
  <2>. QED
    BY <1>k, <2>4, <2>5, <2>6, <2>7 DEF StoreInv
<1>5. CASE UNCHANGED <<slot, read>> /\ again' = again \cup {"undeleted"}
  <2>1. again' # {}
    BY <1>5
  <2>2. StoreTypes'
    BY <1>1, <1>5, <1>n, Zenon DEF StoreInv, StoreTypes
  <2>3. Origin'
    BY <1>1, <1>5, Zenon DEF StoreInv, Origin
  <2>4. Saved'
    BY <1>1, <1>5, <1>n, Zenon DEF StoreInv, Saved
  <2>5. Once'
    BY <2>1, Zenon DEF Once
  <2>. QED
    BY <1>k, <2>2, <2>3, <2>4, <2>5 DEF StoreInv
<1>. QED
  BY <1>4, <1>5, Zenon DEF DeleteDone

\* A slot that the API empties is a loss.
LEMMA ApiDeleteSmsKeeps ==
  ASSUME StoreInv, ApiDeleteSms
  PROVE  StoreInv'
<1>1. PICK id \in Slots :
        slot[id] # Empty /\ slot' = [slot EXCEPT ![id] = Empty] /\ read' = read \ {id}
  BY DEF ApiDeleteSms
<1>2. /\ step = "free" /\ lossy' = lossy \cup {"api"}
      /\ UNCHANGED <<arrived, loads, db, file, again, missed, step>>
      /\ dbReady' = dbReady /\ smsReady' = smsReady
  BY Zenon DEF ApiDeleteSms, simVars, pollVars, dbVars
<1>3. slot \in [Slots -> Parts \cup {Empty}] /\ read \subseteq Full(slot)
  BY DEF StoreInv, StoreTypes
<1>4. /\ slot' \in [Slots -> Parts \cup {Empty}] /\ read' \subseteq Full(slot')
      /\ \A s \in Full(slot') : s \in Full(slot) /\ slot'[s] = slot[s]
  BY <1>1, <1>3 DEF Full
<1>5. \A p \in Parts : At(slot', p) => At(slot, p)
  <2>1. \A p \in Parts : At(slot', p) => \E s \in Full(slot') : slot'[s] = p
    BY <1>4, FullFacts
  <2>2. \A p \in Parts : (\E s \in Full(slot) : slot[s] = p) => At(slot, p)
    BY <1>3, FullFacts
  <2>. QED
    BY <1>4, <2>1, <2>2, Zenon
<1>6. lossy' # {} /\ step \notin {"save", "delete"} /\ step # "delete"
  BY <1>2
<1>7. StoreTypes'
  BY <1>2, <1>4, Zenon DEF StoreInv, StoreTypes, Loading
<1>8. Origin'
  BY <1>2, <1>4, <1>5, Zenon DEF StoreInv, Origin
<1>9. Saved' /\ Known'
  BY <1>6, Zenon DEF Saved, Known
<1>10. Once'
  <2>1. again = {} => \A s \in Full(slot) : ~ InDb(db, slot[s]) /\ ~ Has(file.messages, slot[s])
    BY <1>6, Zenon DEF StoreInv, Once
  <2>. QED
    BY <1>2, <1>4, <2>1, Zenon DEF StoreInv, Once
<1>. QED
  BY <1>7, <1>8, <1>9, <1>10 DEF StoreInv

\* The memory is gone; what is in the modem and in the file is not.
LEMMA DaemonRestartsKeeps ==
  ASSUME StoreInv, DaemonRestarts
  PROVE  StoreInv'
<1>1. /\ UNCHANGED <<slot, read, arrived, file, lossy, missed>>
      /\ loads' = 0 /\ dbReady' = FALSE /\ db' = NoDb
      /\ step' = "asking" /\ smsReady' = FALSE
  BY Zenon DEF DaemonRestarts, Restart, ProgramStarts
<1>2. again' = {} => again = {} /\ step # "delete"
  BY DEF DaemonRestarts
<1>n. /\ step' \notin {"save", "delete"} /\ step' # "delete" /\ step' # "save" /\ ~ Loading'
      /\ loads' \in Nat
  BY <1>1 DEF Loading
<1>3. (\A q \in Parts : ~ InDb(NoDb, q)) /\ Single(NoDb.storage)
  BY DEF InDb, Has, Single, NoDb
<1>4. StoreTypes'
  <2>1. dbReady' \in BOOLEAN /\ smsReady' \in BOOLEAN
    BY <1>1, Zenon
  <2>. QED
    BY <1>1, <1>n, <2>1, NoDbConsistent, Zenon DEF StoreInv, StoreTypes
<1>5. Origin'
  BY <1>1, <1>3, Zenon DEF StoreInv, Origin
<1>6. Saved'
  BY <1>1, <1>n, Zenon DEF StoreInv, Saved
<1>7. Once'
  <2>1. \A s \in Full(slot) : slot[s] \in Parts
    BY FullFacts DEF StoreInv, StoreTypes
  <2>2. again' = {} => Single(file.messages) /\ \A s \in Full(slot) : ~ Has(file.messages, slot[s])
    BY <1>2, Zenon DEF StoreInv, Once
  <2>. QED
    BY <1>1, <1>3, <2>1, <2>2, Zenon DEF Once
<1>8. Known'
  BY <1>1, Zenon DEF Known
<1>. QED
  BY <1>4, <1>5, <1>6, <1>7, <1>8 DEF StoreInv

\* The store is kept account of in every step.
LEMMA StoreStep == StoreInv /\ [Next]_vars => StoreInv'
<1> SUFFICES ASSUME StoreInv, [Next]_vars
             PROVE  StoreInv'
  OBVIOUS
<1>1. CASE UNCHANGED vars
  <2>1. UNCHANGED <<slot, read, arrived, loads, db, file, lossy, again, missed, step>>
    BY <1>1 DEF vars, simVars, pollVars, storeVars, dbVars
  <2>2. dbReady' = dbReady /\ smsReady' = smsReady
    BY <1>1, Zenon DEF vars, simVars, storeVars, dbVars
  <2>. QED
    BY <2>1, <2>2, Zenon DEF StoreInv, StoreTypes, Origin, Saved, Once, Known, Loading, ListingDue
<1>. QED
  BY <1>1, ArrivesKeeps, SimStepKeeps, LoadJobKeeps, ListTakenKeeps, ListAnsweredKeeps, SaveDoneKeeps,
     DeleteDoneKeeps, ApiDeleteSmsKeeps, DaemonRestartsKeeps DEF Next

\* The daemon starts with an empty modem, no file and no database.
LEMMA StoreStarts == Init => StoreInv
<1> SUFFICES ASSUME Init
             PROVE  StoreInv
  OBVIOUS
<1>1. /\ slot = [s \in Slots |-> Empty] /\ read = {} /\ arrived = {} /\ loads = 0 /\ db = NoDb
      /\ file = [messages |-> <<>>, torn |-> FALSE]
  BY DEF Init
<1>2. dbReady \in BOOLEAN /\ smsReady \in BOOLEAN /\ ~ smsReady
  BY Zenon DEF Init, SimInit
<1>3. step = "asking"
  BY Zenon DEF Init, SimInit
<1>4. /\ Full(slot) = {} /\ slot \in [Slots -> Parts \cup {Empty}]
      /\ \A p \in Parts : ~ At(slot, p)
  BY <1>1, SmsAssumption DEF Full, At
<1>5. /\ file.messages \in Seq(Messages) /\ file.torn \in BOOLEAN
      /\ \A q \in Parts : ~ Has(file.messages, q)
      /\ Single(file.messages)
  BY <1>1 DEF Has, Single
<1>6. (\A q \in Parts : ~ InDb(NoDb, q)) /\ Single(NoDb.storage)
  BY DEF InDb, Has, Single, NoDb
<1>7. StoreTypes
  <2>1. ~ Loading
    BY <1>3 DEF Loading
  <2>2. loads \in Nat /\ read \subseteq Full(slot) /\ arrived \subseteq Parts
    BY <1>1
  <2>. QED
    BY <1>1, <1>2, <1>4, <1>5, <2>1, <2>2, NoDbConsistent, Zenon DEF StoreTypes
<1>8. Origin
  BY <1>1, <1>4, <1>5, <1>6, Zenon DEF Origin
<1>9. Saved
  <2>1. \A p \in {} : FALSE
    OBVIOUS
  <2>. QED
    BY <1>1, <2>1, Zenon DEF Saved
<1>10. Once
  <2>1. \A s \in Full(slot) : FALSE
    BY <1>4
  <2>. QED
    BY <1>1, <1>5, <1>6, <2>1, Zenon DEF Once
<1>11. Known
  BY <1>2, Zenon DEF Known
<1>. QED
  BY <1>7, <1>8, <1>9, <1>10, <1>11 DEF StoreInv

-----------------------------------------------------------------------------
(* Theorems. *)

\* A part is counted in the database when it is there, and once when it is in one
\* message only.
LEMMA CopiesFacts ==
  ASSUME Consistent(db), NEW p \in Parts
  PROVE  /\ InDb(db, p) => Copies(p) > 0
         /\ Single(db.storage) => Copies(p) <= 1
<1> DEFINE Ids == {id \in DOMAIN db.storage : Holds(db.storage[id], p)}
<1>1. db.next \in Nat /\ DOMAIN db.storage = 0 .. db.next - 1
  BY DEF Consistent
<1>2. IsFiniteSet(Ids)
  <2>1. IsFiniteSet(0 .. db.next - 1)
    BY <1>1, FS_Interval
  <2>. QED
    BY <1>1, <2>1, FS_Subset
<1>3. Copies(p) = Cardinality(Ids)
  BY DEF Copies
<1>4. (InDb(db, p) <=> Ids # {}) /\ (Single(db.storage) => \A i, j \in Ids : i = j)
  BY DEF InDb, Has, Single
<1> HIDE DEF Ids
<1>5. Cardinality(Ids) \in Nat /\ (Cardinality(Ids) = 0 <=> Ids = {})
  BY <1>2, FS_CardinalityType, FS_EmptySet
<1>6. ASSUME \A i, j \in Ids : i = j
      PROVE  Cardinality(Ids) <= 1
  <2>1. CASE Ids = {}
    BY <1>5, <2>1
  <2>2. CASE Ids # {}
    <3>1. PICK i : Ids = {i}
      BY <1>6, <2>2
    <3>2. Cardinality({i}) = 1
      BY FS_Singleton
    <3>. QED
      BY <3>1, <3>2
  <2>. QED
    BY <2>1, <2>2
<1>. QED
  BY <1>3, <1>4, <1>5, <1>6

\* The inductive invariant implies what the runs check.
LEMMA StoreImplies ==
  StoreInv => KeptSomewhere /\ StoredOnce /\ DatabaseConsistent /\ NoneForgotten
<1> SUFFICES ASSUME StoreInv
             PROVE  KeptSomewhere /\ StoredOnce /\ DatabaseConsistent /\ NoneForgotten
  OBVIOUS
<1>1. Consistent(db) /\ arrived \subseteq Parts
  BY DEF StoreInv, StoreTypes
<1>2. KeptSomewhere
  <2>1. \A p \in arrived : At(slot, p) \/ Has(file.messages, p) \/ lossy # {}
    BY Zenon DEF StoreInv, Saved
  <2>. QED
    BY <2>1, Zenon DEF KeptSomewhere, At, Has, InModem, InFile
<1>3. StoredOnce
  <2>1. again = {} => Single(db.storage)
    BY Zenon DEF StoreInv, Once
  <2>2. \A p \in Parts : Single(db.storage) => Copies(p) <= 1
    BY <1>1, CopiesFacts
  <2>. QED
    BY <2>1, <2>2, Zenon DEF StoredOnce
<1>4. NoneForgotten
  <2>1. ASSUME smsReady, loads = 0, step = "free", missed = {}, lossy = {}
        PROVE  \A p \in arrived : InDb(db, p)
    <3>1. ~ (loads > 0) /\ step # "list" /\ step # "listing"
      BY <2>1
    <3>. QED
      BY <2>1, <3>1, Zenon DEF StoreInv, Known, ListingDue
  <2>2. \A p \in Parts : InDb(db, p) => Copies(p) > 0
    BY <1>1, CopiesFacts
  <2>3. \A p \in arrived : p \in Parts
    BY <1>1
  <2>. QED
    BY <2>1, <2>2, <2>3, Zenon DEF NoneForgotten
<1>5. DatabaseConsistent
  <2> DEFINE n == db.next
             list == db.list
             storage == db.storage
  <2>1. /\ n \in Nat /\ storage \in [0 .. n - 1 -> Messages] /\ DOMAIN storage = 0 .. n - 1
        /\ list \in Seq(0 .. n - 1) /\ Len(list) = n /\ DOMAIN list = 1 .. n
        /\ \A id \in 0 .. n - 1 : \E i \in 1 .. n : list[i] = id
        /\ \A i, j \in 1 .. n : i < j => storage[list[i]].time >= storage[list[j]].time
    BY <1>1 DEF Consistent, Index
  <2> HIDE DEF n, list, storage
  <2>2. Cardinality(DOMAIN storage) = n
    <3>1. Cardinality(0 .. n - 1) = IF 0 <= n - 1 THEN (n - 1) - 0 + 1 ELSE 0
      BY <2>1, FS_Interval
    <3>. QED
      BY <2>1, <3>1
  <2>3. ToSet(list) = DOMAIN storage
    <3>1. ToSet(list) = {list[i] : i \in 1 .. n}
      BY <2>1 DEF ToSet
    <3>2. \A i \in 1 .. n : list[i] \in 0 .. n - 1
      BY <2>1
    <3>. QED
      BY <2>1, <3>1, <3>2
  <2>4. \A id \in DOMAIN storage : Placed(storage[id])
    BY <2>1 DEF Messages
  <2>5. /\ Len(list) = Cardinality(DOMAIN storage) /\ ToSet(list) = DOMAIN storage
        /\ \A i, j \in DOMAIN list : i < j => storage[list[i]].time >= storage[list[j]].time
    BY <2>1, <2>2, <2>3
  <2>. QED
    BY <2>4, <2>5, Zenon DEF DatabaseConsistent, Placed, list, storage
<1>. QED
  BY <1>2, <1>3, <1>4, <1>5

\* A message that was received is in the modem or in the file at every moment at
\* which the daemon may end: SmsDb::save() comes before AT+CMGD, whatever arrives
\* meanwhile, whatever fails with an error that is looked at, and however often the
\* daemon is started.
THEOREM KeptAlways == Spec => []KeptSomewhere
BY StoreStarts, StoreStep, StoreImplies, PTL DEF Spec

\* A part is stored once, for as long as the modem has kept nothing that was added:
\* add() is not asked for a part that the database or the file has.
THEOREM OnceAlways == Spec => []StoredOnce
BY StoreStarts, StoreStep, StoreImplies, PTL DEF Spec

\* The list of the database always has every message once, the newest first, and
\* every part at its place in a message of its own reference: for any times, any
\* references and any order of the parts, and after any number of files read.
THEOREM DatabaseAlways == Spec => []DatabaseConsistent
BY StoreStarts, StoreStep, StoreImplies, PTL DEF Spec

\* When nothing is due, the database has every message that has arrived, whenever it
\* came: before SMS were ready, during a loading or while the daemon was down; for as
\* long as the last listing has not failed and no +CMTI has been dropped by the channel
\* with no listing to come (AtChannel.cpp:187-195).
THEOREM NoneForgottenEver == Spec => []NoneForgotten
BY StoreStarts, StoreStep, StoreImplies, PTL DEF Spec

\* What the Sim proofs rest on is kept by the steps of the store: they are steps of
\* the SIM, or go from one command of loadSmsFromModem() to the next.
LEMMA SimInvStep ==
  TryInv /\ TwoPollings /\ RestTypes /\ [Next]_vars => TryInv' /\ TwoPollings' /\ RestTypes'
<1> SUFFICES ASSUME TryInv, TwoPollings, RestTypes, [Next]_vars
             PROVE  TryInv' /\ TwoPollings' /\ RestTypes'
  OBVIOUS
<1>1. CASE [SimNext]_simVars
  BY <1>1, TryStep, PollStep, RestStep
<1>2. CASE LoadJob \/ ListTaken \/ ListAnswered \/ SaveDone \/ DeleteDone
  <2>1. UNCHANGED <<modemVars, sim, entered, pollers, unlock, answer, initTimers, smsReady,
                    starts, sent, excuses>>
    BY <1>2, Zenon DEF LoadJob, ListTaken, ListAnswered, SaveDone, DeleteDone
  <2>2. card' = card /\ tries' = tries /\ changes' = changes /\ goodPin' = goodPin
        /\ preferSim' = preferSim /\ all' = all
    BY <2>1, Zenon DEF modemVars
  <2>3. entered' = entered /\ unlock' = unlock /\ smsReady' = smsReady
    BY <2>1, Zenon
  <2>4. UNCHANGED <<sim, pollers, answer, initTimers, starts, sent, excuses>>
    BY <2>1, Zenon
  <2>5. /\ step \in {"free", "list", "listing", "save", "delete"}
        /\ step' \in {"free", "list", "listing", "save", "delete"}
    <3>1. CASE LoadJob
      BY <3>1 DEF LoadJob
    <3>2. CASE ListAnswered
      BY <3>2 DEF ListAnswered
    <3>3. CASE SaveDone
      BY <3>3 DEF SaveDone
    <3>4. CASE DeleteDone
      BY <3>4 DEF DeleteDone
    <3>5. CASE ListTaken
      BY <3>5 DEF ListTaken
    <3>. QED
      BY <1>2, <3>1, <3>2, <3>3, <3>4, <3>5
  <2>6. /\ step # "unlocking" /\ step' # "unlocking" /\ step' \in Steps
        /\ step \notin {"unlocking", "unlocked"} /\ step' \notin {"unlocking", "unlocked"}
        /\ step \notin {"asking", "answered"} /\ step' \notin {"asking", "answered"}
    BY <2>5 DEF Steps
  <2>7. TryInv'
    BY <2>2, <2>3, <2>4, <2>6, Zenon DEF TryInv, TryTypes, Budget, Counted
  <2>8. TwoPollings'
    BY <2>3, <2>4, <2>6, Zenon DEF TwoPollings, Pending, Asking
  <2>9. RestTypes'
    BY <2>2, <2>3, <2>4, <2>6, Zenon DEF RestTypes
  <2>. QED
    BY <2>7, <2>8, <2>9
<1>3. CASE Arrives \/ ApiDeleteSms \/ UNCHANGED vars
  <2>1. UNCHANGED simVars
    BY <1>3, Zenon DEF Arrives, ApiDeleteSms, vars
  <2>. QED
    BY <1>1, <2>1
<1>4. CASE SimStep \/ DaemonRestarts
  <2>1. SimNext
    BY <1>4, Zenon DEF SimStep, DaemonRestarts, SimNext
  <2>. QED
    BY <1>1, <2>1
<1>. QED
  BY <1>2, <1>3, <1>4 DEF Next

\* The program spends at most one try of the PIN for each start, also when it loads
\* messages between the steps of the SIM.
THEOREM OneTryWithStore == Spec => []OneTryPerStart
<1>1. Init => TryInv /\ TwoPollings /\ RestTypes
  BY SimStarts, Zenon DEF Init
<1>2. TryInv => OneTryPerStart
  BY DEF TryInv, TryTypes, Budget, OneTryPerStart
<1>. QED
  BY <1>1, <1>2, SimInvStep, PTL DEF Spec

\* The variables of the SIM and of the store have their types, for any bounds.
THEOREM StoreTypesAlways == Spec => []TypeOK
<1>1. Init => TryInv /\ TwoPollings /\ RestTypes
  BY SimStarts, Zenon DEF Init
<1>2. TryInv /\ TwoPollings /\ RestTypes => SimTypeOK
  BY SimImplies
<1>3. SimTypeOK /\ StoreInv => TypeOK
  <2> SUFFICES ASSUME SimTypeOK, StoreInv
               PROVE  TypeOK
    OBVIOUS
  <2>1. /\ slot \in [Slots -> Parts \cup {Empty}] /\ read \subseteq Full(slot) /\ arrived \subseteq Parts
        /\ loads \in Nat /\ Consistent(db) /\ file.messages \in Seq(Messages)
    BY DEF StoreInv, StoreTypes
  <2>2. dbReady \in BOOLEAN /\ file.torn \in BOOLEAN
    BY Zenon DEF StoreInv, StoreTypes
  <2>3. read \subseteq Slots
    BY <2>1 DEF Full
  <2>4. file.messages \in Seq(Message)
    BY <2>1 DEF Messages
  <2>5. /\ DOMAIN db.storage = 0 .. db.next - 1 /\ db.used \in Nat
        /\ \A id \in DOMAIN db.storage : db.storage[id] \in Message
    BY <2>1 DEF Consistent, Messages
  <2>. QED
    BY <2>1, <2>2, <2>3, <2>4, <2>5, Zenon DEF TypeOK
<1>. QED
  BY <1>1, <1>2, <1>3, SimInvStep, StoreStarts, StoreStep, PTL DEF Spec

=============================================================================

---------------------------------- MODULE Sim ----------------------------------
(***************************************************************************)
(* The SIM card as the program sees it, src/usbmodem/src/Modem/BaseAt/     *)
(* Sim.cpp, up to the moment when SMS are ready, BaseAt/Sms.cpp.  +CPIN    *)
(* lines are handled on the reader's thread, the polling, the PIN and the  *)
(* initialization of SMS are timers of the Loop, which waits in its        *)
(* commands while lines come.                                              *)
(***************************************************************************)
EXTENDS Integers, Sequences, FiniteSets

CONSTANTS
  HasPin,       \* a PIN is configured
  FirstCards,   \* what the card may be when the modem starts
  Preferences,  \* whether SMS are to be stored in the SIM
  Storages,     \* what AT+CPMS=? may name: triples of sets of storages
  MaxChanges,   \* bound: changes of the card that the program does not cause
  MaxStarts     \* bound: starts of the daemon

\* What AT+CPIN? is answered with: a code, or a CME error.
Codes == {"READY", "SIM PIN", "SIM PIN2", "SIM PUK", "SIM REMOVED", "PH-NET PIN",
          "PH-SIM PIN"}
CmeErrors == {"absent", "failure", "busy", "unknown"}
Cards == Codes \cup CmeErrors

SimStates == {"NOT_INITIALIZED", "WAIT_UNLOCK", "PIN1_LOCK", "PUK1_LOCK", "MEP_LOCK",
              "OTHER_LOCK", "REMOVED", "ERROR", "READY"}

\* Where the Loop thread is: free, or in a command; the last three are those of
\* loadSmsFromModem().
Steps == {"free", "asking", "answered", "unlocking", "unlocked", "initSms",
          "list", "listing", "save", "delete"}

ASSUME SimAssumption ==
  /\ HasPin \in BOOLEAN /\ Preferences \subseteq BOOLEAN
  /\ FirstCards \subseteq Cards
  /\ \A all \in Storages : DOMAIN all = 1 .. 3
  /\ MaxChanges \in Nat /\ MaxStarts \in Nat \ {0}

VARIABLES
  card,        \* the modem: what it would answer to AT+CPIN?
  tries,       \* the modem: wrong PINs it has been given
  changes,     \* changes of the card so far
  goodPin,     \* the configured PIN is the card's
  preferSim,   \* m_sms_preferred_storage is SMS_PREFER_SIM
  all,         \* m_sms_all_storages
  sim,         \* m_sim_state
  entered,     \* m_pincode_entered
  pollers,     \* timers that will call startSimPolling()
  unlock,      \* the job that sends the PIN is queued
  step,        \* the command that the Loop thread waits in
  answer,      \* its answer
  initTimers,  \* timers that will call intiSms()
  smsReady,    \* m_sms_ready
  starts,      \* starts of the daemon
  sent,        \* history: PINs sent
  excuses      \* history: why SMS may never be ready

modemVars == <<card, tries, changes, goodPin, preferSim, all>>
pollVars == <<pollers, unlock, step, answer>>
simVars == <<modemVars, sim, entered, pollVars, initTimers, smsReady, starts, sent,
             excuses>>

SimTypeOK ==
  /\ card \in Cards /\ tries \in 0 .. MaxStarts /\ changes \in 0 .. MaxChanges
  /\ goodPin \in BOOLEAN /\ preferSim \in BOOLEAN /\ all \in Storages
  /\ sim \in SimStates /\ entered \in BOOLEAN /\ unlock \in BOOLEAN
  /\ pollers \in 0 .. 2 /\ initTimers \in Nat
  /\ step \in Steps
  /\ answer \in CmeErrors \cup {"none", "OK", "TIMEOUT"}
  /\ smsReady \in BOOLEAN /\ starts \in 1 .. MaxStarts /\ sent \in Nat
  /\ excuses \subseteq {"failed", "overwritten", "unreported", "unsupported"}

\* The program at the end of init(), which asks for the state of the card.
ProgramStarts ==
  /\ sim' = "NOT_INITIALIZED" /\ entered' = FALSE
  /\ pollers' = 0 /\ unlock' = FALSE /\ step' = "asking" /\ answer' = "none"
  /\ initTimers' = 0 /\ smsReady' = FALSE /\ excuses' = {}

SimInit ==
  /\ card \in FirstCards /\ tries = 0 /\ changes = 0
  /\ goodPin \in {HasPin, FALSE} /\ preferSim \in Preferences /\ all \in Storages
  /\ sim = "NOT_INITIALIZED" /\ entered = FALSE
  /\ pollers = 0 /\ unlock = FALSE /\ step = "asking" /\ answer = "none"
  /\ initTimers = 0 /\ smsReady = FALSE
  /\ starts = 1 /\ sent = 0 /\ excuses = {}

-----------------------------------------------------------------------------
(* The state of the card. *)

\* handleCpin() and handleSimLock() compare prefixes, in this order: the branches
\* for "SIM PIN2" and "SIM PUK2" are never reached.
StateOf(code) ==
  CASE code = "READY"                    -> "READY"
    [] code \in {"SIM PIN", "SIM PIN2"}  -> "PIN1_LOCK"
    [] code = "SIM REMOVED"              -> "REMOVED"
    [] code = "SIM PUK"                  -> "PUK1_LOCK"
    [] code = "PH-NET PIN"               -> "MEP_LOCK"
    [] OTHER                             -> "OTHER_LOCK"

\* setSimState(): a change is an event, and that of READY sets a timer for intiSms().
SetSimState(new) ==
  /\ sim' = new
  /\ initTimers' = initTimers + (IF new = "READY" /\ sim # "READY" THEN 1 ELSE 0)

\* Mutant of HandleCpin: m_pincode_entered is tested and never set.
PinNotRemembered(code) ==
  LET enter == StateOf(code) = "PIN1_LOCK" /\ HasPin /\ ~ entered
  IN  /\ SetSimState(StateOf(code))
      /\ unlock' = (unlock \/ enter)
      /\ entered' = entered

HandleCpin(code) ==
  LET enter == StateOf(code) = "PIN1_LOCK" /\ HasPin /\ ~ entered
  IN  /\ SetSimState(StateOf(code))
      /\ unlock' = (unlock \/ enter)
      /\ entered' = (entered \/ enter)

NoLine == UNCHANGED <<sim, initTimers, unlock, entered>>

\* The card changes, with a +CPIN line or without; errors have no such line.
CardChanges ==
  /\ changes < MaxChanges
  /\ changes' = changes + 1
  /\ card' \in Cards \ {card, "SIM PUK"}
  /\ card = "busy" => card' \in FirstCards
  /\ \/ /\ card' \in Codes
        /\ HandleCpin(card')
        /\ UNCHANGED excuses
     \/ /\ NoLine
        /\ excuses' = excuses \cup
             (IF card' = "READY" /\ (step = "answered" \/ sim \notin {"NOT_INITIALIZED",
                                                                    "WAIT_UNLOCK"})
              THEN {"unreported"} ELSE {})
  /\ UNCHANGED <<tries, goodPin, preferSim, all, pollers, step, answer, smsReady, starts,
                 sent>>

\* The timer of startSimPolling(): it is set again only by the polling itself.
Poll ==
  /\ step = "free" /\ pollers > 0
  /\ pollers' = pollers - 1
  /\ step' = IF sim \in {"NOT_INITIALIZED", "WAIT_UNLOCK"} THEN "asking" ELSE "free"
  /\ UNCHANGED <<modemVars, sim, entered, unlock, answer, initTimers, smsReady, starts,
                 sent, excuses>>

\* AT+CPIN? has no prefix, so its +CPIN line is handled like an unsolicited one,
\* before the command ends.
AskAnswered ==
  /\ step = "asking" /\ step' = "answered"
  /\ \/ card \in Codes /\ HandleCpin(card) /\ answer' = "OK" /\ UNCHANGED excuses
     \/ card \in CmeErrors /\ NoLine /\ answer' = card /\ UNCHANGED excuses
     \/ /\ NoLine \/ (card \in Codes /\ HandleCpin(card))
        /\ answer' = "TIMEOUT" /\ excuses' = excuses \cup {"failed"}
  /\ UNCHANGED <<modemVars, pollers, smsReady, starts, sent>>

\* Mutant of AskDone: the timer of the next poll is not set.
PolledOnce ==
  /\ step = "answered"
  /\ CASE answer \in {"OK", "busy"} -> SetSimState(sim)
       [] answer = "absent"         -> SetSimState("REMOVED")
       [] OTHER                     -> SetSimState("ERROR")
  /\ excuses' = excuses \cup (IF sim = "READY" /\ sim' # sim THEN {"overwritten"} ELSE {})
  /\ step' = "free" /\ answer' = "none"
  /\ UNCHANGED <<modemVars, entered, pollers, unlock, smsReady, starts, sent>>

\* The rest of startSimPolling(), when AT+CPIN? has returned.  A line that came
\* after the answer is overwritten by what the answer says.
AskDone ==
  /\ step = "answered"
  /\ CASE answer \in {"OK", "busy"} -> SetSimState(sim)
       [] answer = "absent"         -> SetSimState("REMOVED")
       [] OTHER                     -> SetSimState("ERROR")
  /\ excuses' = excuses \cup (IF sim = "READY" /\ sim' # sim THEN {"overwritten"} ELSE {})
  /\ pollers' = pollers + 1 /\ step' = "free" /\ answer' = "none"
  /\ UNCHANGED <<modemVars, entered, unlock, smsReady, starts, sent>>

-----------------------------------------------------------------------------
(* The PIN. *)

UnlockJob ==
  /\ step = "free" /\ unlock
  /\ unlock' = FALSE /\ step' = "unlocking" /\ sent' = sent + 1
  /\ UNCHANGED <<modemVars, sim, entered, pollers, answer, initTimers, smsReady, starts,
                 excuses>>

\* The modem takes the PIN.  The right one makes the card busy or ready; the
\* third wrong one blocks it.
PinTaken ==
  /\ step = "unlocking" /\ step' = "unlocked"
  /\ \/ /\ card = "SIM PIN" /\ goodPin
        /\ card' \in {"READY", "busy"}
        /\ UNCHANGED tries
     \/ /\ card = "SIM PIN" /\ ~ goodPin
        /\ tries' = tries + 1
        /\ card' = IF tries = 2 THEN "SIM PUK" ELSE card
     \/ /\ card # "SIM PIN"
        /\ UNCHANGED <<card, tries>>
  /\ \/ NoLine
     \/ card' # card /\ card' \in Codes /\ HandleCpin(card')
  /\ UNCHANGED <<changes, goodPin, preferSim, all, pollers, answer, smsReady, starts, sent,
                 excuses>>

\* The rest of the job: the state is written whatever has come meanwhile, and a
\* polling of its own begins.
UnlockDone ==
  /\ step = "unlocked"
  /\ SetSimState("WAIT_UNLOCK")
  /\ step' = "asking"
  /\ UNCHANGED <<modemVars, entered, pollers, unlock, answer, smsReady, starts, sent,
                 excuses>>

-----------------------------------------------------------------------------
(* The storage of SMS. *)

\* findBestSmsStorage(): where to read, to send and to receive.
BestFor(prefer) ==
  LET Has(i, s) == s \in all[i]
      pairs  == IF prefer THEN <<"SM">> ELSE <<"ME", "SM">>
      mixed  == SelectSeq(pairs, LAMBDA s : Has(3, "MT") /\ Has(1, s) /\ Has(2, s))
      order  == IF prefer THEN <<"SM">> ELSE <<"MT", "ME", "SM">>
      usable == SelectSeq(order, LAMBDA s : Has(2, s) /\ Has(3, s))
  IN  IF usable # <<>>
      THEN <<IF Has(1, "MT") THEN "MT" ELSE usable[1], usable[1], usable[1]>>
      ELSE IF mixed # <<>> THEN <<mixed[1], mixed[1], "MT">> ELSE <<>>

FindBestSmsStorage ==
  IF \A i \in 1 .. 3 : Cardinality(all[i]) = 1
  THEN [i \in 1 .. 3 |-> CHOOSE s \in all[i] : TRUE]
  ELSE IF BestFor(preferSim) = <<>> THEN BestFor(FALSE) ELSE BestFor(preferSim)

\* AT+CPMS is accepted for storages that the modem has named.  Whether the first
\* one can be read from is not asked (Sms.cpp:190).
StorageAccepted ==
  /\ FindBestSmsStorage # <<>>
  /\ \A i \in 1 .. 3 : FindBestSmsStorage[i] \in all[i]

InitSms ==
  /\ step = "free" /\ initTimers > 0
  /\ initTimers' = initTimers - 1
  /\ step' = IF smsReady THEN "free" ELSE "initSms"
  /\ UNCHANGED <<modemVars, sim, entered, pollers, unlock, answer, smsReady, starts, sent,
                 excuses>>

\* The commands of intiSms() have all succeeded, or one has failed: nothing
\* tries again.
InitSmsDone ==
  /\ step = "initSms" /\ step' = "free"
  /\ \/ StorageAccepted /\ smsReady' = TRUE /\ UNCHANGED excuses
     \/ /\ UNCHANGED smsReady
        /\ excuses' = excuses \cup {IF StorageAccepted THEN "failed" ELSE "unsupported"}
  /\ UNCHANGED <<modemVars, sim, entered, pollers, unlock, answer, initTimers, starts, sent>>

\* netifd starts the daemon again after an error, a crash or a reboot.
Restart ==
  /\ starts < MaxStarts
  /\ starts' = starts + 1
  /\ ProgramStarts
  /\ UNCHANGED <<modemVars, sent>>

SimNext ==
  \/ CardChanges \/ Poll \/ AskAnswered \/ AskDone
  \/ UnlockJob \/ PinTaken \/ UnlockDone
  \/ InitSms \/ InitSmsDone \/ Restart

SimSpec == SimInit /\ [][SimNext]_simVars

\* Every command ends, with an answer or a timeout, and the Loop reaches each of
\* its timers.
CommandEnds(s) == step = s /\ step' \in Steps \ {s}

SimFairness ==
  /\ \A s \in Steps \ {"free"} : WF_step(CommandEnds(s))
  /\ SF_simVars(Poll) /\ SF_simVars(UnlockJob) /\ SF_simVars(InitSms)

FairSimSpec == SimSpec /\ SimFairness

-----------------------------------------------------------------------------
(* Properties. *)

\* The program spends at most one try of the PIN for each start of the daemon,
\* however often the card asks for it (handleSimLock(), m_pincode_entered): it
\* does not block a card by itself.
OneTryPerStart == sent <= starts

\* When the card is ready for good, the program comes to know it and SMS become
\* ready: READY may be overwritten by the job that has sent the PIN (Sim.cpp:90),
\* and the polling finds it again.  Not when a command has failed or AT+CPMS is
\* refused for a storage nobody asked about (intiSms() is not tried again), nor
\* when an answer overwrote READY or the card became ready without a line when
\* nothing polled (setSimState() of an error ends the polling).
ReadyBringsSms ==
  <>[](card = "READY") => <>[]((sim = "READY" /\ smsReady) \/ excuses # {})

=============================================================================

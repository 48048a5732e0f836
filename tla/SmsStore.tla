------------------------------- MODULE SmsStore -------------------------------
(***************************************************************************)
(* How messages go from the modem to the database, src/usbmodem/src/       *)
(* ModemService/Sms.cpp, BaseAt/Sms.cpp and Core/SmsDb.cpp: the stored     *)
(* messages are listed, added, saved and then deleted from the modem.  The *)
(* daemon may end at any step and start again, from the file and from what *)
(* the modem still holds.  The line that announces a message may be        *)
(* dropped by the channel, Core/AtChannel.cpp:187-195.                     *)
(***************************************************************************)
EXTENDS Sim, SequencesExt

CONSTANTS
  Parts,      \* parts of messages: a text that is not empty, and the header and the
              \* date they come with; ref is also the sender
  Slots,      \* the indices of the modem's storage
  MaxParts,   \* bound: parts that arrive
  MaxFaults   \* bound: commands and files that fail

Empty == [none |-> TRUE]

ASSUME SmsAssumption ==
  /\ \A p \in Parts : {p.ref, p.parts, p.part} \subseteq Nat /\ p.time \in Nat \ {0}
  /\ Empty \notin Parts
  /\ Slots \subseteq Nat /\ IsFiniteSet(Slots)
  /\ MaxParts \in Nat /\ MaxFaults \in Nat

VARIABLES
  slot,      \* the modem: [Slots -> the part stored there, or Empty]
  read,      \* the modem: the slots that have been listed, "REC READ"
  arrived,   \* the modem: the parts it has received
  loads,     \* jobs of loadSmsFromModem()
  dbReady,   \* SmsDb::m_inited
  db,        \* m_storage, m_list, m_used_capacity and m_global_sms_id
  file,      \* m_db_filename: its messages, and whether the end is torn
  faults,    \* failures so far
  lossy,     \* history: what may have lost a message
  again,     \* history: what may store a message twice
  missed     \* history: what may leave a message in the modem until the next listing

dbVars == <<loads, dbReady, db, file>>
storeVars == <<slot, read, arrived, dbVars, faults, lossy, again, missed>>
vars == <<simVars, storeVars>>

NoDb == [storage |-> <<>>, list |-> <<>>, used |-> 0, next |-> 0]

Init ==
  /\ SimInit
  /\ slot = [s \in Slots |-> Empty] /\ read = {} /\ arrived = {}
  /\ loads = 0 /\ dbReady = FALSE /\ db = NoDb
  /\ file = [messages |-> <<>>, torn |-> FALSE]
  /\ faults = 0 /\ lossy = {} /\ again = {} /\ missed = {}

-----------------------------------------------------------------------------
(* The database.  A message is [ref, time, parts], a part not yet there is   *)
(* Empty.                                                                    *)

\* decodePduToSms(): a header that contradicts itself is dropped.
Decoded(p) ==
  IF p.part < 1 \/ p.part > p.parts
  THEN [text |-> p, part |-> 1, parts |-> 1, ref |-> 0, time |-> p.time]
  ELSE [text |-> p, part |-> p.part, parts |-> p.parts, ref |-> p.ref, time |-> p.time]

\* Mutant of FindSameSms: the reference of the message is not compared.
AnyReference(d, raw) ==
  {id \in DOMAIN d.storage :
     LET sms == d.storage[id]
     IN  raw.parts >= 2 /\ Len(sms.parts) = raw.parts /\ sms.parts[raw.part] = Empty}

\* findSameSms(): the messages that lack this part.
FindSameSms(d, raw) ==
  {id \in DOMAIN d.storage :
     LET sms == d.storage[id]
     IN  /\ raw.parts >= 2
         /\ sms.ref = raw.ref
         /\ Len(sms.parts) = raw.parts
         /\ sms.parts[raw.part] = Empty}

\* addToList(): newest first, before the first that is not newer.  The capacity
\* is counted only when the message goes to the end.
AddToList(d, sms) ==
  LET id      == d.next
      storage == [i \in DOMAIN d.storage \cup {id} |-> IF i = id THEN sms ELSE d.storage[i]]
      older   == {i \in DOMAIN d.list : sms.time >= storage[d.list[i]].time}
  IN  IF older = {}
      THEN [storage |-> storage, list |-> Append(d.list, id),
            used |-> d.used + Len(sms.parts), next |-> id + 1]
      ELSE [storage |-> storage,
            list |-> InsertAt(d.list, CHOOSE i \in older : \A j \in older : i <= j, id),
            used |-> d.used, next |-> id + 1]

\* add(): into the message that lacks the part, the oldest one, or a new one.
Add(d, raw) ==
  LET same == FindSameSms(d, raw)
      new  == AddToList(d, [ref |-> raw.ref, time |-> raw.time,
                            parts |-> [i \in 1 .. raw.parts |-> Empty]])
      base == IF same = {} THEN new ELSE d
      id   == IF same = {} THEN d.next ELSE CHOOSE i \in same : \A j \in same : i <= j
  IN  [base EXCEPT !.storage[id].parts[raw.part] = raw.text]

\* add() of a list: one after the other.
AddAll(d, raws) ==
  LET after[n \in 0 .. Len(raws)] == IF n = 0 THEN d ELSE Add(after[n - 1], raws[n])
  IN  after[Len(raws)]

\* serialize(): the messages in the order of their numbers.
Serialized(d) == [i \in 1 .. d.next |-> d.storage[i - 1]]

\* unserialize() and load(): a torn file gives the messages before the tear.
Unserialized(messages) ==
  LET after[n \in 0 .. Len(messages)] ==
        IF n = 0 THEN NoDb ELSE AddToList(after[n - 1], messages[n])
  IN  after[Len(messages)]

Fails == faults < MaxFaults /\ faults' = faults + 1
Works == faults' = faults

-----------------------------------------------------------------------------
(* The modem and the SIM. *)

\* A listing that will have what the modem holds now: one is due or has not been
\* answered yet, or will be due when SMS are ready.
ListingDue == loads > 0 \/ step = "list" \/ ~ smsReady

\* A part arrives and is announced: +CMTI, handleCmt(), EvNewStoredSms.  The channel
\* drops the line when it judges it by a MULTILINE command that has no line yet: this
\* module's listing, or getCurrentOperator() for the API, up to the first +CMGL or
\* +COPS line, and the command after it until that one's kind is written.
Arrives ==
  /\ Cardinality(arrived) < MaxParts
  /\ \E p \in Parts \ arrived, s \in {s \in Slots : slot[s] = Empty} :
       /\ slot' = [slot EXCEPT ![s] = p]
       /\ arrived' = arrived \cup {p}
  /\ \/ loads' = loads + 1 /\ UNCHANGED missed
     \/ ListingDue /\ UNCHANGED <<loads, missed>>
     \/ ~ ListingDue /\ UNCHANGED loads /\ missed' = missed \cup {"dropped"}
  /\ UNCHANGED <<simVars, read, dbReady, db, file, faults, lossy, again>>

\* EvSmsReady and EvNewStoredSms both lead to loadSmsFromModem().
SimStep ==
  /\ CardChanges \/ Poll \/ AskAnswered \/ AskDone \/ UnlockJob \/ PinTaken
     \/ UnlockDone \/ InitSms \/ InitSmsDone
  /\ loads' = loads + (IF smsReady' /\ ~ smsReady THEN 1 ELSE 0)
  /\ IF excuses' = excuses THEN Works ELSE Fails
  /\ UNCHANGED <<slot, read, arrived, dbReady, db, file, lossy, again, missed>>

-----------------------------------------------------------------------------
(* loadSmsFromModem(), in the mode SMS_MODE_DB that the service always has. *)

\* A database that cannot be read is left as far as it was read, and saved over.
LoadJob ==
  /\ step = "free" /\ loads > 0
  /\ loads' = loads - 1 /\ step' = "list" /\ dbReady' = TRUE
  /\ \/ ~ dbReady /\ db' = Unserialized(file.messages) /\ Works /\ UNCHANGED lossy
     \/ ~ dbReady /\ db' = NoDb /\ Fails /\ lossy' = lossy \cup {"load"}
     \/ dbReady /\ Works /\ UNCHANGED <<db, lossy>>
  /\ UNCHANGED <<modemVars, sim, entered, pollers, unlock, answer, initTimers, smsReady,
                 starts, sent, excuses, slot, read, arrived, file, again, missed>>

Stored == {s \in Slots : slot[s] # Empty}

\* Mutant of Listed: only the messages that have not been listed before.
ListedUnread == Stored \ read

\* AT+CMGL=4 lists everything the modem holds.
Listed == Stored

\* The modem takes what it holds at one moment for its answer, and marks it as read.
ListTaken ==
  /\ step = "list" /\ step' = "listing"
  /\ read' = Listed /\ missed' = {} /\ Works
  /\ UNCHANGED <<modemVars, sim, entered, pollers, unlock, answer, initTimers, smsReady,
                 starts, sent, excuses, slot, arrived, loads, dbReady, db, file, lossy, again>>

\* The answer, in an order of the modem's own.
Listings == Bijection(1 .. Cardinality(read), read)

\* The answer is there: what the modem took, or a failure, before or after that.
ListAnswered ==
  /\ \/ /\ step = "listing" /\ step' = "save" /\ Works
        /\ \E q \in Listings : db' = AddAll(db, [n \in DOMAIN q |-> Decoded(slot[q[n]])])
        /\ UNCHANGED missed
     \/ /\ step \in {"list", "listing"} /\ step' = "free" /\ Fails
        /\ UNCHANGED db /\ missed' = missed \cup {"list"}
  /\ UNCHANGED <<modemVars, sim, entered, pollers, unlock, answer, initTimers, smsReady,
                 starts, sent, excuses, slot, read, arrived, loads, dbReady, file, lossy,
                 again>>

\* Mutant of SaveDone: a failure that save() reports is not looked at.
DeletesAnyway ==
  /\ step = "save"
  /\ \/ /\ step' = "delete" /\ Works
        /\ file' = [messages |-> Serialized(db), torn |-> FALSE]
        /\ UNCHANGED <<lossy, again>>
     \/ /\ step' = "delete" /\ Fails
        /\ again' = again \cup {"unsaved"} /\ UNCHANGED <<file, lossy>>
  /\ UNCHANGED <<modemVars, sim, entered, pollers, unlock, answer, initTimers, smsReady,
                 starts, sent, excuses, slot, read, arrived, loads, dbReady, db, missed>>

\* BinaryFileWriter::write() never reports a failure: the file has what was written
\* before it.
TornFile ==
  \E n \in 0 .. db.next - 1 :
    file' = [messages |-> SubSeq(Serialized(db), 1, n), torn |-> TRUE]

\* save() writes a temporary file and renames it.  It fails when the file cannot be
\* opened or locked; a write that fails leaves a torn file and a rename that fails
\* leaves the old one, and both are reported as success.
SaveDone ==
  /\ step = "save"
  /\ \/ /\ step' = "delete" /\ Works
        /\ file' = [messages |-> Serialized(db), torn |-> FALSE]
        /\ UNCHANGED <<lossy, again>>
     \/ /\ step' = "free" /\ Fails
        /\ again' = again \cup {"unsaved"} /\ UNCHANGED <<file, lossy>>
     \/ /\ step' = "delete" /\ Fails
        /\ TornFile
        /\ lossy' = lossy \cup {"write"} /\ UNCHANGED again
     \/ /\ step' = "delete" /\ Fails
        /\ lossy' = lossy \cup {"rename"} /\ UNCHANGED <<file, again>>
  /\ UNCHANGED <<modemVars, sim, entered, pollers, unlock, answer, initTimers, smsReady,
                 starts, sent, excuses, slot, read, arrived, loads, dbReady, db, missed>>

\* Mutant of DeleteDone: only the first slot is deleted, AT+CMGD=1.
DeletesFirst ==
  /\ step = "delete" /\ step' = "free"
  /\ \/ /\ slot' = [s \in Slots |-> IF s \in read /\ \A r \in read : s <= r
                                    THEN Empty ELSE slot[s]]
        /\ read' = {} /\ Works /\ UNCHANGED again
     \/ UNCHANGED <<slot, read>> /\ Fails /\ again' = again \cup {"undeleted"}
  /\ UNCHANGED <<modemVars, sim, entered, pollers, unlock, answer, initTimers, smsReady,
                 starts, sent, excuses, arrived, dbVars, lossy, missed>>

\* AT+CMGD=1,3 deletes what has been read, and nothing else.
DeleteDone ==
  /\ step = "delete" /\ step' = "free"
  /\ \/ /\ slot' = [s \in Slots |-> IF s \in read THEN Empty ELSE slot[s]]
        /\ read' = {} /\ Works /\ UNCHANGED again
     \/ UNCHANGED <<slot, read>> /\ Fails /\ again' = again \cup {"undeleted"}
  /\ UNCHANGED <<modemVars, sim, entered, pollers, unlock, answer, initTimers, smsReady,
                 starts, sent, excuses, arrived, dbVars, lossy, missed>>

\* delete_sms of the API: the number of a message of the database is given to the
\* modem as the index of a slot (Api.cpp:279), and the database keeps the message.
ApiDeleteSms ==
  /\ step = "free" /\ smsReady
  /\ \E id \in DOMAIN db.storage \cap Slots :
       /\ slot[id] # Empty
       /\ slot' = [slot EXCEPT ![id] = Empty]
       /\ read' = read \ {id}
  /\ Fails
  /\ lossy' = lossy \cup {"api"}
  /\ UNCHANGED <<simVars, arrived, dbVars, again, missed>>

\* The daemon is started again; the memory is gone.
DaemonRestarts ==
  /\ Restart
  /\ loads' = 0 /\ dbReady' = FALSE /\ db' = NoDb
  /\ again' = again \cup (IF step = "delete" THEN {"crash"} ELSE {})
  /\ UNCHANGED <<slot, read, arrived, file, faults, lossy, missed>>

Next ==
  \/ Arrives \/ SimStep
  \/ LoadJob \/ ListTaken \/ ListAnswered \/ SaveDone \/ DeleteDone
  \/ ApiDeleteSms \/ DaemonRestarts

Spec == Init /\ [][Next]_vars

-----------------------------------------------------------------------------
(* Properties. *)

Message == [ref : Nat, time : Nat, parts : Seq(Parts \cup {Empty})]

\* The variables have their types, those of the SIM included.
TypeOK ==
  /\ SimTypeOK
  /\ slot \in [Slots -> Parts \cup {Empty}] /\ read \subseteq Slots /\ arrived \subseteq Parts
  /\ loads \in Nat /\ dbReady \in BOOLEAN
  /\ DOMAIN db.storage = 0 .. db.next - 1 /\ db.used \in Nat
  /\ \A id \in DOMAIN db.storage : db.storage[id] \in Message
  /\ file.messages \in Seq(Message) /\ file.torn \in BOOLEAN

Holds(sms, p) == \E i \in DOMAIN sms.parts : sms.parts[i] = p
InModem(p) == \E s \in Slots : slot[s] = p
InFile(p) == \E i \in DOMAIN file.messages : Holds(file.messages[i], p)
Copies(p) == Cardinality({id \in DOMAIN db.storage : Holds(db.storage[id], p)})

\* A message that was received is in the modem or in the file, whenever the
\* daemon may end (Sms.cpp:56: delete only what is saved).  Not after one of the
\* failures that the code takes for a success: a write or a rename of save(), a
\* database that could not be read and is saved over, a deletion by the API that
\* hits another message.
KeptSomewhere == \A p \in arrived : InModem(p) \/ InFile(p) \/ lossy # {}

\* A part is stored once.  Not when the modem kept it after it was added: the save
\* or the deletion failed, or the daemon ended between them; a whole message is
\* then not recognized (findSameSms() looks for a part that is missing).
StoredOnce == \A p \in Parts : Copies(p) <= 1 \/ again # {}

\* The list has every message once, newest first, and a message has parts of its
\* own reference only, each at its place (addToList(), findSameSms()).
DatabaseConsistent ==
  /\ Len(db.list) = Cardinality(DOMAIN db.storage) /\ ToSet(db.list) = DOMAIN db.storage
  /\ \A i, j \in DOMAIN db.list :
       i < j => db.storage[db.list[i]].time >= db.storage[db.list[j]].time
  /\ \A id \in DOMAIN db.storage :
       LET sms == db.storage[id]
       IN  \A i \in DOMAIN sms.parts : sms.parts[i] # Empty =>
             LET raw == Decoded(sms.parts[i])
             IN  raw.part = i /\ raw.parts = Len(sms.parts) /\ raw.ref = sms.ref

\* When no loading of messages is due, every message that has arrived is in the
\* database: also one that arrives while others are loaded, or while the daemon is
\* down or SMS are not ready yet, and also one whose +CMTI is dropped while a loading
\* is due or before the modem has taken what it lists.  Not when the last listing has failed,
\* which nothing repeats before the next message, when the line was dropped with no
\* listing to come, in both cases until the next one, or when the message was lost.
NoneForgotten ==
  smsReady /\ loads = 0 /\ step = "free" /\ missed = {} /\ lossy = {} =>
    \A p \in arrived : Copies(p) > 0

=============================================================================

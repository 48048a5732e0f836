----------------------------- MODULE AtCommands -----------------------------
(***************************************************************************)
(* What src/usbmodem/src/Core/AtChannel.h promises the code that calls     *)
(* sendCommand(): calls are served one at a time, and each returns what    *)
(* the modem said to it, or that the device is gone.  Once a caller has    *)
(* given up on a command (a timeout, a failed write) nothing more is said  *)
(* about which answer the later calls get: AT has no serial numbers.       *)
(***************************************************************************)
CONSTANT Callers

VARIABLES
  state,    \* [Callers -> where the call of this thread is]
  reply,    \* [Callers -> what its last call returned]
  said,     \* what the modem said to the active call, "TIMEOUT" for nothing
  lost,     \* the device is gone
  faulty    \* a caller has given up

vars == <<state, reply, said, lost, faulty>>

Verdicts == {"SUCCESS", "ERROR"}
Replies == Verdicts \cup {"TIMEOUT", "IO_ERROR", "IO_BROKEN"}

Init ==
  /\ state = [c \in Callers |-> "idle"]
  /\ reply = [c \in Callers |-> "TIMEOUT"]
  /\ said = "TIMEOUT"
  /\ lost = FALSE
  /\ faulty = FALSE

Enter(c) ==
  /\ state[c] = "idle"
  /\ state' = [state EXCEPT ![c] = "queued"]
  /\ UNCHANGED <<reply, said, lost, faulty>>

Begin(c) ==
  /\ state[c] = "queued"
  /\ \A d \in Callers : state[d] # "active"
  /\ state' = [state EXCEPT ![c] = "active"]
  /\ said' = "TIMEOUT"
  /\ UNCHANGED <<reply, lost, faulty>>

Say(v) ==
  /\ \E c \in Callers : state[c] = "active"
  /\ said = "TIMEOUT"
  /\ said' = v
  /\ UNCHANGED <<state, reply, lost, faulty>>

GiveUp ==
  /\ \E c \in Callers : state[c] = "active"
  /\ faulty' = TRUE
  /\ UNCHANGED <<state, reply, said, lost>>

Lose ==
  /\ lost' = TRUE
  /\ UNCHANGED <<state, reply, said, faulty>>

Finish(c, r) ==
  /\ state[c] = "active"
  /\ \/ r = said /\ r \in Verdicts
     \/ r = "IO_BROKEN" /\ lost
     \/ r \in Replies /\ faulty
  /\ state' = [state EXCEPT ![c] = "returned"]
  /\ reply' = [reply EXCEPT ![c] = r]
  /\ said' = "TIMEOUT"
  /\ UNCHANGED <<lost, faulty>>

Leave(c) ==
  /\ state[c] = "returned"
  /\ state' = [state EXCEPT ![c] = "idle"]
  /\ reply' = [reply EXCEPT ![c] = "TIMEOUT"]
  /\ UNCHANGED <<said, lost, faulty>>

Next ==
  \/ \E c \in Callers : Enter(c) \/ Begin(c) \/ Leave(c)
  \/ \E c \in Callers, r \in Replies : Finish(c, r)
  \/ \E v \in Verdicts : Say(v)
  \/ GiveUp \/ Lose

Spec == Init /\ [][Next]_vars

=============================================================================

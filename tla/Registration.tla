---------------------------- MODULE Registration ----------------------------
(***************************************************************************)
(* Network registration in BaseAtModem                                     *)
(* (src/usbmodem/src/Modem/BaseAt/Network.cpp).  The modem reports its     *)
(* registration in three domains with lines (+CREG, +CGREG, +CEREG) that   *)
(* come unasked or answer AT+C(G|E)REG?.  An answer has one argument more, *)
(* <n>; the reader thread knows which it has by m_manual_creg_req, which   *)
(* the Loop thread sets when it sends a command (BaseAt.cpp:129).  The     *)
(* reader keeps what it read and posts a job to the Loop, which works out  *)
(* the technology and the registration (handleNetworkChange).              *)
(*                                                                         *)
(* The lines of the modem and the answers to commands come through one     *)
(* serial line, in order: a change of the modem that it reports and the    *)
(* reader's handling of the line are one step.  A command keeps the Loop   *)
(* in "step" until the modem answers; the reader goes on meanwhile.  A     *)
(* line that comes unasked may be dropped by the channel                   *)
(* (Core/AtChannel.cpp:187-195): it is when it is judged by a command of   *)
(* many lines that has none yet, one of those that list messages or ask    *)
(* for the operator, or by what such a command has left for the next one.  *)
(***************************************************************************)
EXTENDS Naturals, Sequences

CONSTANTS
  Domains,     \* the domains this modem reports
  Networks,    \* registrations the modem may have: [stat, tech]
  MaxChanges   \* bound: changes of the modem's state

AllDomains == {"CREG", "CGREG", "CEREG"}
Stats == {"none", "searching", "home", "roaming", "emergency", "smsOnly"}
Techs == {"none", "unknown", "gsm", "umts", "lte"}
NotRegistered == [stat |-> "none", tech |-> "unknown"]

ASSUME RegistrationAssumption ==
  /\ Domains \subseteq AllDomains
  /\ Networks \subseteq [stat : Stats, tech : Techs \ {"none"}]
  /\ MaxChanges \in Nat

VARIABLES
  net,      \* where the modem is registered
  told,     \* what it has last reported in each domain
  asked,    \* the AT+C(G|E)REG? it has to answer, or "no"
  changes,  \* changes of the modem's state so far
  manual,   \* m_manual_creg_req, or "no"
  regs,     \* m_creg, m_cgreg, m_cereg
  tech,     \* m_tech
  netReg,   \* m_net_reg
  jobs,     \* timers of delay 0 of the Loop, in order
  step,     \* what the Loop thread is in the middle of
  stopped,  \* setError() has stopped the Loop
  misread,  \* history: a line was read with one argument too many or too few
  unheard   \* history: the domains whose last report was dropped by the channel

modemVars == <<net, told, asked>>
regVars == <<modemVars, changes, manual, regs, tech, netReg, misread, unheard>>
loopVars == <<jobs, step, stopped>>

\* The Loop waits in command "op"; "via" is what called for it, "reg" and "got"
\* what it holds meanwhile.
Step(op, via) == [op |-> op, via |-> via, reg |-> "none", got |-> {}]
Idle == Step("idle", "none")

Job(j) == [job |-> j, update |-> FALSE, got |-> {}]

\* Creg::isRegistered()
IsRegistered(r) == r.stat \in {"home", "roaming", "emergency"}

\* Creg::toNetworkTech()
NetworkTech(r) == IF IsRegistered(r) THEN r.tech ELSE "none"

\* Creg::toNetworkReg(): an SMS only registration counts as one.
NetworkReg(r) == IF r.stat = "smsOnly" THEN "home" ELSE r.stat

IsPacketServiceReady == netReg \in {"home", "roaming"}

\* What the modem has to report in a domain: LTE in +CEREG, 2G and 3G in +CGREG.
Truth(n, d) ==
  IF \/ d = "CREG"
     \/ d = "CEREG" /\ n.tech = "lte"
     \/ d = "CGREG" /\ n.tech \notin {"lte", "unknown"}
  THEN n ELSE NotRegistered

RInit ==
  /\ net \in Networks \cup {NotRegistered}
  /\ told = [d \in AllDomains |-> IF d \in Domains THEN Truth(net, d) ELSE NotRegistered]
  /\ asked = "no" /\ changes = 0
  /\ manual = "no"
  /\ regs = [d \in AllDomains |-> NotRegistered]
  /\ tech = "none" /\ netReg = "none"
  /\ step = Idle /\ stopped = FALSE
  /\ misread = FALSE /\ unheard = {}

-----------------------------------------------------------------------------
(* The reader thread. *)

\* What can be parsed of a report.  With a missing <n> skipped (an unasked line
\* taken for an answer) the status is read from the area code, and may be any;
\* with <n> read as the status (an answer taken for an unasked line) it is 2,
\* searching.  A report of no registration has too few arguments for either.
Parsed(r, answer, isManual) ==
  IF answer = isManual THEN {r}
  ELSE IF r.stat = "none" THEN {}
  ELSE IF answer THEN {[NotRegistered EXCEPT !.stat = "searching"]}
  ELSE [stat : Stats, tech : {"unknown"}]

\* handleCreg(): a line that cannot be parsed changes nothing but the request.
HandleCreg(d, r, answer) ==
  LET isManual == manual = d
      parsed == Parsed(r, answer, isManual)
  IN  /\ manual' = "no"
      /\ misread' = (misread \/ answer # isManual)
      /\ unheard' = unheard \ {d}
      /\ \/ UNCHANGED <<regs, jobs>> /\ answer # isManual
         \/ \E v \in parsed : /\ regs' = [regs EXCEPT ![d] = v]
                              /\ jobs' = Append(jobs, Job("networkChange"))

\* The channel drops the line of this domain.
Drop(d) == unheard' = unheard \cup {d} /\ UNCHANGED <<manual, misread, regs, jobs>>

\* The modem reports what it has not reported yet.
Report(d) ==
  /\ told[d] # Truth(net, d)
  /\ told' = [told EXCEPT ![d] = Truth(net, d)]
  /\ HandleCreg(d, Truth(net, d), FALSE) \/ Drop(d)
  /\ UNCHANGED <<net, asked, changes, tech, netReg, step, stopped>>

\* The answer to AT+C(G|E)REG? comes; the command is over.
AnswerReg ==
  /\ asked # "no"
  /\ HandleCreg(asked, told[asked], TRUE)
  /\ asked' = "no"
  /\ UNCHANGED <<net, told, changes, tech, netReg, step, stopped>>

-----------------------------------------------------------------------------
(* The Loop thread. *)

\* The callback for every command that is sent: any but AT+C(G|E)REG? forgets
\* the request.
SendOther == manual' = "no"

Head1 == Head(jobs).job
LoopReady(j) == ~ stopped /\ step = Idle /\ jobs # <<>> /\ Head1 = j

\* The register that decides: LTE, then packet, then circuit switched.
Deciding ==
  IF IsRegistered(regs["CEREG"]) THEN regs["CEREG"]
  ELSE IF IsRegistered(regs["CGREG"]) THEN regs["CGREG"]
  ELSE regs["CREG"]

\* Mutant of SetNetwork: the technology is kept while no network is found.
TechKept(newTech, newReg, rest) ==
  /\ netReg' = newReg
  /\ tech' = IF newTech = "none" THEN tech ELSE newTech
  /\ jobs' = IF tech' # tech THEN Append(rest, Job("evTech")) ELSE rest

\* The end of handleNetworkChange(); EvNetworkChanged is only logged.
SetNetwork(newTech, newReg, rest) ==
  /\ netReg' = newReg
  /\ tech' = newTech
  /\ jobs' = IF newTech # tech THEN Append(rest, Job("evTech")) ELSE rest

\* handleNetworkChange(): a technology that was not reported is asked for.
NetworkChange ==
  /\ LoopReady("networkChange")
  /\ LET r == Deciding IN
     IF NetworkTech(r) = "unknown"
     THEN /\ step' = [Step("cops", "none") EXCEPT !.reg = NetworkReg(r)]
          /\ jobs' = Tail(jobs)
          /\ SendOther
          /\ UNCHANGED <<tech, netReg>>
     ELSE /\ SetNetwork(NetworkTech(r), NetworkReg(r), Tail(jobs))
          /\ UNCHANGED <<step, manual>>
  /\ UNCHANGED <<modemVars, changes, regs, stopped, misread, unheard>>

\* getTechFromCops(): an error, an operator without technology, or the truth.
CopsAnswered ==
  /\ step.op = "cops" /\ ~ stopped
  /\ \E t \in {"unknown", "gsm"} \cup {net.tech} : SetNetwork(t, step.reg, jobs)
  /\ step' = Idle
  /\ UNCHANGED <<modemVars, changes, manual, regs, stopped, misread, unheard>>

\* The registration is asked for, one domain after the other, and the signal
\* last (the end of the job that init() posts).  "via" says what comes next.
AskOrder == [CREG |-> "CGREG", CGREG |-> "CEREG", CEREG |-> "signal"]

AskReg ==
  /\ step.op = "ask" /\ step.via # "signal" /\ ~ stopped
  /\ manual' = step.via
  /\ \/ /\ step.via \in Domains
        /\ asked' = step.via
        /\ step' = Step("asked", step.via)
     \/ /\ asked' = "no"                       \* the command fails
        /\ step' = Step("ask", AskOrder[step.via])
  /\ UNCHANGED <<net, told, changes, regs, tech, netReg, jobs, stopped, misread, unheard>>

AskDone ==
  /\ step.op = "asked" /\ asked = "no" /\ ~ stopped
  /\ step' = Step("ask", AskOrder[step.via])
  /\ UNCHANGED <<regVars, jobs, stopped>>

AskSignal ==
  /\ step = Step("ask", "signal") /\ ~ stopped
  /\ SendOther
  /\ step' = Idle
  /\ UNCHANGED <<modemVars, changes, regs, tech, netReg, jobs, stopped, misread, unheard>>

\* The modem registers elsewhere, or loses its network.
NetChanges ==
  /\ changes < MaxChanges
  /\ changes' = changes + 1
  /\ net' \in (Networks \cup {NotRegistered}) \ {net}
  /\ UNCHANGED <<told, asked, manual, regs, tech, netReg, loopVars, misread, unheard>>

RegistrationReader == AnswerReg \/ \E d \in Domains : Report(d)
RegistrationLoop == NetworkChange \/ CopsAnswered \/ AskReg \/ AskDone \/ AskSignal

-----------------------------------------------------------------------------
(* Properties of this part; what checks them is in DataConnection. *)

RegTypeOK ==
  /\ net \in Networks \cup {NotRegistered}
  /\ told \in [AllDomains -> Networks \cup {NotRegistered}]
  /\ asked \in Domains \cup {"no"} /\ manual \in AllDomains \cup {"no"}
  /\ changes \in 0 .. MaxChanges
  /\ regs \in [AllDomains -> [stat : Stats, tech : Techs \ {"none"}]]
  /\ tech \in Techs /\ netReg \in Stats \ {"smsOnly"}
  /\ stopped \in BOOLEAN /\ misread \in BOOLEAN /\ unheard \subseteq Domains

=============================================================================

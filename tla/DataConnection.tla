--------------------------- MODULE DataConnection ---------------------------
(***************************************************************************)
(* The data connection of the ASR1802 and Huawei NCM modems                *)
(* (src/usbmodem/src/Modem/Asr1802/Data.cpp, HuaweiNcm/Data.cpp) and what  *)
(* the service makes of it at netifd (ModemService/Modem.cpp, Dhcp.cpp).   *)
(* Everything here runs on the Loop thread, except the handlers of the     *)
(* modem's unasked lines (+CGEV, ^NDISSTAT), which post jobs to it.  An    *)
(* event is one more job (Events::emit): by the time it is handled the     *)
(* modem's object may have moved on.                                       *)
(***************************************************************************)
EXTENDS Registration, FiniteSets

CONSTANTS
  Contexts,  \* what the modem's PDP context may be: sets of <<family, address>>
  Configs    \* configurations: [vendor, proto, pdp, roaming]

ASSUME DataAssumption ==
  /\ \A c \in Contexts : c # {} /\ \A x \in c : x[1] \in {"v4", "v6"}
  /\ Configs \subseteq [vendor : {"asr", "huawei"}, proto : {"static", "dhcp"},
                        pdp : {"IP", "IPV6", "IPV4V6"}, roaming : BOOLEAN]

VARIABLES
  cfg,      \* the configuration, fixed
  ctx,      \* the modem's PDP context, {} when there is none
  state,    \* m_data_state
  addrs,    \* m_ipv4 and m_ipv6
  retry,    \* m_manual_connect_timeout has the number of a timer
  timers,   \* timers of failed dials that are pending; the number is of the last
  first,    \* m_first_data_connect
  iface,    \* addresses that netifd has for the interface (static)
  dhcp,     \* m_dhcp_inited, and the interfaces "_4" and "_6" at netifd
  leased,   \* those that have asked for a lease and have not released it
  delayed,  \* delayed starts of DHCP that are pending
  dropped,  \* m_last_disconnected is set
  excuse,   \* history: what has gone wrong that nothing repairs (Causes)
  late      \* history: a delayed start of DHCP ran without a connection

dataVars == <<cfg, ctx, state, addrs, retry, timers, first, iface, dhcp, leased, delayed,
              dropped, excuse, late>>
vars == <<regVars, loopVars, dataVars>>
svcVars == <<iface, dhcp, leased, delayed, dropped, late>>
dialVars == <<retry, timers>>
connVars == <<state, addrs, dialVars, first>>

\* Why a connection may be missing or stale with nothing left to do:
\*   ignored     a new context on LTE, reported before m_tech was LTE
\*   failed      the context could not be read, and no dial is tried again
\*   unnoticed   dialling became possible without a change of m_tech
\*   unasked     the registration of a modem left running was not learnt
\*   overtaken   the report of an earlier loss, a failed dial that was no longer
\*               needed, or a search for operators that did not detach the modem,
\*               took a connection for lost
\*   unheard     a line about the context was dropped by the channel, as a report
\*               of the registration may be (Registration)
Causes == {"ignored", "failed", "unnoticed", "unasked", "overtaken", "unheard"}
Blame(c, cond) == excuse' = IF cond THEN excuse \cup {c} ELSE excuse

-----------------------------------------------------------------------------
(* The modem object. *)

\* Mutant of HandleDisconnect: the event for every disconnection but the first.
DisconnectUnreported(rest) ==
  /\ addrs' = {}
  /\ state' = "DISCONNECTED"
  /\ jobs' = IF state = "CONNECTED" /\ dropped THEN Append(rest, Job("evDisconnected")) ELSE rest

\* handleDisconnect(): the event only if there was a connection.
HandleDisconnect(rest) ==
  /\ addrs' = {}
  /\ state' = "DISCONNECTED"
  /\ jobs' = IF state = "CONNECTED" THEN Append(rest, Job("evDisconnected")) ELSE rest

\* The addresses that handleConnect() ends up with.  The ASR1802 keeps those of
\* a family that is not mentioned.
Merged(got) ==
  IF cfg.vendor = "huawei" THEN got
  ELSE got \cup {a \in addrs : \A b \in got : a[1] # b[1]}

\* The end of handleConnect(), from what the modem has said of its context:
\* none is an error for the ASR1802 and a disconnection for Huawei.
Connected(got, rest) ==
  IF got = {} THEN HandleDisconnect(rest)
  ELSE /\ addrs' = Merged(got)
       /\ state' = "CONNECTED"
       /\ jobs' = Append(rest, [job |-> "evConnected", update |-> state = "CONNECTED",
                                got |-> Merged(got)])

CanDial ==
  /\ tech \notin (IF cfg.vendor = "asr" THEN {"lte", "none", "unknown"} ELSE {"none"})
  /\ IsPacketServiceReady
  /\ cfg.roaming \/ cfg.vendor = "asr" \/ netReg # "roaming"

\* startDataConnection()
StartDataConnection(armed, rest) ==
  IF CanDial /\ ~ armed /\ state = "DISCONNECTED"
  THEN state' = "CONNECTING" /\ jobs' = Append(rest, Job("dial"))
  ELSE state' = state /\ jobs' = rest

-----------------------------------------------------------------------------
(* Lines of the modem about its context, on the reader thread. *)

\* handleCgev(), and the handler of ^NDISSTAT.  A connection is news for the
\* ASR1802 only on LTE, as far as m_tech knows.
HandleCgev(c) ==
  IF cfg.vendor = "huawei" \/ (c # {} /\ tech = "lte") THEN Append(jobs, Job("connect"))
  ELSE IF c = {} THEN Append(jobs, Job("disconnect"))
  ELSE jobs

\* The context comes up (by itself on LTE, after ^NDISDUP on Huawei), changes
\* or goes away, and the modem says so.
ContextChanges ==
  /\ changes < MaxChanges
  /\ changes' = changes + 1
  /\ IsRegistered(net) /\ (net.tech = "lte" \/ cfg.vendor = "huawei" \/ ctx # {})
  /\ ctx' \in (Contexts \cup {{}}) \ {ctx}
  /\ (cfg.vendor = "asr" /\ net.tech # "lte" => ctx' = {})
  /\ \/ /\ jobs' = HandleCgev(ctx')
        /\ Blame("ignored", cfg.vendor = "asr" /\ ctx' # {} /\ tech # "lte")
     \/ UNCHANGED jobs /\ Blame("unheard", TRUE)
  /\ UNCHANGED <<modemVars, manual, regs, tech, netReg, step, stopped, misread, unheard>>
  /\ UNCHANGED <<cfg, connVars, svcVars>>

\* HuaweiNcmModem::searchOperators() for the API: AT+CGATT=0 detaches the modem, which
\* says so, or fails, and the connection is taken for lost.
SearchOperators ==
  /\ cfg.vendor = "huawei" /\ step = Idle /\ ~ stopped
  /\ changes < MaxChanges
  /\ changes' = changes + 1
  /\ \/ ctx # {} /\ ctx' = {} /\ HandleDisconnect(HandleCgev({}))
     \/ ctx' = ctx /\ HandleDisconnect(jobs)
  /\ Blame("overtaken", ctx' # {})
  /\ SendOther
  /\ UNCHANGED <<modemVars, regs, tech, netReg, step, stopped, misread, unheard>>
  /\ UNCHANGED <<cfg, dialVars, first, svcVars>>

\* A modem that loses or changes its network has lost its context before.
NetworkChanges == ctx = {} /\ NetChanges /\ UNCHANGED dataVars

-----------------------------------------------------------------------------
(* Jobs of the Loop. *)

\* handleConnect() begins: commands that ask for the context.
QueryContext(j, via) ==
  /\ step' = Step("query", via)
  /\ SendOther

ConnectJob ==
  /\ LoopReady("connect")
  /\ QueryContext("connect", "event")
  /\ jobs' = Tail(jobs)
  /\ UNCHANGED <<modemVars, changes, regs, tech, netReg, stopped, misread, unheard, dataVars>>

DisconnectJob ==
  /\ LoopReady("disconnect")
  /\ HandleDisconnect(Tail(jobs))
  /\ Blame("overtaken", cfg.vendor = "asr" /\ ctx # {}
                         /\ \A i \in 2 .. Len(jobs) : jobs[i].job # "connect")
  /\ UNCHANGED <<regVars, step, stopped>>
  /\ UNCHANGED <<cfg, ctx, dialVars, first, svcVars>>

\* The modem answers what its context is; or a command fails, or the answer
\* cannot be read.
QueryAnswered ==
  /\ step.op = "query" /\ ~ stopped
  /\ \E got \in {ctx, {}} :
       /\ step' = [step EXCEPT !.op = "got", !.got = got]
       /\ Blame("failed", got # ctx)
  /\ UNCHANGED <<regVars, jobs, stopped, cfg, ctx, connVars, svcVars>>

\* The end of handleConnect(), and what its caller does then.
ConnectDone ==
  /\ step.op = "got" /\ ~ stopped
  /\ Connected(step.got, jobs)
  /\ first' = IF step.via = "first" THEN FALSE ELSE first
  /\ step' = IF step.via = "detect" THEN Step("ask", "CREG")
             ELSE IF step.via = "first" /\ state' = "DISCONNECTED" THEN Step("dial", "none")
             ELSE Idle
  /\ Blame("failed", step.via = "dial" /\ step.got = {})
  /\ UNCHANGED <<regVars, stopped, cfg, ctx, dialVars, svcVars>>

\* The job of startDataConnection().  The Huawei modem may be connected already
\* when the first one runs.
DialJob ==
  /\ LoopReady("dial")
  /\ IF cfg.vendor = "huawei" /\ first
     THEN QueryContext("dial", "first")
     ELSE step' = Step("dial", "none") /\ SendOther
  /\ jobs' = Tail(jobs)
  /\ UNCHANGED <<modemVars, changes, regs, tech, netReg, stopped, misread, unheard, dataVars>>

\* Mutant of DialAnswered: a failed dial is not tried again.
DialAbandoned ==
  /\ step.op = "dial" /\ ~ stopped
  /\ \/ /\ step' = Step("query", "dial")
        /\ \/ IsRegistered(net) /\ cfg.vendor = "asr" /\ ctx = {} /\ ctx' \in Contexts
              /\ jobs' = HandleCgev(ctx')
           \/ UNCHANGED <<ctx, jobs>>
        /\ UNCHANGED <<state, addrs, dialVars, excuse>>
     \/ /\ HandleDisconnect(jobs)
        /\ UNCHANGED dialVars
        /\ step' = Idle
        /\ ctx' = ctx
        /\ Blame("overtaken", state = "CONNECTED")
  /\ UNCHANGED <<regVars, stopped, cfg, first, svcVars>>

\* AT+CGDATA brings the context up, which the modem reports; AT^NDISDUP only
\* begins to.  Or the command fails, and is tried again after a second.
DialAnswered ==
  /\ step.op = "dial" /\ ~ stopped
  /\ \/ /\ step' = Step("query", "dial")
        /\ \/ IsRegistered(net) /\ cfg.vendor = "asr" /\ ctx = {} /\ ctx' \in Contexts
              /\ jobs' = HandleCgev(ctx')
           \/ UNCHANGED <<ctx, jobs>>
        /\ UNCHANGED <<state, addrs, dialVars, excuse>>
     \/ /\ HandleDisconnect(jobs)
        /\ retry' = TRUE /\ timers' = timers + 1
        /\ step' = Idle
        /\ ctx' = ctx
        /\ Blame("overtaken", state = "CONNECTED")
  /\ UNCHANGED <<regVars, stopped, cfg, first, svcVars>>

\* Mutant of RetryTimer: the number of the timer is forgotten too late.
RetryForgottenLate ==
  /\ timers > 0 /\ step = Idle /\ ~ stopped
  /\ timers' = timers - 1 /\ retry' = FALSE
  /\ StartDataConnection(retry, jobs)
  /\ UNCHANGED <<regVars, step, stopped>>
  /\ UNCHANGED <<cfg, ctx, addrs, first, svcVars, excuse>>

\* The timer of a failed dial.  When two dials have failed the number was that of the
\* later timer, and the earlier one forgets it.
RetryTimer ==
  /\ timers > 0 /\ step = Idle /\ ~ stopped
  /\ timers' = timers - 1 /\ retry' = FALSE
  /\ StartDataConnection(retry', jobs)
  /\ UNCHANGED <<regVars, step, stopped>>
  /\ UNCHANGED <<cfg, ctx, addrs, first, svcVars, excuse>>

TechJob ==
  /\ LoopReady("evTech")
  /\ StartDataConnection(retry, Tail(jobs))
  /\ UNCHANGED <<regVars, step, stopped>>
  /\ UNCHANGED <<cfg, ctx, addrs, dialVars, first, svcVars, excuse>>

\* The job that init() posts: the ASR1802 first looks for a connection that is
\* already there (getCurrentPdpCid), then the registration is asked for.
InitJob ==
  /\ LoopReady("init")
  /\ jobs' = Tail(jobs)
  /\ IF cfg.vendor = "asr" /\ state = "DISCONNECTED"
     THEN step' = Step("cid", "detect") /\ SendOther
     ELSE step' = Step("ask", "CREG") /\ UNCHANGED manual
  /\ UNCHANGED <<modemVars, changes, regs, tech, netReg, stopped, misread, unheard, dataVars>>

CidAnswered ==
  /\ step.op = "cid" /\ ~ stopped
  /\ \/ ctx # {} /\ step' = Step("query", "detect") /\ UNCHANGED excuse
     \/ step' = Step("ask", "CREG") /\ Blame("failed", ctx # {})
  /\ UNCHANGED <<regVars, jobs, stopped, cfg, ctx, connVars, svcVars>>

-----------------------------------------------------------------------------
(* The service: handlers of the modem's events (runModem). *)

V4 == cfg.pdp \in {"IP", "IPV4V6"}
V6 == cfg.pdp \in {"IPV6", "IPV4V6"}
Wanted == (IF V4 THEN {"_4"} ELSE {}) \cup (IF V6 THEN {"_6"} ELSE {})

\* Calls to netifd for the interfaces one after the other: all succeed, or one
\* fails and setError() stops the Loop.
DhcpCalls(names, after) ==
  \/ /\ names \subseteq after.ifaces
     /\ dhcp' = after /\ stopped' = FALSE
  \/ UNCHANGED dhcp /\ stopped' = TRUE

\* startDhcp(): creates the interfaces the first time (both under the name
\* "_4"), renews their leases after that.
StartDhcp ==
  /\ DhcpCalls(IF dhcp.inited THEN Wanted ELSE {},
               IF dhcp.inited THEN dhcp ELSE [inited |-> TRUE, ifaces |-> {"_4"}])
  /\ leased' = IF stopped' THEN leased
               ELSE leased \cup (IF dhcp.inited THEN Wanted ELSE {"_4"})

\* Mutant of StopDhcp: the flag of the first start is not looked at.
StopOnlyFirst ==
  /\ IF dhcp.inited THEN UNCHANGED <<dhcp, stopped>> ELSE DhcpCalls(Wanted, dhcp)
  /\ leased' = leased

\* stopDhcp()
StopDhcp ==
  /\ IF dhcp.inited THEN DhcpCalls(Wanted, dhcp) ELSE UNCHANGED <<dhcp, stopped>>
  /\ leased' = IF dhcp.inited /\ ~ stopped' THEN leased \ Wanted ELSE leased

\* How long DHCP must wait: the ASR1802 needs two seconds since the last release.
DhcpDelays(update) ==
  IF cfg.vendor = "huawei" THEN {FALSE}
  ELSE IF update THEN {TRUE} ELSE IF dropped THEN BOOLEAN ELSE {FALSE}

\* Mutant of ConnectedJob: DHCP is started for new connections only.
ConnectedNewOnly ==
  /\ LoopReady("evConnected")
  /\ jobs' = Tail(jobs)
  /\ IF cfg.proto = "static"
     THEN /\ \/ iface' = (IF Head(jobs).update THEN iface ELSE Head(jobs).got) /\ stopped' = FALSE
             \/ stopped' = TRUE /\ UNCHANGED iface
          /\ UNCHANGED <<dhcp, leased, delayed>>
     ELSE /\ UNCHANGED iface
          /\ IF ~ Head(jobs).update /\ ~ dropped
             THEN StartDhcp /\ UNCHANGED delayed
             ELSE UNCHANGED <<dhcp, leased, stopped, delayed>>
  /\ UNCHANGED <<regVars, step, cfg, ctx, connVars, dropped, late, excuse>>

\* The handler of EvDataConnected.
ConnectedJob ==
  /\ LoopReady("evConnected")
  /\ jobs' = Tail(jobs)
  /\ IF cfg.proto = "static"
     THEN /\ \/ iface' = Head(jobs).got /\ stopped' = FALSE
             \/ stopped' = TRUE /\ UNCHANGED iface
          /\ UNCHANGED <<dhcp, leased, delayed>>
     ELSE /\ UNCHANGED iface
          /\ \E wait \in DhcpDelays(Head(jobs).update) :
               IF wait THEN delayed' = delayed + 1 /\ UNCHANGED <<dhcp, leased, stopped>>
               ELSE StartDhcp /\ UNCHANGED delayed
  /\ UNCHANGED <<regVars, step, cfg, ctx, connVars, dropped, late, excuse>>

\* The timer of a delayed start; a disconnection does not cancel it.
DelayedStart ==
  /\ delayed > 0 /\ step = Idle /\ ~ stopped
  /\ delayed' = delayed - 1
  /\ StartDhcp
  /\ late' = (late \/ state # "CONNECTED")
  /\ UNCHANGED <<regVars, jobs, step, cfg, ctx, connVars, iface, dropped, excuse>>

\* The handlers of EvDataDisconnected: the service's, then the modem's own.
DisconnectedJob ==
  /\ LoopReady("evDisconnected")
  /\ dropped' = TRUE
  /\ IF cfg.proto = "static"
     THEN /\ \/ iface' = {} /\ stopped' = FALSE
             \/ stopped' = TRUE /\ UNCHANGED iface
          /\ UNCHANGED <<dhcp, leased>>
     ELSE StopDhcp /\ UNCHANGED iface
  /\ StartDataConnection(retry, Tail(jobs))
  /\ UNCHANGED <<regVars, step, cfg, ctx, addrs, dialVars, first, delayed, late, excuse>>

-----------------------------------------------------------------------------
(* Registration, as it bears on the connection. *)

RegistrationStep ==
  /\ RegistrationReader \/ RegistrationLoop
  /\ UNCHANGED <<cfg, ctx, connVars, svcVars>>
  /\ excuse' = excuse
       \cup (IF CanDial' /\ ~ CanDial /\ tech' = tech THEN {"unnoticed"} ELSE {})
       \cup (IF step.op = "ask" /\ step.via \in Domains /\ asked' = "no" THEN {"unasked"} ELSE {})

\* The end of init().  With DHCP the ASR1802's radio is to be switched off and
\* on; setRadioOn() does nothing when it is on, and nothing is asked for then.
Init ==
  /\ RInit
  /\ cfg \in Configs
  /\ ctx \in {{}} \cup (IF IsRegistered(net) THEN Contexts ELSE {})
  /\ jobs = IF cfg.vendor = "asr" /\ cfg.proto = "dhcp" THEN <<>> ELSE <<Job("init")>>
  /\ excuse = IF jobs = <<>> /\ net # NotRegistered THEN {"unasked"} ELSE {}
  /\ state = "DISCONNECTED" /\ addrs = {} /\ retry = FALSE /\ timers = 0 /\ first = TRUE
  /\ iface = {} /\ dhcp = [inited |-> FALSE, ifaces |-> {}] /\ leased = {}
  /\ delayed = 0 /\ dropped = FALSE /\ late = FALSE

LoopStep ==
  \/ ConnectJob \/ DisconnectJob \/ QueryAnswered \/ ConnectDone
  \/ DialJob \/ DialAnswered \/ RetryTimer \/ TechJob \/ InitJob \/ CidAnswered
  \/ ConnectedJob \/ DelayedStart \/ DisconnectedJob

Next == RegistrationStep \/ LoopStep \/ ContextChanges \/ NetworkChanges \/ SearchOperators

\* The Loop is scheduled and every command ends, by an answer or a timeout.
Spec == Init /\ [][Next]_vars /\ WF_vars(LoopStep) /\ WF_vars(RegistrationStep)

-----------------------------------------------------------------------------
(* Properties. *)

Addresses == UNION Contexts

JobNames == {"init", "networkChange", "evTech", "connect", "disconnect", "dial",
             "evConnected", "evDisconnected"}
Jobs == [job : JobNames, update : BOOLEAN, got : SUBSET Addresses]

\* What the Loop thread waits for, by what called for it.
Steps == [op : {"idle", "cops", "ask", "asked", "cid", "query", "got", "dial"},
          via : AllDomains \cup {"signal", "none", "event", "detect", "first", "dial"},
          reg : Stats \ {"smsOnly"}, got : SUBSET Addresses]

StepTypes ==
  /\ step \in Steps
  /\ step.op = "ask" => step.via \in AllDomains \cup {"signal"}
  /\ step.op = "asked" => step.via \in Domains
  /\ step.op \in {"query", "got"} => step.via \in {"event", "detect", "first", "dial"}

\* The variables have their types; there is one dynamic interface at most.
TypeOK ==
  /\ RegTypeOK
  /\ jobs \in Seq(Jobs)
  /\ StepTypes
  /\ cfg \in Configs
  /\ ctx \in Contexts \cup {{}}
  /\ state \in {"DISCONNECTED", "CONNECTING", "CONNECTED"}
  /\ retry \in BOOLEAN /\ timers \in Nat /\ first \in BOOLEAN /\ dropped \in BOOLEAN /\ late \in BOOLEAN
  /\ addrs \subseteq Addresses /\ iface \subseteq Addresses
  /\ dhcp \in [inited : BOOLEAN, ifaces : SUBSET {"_4"}] /\ leased \subseteq {"_4", "_6"}
  /\ delayed \in Nat
  /\ excuse \subseteq Causes

\* Nothing has gone wrong that could cost a connection.
Undisturbed == excuse \subseteq {"unasked"}

\* Nothing is left to do: no job, command, dial timer or report of the modem.
Quiet ==
  /\ jobs = <<>> /\ step = Idle /\ timers = 0 /\ ~ stopped
  /\ \A d \in Domains : told[d] = Truth(net, d)

\* Once everything is handled m_tech and m_net_reg are those of the register
\* that decides, however reports, queries and AT+COPS? came between each other;
\* and the registers hold what the modem has reported, unless an answer was taken
\* for a report or a report for an answer.  A report may be missing that the channel
\* has dropped, until the domain is heard of again, and what the modem had reported
\* before if it was never asked for.
RegistrationFollows ==
  Quiet =>
    /\ ~ misread => \A d \in Domains :
                      \/ regs[d] = told[d]
                      \/ d \in unheard
                      \/ "unasked" \in excuse /\ regs[d] = NotRegistered
    /\ netReg = NetworkReg(Deciding)
    /\ NetworkTech(Deciding) # "unknown" => tech = NetworkTech(Deciding)

\* netifd has the addresses of the connection, and none without one, once the
\* events are handled; and they are those of the modem's context, unless
\* something has gone wrong that nothing repairs.
IfaceFollows ==
  cfg.proto = "static" /\ ~ stopped =>
    /\ (\A i \in DOMAIN jobs : jobs[i].job \notin {"evConnected", "evDisconnected"}) =>
          iface = IF state = "CONNECTED" THEN addrs ELSE {}
    /\ Quiet /\ Undisturbed /\ state = "CONNECTED" => ctx \subseteq iface /\ ctx # {}

\* The modem is never left without a connection that it could have: when nothing
\* is left to do it is connected, or nothing can be dialled and the modem has no
\* context by itself; unless something has gone wrong that nothing repairs.  What
\* a Huawei modem has from before is not looked at until something is dialled,
\* nor anything while the daemon knows of no network.
NoSilentLoss ==
  Quiet /\ Undisturbed /\ state # "CONNECTED" =>
    /\ ~ CanDial
    /\ ctx = {} \/ tech = "none" \/ (cfg.vendor = "huawei" /\ first)

\* A lease is held with a connection only, except one that a delayed start has
\* asked for after the connection was gone.
LeaseNeedsConnection ==
  Quiet /\ leased # {} /\ ~ late => state = "CONNECTED"

\* With a connection the lease of IPv4 has been asked for.
ConnectedHasLease ==
  Quiet /\ delayed = 0 /\ cfg.proto = "dhcp" /\ state = "CONNECTED" => "_4" \in leased

\* As long as the network allows it, dialling goes on: the timer of a failed
\* dial leads to another one.
KeepsDialling ==
  <>[](CanDial /\ Undisturbed /\ ~ misread /\ ~ stopped) => []<>(state \in {"CONNECTING", "CONNECTED"})

=============================================================================

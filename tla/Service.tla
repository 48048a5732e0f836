------------------------------ MODULE Service ------------------------------
(***************************************************************************)
(* The processes of the program: one daemon for each interface of netifd   *)
(* (ModemService::start) and the "usbmodem check" that hotplug starts,     *)
(* with the search for the modem and the lock files of UsbDiscover that    *)
(* keep two daemons off one device, the two loops a daemon runs and the    *)
(* ways they are told to stop.                                             *)
(*                                                                         *)
(* A name is the path of a device file; RealPath resolves it while the     *)
(* device is plugged in.  A lock file is named after what getRealPath      *)
(* gave; it is never removed, its lock ends with the process that has it.  *)
(* The lock of isDeviceLocked() is a real one, held between two calls of   *)
(* flock(), and its fopen("r") fails while nobody ever locked the file.    *)
(*                                                                         *)
(* External: netifd, which starts a daemon while the interface is          *)
(* available and not blocked, and may stop or kill one at any time; the    *)
(* USB bus; uloop_run() of libubox, which begins by forgetting an earlier  *)
(* uloop_end().                                                            *)
(***************************************************************************)
EXTENDS Naturals, Sequences, SequencesExt, FiniteSets

CONSTANTS
    Ifaces,     \* the interfaces with proto usbmodem
    Order,      \* the same, in the order of the configuration
    Check,      \* the process of "usbmodem check"
    Devices,    \* the modems of the bus, in the order of readDir()
    Tty, Net,   \* device -> its ttys and network devices, by interface number
    Option,     \* interface -> its options
    RealPath,   \* name -> the file it stands for
    Nobody, None,
    MaxStarts,  \* bound: daemons netifd starts
    Movable,    \* bound: the modems that are plugged in and out
    MaxPlugs,   \* bound: how often
    MaxSignals, \* bound: signals netifd sends
    MaxFaults   \* bound: failing calls, killed processes, runs of the user's script

Procs == Ifaces \cup {Check}
Names == DOMAIN RealPath

ASSUME ServiceAssumption ==
    /\ IsInjective(Order) /\ Ifaces = {Order[k] : k \in 1..Len(Order)}
    /\ Check \notin Ifaces /\ Nobody \notin Procs
    /\ \A n \in Names : RealPath[n] \in Names
    /\ \A i \in Ifaces : Option[i].device \in {"usb", "custom"}

VARIABLES
    plugged,    \* the modems on the bus
    holder,     \* lock file -> the process with its lock
    content,    \* lock file -> "absent", "" or the interface written to it
    proc,       \* process -> where it is, see Idle
    modem,      \* interface -> the modem's thread: "none", "run", "ended"
    avail, blocked,     \* what netifd was told of each interface
    pending,    \* hotplug events whose check has not begun
    starts, plugs, signals, faults  \* what the bounds count

vars == <<plugged, holder, content, proc, modem, avail, blocked, pending, starts, plugs, signals, faults>>
bus == <<plugged, pending, plugs>>
netifd == <<avail, blocked, starts, signals>>

-----------------------------------------------------------------------------
(* Names and locks (UsbDiscover.cpp) *)

HasPppDev(type) == type = "ppp"
HasNetDev(type) == type \in {"ncm", "asr1802"}

Files == [d \in Range(Devices) |-> Range(Tty[d] \o Net[d])]

Present(n) == \E d \in plugged : RealPath[n] \in Files[d]

NameItself(n) == n

\* getRealPath(): a name that does not resolve is used as it is.
LockPath(n) == IF Present(n) THEN RealPath[n] ELSE n

\* getFromDevice(): "ttyN" and "netN", "" past the end of the list.
FromDevice(list, id) == IF id < Len(list) THEN list[id + 1] ELSE ""

\* What resolveDevices() checks and locks, in its order.
Resolved(i, d) ==
    LET o == Option[i]
        name(list, value) == IF o.device = "usb" THEN FromDevice(list, value) ELSE value
        ttys == IF o.device = "usb" THEN Tty[d] ELSE <<>>
        nets == IF o.device = "usb" THEN Net[d] ELSE <<>>
    IN  <<name(ttys, o.control)>>
        \o (IF HasPppDev(o.type) THEN <<name(ttys, o.ppp)>> ELSE <<>>)
        \o (IF HasNetDev(o.type) THEN <<name(nets, o.net)>> ELSE <<>>)

\* getUsbDevicesByUrl(): the modems on the bus that fit the URL.
GetUsbDevicesByUrl(i) == SelectSeq(Devices, LAMBDA d : d \in plugged /\ d \in Option[i].url)

TryLockDevice(p, path) ==
    /\ content' = [content EXCEPT ![path] = ""]
    /\ holder' = [holder EXCEPT ![path] = IF @ = Nobody THEN p ELSE @]

MayLock(path) == holder[path] = Nobody

-----------------------------------------------------------------------------
(* A process: the interface it works for, the modems it has still to look  *)
(* at, the lock files it has still to probe, the names it has resolved and *)
(* those it has still to take; what a daemon was told.                     *)

Idle == [pc |-> "none", iface |-> None, devices |-> <<>>, device |-> None, probes |-> <<>>,
         used |-> FALSE, names |-> <<>>, left |-> <<>>, error |-> "", fatal |-> FALSE,
         manual |-> FALSE, needStop |-> FALSE, cancelled |-> FALSE,
         missed |-> FALSE,  \* not in the code: uloop_run() forgot a stop,
         strayed |-> FALSE] \* and a lock was taken under a name that did not resolve

At(p, pc) == proc[p].pc = pc
Becomes(p, r) == proc' = [proc EXCEPT ![p] = r]
Goes(p, pc) == Becomes(p, [proc[p] EXCEPT !.pc = pc])

\* stop() of both loops.
ModemLoopOnly(r) == [r EXCEPT !.needStop = TRUE]

Stop(r) == [r EXCEPT !.needStop = TRUE, !.cancelled = TRUE, !.missed = FALSE]

SetError(r, code, isFatal) == Stop([r EXCEPT !.error = code, !.fatal = isFatal])

\* run("check"): the next interface, a new ModemService for each.
NextCheck(i) ==
    LET k == CHOOSE k \in 1..Len(Order) : Order[k] = i
    IN  IF k = Len(Order) THEN Idle
        ELSE [Idle EXCEPT !.pc = "options", !.iface = Order[k + 1]]

\* init() or check() ends here.
GivesUp(p, code, isFatal) ==
    IF p = Check THEN NextCheck(proc[p].iface)
    ELSE SetError([Idle EXCEPT !.pc = "report", !.iface = p, !.manual = proc[p].manual],
                  code, isFatal)

Start(i) ==
    /\ At(i, "none") /\ avail[i] /\ ~blocked[i] /\ starts < MaxStarts
    /\ Becomes(i, [Idle EXCEPT !.pc = "options", !.iface = i])
    /\ starts' = starts + 1
    /\ modem' = [modem EXCEPT ![i] = "none"]
    /\ UNCHANGED <<bus, avail, blocked, signals, holder, content, faults>>

StartCheck ==
    /\ At(Check, "none") /\ pending > 0
    /\ pending' = pending - 1
    /\ Becomes(Check, [Idle EXCEPT !.pc = "options", !.iface = Order[1]])
    /\ UNCHANGED <<plugged, plugs, netifd, modem, holder, content, faults>>

\* m_ubus.open(), loadOptions() and the first part of resolveDevices().
LoadOptions(p) ==
    LET i == proc[p].iface
        o == Option[i]
    IN  /\ At(p, "options")
        /\ \/ o.device = "custom"
              /\ Becomes(p, [proc[p] EXCEPT !.pc = "take", !.names = Resolved(i, None),
                                            !.left = Resolved(i, None)])
              /\ UNCHANGED faults
           \/ o.device = "usb"
              /\ Becomes(p, [proc[p] EXCEPT !.pc = "search", !.devices = GetUsbDevicesByUrl(i)])
              /\ UNCHANGED faults
           \/ faults < MaxFaults /\ faults' = faults + 1
              /\ \E code \in {"NO_UBUS", "USBMODEM_INVALID_CONFIG"} :
                     Becomes(p, GivesUp(p, code, TRUE))
        /\ UNCHANGED <<bus, netifd, modem, holder, content>>

\* findDevice(), the next modem: getUsbDevInterfaces() of one that was unplugged since
\* throws in readDir(), and nothing catches it.
Search(p) ==
    LET r == proc[p]
    IN  /\ At(p, "search")
        /\ \/ r.devices = <<>> /\ Becomes(p, GivesUp(p, "NO_DEVICE", FALSE))
           \/ r.devices # <<>> /\ Head(r.devices) \in plugged
              /\ Becomes(p, [r EXCEPT !.pc = "probe", !.devices = Tail(@),
                                      !.device = Head(r.devices), !.used = FALSE,
                                      !.probes = Tty[Head(r.devices)] \o Net[Head(r.devices)]])
           \/ r.devices # <<>> /\ Head(r.devices) \notin plugged /\ Becomes(p, Idle)
        /\ UNCHANGED <<bus, netifd, modem, holder, content, faults>>

\* isDeviceLocked() of the next name of the modem, up to its flock().  The tty that is
\* used ends the loop over the ttys; the loop over the network devices comes all the same.
IsDeviceLocked(p) ==
    LET r == proc[p]
        path == LockPath(Head(r.probes))
        nets == Net[r.device]
        after(isUsed) ==
            IF isUsed /\ Len(r.probes) > Len(nets) THEN nets
            ELSE Tail(r.probes)
        isUsed == content[path] = r.iface
    IN  /\ At(p, "probe") /\ r.probes # <<>>
        /\ \/ content[path] = "absent"
              /\ Becomes(p, [r EXCEPT !.probes = Tail(@)]) /\ UNCHANGED holder
           \/ content[path] # "absent" /\ MayLock(path)
              /\ Becomes(p, [r EXCEPT !.pc = "probing"])
              /\ holder' = [holder EXCEPT ![path] = p]
           \/ content[path] # "absent" /\ ~MayLock(path)
              /\ Becomes(p, [r EXCEPT !.probes = after(isUsed), !.used = @ \/ isUsed])
              /\ UNCHANGED holder
        /\ UNCHANGED <<bus, netifd, modem, content, faults>>

Probed(p) ==
    LET held == {f \in Names : holder[f] = p /\ f \in {Head(proc[p].probes), RealPath[Head(proc[p].probes)]}}
    IN  /\ At(p, "probing")
        /\ holder' = [f \in Names |-> IF f \in held THEN Nobody ELSE holder[f]]
        /\ Becomes(p, [proc[p] EXCEPT !.pc = "probe", !.probes = Tail(@)])
        /\ UNCHANGED <<bus, netifd, modem, content, faults>>

\* The end of findDevice() for this modem: it is taken unless it is used.
Found(p) ==
    LET r == proc[p]
        names == Resolved(r.iface, r.device)
    IN  /\ At(p, "probe") /\ r.probes = <<>>
        /\ \/ r.used /\ Goes(p, "search")
           \/ ~r.used
              /\ Becomes(p, [r EXCEPT !.pc = "take", !.names = names, !.left = names,
                                      !.devices = <<>>, !.device = None])
        /\ UNCHANGED <<bus, netifd, modem, holder, content, faults>>

\* resolveDevices(): isFileExists() of the next name; a check locks nothing.
FileExists(p) ==
    LET r == proc[p]
    IN  /\ At(p, "take") /\ r.left # <<>>
        /\ \/ Head(r.left) \in Names /\ Present(Head(r.left))
              /\ Becomes(p, IF p = Check THEN [r EXCEPT !.left = Tail(@)]
                            ELSE [r EXCEPT !.pc = "lock"])
           \/ ~(Head(r.left) \in Names /\ Present(Head(r.left)))
              /\ Becomes(p, GivesUp(p, "NO_DEVICE", FALSE))
        /\ UNCHANGED <<bus, netifd, modem, holder, content, faults>>

\* tryLockDevice(): fopen("w+") empties the file before flock() is asked for the lock.
Lock(p) ==
    LET r == proc[p]
        path == LockPath(Head(r.left))
    IN  /\ At(p, "lock")
        /\ TryLockDevice(p, path)
        /\ Becomes(p, IF MayLock(path)
                      THEN [r EXCEPT !.pc = "take", !.left = Tail(@),
                                     !.strayed = @ \/ ~Present(Head(r.left))]
                      ELSE GivesUp(p, "NO_DEVICE", FALSE))
        /\ UNCHANGED <<bus, netifd, modem, faults>>

\* resolveDevices() has succeeded: check() tells netifd; init() links the interface to
\* the network device, which may fail.
HasDevices(p) ==
    LET r == proc[p]
        i == r.iface
    IN  /\ At(p, "take") /\ r.left = <<>>
        /\ \/ p = Check
              /\ avail' = [avail EXCEPT ![i] = TRUE]
              /\ Becomes(p, NextCheck(i)) /\ UNCHANGED faults
           \/ p # Check
              /\ Goes(p, "open") /\ UNCHANGED <<avail, faults>>
           \/ p # Check /\ HasNetDev(Option[i].type) /\ faults < MaxFaults
              /\ Becomes(p, GivesUp(p, "USBMODEM_INTERNAL_ERROR", FALSE))
              /\ faults' = faults + 1 /\ UNCHANGED avail
        /\ UNCHANGED <<bus, blocked, starts, signals, modem, holder, content>>

-----------------------------------------------------------------------------
(* A daemon with its devices *)

\* runModem(): open() succeeds or does not, and only succeeds with the device there.
RunModem(i) ==
    /\ At(i, "open")
    /\ \/ /\ Option[i].type \in {"ncm", "asr1802", "ppp"} /\ Present(proc[i].names[1])
          /\ Goes(i, "loop") /\ modem' = [modem EXCEPT ![i] = "run"]
       \/ Becomes(i, IF Option[i].type \in {"ncm", "asr1802", "ppp"}
                     THEN GivesUp(i, "USBMODEM_INTERNAL_ERROR", FALSE)
                     ELSE GivesUp(i, "USBMODEM_INVALID_CONFIG", TRUE))
          /\ UNCHANGED modem
    /\ UNCHANGED <<bus, netifd, holder, content, faults>>

\* run() of the UbusLoop: m_need_stop is read before uloop_run() begins.
EnterUbusLoop(i) ==
    /\ At(i, "loop")
    /\ Goes(i, IF proc[i].needStop THEN "join" ELSE "enter")
    /\ UNCHANGED <<bus, netifd, modem, holder, content, faults>>

UloopRun(i) ==
    /\ At(i, "enter")
    /\ Becomes(i, [proc[i] EXCEPT !.pc = "run", !.missed = @ \/ proc[i].cancelled, !.cancelled = FALSE])
    /\ UNCHANGED <<bus, netifd, modem, holder, content, faults>>

\* The flag of uloop_end() is seen at the next event, the timer of 60 s at the latest.
UbusLoopEnds(i) ==
    /\ At(i, "run") /\ proc[i].cancelled
    /\ Goes(i, "join")
    /\ UNCHANGED <<bus, netifd, modem, holder, content, faults>>

\* The Loop's thread ends once it is told to; an answer of the modem's error events stops
\* the daemon: the tty is lost, or netifd refused an address or a DHCP client.
ModemLoopEnds(i) ==
    /\ modem[i] = "run" /\ proc[i].needStop
    /\ modem' = [modem EXCEPT ![i] = "ended"]
    /\ UNCHANGED <<bus, netifd, proc, holder, content, faults>>

ModemFails(i) ==
    /\ modem[i] = "run" /\ ~proc[i].needStop
    /\ \/ ~Present(proc[i].names[1]) /\ UNCHANGED faults
       \/ faults < MaxFaults /\ faults' = faults + 1
    /\ Becomes(i, SetError(proc[i], "USBMODEM_INTERNAL_ERROR", FALSE))
    /\ UNCHANGED <<bus, netifd, modem, holder, content>>

\* modem_thread.join() and finishModem().
Joined(i) ==
    /\ At(i, "join") /\ modem[i] = "ended"
    /\ Becomes(i, [proc[i] EXCEPT !.pc = "report", !.names = <<>>])
    /\ UNCHANGED <<bus, netifd, modem, holder, content, faults>>

\* checkError(): when the user's script exists it takes the place of the daemon, as
\* execFile() does not fork: netifd is told nothing, and what fwrite() has left in the
\* buffers is lost with the locks still held.
UserScript(i) ==
    /\ At(i, "report") /\ proc[i].error # "" /\ ~proc[i].manual
    /\ faults < MaxFaults /\ faults' = faults + 1
    /\ Goes(i, "flushed")
    /\ UNCHANGED <<bus, netifd, modem, holder, content>>

\* checkError() without a script; a call to netifd may fail.
CheckError(i) ==
    LET r == proc[i]
        silent == r.error \in {"", "NO_UBUS"} \/ r.manual
    IN  /\ At(i, "report")
        /\ \/ /\ avail' = [avail EXCEPT ![i] = @ /\ (silent \/ r.error # "NO_DEVICE")]
              /\ blocked' = [blocked EXCEPT ![i] = @ \/ (~silent /\ r.error # "NO_DEVICE" /\ r.fatal)]
              /\ UNCHANGED faults
           \/ /\ ~silent /\ faults < MaxFaults /\ faults' = faults + 1
              /\ UNCHANGED <<avail, blocked>>
        /\ Becomes(i, [r EXCEPT !.pc = "exit", !.error = "", !.fatal = FALSE])
        /\ UNCHANGED <<bus, starts, signals, modem, holder, content>>

\* exit(): the owner that fwrite() left in the buffer reaches the file, whose lock ends
\* with the process.
Flush(i) ==
    /\ At(i, "exit")
    /\ content' = [f \in Names |-> IF holder[f] = i THEN i ELSE content[f]]
    /\ Goes(i, "flushed")
    /\ UNCHANGED <<bus, netifd, modem, holder, faults>>

Vanish(i) ==
    /\ holder' = [f \in Names |-> IF holder[f] = i THEN Nobody ELSE holder[f]]
    /\ Becomes(i, Idle)
    /\ modem' = [modem EXCEPT ![i] = "none"]

Exits(i) == /\ At(i, "flushed") /\ Vanish(i)
            /\ UNCHANGED <<bus, netifd, content, faults>>

\* SIGTERM: the handler may run anywhere; after checkError() nothing reads what it writes.
Signal(i) ==
    /\ proc[i].pc \notin {"none", "exit", "flushed"}
    /\ signals < MaxSignals /\ signals' = signals + 1
    /\ Becomes(i, Stop([proc[i] EXCEPT !.manual = TRUE]))
    /\ UNCHANGED <<bus, avail, blocked, starts, modem, holder, content, faults>>

Killed(i) ==
    /\ ~At(i, "none") /\ faults < MaxFaults /\ faults' = faults + 1
    /\ Vanish(i)
    /\ UNCHANGED <<bus, netifd, content>>

\* The bus; hotplug runs "usbmodem check" for both events.
Plug(d) ==
    /\ plugs < MaxPlugs /\ plugs' = plugs + 1
    /\ plugged' = IF d \in plugged THEN plugged \ {d} ELSE plugged \cup {d}
    /\ pending' = pending + 1
    /\ UNCHANGED <<netifd, proc, modem, holder, content, faults>>

-----------------------------------------------------------------------------
Init ==
    /\ plugged = Range(Devices)
    /\ holder = [f \in Names |-> Nobody]
    /\ content = [f \in Names |-> "absent"]
    /\ proc = [p \in Procs |-> Idle]
    /\ modem = [i \in Ifaces |-> "none"]
    /\ avail = [i \in Ifaces |-> TRUE] /\ blocked = [i \in Ifaces |-> FALSE]
    /\ pending = 0 /\ starts = 0 /\ plugs = 0 /\ signals = 0 /\ faults = 0

Resolves(p) ==
    \/ LoadOptions(p) \/ Search(p) \/ IsDeviceLocked(p) \/ Probed(p) \/ Found(p)
    \/ FileExists(p) \/ Lock(p) \/ HasDevices(p)

MainThread(i) ==
    \/ Resolves(i) \/ RunModem(i) \/ EnterUbusLoop(i) \/ UloopRun(i) \/ UbusLoopEnds(i)
    \/ Joined(i) \/ UserScript(i) \/ CheckError(i) \/ Flush(i) \/ Exits(i)

Next ==
    \/ \E i \in Ifaces : \/ Start(i) \/ MainThread(i) \/ ModemLoopEnds(i) \/ ModemFails(i)
                         \/ Signal(i)
    \/ StartCheck \/ Resolves(Check)
    \/ \E i \in Ifaces : Killed(i)
    \/ \E d \in Movable : Plug(d)

\* A daemon goes on while one of its threads can.
Spec == /\ Init /\ [][Next]_vars
        /\ \A i \in Ifaces : WF_vars(MainThread(i) \/ ModemLoopEnds(i))

-----------------------------------------------------------------------------
\* The files of a daemon that has resolved its devices.
Using(i) == IF proc[i].pc \in {"open", "loop", "enter", "run", "join"}
            THEN {RealPath[n] : n \in Range(proc[i].names)} ELSE {}

(* Two daemons never work with one device file (tryLockDevice(), UsbDiscover.cpp:29, and  *)
(* resolveDevices()): not through two names of it, not when one begins while the other    *)
(* ends, not while a check probes the locks; but when the modem was unplugged between     *)
(* isFileExists() and getRealPath() and a lock taken under a name that did not resolve.   *)
Exclusive ==
    \A i, j \in Ifaces :
        i # j /\ ~proc[i].strayed /\ ~proc[j].strayed => Using(i) \cap Using(j) = {}

(* A daemon that was told to stop, by an error of its modem or by a signal, ends, and its *)
(* locks with it (setError(), start(), LoopBase::stop()); but when the stop came while    *)
(* the UbusLoop was being entered.                                                        *)
Ends == \A i \in Ifaces : proc[i].needStop ~> (At(i, "none") \/ proc[i].missed)
=============================================================================

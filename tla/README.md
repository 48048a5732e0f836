# TLA+ models of openwrt-usbmodem

`usbmodem` is a daemon that netifd starts once per interface on an OpenWrt
router. It drives a 3G/LTE USB modem over a serial port with AT commands, brings
up the data connection, and serves a ubus API to LuCI (SMS, USSD, operator
search, ...). This directory models the parts of it in which several threads,
the modem and the clients meet. Paths below are relative to
`src/usbmodem/src/` unless they begin with `src/`.

## 1. The system

### Threads

| thread | runs | who talks to it |
|---|---|---|
| main | `UbusLoop` (libubox's uloop), all ubus handlers; before that `ModemService::init` and `runModem` | signals, netifd, ubus clients |
| `modem_thread` (`ModemService.cpp:268`) | `Loop`: every timer of the modem code, every AT command once the modem is open | ubus handlers post timers to it |
| reader (`AtChannel.cpp:36`) | `AtChannel::readerLoop`: reads lines, fills in responses, calls the handlers of unsolicited lines | the modem |

A ubus handler posts a timer of delay 0 to the `Loop`; the callback there sends
AT commands and blocks in `sendCommand()`; the reader wakes it; the result goes
back to the `UbusLoop` by another timer. Unsolicited results are handled on the
reader's thread, which changes the modem object or posts a `Loop` timer.

### Components, their state and what makes them correct

| component | state | operations | hard behaviour | properties that matter |
|---|---|---|---|---|
| AT channel (`Core/AtChannel`) | running command (`m_curr_*`), mutex, semaphore, `m_stop` | `sendCommand`, reader, `start`, `stop` | reader and caller share `m_curr_response` without a lock, timeouts race answers, the device disappears | a call gets its own answer; no use of a dead response; loss wakes the caller; callers exclude each other |
| Serial port (`Core/Serial`) | fd, wake pipe | `readChunk`, `write`, `breakTransfer` | the wake byte may be taken by the writer | stopping ends |
| AT modem base (`Modem/BaseAt.cpp`) | `m_self_test` | `open`, `ping`, handlers of errors, `close` | errors of the self test itself; the handler of a lost device waits for the thread that waits for the device | loss and silence are reported, shutdown ends |
| Event loops (`Core/LoopBase`, `Loop`, `UbusLoop`) | sorted timers, next deadline, promises, wake pipe | `addTimer`, `removeTimer`, `exec`, `stop`, `run` | lost wake-ups, order, calls while the loop ends | no timer is slept over, order of posts, every `exec` is answered, stop ends |
| Ubus API (`ModemService/Api.cpp`, `Core/UbusRequest`) | `m_deferred_results` | the methods, `reply`, `initApiRequest`, `apiGetDeferredResult` | a map shared by two threads without a lock, slow answers, double replies | a client gets the result of its own call, once; nothing leaks |
| USSD (`Modem/BaseAt/Ussd.cpp`) | callback, request number, timer, session | `sendUssd`, `cancelUssd`, `handleCusd` | late answers, cancellation, timeouts, three threads | an answer reaches the request it was made for; one reply per request |
| SIM (`Modem/BaseAt/Sim.cpp`) | `m_sim_state`, `m_pincode_entered` | polling, `+CPIN`, PIN entry | reader and Loop write the state | READY is not lost; the PIN is sent once |
| Network (`Modem/BaseAt/Network.cpp`, vendor files) | registration, technology, cached values | `handleCreg`, `handleNetworkChange`, operators | caches, unsolicited results out of order | states reported agree with the last result |
| Data connection (`Modem/Asr1802/*`, `Modem/HuaweiNcm/*`) | `m_data_state`, addresses, reconnect timer | `startDataConnection`, `dial`, `handleConnect`, `handleDisconnect` | results of the reader between scheduling and dialling | connected and disconnected alternate; reconnection goes on |
| DHCP and netifd (`ModemService/Dhcp.cpp`, `Modem.cpp`, `Core/Netifd`) | `m_dhcp_inited` | start, renew, release | delayed start against disconnection, partial failure | no lease is asked for without a connection |
| SMS (`Core/SmsDb`, `Modem/BaseAt/Sms.cpp`, `ModemService/Sms.cpp`) | storage, index, capacity, file | add, list, delete, load, save | crash between save and delete, parts out of order | no message is deleted before it is stored; index and storage agree |
| Lifecycle (`ModemService.cpp`, `Core/UbusLoop`) | error code, manual shutdown, the two loops | `start`, `init`, `check`, `setError`, signals, `checkError` | failure at every step, a signal at any moment | a daemon that is told to stop ends, and netifd learns why |
| Device discovery and locks (`UsbDiscover.cpp`) | lock files | `findDevice`, `tryLockDevice`, `isDeviceLocked` | two daemons and the check of hotplug, names that are links, a modem that comes and goes | no device file has two users |
| AT parser (`Core/AtParser`) | text, cursor, success | `parseNext*` | quoted, nested, empty and malformed arguments | a call returns what was written in its place, or `success()` is false |
| GSM encodings (`Core/GsmUtils`) | none | `decodePdu`, `decodeSmsDcsData`, `decodeCbsDcsString` | lengths in half-bytes, septets and bytes that depend on each other | what was sent is what is shown |

The list of hazards, line by line, with the properties that would notice each
one going wrong, is in `PROJECT.json`.

## 2. The plan

Order: what everything else stands on first.

1. **Channel** (done): `AtChannel`, its promise `AtCommands`, and `BaseAtModem`,
   which composes the channel with the handlers of errors on the Loop thread.
2. **Event loop** (done): `EventLoop`.
3. **API** (done): `ApiResults`.
4. **Registration, data connection and DHCP** (done): `Registration`, and
   `DataConnection` on top of it, for both vendors and the service's handlers.
5. **SIM** (done): `Sim`, up to the moment when SMS are ready.
6. **SMS** (done): `SmsStore` on top of `Sim`: listing, database, saving and
   deleting, with restarts of the daemon.
7. **USSD** (done): `Ussd`, the jobs of the Loop and the answers of the reader.
8. **Codecs** (done): `AtParser`, `GsmUtils` and `SmsCoding`, what the network
   sends against what the program shows.
9. **Service** (done): `Service`, the processes, their locks and their end.
10. **Proofs**, in order of worth (done): the channel, with the answers its callers
    get and its refinement; `EventLoop`; `ApiResults`; `Sim`'s try of the PIN;
    `Service`'s locks; `Ussd`; the registration and the data connection; the
    database of messages and its file; the modem's code as a user of the channel.
11. **Proofs left**: what the codecs compute, and liveness (section 5 says why).

Runs: one for each module with two actors or two requests, and a violation run
only where the code contradicts its own text. Proofs are in modules of their own
(`...Proofs`); the modules they are about have no recursive operator.

## 3. The modules

### AtChannel

Callers are threads in `Senders`; each goes through the steps of `sendCommand()`:

| action | code |
|---|---|
| `Call` | up to `at_cmd_mutex.lock()`: DEFAULT and MULTILINE without a prefix become NO_RESPONSE; on a closed channel the call returns at once |
| `Lock` | lock, response cleaned, `m_curr_response` published |
| `Publish` | `m_curr_prefix` and `m_curr_type` follow |
| `Write`, `WriteFails` | `Serial::write` |
| `WaitPosted`, `WaitTimesOut` | `Semaphore::wait` |
| `Release`, `Return` | `m_curr_response = nullptr`, unlock, handler of errors, return |
| `Stop`, `Join`, `Start` | `stop()`, `start()` |

The three members are written one after the other with no lock that the reader takes
(`AtChannel.cpp:243-245`). Between `Lock` and `Publish` the reader sees the new response
and, for prefix and type each, the old value or the new one (`Seen`); a line that it
takes into the response although the call's own kind would not is remembered in
`misjudged`. Nothing of the call's own answer can come then, as the command is not written.

The reader is split where another thread may come in between: the test of
`m_curr_response` (`TestLine`), its dereference (`Deref`), what it does with the
line (`CollectLine`, `FinishLine`), the reset (`ClearCurrent`), the post
(`PostLine`) and the second reset after an error (`ClearAgain`, line 162). The
same is done for the path of a lost device. A dereference of a null pointer is
undefined behaviour; the model takes it as the end of the program
(`rpc = "crashed"`). A `Response` no one has initialised has any error.

A line is abstracted to what `handleLine` tells apart: final or not, its prefix,
whether it begins with a digit. The field `from`, which the code does not have,
remembers the command a line answers, for the properties. The modem answers the
commands it has read in order, with any lines and any verdict, and sends
unsolicited lines at any time. The handlers of unsolicited lines are there from the
beginning; `init()` and `close()` change their vector while the reader runs, which is
a data race this module does not show.

History variables: `answer` (what the modem said to each command), `disturbed`
(some command has timed out or could not be written: from then on the protocol
cannot tell answers apart), `orphaned` (line 162 has hit a later command), `misjudged`
(calls that took a line before their kind was known).

That a response has all the lines of its answer (`AnswerIsOwn`) is stated by an order-keeping
assignment of the answer's lines to places of the response (`OwnPart`). The requests are
those the wrappers of `AtChannel.h` can make: no prefix where the type has no use for one
(`RequestsAssumption`).

### AtCommands

The abstract specification: a call is queued, active (one at a time) and returns
what was said to it, or that the device is lost; once one call has been given up
on, nothing is promised about the later ones. `AtChannel!ImplementsCommands` is
the refinement, which TLC checks and `AtChannelProofs` proves; its mapping is
spelled out as `CallState`, `CallReply` and `CallSaid`.

### BaseAtModem

Extends `AtChannel`. One thread, the Loop's, issues commands; the handler of
errors (`BaseAt.cpp:113`) pings the modem up to `PingTries` times, through the
same channel, and if nothing answers emits `EvIoBroken` and stops the channel.
The handler of a lost device (`BaseAt.cpp:107`) is called by the reader and posts
a timer that does the same. `EvIoBroken` is `setError`, which stops the loops;
then `close()` runs. Each action is one of `AtChannel` with conditions of its own, or
leaves the channel alone. `SelfTestEnds` has a part that is not liveness,
`SelfTestStops`: a self test ends with an answer or with the channel stopped.

### EventLoop

`LoopBase` with the `poll()` loop of `Loop.cpp`, for an owner thread and others.
`addTimer` is two steps, because the wake-up follows the unlock. `runTimeouts` is
split at the unlocks: `TakeFirst`, `CallTimer`, `CallbackReturns`, `Requeue`,
`ReadNext`, `SetNext`. `execOnThisThread` is `ExecBegins`, `ExecMakesPromise`,
`ExecAddsTimer` (a timer and a wake-up), `ExecReturns`. `run()` ends with `Sweep`,
which sets all promises. A promise set twice throws: the program ends
(`lpc = "crashed"`). An interval is put back, and a timer taken out, at its place in
`m_list`, which holds a timer once.

### ApiResults

Calls arrive on the UbusLoop thread (`Arrive`: `initApiRequest` and the method),
work is done on the Loop thread and given back by `reply()` (`FindEntry`,
`SetTime`, `SetResult`: the map is not locked, so they are three steps). After
five seconds an asynchronous request is answered with a key (`DeferJob`), its
entry is made after that (`DeferInsert`), and the client of
`src/luci-app-usbmodem/.../usbmodem-api.js` polls (`GetDeferredResult`) until the
result is ready or the key does not exist. `uniqKey()` is modelled by what its
format does: `PRIu64 "_%zu"` lacks a `%`, the first argument alone is printed,
and the key is the time of arrival in milliseconds.

The map is taken as linearizable for single operations; what a data race inside
`std::map` can corrupt is not modelled.

### Registration and DataConnection

`Registration` has the modem's side (`net`, where it is registered; `told`, what it
has last reported; `asked`, the query it owes an answer) and the program's: the
three registers, the flag `m_manual_creg_req` (`manual`), `m_tech`, `m_net_reg`, and
the queue of the Loop's timers of delay 0 (`jobs`). A line and its handler on the
reader's thread are one step; a command that the Loop thread waits in is a value of
`step`, between two actions, so that lines come meanwhile. `misread` is a history
variable: a line without `<n>` was read with it, or the other way round; what is
parsed then is worked out in `Parsed`.

The channel drops a line that it judges by a MULTILINE command with no line yet
(`AtChannel.cpp:187-195`): one of `AT+CMGL` and the `AT+COPS=3,0;...` of
`getCurrentOperator()`, or the command after one of these until its own kind is
published. Either may be sent at any time, by an arriving message or by the API, so any
unsolicited line may be the one: `Report` has the disjunct `Drop`, and so has
`ContextChanges`. `unheard` remembers the domains whose last report was lost that way. An
answer to a query is not dropped, as its command is by then the current one.

| action | code |
|---|---|
| `Report`, `AnswerReg` | `handleCreg` (`BaseAt/Network.cpp:101`) for an unsolicited line, handled or dropped, and for an answer |
| `NetworkChange`, `CopsAnswered` | `handleNetworkChange`, before and after `AT+COPS?` |
| `AskReg`, `AskDone`, `AskSignal` | the queries at the end of `init()` |
| `ContextChanges`, `NetworkChanges` | the modem; with it `handleCgev` and the handler of `^NDISSTAT`, unless the line is dropped |
| `SearchOperators` | `HuaweiNcmModem::searchOperators` (`HuaweiNcm/Network.cpp:189`), up to the search itself |
| `ConnectJob`, `QueryAnswered`, `ConnectDone` | `handleConnect`: the commands, their answer, the end |
| `DisconnectJob` | `handleDisconnect` from a line |
| `DialJob`, `DialAnswered`, `RetryTimer`, `TechJob` | `startDataConnection` with its timers, `dial` |
| `InitJob`, `CidAnswered` | the job of `init()` |
| `ConnectedJob`, `DelayedStart`, `DisconnectedJob` | the handlers of the events in `runModem`, then the modem's own |

Both vendors are configurations of one module (`cfg`): they share the protocol and
differ in what is news, what can be dialled, and how addresses are merged. An event
is a job (`Events::emit` posts a timer), so the handlers see the object as it has
become by then. The context of the modem is a set of addresses, one per family.
`retry` is whether `m_manual_connect_timeout` has a number, `timers` how many timers of
failed dials are pending: two queued dials that fail set two, of which the member
knows the later.

### Sim

The modem's side is `card` (what `AT+CPIN?` would be answered with, a code or a CME
error), `tries`, whether the configured PIN is the card's, and the storages it
names. The program's is `m_sim_state`, `m_pincode_entered`, the timers of
`startSimPolling()`, the job that sends the PIN, the command the Loop waits in
(`step`), and `m_sms_ready`. Lines come between the answer of a command and what the
Loop does with it, which is why `startSimPolling()` is `Poll`, `AskAnswered`,
`AskDone`, and the job of the PIN is `UnlockJob`, `PinTaken`, `UnlockDone`. A restart
of the daemon keeps the card. `FindBestSmsStorage` is the whole choice, with its
second attempt.

| action | code |
|---|---|
| `CardChanges` | the card, with a `+CPIN` line (`handleCpin`) or without |
| `Poll`, `AskAnswered`, `AskDone` | `startSimPolling` (`Sim.cpp:26`) |
| `UnlockJob`, `PinTaken`, `UnlockDone` | the job of `handleSimLock` (`Sim.cpp:86`) |
| `InitSms`, `InitSmsDone` | `intiSms` and the handler that calls it (`Asr1802.cpp:162`) |

### SmsStore

Extends `Sim`: messages are loaded when SMS become ready and when one arrives. The
modem is a set of slots, `read` those it has listed; the database is its
storage, list, used capacity and next number; the file is the messages of the last
save. `loadSmsFromModem()` is a job of five steps (`LoadJob`, `ListTaken`, `ListAnswered`,
`SaveDone`, `DeleteDone`; `ListTaken` is the moment at which the modem takes what it will
list), as messages arrive while its commands run and the daemon
may end between any two (`DaemonRestarts`): its memory is gone, the file and the
modem's slots stay. A part is a record with the header it came with, valid or not
(`Decoded`). `SaveDone` has four outcomes: success, a failure that `save()` reports, a
write that failed and a rename that failed, both of which it does not report. The modem
lists its slots in any order (`Listings`). `add()` of a list and the reading of a file are
functions on the number of messages added so far (`AddAll`, `Unserialized`), each step of
which is the code's `Add` or `AddToList`. In a part, `ref` stands for everything
`findSameSms()` compares; the part has a text and a date, as one without is either not
recognized as present or dated by the clock.
`Arrives` is a message with its `+CMTI`, which the channel may drop (see `Registration`
above: the listing itself is one of the two commands that do it). A message of a dropped
line is found when a listing is due or has not been taken yet (`ListingDue`), and
otherwise stays in the modem until the next one (`missed`).
`ApiDeleteSms` is `delete_sms`, with the number of the database as an index of the
modem. History: `lossy`, `again`, `missed`, why the properties except a case.

### Ussd

Requests are jobs of the Loop, in order (`jobs`); a `+CUSD` line is handled in two
steps of the reader, `NetworkSpeaks` (is anybody waiting?) and `ReaderPosts` (which
number?), as the Loop may start another request between them. `SendJob` has a
disjunct for each way a request begins: a session to be closed, a text that is not
valid, a request that waits and is cancelled, and sending at once. Each request has
the sequence of its replies. `raced` is history: the number changed while the reader
was at work.

### AtParser, GsmUtils, SmsCoding

`AtParser` is the parser as a state machine: text, cursor and `success`, one action
for each kind of call; `ParseNextArg` finds an argument as the code's loops do, by
the first closing quote or the matching parenthesis. Texts are what modems write,
from `fields`, what was meant; what a call returns after a malformed argument was
read without a cursor is a choice over what the stack may hold. `GsmUtils` has the
decoders, function by function, on sequences of bytes. `SmsCoding` writes messages by
the rules of 3GPP TS 23.040 and 23.038 (external) and has the two steps by which the
program reads them, `DecodeMessage` and `DecodeUssd`. `MCCodecs` has both as
alternatives of one specification.

### Service

The processes: a daemon for each interface and the `usbmodem check` of hotplug, each
with a record of where it is (`proc`). The resolution of devices is the same code for
both (`LoadOptions`, `Search`, `IsDeviceLocked`, `Probed`, `Found`, `FileExists`,
`Lock`, `HasDevices`), step by step where another process may come in between. A lock
file has a holder and a content; emptying it precedes the lock, the owner's name
reaches it when the process ends, as `fwrite()` is never flushed before; probing a
lock takes it for a moment. A daemon with its devices has two threads, that of the
UbusLoop (`EnterUbusLoop`, `UloopRun`, `UbusLoopEnds`, `Joined`) and the Loop's
(`ModemLoopEnds`, `ModemFails`); `Stop` is the `stop()` of both loops, called by
`SetError` and by the handler of signals. `CheckError` tells netifd; when
`/etc/usbmodem.user` exists it is run in the daemon's place (`UserScript`: `execFile()`,
`Core/Utils.cpp:438`, does not fork), so netifd is told nothing, the locks stay held until
the script ends, and the owner's name that `fwrite()` left in the buffer is lost. The bus, netifd,
the kernel and the C library are external; the restart policy of netifd is an
interface that is available and not blocked.

Two things the model shows beyond its properties. A process that probes a lock
(`UsbDiscover.cpp:66`) holds it for a moment: a daemon that starts then is refused its
own device and reports `NO_DEVICE`. And `isDeviceLocked` answers true only for
the own name of the interface, which a lock file has only once its owner is ending
(`UsbDiscover.cpp:69`), so a daemon whose first modem is in use does not go on to a
second one of the same kind.

## 4. The runs

| run | module, cfg | what it shows |
|---|---|---|
| `channel` | `MCAtChannel.cfg` | two threads (one may stop the channel), two commands that ask for several lines, one unsolicited line with their prefix, which may come while a call is being published: types, exclusion, no null dereference unless a command was given up, own answers, a lost device wakes the caller, refinement of `AtCommands` |
| `channel_kinds` | `MCAtChannelKinds.cfg` | two commands, each of any kind of call, one unsolicited line of either of two prefixes: whatever the kind of the call before, the response has the lines of its own answer, and every final line ends the wait |
| `base_modem` | `MCBaseAtModem.cfg` | liveness: device loss and a silent modem are reported, self tests end, shutdown completes |
| `event_loop` | `MCEventLoop.cfg` | one posting thread, two timers, a clock of two ticks: no lost wake-up, order, every due timer runs, every `exec` is answered, stop ends the loop |
| `api_results` | `MCApiResults.cfg` | two calls of any kind and timing: own result, no leak, everyone served |
| `data_connection` | `MCDataConnection.cfg` | two networks (one without a technology, roaming), two contexts, four configurations, any line dropped, searches for operators: the registers and technology follow the modem, netifd's addresses follow the connection, no connection is silently missing, leases go with connections, dialling goes on |
| `sim` | `MCSim.cfg` | six kinds of cards, three sets of storages, right or wrong PIN, two changes of the card, two starts: one try of the PIN for each start, and READY brings SMS |
| `sms` | `MCSmsStore.cfg` | three of four parts of three messages in two slots, two starts, one failure, any `+CMTI` dropped: nothing lost, nothing twice, an index that agrees, nothing forgotten |
| `ussd` | `MCUssd.cfg` | a request, an invalid one, an answer in a dialogue, one cancellation, three lines, one failure: who waits has a timer, answers in time, every request replied to |
| `codecs` | `MCCodecs.cfg` | 1984 states, one behaviour for each text: USSD, listings, storages, operators and numbers, parsed as meant; SMS in three alphabets, with and without headers, addresses, dates, validity periods, and USSD texts, decoded as sent |
| `service` | `MCService.cfg` | a daemon by URL, one with a link to a tty, and the check; one modem unplugged and plugged in, one signal, one failure, kill or run of the user's script: no device has two users, and who is told to stop ends |
| `api_key` | `MCApiResultsKey.cfg` | **violated**: two calls in the same millisecond share the key and one client gets the other's result |

The type invariants of `BaseAtModem`, `EventLoop`, `DataConnection`, `ApiResults`, `Sim` and
`SmsStore` are definitions of their modules, true on the same instances; those of `EventLoop`,
`DataConnection`, `ApiResults` and `Sim` are proved (section 5), and the runs spend their time on
the other properties.

Each property of a passing run has a mutant in `PROJECT.json`: a definition
changed the way a bug would change the code, under which the run fails.

### Exceptions that the properties name

A property that says "except ..." says what the code really does:

* `CrashNeedsGivingUp`, `AnswerIsOwn`: only while no command has timed out or
  failed to be written. After that the reader may meet a null pointer, and a late
  answer may be taken for the answer to the next command.
* `AnswerIsOwn`, besides: a line that came after `m_curr_response` was published and
  before type and prefix were may be among the lines of any call (`misjudged`,
  `AtChannel.cpp:243`). The verdict and the answer's own lines are not affected.
* `LossWakesCaller`, `AnswerEndsWait`: not for a call that line 162 of
  `AtChannel.cpp` has orphaned: the second reset takes away the response of the next
  command, which then sleeps until its timeout although nothing went wrong before.
* A call on a closed channel returns a `Response` nobody has filled in
  (`AtChannel.h:30`): the model gives it any error, success included.
* `ExecIsAnswered`: not for a promise made after the sweep of `run()`
  (`LoopBase.cpp:33`), which nobody keeps.
* `OwnResult`, `NoLeak`, `EveryoneServed`: not for calls of the same millisecond
  (`Alone`); not for a client that asks between the two assignments of `reply()`
  (`torn`); a result that was queued as a direct reply when the key was sent is
  dropped, and its client polls for ever (`missed`); the second reply of a refused
  USSD request may make an entry nobody fetches.

* `NoSilentLoss`, `IfaceFollows`, `KeepsDialling`: not after one of `Causes`, which
  name what the code has no remedy for: a context ignored because `m_tech` is
  stale (`ignored`), one that could not be read, where no dial is tried again
  (`failed`, `Asr1802/Data.cpp:299`), roaming or packet service that becomes
  available without a change of technology, as `EvNetworkChanged` starts no dial
  (`unnoticed`), an old report, a superfluous dial or a search for operators that takes the
  connection for lost (`overtaken`), a line about the context that the channel
  dropped, as nothing asks for the context again (`unheard`, `AtChannel.cpp:187-195`).
  Without any one of these exceptions `NoSilentLoss` fails. A dropped report of the
  registration needs none.
* `ReadyBringsSms`: not when a command of the initialization has failed or `AT+CPMS`
  is refused for a first storage nobody asked about (`BaseAt/Sms.cpp:190`), as
  `intiSms()` is not tried again; nor when the answer to `AT+CPIN?` overwrote a READY
  that came after it, or the card became ready without a line when nothing polled
  (`excuses`).
* `KeptSomewhere`: not after a write or a rename that failed and was taken for a
  success, a database that could not be read and was saved over
  (`ModemService/Sms.cpp:48`), or a deletion through the API (`lossy`).
* `StoredOnce`: not when the modem kept a message that was added: the save or the
  deletion failed or the daemon ended between them (`again`); nothing recognizes a
  message that is whole. `NoneForgotten`: not when the last listing failed, or a `+CMTI`
  was dropped with no listing to come (`missed`); the next listing ends both.
* `AnswerInTime`: not when the number was read after it had changed (`raced`,
  `BaseAt/Ussd.cpp:13`). The network does not say whom it answers; an answer
  is promised to a request that waited when the line came, not to the one it was for.
* `ReadAsMeant`: not after a malformed argument was read as a number
  (`Core/AtParser.cpp:24`). `DecodedAsSent`: not for the code points 0xFFFF and 0x10FFFF
  (`GsmUtils.cpp:680`), and a USSD text of 8n - 1 septets is shown with its padding.
* `Exclusive`: not for a daemon that has locked a name which did not resolve, because
  the modem went between `isFileExists()` and `getRealPath()` (`strayed`,
  `UsbDiscover.cpp:24`). `Ends`: not when the stop came while `uloop_run()` was being
  entered (`missed`, `UbusLoop.cpp:36`). Without either exception the property fails.
* `NoSilentLoss` besides: a Huawei modem's context from before the daemon's start is not
  looked at until something is dialled (`first`), nor any context while the daemon knows
  of no network (`tech`).
* `RegistrationFollows`, for the registers: not after a line was misread (`BaseAt/Network.cpp:107`); and
  under DHCP the ASR1802 is never asked for what it had reported before, although
  `setRadioOn(false)` does nothing when the radio is on (`unasked`,
  `Asr1802.cpp:137` and `192`). The register of a domain whose last report the channel
  dropped keeps the one before, until the next (`unheard`); technology and registration
  still follow the registers.
* `LeaseNeedsConnection`: not after a delayed start of DHCP has run without a
  connection (`late`, `ModemService/Modem.cpp:96`).

### Bounds

Two callers and two commands are enough for every race of the channel: it is
between the running command, the reader and the next command; in `channel_kinds` two
commands of one caller are a kind and the kind before it. Three commands in
`base_modem` are one of the modem's code and two pings. In `event_loop` two timers
give order, requeueing and a wake-up for an earlier first timer; a timer may be an
interval. `MaxTime` of two gives delays that end in either order; the sixty seconds
of an empty loop are beyond it. In `api_results` two requests are a client and the
one it could be confused with; `MaxTime` of two gives the same or a different
millisecond. In `data_connection` the network and the context together change twice:
a context that comes up and goes, or a network that comes and brings one up, against
every stage of the program's reaction; two contexts, one with two families, let
addresses change and merge. Two domains give a register that decides and one that
does not. In `sim` two changes of the card are an error and what
follows it, or a removal and a return; two starts give a second try of the PIN. In
`sms` two slots and three of four parts give a message in two parts, in either
order, a part of another message with the same count, and a header that contradicts
itself; one failure at each step in turn, and one restart, are what the properties'
exceptions are about; every failure sets an exception of some property, and the others are
checked with it. In `ussd` three requests
give one that waits, one that takes its place and one after it; three lines an answer
in time, a late one and one of the network's own. In `service` two daemons and the
check are an owner, one who wants its device and one who probes it; two daemons
started in all let either be started again; two plugs are one modem that
goes and comes back, under the links to it. The texts of `codecs` have every length
from 0 to 17 septets, where bytes and septets meet twice, the longest ones, headers of
every kind the code knows, an unknown one, and code points at every boundary of UTF-8. All
bounds are guards of the action that would exceed them, and the
systems stop when they are reached: hence `CHECK_DEADLOCK FALSE`.

### Fairness

`AtChannel` states none: it has safety properties only, and the modem need not
answer. `BaseAtModem` assumes that its two threads are scheduled, that a wait or
a `poll()` with a timeout ends (`WF` on the steps of each thread), and that timers
queued on the Loop are reached among others (`SF`, as the Loop runs other callbacks
in between; `EventLoop` shows that a due timer is run). Nothing is assumed of the
modem, of signals or of the timers that issue commands. `EventLoop` assumes its
owner and threads in the middle of a call are scheduled and that callbacks return;
time may stand still. `DataConnection` assumes the Loop runs its timers and every command ends (with
an answer or a timeout), and that the modem reports its registration and answers the
queries it has taken. `Sim` assumes that every command
ends and that the Loop reaches each of its timers; `Ussd` the same, that the reader
goes on with a line it has begun, and that a timer fires; nothing of the network.
`Service` assumes of each daemon that it goes on while one of its threads can (`WF` on
the two together, as a lock or a join waits for the other); nothing of netifd, hotplug
or the bus. `SmsStore` and the codecs have safety properties only. `ApiResults` assumes both threads are scheduled and that the
client keeps polling, which luci's `poll` does.

## 5. The proofs

Each theorem is of the form `Spec => []P`, but for the refinements and one property of steps
(`SelfTestStops`), and holds for every
value of the constants: any number of threads, requests, timers, networks, and any bound.
The assumptions are those the modules state of their constants. They say that markers such
as `None` and `Nobody` are nothing else, that bounds are naturals, that sets of kinds are
among the kinds the code has, and, for the channel, that one thread stops it and that
requests are the ones the wrappers make. None of the properties is inductive by itself;
for each module what follows is the invariant that is, and why it takes that much.

### The channel: `AtChannelProofs`

* `TypeCorrect` (`TypeOK`): inductive, once its parts are split by who writes them.
* `OneCaller` (`CurrOwned`): a thread is between lock and unlock exactly when it holds the
  mutex, and `m_curr_response` is its response or null. Inductive together with the types:
  only `Lock` sets the pointer, and `Release`, by the holder, resets it.
* `NoCrash` (`CrashNeedsGivingUp`): between the reader's test and its use nobody may reset
  the pointer. `HandOver` adds that, as long as no command has been given up, a token of
  the semaphore, a post that is about to happen and a line that is being handled exclude
  each other, so that `Release` runs only after the reader has finished.
* `LossEndsWait` (`LossWakesCaller`): `LossInv` says that a response that is no longer
  current has been or will be posted (`Posted`), that the loss is reported only after
  whoever waits has a token (`Reported`), and that no line is handled and no command
  written after it (`Opened`, `Halted`).
* `EndsWait` (`AnswerEndsWait`): numbers of commands are given once (`Numbers`), and while
  nobody has given up every line on its way is unsolicited and not final, or of the
  answer to the one call that waits, with its verdict in the final line, which is the last
  (`Queued`); who has been answered has a final line on its way or a token (`Awaited`).
  This must be said of the lines in the port, of the chunk and of the one at hand
  (`Held`), and the reader must have left the right verdict when it wakes (`Verdicts`).
* `OwnAnswers` (`AnswerIsOwn`) adds the lines: at any moment those in the response, the one
  at hand and those on their way are together, in order, the lines of the answer, and
  what is taken besides is what the kind of the call cannot tell from them, or has
  come before `Publish`; at that time no line of an answer is on its way.
* `Implements` (`ImplementsCommands`): initial states map to initial states, and each step
  to a call, its activation, its answer, its return or a stutter; the invariant above
  gives the guards of `AtCommands`.

### The modem on the channel: `BaseAtModemProofs`

* `UsesCommands` (`ImplementsCommands`): what is proved of the channel holds of the modem's
  code. The lemma `UsesChannel` under it, that each step is a step of `AtChannel` or leaves it
  alone, follows from how the actions are written.
* `ClosedAfterReader`: the reader is gone whenever the channel is not started. `ReaderEnds`
  adds that a reader that has ended was told to stop, which is why `Join` waits for it.
* `StopsWhenSilent` (`SelfTestStops`) and `ModemTypes`, from `SelfTestInv`: while pings run
  one try is left, and none when the thread has gone on to the join. A self test with no
  answer cannot end without `stop()`.
* `LossIsKept`: from the reader's report of a lost device until `EvIoBroken` its timer is
  queued, whatever self test runs on the Loop meanwhile.

### `EventLoopProofs`

`LoopTypes`, `QueueSorted` (`m_list` is sorted by deadline), `NeverOversleeps`
(`AwakeForFirst`) and `TimersRunInOrder` (`RunsInOrder`), from `LoopInv`. `Awake` says at each step of
the owner what the deadline that it has read, or will read, covers, or that a wake-up
is in the pipe or about to be: a timer may be added between any two steps. `Order` says that no
timer waits longer than its delay (`SetByNow`), that none is lost (`Kept`), that those set
earlier for no longer are ahead in the queue, and what is known of the one that was taken
out of it; the order of the runs follows.

### `ApiResultsProofs`

`ResultTypes`, `OwnResults` (`OwnResult`) and `NothingLeaks` (`NoLeak`), from `ResultsInv`: each job,
timer and step is of a call that was made, each call is worked for once (`Called`), a client
that polls has a request that is deferred (`Clients`), every entry has the key of a call
(`Keyed`), and under a key no other call shares there is its own result or none yet, until it
is fetched (`Own`), and for calls with a single reply nothing afterwards (`Once`). `NoLeak`
excepts calls that share a key, are `torn` or are replied to twice, as the code leaks there.

### `SmsStoreProofs`

The SIM alone: `OneTry` (`OneTryPerStart`): the try of a start is left, queued with
`m_pincode_entered` set, or spent (`Budget`). `SimTypes` needs besides that what the card has
counted the program has sent. The steps of the store take the SIM's or leave it alone, so that
`OneTryWithStore` and `StoreTypesAlways` state both of `SmsStore`'s own `Spec`.

The store: `KeptAlways`, `OnceAlways`, `DatabaseAlways` and `NoneForgottenEver` state the four
properties of the run, from one invariant, `StoreInv`:

| part of `StoreInv` | what it says |
|---|---|
| `StoreTypes` | the types; the database is `Consistent`: its list has every number once, newest first, and its messages have each part in its place; so have those of the file |
| `Origin` | whatever is stored anywhere has arrived; the modem has it in one slot |
| `Saved` | unless something was lost: each part is in the modem or in the file; the database has what the file has; what is listed has been added when it is saved, and is in the file when it is deleted |
| `Once` | unless the modem kept what was added: each part is once in the database and once in the file, and what is in the modem is in neither but during the steps that save and delete it |
| `Known` | unless the last listing failed or a line was dropped with none to come: a listing is due, or all that arrived is in the database or in the answer that is being listed |

Each of the four needs the others: that nothing is lost at a restart needs the database to have
what the file has, which the loading of the file must bring back, in another order of
numbers, and that needs `Consistent` of what was written. An arrival between two of
the steps is why `Saved` speaks of the slots that were listed and not of all.

Below it are lemmas about the database, one for each function of `SmsDb.cpp`: where an entry
goes in a sorted list (`InsertAtWith`, `Inserted`, `AddToListFacts`), that a part put into a
message adds itself and removes nothing (`PutFacts`, `AddFacts`), and what a list of parts or a
file of any length gives (`AddAllFacts`, `UnserializedFacts`, `SerializedFacts`, `TornFacts`).
The last ones are about functions defined by recursion on a number. Their existence and
their properties are shown by the least number for which they would fail: the one before it
holds, and one more `Add` keeps it. No induction theorem is instantiated.

The proofs need no more of the constants than that the slots are finitely many numbers, that
the fields of a part are numbers and that it has a date; the order of a listing is free.

### `ServiceProofs`

`DevicesExclusive` (`Exclusive`) from `LocksHeld`: a daemon has the lock of every name that it
has resolved and is not still to take, from the resolution to its end. Locks that probes
take and give back are never those; two daemons with the same device would hold the same lock.

### `UssdProofs`

`TypesHold`, `WaitingTimed` (`WaitingHasTimer`), `OnePlace` (`Fresh`: a request that is not over is
queued, held by a command or waiting, in one of these places once, and was told nothing)
and `AnswersInTime` (`AnswerInTime`), which needs `OnePlace` for the count of the replies and
`Numbered` for their time: a line that is to be handed over with the present number came
while the present request waited.

### `DataConnectionProofs`

`RegistrationKnown`, `IfaceKnown`, `NothingLost`, `LeasesEnd` and `LeasesBegin` state the five safety
properties of the run, `ConnectionTypes` the types. The properties speak of quiet
states; `Agreement` is the invariant for all states, with one part for each pair of places that
should agree: they do, or what will make them agree is queued, awaited or excused.

| part of `DataInv` | the two places |
|---|---|
| `Registers`, `Starting` | what the modem has reported, and the registers |
| `WorkedOut` | the register that decides, and `m_tech`, `m_net_reg` |
| `Addressed`, `Found` | the modem's context, and the addresses and state of the object |
| `Dialling`, `Dials` | what can be dialled, and the dial, timer or event that leads to it |
| `Told`, `Leases` | the state of the object, and netifd's addresses and leases |

`Told` says that the last event in the queue tells the present state, which is why netifd
ends with the right addresses whatever was skipped before. `Armed` says that a number in
`m_manual_connect_timeout` is of a pending timer, which `Dials` rests on. `Registers` and
`Addressed` speak of the lines that were dropped, by domain and as a cause. The proof of `Found` showed that an
earlier form of `NoSilentLoss` held only for the contexts of the run: the exceptions of
section 4 are what the code makes of it for all of them. `IfaceFollows` and `RegistrationFollows`
turned out to hold in part without the premise that no line was misread, and are stated so.

### What stays model-checked

* Liveness (`KeepsDialling`, `ReadyBringsSms`, `Ends`, `ExecIsAnswered` and the others of
  `BaseAtModem`, `EventLoop`, `ApiResults`, `Ussd`): the prover handles neither fairness
  nor `ENABLED`.
* What `AtParser`, `GsmUtils` and `SmsCoding` compute (`ReadAsMeant`, `DecodedAsSent`): two
  texts of any length are compared through recursive operators and arithmetic with powers
  of two, which need induction over data. Every other safety property of a run is a theorem.
* `KeyIsUnique`, which the code violates.

## 6. Not modelled

* **Generic PPP**: polls the signal while pppd holds the data port; nothing interacts
  with that timer but the channel.
* **Ubus client and objects, netifd's calls**: a thin layer over libubus; that a call
  may fail is an outcome of `DataConnection` and `Service`.
* **Events**: a map of handlers filled before the modem is opened; the events are
  steps of the modules that emit them.
* **Utilities** but for `decodeBcd`: strings, logging, JSON, blobs, conversions.
* **LuCI**: views and forms, without state that the daemon depends on; the polling of
  its API client is in `ApiResults`.
* **Discovery's output** (`UsbDiscover::discover`): prints what is plugged in.
* The mode in which the database mirrors the modem's storage, and
  `SmsDb::deleteSms` with its count of the capacity: nothing selects or calls them.

In the modelled components: the text of commands, the values of timeouts (a wait may
end at any time), opening the tty, logging, data races inside standard containers
(the vector of handlers of `AtChannel.cpp:66`, the map of deferred results), signal
strength, operators and modes of the network (but for the disconnection before a search), the switching of the radio, and time
that goes backwards (timers use `CLOCK_REALTIME`, `Core/Utils.cpp:33`).

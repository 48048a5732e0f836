--------------------------- MODULE BaseAtModemProofs ---------------------------
(***************************************************************************)
(* Theorems about BaseAtModem for every number of pings and every bound:   *)
(* the modem's code uses the channel as AtChannel has it, so what is       *)
(* proved of the channel, AtCommands included, holds of the modem; and the *)
(* self test neither overruns its pings nor ends with the channel running  *)
(* when none of them was answered.                                         *)
(***************************************************************************)
EXTENDS BaseAtModem, AtChannelProofs

-----------------------------------------------------------------------------
(* The channel as the modem uses it. *)

\* What the thread of the Loop, the reader and the modem do is a step of the channel,
\* or leaves it alone.
LEMMA MStepRefines == [MNext]_allVars => [Next]_vars
<1> SUFFICES ASSUME [MNext]_allVars
             PROVE  [Next]_vars
  OBVIOUS
<1>0. t \in Senders /\ t \in Stoppers /\ Ping \in Requests
  BY LoopAssumption DEF t
<1>1. CASE Open
  BY <1>1 DEF Open, Next
<1>2. CASE RunCommand
  BY <1>0, <1>2 DEF RunCommand, Next, Sender
<1>3. CASE CommandReturns
  BY <1>0, <1>3 DEF CommandReturns, Next, Sender
<1>4. CASE SendPing
  BY <1>0, <1>4 DEF SendPing, Next, Sender
<1>5. CASE PingsFailed
  BY <1>0, <1>5 DEF PingsFailed, Next
<1>6. CASE IoBrokenTimer
  BY <1>0, <1>6 DEF IoBrokenTimer, Next
<1>7. CASE StopReturned
  BY <1>0, <1>7 DEF StopReturned, Next, Sender
<1>8. CASE HandleIoBroken
  BY <1>8 DEF HandleIoBroken
<1>9. CASE Close
  BY <1>0, <1>9 DEF Close, Next
<1>10. CASE ReaderStep
  BY <1>10 DEF ReaderStep, Next
<1>11. CASE ChannelStep
  BY <1>0, <1>11 DEF ChannelStep, Next, Sender
<1>12. CASE Signal
  BY <1>12 DEF Signal
<1>13. CASE ModemHangs
  BY <1>13 DEF ModemHangs
<1>14. CASE ModemStep
  BY <1>14 DEF ModemStep, Next, Modem
<1>15. CASE UNCHANGED allVars
  BY <1>15 DEF allVars
<1>. QED
  BY <1>1, <1>2, <1>3, <1>4, <1>5, <1>6, <1>7, <1>8, <1>9, <1>10, <1>11, <1>12, <1>13, <1>14,
     <1>15 DEF MNext

\* BaseAtModem uses the channel as AtChannel has it: every command, ping, stop and
\* join of the Loop and every step of the reader is one of the channel's.
LEMMA UsesChannel == MSpec => Spec
<1>1. MInit => Init
  BY DEF MInit
<1>. QED
  BY <1>1, MStepRefines, PTL DEF MSpec, Spec

\* The commands of the modem's code are calls of AtCommands: one at a time, each told
\* what the modem said to it until one is given up.
THEOREM UsesCommands == MSpec => ImplementsCommands
  BY UsesChannel, Implements, PTL

\* The reader thread has ended, or has never begun, whenever the channel is not started:
\* after stop() has returned no handler runs on the reader's thread.
ReaderGone == ~ started => rpc \in {"off", "exit"}

\* Why: the reader ends only when m_stop is set, and is joined before the channel
\* counts as stopped.
ReaderEnds ==
  /\ stop \in BOOLEAN /\ started \in BOOLEAN
  /\ rpc = "exit" => stop
  /\ ~ started => (rpc = "off" /\ ~ stop) \/ (rpc = "exit" /\ stop)

\* Every step of the channel keeps it.
LEMMA ReaderEndsStep == ReaderEnds /\ [Next]_vars => ReaderEnds'
<1> SUFFICES ASSUME ReaderEnds, [Next]_vars
             PROVE  ReaderEnds'
  OBVIOUS
<1>1. CASE Start
  <2>1. started' = TRUE /\ stop' = stop /\ ~ stop
    BY <1>1, Zenon DEF Start
  <2>2. rpc' = "top"
    BY <1>1 DEF Start
  <2>3. started' \in BOOLEAN /\ started' /\ stop' \in BOOLEAN
    BY <2>1, Zenon DEF ReaderEnds
  <2>. QED
    BY <2>2, <2>3 DEF ReaderEnds
<1>2. CASE \E s \in Stoppers : Stop(s)
  <2>1. started /\ started' = started /\ stop' = TRUE /\ rpc' = rpc
    BY <1>2, Zenon DEF Stop, readerVars
  <2>. QED
    BY <2>1, Zenon DEF ReaderEnds
<1>3. CASE \E s \in Senders : Join(s)
  <2>1. started' = FALSE /\ stop' = stop /\ rpc' = rpc /\ rpc = "exit"
    BY <1>3, Zenon DEF Join, readerVars
  <2>. QED
    BY <2>1, Zenon DEF ReaderEnds
<1>4. CASE ReaderTop \/ PollData \/ PollWoken
  <2>1. /\ started' = started /\ stop' = stop
    BY <1>4, Zenon DEF ReaderTop, PollData, PollWoken, chanVars
  <2>2. rpc \in {"top", "poll"}
    BY <1>4 DEF ReaderTop, PollData, PollWoken
  <2>3. (stop /\ rpc' = "exit") \/ rpc' \in {"poll", "line", "top"}
    <3>1. CASE stop
      BY <1>4, <3>1 DEF ReaderTop, PollData, PollWoken
    <3>2. CASE ~ stop
      BY <1>4, <3>2 DEF ReaderTop, PollData, PollWoken
    <3>. QED
      BY <3>1, <3>2
  <2>4. started
    <3>1. rpc # "off" /\ rpc # "exit"
      BY <2>2
    <3>. QED
      BY <3>1, Zenon DEF ReaderEnds
  <2>5. rpc' = "exit" => stop
    BY <2>3
  <2>. QED
    BY <2>1, <2>4, <2>5, Zenon DEF ReaderEnds
<1>5. CASE PollBroken
  <2>1. started' = started /\ stop' = TRUE
    BY <1>5, Zenon DEF PollBroken
  <2>2. rpc = "poll"
    BY <1>5 DEF PollBroken
  <2>3. rpc # "off" /\ rpc # "exit"
    BY <2>2
  <2>. QED
    BY <2>1, <2>3, Zenon DEF ReaderEnds
<1>6. CASE \/ BrokenTest \/ FinishBroken \/ PostBroken \/ CallBroken \/ TestLine \/ CollectLine
           \/ FinishLine \/ ClearCurrent \/ PostLine \/ ClearAgain
  <2>1. started' = started /\ stop' = stop
    BY <1>6, Zenon DEF BrokenTest, FinishBroken, PostBroken, CallBroken, TestLine, CollectLine,
       FinishLine, ClearCurrent, PostLine, ClearAgain, chanVars
  <2>2. rpc \notin {"off", "exit"} /\ rpc' \notin {"off", "exit"}
    BY <1>6 DEF BrokenTest, FinishBroken, PostBroken, CallBroken, TestLine, CollectLine,
       FinishLine, ClearCurrent, PostLine, ClearAgain, NextLine
  <2>3. rpc # "off" /\ rpc # "exit" /\ rpc' # "exit"
    BY <2>2
  <2>. QED
    BY <2>1, <2>3, Zenon DEF ReaderEnds
<1>7. CASE \/ \E s \in Senders : \/ \E q \in Requests : Call(s, q)
                                 \/ Lock(s) \/ Publish(s) \/ Write(s) \/ WriteFails(s) \/ WaitPosted(s)
                                 \/ WaitTimesOut(s) \/ Release(s) \/ Return(s)
           \/ Modem \/ UNCHANGED vars
  <2>1. started' = started /\ stop' = stop /\ rpc' = rpc
    BY <1>7, Zenon DEF Call, Lock, Publish, Write, WriteFails, WaitPosted, WaitTimesOut, Release,
       Return, Modem, ModemAnswers, UnsolicitedLine, DeviceLost, chanVars, readerVars, vars
  <2>. QED
    BY <2>1, Zenon DEF ReaderEnds
<1>. QED
  BY <1>1, <1>2, <1>3, <1>4, <1>5, <1>6, <1>7 DEF Next, Sender, Reader

\* The reader is gone whenever the channel of the modem is not started, so that close()
\* frees nothing that a thread still uses.
THEOREM ClosedAfterReader == MSpec => []ReaderGone
<1>1. MInit => ReaderEnds
  <2> SUFFICES ASSUME MInit
               PROVE  ReaderEnds
    OBVIOUS
  <2>1. stop = FALSE /\ started = FALSE
    BY Zenon DEF MInit, Init
  <2>2. rpc = "off"
    BY DEF MInit, Init
  <2>. QED
    BY <2>1, <2>2 DEF ReaderEnds
<1>2. ReaderEnds => ReaderGone
  BY DEF ReaderEnds, ReaderGone
<1>. QED
  BY <1>1, <1>2, ReaderEndsStep, MStepRefines, PTL DEF MSpec

-----------------------------------------------------------------------------
(* The self test. *)

\* A ping on its way has a try of its own, and the channel is stopped when none is left.
SelfTestInv ==
  /\ pc \in [Senders -> SenderPCs]
  /\ MTypeOK
  /\ selfTest /\ pc[t] \notin {"idle", "join"} => tries > 0
  /\ selfTest /\ pc[t] = "join" => tries = 0
  /\ ~ selfTest => tries = 0

\* The thread of the Loop keeps account of its pings in every step.
LEMMA SelfTestStep == SelfTestInv /\ [MNext]_allVars => SelfTestInv'
<1> SUFFICES ASSUME SelfTestInv, [MNext]_allVars
             PROVE  SelfTestInv'
  OBVIOUS
<1>0. /\ t \in Senders /\ Senders = {t} /\ PingTries \in Nat \ {0} /\ MaxWork \in Nat
  BY LoopAssumption DEF t
<1>1. /\ pc \in [Senders -> SenderPCs] /\ tries \in 0 .. PingTries /\ work \in 0 .. MaxWork
      /\ \A s \in Senders : s = t
  BY <1>0 DEF SelfTestInv, MTypeOK
<1>b. /\ selfTest \in BOOLEAN /\ timer \in BOOLEAN /\ reported \in BOOLEAN
      /\ shutdown \in BOOLEAN /\ hung \in BOOLEAN
  BY Zenon DEF SelfTestInv, MTypeOK
<1>p. \A v \in SenderPCs : [pc EXCEPT ![t] = v] \in [Senders -> SenderPCs] /\ [pc EXCEPT ![t] = v][t] = v
  BY <1>0, <1>1
<1>c. {"idle", "lock", "publish", "write", "wait", "done", "returned", "closed", "join"} \subseteq SenderPCs
  BY DEF SenderPCs
<1> HIDE DEF t
\* A command of the modem begins, when no self test runs.
<1>2. CASE RunCommand
  <2>1. /\ ~ selfTest /\ (selfTest' <=> selfTest) /\ selfTest' = selfTest /\ timer' = timer
        /\ reported' = reported /\ shutdown' = shutdown /\ hung' = hung
    BY <1>2, Zenon DEF RunCommand
  <2>2. tries' = tries /\ work < MaxWork /\ work' = work + 1
    BY <1>2 DEF RunCommand
  <2>3. pc' = [pc EXCEPT ![t] = "closed"] \/ pc' = [pc EXCEPT ![t] = "lock"]
    BY <1>2 DEF RunCommand, Call
  <2>4. pc' \in [Senders -> SenderPCs]
    BY <1>c, <1>p, <2>3
  <2>5. MTypeOK'
    <3>1. work' \in 0 .. MaxWork /\ tries' \in 0 .. PingTries
      BY <1>0, <1>1, <2>2
    <3>. QED
      BY <1>b, <2>1, <3>1, Zenon DEF MTypeOK
  <2>. QED
    BY <2>1, <2>2, <2>4, <2>5, Zenon DEF SelfTestInv
\* A command ends: a ping that failed had a try, and one that succeeded ends the test.
<1>3. CASE CommandReturns
  <2>1. pc[t] \in {"returned", "closed"} /\ pc' = [pc EXCEPT ![t] = "idle"] /\ work' = work
    BY <1>3 DEF CommandReturns, Return
  <2>2. pc' \in [Senders -> SenderPCs] /\ pc'[t] \in {"idle", "join"} /\ pc'[t] # "join"
    BY <1>c, <1>p, <2>1
  <2>3. timer' = timer /\ reported' = reported /\ shutdown' = shutdown /\ hung' = hung
    BY <1>3, Zenon DEF CommandReturns
  <2>4. \/ selfTest' = FALSE /\ tries' = 0
        \/ selfTest /\ selfTest' = TRUE /\ tries' = tries - 1
        \/ selfTest' = TRUE /\ tries' = PingTries
        \/ selfTest' = selfTest /\ tries' = tries
    BY <1>3, Zenon DEF CommandReturns
  <2>5. pc[t] \notin {"idle", "join"}
    BY <2>1
  <2>6. selfTest => tries > 0
    BY <2>5, Zenon DEF SelfTestInv
  <2>7. tries' \in 0 .. PingTries
    BY <1>0, <1>1, <2>4, <2>6
  <2>8. selfTest' \in BOOLEAN /\ (~ selfTest' => tries' = 0)
    BY <1>b, <2>4, Zenon DEF SelfTestInv
  <2>9. MTypeOK'
    BY <1>1, <1>b, <2>1, <2>3, <2>7, <2>8, Zenon DEF MTypeOK
  <2>. QED
    BY <2>2, <2>8, <2>9, Zenon DEF SelfTestInv
\* A ping begins, with a try left.
<1>4. CASE SendPing
  <2>1. UNCHANGED modemObjVars
    BY <1>4, Zenon DEF SendPing
  <2>2. tries > 0 /\ tries' = tries /\ work' = work
    BY <1>4 DEF SendPing, modemObjVars
  <2>3. /\ selfTest /\ selfTest' = selfTest /\ timer' = timer
        /\ reported' = reported /\ shutdown' = shutdown /\ hung' = hung
    BY <1>4, Zenon DEF SendPing, modemObjVars
  <2>4. pc' = [pc EXCEPT ![t] = "closed"] \/ pc' = [pc EXCEPT ![t] = "lock"]
    BY <1>4 DEF SendPing, Call
  <2>5. pc' \in [Senders -> SenderPCs] /\ pc'[t] \in {"closed", "lock"}
    BY <1>c, <1>p, <2>4
  <2>6. pc'[t] # "join"
    BY <2>5
  <2>7. tries' > 0
    BY <2>2
  <2>8. MTypeOK'
    BY <1>1, <1>b, <2>2, <2>3, Zenon DEF MTypeOK
  <2>. QED
    BY <2>3, <2>5, <2>6, <2>7, <2>8, Zenon DEF SelfTestInv
\* The Loop begins to wait for the reader: all pings have failed, or none is to be sent.
<1>5. CASE PingsFailed \/ Close \/ (IoBrokenTimer /\ Stop(t))
  <2>1. pc' = [pc EXCEPT ![t] = "join"] /\ tries' = tries /\ work' = work
    BY <1>5 DEF PingsFailed, Close, IoBrokenTimer, Stop, modemObjVars
  <2>2. pc' \in [Senders -> SenderPCs] /\ pc'[t] \in {"idle", "join"}
    BY <1>c, <1>p, <2>1
  <2>3. /\ selfTest' = selfTest /\ shutdown' = shutdown /\ hung' = hung
        /\ timer' \in {timer, FALSE} /\ reported' \in {reported, TRUE}
    BY <1>5, Zenon DEF PingsFailed, Close, IoBrokenTimer, modemObjVars
  <2>4. selfTest => tries = 0
    BY <1>5, Zenon DEF PingsFailed, Close, IoBrokenTimer
  <2>5. MTypeOK'
    BY <1>1, <1>b, <2>1, <2>3, Zenon DEF MTypeOK
  <2>. QED
    BY <2>1, <2>2, <2>3, <2>4, <2>5, Zenon DEF SelfTestInv
\* stop() returns, and with it the self test.
<1>6. CASE StopReturned
  <2>1. pc[t] = "join" /\ pc' = [pc EXCEPT ![t] = "idle"] /\ tries' = tries /\ work' = work
    BY <1>6 DEF StopReturned, Join
  <2>2. pc' \in [Senders -> SenderPCs]
    BY <1>c, <1>p, <2>1
  <2>3. /\ selfTest' = FALSE /\ timer' = timer /\ reported' = reported
        /\ shutdown' = shutdown /\ hung' = hung
    BY <1>6, Zenon DEF StopReturned
  <2>4. tries = 0
    BY <1>b, <2>1, Zenon DEF SelfTestInv
  <2>5. MTypeOK'
    BY <1>1, <1>b, <2>1, <2>3, Zenon DEF MTypeOK
  <2>. QED
    BY <2>1, <2>2, <2>3, <2>4, <2>5, Zenon DEF SelfTestInv
\* A command goes on: the thread is in sendCommand() before and after.
<1>7. CASE ChannelStep
  <2>1. UNCHANGED modemObjVars
    BY <1>7, Zenon DEF ChannelStep
  <2>2. /\ pc[t] \in {"lock", "publish", "write", "wait", "done"}
        /\ \E v \in {"publish", "write", "wait", "done", "returned"} : pc' = [pc EXCEPT ![t] = v]
    BY <1>7 DEF ChannelStep, Lock, Publish, Write, WriteFails, WaitPosted, WaitTimesOut, Release
  <2>3. /\ pc' \in [Senders -> SenderPCs] /\ pc'[t] \in {"publish", "write", "wait", "done", "returned"}
    BY <1>c, <1>p, <2>2
  <2>4. pc[t] \notin {"idle", "join"} /\ pc'[t] # "join" /\ pc'[t] \notin {"idle", "join"}
    BY <2>2, <2>3
  <2>5. /\ selfTest' = selfTest /\ timer' = timer /\ tries' = tries /\ work' = work
        /\ reported' = reported /\ shutdown' = shutdown /\ hung' = hung
    BY <2>1, Zenon DEF modemObjVars
  <2>6. MTypeOK'
    BY <1>1, <1>b, <2>5, Zenon DEF MTypeOK
  <2>. QED
    BY <2>3, <2>4, <2>5, <2>6, Zenon DEF SelfTestInv
\* The other steps leave the thread of the Loop and its pings alone.
<1>8. CASE \/ Open \/ HandleIoBroken \/ ReaderStep \/ Signal \/ ModemHangs \/ ModemStep
           \/ (IoBrokenTimer /\ UNCHANGED vars) \/ UNCHANGED allVars
  <2>1. pc' = pc /\ tries' = tries /\ work' = work
    <3>1. Reader => pc' = pc
      BY DEF Reader, ReaderTop, PollData, PollWoken, PollBroken, BrokenTest, FinishBroken,
         PostBroken, CallBroken, TestLine, CollectLine, FinishLine, ClearCurrent, PostLine,
         ClearAgain, callerVars
    <3>. QED
      BY <1>8, <3>1, Zenon DEF Open, Start, HandleIoBroken, ReaderStep, Signal, ModemHangs,
         ModemStep, ModemAnswers, DeviceLost, IoBrokenTimer, callerVars, vars, allVars,
         modemObjVars
  <2>2. selfTest' = selfTest
    BY <1>8, Zenon DEF Open, HandleIoBroken, ReaderStep, Signal, ModemHangs,
       ModemStep, IoBrokenTimer, vars, allVars, modemObjVars
  <2>3. /\ timer' \in {timer, FALSE, timer \/ rpc = "brokenCall"}
        /\ reported' \in {reported, TRUE}
        /\ shutdown' \in {shutdown, TRUE} /\ hung' \in {hung, TRUE}
    BY <1>8, Zenon DEF Open, HandleIoBroken, ReaderStep, Signal, ModemHangs,
       ModemStep, IoBrokenTimer, vars, allVars, modemObjVars
  <2>4. MTypeOK'
    BY <1>1, <1>b, <2>1, <2>2, <2>3, Zenon DEF MTypeOK
  <2>. QED
    BY <2>1, <2>2, <2>4, Zenon DEF SelfTestInv
<1>. QED
  BY <1>2, <1>3, <1>4, <1>5, <1>6, <1>7, <1>8, Zenon DEF MNext, IoBrokenTimer

\* The modem is opened with no self test and no ping.
LEMMA SelfTestStarts == MInit => SelfTestInv
<1> SUFFICES ASSUME MInit
             PROVE  SelfTestInv
  OBVIOUS
<1>1. /\ selfTest = FALSE /\ timer = FALSE /\ reported = FALSE /\ shutdown = FALSE
      /\ hung = FALSE
  BY Zenon DEF MInit
<1>2. tries = 0 /\ work = 0 /\ pc = [s \in Senders |-> "idle"]
  BY DEF MInit, Init
<1>3. tries \in 0 .. PingTries /\ work \in 0 .. MaxWork /\ pc \in [Senders -> SenderPCs]
  BY <1>2, LoopAssumption DEF SenderPCs
<1>4. MTypeOK
  BY <1>1, <1>3, Zenon DEF MTypeOK
<1>. QED
  BY <1>1, <1>2, <1>3, <1>4, Zenon DEF SelfTestInv

\* The variables of the modem have their types: a self test never sends more than
\* its pings.
THEOREM ModemTypes == MSpec => []MTypeOK
<1>1. SelfTestInv => MTypeOK
  BY DEF SelfTestInv
<1>. QED
  BY <1>1, SelfTestStarts, SelfTestStep, PTL DEF MSpec

\* A self test ends with an answer to a ping, or with the channel stopped.
THEOREM StopsWhenSilent == MSpec => SelfTestStops
<1>1. SelfTestInv /\ [MNext]_allVars =>
        [selfTest /\ ~ selfTest' => tries' = 0 /\ (result[t] = "SUCCESS" \/ ~ started')]_allVars
  <2> SUFFICES ASSUME SelfTestInv, MNext, selfTest, ~ selfTest'
               PROVE  tries' = 0 /\ (result[t] = "SUCCESS" \/ ~ started')
    OBVIOUS
  <2>1. CASE CommandReturns
    BY <2>1, Zenon DEF CommandReturns
  <2>2. CASE StopReturned
    <3>1. pc[t] = "join" /\ tries' = tries
      BY <2>2 DEF StopReturned, Join
    <3>2. ~ started'
      BY <2>2, Zenon DEF StopReturned, Join
    <3>. QED
      BY <3>1, <3>2, Zenon DEF SelfTestInv
  <2>3. CASE \/ Open \/ RunCommand \/ SendPing \/ PingsFailed \/ IoBrokenTimer \/ HandleIoBroken
             \/ Close \/ ReaderStep \/ ChannelStep \/ Signal \/ ModemHangs \/ ModemStep
    <3>1. selfTest' = selfTest
      BY <2>3, Zenon DEF Open, RunCommand, SendPing, PingsFailed, IoBrokenTimer, HandleIoBroken,
         Close, ReaderStep, ChannelStep, Signal, ModemHangs, ModemStep, modemObjVars
    <3>. QED
      BY <3>1, Zenon
  <2>. QED
    BY <2>1, <2>2, <2>3 DEF MNext
<1>. QED
  BY <1>1, SelfTestStarts, SelfTestStep, PTL DEF MSpec, SelfTestStops

-----------------------------------------------------------------------------
(* The loss of the device. *)

\* A loss that the reader has reported to the modem's code is not dropped: the timer is
\* due, or EvIoBroken has been emitted.
LossKept == ioBroken => timer \/ reported

\* The loss of the device that the reader has found is known to the Loop, whatever
\* self test or command runs there.
THEOREM LossIsKept == MSpec => []LossKept
<1>1. MInit => LossKept
  BY Zenon DEF MInit, Init, LossKept
<1>2. LossKept /\ [MNext]_allVars => LossKept'
  <2> SUFFICES ASSUME LossKept, [MNext]_allVars
               PROVE  LossKept'
    OBVIOUS
  <2>1. CASE ReaderStep
    <3>1. CASE CallBroken
      <4>1. rpc = "brokenCall"
        BY <3>1, Zenon DEF CallBroken
      <4>2. timer'
        BY <2>1, <4>1, Zenon DEF ReaderStep
      <4>. QED
        BY <4>2, Zenon DEF LossKept
    <3>2. CASE ~ CallBroken
      <4>1. ioBroken' = ioBroken
        BY <2>1, <3>2, Zenon DEF ReaderStep, Reader, ReaderTop, PollData, PollWoken, PollBroken,
           BrokenTest, FinishBroken, PostBroken, TestLine, CollectLine, FinishLine,
           ClearCurrent, PostLine, ClearAgain
      <4>2. (timer => timer') /\ reported' = reported
        BY <2>1, Zenon DEF ReaderStep
      <4>. QED
        BY <4>1, <4>2, Zenon DEF LossKept
    <3>. QED
      BY <3>1, <3>2
  <2>2. CASE PingsFailed \/ IoBrokenTimer
    <3>1. reported' = TRUE
      BY <2>2, Zenon DEF PingsFailed, IoBrokenTimer
    <3>. QED
      BY <3>1, Zenon DEF LossKept
  <2>3. CASE \/ Open \/ RunCommand \/ SendPing \/ CommandReturns \/ StopReturned \/ HandleIoBroken
             \/ Close \/ ChannelStep \/ Signal \/ ModemHangs \/ ModemStep \/ UNCHANGED allVars
    <3>1. timer' = timer /\ reported' = reported
      BY <2>3, Zenon DEF Open, RunCommand, SendPing, CommandReturns, StopReturned, HandleIoBroken,
         Close, ChannelStep, Signal, ModemHangs, ModemStep, modemObjVars, allVars
    <3>2. ioBroken' = ioBroken
      BY <2>3, Zenon DEF Open, Start, RunCommand, Call, SendPing, CommandReturns, Return,
         StopReturned, Join, HandleIoBroken, Close, Stop, ChannelStep, Lock, Publish, Write,
         WriteFails, WaitPosted, WaitTimesOut, Release, Signal, ModemHangs, ModemStep, ModemAnswers,
         DeviceLost, readerVars, vars, allVars
    <3>. QED
      BY <3>1, <3>2, Zenon DEF LossKept
  <2>. QED
    BY <2>1, <2>2, <2>3 DEF MNext
<1>. QED
  BY <1>1, <1>2, PTL DEF MSpec

=============================================================================

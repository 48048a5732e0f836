--------------------------- MODULE AtChannelProofs ---------------------------
(***************************************************************************)
(* Theorems about AtChannel for every set of threads, of requests and of   *)
(* prefixes and for every bound.  First of its state: type correctness,    *)
(* mutual exclusion with the ownership of m_curr_response, that the reader *)
(* dereferences a null pointer only after a caller has given up, and that  *)
(* the loss of the device ends every wait.  Then of the answers: the final *)
(* line of an answer ends the wait for it; a call returns the verdict and  *)
(* all the lines that the modem gave on it, and nothing it cannot claim;   *)
(* and the channel implements AtCommands.                                  *)
(***************************************************************************)
EXTENDS AtChannel, SequenceTheorems, TLAPS

-----------------------------------------------------------------------------
(* Type correctness. *)

\* What types need besides: a line is at hand while the reader handles one, and
\* a call that is on its way has a serial number.
Busy == /\ rpc \in {"line", "collect", "finish", "clear", "post", "reclear"} => chunk # <<>>
        /\ \A s \in Senders : pc[s] \in {"lock", "publish", "write", "wait", "done"} => cmd[s].id \in Ids

TypeInv == TypeOK /\ Busy

\* The lines and commands taken from a queue are of its type, whatever the type.
LEMMA SeqFacts ==
  ASSUME NEW S, NEW q \in Seq(S), q # <<>>
  PROVE  Head(q) \in S /\ Tail(q) \in Seq(S)
OBVIOUS

\* A queue that is cut in two.
LEMMA CutFacts ==
  ASSUME NEW S, NEW q \in Seq(S), NEW n \in 0 .. Len(q)
  PROVE  SubSeq(q, 1, n) \in Seq(S) /\ SubSeq(q, n + 1, Len(q)) \in Seq(S)
OBVIOUS

\* The requests of the channel's own making: none, and a DEFAULT one without prefix.
LEMMA RequestFacts ==
  /\ NoRequest \in Request
  /\ NoCall \in [id : 0 .. MaxCmds, req : Request]
  /\ \A q \in Request : [q EXCEPT !.type = "NO_RESPONSE"] \in Request
<1>1. NoRequest \in Request
  BY DEF NoRequest, Request, Types
<1>2. NoCall \in [id : 0 .. MaxCmds, req : Request]
  BY <1>1, ConstantsAssumption DEF NoCall
<1>3. \A q \in Request : [q EXCEPT !.type = "NO_RESPONSE"] \in Request
  BY DEF Request, Types
<1> QED BY <1>1, <1>2, <1>3

\* What the caller and the reader store in a Response keeps it one.
LEMMA ResponseFacts ==
  /\ NoResponse \in Response
  /\ \A r \in Response, e \in Errors : [r EXCEPT !.error = e] \in Response
  /\ \A r \in Response, l \in Line : [r EXCEPT !.lines = Append(@, l)] \in Response
<1>1. NoResponse \in Response
  BY DEF NoResponse, Response, Errors
<1>2. \A r \in Response, e \in Errors : [r EXCEPT !.error = e] \in Response
  BY DEF Response
<1>3. \A r \in Response, l \in Line : [r EXCEPT !.lines = Append(@, l)] \in Response
  BY DEF Response
<1> QED BY <1>1, <1>2, <1>3

\* The final line of an answer.
LEMMA FinalLine ==
  ASSUME NEW i \in Ids
  PROVE  \A k \in {"OK", "ERROR", "CONNECT", "NO CARRIER"} :
           [from |-> i, kind |-> k, prefix |-> None] \in Line
<1>1. i \in 0 .. MaxCmds
  BY ConstantsAssumption DEF Ids
<1> QED BY <1>1, Zenon DEF Line

\* A line of text that continues an answer.
LEMMA TextLine ==
  ASSUME NEW i \in Ids
  PROVE  [from |-> i, kind |-> "text", prefix |-> None] \in Line
<1>1. i \in 0 .. MaxCmds
  BY ConstantsAssumption DEF Ids
<1> QED BY <1>1 DEF Line

\* A line with a prefix, of an answer or unsolicited.
LEMMA PrefixLine ==
  ASSUME NEW i \in 0 .. MaxCmds, NEW p \in Prefixes \cup {None}
  PROVE  [from |-> i, kind |-> "prefix", prefix |-> p] \in Line
BY DEF Line

\* The lines before the final line of an answer are lines.
LEMMA BodyFacts ==
  ASSUME NEW c \in [id : Ids, req : Request], NEW body \in Bodies(c)
  PROVE  body \in Seq(Line)
<1> DEFINE asked == [from |-> c.id, kind |-> "prefix", prefix |-> c.req.prefix]
           digit == [from |-> c.id, kind |-> "digit", prefix |-> None]
           text  == [from |-> c.id, kind |-> "text", prefix |-> None]
<1>1. c.req.prefix \in Prefixes \cup {None} /\ c.id \in Ids /\ c.id \in 0 .. MaxCmds
  BY ConstantsAssumption DEF Request, Ids
<1>2. asked \in Line
  BY <1>1, PrefixLine
<1>3. text \in Line
  BY <1>1, TextLine
<1>d. digit \in Line
  BY <1>1 DEF Line
<1>4. body \in {<<>>, <<asked>>, <<digit>>, <<text>>, <<asked, text>>}
  BY DEF Bodies
<1> HIDE DEF asked, digit, text
<1>5. <<asked>> \in Seq(Line) /\ <<digit>> \in Seq(Line) /\ <<text>> \in Seq(Line)
  BY <1>2, <1>3, <1>d
<1>6. <<asked, text>> \in Seq(Line)
  <2>1. <<asked, text>> = Append(<<asked>>, text)
    OBVIOUS
  <2> QED BY <1>3, <1>5, <2>1
<1>7. <<>> \in Seq(Line)
  OBVIOUS
<1> QED BY <1>4, <1>5, <1>6, <1>7, Zenon

\* Every variable starts with its type.
LEMMA InitTypes == Init => TypeInv
<1> SUFFICES ASSUME Init PROVE TypeInv
  OBVIOUS
<1> USE DEF Init
<1>1. CallerTypeOK
  <2>1. pc \in [Senders -> SenderPCs] /\ result \in [Senders -> Errors \cup {None}]
    BY DEF SenderPCs
  <2>2. cmd \in [Senders -> [id : 0 .. MaxCmds, req : Request]]
    BY RequestFacts
  <2>3. resp \in [Senders -> Response]
    BY ResponseFacts
  <2>4. issued \in 0 .. MaxCmds
    BY ConstantsAssumption
  <2> QED BY <2>1, <2>2, <2>3, <2>4, Zenon DEF CallerTypeOK
<1>2. ChanTypeOK
  <2>1. sem \in Nat
    OBVIOUS
  <2> QED BY <2>1, RequestFacts, Zenon DEF ChanTypeOK
<1>3. ReaderTypeOK
  <2>1. rpc \in ReaderPCs /\ chunk \in Seq(Line)
    BY DEF ReaderPCs
  <2> QED BY <2>1, Zenon DEF ReaderTypeOK
<1>4. PortTypeOK
  <2>1. tx \in Seq([id : Ids, req : Request]) /\ rx \in Seq(Line)
    OBVIOUS
  <2> QED BY <2>1, Zenon DEF PortTypeOK
<1>5. HistoryTypeOK
  <2>1. NoAnswer \in [verdict : {"SUCCESS", "ERROR", "TIMEOUT"}, lines : Seq(Line)]
    BY DEF NoAnswer
  <2> QED BY <2>1, ConstantsAssumption DEF HistoryTypeOK
<1>6. Busy
  BY DEF Busy
<1> QED
  BY <1>1, <1>2, <1>3, <1>4, <1>5, <1>6 DEF TypeInv, TypeOK

\* Every step of a caller, of the reader and of the modem keeps the types.
LEMMA StepTypes == TypeInv /\ [Next]_vars => TypeInv'
<1> SUFFICES ASSUME TypeInv, [Next]_vars PROVE TypeInv'
  OBVIOUS
<1>t. CallerTypeOK /\ ChanTypeOK /\ ReaderTypeOK /\ PortTypeOK /\ HistoryTypeOK /\ Busy
  BY DEF TypeInv, TypeOK
<1>1. ASSUME NEW s \in Senders, NEW q \in Requests, Call(s, q) PROVE TypeInv'
  <2>1. q \in Request /\ [q EXCEPT !.type = "NO_RESPONSE"] \in Request
    BY RequestFacts, ConstantsAssumption
  <2>2. issued + 1 \in Ids
    BY <1>1, <1>t, ConstantsAssumption DEF Call, CallerTypeOK, Ids
  <2>3. issued + 1 \in 0 .. MaxCmds
    BY <2>2, ConstantsAssumption DEF Ids
  <2>4. CallerTypeOK'
    <3>1. cmd' \in [Senders -> [id : 0 .. MaxCmds, req : Request]]
      BY <1>1, <1>t, <2>1, <2>3 DEF Call, CallerTypeOK
    <3>2. result' \in [Senders -> Errors \cup {None}]
      <4>1. CASE stop
        <5>1. PICK e \in Errors : result' = [result EXCEPT ![s] = e]
          BY <1>1, <4>1 DEF Call, Errors
        <5> QED BY <5>1, <1>t DEF CallerTypeOK
      <4>2. CASE ~ stop
        BY <1>1, <4>2, <1>t DEF Call, CallerTypeOK
      <4> QED BY <4>1, <4>2
    <3>3. pc' \in [Senders -> SenderPCs]
      BY <1>1, <1>t DEF Call, CallerTypeOK, SenderPCs
    <3>4. issued' \in 0 .. MaxCmds
      BY <1>1, <2>3 DEF Call
    <3> QED BY <1>1, <1>t, <3>1, <3>2, <3>3, <3>4 DEF Call, CallerTypeOK
  <2>5. ChanTypeOK' /\ ReaderTypeOK' /\ PortTypeOK' /\ HistoryTypeOK'
    BY <1>1, <1>t
       DEF Call, ChanTypeOK, ReaderTypeOK, PortTypeOK, HistoryTypeOK,
           chanVars, readerVars, portVars, historyVars
  <2>6. Busy'
    BY <1>1, <1>t, ConstantsAssumption DEF Call, Busy, readerVars, CallerTypeOK, Ids
  <2> QED BY <2>4, <2>5, <2>6 DEF TypeInv, TypeOK
<1>2. ASSUME NEW s \in Senders, Lock(s) PROVE TypeInv'
  <2>1. CallerTypeOK'
    BY <1>2, <1>t, ResponseFacts DEF Lock, CallerTypeOK, SenderPCs
  <2>2. ChanTypeOK'
    BY <1>2, <1>t DEF Lock, ChanTypeOK, CallerTypeOK
  <2>3. ReaderTypeOK' /\ PortTypeOK' /\ HistoryTypeOK'
    BY <1>2, <1>t
       DEF Lock, ReaderTypeOK, PortTypeOK, HistoryTypeOK, readerVars, portVars, historyVars
  <2>4. Busy'
    BY <1>2, <1>t DEF Lock, Busy, readerVars, CallerTypeOK
  <2> QED BY <2>1, <2>2, <2>3, <2>4 DEF TypeInv, TypeOK
<1>2p. ASSUME NEW s \in Senders, Publish(s) PROVE TypeInv'
  <2>1. CallerTypeOK'
    BY <1>2p, <1>t DEF Publish, CallerTypeOK, SenderPCs
  <2>2. ChanTypeOK'
    BY <1>2p, <1>t DEF Publish, ChanTypeOK, CallerTypeOK
  <2>3. ReaderTypeOK' /\ PortTypeOK' /\ HistoryTypeOK'
    BY <1>2p, <1>t
       DEF Publish, ReaderTypeOK, PortTypeOK, HistoryTypeOK, readerVars, portVars, historyVars
  <2>4. Busy'
    BY <1>2p, <1>t DEF Publish, Busy, readerVars, CallerTypeOK
  <2> QED BY <2>1, <2>2, <2>3, <2>4 DEF TypeInv, TypeOK
<1>3. ASSUME NEW s \in Senders, Write(s) PROVE TypeInv'
  <2>1. cmd[s] \in [id : Ids, req : Request]
    BY <1>3, <1>t DEF Write, CallerTypeOK, Busy
  <2>2. CallerTypeOK'
    BY <1>3, <1>t DEF Write, CallerTypeOK, SenderPCs
  <2>3. PortTypeOK'
    BY <1>3, <1>t, <2>1 DEF Write, PortTypeOK
  <2>4. ChanTypeOK' /\ ReaderTypeOK' /\ HistoryTypeOK'
    BY <1>3, <1>t
       DEF Write, ChanTypeOK, ReaderTypeOK, HistoryTypeOK, chanVars, readerVars, historyVars
  <2>5. Busy'
    BY <1>3, <1>t DEF Write, Busy, readerVars, CallerTypeOK
  <2> QED BY <2>2, <2>3, <2>4, <2>5 DEF TypeInv, TypeOK
<1>4. ASSUME NEW s \in Senders, WriteFails(s) PROVE TypeInv'
  <2>1. CallerTypeOK'
    BY <1>4, <1>t, ResponseFacts DEF WriteFails, CallerTypeOK, SenderPCs, Errors
  <2>2. PortTypeOK'
    BY <1>4, <1>t DEF WriteFails, PortTypeOK
  <2>3. ChanTypeOK' /\ ReaderTypeOK' /\ HistoryTypeOK'
    BY <1>4, <1>t
       DEF WriteFails, ChanTypeOK, ReaderTypeOK, HistoryTypeOK,
           chanVars, readerVars, historyVars
  <2>4. Busy'
    BY <1>4, <1>t DEF WriteFails, Busy, readerVars, CallerTypeOK
  <2> QED BY <2>1, <2>2, <2>3, <2>4 DEF TypeInv, TypeOK
<1>5. ASSUME NEW s \in Senders, WaitPosted(s) PROVE TypeInv'
  <2>1. CallerTypeOK'
    BY <1>5, <1>t DEF WaitPosted, CallerTypeOK, SenderPCs
  <2>2. ChanTypeOK'
    BY <1>5, <1>t DEF WaitPosted, ChanTypeOK
  <2>3. ReaderTypeOK' /\ PortTypeOK' /\ HistoryTypeOK'
    BY <1>5, <1>t
       DEF WaitPosted, ReaderTypeOK, PortTypeOK, HistoryTypeOK,
           readerVars, portVars, historyVars
  <2>4. Busy'
    BY <1>5, <1>t DEF WaitPosted, Busy, readerVars, CallerTypeOK
  <2> QED BY <2>1, <2>2, <2>3, <2>4 DEF TypeInv, TypeOK
<1>6. ASSUME NEW s \in Senders, WaitTimesOut(s) PROVE TypeInv'
  <2>1. CallerTypeOK'
    BY <1>6, <1>t, ResponseFacts DEF WaitTimesOut, CallerTypeOK, SenderPCs, Errors
  <2>2. ChanTypeOK' /\ ReaderTypeOK' /\ PortTypeOK' /\ HistoryTypeOK'
    BY <1>6, <1>t
       DEF WaitTimesOut, ChanTypeOK, ReaderTypeOK, PortTypeOK, HistoryTypeOK,
           chanVars, readerVars, portVars, historyVars
  <2>3. Busy'
    BY <1>6, <1>t DEF WaitTimesOut, Busy, readerVars, CallerTypeOK
  <2> QED BY <2>1, <2>2, <2>3 DEF TypeInv, TypeOK
<1>7. ASSUME NEW s \in Senders, Release(s) PROVE TypeInv'
  <2>1. CallerTypeOK'
    BY <1>7, <1>t, ResponseFacts, RequestFacts
       DEF Release, CallerTypeOK, SenderPCs, Response
  <2>2. ChanTypeOK'
    BY <1>7, <1>t DEF Release, ChanTypeOK
  <2>3. ReaderTypeOK' /\ PortTypeOK' /\ HistoryTypeOK'
    BY <1>7, <1>t
       DEF Release, ReaderTypeOK, PortTypeOK, HistoryTypeOK, readerVars, portVars, historyVars
  <2>4. Busy'
    BY <1>7, <1>t DEF Release, Busy, readerVars, CallerTypeOK
  <2> QED BY <2>1, <2>2, <2>3, <2>4 DEF TypeInv, TypeOK
<1>8. ASSUME NEW s \in Senders, Return(s) PROVE TypeInv'
  <2>1. CallerTypeOK'
    BY <1>8, <1>t DEF Return, CallerTypeOK, SenderPCs
  <2>2. ChanTypeOK' /\ ReaderTypeOK' /\ PortTypeOK' /\ HistoryTypeOK'
    BY <1>8, <1>t
       DEF Return, ChanTypeOK, ReaderTypeOK, PortTypeOK, HistoryTypeOK,
           chanVars, readerVars, portVars, historyVars
  <2>3. Busy'
    BY <1>8, <1>t DEF Return, Busy, readerVars, CallerTypeOK
  <2> QED BY <2>1, <2>2, <2>3 DEF TypeInv, TypeOK
<1>9. ASSUME NEW s \in Senders, Join(s) PROVE TypeInv'
  <2>1. CallerTypeOK'
    BY <1>9, <1>t DEF Join, CallerTypeOK, SenderPCs
  <2>2. ChanTypeOK'
    BY <1>9, <1>t DEF Join, ChanTypeOK
  <2>3. ReaderTypeOK' /\ PortTypeOK' /\ HistoryTypeOK'
    BY <1>9, <1>t
       DEF Join, ReaderTypeOK, PortTypeOK, HistoryTypeOK, readerVars, portVars, historyVars
  <2>4. Busy'
    BY <1>9, <1>t DEF Join, Busy, readerVars, CallerTypeOK
  <2> QED BY <2>1, <2>2, <2>3, <2>4 DEF TypeInv, TypeOK
<1>10. ASSUME NEW s \in Stoppers, Stop(s) PROVE TypeInv'
  <2>0. s \in Senders
    BY ConstantsAssumption
  <2>1. CallerTypeOK'
    BY <1>10, <1>t, <2>0 DEF Stop, CallerTypeOK, SenderPCs
  <2>2. ChanTypeOK'
    BY <1>10, <1>t, <2>0 DEF Stop, ChanTypeOK
  <2>3. PortTypeOK'
    BY <1>10, <1>t, <2>0 DEF Stop, PortTypeOK
  <2>4. ReaderTypeOK' /\ HistoryTypeOK'
    BY <1>10, <1>t DEF Stop, ReaderTypeOK, HistoryTypeOK, readerVars, historyVars
  <2>5. Busy'
    BY <1>10, <1>t, <2>0 DEF Stop, Busy, readerVars, CallerTypeOK
  <2> QED BY <2>1, <2>2, <2>3, <2>4, <2>5 DEF TypeInv, TypeOK
<1>11. ASSUME Start PROVE TypeInv'
  <2>1. ChanTypeOK'
    BY <1>11, <1>t DEF Start, ChanTypeOK
  <2>2. ReaderTypeOK'
    BY <1>11, <1>t DEF Start, ReaderTypeOK, ReaderPCs
  <2>3. CallerTypeOK' /\ PortTypeOK' /\ HistoryTypeOK'
    BY <1>11, <1>t
       DEF Start, CallerTypeOK, PortTypeOK, HistoryTypeOK, callerVars, portVars, historyVars
  <2>4. Busy'
    BY <1>11, <1>t DEF Start, Busy, callerVars
  <2> QED BY <2>1, <2>2, <2>3, <2>4 DEF TypeInv, TypeOK
<1>12. ASSUME ReaderTop PROVE TypeInv'
  <2>1. ReaderTypeOK'
    BY <1>12, <1>t DEF ReaderTop, ReaderTypeOK, ReaderPCs
  <2>2. CallerTypeOK' /\ ChanTypeOK' /\ PortTypeOK' /\ HistoryTypeOK'
    BY <1>12, <1>t
       DEF ReaderTop, CallerTypeOK, ChanTypeOK, PortTypeOK, HistoryTypeOK,
           callerVars, chanVars, portVars, historyVars
  <2>3. Busy'
    BY <1>12, <1>t DEF ReaderTop, Busy, callerVars
  <2> QED BY <2>1, <2>2, <2>3 DEF TypeInv, TypeOK
<1>13. ASSUME PollData PROVE TypeInv'
  <2>1. ReaderTypeOK'
    BY <1>13, <1>t DEF PollData, ReaderTypeOK, ReaderPCs, PortTypeOK
  <2>2. PortTypeOK'
    BY <1>13, <1>t DEF PollData, PortTypeOK
  <2>3. CallerTypeOK' /\ ChanTypeOK' /\ HistoryTypeOK'
    BY <1>13, <1>t
       DEF PollData, CallerTypeOK, ChanTypeOK, HistoryTypeOK,
           callerVars, chanVars, historyVars
  <2>4. Busy'
    <3>1. chunk' # <<>> \/ rpc' = "exit"
      <4>1. PICK n \in 1 .. Len(rx) : chunk' = IF stop THEN <<>> ELSE SubSeq(rx, 1, n)
        BY <1>13 DEF PollData
      <4>2. Len(SubSeq(rx, 1, n)) = n /\ n > 0
        BY <4>1, <1>t DEF PortTypeOK
      <4> QED BY <1>13, <4>1, <4>2 DEF PollData
    <3> QED BY <1>13, <1>t, <3>1 DEF PollData, Busy, callerVars
  <2> QED BY <2>1, <2>2, <2>3, <2>4 DEF TypeInv, TypeOK
<1>14. ASSUME PollWoken PROVE TypeInv'
  <2>1. ReaderTypeOK'
    BY <1>14, <1>t DEF PollWoken, ReaderTypeOK, ReaderPCs
  <2>2. PortTypeOK'
    BY <1>14, <1>t DEF PollWoken, PortTypeOK
  <2>3. CallerTypeOK' /\ ChanTypeOK' /\ HistoryTypeOK'
    BY <1>14, <1>t
       DEF PollWoken, CallerTypeOK, ChanTypeOK, HistoryTypeOK,
           callerVars, chanVars, historyVars
  <2>4. Busy'
    BY <1>14, <1>t DEF PollWoken, Busy, callerVars
  <2> QED BY <2>1, <2>2, <2>3, <2>4 DEF TypeInv, TypeOK
<1>15. ASSUME PollBroken PROVE TypeInv'
  <2>1. ReaderTypeOK'
    BY <1>15, <1>t DEF PollBroken, ReaderTypeOK, ReaderPCs
  <2>2. ChanTypeOK'
    BY <1>15, <1>t DEF PollBroken, ChanTypeOK
  <2>3. CallerTypeOK' /\ PortTypeOK' /\ HistoryTypeOK'
    BY <1>15, <1>t
       DEF PollBroken, CallerTypeOK, PortTypeOK, HistoryTypeOK,
           callerVars, portVars, historyVars
  <2>4. Busy'
    BY <1>15, <1>t DEF PollBroken, Busy, callerVars
  <2> QED BY <2>1, <2>2, <2>3, <2>4 DEF TypeInv, TypeOK
<1>16. ASSUME BrokenTest PROVE TypeInv'
  <2>1. ReaderTypeOK'
    BY <1>16, <1>t DEF BrokenTest, ReaderTypeOK, ReaderPCs, ChanTypeOK
  <2>2. CallerTypeOK' /\ ChanTypeOK' /\ PortTypeOK' /\ HistoryTypeOK'
    BY <1>16, <1>t
       DEF BrokenTest, CallerTypeOK, ChanTypeOK, PortTypeOK, HistoryTypeOK,
           callerVars, chanVars, portVars, historyVars
  <2>3. Busy'
    BY <1>16, <1>t DEF BrokenTest, Busy, callerVars
  <2> QED BY <2>1, <2>2, <2>3 DEF TypeInv, TypeOK
<1>17. ASSUME FinishBroken PROVE TypeInv'
  <2>1. Deref \ {None} \subseteq Senders
    BY <1>t DEF Deref, ReaderTypeOK, ChanTypeOK
  <2>2. CallerTypeOK'
    <3>1. resp' \in [Senders -> Response]
      <4>1. CASE UNCHANGED resp
        BY <4>1, <1>t DEF CallerTypeOK
      <4>2. ASSUME NEW p \in Deref \ {None}, NEW e \in Errors,
                   resp' = [resp EXCEPT ![p].error = e]
            PROVE  resp' \in [Senders -> Response]
        <5>1. p \in Senders /\ resp[p] \in Response
          BY <2>1, <1>t DEF CallerTypeOK
        <5>2. [resp[p] EXCEPT !.error = e] \in Response
          BY <5>1, ResponseFacts
        <5> QED BY <4>2, <5>1, <5>2, <1>t DEF CallerTypeOK
      <4> QED BY <1>17, <4>1, <4>2 DEF FinishBroken, Errors
    <3> QED BY <1>17, <1>t, <3>1 DEF FinishBroken, CallerTypeOK
  <2>3. ReaderTypeOK'
    BY <1>17, <1>t DEF FinishBroken, ReaderTypeOK, ReaderPCs
  <2>4. ChanTypeOK' /\ PortTypeOK' /\ HistoryTypeOK'
    BY <1>17, <1>t
       DEF FinishBroken, ChanTypeOK, PortTypeOK, HistoryTypeOK,
           chanVars, portVars, historyVars
  <2>5. Busy'
    BY <1>17, <1>t DEF FinishBroken, Busy
  <2> QED BY <2>2, <2>3, <2>4, <2>5 DEF TypeInv, TypeOK
<1>18. ASSUME PostBroken PROVE TypeInv'
  <2>1. ChanTypeOK'
    BY <1>18, <1>t DEF PostBroken, ChanTypeOK
  <2>2. ReaderTypeOK'
    BY <1>18, <1>t DEF PostBroken, ReaderTypeOK, ReaderPCs
  <2>3. CallerTypeOK' /\ PortTypeOK' /\ HistoryTypeOK'
    BY <1>18, <1>t
       DEF PostBroken, CallerTypeOK, PortTypeOK, HistoryTypeOK,
           callerVars, portVars, historyVars
  <2>4. Busy'
    BY <1>18, <1>t DEF PostBroken, Busy, callerVars
  <2> QED BY <2>1, <2>2, <2>3, <2>4 DEF TypeInv, TypeOK
<1>19. ASSUME CallBroken PROVE TypeInv'
  <2>1. ReaderTypeOK'
    BY <1>19, <1>t DEF CallBroken, ReaderTypeOK, ReaderPCs
  <2>2. CallerTypeOK' /\ ChanTypeOK' /\ PortTypeOK' /\ HistoryTypeOK'
    BY <1>19, <1>t
       DEF CallBroken, CallerTypeOK, ChanTypeOK, PortTypeOK, HistoryTypeOK,
           callerVars, chanVars, portVars, historyVars
  <2>3. Busy'
    BY <1>19, <1>t DEF CallBroken, Busy, callerVars
  <2> QED BY <2>1, <2>2, <2>3 DEF TypeInv, TypeOK
<1>20. ASSUME TestLine PROVE TypeInv'
  <2>1. ReaderTypeOK'
    <3>1. /\ rpc' \in {"top", "line", "finish", "collect"}
          /\ chunk' \in {chunk, Tail(chunk)}
          /\ rptr' \in {rptr, curr}
          /\ ioBroken' = ioBroken /\ orphaned' = orphaned
      BY <1>20 DEF TestLine, NextLine
    <3>2. chunk \in Seq(Line) /\ chunk # <<>>
      BY <1>20, <1>t DEF TestLine, ReaderTypeOK, Busy
    <3>3. chunk \in Seq(Line) /\ Tail(chunk) \in Seq(Line)
      BY <3>2, SeqFacts
    <3>4. rptr \in Senders \cup {None} /\ curr \in Senders \cup {None}
      BY <1>t DEF ReaderTypeOK, ChanTypeOK
    <3> QED BY <3>1, <3>3, <3>4, <1>t DEF ReaderTypeOK, ReaderPCs
  <2>2. CallerTypeOK' /\ ChanTypeOK' /\ PortTypeOK'
    BY <1>20, <1>t
       DEF TestLine, CallerTypeOK, ChanTypeOK, PortTypeOK, callerVars, chanVars, portVars
  <2>4. HistoryTypeOK'
    <3>1. UNCHANGED <<urcs, answer>> /\ misjudged \subseteq 0 .. MaxCmds
      BY <1>20, <1>t DEF TestLine, HistoryTypeOK
    <3>2. CASE misjudged' = misjudged
      BY <3>1, <3>2, <1>t DEF HistoryTypeOK
    <3>3. CASE curr # None /\ misjudged' \subseteq misjudged \cup {cmd[curr].id}
      <4>1. cmd[curr].id \in 0 .. MaxCmds
        BY <3>3, <1>t DEF CallerTypeOK, ChanTypeOK
      <4> QED BY <3>1, <3>3, <4>1, <1>t DEF HistoryTypeOK
    <3> QED BY <1>20, <3>2, <3>3 DEF TestLine
  <2>3. Busy'
    BY <1>20, <1>t DEF TestLine, Busy, callerVars, NextLine
  <2> QED BY <2>1, <2>2, <2>3, <2>4 DEF TypeInv, TypeOK
<1>21. ASSUME CollectLine PROVE TypeInv'
  <2>1. Head(chunk) \in Line
    BY <1>21, <1>t DEF CollectLine, ReaderTypeOK, Busy
  <2>2. Deref \ {None} \subseteq Senders
    BY <1>t DEF Deref, ReaderTypeOK, ChanTypeOK
  <2>3. CallerTypeOK'
    <3>1. resp' \in [Senders -> Response]
      <4>1. CASE UNCHANGED resp
        BY <4>1, <1>t DEF CallerTypeOK
      <4>2. ASSUME NEW p \in Deref \ {None},
                   resp' = [resp EXCEPT ![p].lines = Append(@, Head(chunk))]
            PROVE  resp' \in [Senders -> Response]
        <5>1. p \in Senders /\ resp[p] \in Response
          BY <2>2, <1>t DEF CallerTypeOK
        <5>2. [resp[p] EXCEPT !.lines = Append(@, Head(chunk))] \in Response
          BY <5>1, <2>1, ResponseFacts
        <5> QED BY <4>2, <5>1, <5>2, <1>t DEF CallerTypeOK
      <4> QED BY <1>21, <4>1, <4>2 DEF CollectLine
    <3> QED BY <1>21, <1>t, <3>1 DEF CollectLine, CallerTypeOK
  <2>4. ReaderTypeOK'
    <3>1. Tail(chunk) \in Seq(Line) /\ chunk \in Seq(Line)
      BY <1>21, <1>t, SeqFacts DEF CollectLine, ReaderTypeOK, Busy
    <3>2. rpc' \in {"crashed", "top", "line"} /\ chunk' \in {chunk, Tail(chunk)}
      BY <1>21 DEF CollectLine, NextLine
    <3>3. UNCHANGED <<orphaned, rptr, ioBroken>>
      BY <1>21 DEF CollectLine
    <3> QED BY <1>t, <3>1, <3>2, <3>3 DEF ReaderTypeOK, ReaderPCs
  <2>5. ChanTypeOK' /\ PortTypeOK' /\ HistoryTypeOK'
    BY <1>21, <1>t
       DEF CollectLine, ChanTypeOK, PortTypeOK, HistoryTypeOK, chanVars, portVars, historyVars
  <2>6. Busy'
    BY <1>21, <1>t DEF CollectLine, Busy, NextLine
  <2> QED BY <2>3, <2>4, <2>5, <2>6 DEF TypeInv, TypeOK
<1>22. ASSUME FinishLine PROVE TypeInv'
  <2>1. Deref \ {None} \subseteq Senders
    BY <1>t DEF Deref, ReaderTypeOK, ChanTypeOK
  <2>2. CallerTypeOK'
    <3>1. resp' \in [Senders -> Response]
      <4>1. CASE UNCHANGED resp
        BY <4>1, <1>t DEF CallerTypeOK
      <4>2. ASSUME NEW p \in Deref \ {None}, NEW e \in Errors,
                   resp' = [resp EXCEPT ![p].error = e]
            PROVE  resp' \in [Senders -> Response]
        <5>1. p \in Senders /\ resp[p] \in Response
          BY <2>1, <1>t DEF CallerTypeOK
        <5>2. [resp[p] EXCEPT !.error = e] \in Response
          BY <5>1, ResponseFacts
        <5> QED BY <4>2, <5>1, <5>2, <1>t DEF CallerTypeOK
      <4> QED BY <1>22, <4>1, <4>2 DEF FinishLine, Errors
    <3> QED BY <1>22, <1>t, <3>1 DEF FinishLine, CallerTypeOK
  <2>3. ReaderTypeOK'
    BY <1>22, <1>t DEF FinishLine, ReaderTypeOK, ReaderPCs
  <2>4. ChanTypeOK' /\ PortTypeOK' /\ HistoryTypeOK'
    BY <1>22, <1>t
       DEF FinishLine, ChanTypeOK, PortTypeOK, HistoryTypeOK, chanVars, portVars, historyVars
  <2>5. Busy'
    BY <1>22, <1>t DEF FinishLine, Busy
  <2> QED BY <2>2, <2>3, <2>4, <2>5 DEF TypeInv, TypeOK
<1>23. ASSUME ClearCurrent PROVE TypeInv'
  <2>1. ChanTypeOK'
    BY <1>23, <1>t DEF ClearCurrent, ChanTypeOK
  <2>2. ReaderTypeOK'
    BY <1>23, <1>t DEF ClearCurrent, ReaderTypeOK, ReaderPCs
  <2>3. CallerTypeOK' /\ PortTypeOK' /\ HistoryTypeOK'
    BY <1>23, <1>t
       DEF ClearCurrent, CallerTypeOK, PortTypeOK, HistoryTypeOK,
           callerVars, portVars, historyVars
  <2>4. Busy'
    BY <1>23, <1>t DEF ClearCurrent, Busy, callerVars
  <2> QED BY <2>1, <2>2, <2>3, <2>4 DEF TypeInv, TypeOK
<1>24. ASSUME PostLine PROVE TypeInv'
  <2>1. ChanTypeOK'
    BY <1>24, <1>t DEF PostLine, ChanTypeOK
  <2>2. ReaderTypeOK'
    BY <1>24, <1>t DEF PostLine, ReaderTypeOK, NextLine, Busy, ReaderPCs
  <2>3. CallerTypeOK' /\ PortTypeOK' /\ HistoryTypeOK'
    BY <1>24, <1>t
       DEF PostLine, CallerTypeOK, PortTypeOK, HistoryTypeOK,
           callerVars, portVars, historyVars
  <2>4. Busy'
    BY <1>24, <1>t DEF PostLine, Busy, callerVars, NextLine
  <2> QED BY <2>1, <2>2, <2>3, <2>4 DEF TypeInv, TypeOK
<1>25. ASSUME ClearAgain PROVE TypeInv'
  <2>1. ChanTypeOK'
    BY <1>25, <1>t DEF ClearAgain, ChanTypeOK
  <2>2. ReaderTypeOK'
    BY <1>25, <1>t DEF ClearAgain, ReaderTypeOK, NextLine, Busy, ReaderPCs
  <2>3. CallerTypeOK' /\ PortTypeOK' /\ HistoryTypeOK'
    BY <1>25, <1>t
       DEF ClearAgain, CallerTypeOK, PortTypeOK, HistoryTypeOK,
           callerVars, portVars, historyVars
  <2>4. Busy'
    BY <1>25, <1>t DEF ClearAgain, Busy, callerVars, NextLine
  <2> QED BY <2>1, <2>2, <2>3, <2>4 DEF TypeInv, TypeOK
<1>26. ASSUME ModemAnswers PROVE TypeInv'
  <2>0. /\ Head(tx) \in [id : Ids, req : Request]
        /\ Tail(tx) \in Seq([id : Ids, req : Request])
    <3>1. tx \in Seq([id : Ids, req : Request]) /\ tx # <<>>
      BY <1>26, <1>t, Zenon DEF ModemAnswers, PortTypeOK
    <3> QED BY <3>1, SeqFacts
  <2>1. PICK body \in Bodies(Head(tx)), verdict \in {"SUCCESS", "ERROR"} :
          /\ \E final \in Finals(Head(tx).req, verdict) :
               rx' = Append(rx \o body, [from |-> Head(tx).id, kind |-> final, prefix |-> None])
          /\ answer' = [answer EXCEPT ![Head(tx).id] =
                          [verdict |-> verdict, lines |-> body]]
    BY <1>26, Zenon DEF ModemAnswers
  <2>b. body \in Seq(Line)
    BY <2>0, <2>1, BodyFacts
  <2>2. PortTypeOK'
    <3>p. PICK final \in Finals(Head(tx).req, verdict) :
            rx' = Append(rx \o body, [from |-> Head(tx).id, kind |-> final, prefix |-> None])
      BY <2>1
    <3>f. final \in {"OK", "ERROR", "CONNECT", "NO CARRIER"}
      BY DEF Finals
    <3>1. [from |-> Head(tx).id, kind |-> final, prefix |-> None] \in Line
      BY <2>0, <3>f, FinalLine
    <3>2. rx' \in Seq(Line)
      BY <2>b, <3>p, <3>1, <1>t DEF PortTypeOK
    <3> QED BY <1>26, <1>t, <2>0, <3>2 DEF ModemAnswers, PortTypeOK
  <2>3. HistoryTypeOK'
    BY <1>26, <1>t, <2>0, <2>1, <2>b DEF ModemAnswers, HistoryTypeOK
  <2>4. CallerTypeOK' /\ ChanTypeOK' /\ ReaderTypeOK'
    BY <1>26, <1>t
       DEF ModemAnswers, CallerTypeOK, ChanTypeOK, ReaderTypeOK,
           callerVars, chanVars, readerVars
  <2>5. Busy'
    BY <1>26, <1>t DEF ModemAnswers, Busy, callerVars, readerVars
  <2> QED BY <2>2, <2>3, <2>4, <2>5 DEF TypeInv, TypeOK
<1>27. ASSUME UnsolicitedLine PROVE TypeInv'
  <2>1. PICK p \in Prefixes, n \in 0 .. Len(rx) :
          rx' = SubSeq(rx, 1, n) \o <<[from |-> 0, kind |-> "prefix", prefix |-> p]>>
                                 \o SubSeq(rx, n + 1, Len(rx))
    BY <1>27 DEF UnsolicitedLine
  <2>2. PortTypeOK'
    <3>1. [from |-> 0, kind |-> "prefix", prefix |-> p] \in Line
      <4>1. 0 \in 0 .. MaxCmds
        BY ConstantsAssumption
      <4>2. p \in Prefixes \cup {None}
        OBVIOUS
      <4> QED BY <4>1, <4>2, PrefixLine, Zenon
    <3>r. rx \in Seq(Line)
      BY <1>t DEF PortTypeOK
    <3>2. SubSeq(rx, 1, n) \in Seq(Line) /\ SubSeq(rx, n + 1, Len(rx)) \in Seq(Line)
      BY <3>r, CutFacts
    <3>3. rx' \in Seq(Line)
      BY <2>1, <3>1, <3>2
    <3> QED BY <1>27, <1>t, <3>3 DEF UnsolicitedLine, PortTypeOK
  <2>3. HistoryTypeOK'
    BY <1>27, <1>t, ConstantsAssumption DEF UnsolicitedLine, HistoryTypeOK
  <2>4. CallerTypeOK' /\ ChanTypeOK' /\ ReaderTypeOK'
    BY <1>27, <1>t
       DEF UnsolicitedLine, CallerTypeOK, ChanTypeOK, ReaderTypeOK,
           callerVars, chanVars, readerVars
  <2>5. Busy'
    BY <1>27, <1>t DEF UnsolicitedLine, Busy, callerVars, readerVars
  <2> QED BY <2>2, <2>3, <2>4, <2>5 DEF TypeInv, TypeOK
<1>28. ASSUME DeviceLost PROVE TypeInv'
  <2>1. PortTypeOK'
    BY <1>28, <1>t DEF DeviceLost, PortTypeOK
  <2>2. CallerTypeOK' /\ ChanTypeOK' /\ ReaderTypeOK' /\ HistoryTypeOK'
    BY <1>28, <1>t
       DEF DeviceLost, CallerTypeOK, ChanTypeOK, ReaderTypeOK, HistoryTypeOK,
           callerVars, chanVars, readerVars, historyVars
  <2>3. Busy'
    BY <1>28, <1>t DEF DeviceLost, Busy, callerVars, readerVars
  <2> QED BY <2>1, <2>2, <2>3 DEF TypeInv, TypeOK
<1>29. CASE UNCHANGED vars
  BY <1>29, <1>t DEF TypeInv, TypeOK, CallerTypeOK, ChanTypeOK, ReaderTypeOK, PortTypeOK,
     HistoryTypeOK, Busy, vars, callerVars, chanVars, readerVars, portVars, historyVars
<1> QED
  BY <1>1, <1>2, <1>2p, <1>3, <1>4, <1>5, <1>6, <1>7, <1>8, <1>9, <1>10, <1>11, <1>12, <1>13, <1>14, <1>15, <1>16, <1>17, <1>18, <1>19, <1>20, <1>21, <1>22, <1>23, <1>24, <1>25, <1>26, <1>27, <1>28, <1>29
     DEF Next, Sender, Reader, Modem

\* Type correctness: in every reachable state each variable has its type; in
\* particular no caller takes the semaphore below zero, a command in the port has
\* a serial number, and a response holds lines.
THEOREM TypeCorrect == Spec => []TypeOK
<1>1. TypeInv => TypeOK
  BY DEF TypeInv
<1> QED
  BY <1>1, InitTypes, StepTypes, PTL DEF Spec

-----------------------------------------------------------------------------
(* One caller at a time, and the response of no other.                     *)

\* No thread starts inside sendCommand().
LEMMA InitOwned == Init => CurrOwned
BY ConstantsAssumption DEF Init, CurrOwned, Inside

\* at_cmd_mutex orders the callers, and the reader only ever resets the pointer.
LEMMA StepOwned == TypeInv /\ CurrOwned /\ [Next]_vars => CurrOwned'
<1> SUFFICES ASSUME TypeInv, CurrOwned, [Next]_vars PROVE CurrOwned'
  OBVIOUS
<1>t. pc \in [Senders -> SenderPCs]
  BY DEF TypeInv, TypeOK, CallerTypeOK
<1>1. ASSUME NEW s \in Senders, NEW q \in Requests, Call(s, q) PROVE CurrOwned'
  BY <1>1, <1>t, ConstantsAssumption DEF Call, CurrOwned, Inside, chanVars
<1>2. ASSUME NEW s \in Senders, Lock(s) PROVE CurrOwned'
  BY <1>2, <1>t, ConstantsAssumption DEF Lock, CurrOwned, Inside
<1>2p. ASSUME NEW s \in Senders, Publish(s) PROVE CurrOwned'
  BY <1>2p, <1>t, ConstantsAssumption DEF Publish, CurrOwned, Inside
<1>3. ASSUME NEW s \in Senders, Write(s) PROVE CurrOwned'
  BY <1>3, <1>t, ConstantsAssumption DEF Write, CurrOwned, Inside, chanVars
<1>4. ASSUME NEW s \in Senders, WriteFails(s) PROVE CurrOwned'
  BY <1>4, <1>t, ConstantsAssumption DEF WriteFails, CurrOwned, Inside, chanVars
<1>5. ASSUME NEW s \in Senders, WaitPosted(s) PROVE CurrOwned'
  BY <1>5, <1>t, ConstantsAssumption DEF WaitPosted, CurrOwned, Inside
<1>6. ASSUME NEW s \in Senders, WaitTimesOut(s) PROVE CurrOwned'
  BY <1>6, <1>t, ConstantsAssumption DEF WaitTimesOut, CurrOwned, Inside, chanVars
<1>7. ASSUME NEW s \in Senders, Release(s) PROVE CurrOwned'
  BY <1>7, <1>t, ConstantsAssumption DEF Release, CurrOwned, Inside
<1>8. ASSUME NEW s \in Senders, Return(s) PROVE CurrOwned'
  BY <1>8, <1>t, ConstantsAssumption DEF Return, CurrOwned, Inside, chanVars
<1>9. ASSUME NEW s \in Senders, Join(s) PROVE CurrOwned'
  BY <1>9, <1>t, ConstantsAssumption DEF Join, CurrOwned, Inside
<1>10. ASSUME NEW s \in Stoppers, Stop(s) PROVE CurrOwned'
  BY <1>10, <1>t, ConstantsAssumption DEF Stop, CurrOwned, Inside
<1>11. ASSUME ClearCurrent PROVE CurrOwned'
  BY <1>11 DEF ClearCurrent, CurrOwned, Inside, callerVars
<1>12. ASSUME ClearAgain PROVE CurrOwned'
  BY <1>12 DEF ClearAgain, CurrOwned, Inside, callerVars
\* The other steps of the reader, of start() and of the modem touch none of the three.
<1>13. ASSUME UNCHANGED <<pc, mutex, curr>> PROVE CurrOwned'
  BY <1>13 DEF CurrOwned, Inside
<1>14. ASSUME \/ Start \/ ReaderTop \/ PollData \/ PollWoken \/ PollBroken \/ BrokenTest
             \/ FinishBroken \/ PostBroken \/ CallBroken \/ TestLine \/ CollectLine
             \/ FinishLine \/ PostLine \/ ModemAnswers \/ UnsolicitedLine \/ DeviceLost \/ UNCHANGED vars
      PROVE  UNCHANGED <<pc, mutex, curr>>
  BY <1>14
     DEF Start, ReaderTop, PollData, PollWoken, PollBroken, BrokenTest,
         FinishBroken, PostBroken, CallBroken, TestLine, CollectLine,
         FinishLine, PostLine, ModemAnswers, UnsolicitedLine, DeviceLost,
         vars, callerVars, chanVars
<1> QED
  BY <1>1, <1>2, <1>2p, <1>3, <1>4, <1>5, <1>6, <1>7, <1>8, <1>9, <1>10, <1>11, <1>12, <1>13, <1>14
     DEF Next, Sender, Reader, Modem

\* sendCommand() admits one thread at a time, and m_curr_response is null or
\* points to the Response of the thread inside: never to one that has returned.
THEOREM OneCaller == Spec => []CurrOwned
BY InitTypes, StepTypes, InitOwned, StepOwned, PTL DEF Spec

-----------------------------------------------------------------------------
(* The reader and the pointer that it tests and then uses.                 *)

Waits(s) == pc[s] \in {"publish", "write", "wait"}

\* Until a caller gives up, the response that the reader has tested stays the
\* current one until the reader itself resets it; the reset, the post and the
\* wait follow each other, so that a token belongs to the call that waits.
HandOver ==
  ~ disturbed =>
    /\ curr # None => Waits(curr) /\ sem = 0
    /\ rpc \in {"collect", "finish", "clear", "brokenFinish", "brokenClear"} =>
         curr # None /\ rptr = curr
    /\ rpc \in {"post", "brokenPost"} =>
         curr = None /\ sem = 0 /\ \E s \in Senders : Waits(s)
    /\ sem > 0 => sem = 1 /\ curr = None /\ \E s \in Senders : Waits(s)
    /\ Alive

NoCrashInv == TypeInv /\ CurrOwned /\ HandOver

\* Initially no response is current and no token is there.
LEMMA InitHandOver == Init => HandOver
BY DEF Init, HandOver, Alive

\* No step of a caller that does not give up takes the pointer from the reader.
LEMMA StepHandOver == NoCrashInv /\ [Next]_vars => HandOver'
<1> SUFFICES ASSUME NoCrashInv, [Next]_vars, ~ disturbed' PROVE HandOver'
  BY DEF HandOver
<1>t. /\ pc \in [Senders -> SenderPCs] /\ sem \in Nat
      /\ curr \in Senders \cup {None} /\ mutex \in Senders \cup {None}
  BY DEF NoCrashInv, TypeInv, TypeOK, CallerTypeOK, ChanTypeOK
<1>o. CurrOwned /\ HandOver
  BY DEF NoCrashInv
<1>1. ASSUME NEW s \in Senders, NEW q \in Requests, Call(s, q) PROVE HandOver'
  BY <1>1, <1>t, <1>o, ConstantsAssumption
     DEF Call, HandOver, Waits, CurrOwned, Inside, Alive, chanVars, readerVars
<1>2. ASSUME NEW s \in Senders, Lock(s) PROVE HandOver'
  BY <1>2, <1>t, <1>o, ConstantsAssumption
     DEF Lock, HandOver, Waits, CurrOwned, Inside, Alive, chanVars, readerVars
<1>2p. ASSUME NEW s \in Senders, Publish(s) PROVE HandOver'
  BY <1>2p, <1>t, <1>o, ConstantsAssumption
     DEF Publish, HandOver, Waits, CurrOwned, Inside, Alive, readerVars
<1>3. ASSUME NEW s \in Senders, Write(s) PROVE HandOver'
  BY <1>3, <1>t, <1>o, ConstantsAssumption
     DEF Write, HandOver, Waits, CurrOwned, Inside, Alive, chanVars, readerVars
<1>4. ASSUME NEW s \in Senders, WaitPosted(s) PROVE HandOver'
  BY <1>4, <1>t, <1>o, ConstantsAssumption
     DEF WaitPosted, HandOver, Waits, CurrOwned, Inside, Alive, chanVars, readerVars
<1>5. ASSUME NEW s \in Senders, Release(s) PROVE HandOver'
  BY <1>5, <1>t, <1>o, ConstantsAssumption
     DEF Release, HandOver, Waits, CurrOwned, Inside, Alive, chanVars, readerVars
<1>6. ASSUME NEW s \in Senders, Return(s) PROVE HandOver'
  BY <1>6, <1>t, <1>o, ConstantsAssumption
     DEF Return, HandOver, Waits, CurrOwned, Inside, Alive, chanVars, readerVars
<1>7. ASSUME NEW s \in Senders, Join(s) PROVE HandOver'
  BY <1>7, <1>t, <1>o, ConstantsAssumption
     DEF Join, HandOver, Waits, CurrOwned, Inside, Alive, chanVars, readerVars
<1>8. ASSUME NEW s \in Stoppers, Stop(s) PROVE HandOver'
  BY <1>8, <1>t, <1>o, ConstantsAssumption
     DEF Stop, HandOver, Waits, CurrOwned, Inside, Alive, chanVars, readerVars
\* A caller that gives up is what the claim excludes.
<1>9. ASSUME NEW s \in Senders, WriteFails(s) \/ WaitTimesOut(s) PROVE HandOver'
  BY <1>9 DEF WriteFails, WaitTimesOut
<1>10. ASSUME Start PROVE HandOver'
  BY <1>10, <1>t, <1>o, ConstantsAssumption
     DEF Start, HandOver, Waits, CurrOwned, Inside, Alive, callerVars, chanVars
<1>11. ASSUME ReaderTop PROVE HandOver'
  BY <1>11, <1>t, <1>o, ConstantsAssumption
     DEF ReaderTop, HandOver, Waits, CurrOwned, Inside, Alive, callerVars, chanVars
<1>12. ASSUME PollData PROVE HandOver'
  BY <1>12, <1>t, <1>o, ConstantsAssumption
     DEF PollData, HandOver, Waits, CurrOwned, Inside, Alive, callerVars, chanVars
<1>13. ASSUME PollWoken PROVE HandOver'
  BY <1>13, <1>t, <1>o, ConstantsAssumption
     DEF PollWoken, HandOver, Waits, CurrOwned, Inside, Alive, callerVars, chanVars
<1>14. ASSUME PollBroken PROVE HandOver'
  BY <1>14, <1>t, <1>o, ConstantsAssumption
     DEF PollBroken, HandOver, Waits, CurrOwned, Inside, Alive, callerVars, chanVars
<1>15. ASSUME BrokenTest PROVE HandOver'
  BY <1>15, <1>t, <1>o, ConstantsAssumption
     DEF BrokenTest, HandOver, Waits, CurrOwned, Inside, Alive, callerVars, chanVars
<1>16. ASSUME FinishBroken PROVE HandOver'
  BY <1>16, <1>t, <1>o, ConstantsAssumption
     DEF FinishBroken, Deref, HandOver, Waits, CurrOwned, Inside, Alive, callerVars, chanVars
<1>17. ASSUME PostBroken PROVE HandOver'
  BY <1>17, <1>t, <1>o, ConstantsAssumption
     DEF PostBroken, HandOver, Waits, CurrOwned, Inside, Alive, callerVars, chanVars
<1>18. ASSUME CallBroken PROVE HandOver'
  BY <1>18, <1>t, <1>o, ConstantsAssumption
     DEF CallBroken, HandOver, Waits, CurrOwned, Inside, Alive, callerVars, chanVars
<1>19. ASSUME TestLine PROVE HandOver'
  BY <1>19, <1>t, <1>o, ConstantsAssumption
     DEF TestLine, NextLine, HandOver, Waits, CurrOwned, Inside, Alive, callerVars, chanVars
<1>20. ASSUME CollectLine PROVE HandOver'
  BY <1>20, <1>t, <1>o, ConstantsAssumption
     DEF CollectLine, NextLine, Deref, HandOver, Waits, CurrOwned, Inside, Alive, callerVars, chanVars
<1>21. ASSUME FinishLine PROVE HandOver'
  BY <1>21, <1>t, <1>o, ConstantsAssumption
     DEF FinishLine, Deref, HandOver, Waits, CurrOwned, Inside, Alive, callerVars, chanVars
<1>22. ASSUME ClearCurrent PROVE HandOver'
  BY <1>22, <1>t, <1>o, ConstantsAssumption
     DEF ClearCurrent, HandOver, Waits, CurrOwned, Inside, Alive, callerVars, chanVars
<1>23. ASSUME PostLine PROVE HandOver'
  BY <1>23, <1>t, <1>o, ConstantsAssumption
     DEF PostLine, NextLine, HandOver, Waits, CurrOwned, Inside, Alive, callerVars, chanVars
<1>24. ASSUME ClearAgain PROVE HandOver'
  BY <1>24, <1>t, <1>o, ConstantsAssumption
     DEF ClearAgain, NextLine, HandOver, Waits, CurrOwned, Inside, Alive, callerVars, chanVars
<1>25. ASSUME ModemAnswers \/ UnsolicitedLine \/ DeviceLost \/ UNCHANGED vars PROVE HandOver'
  BY <1>25, <1>o DEF ModemAnswers, UnsolicitedLine, DeviceLost, HandOver, Waits, Alive, vars,
     callerVars, chanVars, readerVars
<1> QED
  BY <1>1, <1>2, <1>2p, <1>3, <1>4, <1>5, <1>6, <1>7, <1>8, <1>9, <1>10, <1>11, <1>12, <1>13, <1>14, <1>15, <1>16, <1>17, <1>18, <1>19, <1>20, <1>21, <1>22, <1>23, <1>24, <1>25
     DEF Next, Sender, Reader, Modem

\* The reader never dereferences a null m_curr_response unless some command has
\* timed out or could not be written before: the unlocked test and use of the
\* pointer in handleLine() and readerLoop() are safe up to then.
THEOREM NoCrash == Spec => []CrashNeedsGivingUp
<1>1. Init => NoCrashInv
  BY InitTypes, InitOwned, InitHandOver DEF NoCrashInv
<1>2. NoCrashInv /\ [Next]_vars => NoCrashInv'
  BY StepTypes, StepOwned, StepHandOver DEF NoCrashInv
<1>3. NoCrashInv => CrashNeedsGivingUp
  BY DEF NoCrashInv, HandOver, CrashNeedsGivingUp
<1> QED
  BY <1>1, <1>2, <1>3, PTL DEF Spec

-----------------------------------------------------------------------------
(* The loss of the device. *)

\* start() finds the channel as it was made; stop() comes before the join.
Opened == /\ ~ started /\ ~ stop => rpc = "off"
          /\ \A s \in Senders : pc[s] = "join" => stop

\* A response that is no longer current has been posted or is about to be.
Posted == \A s \in Senders : Waits(s) /\ curr = None /\ ~ orphaned =>
            sem > 0 \/ rpc \in {"post", "brokenPost"}

AtLoss == {"broken", "brokenFinish", "brokenClear", "brokenPost", "brokenCall"}

\* The loss is reported when it has happened and whoever waits has a token.
Reported ==
  /\ ioBroken \/ rpc \in AtLoss => broken
  /\ (ioBroken \/ rpc = "brokenCall") /\ ~ orphaned =>
       \A s \in Senders : pc[s] = "wait" => sem > 0

\* After the loss the reader handles no line.
Halted == /\ ioBroken => stop /\ rpc \in {"top", "exit"}
          /\ rpc \in AtLoss => stop

LossInv == Opened /\ Posted /\ Reported /\ Halted

\* Each step keeps that a wait has its response, or its token, or the reader on its way
\* to post; after the loss no command is written, so that no wait begins.
LEMMA LossStep == TypeInv /\ CurrOwned /\ LossInv /\ [Next]_vars => LossInv'
<1> SUFFICES ASSUME TypeInv, CurrOwned, LossInv, [Next]_vars PROVE LossInv'
  OBVIOUS
<1>t. /\ pc \in [Senders -> SenderPCs] /\ sem \in Nat
      /\ curr \in Senders \cup {None} /\ mutex \in Senders \cup {None}
  BY DEF TypeInv, TypeOK, CallerTypeOK, ChanTypeOK
<1>1. Opened'
  <2> USE DEF Opened
  <2>o. Opened
    BY DEF LossInv
  <2>1. CASE \E s \in Senders : Join(s)
    BY <2>1, <2>o, <1>t DEF Join
  <2>2. CASE \E s \in Stoppers : Stop(s)
    BY <2>2, <2>o, <1>t, ConstantsAssumption DEF Stop
  <2>3. CASE Start
    BY <2>3, <2>o DEF Start, callerVars
  <2>4. CASE \E s \in Senders : \/ \E q \in Requests : Call(s, q)
                                \/ Lock(s) \/ Publish(s) \/ Write(s) \/ WriteFails(s) \/ WaitPosted(s)
                                \/ WaitTimesOut(s) \/ Release(s) \/ Return(s)
    <3>1. /\ UNCHANGED <<started, stop, rpc>>
          /\ \A s \in Senders : pc'[s] = "join" => pc[s] = "join"
      BY <2>4, <1>t
         DEF Call, Lock, Publish, Write, WriteFails, WaitPosted, WaitTimesOut, Release, Return,
             chanVars, readerVars
    <3> QED BY <3>1, <2>o
  <2>5. CASE Reader
    <3>0. rpc # "off"
      BY <2>5
         DEF Reader, ReaderTop, PollData, PollWoken, PollBroken, BrokenTest, FinishBroken,
             PostBroken, CallBroken, TestLine, CollectLine, FinishLine, ClearCurrent,
             PostLine, ClearAgain
    <3>1. (stop' = stop \/ stop' = TRUE) /\ started' = started /\ pc' = pc
      BY <2>5, Zenon
         DEF Reader, ReaderTop, PollData, PollWoken, PollBroken, BrokenTest, FinishBroken,
             PostBroken, CallBroken, TestLine, CollectLine, FinishLine, ClearCurrent,
             PostLine, ClearAgain, callerVars, chanVars
    <3>2. ~ stop' => ~ stop
      BY <3>1
    <3> QED BY <3>0, <3>1, <3>2, <2>o
  <2>6. CASE Modem \/ UNCHANGED vars
    <3>1. UNCHANGED <<pc, started, stop, rpc>>
      BY <2>6, Zenon DEF Modem, ModemAnswers, UnsolicitedLine, DeviceLost, vars, callerVars,
                         chanVars, readerVars
    <3> QED BY <3>1, <2>o, Zenon
  <2> QED BY <2>1, <2>2, <2>3, <2>4, <2>5, <2>6 DEF Next, Sender
<1>2. Posted' /\ Reported'
  <2>o. Posted /\ Reported /\ Opened
    BY DEF LossInv
  <2>1. ASSUME NEW s \in Senders, NEW q \in Requests, Call(s, q) PROVE Posted' /\ Reported'
    BY <2>1, <2>o, <1>t DEF Call, Posted, Reported, Waits, chanVars, readerVars, portVars
  <2>2. ASSUME NEW s \in Senders, Lock(s) PROVE Posted' /\ Reported'
    BY <2>2, <2>o, <1>t, ConstantsAssumption
       DEF Lock, Posted, Reported, Waits, readerVars, portVars
  <2>2p. ASSUME NEW s \in Senders, Publish(s) PROVE Posted' /\ Reported'
    BY <2>2p, <2>o, <1>t DEF Publish, Posted, Reported, Waits, readerVars, portVars
  <2>3. ASSUME NEW s \in Senders, Write(s) PROVE Posted' /\ Reported'
    BY <2>3, <2>o, <1>t DEF Write, Posted, Reported, Waits, AtLoss, chanVars, readerVars
  <2>4. ASSUME NEW s \in Senders, WriteFails(s) \/ WaitTimesOut(s) PROVE Posted' /\ Reported'
    <3>1. \A t \in Senders : (Waits(t)' => Waits(t)) /\ (pc'[t] = "wait" => pc[t] = "wait")
      BY <2>4, <1>t DEF WriteFails, WaitTimesOut, Waits
    <3>2. UNCHANGED <<sem, curr, rpc, ioBroken, broken, orphaned>>
      BY <2>4, Zenon DEF WriteFails, WaitTimesOut, chanVars, readerVars, portVars
    <3> QED BY <3>1, <3>2, <2>o DEF Posted, Reported
  <2>5. ASSUME NEW s \in Senders, WaitPosted(s) \/ Release(s) PROVE Posted' /\ Reported'
    <3>1. \A t \in Senders \ {s} : ~ Waits(t) /\ ~ Waits(t)' /\ pc'[t] # "wait"
      BY <2>5, <1>t DEF WaitPosted, Release, CurrOwned, Inside, Waits
    <3>2. ~ Waits(s)' /\ pc'[s] # "wait"
      BY <2>5, <1>t DEF WaitPosted, Release, Waits
    <3>3. UNCHANGED <<rpc, ioBroken, broken, orphaned>>
      BY <2>5 DEF WaitPosted, Release, readerVars, portVars
    <3> QED BY <3>1, <3>2, <3>3, <2>o DEF Posted, Reported
  <2>6. ASSUME NEW s \in Senders, Return(s) \/ Join(s) PROVE Posted' /\ Reported'
    BY <2>6, <2>o, <1>t DEF Return, Join, Posted, Reported, Waits, chanVars, readerVars, portVars
  <2>7. ASSUME NEW s \in Stoppers, Stop(s) PROVE Posted' /\ Reported'
    BY <2>7, <2>o, <1>t, ConstantsAssumption DEF Stop, Posted, Reported, Waits, readerVars
  <2>8. CASE Start
    <3>1. rpc = "off" /\ rpc' = "top"
      BY <2>8, <2>o, Zenon DEF Start, Opened
    <3> QED BY <2>8, <3>1, <2>o DEF Start, Posted, Reported, Waits, AtLoss, callerVars, portVars
  <2>9. CASE PostLine \/ PostBroken
    BY <2>9, <2>o, <1>t DEF PostLine, PostBroken, NextLine, Posted, Reported, Waits, AtLoss,
                            callerVars, portVars
  <2>10. CASE ClearCurrent
    BY <2>10, <2>o DEF ClearCurrent, Posted, Reported, Waits, AtLoss, callerVars, portVars
  <2>11. CASE ClearAgain
    <3>2. ~ orphaned' => ~ orphaned /\ curr = None
      BY <2>11, Zenon DEF ClearAgain
    <3>3. /\ rpc = "reclear" /\ rpc' \in {"top", "line"}
          /\ UNCHANGED <<pc, sem, ioBroken, broken>>
      BY <2>11 DEF ClearAgain, NextLine, callerVars, portVars
    <3>4. Posted'
      BY <3>2, <3>3, <2>o DEF Posted, Waits
    <3>5. Reported'
      BY <3>2, <3>3, <2>o DEF Reported, AtLoss
    <3> QED BY <3>4, <3>5
  <2>12. CASE BrokenTest
    <3>1. /\ rpc = "broken" /\ UNCHANGED <<pc, sem, curr, orphaned, ioBroken, broken>>
          /\ rpc' = IF curr = None THEN "brokenCall" ELSE "brokenFinish"
      BY <2>12 DEF BrokenTest, callerVars, chanVars, portVars
    <3>2. Posted'
      BY <3>1, <2>o DEF Posted, Waits
    <3>3. curr = None /\ ~ orphaned => \A s \in Senders : pc[s] = "wait" => sem > 0
      BY <3>1, <2>o DEF Posted, Waits
    <3>4. Reported'
      BY <3>1, <3>3, <2>o DEF Reported, AtLoss
    <3> QED BY <3>2, <3>4
  <2>13. CASE PollBroken
    BY <2>13, <2>o DEF PollBroken, Posted, Reported, Waits, AtLoss, callerVars, portVars
  <2>14. CASE CallBroken
    BY <2>14, <2>o DEF CallBroken, Posted, Reported, Waits, AtLoss, callerVars, chanVars, portVars
  <2>15. CASE ReaderTop \/ PollData \/ PollWoken \/ TestLine \/ CollectLine \/ FinishLine
    BY <2>15, <2>o
       DEF ReaderTop, PollData, PollWoken, TestLine, CollectLine, FinishLine, NextLine,
           Posted, Reported, Waits, AtLoss, callerVars, chanVars, portVars
  <2>16. CASE FinishBroken
    BY <2>16, <2>o DEF FinishBroken, Posted, Reported, Waits, AtLoss, chanVars, portVars
  <2>17. CASE Modem \/ UNCHANGED vars
    <3>1. UNCHANGED <<pc, sem, curr, orphaned, ioBroken, rpc>> /\ (broken' = broken \/ broken' = TRUE)
      BY <2>17, Zenon DEF Modem, ModemAnswers, UnsolicitedLine, DeviceLost, vars, callerVars,
                          chanVars, readerVars, portVars
    <3> QED BY <3>1, <2>o DEF Posted, Reported, Waits
  <2> QED BY <2>1, <2>2, <2>2p, <2>3, <2>4, <2>5, <2>6, <2>7, <2>8, <2>9, <2>10, <2>11, <2>12,
             <2>13, <2>14, <2>15, <2>16, <2>17 DEF Next, Sender, Reader
<1>3. Halted'
  <2>o. Opened /\ Halted
    BY DEF LossInv
  <2>1. CASE Start
    <3>1. ~ stop /\ rpc = "off" /\ rpc' = "top" /\ UNCHANGED ioBroken
      BY <2>1, <2>o, Zenon DEF Start, Opened
    <3> QED BY <3>1, <2>o DEF Halted, AtLoss
  <2>2. CASE \E s \in Senders : Sender(s)
    <3>1. UNCHANGED <<stop, rpc, ioBroken>>
      BY <2>2, Zenon
         DEF Sender, Call, Lock, Publish, Write, WriteFails, WaitPosted, WaitTimesOut, Release, Return,
             Join, chanVars, readerVars
    <3> QED BY <3>1, <2>o DEF Halted
  <2>3. CASE \E s \in Stoppers : Stop(s)
    <3>1. stop' = TRUE /\ UNCHANGED <<rpc, ioBroken>>
      BY <2>3, Zenon DEF Stop, readerVars
    <3> QED BY <3>1, <2>o DEF Halted
  <2>4. CASE Modem \/ UNCHANGED vars
    <3>1. UNCHANGED <<stop, rpc, ioBroken>>
      BY <2>4, Zenon DEF Modem, ModemAnswers, UnsolicitedLine, DeviceLost, vars,
                         chanVars, readerVars
    <3> QED BY <3>1, <2>o DEF Halted
  <2>5. CASE ReaderTop \/ PollWoken \/ PollBroken \/ CallBroken
    BY <2>5, <2>o DEF ReaderTop, PollWoken, PollBroken, CallBroken, chanVars, Halted, AtLoss
  <2>6. CASE BrokenTest \/ FinishBroken \/ PostBroken \/ ClearCurrent
    BY <2>6, <2>o DEF BrokenTest, FinishBroken, PostBroken, ClearCurrent, chanVars, Halted, AtLoss
  <2>7. CASE PollData \/ TestLine \/ CollectLine \/ FinishLine \/ PostLine \/ ClearAgain
    BY <2>7, <2>o
       DEF PollData, TestLine, CollectLine, FinishLine, PostLine, ClearAgain, NextLine, chanVars,
           Halted, AtLoss
  <2> QED BY <2>1, <2>2, <2>3, <2>4, <2>5, <2>6, <2>7 DEF Next, Reader
<1> QED BY <1>1, <1>2, <1>3 DEF LossInv

\* The invariants of AtChannelProofs with this one.
LossInvariant == TypeInv /\ CurrOwned /\ LossInv

\* They hold together.
LEMMA LossHolds == Spec => []LossInvariant
<1>1. Init => LossInvariant
  <2>1. Init => LossInv
    BY DEF Init, LossInv, Opened, Posted, Reported, Halted, Waits, AtLoss
  <2> QED BY <2>1, InitTypes, InitOwned DEF LossInvariant
<1>2. LossInvariant /\ [Next]_vars => LossInvariant'
  BY StepTypes, StepOwned, LossStep DEF LossInvariant
<1> QED BY <1>1, <1>2, PTL DEF Spec

\* When the reader has reported the loss of the device, nobody sleeps in sendCommand()
\* but for a call whose response the reader had reset by mistake (readerLoop()).
THEOREM LossEndsWait == Spec => []LossWakesCaller
<1>1. LossInvariant => LossWakesCaller
  BY DEF LossInvariant, LossInv, Reported, LossWakesCaller
<1> QED BY <1>1, LossHolds, PTL

-----------------------------------------------------------------------------
(* The numbers of the commands. *)

\* What is written to the port.
Command == [id : Ids, req : Request]

Elements(q) == {q[i] : i \in DOMAIN q}

Underway(s) == pc[s] \in {"lock", "publish", "write", "wait", "done"}

\* No number is in the queue twice.
Singly(q) == \A i, j \in DOMAIN q : q[i].id = q[j].id => i = j

\* A command that waits for the modem is not answered, and has its number alone.
Numbers ==
  /\ \A i \in Ids : answer[i] # NoAnswer => answer[i].verdict # "TIMEOUT"
  /\ \A i \in Ids : i > issued => answer[i] = NoAnswer
  /\ \A c \in Elements(tx) : c.id <= issued /\ answer[c.id] = NoAnswer
  /\ Singly(tx)
  /\ \A s \in Senders : Underway(s) => cmd[s].id <= issued
  /\ \A s, t \in Senders : Underway(s) /\ Underway(t) /\ cmd[s].id = cmd[t].id => s = t
  /\ \A s \in Senders : pc[s] \in {"lock", "publish", "write"} =>
       answer[cmd[s].id] = NoAnswer /\ \A c \in Elements(tx) : c.id # cmd[s].id

\* The line ends an answer.
Ending(l) == l.kind \in {"OK", "ERROR", "CONNECT", "NO CARRIER"}

\* No line of an answer comes after its final line.
Ends(q) == \A i, j \in DOMAIN q : i < j /\ Ending(q[i]) => q[j].from = 0

-----------------------------------------------------------------------------
(* Lemmas about queues. *)

\* The elements of a queue are of its type.
LEMMA ElementFacts ==
  ASSUME NEW S, NEW q \in Seq(S)
  PROVE  Elements(q) \subseteq S
<1>1. \A i \in DOMAIN q : q[i] \in S
  OBVIOUS
<1> QED BY <1>1 DEF Elements

\* A queue without its first element.
LEMMA TailFacts ==
  ASSUME NEW S, NEW q \in Seq(S), q # <<>>
  PROVE  /\ Head(q) \in S /\ Tail(q) \in Seq(S)
         /\ Elements(q) = {Head(q)} \cup Elements(Tail(q))
         /\ Singly(q) => /\ Singly(Tail(q))
                         /\ \A c \in Elements(Tail(q)) : c.id # Head(q).id
         /\ Ends(q) => /\ Ends(Tail(q))
                       /\ Ending(Head(q)) => \A l \in Elements(Tail(q)) : l.from = 0
<1>1. /\ Head(q) \in S /\ Tail(q) \in Seq(S)
      /\ 1 \in DOMAIN q /\ Head(q) = q[1]
  OBVIOUS
<1>2. \A k \in DOMAIN Tail(q) : /\ k \in Nat \ {0} /\ k + 1 \in DOMAIN q
                                /\ Tail(q)[k] = q[k + 1]
  OBVIOUS
<1>3. \A k \in DOMAIN q : k = 1 \/ (k - 1 \in DOMAIN Tail(q) /\ Tail(q)[k - 1] = q[k])
  OBVIOUS
<1>4. Elements(q) = {Head(q)} \cup Elements(Tail(q))
  <2>1. Head(q) \in Elements(q) /\ Elements(Tail(q)) \subseteq Elements(q)
    BY <1>1, <1>2 DEF Elements
  <2>2. Elements(q) \subseteq {Head(q)} \cup Elements(Tail(q))
    BY <1>1, <1>3 DEF Elements
  <2> QED BY <2>1, <2>2
<1>5. ASSUME Singly(q)
      PROVE  Singly(Tail(q)) /\ \A c \in Elements(Tail(q)) : c.id # Head(q).id
  <2>1. ASSUME NEW k \in DOMAIN Tail(q) PROVE Tail(q)[k].id # Head(q).id
    <3> SUFFICES ASSUME q[k + 1].id = q[1].id PROVE FALSE
      BY <1>1, <1>2
    <3>1. k + 1 = 1
      BY <1>1, <1>2, <1>5 DEF Singly
    <3> QED BY <3>1, <1>2
  <2>2. ASSUME NEW j \in DOMAIN Tail(q), NEW k \in DOMAIN Tail(q), Tail(q)[j].id = Tail(q)[k].id
        PROVE  j = k
    <3>1. j + 1 = k + 1
      BY <1>2, <1>5, <2>2 DEF Singly
    <3> QED BY <3>1, <1>2
  <2> QED BY <2>1, <2>2 DEF Singly, Elements
<1>6. ASSUME Ends(q)
      PROVE  /\ Ends(Tail(q))
             /\ Ending(Head(q)) => \A l \in Elements(Tail(q)) : l.from = 0
  <2>1. ASSUME NEW k \in DOMAIN Tail(q), Ending(Head(q)) PROVE Tail(q)[k].from = 0
    <3>1. 1 < k + 1
      BY <1>2
    <3> QED BY <1>1, <1>2, <1>6, <2>1, <3>1 DEF Ends
  <2>2. ASSUME NEW j \in DOMAIN Tail(q), NEW k \in DOMAIN Tail(q), j < k, Ending(Tail(q)[j])
        PROVE  Tail(q)[k].from = 0
    <3>1. j + 1 < k + 1
      BY <1>2, <2>2
    <3> QED BY <1>2, <1>6, <2>2, <3>1 DEF Ends
  <2> QED BY <2>1, <2>2 DEF Ends, Elements
<1> QED BY <1>1, <1>4, <1>5, <1>6

\* A queue with one more element.
LEMMA AppendFacts ==
  ASSUME NEW S, NEW q \in Seq(S), NEW e \in S
  PROVE  /\ Append(q, e) \in Seq(S)
         /\ Elements(Append(q, e)) = Elements(q) \cup {e}
         /\ Singly(q) /\ (\A c \in Elements(q) : c.id # e.id) => Singly(Append(q, e))
         /\ (\A l \in Elements(q) : ~ Ending(l)) => Ends(Append(q, e))
<1> DEFINE a == Append(q, e)
<1>1. /\ a \in Seq(S)
      /\ DOMAIN a = DOMAIN q \cup {Len(q) + 1} /\ Len(q) + 1 \notin DOMAIN q
      /\ a[Len(q) + 1] = e /\ \A k \in DOMAIN q : a[k] = q[k]
  OBVIOUS
<1>d. \A j, k \in DOMAIN a : j < k => j \in DOMAIN q
  OBVIOUS
<1> HIDE DEF a
<1>2. Elements(a) = Elements(q) \cup {e}
  BY <1>1 DEF Elements
<1>3. ASSUME Singly(q), \A c \in Elements(q) : c.id # e.id PROVE Singly(a)
  BY <1>1, <1>3 DEF Singly, Elements
<1>4. ASSUME \A l \in Elements(q) : ~ Ending(l) PROVE Ends(a)
  <2>1. \A k \in DOMAIN q : ~ Ending(a[k])
    BY <1>1, <1>4 DEF Elements
  <2> QED BY <2>1, <1>d DEF Ends
<1> QED BY <1>1, <1>2, <1>3, <1>4 DEF a

\* Two queues of lines, one after the other.
LEMMA JoinFacts ==
  ASSUME NEW S, NEW q \in Seq(S), NEW r \in Seq(S)
  PROVE  /\ q \o r \in Seq(S)
         /\ Elements(q \o r) = Elements(q) \cup Elements(r)
         /\ (/\ Ends(q) /\ Ends(r)
             /\ (\E l \in Elements(q) : Ending(l)) => \A l \in Elements(r) : l.from = 0)
            => Ends(q \o r)
<1> DEFINE a == q \o r
<1>1. /\ a \in Seq(S) /\ Len(q) \in Nat /\ Len(r) \in Nat
      /\ \A k \in DOMAIN q : k \in DOMAIN a /\ a[k] = q[k] /\ k \in Nat /\ k <= Len(q)
      /\ \A k \in DOMAIN r : k + Len(q) \in DOMAIN a /\ a[k + Len(q)] = r[k] /\ k \in Nat
      /\ \A k \in DOMAIN a : k \in DOMAIN q \/ (k - Len(q) \in DOMAIN r /\ k > Len(q))
      /\ \A k \in DOMAIN a : k \in Nat
  OBVIOUS
<1>4. \A k \in DOMAIN a : k \notin DOMAIN q => a[k] = r[k - Len(q)]
  OBVIOUS
<1> HIDE DEF a
<1>2. Elements(a) = Elements(q) \cup Elements(r)
  <2>1. Elements(q) \subseteq Elements(a) /\ Elements(r) \subseteq Elements(a)
    BY <1>1 DEF Elements
  <2>2. Elements(a) \subseteq Elements(q) \cup Elements(r)
    BY <1>1, <1>4 DEF Elements
  <2> QED BY <2>1, <2>2
<1>3. ASSUME Ends(q), Ends(r),
             (\E l \in Elements(q) : Ending(l)) => \A l \in Elements(r) : l.from = 0
      PROVE  Ends(a)
  <2> SUFFICES ASSUME NEW j \in DOMAIN a, NEW k \in DOMAIN a, j < k, Ending(a[j])
               PROVE  a[k].from = 0
    BY DEF Ends
  <2>1. CASE k \in DOMAIN q
    <3>1. j \in DOMAIN q
      BY <1>1, <2>1
    <3> QED BY <1>1, <1>3, <2>1, <3>1 DEF Ends
  <2>2. CASE k \notin DOMAIN q /\ j \in DOMAIN q
    <3>1. a[j] \in Elements(q) /\ a[k] \in Elements(r)
      BY <1>1, <1>4, <2>2 DEF Elements
    <3> QED BY <1>3, <3>1
  <2>3. CASE k \notin DOMAIN q /\ j \notin DOMAIN q
    <3>1. /\ j - Len(q) \in DOMAIN r /\ k - Len(q) \in DOMAIN r
          /\ a[j] = r[j - Len(q)] /\ a[k] = r[k - Len(q)]
          /\ j - Len(q) < k - Len(q)
      BY <1>1, <1>4, <2>3
    <3> QED BY <1>3, <3>1 DEF Ends
  <2> QED BY <2>1, <2>2, <2>3
<1> QED BY <1>1, <1>2, <1>3 DEF a

\* The same of the commands on their way.
LEMMA CommandQueues ==
  \A q \in Seq(Command), c \in Command :
    /\ Elements(Append(q, c)) = Elements(q) \cup {c}
    /\ Singly(q) /\ (\A d \in Elements(q) : d.id # c.id) => Singly(Append(q, c))
BY AppendFacts

\* The same of the lines on their way.
LEMMA LineQueues ==
  /\ \A q, r \in Seq(Line) : q \o r \in Seq(Line) /\ Elements(q \o r) = Elements(q) \cup Elements(r)
  /\ \A q \in Seq(Line), l \in Line : Elements(Append(q, l)) = Elements(q) \cup {l}
<1>1. ASSUME NEW q \in Seq(Line), NEW r \in Seq(Line)
      PROVE  q \o r \in Seq(Line) /\ Elements(q \o r) = Elements(q) \cup Elements(r)
  BY JoinFacts, Zenon
<1>2. ASSUME NEW q \in Seq(Line), NEW l \in Line PROVE Elements(Append(q, l)) = Elements(q) \cup {l}
  BY AppendFacts
<1> QED BY <1>1, <1>2, Zenon

\* A queue of lines that is cut in two.
LEMMA SplitFacts ==
  ASSUME NEW S, NEW q \in Seq(S), NEW n \in 0 .. Len(q)
  PROVE  LET a == SubSeq(q, 1, n)
             b == SubSeq(q, n + 1, Len(q))
         IN  /\ a \in Seq(S) /\ b \in Seq(S)
             /\ Elements(q) = Elements(a) \cup Elements(b)
             /\ Ends(q) => /\ Ends(a) /\ Ends(b)
                           /\ (\E l \in Elements(a) : Ending(l)) =>
                                \A l \in Elements(b) : l.from = 0
<1> DEFINE a == SubSeq(q, 1, n)
           b == SubSeq(q, n + 1, Len(q))
<1>1. /\ a \in Seq(S) /\ b \in Seq(S) /\ n \in Nat /\ Len(q) \in Nat /\ n <= Len(q)
      /\ DOMAIN a = 1 .. n /\ DOMAIN b = 1 .. (Len(q) - n) /\ DOMAIN q = 1 .. Len(q)
      /\ \A k \in DOMAIN a : a[k] = q[k]
      /\ \A k \in DOMAIN b : b[k] = q[n + k]
  OBVIOUS
<1> HIDE DEF a, b
<1>2. /\ \A k \in DOMAIN a : k \in DOMAIN q
      /\ \A k \in DOMAIN b : n + k \in DOMAIN q
      /\ \A k \in DOMAIN q : k \in DOMAIN a \/ (k - n \in DOMAIN b /\ q[k] = b[k - n])
  <2>1. \A k \in DOMAIN a : k \in DOMAIN q
    BY <1>1
  <2>2. \A k \in DOMAIN b : n + k \in DOMAIN q
    BY <1>1
  <2>3. ASSUME NEW k \in DOMAIN q, k \notin DOMAIN a
        PROVE  k - n \in DOMAIN b /\ q[k] = b[k - n]
    <3>1. k - n \in DOMAIN b /\ n + (k - n) = k
      BY <1>1, <2>3
    <3>2. b[k - n] = q[n + (k - n)]
      BY <1>1, <3>1
    <3> QED BY <3>1, <3>2
  <2> QED BY <2>1, <2>2, <2>3
<1>3. Elements(q) = Elements(a) \cup Elements(b)
  <2>1. Elements(a) \subseteq Elements(q) /\ Elements(b) \subseteq Elements(q)
    BY <1>1, <1>2 DEF Elements
  <2>2. Elements(q) \subseteq Elements(a) \cup Elements(b)
    BY <1>1, <1>2 DEF Elements
  <2> QED BY <2>1, <2>2
<1>4. ASSUME Ends(q)
      PROVE  /\ Ends(a) /\ Ends(b)
             /\ (\E l \in Elements(a) : Ending(l)) => \A l \in Elements(b) : l.from = 0
  <2>1. Ends(a)
    BY <1>1, <1>2, <1>4 DEF Ends
  <2>2. Ends(b)
    <3> SUFFICES ASSUME NEW j \in DOMAIN b, NEW k \in DOMAIN b, j < k, Ending(b[j])
                 PROVE  b[k].from = 0
      BY DEF Ends
    <3>1. n + j < n + k
      BY <1>1
    <3> QED BY <1>1, <1>2, <1>4, <3>1 DEF Ends
  <2>3. ASSUME NEW j \in DOMAIN a, NEW k \in DOMAIN b, Ending(a[j]) PROVE b[k].from = 0
    <3>1. j < n + k
      BY <1>1
    <3> QED BY <1>1, <1>2, <1>4, <2>3, <3>1 DEF Ends
  <2> QED BY <2>1, <2>2, <2>3 DEF Elements
<1> QED BY <1>1, <1>3, <1>4 DEF a, b



-----------------------------------------------------------------------------
(* Each command keeps a number of its own. *)

\* A step of a caller that issues and writes nothing.
LEMMA NumbersKept ==
  ASSUME Numbers, UNCHANGED <<answer, issued, tx>>,
         \A s \in Senders : Underway(s)' => Underway(s) /\ cmd'[s] = cmd[s],
         \A s \in Senders : pc'[s] \in {"lock", "publish", "write"} => pc[s] \in {"lock", "publish", "write"}
  PROVE  Numbers'
<1>1. \A s \in Senders : pc'[s] \in {"lock", "publish", "write"} => cmd'[s] = cmd[s]
  BY DEF Underway
<1> QED BY <1>1 DEF Numbers

\* A call takes the next number, its command is written once and answered once.
LEMMA NumbersStep == TypeInv /\ Numbers /\ [Next]_vars => Numbers'
<1> SUFFICES ASSUME TypeInv, Numbers, [Next]_vars PROVE Numbers'
  OBVIOUS
<1>t. /\ pc \in [Senders -> SenderPCs]
      /\ cmd \in [Senders -> [id : 0 .. MaxCmds, req : Request]]
      /\ tx \in Seq([id : Ids, req : Request])
      /\ answer \in [Ids -> [verdict : {"SUCCESS", "ERROR", "TIMEOUT"}, lines : Seq(Line)]]
      /\ issued \in Nat
  BY DEF TypeInv, TypeOK, CallerTypeOK, PortTypeOK, HistoryTypeOK
<1>b. /\ \A s \in Senders : Underway(s) => cmd[s].id \in Ids
      /\ \A c \in Elements(tx) : c.id \in Ids
      /\ \A i \in Ids : i \in Nat
  <2>1. \A c \in [id : Ids, req : Request] : c.id \in Ids
    OBVIOUS
  <2>0. tx \in Seq([id : Ids, req : Request])
    BY <1>t
  <2>2. Elements(tx) \subseteq [id : Ids, req : Request]
    BY <2>0, ElementFacts, Zenon
  <2>3. \A i \in Ids : i \in Nat
    BY DEF Ids
  <2> QED BY <2>1, <2>2, <2>3 DEF TypeInv, Busy, Underway
<1>1. ASSUME NEW s \in Senders, NEW q \in Requests, Call(s, q) PROVE Numbers'
  <2>1. UNCHANGED <<answer, tx>> /\ issued' = issued + 1
    BY <1>1, Zenon DEF Call, portVars, historyVars
  <2>a. PICK r : cmd' = [cmd EXCEPT ![s] = [id |-> issued + 1, req |-> r]]
    BY <1>1, Zenon DEF Call
  <2>b. cmd'[s].id = issued + 1 /\ \A t \in Senders \ {s} : cmd'[t] = cmd[t]
    BY <2>a, <1>t
  <2>c. issued + 1 \in Ids
    BY <1>1, <1>t, ConstantsAssumption DEF Call, Ids
  <2>d. pc[s] = "idle" /\ \A t \in Senders \ {s} : pc'[t] = pc[t]
    BY <1>1, <1>t DEF Call
  <2>2. /\ cmd'[s].id = issued + 1 /\ issued + 1 \in Ids
        /\ \A t \in Senders \ {s} : cmd'[t] = cmd[t] /\ pc'[t] = pc[t]
        /\ ~ Underway(s)
    BY <2>b, <2>c, <2>d DEF Underway
  <2>3. answer[issued + 1] = NoAnswer
    BY <2>2, <1>t DEF Numbers
  <2>4. /\ \A i \in Ids : i > issued + 1 => answer[i] = NoAnswer
        /\ \A c \in Elements(tx) : c.id <= issued + 1 /\ c.id # issued + 1
    BY <1>t, <1>b DEF Numbers
  <2>5. \A t \in Senders \ {s} : Underway(t) => cmd[t].id <= issued + 1 /\ cmd[t].id # issued + 1
    BY <1>t, <1>b DEF Numbers
  <2>e. \A t \in Senders \ {s} : Underway(t)' = Underway(t)
    BY <2>d DEF Underway
  <2>f. \A t \in Senders : Underway(t)' => cmd'[t].id <= issued'
    BY <2>1, <2>2, <2>5, <2>e, <1>t
  <2>g. ASSUME NEW t \in Senders, NEW u \in Senders,
               Underway(t)', Underway(u)', cmd'[t].id = cmd'[u].id
        PROVE  t = u
    <3>1. CASE t = s \/ u = s
      BY <3>1, <2>g, <2>2, <2>5, <2>e
    <3>2. CASE t # s /\ u # s
      BY <3>2, <2>g, <2>2, <2>e DEF Numbers
    <3> QED BY <3>1, <3>2
  <2>6. /\ \A t \in Senders : Underway(t)' => cmd'[t].id <= issued'
        /\ \A t, u \in Senders :
             Underway(t)' /\ Underway(u)' /\ cmd'[t].id = cmd'[u].id => t = u
    BY <2>f, <2>g
  <2>7. \A t \in Senders : pc'[t] \in {"lock", "publish", "write"} =>
          answer[cmd'[t].id] = NoAnswer /\ \A c \in Elements(tx) : c.id # cmd'[t].id
    BY <2>2, <2>3, <2>4 DEF Numbers
  <2> QED BY <2>1, <2>4, <2>6, <2>7 DEF Numbers
<1>2. ASSUME NEW s \in Senders, Write(s) PROVE Numbers'
  <2>1. /\ tx' = Append(tx, cmd[s]) /\ UNCHANGED <<answer, issued, cmd>>
        /\ pc[s] = "write" /\ pc' = [pc EXCEPT ![s] = "wait"]
    BY <1>2 DEF Write, historyVars
  <2>2. /\ cmd[s] \in [id : Ids, req : Request]
        /\ cmd[s].id <= issued /\ answer[cmd[s].id] = NoAnswer
        /\ \A c \in Elements(tx) : c.id # cmd[s].id
    BY <2>1, <1>t, <1>b DEF Numbers, Underway
  <2>a. tx \in Seq(Command) /\ cmd[s] \in Command
    BY <1>t, <2>2 DEF Command
  <2>b. /\ Elements(Append(tx, cmd[s])) = Elements(tx) \cup {cmd[s]}
        /\ Singly(tx) /\ (\A c \in Elements(tx) : c.id # cmd[s].id) =>
             Singly(Append(tx, cmd[s]))
    BY <2>a, CommandQueues, Zenon
  <2>3. Elements(tx') = Elements(tx) \cup {cmd[s]} /\ Singly(tx')
    BY <2>1, <2>2, <2>b DEF Numbers
  <2>4. /\ \A t \in Senders : Underway(t)' => Underway(t)
        /\ \A t \in Senders : pc'[t] \in {"lock", "publish", "write"} =>
             t # s /\ pc[t] \in {"lock", "publish", "write"} /\ Underway(t) /\ Underway(s)
    BY <2>1, <1>t DEF Underway
  <2>5. \A t \in Senders : pc'[t] \in {"lock", "publish", "write"} =>
          answer[cmd[t].id] = NoAnswer /\ \A c \in Elements(tx') : c.id # cmd[t].id
    BY <2>3, <2>4 DEF Numbers
  <2>6. \A c \in Elements(tx') : c.id <= issued /\ answer[c.id] = NoAnswer
    BY <2>2, <2>3 DEF Numbers
  <2> QED BY <2>1, <2>3, <2>4, <2>5, <2>6 DEF Numbers
<1>3. CASE ModemAnswers
  <2>1. tx # <<>> /\ tx' = Tail(tx) /\ UNCHANGED <<pc, cmd, issued>>
    BY <1>3 DEF ModemAnswers, callerVars
  <2>2. PICK body \in Bodies(Head(tx)), verdict \in {"SUCCESS", "ERROR"} :
          answer' = [answer EXCEPT ![Head(tx).id] = [verdict |-> verdict, lines |-> body]]
    BY <1>3 DEF ModemAnswers
  <2>3. /\ Elements(tx) = {Head(tx)} \cup Elements(Tail(tx)) /\ Singly(Tail(tx))
        /\ \A c \in Elements(Tail(tx)) : c.id # Head(tx).id
    BY <2>1, <1>t, TailFacts DEF Numbers
  <2>4. Head(tx).id \in Ids /\ Head(tx).id <= issued
    BY <2>3, <1>b DEF Numbers
  <2>5. /\ answer'[Head(tx).id].verdict # "TIMEOUT"
        /\ \A i \in Ids \ {Head(tx).id} : answer'[i] = answer[i]
    BY <2>2, <2>4, <1>t
  <2>a. \A i \in Ids : answer'[i] # NoAnswer => answer'[i].verdict # "TIMEOUT"
    BY <2>5 DEF Numbers
  <2>b. \A i \in Ids : i > issued => i # Head(tx).id
    BY <2>4, <1>b, <1>t
  <2>c. \A i \in Ids : i > issued => answer'[i] = NoAnswer
    BY <2>b, <2>5 DEF Numbers
  <2>6. /\ \A i \in Ids : answer'[i] # NoAnswer => answer'[i].verdict # "TIMEOUT"
        /\ \A i \in Ids : i > issued => answer'[i] = NoAnswer
    BY <2>a, <2>c
  <2>7. \A c \in Elements(tx') : c.id <= issued /\ answer'[c.id] = NoAnswer
    BY <2>1, <2>3, <2>5, <1>b DEF Numbers
  <2>8. \A s \in Senders : pc[s] \in {"lock", "publish", "write"} =>
          answer'[cmd[s].id] = NoAnswer /\ \A c \in Elements(tx') : c.id # cmd[s].id
    BY <2>1, <2>3, <2>5, <1>b DEF Numbers, Underway
  <2> QED BY <2>1, <2>3, <2>6, <2>7, <2>8 DEF Numbers, Underway
<1>4. CASE \E s \in Senders : \/ Lock(s) \/ Publish(s) \/ WriteFails(s) \/ WaitPosted(s)
                              \/ WaitTimesOut(s) \/ Release(s) \/ Return(s) \/ Join(s)
  <2>1. UNCHANGED <<answer, issued, tx>>
    BY <1>4, Zenon DEF Lock, Publish, WriteFails, WaitPosted, WaitTimesOut, Release, Return, Join,
                       portVars, historyVars
  <2>2. /\ \A s \in Senders : Underway(s)' => Underway(s) /\ cmd'[s] = cmd[s]
        /\ \A s \in Senders : pc'[s] \in {"lock", "publish", "write"} => pc[s] \in {"lock", "publish", "write"}
    BY <1>4, <1>t DEF Lock, Publish, WriteFails, WaitPosted, WaitTimesOut, Release, Return, Join,
                      Underway
  <2> QED BY <2>1, <2>2, NumbersKept
<1>5. CASE \E s \in Stoppers : Stop(s)
  <2>1. UNCHANGED <<answer, issued, tx>>
    BY <1>5, Zenon DEF Stop, historyVars
  <2>2. /\ \A s \in Senders : Underway(s)' => Underway(s) /\ cmd'[s] = cmd[s]
        /\ \A s \in Senders : pc'[s] \in {"lock", "publish", "write"} => pc[s] \in {"lock", "publish", "write"}
    BY <1>5, <1>t, ConstantsAssumption DEF Stop, Underway
  <2> QED BY <2>1, <2>2, NumbersKept
<1>6. CASE Start \/ Reader \/ UnsolicitedLine \/ DeviceLost \/ UNCHANGED vars
  <2>1. UNCHANGED <<answer, issued, tx, pc, cmd>>
    BY <1>6, Zenon
       DEF Start, Reader, ReaderTop, PollData, PollWoken, PollBroken, BrokenTest, FinishBroken,
           PostBroken, CallBroken, TestLine, CollectLine, FinishLine, ClearCurrent, PostLine,
           ClearAgain, UnsolicitedLine, DeviceLost, vars, callerVars, portVars, historyVars
  <2> QED BY <2>1, NumbersKept DEF Underway
<1> QED BY <1>1, <1>2, <1>3, <1>4, <1>5, <1>6 DEF Next, Sender, Modem

-----------------------------------------------------------------------------
(* The lines on their way. *)

\* The reader has not stopped reading.
Reading == /\ rpc \in {"off", "top", "poll", "line", "collect", "finish", "clear", "post", "reclear"}
           /\ ~ ioBroken

\* The lines of the chunk that are still to be handled.
Rest == IF rpc \in {"clear", "post", "reclear"} THEN Tail(chunk) ELSE chunk

Coming == Elements(Rest) \cup Elements(rx)

Verdict(l) == IF l.kind \in {"OK", "CONNECT"} THEN "SUCCESS" ELSE "ERROR"

\* The line is of the answer to the call that waits; its final line has the verdict.
OfWaiting(l) ==
  /\ mutex # None /\ pc[mutex] = "wait" /\ l.from = cmd[mutex].id
  /\ answer[l.from] # NoAnswer
  /\ Ending(l) => Verdict(l) = answer[l.from].verdict /\ IsFinal(l, cmd[mutex].req)

\* The line that the reader has at hand, and the call it takes it for.
Held ==
  /\ chunk = <<>> \/ rpc \in {"line", "collect", "finish", "clear", "post", "reclear", "crashed"}
  /\ curr # None /\ pc[curr] # "publish" => currReq = cmd[curr].req
  /\ curr # None /\ rpc = "collect" => ~ IsFinal(Head(chunk), cmd[curr].req)
  /\ curr # None /\ rpc = "finish" => IsFinal(Head(chunk), cmd[curr].req)

\* What is on its way to the reader and to the modem while no caller has given up.
Queued ==
  Reading =>
    /\ \A l \in Coming : IF l.from = 0 THEN ~ Ending(l) ELSE OfWaiting(l)
    /\ Ends(Rest) /\ Ends(rx)
    /\ (\E l \in Elements(Rest) : Ending(l)) => \A l \in Elements(rx) : l.from = 0
    /\ \A c \in Elements(tx) : mutex # None /\ pc[mutex] = "wait" /\ c = cmd[mutex]

\* The caller has the verdict of the modem.
Told(s) == answer[cmd[s].id] # NoAnswer /\ resp[s].error = answer[cmd[s].id].verdict

\* What the reader leaves for the caller that it wakes.
Verdicts ==
  /\ rpc \in {"clear", "post"} => mutex # None /\ pc[mutex] = "wait"
  /\ mutex # None /\ (rpc \in {"clear", "post"} \/ sem > 0 \/ pc[mutex] = "done") =>
       \/ Told(mutex) /\ (Reading => \A l \in Coming : l.from = 0)
       \/ resp[mutex].error = "IO_BROKEN" /\ broken /\ ~ Reading
  /\ rpc \in {"brokenClear", "brokenPost"} => mutex # None /\ resp[mutex].error = "IO_BROKEN"

\* A call that waits and has been answered has a final line on its way, or a token.
Awaited ==
  ~ orphaned /\ Reading =>
    \A s \in Senders : pc[s] = "wait" /\ answer[cmd[s].id] # NoAnswer =>
      \/ sem > 0 \/ rpc \in {"clear", "post"}
      \/ \E l \in Coming : l.from = cmd[s].id /\ Ending(l)

\* All of this as long as nobody has given up.
Carried == Held /\ Queued /\ Verdicts /\ Awaited

AnswerInv == Numbers /\ (~ disturbed => Carried)

-----------------------------------------------------------------------------
(* A final line ends the wait. *)

\* A step that leaves the reader, the lines and the call inside alone.
LEMMA CarriedKept ==
  ASSUME CurrOwned, Carried,
         UNCHANGED <<mutex, sem, curr, currReq, rpc, chunk, ioBroken, orphaned, tx, rx, answer>>,
         broken' = broken \/ broken' = TRUE,
         \A s \in Senders : Inside(s) =>
           pc'[s] = pc[s] /\ cmd'[s] = cmd[s] /\ resp'[s].error = resp[s].error,
         \A s \in Senders : pc'[s] = "wait" => Inside(s),
         mutex \in Senders \cup {None}
  PROVE  Carried'
<1>1. mutex # None => /\ pc'[mutex] = pc[mutex] /\ cmd'[mutex] = cmd[mutex]
                      /\ resp'[mutex].error = resp[mutex].error
  BY DEF CurrOwned
<1>2. (Reading' <=> Reading) /\ Rest' = Rest /\ Coming' = Coming
  BY DEF Reading, Rest, Coming, Elements
<1>3. \A l : OfWaiting(l) => OfWaiting(l)'
  BY <1>1 DEF OfWaiting
<1>4. Held'
  BY <1>1 DEF Carried, Held, CurrOwned
<1>5. Queued'
  BY <1>1, <1>2, <1>3 DEF Carried, Queued
<1>6. mutex # None => (Told(mutex) => Told(mutex)')
  BY <1>1 DEF Told
<1>7. Verdicts'
  BY <1>1, <1>2, <1>6 DEF Carried, Verdicts
<1>8. Awaited'
  BY <1>1, <1>2 DEF Carried, Awaited
<1> QED BY <1>4, <1>5, <1>7, <1>8 DEF Carried

\* What the steps of a call have to go on with.
Basis == NoCrashInv /\ LossInv /\ Numbers /\ Carried /\ ~ disturbed

\* The types of what the steps of a caller change.
LEMMA CallerTypes ==
  ASSUME Basis
  PROVE  /\ pc \in [Senders -> SenderPCs] /\ sem \in Nat
         /\ cmd \in [Senders -> [id : 0 .. MaxCmds, req : Request]]
         /\ resp \in [Senders -> Response]
         /\ curr \in Senders \cup {None} /\ mutex \in Senders \cup {None}
         /\ chunk \in Seq(Line) /\ rx \in Seq(Line) /\ tx \in Seq(Command)
         /\ answer \in [Ids -> [verdict : {"SUCCESS", "ERROR", "TIMEOUT"}, lines : Seq(Line)]]
BY DEF Basis, NoCrashInv, TypeInv, TypeOK, CallerTypeOK, ChanTypeOK, ReaderTypeOK, PortTypeOK,
       HistoryTypeOK, Command

\* Without a call inside nothing of an answer is on its way.
LEMMA NothingPending ==
  ASSUME Basis, mutex = None
  PROVE  /\ sem = 0 /\ curr = None
         /\ rpc \notin {"clear", "post", "collect", "finish", "brokenClear", "brokenPost"}
         /\ Reading => tx = <<>> /\ \A l \in Coming : l.from = 0
<1>1. CurrOwned /\ HandOver /\ Queued /\ Verdicts /\ ~ disturbed
  BY DEF Basis, NoCrashInv, Carried
<1>2. \A s \in Senders : ~ Waits(s)
  BY <1>1, ConstantsAssumption DEF CurrOwned, Inside, Waits
<1>3. sem = 0 /\ curr = None
  BY <1>1, <1>2, CallerTypes DEF HandOver, CurrOwned
<1>4. rpc \notin {"clear", "post", "collect", "finish", "brokenClear", "brokenPost"}
  BY <1>1, <1>3 DEF HandOver, Verdicts
<1>5. ASSUME Reading PROVE Elements(tx) = {} /\ \A l \in Coming : l.from = 0
  BY <1>1, <1>5 DEF Queued, OfWaiting
<1>6. Elements(tx) = {} => tx = <<>>
  <2>1. tx \in Seq(Command)
    BY CallerTypes
  <2>2. tx # <<>> => 1 \in DOMAIN tx
    BY <2>1
  <2> QED BY <2>2 DEF Elements
<1> QED BY <1>3, <1>4, <1>5, <1>6

\* A call that comes in finds no line of an earlier answer.
LEMMA LockCarries == ASSUME Basis, NEW s \in Senders, Lock(s) PROVE Carried'
<1>1. mutex = None
  BY DEF Lock
<1>2. /\ sem = 0 /\ curr = None
      /\ rpc \notin {"clear", "post", "collect", "finish", "brokenClear", "brokenPost"}
      /\ Reading => tx = <<>> /\ \A l \in Coming : l.from = 0
  BY <1>1, NothingPending
<1>3. /\ mutex' = s /\ curr' = s /\ cmd' = cmd
      /\ pc' = [pc EXCEPT ![s] = "publish"]
      /\ UNCHANGED <<sem, rpc, chunk, ioBroken, orphaned, tx, rx, answer>>
  BY DEF Lock, readerVars, portVars, historyVars
<1>4. (Reading' <=> Reading) /\ Rest' = Rest /\ Coming' = Coming
  BY <1>3 DEF Reading, Rest, Coming, Elements
<1>5. Held /\ Queued
  BY DEF Basis, Carried
<1>6. Held'
  BY <1>2, <1>3, <1>5, CallerTypes DEF Held
<1>7. Queued'
  <2>1. Elements(<<>>) = {}
    BY DEF Elements
  <2>2. Reading => \A l \in Coming : l.from = 0 /\ ~ Ending(l)
    BY <1>2, <1>5 DEF Queued
  <2> QED BY <1>2, <1>3, <1>4, <1>5, <2>1, <2>2 DEF Queued
<1>8. pc'[s] = "publish" /\ \A t \in Senders : pc'[t] # "wait"
  BY <1>1, <1>3, CallerTypes, ConstantsAssumption DEF Basis, NoCrashInv, CurrOwned, Inside
<1>9. Verdicts'
  BY <1>2, <1>3, <1>8 DEF Verdicts
<1>10. Awaited'
  BY <1>8 DEF Awaited
<1> QED BY <1>6, <1>7, <1>9, <1>10 DEF Carried

\* The request is published; the call has still nothing of its own on its way.
LEMMA PublishCarries == ASSUME Basis, NEW s \in Senders, Publish(s) PROVE Carried'
<1>1. /\ pc[s] = "publish" /\ pc' = [pc EXCEPT ![s] = "write"] /\ currReq' = cmd[s].req
      /\ UNCHANGED <<mutex, cmd, resp, sem, curr, rpc, chunk, ioBroken, orphaned, tx, rx, answer>>
  BY DEF Publish, readerVars, portVars, historyVars
<1>b. broken' = broken
  BY Zenon DEF Publish, portVars
<1>2. CurrOwned /\ Held /\ Queued /\ Verdicts /\ Awaited
  BY DEF Basis, NoCrashInv, Carried
<1>3. mutex = s /\ pc'[s] = "write" /\ \A t \in Senders \ {s} : pc'[t] = pc[t]
  BY <1>1, <1>2, CallerTypes DEF CurrOwned, Inside
<1>4. (Reading' <=> Reading) /\ Rest' = Rest /\ Coming' = Coming
  BY <1>1 DEF Reading, Rest, Coming, Elements
<1>5. Held'
  BY <1>1, <1>2, <1>3 DEF Held, CurrOwned
<1>6. \A l : ~ OfWaiting(l)
  BY <1>1, <1>3 DEF OfWaiting
<1>7. Queued'
  BY <1>1, <1>2, <1>3, <1>4, <1>6 DEF Queued
<1>8. Verdicts'
  BY <1>1, <1>b, <1>2, <1>3, <1>4 DEF Verdicts, Told
<1>9. Awaited'
  BY <1>1, <1>2, <1>3, <1>4 DEF Awaited
<1> QED BY <1>5, <1>7, <1>8, <1>9 DEF Carried

\* A command that is written is the only one that the modem has to read.
LEMMA WriteCarries == ASSUME Basis, NEW s \in Senders, Write(s) PROVE Carried'
<1>1. /\ pc[s] = "write" /\ pc' = [pc EXCEPT ![s] = "wait"]
      /\ tx' = Append(tx, cmd[s])
      /\ UNCHANGED <<mutex, cmd, resp, sem, curr, currReq, rpc, chunk, ioBroken, orphaned, rx,
                     answer>>
  BY DEF Write, chanVars, readerVars, historyVars
<1>b. ~ broken
  BY Zenon DEF Write
<1>2. CurrOwned /\ HandOver /\ Numbers /\ Held /\ Queued /\ Verdicts
  BY DEF Basis, NoCrashInv, Carried
<1>3. mutex = s
  BY <1>1, <1>2 DEF CurrOwned, Inside
<1>4. answer[cmd[s].id] = NoAnswer
  BY <1>1, <1>2 DEF Numbers
<1>5. sem = 0 /\ rpc \notin {"clear", "post", "brokenClear", "brokenPost"}
  <2>1. rpc \notin {"clear", "post"}
    BY <1>1, <1>2, <1>3 DEF Verdicts
  <2>2. rpc \notin {"brokenClear", "brokenPost"}
    BY <1>b DEF Basis, LossInv, Reported, AtLoss
  <2>3. ~ sem > 0
    BY <1>b, <1>2, <1>3, <1>4, ConstantsAssumption DEF Verdicts, Told
  <2> QED BY <2>1, <2>2, <2>3, CallerTypes
<1>6. (Reading' <=> Reading) /\ Rest' = Rest /\ Coming' = Coming
  BY <1>1 DEF Reading, Rest, Coming, Elements
<1>7. Held'
  BY <1>1, <1>2 DEF Held
<1>8. pc'[s] = "wait" /\ \A t \in Senders \ {s} : pc'[t] # "wait"
  BY <1>1, <1>2, <1>3, CallerTypes DEF CurrOwned, Inside
<1>9. Queued'
  <2>1. SUFFICES ASSUME Reading PROVE Queued'
    BY <1>6 DEF Queued
  <2>2. \A l \in Coming : l.from = 0 /\ ~ Ending(l)
    BY <1>1, <1>2, <1>3, <2>1 DEF Queued, OfWaiting
  <2>3. Elements(tx) = {}
    BY <1>1, <1>2, <1>3, <2>1 DEF Queued
  <2>4. tx \in Seq(Command) /\ cmd[s] \in Command
    BY <1>1, CallerTypes, ConstantsAssumption DEF Basis, NoCrashInv, TypeInv, Busy, Command
  <2>5. Elements(Append(tx, cmd[s])) = Elements(tx) \cup {cmd[s]}
    BY <2>4, CommandQueues, Zenon
  <2>6. \A c \in Elements(tx') : c = cmd[s]
    BY <1>1, <2>3, <2>5
  <2>7. Ends(Rest) /\ Ends(rx)
    BY <1>2, <2>1 DEF Queued
  <2>8. mutex' # None
    BY <1>1, <1>3, ConstantsAssumption
  <2>9. \A l \in Elements(Rest) \cup Elements(rx) : l.from = 0 /\ ~ Ending(l)
    BY <2>2 DEF Coming
  <2> QED BY <1>1, <1>3, <1>6, <1>8, <2>2, <2>6, <2>7, <2>8, <2>9 DEF Queued
<1>10. Verdicts'
  BY <1>1, <1>3, <1>5, <1>8 DEF Verdicts
<1>11. Awaited'
  BY <1>1, <1>4, <1>8 DEF Awaited
<1> QED BY <1>7, <1>9, <1>10, <1>11 DEF Carried

\* A call that has its token has its verdict, and nothing more of it is on its way.
LEMMA Served ==
  ASSUME Basis, mutex # None, sem > 0 \/ pc[mutex] = "done"
  PROVE  /\ Told(mutex) \/ (resp[mutex].error = "IO_BROKEN" /\ broken /\ ~ Reading)
         /\ rpc \notin {"clear", "post", "collect", "finish", "brokenClear", "brokenPost"}
         /\ Reading => Elements(tx) = {} /\ \A l \in Coming : l.from = 0 /\ ~ Ending(l)
<1>1. CurrOwned /\ HandOver /\ Numbers /\ Queued /\ Verdicts /\ ~ disturbed
  BY DEF Basis, NoCrashInv, Carried
<1>2. \/ Told(mutex) /\ (Reading => \A l \in Coming : l.from = 0)
      \/ resp[mutex].error = "IO_BROKEN" /\ broken /\ ~ Reading
  BY <1>1 DEF Verdicts
<1>3. rpc \notin {"clear", "post", "collect", "finish", "brokenClear", "brokenPost"}
  <2>1. sem > 0 => sem # 0 /\ curr = None
    BY <1>1 DEF HandOver
  <2>2. CASE sem > 0
    BY <1>1, <2>1, <2>2 DEF HandOver
  <2>3. CASE pc[mutex] = "done"
    <3>1. \A s \in Senders : ~ Waits(s)
      BY <1>1, <2>3, ConstantsAssumption DEF CurrOwned, Inside, Waits
    <3>2. curr = None
      BY <1>1, <3>1, CallerTypes DEF HandOver
    <3> QED BY <1>1, <2>3, <3>1, <3>2 DEF HandOver, Verdicts
  <2> QED BY <2>2, <2>3
<1>4. ASSUME Reading PROVE Elements(tx) = {} /\ \A l \in Coming : l.from = 0 /\ ~ Ending(l)
  <2>1. answer[cmd[mutex].id] # NoAnswer /\ \A l \in Coming : l.from = 0
    BY <1>2, <1>4 DEF Told
  <2>2. \A c \in Elements(tx) : c = cmd[mutex]
    BY <1>1, <1>4 DEF Queued
  <2>3. \A c \in Elements(tx) : answer[c.id] = NoAnswer
    BY <1>1 DEF Numbers
  <2> QED BY <1>1, <1>4, <2>1, <2>2, <2>3 DEF Queued
<1> QED BY <1>2, <1>3, <1>4

\* A call whose wait ends has the token that its final line has left.
LEMMA WaitCarries == ASSUME Basis, NEW s \in Senders, WaitPosted(s) PROVE Carried'
<1>1. /\ pc[s] = "wait" /\ pc' = [pc EXCEPT ![s] = "done"] /\ sem > 0
      /\ UNCHANGED <<mutex, cmd, resp, curr, currReq, rpc, chunk, ioBroken, orphaned, tx, rx,
                     answer>>
  BY DEF WaitPosted, readerVars, portVars, historyVars
<1>b. broken' = broken
  BY Zenon DEF WaitPosted, portVars
<1>2. CurrOwned /\ Held /\ Queued
  BY DEF Basis, NoCrashInv, Carried
<1>3. mutex = s /\ mutex # None
  BY <1>1, <1>2, ConstantsAssumption DEF CurrOwned, Inside
<1>4. /\ Told(s) \/ (resp[s].error = "IO_BROKEN" /\ broken /\ ~ Reading)
      /\ rpc \notin {"clear", "post", "collect", "finish", "brokenClear", "brokenPost"}
      /\ Reading => Elements(tx) = {} /\ \A l \in Coming : l.from = 0 /\ ~ Ending(l)
  BY <1>1, <1>3, Served
<1>5. (Reading' <=> Reading) /\ Rest' = Rest /\ Coming' = Coming
  BY <1>1 DEF Reading, Rest, Coming, Elements
<1>6. Held'
  BY <1>1, <1>2, <1>3, <1>4, CallerTypes DEF Held, CurrOwned
<1>7. Queued'
  <2>1. Reading => \A l \in Elements(rx) : l.from = 0
    BY <1>4 DEF Coming
  <2> QED BY <1>1, <1>2, <1>4, <1>5, <2>1 DEF Queued
<1>8. Told(s) => Told(s)'
  BY <1>1 DEF Told
<1>9. Verdicts'
  BY <1>1, <1>b, <1>3, <1>4, <1>5, <1>8 DEF Verdicts
<1>10. \A t \in Senders : pc'[t] # "wait"
  BY <1>1, <1>2, <1>3, CallerTypes DEF CurrOwned, Inside
<1>11. Awaited'
  BY <1>10 DEF Awaited
<1> QED BY <1>6, <1>7, <1>9, <1>11 DEF Carried

\* A call that returns leaves nothing of its answer behind.
LEMMA ReleaseCarries == ASSUME Basis, NEW s \in Senders, Release(s) PROVE Carried'
<1>1. /\ pc[s] = "done" /\ pc' = [pc EXCEPT ![s] = "returned"]
      /\ mutex' = None /\ curr' = None
      /\ UNCHANGED <<sem, currReq, rpc, chunk, ioBroken, orphaned, tx, rx, answer>>
  BY DEF Release, readerVars, portVars, historyVars
<1>2. CurrOwned /\ Held /\ Queued
  BY DEF Basis, NoCrashInv, Carried
<1>3. mutex = s /\ mutex # None
  BY <1>1, <1>2, ConstantsAssumption DEF CurrOwned, Inside
<1>4. /\ rpc \notin {"clear", "post", "collect", "finish", "brokenClear", "brokenPost"}
      /\ Reading => Elements(tx) = {} /\ \A l \in Coming : l.from = 0 /\ ~ Ending(l)
  BY <1>1, <1>3, Served
<1>5. (Reading' <=> Reading) /\ Rest' = Rest /\ Coming' = Coming
  BY <1>1 DEF Reading, Rest, Coming, Elements
<1>6. Held'
  BY <1>1, <1>2 DEF Held
<1>7. Queued'
  <2>1. Reading => \A l \in Elements(rx) : l.from = 0
    BY <1>4 DEF Coming
  <2> QED BY <1>1, <1>2, <1>4, <1>5, <2>1 DEF Queued
<1>8. Verdicts'
  BY <1>1, <1>4 DEF Verdicts
<1>9. \A t \in Senders : pc'[t] # "wait"
  BY <1>1, <1>2, <1>3, CallerTypes DEF CurrOwned, Inside
<1>10. Awaited'
  BY <1>9 DEF Awaited
<1> QED BY <1>6, <1>7, <1>8, <1>10 DEF Carried

\* The steps of the threads that are not inside, and of start().
LEMMA OutsideCarries ==
  ASSUME Basis,
         \/ \E s \in Senders : (\E q \in Requests : Call(s, q)) \/ Return(s) \/ Join(s)
         \/ \E s \in Stoppers : Stop(s)
         \/ Start \/ DeviceLost \/ UNCHANGED vars
  PROVE  Carried'
<1>1. CurrOwned /\ Carried /\ Opened /\ mutex \in Senders \cup {None}
  BY CallerTypes DEF Basis, NoCrashInv, LossInv
<1>2. CASE \/ \E s \in Senders : (\E q \in Requests : Call(s, q)) \/ Return(s) \/ Join(s)
           \/ \E s \in Stoppers : Stop(s)
  <2>1. PICK s \in Senders : \/ (\E q \in Requests : Call(s, q)) \/ Return(s) \/ Join(s)
                             \/ s \in Stoppers /\ Stop(s)
    BY <1>2, ConstantsAssumption
  <2>2. UNCHANGED <<mutex, sem, curr, currReq, rpc, chunk, ioBroken, orphaned, tx, rx, answer,
                    resp, broken>>
    BY <2>1, Zenon DEF Call, Return, Join, Stop, chanVars, readerVars, portVars, historyVars
  <2>3. /\ ~ Inside(s) /\ pc'[s] # "wait"
        /\ \A t \in Senders \ {s} : pc'[t] = pc[t]
    BY <2>1, CallerTypes DEF Call, Return, Join, Stop, Inside
  <2>4. \A t \in Senders \ {s} : cmd'[t] = cmd[t]
    BY <2>1, CallerTypes DEF Call, Return, Join, Stop
  <2>5. \A t \in Senders : Inside(t) =>
           pc'[t] = pc[t] /\ cmd'[t] = cmd[t] /\ resp'[t].error = resp[t].error
    BY <2>2, <2>3, <2>4
  <2>6. \A t \in Senders : pc'[t] = "wait" => Inside(t)
    BY <2>3 DEF Inside
  <2> QED BY <1>1, <2>2, <2>5, <2>6, CarriedKept
<1>3. CASE Start
  <2>1. /\ rpc = "off" /\ rpc' = "top"
        /\ UNCHANGED <<pc, cmd, resp, mutex, sem, curr, currReq, chunk, ioBroken, orphaned, tx, rx,
                       answer>>
    BY <1>1, <1>3, Zenon DEF Start, Opened, callerVars, portVars, historyVars
  <2>2. (Reading' <=> Reading) /\ Rest' = Rest /\ Coming' = Coming
    BY <2>1 DEF Reading, Rest, Coming, Elements
  <2>3. Held'
    BY <1>1, <2>1 DEF Carried, Held
  <2>4. \A l : OfWaiting(l) => OfWaiting(l)'
    BY <2>1 DEF OfWaiting
  <2>5. Queued'
    BY <1>1, <2>1, <2>2, <2>4 DEF Carried, Queued
  <2>6. Reading
    BY <2>1, <1>1 DEF Basis, LossInv, Halted, Reading
  <2>7. Verdicts'
    BY <1>1, <2>1, <2>2, <2>6 DEF Carried, Verdicts, Told
  <2>8. Awaited'
    BY <1>1, <2>1, <2>2 DEF Carried, Awaited
  <2> QED BY <2>3, <2>5, <2>7, <2>8 DEF Carried
<1>4. CASE DeviceLost \/ UNCHANGED vars
  <2>1. /\ UNCHANGED <<pc, cmd, resp, mutex, sem, curr, currReq, rpc, chunk, ioBroken, orphaned, tx,
                       rx, answer>>
        /\ broken' = broken \/ broken' = TRUE
    BY <1>4, Zenon DEF DeviceLost, vars, callerVars, chanVars, readerVars, portVars, historyVars
  <2>2. \A t \in Senders : pc'[t] = "wait" => Inside(t)
    BY <2>1 DEF Inside
  <2> QED BY <1>1, <2>1, <2>2, CarriedKept
<1> QED BY <1>2, <1>3, <1>4

\* The reader goes on to the next line, or stops reading.
LEMMA QueuedShrinks ==
  ASSUME Basis, UNCHANGED <<pc, cmd, mutex, answer, tx>>,
         Reading' => /\ Reading /\ rx' = rx
                     /\ Rest' = Rest \/ (Rest # <<>> /\ Rest' = Tail(Rest))
  PROVE  Queued' /\ (Reading' => Coming' \subseteq Coming)
<1> SUFFICES ASSUME Reading' PROVE Queued' /\ Coming' \subseteq Coming
  BY DEF Queued
<1>1. /\ Reading /\ rx' = rx
      /\ Rest' = Rest \/ (Rest # <<>> /\ Rest' = Tail(Rest))
  OBVIOUS
<1>2. Queued
  BY DEF Basis, Carried
<1>3. /\ \A l \in Coming : IF l.from = 0 THEN ~ Ending(l) ELSE OfWaiting(l)
      /\ Ends(Rest) /\ Ends(rx)
      /\ (\E l \in Elements(Rest) : Ending(l)) => \A l \in Elements(rx) : l.from = 0
      /\ \A c \in Elements(tx) : mutex # None /\ pc[mutex] = "wait" /\ c = cmd[mutex]
  BY <1>1, <1>2 DEF Queued
<1>4. Rest \in Seq(Line)
  <2>1. chunk \in Seq(Line)
    BY CallerTypes
  <2>2. rpc \in {"clear", "post", "reclear"} => chunk # <<>>
    BY DEF Basis, NoCrashInv, TypeInv, Busy
  <2>3. chunk # <<>> => Tail(chunk) \in Seq(Line)
    BY <2>1, SeqFacts, Zenon
  <2> QED BY <2>1, <2>2, <2>3 DEF Rest
<1>5. Rest # <<>> => /\ Elements(Rest) = {Head(Rest)} \cup Elements(Tail(Rest))
                     /\ Ends(Rest) => Ends(Tail(Rest))
  BY <1>4, TailFacts, Zenon
<1>6. Elements(Rest') \subseteq Elements(Rest) /\ Ends(Rest')
  BY <1>1, <1>3, <1>5
<1>7. Elements(rx') = Elements(rx)
  BY <1>1
<1>8. Coming' \subseteq Coming
  BY <1>6, <1>7 DEF Coming
<1>9. \A l : OfWaiting(l)' <=> OfWaiting(l)
  BY DEF OfWaiting
<1>10. Queued'
  BY <1>1, <1>3, <1>6, <1>7, <1>8, <1>9 DEF Queued
<1> QED BY <1>8, <1>10

\* The steps of the reader that handle no line.
LEMMA QuietCarries ==
  ASSUME Basis,
         \/ ReaderTop \/ PollWoken \/ PollBroken \/ BrokenTest \/ CallBroken \/ ClearCurrent
  PROVE  Carried'
<1>1. UNCHANGED <<pc, cmd, resp, mutex, answer, tx, rx, sem, chunk, currReq, broken, orphaned>>
  BY Zenon DEF ReaderTop, PollWoken, PollBroken, BrokenTest, CallBroken, ClearCurrent, callerVars,
               chanVars, portVars, historyVars
<1>2. curr' = curr \/ (rpc \in {"clear", "brokenClear"} /\ curr' = None)
  BY Zenon DEF ReaderTop, PollWoken, PollBroken, BrokenTest, CallBroken, ClearCurrent, chanVars
<1>3. \/ rpc \in {"top", "poll", "broken"} /\ rpc' \in {"exit", "broken", "brokenCall", "brokenFinish"}
      \/ rpc \in {"top", "poll"} /\ rpc' \in {"top", "poll"}
      \/ rpc = "clear" /\ rpc' = "post"
      \/ rpc = "brokenClear" /\ rpc' = "brokenPost"
      \/ rpc = "brokenCall" /\ rpc' = "top"
  BY DEF ReaderTop, PollWoken, PollBroken, BrokenTest, CallBroken, ClearCurrent
<1>4. ioBroken' = ioBroken \/ (rpc = "brokenCall" /\ ioBroken' = TRUE)
  BY Zenon DEF ReaderTop, PollWoken, PollBroken, BrokenTest, CallBroken, ClearCurrent
<1>5. rpc = "brokenCall" => ioBroken' = TRUE
  BY DEF ReaderTop, PollWoken, PollBroken, BrokenTest, CallBroken, ClearCurrent
<1>6. Reading' => Reading /\ Rest' = Rest
  BY <1>1, <1>3, <1>4, <1>5 DEF Reading, Rest
<1>7. Held /\ Verdicts /\ Awaited
  BY DEF Basis, Carried
<1>8. Held'
  BY <1>1, <1>2, <1>3, <1>7 DEF Held
<1>9. Queued' /\ (Reading' => Coming' \subseteq Coming)
  BY <1>1, <1>6, QueuedShrinks
<1>10. Verdicts'
  BY <1>1, <1>3, <1>6, <1>7, <1>9 DEF Verdicts, Told
<1>11. Reading' => Coming' = Coming
  BY <1>1, <1>6 DEF Coming, Elements
<1>12. Awaited'
  BY <1>1, <1>3, <1>6, <1>7, <1>11 DEF Awaited
<1> QED BY <1>8, <1>9, <1>10, <1>12 DEF Carried

\* The reader tells the caller inside that the device is lost.
LEMMA BrokenCarries == ASSUME Basis, FinishBroken \/ PostBroken PROVE Carried'
<1>1. UNCHANGED <<pc, cmd, mutex, answer, tx, rx, chunk, curr, currReq, broken, orphaned, ioBroken>>
  BY Zenon DEF FinishBroken, PostBroken, callerVars, chanVars, portVars, historyVars
<1>2. HandOver /\ Held /\ Verdicts /\ CurrOwned /\ ~ disturbed /\ Reported
  BY DEF Basis, NoCrashInv, Carried, LossInv
<1>3. \/ rpc = "brokenFinish" /\ rpc' = "brokenClear"
      \/ rpc = "brokenPost" /\ rpc' = "brokenCall"
  BY <1>2 DEF FinishBroken, PostBroken, HandOver, Deref
<1>4. ~ Reading' /\ Queued'
  BY <1>3 DEF Reading, Queued
<1>5. Held'
  BY <1>1, <1>2, <1>3 DEF Held
<1>6. Awaited'
  BY <1>4 DEF Awaited
<1>7. broken
  BY <1>2, <1>3 DEF Reported, AtLoss
<1>8. CASE FinishBroken
  <2>1. /\ rpc = "brokenFinish" /\ rptr = curr /\ mutex = curr /\ curr \in Senders
        /\ Waits(curr) /\ sem = 0
    BY <1>2, <1>8, CallerTypes DEF FinishBroken, HandOver, CurrOwned
  <2>2. resp' = [resp EXCEPT ![curr].error = "IO_BROKEN"] /\ rpc' = "brokenClear" /\ sem' = sem
    BY <1>2, <1>8, <2>1, ConstantsAssumption DEF FinishBroken, Deref, chanVars, HandOver
  <2>3. resp'[curr].error = "IO_BROKEN"
    BY <2>1, <2>2, CallerTypes DEF Response
  <2>4. pc'[mutex] # "done" /\ ~ sem' > 0 /\ mutex' # None
    BY <1>1, <2>1, <2>2, ConstantsAssumption DEF Waits
  <2> QED
    <3>1. Verdicts'
      BY <1>1, <2>1, <2>2, <2>3, <2>4 DEF Verdicts
    <3> QED BY <1>4, <1>5, <1>6, <3>1 DEF Carried
<1>9. CASE PostBroken
  <2>1. rpc = "brokenPost" /\ rpc' = "brokenCall" /\ resp' = resp
    BY <1>9 DEF PostBroken, callerVars
  <2>2. mutex # None /\ resp[mutex].error = "IO_BROKEN"
    BY <1>2, <2>1 DEF Verdicts
  <2>3. Verdicts'
    BY <1>1, <1>4, <1>7, <2>1, <2>2 DEF Verdicts
  <2> QED BY <1>4, <1>5, <1>6, <2>3 DEF Carried
<1> QED BY <1>8, <1>9

\* The line at hand, by what it says, and what follows it.
LEMMA LineAtHand ==
  ASSUME Basis, Reading, rpc \in {"line", "collect", "finish"}
  PROVE  /\ chunk # <<>> /\ Rest = chunk
         /\ Head(chunk) \in Coming
         /\ Elements(chunk) = {Head(chunk)} \cup Elements(Tail(chunk))
         /\ Ending(Head(chunk)) =>
              /\ OfWaiting(Head(chunk))
              /\ \A l \in Elements(Tail(chunk)) \cup Elements(rx) : l.from = 0
<1>1. chunk # <<>> /\ Rest = chunk
  BY DEF Basis, NoCrashInv, TypeInv, Busy, Rest
<1>2. chunk \in Seq(Line)
  BY CallerTypes
<1>3. /\ Elements(chunk) = {Head(chunk)} \cup Elements(Tail(chunk))
      /\ Ends(chunk) /\ Ending(Head(chunk)) => \A l \in Elements(Tail(chunk)) : l.from = 0
  BY <1>1, <1>2, TailFacts, Zenon
<1>4. Queued
  BY DEF Basis, Carried
<1>5. Head(chunk) \in Coming
  BY <1>1, <1>3 DEF Coming
<1>6. ASSUME Ending(Head(chunk))
      PROVE  /\ OfWaiting(Head(chunk))
             /\ \A l \in Elements(Tail(chunk)) \cup Elements(rx) : l.from = 0
  BY <1>1, <1>3, <1>4, <1>5, <1>6 DEF Queued
<1> QED BY <1>1, <1>3, <1>5, <1>6

\* While the reader has a line at hand it is reading.
LEMMA AtLine ==
  ASSUME Basis, rpc \in {"line", "collect", "finish", "clear", "post", "reclear"}
  PROVE  Reading
BY DEF Basis, LossInv, Halted, Reading

\* A final line for the call that waits ends a chunk's part of its answer: what is
\* dropped before it is taken is no final line of that call, unless it has its token.
LEMMA DropCarries ==
  ASSUME Basis, rpc \in {"line", "collect"}, NextLine,
         UNCHANGED <<pc, cmd, mutex, answer, tx, rx, sem, curr, currReq, broken, orphaned, ioBroken>>,
         \A s \in Senders : resp'[s].error = resp[s].error,
         curr # None => ~ IsFinal(Head(chunk), cmd[curr].req)
  PROVE  Carried'
<1>1. Reading
  BY AtLine
<1>2. /\ chunk # <<>> /\ Rest = chunk
      /\ Elements(chunk) = {Head(chunk)} \cup Elements(Tail(chunk))
      /\ Ending(Head(chunk)) => OfWaiting(Head(chunk))
  BY <1>1, LineAtHand
<1>3. /\ chunk' = Tail(chunk) /\ rpc' \in {"top", "line"}
      /\ rpc' = "top" => chunk' = <<>>
  BY DEF NextLine
<1>4. Reading' /\ Rest' = Tail(Rest)
  BY <1>1, <1>2, <1>3 DEF Reading, Rest
<1>5. Queued' /\ Coming' \subseteq Coming
  BY <1>1, <1>2, <1>4, QueuedShrinks
<1>6. CurrOwned /\ Posted /\ Held /\ Verdicts /\ Awaited
  BY DEF Basis, NoCrashInv, LossInv, Carried
<1>7. Held'
  BY <1>3, <1>6 DEF Held
<1>8. Verdicts'
  <2>1. mutex # None => (Told(mutex) => Told(mutex)')
    BY <1>6, CallerTypes DEF Told
  <2>2. mutex # None => resp'[mutex].error = resp[mutex].error
    BY CallerTypes
  <2> QED BY <1>1, <1>3, <1>4, <1>5, <1>6, <2>1, <2>2 DEF Verdicts
<1>9. Awaited'
  <2> SUFFICES ASSUME ~ orphaned, NEW s \in Senders, pc[s] = "wait",
                      answer[cmd[s].id] # NoAnswer, ~ sem > 0
               PROVE  \E l \in Coming' : l.from = cmd[s].id /\ Ending(l)
    BY DEF Awaited
  <2>1. mutex = s /\ mutex # None
    BY <1>6, ConstantsAssumption DEF CurrOwned, Inside
  <2>2. curr = s
    <3>1. curr # None
      BY <1>6 DEF Posted, Waits
    <3> QED BY <1>6, <2>1, <3>1 DEF CurrOwned, Held
  <2>3. PICK l \in Coming : l.from = cmd[s].id /\ Ending(l)
    BY <1>1, <1>6 DEF Awaited
  <2>4. ~ Ending(Head(chunk))
    BY <1>2, <2>1, <2>2, ConstantsAssumption DEF OfWaiting
  <2>5. l # Head(chunk)
    BY <2>3, <2>4
  <2>6. l \in Elements(Tail(chunk)) \cup Elements(rx)
    BY <1>2, <2>3, <2>5 DEF Coming
  <2>7. Coming' = Elements(Tail(chunk)) \cup Elements(rx)
    BY <1>2, <1>4 DEF Coming, Elements
  <2> QED BY <2>3, <2>6, <2>7
<1> QED BY <1>5, <1>7, <1>8, <1>9 DEF Carried

\* A final line for a call ends an answer.
LEMMA FinalEnds == \A l, q : IsFinal(l, q) => Ending(l)
BY Zenon DEF IsFinal, IsSuccessResponse, IsErrorResponse, Ending

\* The kind by which a line is judged is that of the call, but for a line that is of no
\* answer and comes before the kind is published.
LEMMA Judged ==
  ASSUME Basis, rpc = "line", curr # None, NEW q \in Seen
  PROVE  q = cmd[curr].req \/ (Head(chunk).from = 0 /\ ~ Ending(Head(chunk)))
<1>1. CASE pc[curr] = "publish"
  <2>1. mutex = curr /\ Queued
    BY DEF Basis, NoCrashInv, CurrOwned, Carried
  <2>2. Reading /\ Head(chunk) \in Coming
    BY AtLine, LineAtHand
  <2>3. ~ OfWaiting(Head(chunk))
    BY <1>1, <2>1 DEF OfWaiting
  <2> QED BY <2>1, <2>2, <2>3 DEF Queued
<1>2. CASE pc[curr] # "publish"
  <2>1. Seen = {currReq}
    BY <1>2 DEF Seen
  <2>2. currReq = cmd[curr].req
    BY <1>2 DEF Basis, Carried, Held
  <2> QED BY <2>1, <2>2
<1> QED BY <1>1, <1>2

\* The test of a line: see handleLine().
LEMMA TestCarries == ASSUME Basis, TestLine PROVE Carried'
<1>1. /\ rpc = "line"
      /\ UNCHANGED <<pc, cmd, mutex, answer, tx, rx, sem, curr, currReq, broken, orphaned,
                     ioBroken, resp>>
  BY Zenon DEF TestLine, callerVars, chanVars, portVars, historyVars
<1>2. CASE NextLine /\ (curr # None => ~ IsFinal(Head(chunk), cmd[curr].req))
  BY <1>1, <1>2, DropCarries
<1>3. CASE /\ chunk' = chunk
           /\ \/ rpc' = "finish" /\ IsFinal(Head(chunk), cmd[curr].req)
              \/ rpc' = "collect" /\ ~ IsFinal(Head(chunk), cmd[curr].req)
  <2>1. Reading
    BY <1>1, AtLine
  <2>2. Reading' /\ Rest' = Rest
    BY <1>1, <1>3, <2>1 DEF Reading, Rest
  <2>3. Coming' = Coming
    BY <1>1, <2>2 DEF Coming, Elements
  <2>4. Queued'
    BY <1>1, <2>1, <2>2, QueuedShrinks
  <2>5. Held /\ Verdicts /\ Awaited
    BY DEF Basis, Carried
  <2>6. Held'
    BY <1>1, <1>3, <2>5 DEF Held
  <2>7. Verdicts'
    BY <1>1, <1>3, <2>1, <2>2, <2>3, <2>5 DEF Verdicts, Told
  <2>8. Awaited'
    BY <1>1, <1>3, <2>1, <2>2, <2>3, <2>5 DEF Awaited
  <2> QED BY <2>4, <2>6, <2>7, <2>8 DEF Carried
<1>4. \/ NextLine /\ (curr # None => ~ IsFinal(Head(chunk), cmd[curr].req))
      \/ /\ chunk' = chunk
         /\ \/ rpc' = "finish" /\ IsFinal(Head(chunk), cmd[curr].req)
            \/ rpc' = "collect" /\ ~ IsFinal(Head(chunk), cmd[curr].req)
  <2>1. CASE curr = None
    BY <2>1 DEF TestLine
  <2>2. CASE curr # None
    <3>1. \E q \in Seen :
            \/ NextLine /\ ~ IsFinal(Head(chunk), q)
            \/ chunk' = chunk /\ rpc' = "finish" /\ IsFinal(Head(chunk), q)
            \/ chunk' = chunk /\ rpc' = "collect" /\ ~ IsFinal(Head(chunk), q)
      BY <2>2 DEF TestLine, IsCollected
    <3> QED BY <1>1, <2>2, <3>1, Judged, FinalEnds
  <2> QED BY <2>1, <2>2
<1> QED BY <1>2, <1>3, <1>4

\* A line is put into the response.
LEMMA CollectCarries == ASSUME Basis, CollectLine PROVE Carried'
<1>1. /\ rpc = "collect"
      /\ UNCHANGED <<pc, cmd, mutex, answer, tx, rx, sem, curr, currReq, broken, orphaned,
                     ioBroken>>
  BY Zenon DEF CollectLine, chanVars, portVars, historyVars
<1>2. curr # None /\ rptr = curr /\ ~ IsFinal(Head(chunk), cmd[curr].req)
  BY <1>1 DEF Basis, NoCrashInv, HandOver, Carried, Held
<1>3. NextLine /\ resp' = [resp EXCEPT ![curr].lines = Append(@, Head(chunk))]
  BY <1>2 DEF CollectLine, Deref
<1>4. \A s \in Senders : resp'[s].error = resp[s].error
  BY <1>3, CallerTypes DEF Response
<1> QED BY <1>1, <1>2, <1>3, <1>4, DropCarries

\* A final line gives the response the verdict that the modem has on this command.
LEMMA FinishCarries == ASSUME Basis, FinishLine PROVE Carried'
<1>1. /\ rpc = "finish"
      /\ UNCHANGED <<pc, cmd, mutex, answer, tx, rx, chunk, sem, curr, currReq, broken, orphaned,
                     ioBroken>>
  BY Zenon DEF FinishLine, chanVars, portVars, historyVars
<1>2. HandOver /\ Held /\ CurrOwned /\ ~ disturbed
  BY DEF Basis, NoCrashInv, Carried
<1>3. curr \in Senders /\ rptr = curr /\ mutex = curr /\ IsFinal(Head(chunk), cmd[curr].req)
  BY <1>1, <1>2, CallerTypes DEF HandOver, CurrOwned, Held
<1>4. rpc' = "clear" /\ resp' = [resp EXCEPT ![curr].error = Verdict(Head(chunk))]
  BY <1>3, ConstantsAssumption DEF FinishLine, Deref, Verdict
<1>5. Reading
  BY <1>1, AtLine
<1>6. Ending(Head(chunk))
  BY <1>3 DEF IsFinal, IsSuccessResponse, IsErrorResponse, Ending
<1>7. /\ chunk # <<>> /\ Rest = chunk /\ OfWaiting(Head(chunk))
      /\ \A l \in Elements(Tail(chunk)) \cup Elements(rx) : l.from = 0
  BY <1>1, <1>5, <1>6, LineAtHand
<1>8. Reading' /\ Rest' = Tail(Rest)
  BY <1>1, <1>4, <1>5, <1>7 DEF Reading, Rest
<1>9. Queued'
  BY <1>1, <1>5, <1>7, <1>8, QueuedShrinks
<1>10. Held'
  BY <1>1, <1>2, <1>4 DEF Held
<1>11. Verdicts'
  <2>1. /\ mutex # None /\ pc[mutex] = "wait" /\ answer[cmd[mutex].id] # NoAnswer
        /\ Verdict(Head(chunk)) = answer[cmd[mutex].id].verdict
    BY <1>6, <1>7 DEF OfWaiting
  <2>2. resp'[mutex].error = Verdict(Head(chunk))
    BY <1>3, <1>4, CallerTypes DEF Response
  <2>3. Told(mutex)'
    BY <1>1, <2>1, <2>2 DEF Told
  <2>4. \A l \in Coming' : l.from = 0
    BY <1>1, <1>7, <1>8 DEF Coming, Elements
  <2> QED BY <1>1, <1>4, <2>1, <2>3, <2>4 DEF Verdicts
<1>12. Awaited'
  BY <1>4 DEF Awaited
<1> QED BY <1>9, <1>10, <1>11, <1>12 DEF Carried

\* The post leaves a token, and the line is done with at last.
LEMMA PostCarries == ASSUME Basis, PostLine \/ ClearAgain PROVE Carried'
<1>1. /\ rpc \in {"post", "reclear"}
      /\ UNCHANGED <<pc, cmd, resp, mutex, answer, tx, rx, currReq, broken, ioBroken>>
  BY Zenon DEF PostLine, ClearAgain, callerVars, portVars, historyVars
<1>2. \/ chunk' = Tail(chunk) /\ rpc' = "line"
      \/ chunk' = Tail(chunk) /\ rpc' = "top" /\ chunk' = <<>>
      \/ chunk' = chunk /\ rpc' = "reclear"
  BY DEF PostLine, ClearAgain, NextLine
<1>3. Reading
  BY <1>1, AtLine
<1>4. Reading' /\ Rest' = Rest
  BY <1>1, <1>2, <1>3 DEF Reading, Rest
<1>5. Queued'
  BY <1>1, <1>3, <1>4, QueuedShrinks
<1>6. Coming' = Coming
  BY <1>1, <1>4 DEF Coming, Elements
<1>7. Held /\ Verdicts /\ Awaited
  BY DEF Basis, Carried
<1>8. curr' = curr \/ curr' = None
  BY DEF PostLine, ClearAgain
<1>9. Held'
  BY <1>1, <1>2, <1>7, <1>8 DEF Held
<1>10. CASE PostLine
  <2>1. rpc = "post" /\ sem' = sem + 1
    BY <1>10 DEF PostLine
  <2>2. sem' > 0
    BY <2>1, CallerTypes
  <2>3. Verdicts'
    BY <1>1, <1>2, <1>3, <1>4, <1>6, <1>7, <2>1 DEF Verdicts, Told
  <2>4. Awaited'
    BY <2>2 DEF Awaited
  <2> QED BY <1>5, <1>9, <2>3, <2>4 DEF Carried
<1>11. CASE ClearAgain
  <2>1. rpc = "reclear" /\ sem' = sem
    BY <1>11 DEF ClearAgain
  <2>2. ~ orphaned' => ~ orphaned
    BY <1>11, Zenon DEF ClearAgain
  <2>3. Verdicts'
    BY <1>1, <1>2, <1>3, <1>4, <1>6, <1>7, <2>1 DEF Verdicts, Told
  <2>4. Awaited'
    BY <1>1, <1>2, <1>3, <1>4, <1>6, <1>7, <2>1, <2>2 DEF Awaited
  <2> QED BY <1>5, <1>9, <2>3, <2>4 DEF Carried
<1> QED BY <1>10, <1>11

\* A chunk is cut off the lines that have come in.
LEMMA PollCarries == ASSUME Basis, PollData PROVE Carried'
<1>1. /\ rpc = "poll"
      /\ UNCHANGED <<pc, cmd, resp, mutex, answer, tx, sem, curr, currReq, broken, orphaned, ioBroken>>
  BY Zenon DEF PollData, callerVars, chanVars, portVars, historyVars
<1>2. PICK n \in 1 .. Len(rx) :
        /\ rx' = SubSeq(rx, n + 1, Len(rx))
        /\ chunk' = IF stop THEN <<>> ELSE SubSeq(rx, 1, n)
  BY DEF PollData
<1>3. Held /\ Queued /\ Verdicts /\ Awaited /\ rx \in Seq(Line)
  BY CallerTypes DEF Basis, Carried
<1>4. Rest = <<>> /\ Elements(Rest) = {}
  BY <1>1, <1>3 DEF Held, Rest, Elements
<1>5. CASE stop
  <2>1. rpc' = "exit" /\ chunk' = <<>>
    BY <1>2, <1>5 DEF PollData
  <2>2. ~ Reading'
    BY <2>1 DEF Reading
  <2>3. Held'
    BY <1>1, <1>3, <2>1 DEF Held
  <2>4. Queued' /\ Awaited'
    BY <2>2 DEF Queued, Awaited
  <2>5. Verdicts'
    BY <1>1, <1>3, <2>1, <2>2 DEF Verdicts, Told
  <2> QED BY <2>3, <2>4, <2>5 DEF Carried
<1>6. CASE ~ stop
  <2>1. rpc' = "line" /\ chunk' = SubSeq(rx, 1, n)
    BY <1>2, <1>6, Zenon DEF PollData
  <2>2. Reading' <=> Reading
    BY <1>1, <2>1 DEF Reading
  <2>3. Rest' = SubSeq(rx, 1, n)
    BY <2>1 DEF Rest
  <2>4. n \in 0 .. Len(rx)
    BY <1>3
  <2>5. LET a == SubSeq(rx, 1, n)
            b == SubSeq(rx, n + 1, Len(rx))
        IN  /\ a \in Seq(Line) /\ b \in Seq(Line)
            /\ Elements(rx) = Elements(a) \cup Elements(b)
            /\ Ends(rx) => /\ Ends(a) /\ Ends(b)
                           /\ (\E l \in Elements(a) : Ending(l)) =>
                                \A l \in Elements(b) : l.from = 0
    BY <1>3, <2>4, SplitFacts, Zenon
  <2>6. /\ Elements(rx) = Elements(Rest') \cup Elements(rx')
        /\ Ends(rx) => /\ Ends(Rest') /\ Ends(rx')
                       /\ (\E l \in Elements(Rest') : Ending(l)) =>
                            \A l \in Elements(rx') : l.from = 0
    BY <1>2, <2>3, <2>5
  <2>7. Coming' = Coming
    BY <1>4, <2>6 DEF Coming, Elements
  <2>8. \A l : OfWaiting(l)' <=> OfWaiting(l)
    BY <1>1 DEF OfWaiting
  <2>9. Queued'
    BY <1>1, <1>3, <2>2, <2>6, <2>7, <2>8 DEF Queued
  <2>10. Held'
    BY <1>1, <1>3, <2>1 DEF Held
  <2>11. Verdicts'
    BY <1>1, <1>3, <2>1, <2>2, <2>7 DEF Verdicts, Told
  <2>12. Awaited'
    BY <1>1, <1>3, <2>1, <2>2, <2>7 DEF Awaited
  <2> QED BY <2>9, <2>10, <2>11, <2>12 DEF Carried
<1> QED BY <1>5, <1>6

\* The lines of an answer before its final line.
LEMMA BodyLines ==
  ASSUME NEW c \in Command, NEW body \in Bodies(c)
  PROVE  \A l \in Elements(body) : l.from = c.id /\ ~ Ending(l)
<1> DEFINE asked == [from |-> c.id, kind |-> "prefix", prefix |-> c.req.prefix]
           digit == [from |-> c.id, kind |-> "digit", prefix |-> None]
           text  == [from |-> c.id, kind |-> "text", prefix |-> None]
<1>0. \A l : l.kind = "prefix" \/ l.kind = "digit" \/ l.kind = "text" => ~ Ending(l)
  BY Zenon DEF Ending
<1>1. \A l \in {asked, digit, text} : l.from = c.id /\ ~ Ending(l)
  <2>1. \A l \in {asked, digit, text} :
          l.from = c.id /\ (l.kind = "prefix" \/ l.kind = "digit" \/ l.kind = "text")
    OBVIOUS
  <2> QED BY <1>0, <2>1
<1>2. body \in {<<>>, <<asked>>, <<asked, text>>, <<digit>>, <<text>>}
  BY DEF Bodies
<1> HIDE DEF asked, digit, text
<1>3. \A i \in DOMAIN body : body[i] \in {asked, digit, text}
  BY <1>2
<1> QED BY <1>1, <1>3 DEF Elements

\* The final line of an answer is final for its call and has the verdict.
LEMMA FinalFacts ==
  ASSUME NEW q, NEW v \in {"SUCCESS", "ERROR"}, NEW k \in Finals(q, v),
         NEW l, l.kind = k
  PROVE  Ending(l) /\ Verdict(l) = v /\ IsFinal(l, q)
<1>1. CASE v = "SUCCESS"
  <2>1. k = "OK" \/ (k = "CONNECT" /\ q.type = "DIAL")
    BY <1>1 DEF Finals
  <2> QED BY <1>1, <2>1 DEF Ending, Verdict, IsFinal, IsSuccessResponse
<1>2. CASE v = "ERROR"
  <2>1. k = "ERROR" \/ (k = "NO CARRIER" /\ q.type = "DIAL")
    BY <1>2 DEF Finals
  <2> QED BY <1>2, <2>1 DEF Ending, Verdict, IsFinal, IsErrorResponse
<1> QED BY <1>1, <1>2

\* The lines of an answer are in transit after all the others, its final line last.
LEMMA AnswerCarries == ASSUME Basis, ModemAnswers PROVE Carried'
<1>1. /\ tx # <<>> /\ tx' = Tail(tx)
      /\ UNCHANGED <<pc, cmd, resp, mutex, sem, curr, currReq, rpc, chunk, broken, orphaned, ioBroken>>
  BY Zenon DEF ModemAnswers, callerVars, chanVars, readerVars
<1> DEFINE c == Head(tx)
<1>p. PICK body \in Bodies(c), verdict \in {"SUCCESS", "ERROR"} :
        /\ \E final \in Finals(c.req, verdict) :
             rx' = Append(rx \o body, [from |-> c.id, kind |-> final, prefix |-> None])
        /\ answer' = [answer EXCEPT ![c.id] = [verdict |-> verdict, lines |-> body]]
  BY DEF ModemAnswers
<1>q. PICK final \in Finals(c.req, verdict) :
        rx' = Append(rx \o body, [from |-> c.id, kind |-> final, prefix |-> None])
  BY <1>p
<1>2. /\ rx' = Append(rx \o body, [from |-> c.id, kind |-> final, prefix |-> None])
      /\ answer' = [answer EXCEPT ![c.id] = [verdict |-> verdict, lines |-> body]]
  BY <1>p, <1>q
<1> DEFINE last == [from |-> c.id, kind |-> final, prefix |-> None]
<1> HIDE DEF c, last
<1>3. Held /\ Queued /\ Verdicts /\ Awaited /\ Numbers /\ CurrOwned
  BY DEF Basis, NoCrashInv, Carried
<1>t. /\ tx \in Seq(Command) /\ rx \in Seq(Line)
      /\ answer \in [Ids -> [verdict : {"SUCCESS", "ERROR", "TIMEOUT"}, lines : Seq(Line)]]
  BY CallerTypes
<1>4. /\ c \in Command /\ c \in Elements(tx)
      /\ Elements(Tail(tx)) \subseteq Elements(tx)
      /\ \A d \in Elements(Tail(tx)) : d.id # c.id
  <2>1. /\ Head(tx) \in Command
        /\ Elements(tx) = {Head(tx)} \cup Elements(Tail(tx))
        /\ Singly(tx) => \A d \in Elements(Tail(tx)) : d.id # Head(tx).id
    BY <1>1, <1>t, TailFacts, Zenon
  <2> QED BY <1>3, <2>1 DEF Numbers, c
<1>5. c.id \in Ids /\ c.req \in Request /\ answer[c.id] = NoAnswer
  BY <1>3, <1>4 DEF Command, Numbers
<1>6. /\ answer'[c.id].verdict = verdict /\ answer'[c.id] # NoAnswer
      /\ \A i \in Ids \ {c.id} : answer'[i] = answer[i]
  <2>1. answer'[c.id] = [verdict |-> verdict, lines |-> body]
    BY <1>2, <1>5, <1>t
  <2>2. answer'[c.id].verdict = verdict /\ verdict # "TIMEOUT"
    BY <2>1
  <2>3. NoAnswer.verdict = "TIMEOUT"
    BY DEF NoAnswer
  <2>4. \A i \in Ids \ {c.id} : answer'[i] = answer[i]
    BY <1>2, <1>5, <1>t
  <2> QED BY <2>2, <2>3, <2>4
<1>7. body \in Seq(Line) /\ \A l \in Elements(body) : l.from = c.id /\ ~ Ending(l)
  BY <1>4, BodyFacts, BodyLines DEF Command
<1>8. /\ last.from = c.id /\ Ending(last) /\ Verdict(last) = verdict /\ IsFinal(last, c.req)
      /\ last \in Line
  <2>1. last.from = c.id /\ last.kind = final
    BY DEF last
  <2>2. Ending(last) /\ Verdict(last) = verdict /\ IsFinal(last, c.req)
    BY <2>1, FinalFacts
  <2>3. final \in {"OK", "ERROR", "CONNECT", "NO CARRIER"}
    BY <2>1, <2>2, Zenon DEF Ending
  <2>4. last \in Line
    BY <1>5, <2>3, FinalLine, Zenon DEF last
  <2> QED BY <2>1, <2>2, <2>4
<1>9. Elements(rx') = Elements(rx) \cup Elements(body) \cup {last}
  <2>1. /\ rx \o body \in Seq(Line) /\ Elements(rx \o body) = Elements(rx) \cup Elements(body)
    BY <1>t, <1>7, LineQueues, Zenon
  <2>2. Elements(Append(rx \o body, last)) = Elements(rx \o body) \cup {last}
    <3>1. last \in Line /\ rx \o body \in Seq(Line)
      BY <1>8, <2>1
    <3> QED BY <3>1, LineQueues, Zenon
  <2> QED BY <1>2, <2>1, <2>2 DEF last
<1>10. (Reading' <=> Reading) /\ Rest' = Rest
  BY <1>1 DEF Reading, Rest
<1>11. Coming' = Coming \cup Elements(body) \cup {last}
  BY <1>9, <1>10 DEF Coming, Elements
<1>12. Reading => mutex # None /\ pc[mutex] = "wait" /\ c = cmd[mutex]
  BY <1>3, <1>4 DEF Queued
<1>13. Reading => \A l \in Coming : l.from = 0 /\ ~ Ending(l)
  BY <1>3, <1>5, <1>12 DEF Queued, OfWaiting
<1>14. Held'
  BY <1>1, <1>3 DEF Held
<1>15. Queued'
  <2> SUFFICES ASSUME Reading PROVE Queued'
    BY <1>10 DEF Queued
  <2>1. \A l \in Elements(body) \cup {last} : OfWaiting(l)'
    BY <1>1, <1>6, <1>7, <1>8, <1>12 DEF OfWaiting
  <2>2. c.id # 0
    BY <1>5, ConstantsAssumption DEF Ids
  <2>3. \A l \in Coming' : IF l.from = 0 THEN ~ Ending(l) ELSE OfWaiting(l)'
    BY <1>7, <1>8, <1>11, <1>13, <2>1, <2>2
  <2>4. /\ Ends(Rest') /\ \A l \in Elements(Rest') : ~ Ending(l)
    BY <1>3, <1>10, <1>13 DEF Queued, Coming
  <2>5. Ends(rx')
    <3>1. rx \o body \in Seq(Line) /\ Elements(rx \o body) = Elements(rx) \cup Elements(body)
      BY <1>t, <1>7, LineQueues, Zenon
    <3>2. \A l \in Elements(rx \o body) : ~ Ending(l)
      BY <1>7, <1>13, <3>1 DEF Coming
    <3>3. Ends(Append(rx \o body, last))
      BY <1>8, <3>1, <3>2, AppendFacts, Zenon
    <3> QED BY <1>2, <3>3 DEF last
  <2>6. \A d \in Elements(tx') : mutex' # None /\ pc'[mutex'] = "wait" /\ d = cmd'[mutex']
    BY <1>1, <1>3, <1>4, <1>12 DEF Queued
  <2> QED BY <2>3, <2>4, <2>5, <2>6 DEF Queued
<1>16. Verdicts'
  <2>1. mutex # None => cmd[mutex].id \in Ids \/ pc[mutex] \notin {"publish", "write", "wait", "done"}
    BY CallerTypes DEF Basis, NoCrashInv, TypeInv, Busy
  <2>2. mutex # None => cmd[mutex].id \in Ids
    BY <1>3, <2>1, CallerTypes DEF CurrOwned, Inside
  <2>3. mutex # None /\ Told(mutex) => cmd[mutex].id # c.id /\ Told(mutex)'
    BY <1>1, <1>5, <1>6, <2>2 DEF Told
  <2>4. mutex # None /\ Told(mutex) => ~ Reading
    BY <1>12, <2>3
  <2> QED BY <1>1, <1>3, <1>10, <2>3, <2>4 DEF Verdicts
<1>17. Awaited'
  <2> SUFFICES ASSUME ~ orphaned, Reading, NEW s \in Senders, pc[s] = "wait",
                      answer'[cmd[s].id] # NoAnswer
               PROVE  \E l \in Coming' : l.from = cmd[s].id /\ Ending(l)
    BY <1>1, <1>10 DEF Awaited
  <2>1. mutex = s
    BY <1>3 DEF CurrOwned, Inside
  <2> QED BY <1>8, <1>11, <1>12, <2>1
<1> QED BY <1>14, <1>15, <1>16, <1>17 DEF Carried

\* An unsolicited line is in nobody's answer, wherever it comes.
LEMMA UnsolicitedCarries == ASSUME Basis, UnsolicitedLine PROVE Carried'
<1>1. UNCHANGED <<pc, cmd, resp, mutex, answer, tx, sem, curr, currReq, rpc, chunk, broken, orphaned,
                  ioBroken>>
  BY Zenon DEF UnsolicitedLine, callerVars, chanVars, readerVars
<1>2. PICK p \in Prefixes, n \in 0 .. Len(rx) :
        rx' = SubSeq(rx, 1, n) \o <<[from |-> 0, kind |-> "prefix", prefix |-> p]>>
                               \o SubSeq(rx, n + 1, Len(rx))
  BY DEF UnsolicitedLine
<1> DEFINE u == [from |-> 0, kind |-> "prefix", prefix |-> p]
           a == SubSeq(rx, 1, n)
           b == SubSeq(rx, n + 1, Len(rx))
<1>3. Held /\ Queued /\ Verdicts /\ Awaited /\ rx \in Seq(Line)
  BY CallerTypes DEF Basis, Carried
<1>4. u \in Line /\ u.from = 0 /\ ~ Ending(u)
  <2>1. 0 \in 0 .. MaxCmds
    BY ConstantsAssumption
  <2>2. u \in Line
    BY <2>1, PrefixLine, Zenon
  <2>3. u.kind = "prefix" /\ u.from = 0
    OBVIOUS
  <2>4. ~ Ending(u)
    BY <2>3, Zenon DEF Ending
  <2> QED BY <2>2, <2>3, <2>4
<1>5. /\ a \in Seq(Line) /\ b \in Seq(Line)
      /\ Elements(rx) = Elements(a) \cup Elements(b)
      /\ Ends(rx) => /\ Ends(a) /\ Ends(b)
                     /\ (\E l \in Elements(a) : Ending(l)) => \A l \in Elements(b) : l.from = 0
  BY <1>3, SplitFacts, Zenon
<1> HIDE DEF a, b, u
<1>6. <<u>> \in Seq(Line) /\ Elements(<<u>>) = {u} /\ Ends(<<u>>)
  BY <1>4 DEF Elements, Ends
<1>7. /\ a \o <<u>> \in Seq(Line) /\ Elements(a \o <<u>>) = Elements(a) \cup {u}
      /\ Ends(a) => Ends(a \o <<u>>)
  <2>1. /\ a \o <<u>> \in Seq(Line)
        /\ Elements(a \o <<u>>) = Elements(a) \cup Elements(<<u>>)
        /\ (/\ Ends(a) /\ Ends(<<u>>)
            /\ (\E l \in Elements(a) : Ending(l)) => \A l \in Elements(<<u>>) : l.from = 0)
           => Ends(a \o <<u>>)
    BY <1>5, <1>6, JoinFacts, Zenon
  <2> QED BY <1>4, <1>6, <2>1
<1>8. /\ Elements(rx') = Elements(a) \cup {u} \cup Elements(b)
      /\ (/\ Ends(a \o <<u>>) /\ Ends(b)
          /\ (\E l \in Elements(a \o <<u>>) : Ending(l)) => \A l \in Elements(b) : l.from = 0)
         => Ends(rx')
  <2>1. /\ Elements((a \o <<u>>) \o b) = Elements(a \o <<u>>) \cup Elements(b)
        /\ (/\ Ends(a \o <<u>>) /\ Ends(b)
            /\ (\E l \in Elements(a \o <<u>>) : Ending(l)) => \A l \in Elements(b) : l.from = 0)
           => Ends((a \o <<u>>) \o b)
    <3>1. a \o <<u>> \in Seq(Line) /\ b \in Seq(Line)
      BY <1>5, <1>7
    <3> QED BY <3>1, JoinFacts, Zenon
  <2>2. rx' = (a \o <<u>>) \o b
    BY <1>2 DEF a, b, u
  <2> QED BY <1>7, <2>1, <2>2
<1>9. Elements(rx') = Elements(rx) \cup {u}
  BY <1>5, <1>8
<1>10. Ends(rx) => Ends(rx')
  BY <1>4, <1>5, <1>7, <1>8
<1>11. (Reading' <=> Reading) /\ Rest' = Rest
  BY <1>1 DEF Reading, Rest
<1>12. Coming' = Coming \cup {u}
  BY <1>9, <1>11 DEF Coming, Elements
<1>13. \A l : OfWaiting(l)' <=> OfWaiting(l)
  BY <1>1 DEF OfWaiting
<1>14. Held'
  BY <1>1, <1>3 DEF Held
<1>15. Queued'
  BY <1>1, <1>3, <1>4, <1>9, <1>10, <1>11, <1>12, <1>13 DEF Queued
<1>16. Verdicts'
  BY <1>1, <1>3, <1>4, <1>11, <1>12 DEF Verdicts, Told
<1>17. Awaited'
  BY <1>1, <1>3, <1>11, <1>12 DEF Awaited
<1> QED BY <1>14, <1>15, <1>16, <1>17 DEF Carried

\* As long as nobody has given up, each step carries the answer on to its caller.
LEMMA CarriedStep == Basis /\ [Next]_vars /\ ~ disturbed' => Carried'
<1> SUFFICES ASSUME Basis, [Next]_vars, ~ disturbed' PROVE Carried'
  OBVIOUS
<1>1. CASE \E s \in Senders : \/ Lock(s) \/ Publish(s) \/ Write(s) \/ WaitPosted(s) \/ Release(s)
  BY <1>1, LockCarries, PublishCarries, WriteCarries, WaitCarries, ReleaseCarries
<1>2. CASE \E s \in Senders : WriteFails(s) \/ WaitTimesOut(s)
  BY <1>2 DEF WriteFails, WaitTimesOut
<1>3. CASE \/ \E s \in Senders : (\E q \in Requests : Call(s, q)) \/ Return(s) \/ Join(s)
           \/ \E s \in Stoppers : Stop(s)
           \/ Start \/ DeviceLost \/ UNCHANGED vars
  BY <1>3, OutsideCarries
<1>4. CASE Reader
  BY <1>4, QuietCarries, BrokenCarries, TestCarries, CollectCarries, FinishCarries, PostCarries,
     PollCarries
     DEF Reader
<1>5. CASE ModemAnswers \/ UnsolicitedLine
  BY <1>5, AnswerCarries, UnsolicitedCarries
<1> QED BY <1>1, <1>2, <1>3, <1>4, <1>5 DEF Next, Sender, Modem

\* The invariants of AtChannelProofs, those of the loss and those of the answers.
Invariants == NoCrashInv /\ LossInv /\ AnswerInv

\* Initially nothing is on its way.
LEMMA InitInvariants == Init => Invariants
<1> SUFFICES ASSUME Init PROVE Invariants
  OBVIOUS
<1>1. NoCrashInv
  BY InitTypes, InitOwned, InitHandOver DEF NoCrashInv
<1>2. LossInv
  BY DEF Init, LossInv, Opened, Posted, Reported, Halted, Waits, AtLoss
<1>3. Elements(<<>>) = {} /\ Singly(<<>>) /\ Ends(<<>>)
  BY DEF Elements, Singly, Ends
<1>4. Numbers
  <2>1. tx = <<>> /\ \A i \in Ids : answer[i] = NoAnswer
    BY DEF Init
  <2>2. \A s \in Senders : pc[s] = "idle"
    BY DEF Init
  <2> QED BY <1>3, <2>1, <2>2 DEF Numbers, Underway
<1>5. Carried
  <2>1. /\ rpc = "off" /\ mutex = None /\ chunk = <<>> /\ rx = <<>> /\ tx = <<>> /\ curr = None
        /\ \A s \in Senders : pc[s] = "idle"
    BY DEF Init
  <2>2. Rest = <<>> /\ Coming = {}
    BY <1>3, <2>1 DEF Rest, Coming
  <2> QED BY <1>3, <2>1, <2>2 DEF Carried, Held, Queued, Verdicts, Awaited
<1> QED BY <1>1, <1>2, <1>4, <1>5 DEF Invariants, AnswerInv

\* Every step keeps them.
LEMMA StepInvariants == Invariants /\ [Next]_vars => Invariants'
<1> SUFFICES ASSUME Invariants, [Next]_vars PROVE Invariants'
  OBVIOUS
<1>1. NoCrashInv /\ LossInv /\ Numbers /\ TypeInv /\ CurrOwned
  BY DEF Invariants, AnswerInv, NoCrashInv
<1>2. NoCrashInv' /\ LossInv' /\ Numbers'
  BY <1>1, StepTypes, StepOwned, StepHandOver, LossStep, NumbersStep DEF NoCrashInv
<1>3. ASSUME ~ disturbed' PROVE Carried'
  <2>1. ~ disturbed
    <3>1. disturbed' = disturbed \/ disturbed' = TRUE
      BY Zenon
         DEF Next, Sender, Call, Lock, Publish, Write, WriteFails, WaitPosted, WaitTimesOut, Release,
             Return, Join, Stop, Start, Reader, ReaderTop, PollData, PollWoken, PollBroken,
             BrokenTest, FinishBroken, PostBroken, CallBroken, TestLine, CollectLine, FinishLine,
             ClearCurrent, PostLine, ClearAgain, Modem, ModemAnswers, UnsolicitedLine,
             DeviceLost, vars, callerVars
    <3> QED BY <1>3, <3>1
  <2>2. Basis
    BY <1>1, <2>1 DEF Invariants, AnswerInv, Basis
  <2> QED BY <1>3, <2>2, CarriedStep
<1> QED BY <1>2, <1>3 DEF Invariants, AnswerInv

\* They hold together.
LEMMA InvariantsHold == Spec => []Invariants
BY InitInvariants, StepInvariants, PTL DEF Spec

\* When the reader has handled all that the modem has sent, a call that has been answered
\* does not sleep until its timeout: its final line has left it a token, whatever
\* unsolicited lines came between, and even if the device has been lost since.
THEOREM EndsWait == Spec => []AnswerEndsWait
<1>1. Invariants => AnswerEndsWait
  <2> SUFFICES ASSUME Invariants, ~ disturbed, ~ orphaned, rx = <<>>, chunk = <<>>,
                      rpc \in {"top", "poll"},
                      NEW s \in Senders, pc[s] = "wait", answer[cmd[s].id] # NoAnswer
               PROVE  sem > 0
    BY DEF AnswerEndsWait
  <2>1. CASE ioBroken
    BY <2>1 DEF Invariants, LossInv, Reported
  <2>2. CASE ~ ioBroken
    <3>1. Reading
      BY <2>2 DEF Reading
    <3>2. Coming = {}
      BY DEF Coming, Rest, Elements
    <3> QED BY <3>1, <3>2 DEF Invariants, AnswerInv, Carried, Awaited
  <2> QED BY <2>1, <2>2
<1> QED BY <1>1, InvariantsHold, PTL

-----------------------------------------------------------------------------
(* The lines of an answer. *)

\* The line is of an answer and not its final line.
IsBody(l) == l.from # 0 /\ ~ Ending(l)

\* The lines that are of an answer, but for its end, are those of part, in its order.
BodyPart(lines, part) ==
  \E at \in [DOMAIN part -> DOMAIN lines] :
    /\ \A i, j \in DOMAIN part : i < j => at[i] < at[j]
    /\ \A i \in DOMAIN part : lines[at[i]] = part[i]
    /\ \A k \in DOMAIN lines : IsBody(lines[k]) => \E i \in DOMAIN part : at[i] = k

\* What a request must be for its lines to be told from others.
Fits(q) == /\ q.type \in {"NO_RESPONSE", "DIAL", "NO_PREFIX", "NO_PREFIX_ALL"} => q.prefix = None
           /\ q.type \in {"DEFAULT", "MULTILINE"} => q.prefix # None

\* A line that the call has no claim to has got in for its prefix, for no reason at all, or
\* before the prefix was published.
Fair(l, c) == /\ ~ Ending(l)
              /\ \/ l.from # 0 \/ c.req.type = "NO_PREFIX_ALL" \/ l.prefix = c.req.prefix
                 \/ c.id \in misjudged

\* One queue after the other: hides from the provers what they know of \o.
v ++ w == v \o w

\* What the call has got so far with what is on its way to it.
Stream(s) == resp[s].lines ++ (Rest ++ rx)

\* What comes unasked has a prefix.
Unasked == Reading => \A l \in Coming : l.from = 0 => l.kind = "prefix" /\ l.prefix \in Prefixes

\* The line that the reader is about to put into the response belongs there.
Taking == curr # None /\ rpc = "collect" =>
  cmd[curr].id \in misjudged \/ IsCollected(Head(chunk), cmd[curr].req, resp[curr].lines)

Claimed == mutex # None => \A l \in Elements(resp[mutex].lines) : Fair(l, cmd[mutex])

\* Until the reader resets the pointer no line of the answer is lost.
Whole ==
  curr # None /\ Reading /\ rpc # "clear" =>
    LET mine == answer[cmd[curr].id]
    IN  IF mine = NoAnswer
        THEN \A l \in Elements(resp[curr].lines) : l.from = 0
        ELSE mine.lines \in Bodies(cmd[curr]) /\ BodyPart(Stream(curr), mine.lines)

\* The response of a call whose wait is over.
Over(s) == /\ rpc \in {"clear", "post"} \/ sem > 0 \/ pc[s] = "done"
           /\ resp[s].error # "IO_BROKEN"

Complete == mutex # None /\ Over(mutex) =>
  OwnPart(resp[mutex].lines, answer[cmd[mutex].id].lines)

Lines == Unasked /\ Taking /\ Claimed /\ Whole /\ Complete

Fitting == \A s \in Senders : Underway(s) => Fits(cmd[s].req)

OwnInv == Fitting /\ (~ disturbed => Lines)

-----------------------------------------------------------------------------
(* Lemmas about sequences of lines and the parts of them. *)

\* One queue after another, place by place.
LEMMA PlaceFacts ==
  ASSUME NEW a \in Seq(Line), NEW b \in Seq(Line)
  PROVE  /\ a ++ b \in Seq(Line) /\ Len(a) \in Nat /\ Len(b) \in Nat
         /\ Len(a ++ b) = Len(a) + Len(b) /\ DOMAIN (a ++ b) = 1 .. Len(a) + Len(b)
         /\ \A i \in 1 .. Len(a) : (a ++ b)[i] = a[i]
         /\ \A i \in Nat : i > Len(a) /\ i <= Len(a) + Len(b) => (a ++ b)[i] = b[i - Len(a)]
BY DEF ++

\* The queue r is q without its element at k.
Without(q, k, r) ==
  /\ Len(q) = Len(r) + 1 /\ k \in 1 .. Len(q)
  /\ \A i \in 1 .. Len(r) : r[i] = IF i < k THEN q[i] ELSE q[i + 1]

\* A line that is no part of an answer may go or come.
LEMMA PartWithout ==
  ASSUME NEW q \in Seq(Line), NEW r \in Seq(Line), NEW m \in Seq(Line), NEW k,
         Without(q, k, r), ~ IsBody(q[k]), \A i \in DOMAIN m : IsBody(m[i])
  PROVE  BodyPart(q, m) <=> BodyPart(r, m)
<1>1. /\ DOMAIN q = 1 .. Len(q) /\ DOMAIN r = 1 .. Len(r) /\ DOMAIN m = 1 .. Len(m)
      /\ Len(q) \in Nat /\ Len(r) \in Nat /\ Len(m) \in Nat
      /\ Len(q) = Len(r) + 1 /\ k \in 1 .. Len(q)
      /\ \A i \in 1 .. Len(r) : r[i] = IF i < k THEN q[i] ELSE q[i + 1]
  BY DEF Without
<1>2. ASSUME BodyPart(q, m) PROVE BodyPart(r, m)
  <2>1. PICK at \in [DOMAIN m -> DOMAIN q] :
          /\ \A i, j \in DOMAIN m : i < j => at[i] < at[j]
          /\ \A i \in DOMAIN m : q[at[i]] = m[i]
          /\ \A n \in DOMAIN q : IsBody(q[n]) => \E i \in DOMAIN m : at[i] = n
    BY <1>2 DEF BodyPart
  <2>2. \A i \in DOMAIN m : at[i] \in 1 .. Len(q) /\ at[i] # k
    BY <1>1, <2>1
  <2> DEFINE to == [i \in DOMAIN m |-> IF at[i] < k THEN at[i] ELSE at[i] - 1]
  <2>3. to \in [DOMAIN m -> DOMAIN r]
    BY <1>1, <2>2
  <2>4. \A i, j \in DOMAIN m : i < j => to[i] < to[j]
    BY <1>1, <2>1, <2>2
  <2>5. \A i \in DOMAIN m : r[to[i]] = m[i]
    BY <1>1, <2>1, <2>2
  <2>6. ASSUME NEW n \in DOMAIN r, IsBody(r[n]) PROVE \E i \in DOMAIN m : to[i] = n
    <3>1. CASE n < k
      <4>1. n \in DOMAIN q /\ IsBody(q[n])
        BY <1>1, <2>6, <3>1
      <4>2. PICK i \in DOMAIN m : at[i] = n
        BY <2>1, <4>1
      <4> QED BY <3>1, <4>2
    <3>2. CASE ~ n < k
      <4>1. n + 1 \in DOMAIN q /\ IsBody(q[n + 1])
        BY <1>1, <2>6, <3>2
      <4>2. PICK i \in DOMAIN m : at[i] = n + 1
        BY <2>1, <4>1
      <4>3. to[i] = n
        BY <1>1, <3>2, <4>2
      <4> QED BY <4>3
    <3> QED BY <3>1, <3>2
  <2> HIDE DEF to
  <2> QED BY <2>3, <2>4, <2>5, <2>6 DEF BodyPart
<1>3. ASSUME BodyPart(r, m) PROVE BodyPart(q, m)
  <2>1. PICK at \in [DOMAIN m -> DOMAIN r] :
          /\ \A i, j \in DOMAIN m : i < j => at[i] < at[j]
          /\ \A i \in DOMAIN m : r[at[i]] = m[i]
          /\ \A n \in DOMAIN r : IsBody(r[n]) => \E i \in DOMAIN m : at[i] = n
    BY <1>3 DEF BodyPart
  <2>2. \A i \in DOMAIN m : at[i] \in 1 .. Len(r)
    BY <1>1, <2>1
  <2> DEFINE to == [i \in DOMAIN m |-> IF at[i] < k THEN at[i] ELSE at[i] + 1]
  <2>3. to \in [DOMAIN m -> DOMAIN q]
    BY <1>1, <2>2
  <2>4. \A i, j \in DOMAIN m : i < j => to[i] < to[j]
    BY <1>1, <2>1, <2>2
  <2>5. \A i \in DOMAIN m : q[to[i]] = m[i]
    BY <1>1, <2>1, <2>2
  <2>6. ASSUME NEW n \in DOMAIN q, IsBody(q[n]) PROVE \E i \in DOMAIN m : to[i] = n
    <3>0. n # k
      BY <2>6
    <3>1. CASE n < k
      <4>1. n \in DOMAIN r /\ IsBody(r[n])
        BY <1>1, <2>6, <3>1
      <4>2. PICK i \in DOMAIN m : at[i] = n
        BY <2>1, <4>1
      <4> QED BY <3>1, <4>2
    <3>2. CASE ~ n < k
      <4>1. n - 1 \in DOMAIN r /\ IsBody(r[n - 1])
        <5>1. n - 1 \in 1 .. Len(r) /\ ~ n - 1 < k /\ (n - 1) + 1 = n
          BY <1>1, <3>0, <3>2
        <5> QED BY <1>1, <2>6, <5>1
      <4>2. PICK i \in DOMAIN m : at[i] = n - 1
        BY <2>1, <4>1
      <4>3. to[i] = n
        BY <1>1, <3>0, <3>2, <4>2
      <4> QED BY <4>3
    <3> QED BY <3>1, <3>2
  <2> HIDE DEF to
  <2> QED BY <2>3, <2>4, <2>5, <2>6 DEF BodyPart
<1> QED BY <1>2, <1>3

\* When no line of an answer is behind it, a queue holds the lines of the answer itself.
LEMMA PartFront ==
  ASSUME NEW a \in Seq(Line), NEW b \in Seq(Line), NEW m \in Seq(Line),
         \A l \in Elements(b) : ~ IsBody(l), \A l \in Elements(a) : ~ Ending(l),
         \A i \in DOMAIN m : IsBody(m[i]), BodyPart(a ++ b, m)
  PROVE  OwnPart(a, m)
<1>1. PICK at \in [DOMAIN m -> DOMAIN (a ++ b)] :
        /\ \A i, j \in DOMAIN m : i < j => at[i] < at[j]
        /\ \A i \in DOMAIN m : (a ++ b)[at[i]] = m[i]
        /\ \A n \in DOMAIN (a ++ b) : IsBody((a ++ b)[n]) => \E i \in DOMAIN m : at[i] = n
  BY DEF BodyPart
<1>2. /\ Len(a) \in Nat /\ Len(b) \in Nat
      /\ DOMAIN (a ++ b) = 1 .. Len(a) + Len(b)
      /\ \A i \in 1 .. Len(a) : (a ++ b)[i] = a[i]
      /\ \A i \in Nat : i > Len(a) /\ i <= Len(a) + Len(b) => (a ++ b)[i] = b[i - Len(a)]
  BY PlaceFacts
<1>3. DOMAIN a = 1 .. Len(a) /\ DOMAIN b = 1 .. Len(b)
  OBVIOUS
<1>4. ASSUME NEW i \in DOMAIN m PROVE at[i] \in 1 .. Len(a)
  <2>1. at[i] \in 1 .. Len(a) + Len(b)
    BY <1>1, <1>2
  <2>2. ASSUME at[i] > Len(a) PROVE FALSE
    <3>1. (a ++ b)[at[i]] = b[at[i] - Len(a)] /\ at[i] - Len(a) \in DOMAIN b
      BY <1>2, <1>3, <2>1, <2>2
    <3>2. b[at[i] - Len(a)] \in Elements(b)
      BY <3>1 DEF Elements
    <3> QED BY <1>1, <3>1, <3>2
  <2> QED BY <1>2, <2>1, <2>2
<1>5. at \in [DOMAIN m -> DOMAIN a] /\ \A i \in DOMAIN m : a[at[i]] = m[i]
  BY <1>1, <1>2, <1>3, <1>4
<1>6. ASSUME NEW n \in DOMAIN a, a[n].from # 0 PROVE \E i \in DOMAIN m : at[i] = n
  <2>0. a[n] \in Elements(a)
    BY <1>6, Zenon DEF Elements
  <2>1. IsBody(a[n])
    BY <1>6, <2>0, Zenon DEF IsBody
  <2>2. n \in DOMAIN (a ++ b) /\ (a ++ b)[n] = a[n]
    BY <1>2, <1>3
  <2> QED BY <1>1, <2>1, <2>2
<1> QED BY <1>1, <1>5, <1>6 DEF OwnPart

\* An answer comes whole behind lines of no answer, its end after it.
LEMMA PartEnd ==
  ASSUME NEW q \in Seq(Line), NEW m \in Seq(Line), NEW e \in Line, NEW r \in Seq(Line),
         Len(r) = Len(q) + Len(m) + 1,
         \A i \in 1 .. Len(q) : r[i] = q[i],
         \A i \in 1 .. Len(m) : r[Len(q) + i] = m[i],
         r[Len(q) + Len(m) + 1] = e,
         \A l \in Elements(q) : ~ IsBody(l), ~ IsBody(e)
  PROVE  BodyPart(r, m)
<1> DEFINE at == [i \in DOMAIN m |-> Len(q) + i]
<1>1. /\ DOMAIN q = 1 .. Len(q) /\ DOMAIN r = 1 .. Len(r) /\ DOMAIN m = 1 .. Len(m)
      /\ Len(q) \in Nat /\ Len(m) \in Nat
  OBVIOUS
<1>2. at \in [DOMAIN m -> DOMAIN r]
  BY <1>1
<1>3. \A i, j \in DOMAIN m : i < j => at[i] < at[j]
  BY <1>1
<1>4. \A i \in DOMAIN m : r[at[i]] = m[i]
  BY <1>1
<1>5. ASSUME NEW n \in DOMAIN r, IsBody(r[n]) PROVE \E i \in DOMAIN m : at[i] = n
  <2>1. ~ n <= Len(q)
    BY <1>1, <1>5 DEF Elements
  <2>2. n # Len(q) + Len(m) + 1
    BY <1>5
  <2>3. n \in 1 .. Len(q) + Len(m) + 1
    BY <1>1
  <2>4. n - Len(q) \in DOMAIN m /\ Len(q) + (n - Len(q)) = n
    BY <1>1, <2>1, <2>2, <2>3
  <2>5. at[n - Len(q)] = n
    BY <2>4
  <2> QED BY <2>4, <2>5
<1> HIDE DEF at
<1> QED BY <1>2, <1>3, <1>4, <1>5 DEF BodyPart

\* Taking the first line of a queue moves it; dropping it takes it out.
LEMMA DropFacts ==
  ASSUME NEW a \in Seq(Line), NEW q \in Seq(Line), NEW r \in Seq(Line), q # <<>>
  PROVE  /\ a ++ (q ++ r) \in Seq(Line) /\ a ++ (Tail(q) ++ r) \in Seq(Line)
         /\ Without(a ++ (q ++ r), Len(a) + 1, a ++ (Tail(q) ++ r))
         /\ (a ++ (q ++ r))[Len(a) + 1] = Head(q)
         /\ Append(a, Head(q)) ++ (Tail(q) ++ r) = a ++ (q ++ r)
<1>1. /\ Tail(q) \in Seq(Line) /\ Len(Tail(q)) = Len(q) - 1 /\ Len(q) \in Nat \ {0}
      /\ \A i \in 1 .. Len(Tail(q)) : Tail(q)[i] = q[i + 1]
      /\ Head(q) = q[1] /\ Head(q) \in Line
      /\ Len(a) \in Nat /\ Len(r) \in Nat
  OBVIOUS
<1> DEFINE t == Tail(q)
           h == Head(q)
           x == q ++ r
           y == t ++ r
           v == a ++ x
           w == a ++ y
           b == Append(a, h)
           z == b ++ y
<1>2. /\ x \in Seq(Line) /\ Len(x) = Len(q) + Len(r)
      /\ \A i \in 1 .. Len(q) : x[i] = q[i]
      /\ \A i \in Nat : i > Len(q) /\ i <= Len(q) + Len(r) => x[i] = r[i - Len(q)]
  BY PlaceFacts
<1>3. /\ y \in Seq(Line) /\ Len(y) = Len(t) + Len(r)
      /\ \A i \in 1 .. Len(t) : y[i] = t[i]
      /\ \A i \in Nat : i > Len(t) /\ i <= Len(t) + Len(r) => y[i] = r[i - Len(t)]
  BY <1>1, PlaceFacts
<1>4. /\ Len(x) = Len(y) + 1 /\ Len(x) \in Nat /\ Len(y) \in Nat /\ x[1] = h
      /\ \A i \in 1 .. Len(y) : y[i] = x[i + 1]
  <2>1. Len(x) = Len(y) + 1 /\ Len(x) \in Nat /\ Len(y) \in Nat /\ x[1] = h
    BY <1>1, <1>2, <1>3
  <2>2. ASSUME NEW i \in 1 .. Len(y) PROVE y[i] = x[i + 1]
    <3>1. CASE i <= Len(t)
      BY <1>1, <1>2, <1>3, <3>1
    <3>2. CASE i > Len(t)
      <4>1. y[i] = r[i - Len(t)]
        BY <1>1, <1>3, <3>2
      <4>2. x[i + 1] = r[(i + 1) - Len(q)]
        <5>1. i + 1 \in Nat /\ i + 1 > Len(q) /\ i + 1 <= Len(q) + Len(r)
          BY <1>1, <1>3, <3>2
        <5> QED BY <1>2, <5>1
      <4>3. i - Len(t) = (i + 1) - Len(q)
        BY <1>1, <1>3
      <4> QED BY <4>1, <4>2, <4>3
    <3> QED BY <1>1, <3>1, <3>2
  <2> QED BY <2>1, <2>2
<1>5. /\ v \in Seq(Line) /\ Len(v) = Len(a) + Len(x)
      /\ \A i \in 1 .. Len(a) : v[i] = a[i]
      /\ \A i \in Nat : i > Len(a) /\ i <= Len(a) + Len(x) => v[i] = x[i - Len(a)]
  BY <1>2, PlaceFacts
<1>6. /\ w \in Seq(Line) /\ Len(w) = Len(a) + Len(y)
      /\ \A i \in 1 .. Len(a) : w[i] = a[i]
      /\ \A i \in Nat : i > Len(a) /\ i <= Len(a) + Len(y) => w[i] = y[i - Len(a)]
  BY <1>3, PlaceFacts
<1>7. /\ b \in Seq(Line) /\ Len(b) = Len(a) + 1 /\ b[Len(a) + 1] = h
      /\ \A i \in 1 .. Len(a) : b[i] = a[i]
  BY <1>1
<1>8. /\ z \in Seq(Line) /\ Len(z) = Len(b) + Len(y)
      /\ \A i \in 1 .. Len(b) : z[i] = b[i]
      /\ \A i \in Nat : i > Len(b) /\ i <= Len(b) + Len(y) => z[i] = y[i - Len(b)]
  BY <1>3, <1>7, PlaceFacts
<1> HIDE DEF t, h, x, y, v, w, b, z
<1>9. Without(v, Len(a) + 1, w) /\ v[Len(a) + 1] = h
  <2>1. Len(v) = Len(w) + 1 /\ Len(a) + 1 \in 1 .. Len(v) /\ v[Len(a) + 1] = h
    <3>1. Len(v) = Len(w) + 1 /\ Len(a) + 1 \in 1 .. Len(v)
      BY <1>1, <1>4, <1>5, <1>6
    <3>2. /\ Len(a) + 1 > Len(a) /\ Len(a) + 1 <= Len(a) + Len(x)
          /\ Len(a) + 1 \in Nat /\ (Len(a) + 1) - Len(a) = 1
      BY <1>1, <1>4
    <3>3. v[Len(a) + 1] = x[(Len(a) + 1) - Len(a)]
      BY <1>5, <3>2
    <3> QED BY <1>4, <3>1, <3>2, <3>3
  <2>2. ASSUME NEW i \in 1 .. Len(w)
        PROVE  w[i] = IF i < Len(a) + 1 THEN v[i] ELSE v[i + 1]
    <3>1. CASE i < Len(a) + 1
      <4>1. i \in 1 .. Len(a)
        BY <1>1, <3>1
      <4> QED BY <1>5, <1>6, <3>1, <4>1
    <3>2. CASE ~ i < Len(a) + 1
      <4>1. i > Len(a) /\ i <= Len(a) + Len(y) /\ i - Len(a) \in 1 .. Len(y) /\ i \in Nat
        BY <1>1, <1>4, <1>6, <3>2
      <4>2. w[i] = y[i - Len(a)] /\ y[i - Len(a)] = x[(i - Len(a)) + 1]
        BY <1>4, <1>6, <4>1
      <4>3. i + 1 > Len(a) /\ i + 1 <= Len(a) + Len(x) /\ i + 1 \in Nat
            /\ (i - Len(a)) + 1 = (i + 1) - Len(a)
        BY <1>1, <1>4, <4>1
      <4>4. v[i + 1] = x[(i + 1) - Len(a)]
        BY <1>5, <4>3
      <4> QED BY <3>2, <4>2, <4>3, <4>4
    <3> QED BY <3>1, <3>2
  <2> QED BY <2>1, <2>2 DEF Without
<1>10. z = v
  <2>1. Len(z) = Len(v) /\ Len(z) \in Nat
    BY <1>1, <1>4, <1>5, <1>7, <1>8
  <2>2. ASSUME NEW i \in 1 .. Len(v) PROVE z[i] = v[i]
    <3>1. CASE i <= Len(a)
      BY <1>1, <1>5, <1>7, <1>8, <3>1
    <3>2. CASE i = Len(a) + 1
      <4>1. z[i] = h
        BY <1>1, <1>7, <1>8, <3>2
      <4> QED BY <1>9, <3>2, <4>1
    <3>3. CASE i > Len(a) + 1
      <4>1. /\ i > Len(b) /\ i <= Len(b) + Len(y) /\ i \in Nat
            /\ i > Len(a) /\ i <= Len(a) + Len(x)
            /\ i - Len(b) \in 1 .. Len(y) /\ (i - Len(b)) + 1 = i - Len(a)
        BY <1>1, <1>4, <1>5, <1>7, <3>3
      <4>2. z[i] = y[i - Len(b)] /\ y[i - Len(b)] = x[(i - Len(b)) + 1]
        BY <1>4, <1>8, <4>1
      <4>3. v[i] = x[i - Len(a)]
        BY <1>5, <4>1
      <4> QED BY <4>1, <4>2, <4>3
    <3> QED BY <1>1, <1>5, <3>1, <3>2, <3>3
  <2> QED BY <1>5, <1>8, <2>1, <2>2
<1> QED BY <1>5, <1>6, <1>9, <1>10 DEF t, h, x, y, v, w, b, z

\* It does not matter which two of three queues are put together first.
LEMMA Associative ==
  \A v, w, x \in Seq(Line) : v ++ (w ++ x) = (v ++ w) ++ x
BY ConcatAssociative DEF ++

\* Four queues in a row.
LEMMA RowFacts ==
  ASSUME NEW a \in Seq(Line), NEW b \in Seq(Line), NEW p \in Seq(Line), NEW t \in Seq(Line)
  PROVE  /\ a ++ (b ++ (p ++ t)) = ((a ++ b) ++ p) ++ t
         /\ a ++ b \in Seq(Line) /\ p ++ t \in Seq(Line) /\ b ++ p \in Seq(Line)
         /\ (a ++ b) ++ p \in Seq(Line) /\ b ++ (p ++ t) \in Seq(Line)
<1>1. /\ a ++ b \in Seq(Line) /\ p ++ t \in Seq(Line) /\ b ++ p \in Seq(Line)
      /\ (a ++ b) ++ p \in Seq(Line) /\ b ++ (p ++ t) \in Seq(Line)
  BY PlaceFacts
<1>a. \A v, w, x \in Seq(Line) : v ++ (w ++ x) = (v ++ w) ++ x
  BY Associative
<1>2. a ++ (b ++ (p ++ t)) = (a ++ b) ++ (p ++ t)
  BY <1>1, <1>a
<1>3. (a ++ b) ++ (p ++ t) = ((a ++ b) ++ p) ++ t
  BY <1>1, <1>a
<1> QED BY <1>1, <1>2, <1>3

\* A queue that is cut and put together again.
LEMMA JoinedAgain ==
  ASSUME NEW q \in Seq(Line), NEW n \in 0 .. Len(q)
  PROVE  SubSeq(q, 1, n) ++ SubSeq(q, n + 1, Len(q)) = q
<1>1. 1 \in 1 .. Len(q) + 1 /\ n \in (1 - 1) .. Len(q) /\ Len(q) \in n .. Len(q)
  OBVIOUS
<1>2. SubSeq(q, 1, n) \o SubSeq(q, n + 1, Len(q)) = SubSeq(q, 1, Len(q))
  BY <1>1, ConcatAdjacentSubSeq, Zenon
<1> QED BY <1>2, SubSeqFull DEF ++

\* The queue r is q with the line u put in.
Inserted(q, r, u) == \E k \in Nat : Without(r, k, q) /\ r[k] = u

\* An unsolicited line gets in anywhere.
LEMMA InsertFacts ==
  ASSUME NEW a \in Seq(Line), NEW b \in Seq(Line), NEW p \in Seq(Line), NEW t \in Seq(Line),
         NEW u \in Line
  PROVE  /\ (p ++ <<u>>) ++ t \in Seq(Line)
         /\ Inserted(a ++ (b ++ (p ++ t)), a ++ (b ++ ((p ++ <<u>>) ++ t)), u)
<1> DEFINE f == (a ++ b) ++ p
           w == <<u>>
           r == (p ++ w) ++ t
           q == p ++ t
<1>1. p \in Seq(Line) /\ t \in Seq(Line)
  OBVIOUS
<1>2. p ++ t = q
  OBVIOUS
<1>3. w \in Seq(Line) /\ w # <<>> /\ Tail(w) = <<>> /\ Head(w) = u
  OBVIOUS
<1>4. r = (p ++ w) ++ t
  OBVIOUS
<1> HIDE DEF q, r, w
<1>5. w ++ t \in Seq(Line) /\ p ++ w \in Seq(Line) /\ (p ++ w) ++ t = p ++ (w ++ t)
  BY <1>1, <1>3, PlaceFacts, Associative
<1>6. f \in Seq(Line) /\ a ++ (b ++ (p ++ t)) = f ++ t
  BY <1>1, RowFacts
<1>7. a ++ (b ++ (p ++ (w ++ t))) = f ++ (w ++ t)
  BY <1>1, <1>5, RowFacts
<1>8. r \in Seq(Line)
  BY <1>1, <1>4, <1>5, PlaceFacts
<1> HIDE DEF f
<1>9. /\ Without(f ++ (w ++ t), Len(f) + 1, f ++ (Tail(w) ++ t))
      /\ (f ++ (w ++ t))[Len(f) + 1] = Head(w)
  BY <1>1, <1>3, <1>6, DropFacts
<1>10. <<>> ++ t = t
  BY <1>1, ConcatEmptySeq DEF ++
<1>11. Len(f) + 1 \in Nat
  BY <1>6
<1>12. a ++ (b ++ q) = f ++ t /\ a ++ (b ++ r) = f ++ (w ++ t)
  BY <1>2, <1>4, <1>5, <1>6, <1>7
<1>13. Inserted(a ++ (b ++ q), a ++ (b ++ r), u)
  BY <1>3, <1>9, <1>10, <1>11, <1>12 DEF Inserted
<1> QED BY <1>8, <1>13 DEF q, r, w

\* What is put at the end of the last queue is at the end of the row.
LEMMA BehindFacts ==
  ASSUME NEW a \in Seq(Line), NEW b \in Seq(Line), NEW q \in Seq(Line), NEW m \in Seq(Line),
         NEW w \in Seq(Line)
  PROVE  a ++ (b ++ ((q ++ m) ++ w)) = ((a ++ (b ++ q)) ++ m) ++ w
<1>1. q ++ m \in Seq(Line) /\ b ++ q \in Seq(Line)
  BY PlaceFacts
<1>2. a ++ (b ++ ((q ++ m) ++ w)) = ((a ++ b) ++ (q ++ m)) ++ w
  BY <1>1, RowFacts
<1>3. (a ++ b) ++ (q ++ m) = a ++ (b ++ (q ++ m)) /\ b ++ (q ++ m) = (b ++ q) ++ m
  BY <1>1, Associative
<1>4. a ++ ((b ++ q) ++ m) = (a ++ (b ++ q)) ++ m
  BY <1>1, Associative
<1> QED BY <1>2, <1>3, <1>4

\* The elements of two queues.
LEMMA JoinedElements ==
  \A q, r \in Seq(Line) : Elements(q ++ r) = Elements(q) \cup Elements(r)
<1> SUFFICES ASSUME NEW q \in Seq(Line), NEW r \in Seq(Line)
             PROVE  Elements(q ++ r) = Elements(q) \cup Elements(r)
  OBVIOUS
<1>1. Elements(q \o r) = Elements(q) \cup Elements(r)
  BY JoinFacts, Zenon
<1> QED BY <1>1 DEF ++

\* The modem puts its answer behind everything that is on its way.
LEMMA AnswerFacts ==
  ASSUME NEW a \in Seq(Line), NEW b \in Seq(Line), NEW q \in Seq(Line), NEW m \in Seq(Line),
         NEW e \in Line,
         \A l \in Elements(a) \cup Elements(b) \cup Elements(q) : ~ IsBody(l), ~ IsBody(e)
  PROVE  BodyPart(a ++ (b ++ ((q ++ m) ++ <<e>>)), m)
<1> DEFINE w == <<e>>
           f == a ++ (b ++ q)
           g == f ++ m
           r == a ++ (b ++ ((q ++ m) ++ w))
<1>w. w \in Seq(Line) /\ Len(w) = 1 /\ w[1] = e
  OBVIOUS
<1> HIDE DEF w
<1>1. b ++ q \in Seq(Line) /\ f \in Seq(Line) /\ g \in Seq(Line)
  BY PlaceFacts
<1>2. r = g ++ w
  BY <1>w, BehindFacts
<1>3. Elements(f) = Elements(a) \cup (Elements(b) \cup Elements(q))
  BY <1>1, JoinedElements
<1>4. \A l \in Elements(f) : ~ IsBody(l)
  BY <1>3
<1> HIDE DEF f, r
<1>5. /\ Len(g) = Len(f) + Len(m) /\ Len(f) \in Nat /\ Len(m) \in Nat
      /\ \A i \in 1 .. Len(f) : g[i] = f[i]
      /\ \A i \in Nat : i > Len(f) /\ i <= Len(f) + Len(m) => g[i] = m[i - Len(f)]
  BY <1>1, PlaceFacts
<1> HIDE DEF g
<1>6. /\ r \in Seq(Line) /\ Len(r) = Len(g) + 1 /\ r[Len(g) + 1] = e
      /\ \A i \in 1 .. Len(g) : r[i] = g[i]
  <2>1. /\ g ++ w \in Seq(Line) /\ Len(g ++ w) = Len(g) + Len(w) /\ Len(g) \in Nat
        /\ \A i \in 1 .. Len(g) : (g ++ w)[i] = g[i]
        /\ \A i \in Nat : i > Len(g) /\ i <= Len(g) + Len(w) => (g ++ w)[i] = w[i - Len(g)]
    BY <1>w, <1>1, PlaceFacts
  <2>2. /\ Len(g) + 1 \in Nat /\ Len(g) + 1 > Len(g) /\ Len(g) + 1 <= Len(g) + Len(w)
        /\ (Len(g) + 1) - Len(g) = 1
    BY <1>w, <2>1
  <2>3. (g ++ w)[Len(g) + 1] = w[(Len(g) + 1) - Len(g)]
    BY <2>1, <2>2
  <2>4. r \in Seq(Line) /\ Len(r) = Len(g) + 1 /\ \A i \in 1 .. Len(g) : r[i] = g[i]
    BY <1>w, <1>2, <2>1
  <2>5. r[Len(g) + 1] = e
    BY <1>w, <1>2, <2>2, <2>3
  <2> QED BY <2>4, <2>5
<1>7. /\ Len(r) = Len(f) + Len(m) + 1 /\ r[Len(f) + Len(m) + 1] = e
      /\ \A i \in 1 .. Len(f) : r[i] = f[i]
  BY <1>5, <1>6
<1>8. ASSUME NEW i \in 1 .. Len(m) PROVE r[Len(f) + i] = m[i]
  <2>1. /\ Len(f) + i \in 1 .. Len(g) /\ Len(f) + i \in Nat /\ Len(f) + i > Len(f)
        /\ Len(f) + i <= Len(f) + Len(m) /\ (Len(f) + i) - Len(f) = i
    BY <1>5
  <2> QED BY <1>5, <1>6, <2>1
<1>9. BodyPart(r, m)
  BY <1>1, <1>4, <1>6, <1>7, <1>8, PartEnd
<1> QED BY <1>9 DEF r, w

-----------------------------------------------------------------------------
(* The lines of an answer on their way. *)

\* The lines on their way are lines.
LEMMA LineTypes ==
  ASSUME Basis
  PROVE  /\ Rest \in Seq(Line) /\ rx \in Seq(Line) /\ chunk \in Seq(Line)
         /\ \A s \in Senders : resp[s].lines \in Seq(Line)
<1>1. chunk \in Seq(Line) /\ rx \in Seq(Line) /\ resp \in [Senders -> Response]
  BY CallerTypes
<1>2. rpc \in {"clear", "post", "reclear"} => chunk # <<>>
  BY DEF Basis, NoCrashInv, TypeInv, Busy
<1>3. chunk # <<>> => Tail(chunk) \in Seq(Line)
  BY <1>1, SeqFacts, Zenon
<1>4. Rest \in Seq(Line)
  BY <1>1, <1>2, <1>3 DEF Rest
<1>5. \A s \in Senders : resp[s].lines \in Seq(Line)
  BY <1>1 DEF Response
<1> QED BY <1>1, <1>4, <1>5

\* The call whose response is published is the one inside, and it has not been served.
LEMMA Published ==
  ASSUME Basis, curr # None
  PROVE  /\ curr = mutex /\ curr \in Senders /\ Waits(curr) /\ sem = 0
         /\ pc[curr] # "publish" => currReq = cmd[curr].req
         /\ cmd[curr] \in Command /\ cmd[curr].id \in Ids
<1>1. CurrOwned /\ HandOver /\ Held /\ ~ disturbed /\ Busy
  BY DEF Basis, NoCrashInv, TypeInv, Carried
<1>2. curr = mutex /\ Waits(curr) /\ sem = 0 /\ (pc[curr] # "publish" => currReq = cmd[curr].req)
  BY <1>1 DEF CurrOwned, HandOver, Held
<1>3. curr \in Senders
  BY CallerTypes
<1>4. cmd[curr].id \in Ids
  BY <1>1, <1>2, <1>3 DEF Busy, Waits
<1>5. cmd[curr] \in Command
  BY <1>3, <1>4, CallerTypes DEF Command
<1> QED BY <1>2, <1>3, <1>4, <1>5

\* A step that leaves the response of the call inside and what comes to it alone.
LEMMA LinesKept ==
  ASSUME Basis, Lines, UNCHANGED <<mutex, rx, answer>>, misjudged \subseteq misjudged',
         mutex # None => cmd'[mutex] = cmd[mutex] /\ resp'[mutex].lines = resp[mutex].lines,
         curr' = curr \/ curr' = None,
         Reading' => Reading /\ Rest' = Rest,
         Taking',
         curr' # None /\ rpc' # "clear" => rpc # "clear",
         mutex # None => (Over(mutex)' => Over(mutex))
  PROVE  Lines'
<1>1. curr # None => curr = mutex
  BY DEF Basis, NoCrashInv, CurrOwned
<1>2. Unasked'
  <2>1. Reading' => Reading /\ Coming' = Coming
    BY DEF Coming, Elements
  <2> QED BY <2>1 DEF Lines, Unasked
<1>3. Claimed'
  <2>1. \A l, c : Fair(l, c) => Fair(l, c)'
    BY DEF Fair
  <2> QED BY <2>1 DEF Lines, Claimed
<1>4. Whole'
  <2> SUFFICES ASSUME curr' # None, Reading', rpc' # "clear" PROVE Whole'
    BY DEF Whole
  <2>1. /\ curr' = curr /\ curr = mutex /\ curr # None /\ Reading /\ rpc # "clear"
        /\ cmd'[curr] = cmd[curr] /\ resp'[curr].lines = resp[curr].lines /\ Rest' = Rest
    BY <1>1
  <2>2. Stream(curr)' = Stream(curr)
    BY <2>1 DEF Stream
  <2> QED BY <2>1, <2>2 DEF Lines, Whole
<1>5. Complete'
  BY DEF Lines, Complete
<1> QED BY <1>2, <1>3, <1>4, <1>5 DEF Lines

\* The steps of the threads that take or wait for nothing but a token.
LEMMA OutsideLines ==
  ASSUME Basis, Lines,
         \/ \E s \in Senders : \/ (\E q \in Requests : Call(s, q)) \/ Return(s) \/ Join(s)
                               \/ Publish(s) \/ Write(s) \/ WaitPosted(s)
         \/ \E s \in Stoppers : Stop(s)
         \/ Start \/ DeviceLost \/ UNCHANGED vars
  PROVE  Lines'
<1>1. CurrOwned /\ Opened /\ mutex \in Senders \cup {None}
  BY CallerTypes DEF Basis, NoCrashInv, LossInv
<1>2. CASE \/ \E s \in Senders : \/ (\E q \in Requests : Call(s, q)) \/ Return(s) \/ Join(s)
                                 \/ Publish(s) \/ Write(s) \/ WaitPosted(s)
           \/ \E s \in Stoppers : Stop(s)
  <2>1. PICK s \in Senders : \/ (\E q \in Requests : Call(s, q)) \/ Return(s) \/ Join(s)
                             \/ Publish(s) \/ Write(s) \/ WaitPosted(s)
                             \/ s \in Stoppers /\ Stop(s)
    BY <1>2, ConstantsAssumption
  <2>2. UNCHANGED <<mutex, curr, rpc, chunk, ioBroken, rx, answer, misjudged, resp>>
    BY <2>1, Zenon DEF Call, Return, Join, Stop, Publish, Write, WaitPosted, chanVars, readerVars,
                       portVars, historyVars
  <2>3. \A t \in Senders : Inside(t) => cmd'[t] = cmd[t]
    BY <2>1, CallerTypes DEF Call, Return, Join, Stop, Publish, Write, WaitPosted, Inside
  <2>4. mutex # None => cmd'[mutex] = cmd[mutex]
    BY <1>1, <2>3 DEF CurrOwned
  <2>5. (Reading' => Reading) /\ Rest' = Rest
    BY <2>2 DEF Reading, Rest
  <2>6. Taking'
    BY <1>1, <2>2, <2>4 DEF Lines, Taking, CurrOwned
  <2>7. ASSUME mutex # None, Over(mutex)' PROVE Over(mutex)
    <3>1. sem' > 0 => sem > 0
      BY <2>1, CallerTypes DEF Call, Return, Join, Stop, Publish, Write, WaitPosted, chanVars
    <3>2. pc'[mutex] = "done" => pc[mutex] = "done" \/ sem > 0
      BY <1>1, <2>1, <2>7, CallerTypes DEF Call, Return, Join, Stop, Publish, Write, WaitPosted
    <3> QED BY <2>2, <2>7, <3>1, <3>2 DEF Over
  <2> QED BY <2>2, <2>4, <2>5, <2>6, <2>7, LinesKept
<1>3. CASE Start \/ DeviceLost \/ UNCHANGED vars
  <2>1. /\ UNCHANGED <<pc, cmd, resp, mutex, sem, curr, chunk, ioBroken, rx, answer, misjudged>>
        /\ rpc' = rpc \/ (rpc = "off" /\ rpc' = "top")
    BY <1>1, <1>3, Zenon
       DEF Start, DeviceLost, Opened, vars, callerVars, chanVars, readerVars, portVars, historyVars
  <2>2. (Reading' => Reading) /\ Rest' = Rest
    BY <2>1 DEF Reading, Rest
  <2>3. Taking'
    BY <2>1 DEF Lines, Taking
  <2>4. mutex # None => (Over(mutex)' => Over(mutex))
    BY <2>1 DEF Over
  <2>5. curr' # None /\ rpc' # "clear" => rpc # "clear"
    BY <2>1
  <2> QED BY <2>1, <2>2, <2>3, <2>4, <2>5, LinesKept
<1> QED BY <1>2, <1>3

\* The steps of the reader that put no line away.
LEMMA ReaderLines ==
  ASSUME Basis, Lines,
         \/ ReaderTop \/ PollWoken \/ PollBroken \/ BrokenTest \/ CallBroken \/ ClearCurrent
         \/ FinishBroken \/ PostBroken \/ PostLine \/ ClearAgain
  PROVE  Lines'
<1>1. UNCHANGED <<pc, cmd, mutex, answer, misjudged, rx>>
  BY Zenon DEF ReaderTop, PollWoken, PollBroken, BrokenTest, CallBroken, ClearCurrent, FinishBroken,
               PostBroken, PostLine, ClearAgain, callerVars, portVars, historyVars
<1>2. \A s \in Senders : resp'[s].lines = resp[s].lines
  <2>1. CASE FinishBroken
    <3>1. resp' = resp \/ \E p \in Deref \ {None} : resp' = [resp EXCEPT ![p].error = "IO_BROKEN"]
      BY <2>1 DEF FinishBroken
    <3>2. ASSUME NEW p \in Deref \ {None}, resp' = [resp EXCEPT ![p].error = "IO_BROKEN"],
                 NEW s \in Senders
          PROVE  resp'[s].lines = resp[s].lines
      BY <3>2, CallerTypes DEF Response
    <3> QED BY <3>1, <3>2
  <2>2. CASE ~ FinishBroken
    <3>1. resp' = resp
      BY <2>2, Zenon DEF ReaderTop, PollWoken, PollBroken, BrokenTest, CallBroken, ClearCurrent,
                         PostBroken, PostLine, ClearAgain, callerVars
    <3> QED BY <3>1
  <2> QED BY <2>1, <2>2
<1>3. curr' = curr \/ curr' = None
  BY Zenon DEF ReaderTop, PollWoken, PollBroken, BrokenTest, CallBroken, ClearCurrent, FinishBroken,
               PostBroken, PostLine, ClearAgain, chanVars
<1>4. HandOver /\ Verdicts /\ ~ disturbed
  BY DEF Basis, NoCrashInv, Carried
<1>5. \/ /\ rpc \in {"top", "poll", "broken"} /\ chunk' = chunk
         /\ rpc' \in {"exit", "broken", "brokenCall", "brokenFinish", "brokenClear"}
      \/ rpc \in {"top", "poll"} /\ rpc' \in {"top", "poll"} /\ chunk' = chunk
      \/ rpc = "clear" /\ rpc' = "post" /\ chunk' = chunk
      \/ rpc \in {"brokenFinish", "brokenClear", "brokenPost"} /\ chunk' = chunk
         /\ rpc' \in {"brokenClear", "brokenPost", "brokenCall"}
      \/ rpc = "brokenCall" /\ rpc' = "top" /\ ioBroken' = TRUE
      \/ rpc \in {"post", "reclear"} /\ rpc' \in {"top", "line"} /\ chunk' = Tail(chunk)
      \/ rpc = "post" /\ rpc' = "reclear" /\ chunk' = chunk
  BY <1>4 DEF ReaderTop, PollWoken, PollBroken, BrokenTest, CallBroken, ClearCurrent, FinishBroken,
              PostBroken, PostLine, ClearAgain, NextLine, HandOver, Deref
<1>6. ioBroken' = ioBroken \/ ioBroken' = TRUE
  BY Zenon DEF ReaderTop, PollWoken, PollBroken, BrokenTest, CallBroken, ClearCurrent, FinishBroken,
               PostBroken, PostLine, ClearAgain
<1>7. Reading' => Reading /\ Rest' = Rest
  BY <1>5, <1>6 DEF Reading, Rest
<1>8. Taking'
  BY <1>5 DEF Taking
<1>9. curr' # None /\ rpc' # "clear" => rpc # "clear"
  BY DEF ReaderTop, PollWoken, PollBroken, BrokenTest, CallBroken, ClearCurrent, FinishBroken,
         PostBroken, PostLine, ClearAgain
<1>10. ASSUME mutex # None, Over(mutex)' PROVE Over(mutex)
  <2>1. CASE FinishBroken \/ PostBroken
    <3>1. CASE PostBroken
      <4>1. rpc = "brokenPost" /\ resp' = resp
        BY <3>1 DEF PostBroken, callerVars
      <4>2. resp[mutex].error = "IO_BROKEN"
        BY <1>4, <4>1 DEF Verdicts
      <4> QED BY <1>1, <1>10, <4>1, <4>2 DEF Over
    <3>2. CASE FinishBroken
      <4>1. rpc = "brokenFinish" /\ rptr = curr /\ mutex = curr /\ curr \in Senders
        BY <1>4, <3>2, CallerTypes DEF FinishBroken, HandOver, Basis, NoCrashInv, CurrOwned
      <4>2. resp' = [resp EXCEPT ![curr].error = "IO_BROKEN"]
        BY <1>4, <3>2, <4>1, ConstantsAssumption DEF FinishBroken, Deref, HandOver
      <4>3. resp'[mutex].error = "IO_BROKEN"
        BY <4>1, <4>2, CallerTypes DEF Response
      <4> QED BY <1>1, <1>10, <4>3 DEF Over
    <3> QED BY <2>1, <3>1, <3>2
  <2>2. CASE ~ (FinishBroken \/ PostBroken)
    <3>1. resp' = resp
      BY <2>2, Zenon DEF ReaderTop, PollWoken, PollBroken, BrokenTest, CallBroken, ClearCurrent,
                         PostLine, ClearAgain, callerVars
    <3>2. sem' = sem \/ rpc = "post"
      BY <2>2, Zenon DEF ReaderTop, PollWoken, PollBroken, BrokenTest, CallBroken, ClearCurrent,
                         PostLine, ClearAgain, chanVars
    <3> QED BY <1>1, <1>5, <1>10, <3>1, <3>2 DEF Over
  <2> QED BY <2>1, <2>2
<1>11. mutex # None => cmd'[mutex] = cmd[mutex] /\ resp'[mutex].lines = resp[mutex].lines
  BY <1>1, <1>2, CallerTypes
<1> QED BY <1>1, <1>3, <1>7, <1>8, <1>9, <1>10, <1>11, LinesKept


\* A call begins with an empty response.
LEMMA LockLines == ASSUME Basis, Lines, NEW s \in Senders, Lock(s) PROVE Lines'
<1>1. mutex = None /\ pc[s] = "lock"
  BY DEF Lock
<1>2. /\ sem = 0 /\ curr = None
      /\ rpc \notin {"clear", "post", "collect", "finish", "brokenClear", "brokenPost"}
  BY <1>1, NothingPending
<1>3. /\ mutex' = s /\ curr' = s /\ cmd' = cmd /\ resp' = [resp EXCEPT ![s] = NoResponse]
      /\ pc' = [pc EXCEPT ![s] = "publish"]
      /\ UNCHANGED <<sem, rpc, chunk, ioBroken, rx, answer>>
  BY DEF Lock, readerVars, portVars, historyVars
<1>4. resp'[s].lines = <<>> /\ pc'[s] = "publish"
  BY <1>3, CallerTypes DEF NoResponse
<1>5. Elements(<<>>) = {}
  BY DEF Elements
<1>6. (Reading' <=> Reading) /\ Coming' = Coming
  BY <1>3 DEF Reading, Rest, Coming, Elements
<1>7. Unasked'
  BY <1>6 DEF Lines, Unasked
<1>8. Taking'
  BY <1>2, <1>3 DEF Taking
<1>9. Elements(resp'[s].lines) = {}
  BY <1>4, <1>5
<1>10. Claimed'
  BY <1>3, <1>9 DEF Claimed
<1>11. answer[cmd[s].id] = NoAnswer
  BY <1>1 DEF Basis, Numbers
<1>12. Whole'
  BY <1>3, <1>9, <1>11 DEF Whole
<1>13. ~ Over(s)'
  BY <1>2, <1>3, <1>4 DEF Over
<1>14. Complete'
  BY <1>3, <1>13 DEF Complete
<1> QED BY <1>7, <1>8, <1>10, <1>12, <1>14 DEF Lines

\* A call that returns takes its response with it.
LEMMA ReleaseLines == ASSUME Basis, Lines, NEW s \in Senders, Release(s) PROVE Lines'
<1>1. /\ pc[s] = "done" /\ mutex' = None /\ curr' = None
      /\ UNCHANGED <<rpc, chunk, ioBroken, rx>>
  BY DEF Release, readerVars, portVars, historyVars
<1>2. mutex = s /\ mutex # None
  BY <1>1, ConstantsAssumption DEF Basis, NoCrashInv, CurrOwned, Inside
<1>3. rpc # "collect"
  BY <1>1, <1>2, Served
<1>4. (Reading' <=> Reading) /\ Coming' = Coming
  BY <1>1 DEF Reading, Rest, Coming, Elements
<1>5. Unasked'
  BY <1>4 DEF Lines, Unasked
<1>6. Taking' /\ Claimed' /\ Whole' /\ Complete'
  BY <1>1, <1>3 DEF Taking, Claimed, Whole, Complete
<1> QED BY <1>5, <1>6 DEF Lines

\* The lines of an answer before its final line are all of its body.
LEMMA AnswerBody ==
  ASSUME NEW c \in Command, NEW body \in Bodies(c)
  PROVE  body \in Seq(Line) /\ \A i \in DOMAIN body : IsBody(body[i])
<1>1. body \in Seq(Line) /\ \A l \in Elements(body) : l.from = c.id /\ ~ Ending(l)
  BY BodyFacts, BodyLines DEF Command
<1>2. c.id # 0
  BY ConstantsAssumption DEF Command, Ids
<1>3. \A i \in DOMAIN body : body[i] \in Elements(body)
  BY DEF Elements
<1> QED BY <1>1, <1>2, <1>3 DEF IsBody

\* Every line of an answer is one that handleLine() takes, its first line first.
LEMMA BodyTaken ==
  ASSUME NEW c \in Command, Fits(c.req), NEW m \in Bodies(c), NEW i \in DOMAIN m,
         NEW lines, i # 1 => lines # <<>>, ~ IsFinal(m[i], c.req)
  PROVE  IsCollected(m[i], c.req, lines)
<1> DEFINE asked == [from |-> c.id, kind |-> "prefix", prefix |-> c.req.prefix]
           digit == [from |-> c.id, kind |-> "digit", prefix |-> None]
           text  == [from |-> c.id, kind |-> "text", prefix |-> None]
<1>1. /\ asked.prefix = c.req.prefix
      /\ digit.kind = "digit"
      /\ text.prefix = None
  OBVIOUS
<1>2. c.req.type \in Types
  BY DEF Command, Request
<1>3. CASE c.req.type = "MULTILINE"
  <2>1. m = <<asked, text>>
    BY <1>3 DEF Bodies
  <2> HIDE DEF asked, text
  <2>2. (i = 1 /\ m[i] = asked) \/ (i # 1 /\ m[i] = text)
    BY <2>1
  <2> QED BY <1>1, <1>3, <2>2 DEF IsCollected
<1>4. CASE c.req.type = "NUMERIC"
  <2>1. m = <<>> \/ m = <<digit>> \/ (c.req.prefix # None /\ m = <<asked>>)
    BY <1>4 DEF Bodies
  <2> HIDE DEF asked, digit
  <2>2. m[i] = digit \/ (c.req.prefix # None /\ m[i] = asked)
    BY <2>1
  <2> QED BY <1>1, <1>4, <2>2 DEF IsCollected
<1>5. CASE c.req.type \in {"NO_PREFIX", "NO_PREFIX_ALL"}
  <2>1. m = <<>> \/ m = <<text>>
    BY <1>5 DEF Bodies
  <2> HIDE DEF text
  <2>2. m[i] = text
    BY <2>1
  <2> QED BY <1>1, <1>5, <2>2 DEF IsCollected
<1>6. CASE c.req.type \in {"DEFAULT", "NO_RESPONSE", "DIAL"}
  <2>1. m = <<>> \/ (c.req.prefix # None /\ m = <<asked>>)
    BY <1>6 DEF Bodies
  <2> HIDE DEF asked
  <2>2. c.req.prefix # None /\ m[i] = asked
    BY <2>1
  <2>3. c.req.type = "DEFAULT"
    BY <1>6, <2>2 DEF Fits
  <2> QED BY <1>1, <2>2, <2>3 DEF IsCollected
<1> QED BY <1>2, <1>3, <1>4, <1>5, <1>6 DEF Types

\* While a call waits for its answer, no line of an answer is passed over.
LEMMA HeadTaken ==
  ASSUME Basis, Lines, Fitting, rpc = "line", curr # None, IsBody(Head(chunk))
  PROVE  IsCollected(Head(chunk), cmd[curr].req, resp[curr].lines)
<1> DEFINE h == Head(chunk)
           a == resp[curr].lines
           c == cmd[curr]
           m == answer[c.id].lines
           v == a ++ (chunk ++ rx)
<1>1. Reading /\ chunk # <<>> /\ Rest = chunk /\ h \in Coming
  BY AtLine, LineAtHand
<1>2. curr = mutex /\ curr \in Senders /\ Waits(curr) /\ c \in Command
  BY Published
<1>3. h.from # 0 /\ ~ Ending(h)
  BY DEF IsBody
<1>4. answer[c.id] # NoAnswer
  <2>1. OfWaiting(h)
    BY <1>1, <1>3 DEF Basis, Carried, Queued
  <2> QED BY <1>2, <2>1 DEF OfWaiting
<1>5. m \in Bodies(c) /\ BodyPart(v, m)
  <2>1. answer[c.id].lines \in Bodies(c) /\ BodyPart(Stream(curr), answer[c.id].lines)
    BY <1>1, <1>4 DEF Lines, Whole
  <2> QED BY <1>1, <2>1 DEF Stream
<1>6. a \in Seq(Line) /\ chunk \in Seq(Line) /\ rx \in Seq(Line)
  BY <1>2, LineTypes
<1>7. Fits(c.req)
  BY <1>2 DEF Fitting, Underway, Waits
<1>8. m \in Seq(Line)
  BY <1>2, <1>5, AnswerBody
<1> HIDE DEF h, a, c, m, v
<1>9. /\ v \in Seq(Line) /\ v[Len(a) + 1] = h /\ Len(a) + 1 \in 1 .. Len(v)
  BY <1>1, <1>6, DropFacts DEF h, v, Without
<1>10. PICK at \in [DOMAIN m -> DOMAIN v] :
         /\ \A i, j \in DOMAIN m : i < j => at[i] < at[j]
         /\ \A i \in DOMAIN m : v[at[i]] = m[i]
         /\ \A n \in DOMAIN v : IsBody(v[n]) => \E i \in DOMAIN m : at[i] = n
  BY <1>5 DEF BodyPart
<1>11. IsBody(v[Len(a) + 1]) /\ Len(a) + 1 \in DOMAIN v
  BY <1>3, <1>9 DEF IsBody
<1>12. PICK i \in DOMAIN m : at[i] = Len(a) + 1
  BY <1>10, <1>11
<1>13. m[i] = h
  BY <1>9, <1>10, <1>12
<1>14. ASSUME i # 1 PROVE a # <<>>
  <2>1. 1 \in DOMAIN m /\ 1 < i
    BY <1>8, <1>14
  <2>2. at[1] < Len(a) + 1 /\ at[1] \in DOMAIN v
    BY <1>10, <1>12, <2>1
  <2>3. at[1] \in Nat /\ at[1] > 0
    BY <1>9, <2>2
  <2>4. Len(a) # 0
    BY <1>6, <2>2, <2>3
  <2> QED BY <2>4
<1>15. ~ IsFinal(m[i], c.req)
  BY <1>3, <1>13, FinalEnds
<1>16. IsCollected(m[i], c.req, a)
  BY <1>2, <1>5, <1>7, <1>14, <1>15, BodyTaken
<1>17. IsCollected(h, c.req, a)
  BY <1>13, <1>16
<1> QED BY <1>17 DEF h, a, c



\* What the reader does with the line at hand when it moves on to the next one.
LEMMA NextFacts ==
  ASSUME Basis, rpc \in {"line", "collect"}, NextLine, UNCHANGED <<rx, ioBroken>>
  PROVE  /\ Reading /\ Reading' /\ chunk # <<>> /\ chunk \in Seq(Line) /\ rx \in Seq(Line)
         /\ Rest = chunk /\ Rest' = Tail(chunk) /\ Coming' \subseteq Coming
         /\ Head(chunk) \in Coming /\ rpc' \in {"top", "line"}
<1>1. /\ Reading /\ chunk # <<>> /\ Rest = chunk /\ Head(chunk) \in Coming
      /\ Elements(chunk) = {Head(chunk)} \cup Elements(Tail(chunk))
  BY AtLine, LineAtHand
<1>2. chunk' = Tail(chunk) /\ rpc' \in {"top", "line"}
  BY DEF NextLine
<1>3. Reading' /\ Rest' = Tail(chunk)
  BY <1>1, <1>2 DEF Reading, Rest
<1>4. Elements(rx)' = Elements(rx) /\ Elements(Rest)' = Elements(Tail(chunk))
  BY <1>3 DEF Elements
<1>5. Coming' \subseteq Coming
  BY <1>1, <1>4 DEF Coming
<1>6. chunk \in Seq(Line) /\ rx \in Seq(Line)
  BY CallerTypes
<1> QED BY <1>1, <1>2, <1>3, <1>5, <1>6

\* A line that is not for the call that waits is passed over.
LEMMA DropLines ==
  ASSUME Basis, Lines, rpc = "line", NextLine,
         UNCHANGED <<pc, cmd, resp, mutex, answer, misjudged, rx, sem, curr, ioBroken>>,
         curr # None => ~ IsBody(Head(chunk))
  PROVE  Lines'
<1>1. /\ Reading /\ Reading' /\ chunk # <<>> /\ chunk \in Seq(Line) /\ rx \in Seq(Line)
      /\ Rest = chunk /\ Rest' = Tail(chunk) /\ Coming' \subseteq Coming /\ rpc' \in {"top", "line"}
  BY NextFacts
<1>2. Unasked' /\ Taking' /\ Claimed'
  BY <1>1 DEF Lines, Unasked, Taking, Claimed, Fair
<1>3. Whole'
  <2> SUFFICES ASSUME curr # None
               PROVE  LET mine == answer[cmd[curr].id]
                      IN  IF mine = NoAnswer
                          THEN \A l \in Elements(resp[curr].lines) : l.from = 0
                          ELSE mine.lines \in Bodies(cmd[curr]) /\ BodyPart(Stream(curr)', mine.lines)
    BY DEF Whole, Elements, Stream
  <2> DEFINE a == resp[curr].lines
             mine == answer[cmd[curr].id]
             m == mine.lines
  <2>1. IF mine = NoAnswer
        THEN \A l \in Elements(a) : l.from = 0
        ELSE m \in Bodies(cmd[curr]) /\ BodyPart(Stream(curr), m)
    BY <1>1 DEF Lines, Whole
  <2>2. ASSUME mine # NoAnswer PROVE BodyPart(Stream(curr)', m)
    <3>1. ~ IsBody(Head(chunk))
      OBVIOUS
    <3>2. m \in Seq(Line) /\ \A i \in DOMAIN m : IsBody(m[i])
      BY <2>1, <2>2, Published, AnswerBody
    <3>3. a \in Seq(Line)
      BY Published, LineTypes
    <3>4. Stream(curr) = a ++ (chunk ++ rx) /\ Stream(curr)' = a ++ (Tail(chunk) ++ rx)
      BY <1>1 DEF Stream
    <3>5. /\ a ++ (chunk ++ rx) \in Seq(Line) /\ a ++ (Tail(chunk) ++ rx) \in Seq(Line)
          /\ Without(a ++ (chunk ++ rx), Len(a) + 1, a ++ (Tail(chunk) ++ rx))
          /\ (a ++ (chunk ++ rx))[Len(a) + 1] = Head(chunk)
      BY <1>1, <3>3, DropFacts
    <3>6. BodyPart(a ++ (chunk ++ rx), m)
      BY <2>1, <2>2, <3>4
    <3> HIDE DEF a, m, mine
    <3>7. BodyPart(a ++ (Tail(chunk) ++ rx), m)
      BY <3>1, <3>2, <3>5, <3>6, PartWithout
    <3> QED BY <3>4, <3>7
  <2> QED BY <2>1, <2>2
<1>4. Complete'
  BY <1>1 DEF Lines, Complete, Over
<1> QED BY <1>2, <1>3, <1>4 DEF Lines

\* handleLine() decides what becomes of a line.
LEMMA TestLines == ASSUME Basis, Lines, Fitting, TestLine PROVE Lines'
<1>1. /\ rpc = "line"
      /\ UNCHANGED <<pc, cmd, mutex, answer, rx, sem, curr, ioBroken, resp>>
  BY Zenon DEF TestLine, callerVars, chanVars, portVars
<1>2. CASE NextLine /\ misjudged' = misjudged /\ (curr # None => ~ IsBody(Head(chunk)))
  BY <1>1, <1>2, DropLines
<1>3. CASE /\ chunk' = chunk /\ misjudged \subseteq misjudged'
           /\ rpc' = "finish" \/ (rpc' = "collect" /\ Taking')
  <2>1. Reading' => Reading /\ Rest' = Rest
    BY <1>1, <1>3 DEF Reading, Rest
  <2>2. Taking'
    BY <1>3 DEF Taking
  <2>3. mutex # None => (Over(mutex)' => Over(mutex))
    BY <1>1, <1>3 DEF Over
  <2> QED BY <1>1, <1>3, <2>1, <2>2, <2>3, LinesKept
<1>4. CASE curr = None
  BY <1>2, <1>4 DEF TestLine
<1>5. CASE curr # None
  <2>1. CASE rpc' = "finish" /\ rptr' = curr /\ UNCHANGED <<chunk, misjudged>>
    BY <1>3, <2>1
  <2>2. CASE /\ rpc' = "collect" /\ UNCHANGED chunk
             /\ misjudged' = misjudged \cup
                  {cmd[s].id : s \in {u \in {curr} :
                     ~ IsCollected(Head(chunk), cmd[u].req, resp[u].lines)}}
    <3>1. \/ IsCollected(Head(chunk), cmd[curr].req, resp[curr].lines)
          \/ cmd[curr].id \in misjudged'
      BY <2>2
    <3>2. Taking'
      BY <1>1, <2>2, <3>1 DEF Taking
    <3> QED BY <1>3, <2>2, <3>2
  <2>3. CASE /\ NextLine /\ misjudged' = misjudged
             /\ \E q \in Seen : ~ IsCollected(Head(chunk), q, resp[curr].lines)
    <3>1. PICK q \in Seen : ~ IsCollected(Head(chunk), q, resp[curr].lines)
      BY <2>3
    <3>2. ~ IsBody(Head(chunk))
      BY <1>1, <1>5, <3>1, Judged, HeadTaken DEF IsBody
    <3> QED BY <1>2, <2>3, <3>2
  <2> QED BY <1>5, <2>1, <2>2, <2>3 DEF TestLine
<1> QED BY <1>4, <1>5

\* A line that is taken for the call that waits is one it can claim.
LEMMA CollectLines == ASSUME Basis, Lines, Fitting, CollectLine PROVE Lines'
<1>1. /\ rpc = "collect"
      /\ UNCHANGED <<pc, cmd, mutex, answer, misjudged, rx, sem, curr, ioBroken>>
  BY Zenon DEF CollectLine, chanVars, portVars, historyVars
<1>2. curr # None /\ rptr = curr /\ ~ IsFinal(Head(chunk), cmd[curr].req)
  BY <1>1 DEF Basis, NoCrashInv, HandOver, Carried, Held
<1>3. NextLine /\ resp' = [resp EXCEPT ![curr].lines = Append(@, Head(chunk))]
  BY <1>2 DEF CollectLine, Deref
<1>4. /\ Reading /\ Reading' /\ chunk # <<>> /\ chunk \in Seq(Line) /\ rx \in Seq(Line)
      /\ Rest = chunk /\ Rest' = Tail(chunk) /\ Coming' \subseteq Coming
      /\ Head(chunk) \in Coming /\ rpc' \in {"top", "line"}
  BY <1>1, <1>3, NextFacts
<1>5. /\ curr = mutex /\ curr \in Senders /\ Waits(curr) /\ sem = 0
      /\ cmd[curr] \in Command
  BY <1>2, Published
<1> DEFINE h == Head(chunk)
           a == resp[curr].lines
           c == cmd[curr]
           mine == answer[cmd[curr].id]
<1>6. resp'[curr].lines = Append(a, h) /\ a \in Seq(Line)
  <2>1. a \in Seq(Line)
    BY <1>5, LineTypes
  <2>2. resp'[curr].lines = Append(a, h)
    BY <1>3, <1>5, CallerTypes DEF Response
  <2> QED BY <2>1, <2>2
<1>7. h \in Line /\ Elements(Append(a, h)) = Elements(a) \cup {h}
  <2>1. h \in Line
    BY <1>4, SeqFacts, Zenon
  <2>2. h \in Line /\ a \in Seq(Line)
    BY <1>6, <2>1
  <2>3. Elements(Append(a, h)) = Elements(a) \cup {h}
    BY <2>2, LineQueues, Zenon
  <2> QED BY <2>1, <2>3
<1>8. IF h.from = 0 THEN ~ Ending(h) ELSE OfWaiting(h)
  BY <1>4 DEF Basis, Carried, Queued
<1>9. ~ Ending(h)
  BY <1>2, <1>5, <1>8, ConstantsAssumption DEF OfWaiting
<1>10. Fair(h, c)
  <2>1. h.from = 0 => h.kind = "prefix" /\ h.prefix # None
    BY <1>4, ConstantsAssumption DEF Lines, Unasked
  <2>2. c.id \in misjudged \/ IsCollected(h, c.req, a)
    BY <1>1, <1>2, <1>5 DEF Lines, Taking
  <2>f. Fits(c.req)
    BY <1>5 DEF Fitting, Underway, Waits
  <2>3. \/ c.id \in misjudged
        \/ h.from # 0 \/ c.req.type = "NO_PREFIX_ALL" \/ h.prefix = c.req.prefix
    BY <2>1, <2>2, <2>f DEF IsCollected, Fits
  <2> QED BY <1>9, <2>3 DEF Fair
<1> HIDE DEF h, a, c, mine
<1>11. Unasked' /\ Taking'
  BY <1>4 DEF Lines, Unasked, Taking
<1>12. Claimed'
  <2>1. \A l \in Elements(a) : Fair(l, c)
    BY <1>2, <1>5 DEF Lines, Claimed, a, c
  <2>2. \A l \in Elements(resp'[curr].lines) : Fair(l, c)
    BY <1>6, <1>7, <1>10, <2>1
  <2> QED BY <1>1, <1>5, <2>2 DEF Claimed, Elements, Fair, c
<1>13. Whole'
  <2>1. IF mine = NoAnswer
        THEN \A l \in Elements(a) : l.from = 0
        ELSE mine.lines \in Bodies(cmd[curr]) /\ BodyPart(Stream(curr), mine.lines)
    BY <1>1, <1>2, <1>4 DEF Lines, Whole, a, mine
  <2>2. CASE mine = NoAnswer
    <3>1. h.from = 0
      BY <1>5, <1>8, <2>2 DEF OfWaiting, mine
    <3>2. \A l \in Elements(resp'[curr].lines) : l.from = 0
      BY <1>6, <1>7, <2>1, <2>2, <3>1
    <3> QED BY <1>1, <2>2, <3>2 DEF Whole, Elements, mine
  <2>3. CASE mine # NoAnswer
    <3>1. Append(a, h) ++ (Tail(chunk) ++ rx) = a ++ (chunk ++ rx)
      BY <1>4, <1>6, DropFacts DEF h
    <3>2. Stream(curr)' = Append(a, h) ++ (Tail(chunk) ++ rx)
      BY <1>1, <1>4, <1>6 DEF Stream
    <3>3. Stream(curr) = a ++ (chunk ++ rx)
      BY <1>4 DEF Stream, a
    <3>4. Stream(curr)' = Stream(curr)
      BY <3>1, <3>2, <3>3
    <3> QED BY <1>1, <2>1, <2>3, <3>4 DEF Whole, mine
  <2> QED BY <2>2, <2>3
<1>14. Complete'
  <2>1. ~ Over(mutex)'
    BY <1>1, <1>4, <1>5 DEF Over, Waits
  <2> QED BY <1>1, <2>1 DEF Complete
<1> QED BY <1>11, <1>12, <1>13, <1>14 DEF Lines


\* When its final line is at hand a call has got all lines of its answer.
LEMMA FinishLines == ASSUME Basis, Lines, FinishLine PROVE Lines'
<1>1. /\ rpc = "finish"
      /\ UNCHANGED <<pc, cmd, mutex, answer, misjudged, rx, chunk, sem, curr, ioBroken>>
  BY Zenon DEF FinishLine, chanVars, portVars, historyVars
<1>2. curr # None /\ rptr = curr /\ IsFinal(Head(chunk), cmd[curr].req)
  BY <1>1 DEF Basis, NoCrashInv, HandOver, Carried, Held
<1>3. rpc' = "clear" /\ resp' = [resp EXCEPT ![curr].error = Verdict(Head(chunk))]
  BY <1>2 DEF FinishLine, Deref, Verdict
<1>4. /\ curr = mutex /\ curr \in Senders /\ cmd[curr] \in Command
  BY <1>2, Published
<1>5. Ending(Head(chunk))
  BY <1>2, FinalEnds
<1>6. /\ Reading /\ chunk # <<>> /\ Rest = chunk /\ OfWaiting(Head(chunk))
      /\ Elements(chunk) = {Head(chunk)} \cup Elements(Tail(chunk))
      /\ \A l \in Elements(Tail(chunk)) \cup Elements(rx) : l.from = 0
  BY <1>1, <1>5, AtLine, LineAtHand
<1>7. Rest' = Tail(chunk)
  BY <1>1, <1>3 DEF Rest
<1>8. Coming' \subseteq Coming
  <2>1. Elements(rx)' = Elements(rx) /\ Elements(Rest)' = Elements(Tail(chunk))
    BY <1>1, <1>7 DEF Elements
  <2> QED BY <1>6, <2>1 DEF Coming
<1> DEFINE a == resp[curr].lines
           m == answer[cmd[curr].id].lines
<1>9. resp'[curr].lines = a
  BY <1>3, <1>4, CallerTypes DEF Response
<1>10. Unasked' /\ Taking' /\ Whole'
  BY <1>3, <1>6, <1>8 DEF Lines, Unasked, Taking, Whole
<1>11. Claimed'
  <2>1. \A l \in Elements(a) : Fair(l, cmd[mutex])
    BY <1>2, <1>4 DEF Lines, Claimed
  <2>2. \A l \in Elements(resp'[mutex].lines) : Fair(l, cmd[mutex])
    BY <1>4, <1>9, <2>1
  <2> QED BY <1>1, <2>2 DEF Claimed, Elements, Fair
<1>12. m \in Bodies(cmd[curr]) /\ BodyPart(a ++ (chunk ++ rx), m)
  <2>1. answer[cmd[curr].id] # NoAnswer
    BY <1>4, <1>6 DEF OfWaiting
  <2> QED BY <1>1, <1>2, <1>6, <2>1 DEF Lines, Whole, Stream
<1>13. m \in Seq(Line) /\ \A i \in DOMAIN m : IsBody(m[i])
  BY <1>4, <1>12, AnswerBody
<1>14. \A l \in Elements(a) : ~ Ending(l)
  BY <1>2, <1>4 DEF Lines, Claimed, Fair
<1>15. a \in Seq(Line) /\ chunk \in Seq(Line) /\ rx \in Seq(Line)
  BY <1>4, LineTypes
<1>16. chunk ++ rx \in Seq(Line)
  BY <1>15, PlaceFacts
<1>17. \A l \in Elements(chunk ++ rx) : ~ IsBody(l)
  <2>1. Elements(chunk ++ rx) = Elements(chunk) \cup Elements(rx)
    BY <1>15, JoinedElements
  <2> QED BY <1>5, <1>6, <2>1 DEF IsBody
<1> HIDE DEF a, m
<1>18. OwnPart(a, m)
  BY <1>12, <1>13, <1>14, <1>15, <1>16, <1>17, PartFront
<1>19. Complete'
  BY <1>1, <1>4, <1>9, <1>18 DEF Complete, m
<1> QED BY <1>10, <1>11, <1>19 DEF Lines

\* A chunk takes its lines from the port in their order.
LEMMA PollLines == ASSUME Basis, Lines, PollData PROVE Lines'
<1>1. /\ rpc = "poll"
      /\ UNCHANGED <<pc, cmd, resp, mutex, answer, misjudged, sem, curr, ioBroken>>
  BY Zenon DEF PollData, callerVars, chanVars, portVars, historyVars
<1>2. PICK n \in 1 .. Len(rx) :
        /\ rx' = SubSeq(rx, n + 1, Len(rx))
        /\ chunk' = IF stop THEN <<>> ELSE SubSeq(rx, 1, n)
  BY DEF PollData
<1>3. chunk = <<>> /\ Rest = <<>> /\ rx \in Seq(Line)
  BY <1>1, CallerTypes DEF Basis, Carried, Held, Rest
<1>4. rpc' \in {"exit", "line"}
  BY DEF PollData
<1>5. Claimed' /\ Complete' /\ Taking'
  <2>1. Taking'
    BY <1>4 DEF Taking
  <2>2. mutex # None => (Over(mutex)' => Over(mutex))
    BY <1>1, <1>4 DEF Over
  <2>3. Claimed'
    BY <1>1 DEF Lines, Claimed, Fair, Elements
  <2>4. Complete'
    BY <1>1, <2>2 DEF Lines, Complete
  <2> QED BY <2>1, <2>3, <2>4
<1>6. CASE stop
  <2>1. ~ Reading'
    BY <1>6 DEF PollData, Reading
  <2> QED BY <1>5, <2>1 DEF Lines, Unasked, Whole
<1>7. CASE ~ stop
  <2>1. rpc' = "line" /\ chunk' = SubSeq(rx, 1, n)
    BY <1>2, <1>7, Zenon DEF PollData
  <2>2. (Reading' <=> Reading) /\ Rest' = SubSeq(rx, 1, n)
    BY <1>1, <2>1 DEF Reading, Rest
  <2>3. n \in 0 .. Len(rx)
    BY <1>3
  <2>4. Rest' \in Seq(Line) /\ rx' \in Seq(Line)
    BY <1>2, <1>3, <2>2, <2>3, CutFacts
  <2>5. SubSeq(rx, 1, n) ++ SubSeq(rx, n + 1, Len(rx)) = rx
    BY <1>3, <2>3, JoinedAgain, Zenon
  <2>6. Rest' ++ rx' = rx
    BY <1>2, <2>2, <2>5
  <2>7. Rest ++ rx = rx
    <3>1. <<>> ++ rx = rx
      BY <1>3, ConcatEmptySeq DEF ++
    <3> QED BY <1>3, <3>1
  <2>8. Elements(Rest') \cup Elements(rx') = Elements(rx) /\ Elements(<<>>) = {}
    <3>1. Elements(Rest' ++ rx') = Elements(Rest') \cup Elements(rx')
      BY <2>4, JoinedElements
    <3>2. Elements(<<>>) = {}
      BY DEF Elements
    <3> QED BY <2>6, <3>1, <3>2
  <2>9. Coming' = Coming
    BY <1>3, <2>8 DEF Coming, Elements
  <2>10. Unasked'
    BY <2>2, <2>9 DEF Lines, Unasked
  <2>11. \A s : Stream(s)' = Stream(s)
    <3>1. \A s : Stream(s)' = resp[s].lines ++ (Rest' ++ rx')
      BY <1>1 DEF Stream
    <3> QED BY <2>6, <2>7, <3>1 DEF Stream
  <2>12. Whole'
    BY <1>1, <2>1, <2>2, <2>11 DEF Lines, Whole, Elements
  <2> QED BY <1>5, <2>10, <2>12 DEF Lines
<1> QED BY <1>6, <1>7


\* An answer comes behind all that is on its way, whole and at once.
LEMMA ModemLines == ASSUME Basis, Lines, ModemAnswers PROVE Lines'
<1>1. /\ tx # <<>>
      /\ UNCHANGED <<pc, cmd, resp, mutex, misjudged, sem, curr, rpc, chunk, ioBroken>>
  BY Zenon DEF ModemAnswers, callerVars, chanVars, readerVars
<1> DEFINE c == Head(tx)
<1>2. PICK body \in Bodies(c), verdict \in {"SUCCESS", "ERROR"} :
        /\ \E final \in Finals(c.req, verdict) :
             rx' = Append(rx \o body, [from |-> c.id, kind |-> final, prefix |-> None])
        /\ answer' = [answer EXCEPT ![c.id] = [verdict |-> verdict, lines |-> body]]
  BY DEF ModemAnswers
<1>3. PICK final \in Finals(c.req, verdict) :
        rx' = Append(rx \o body, [from |-> c.id, kind |-> final, prefix |-> None])
  BY <1>2
<1> DEFINE last == [from |-> c.id, kind |-> final, prefix |-> None]
<1>4. rx' = Append(rx \o body, last)
  BY <1>3
<1>5. answer' = [answer EXCEPT ![c.id] = [verdict |-> verdict, lines |-> body]]
  BY <1>2
<1>6. last.from = c.id /\ last.kind = final
  OBVIOUS
<1>7. last = [from |-> c.id, kind |-> final, prefix |-> None]
  OBVIOUS
<1> HIDE DEF c, last
<1>8. Queued /\ Verdicts /\ Numbers /\ CurrOwned /\ rx \in Seq(Line) /\ tx \in Seq(Command)
  BY CallerTypes DEF Basis, NoCrashInv, Carried
<1>9. c \in Command /\ c \in Elements(tx)
  <2>1. c \in Command /\ 1 \in DOMAIN tx /\ tx[1] = c
    BY <1>1, <1>8 DEF c
  <2> QED BY <2>1, Zenon DEF Elements
<1>10. c.id \in Ids /\ c.id # 0 /\ answer[c.id] = NoAnswer
  BY <1>8, <1>9, ConstantsAssumption DEF Command, Numbers, Ids
<1>11. /\ answer'[c.id] # NoAnswer /\ answer'[c.id].lines = body
       /\ \A i \in Ids \ {c.id} : answer'[i] = answer[i]
  <2>1. /\ answer'[c.id] = [verdict |-> verdict, lines |-> body]
        /\ \A i \in Ids \ {c.id} : answer'[i] = answer[i]
    BY <1>5, <1>10, CallerTypes
  <2>2. answer'[c.id].verdict # "TIMEOUT" /\ answer'[c.id].lines = body
    BY <2>1
  <2> QED BY <2>1, <2>2 DEF NoAnswer
<1>12. body \in Seq(Line) /\ \A l \in Elements(body) : l.from = c.id
  BY <1>9, AnswerBody, BodyLines
<1>13. Ending(last) /\ last \in Line
  <2>1. Ending(last)
    BY <1>6, FinalFacts
  <2>2. final \in {"OK", "ERROR", "CONNECT", "NO CARRIER"}
    BY <1>6, <2>1, Zenon DEF Ending
  <2>3. last \in Line
    BY <1>7, <1>10, <2>2, FinalLine, Zenon
  <2> QED BY <2>1, <2>3
<1>14. rx' = (rx ++ body) ++ <<last>> /\ rx ++ body \in Seq(Line)
  <2>1. rx \o body \in Seq(Line)
    BY <1>8, <1>12
  <2>2. Append(rx \o body, last) = (rx \o body) \o <<last>>
    BY <1>13, <2>1, AppendIsConcat
  <2> QED BY <1>4, <2>1, <2>2 DEF ++
<1>15. Elements(rx') = Elements(rx) \cup Elements(body) \cup {last}
  <2>1. Elements(<<last>>) = {last} /\ <<last>> \in Seq(Line)
    BY <1>13 DEF Elements
  <2>2. Elements((rx ++ body) ++ <<last>>) = Elements(rx ++ body) \cup Elements(<<last>>)
    BY <1>14, <2>1, JoinedElements
  <2>3. Elements(rx ++ body) = Elements(rx) \cup Elements(body)
    BY <1>8, <1>12, JoinedElements
  <2> QED BY <1>14, <2>1, <2>2, <2>3
<1>16. (Reading' <=> Reading) /\ Rest' = Rest
  BY <1>1 DEF Reading, Rest
<1>17. Coming' = Coming \cup Elements(body) \cup {last}
  <2>1. Coming' = Elements(Rest) \cup Elements(rx')
    BY <1>16 DEF Coming, Elements
  <2> QED BY <1>15, <2>1 DEF Coming
<1>18. Reading => mutex # None /\ c = cmd[mutex]
  BY <1>8, <1>9 DEF Queued
<1>19. Reading => \A l \in Coming : l.from = 0
  BY <1>8, <1>10, <1>18 DEF Queued, OfWaiting
<1>20. Unasked'
  BY <1>6, <1>10, <1>12, <1>16, <1>17 DEF Lines, Unasked
<1>21. Taking' /\ Claimed'
  BY <1>1 DEF Lines, Taking, Claimed, Fair, Elements
<1>22. Whole'
  <2> SUFFICES ASSUME curr # None, Reading, rpc # "clear"
               PROVE  /\ answer'[cmd[curr].id] # NoAnswer
                      /\ answer'[cmd[curr].id].lines \in Bodies(cmd[curr])
                      /\ BodyPart(Stream(curr)', answer'[cmd[curr].id].lines)
    BY <1>1, <1>16 DEF Whole
  <2>1. cmd[curr] = c /\ curr \in Senders
    BY <1>18, Published
  <2> DEFINE a == resp[curr].lines
  <2>2. \A l \in Elements(a) : l.from = 0
    BY <1>10, <2>1 DEF Lines, Whole
  <2>3. \A l \in Elements(a) \cup Elements(Rest) \cup Elements(rx) : ~ IsBody(l)
    BY <1>19, <2>2 DEF Coming, IsBody
  <2>4. ~ IsBody(last)
    BY <1>13 DEF IsBody
  <2>5. a \in Seq(Line) /\ Rest \in Seq(Line)
    BY <2>1, LineTypes
  <2>6. Stream(curr)' = a ++ (Rest ++ ((rx ++ body) ++ <<last>>))
    BY <1>1, <1>14, <1>16 DEF Stream
  <2> HIDE DEF a
  <2>7. BodyPart(a ++ (Rest ++ ((rx ++ body) ++ <<last>>)), body)
    BY <1>8, <1>12, <1>13, <2>3, <2>4, <2>5, AnswerFacts
  <2> QED BY <1>11, <2>1, <2>6, <2>7
<1>23. Complete'
  <2> SUFFICES ASSUME mutex # None, Over(mutex)
               PROVE  OwnPart(resp[mutex].lines, answer'[cmd[mutex].id].lines)
    BY <1>1 DEF Complete, Over
  <2>1. answer[cmd[mutex].id] # NoAnswer
    BY <1>8 DEF Verdicts, Over, Told
  <2>2. mutex \in Senders /\ Inside(mutex)
    BY <1>8, CallerTypes DEF CurrOwned
  <2>3. cmd[mutex].id \in Ids
    BY <2>2 DEF Basis, NoCrashInv, TypeInv, Busy, Inside
  <2>4. answer'[cmd[mutex].id] = answer[cmd[mutex].id]
    BY <1>10, <1>11, <2>1, <2>3
  <2> QED BY <2>4 DEF Lines, Complete
<1> QED BY <1>20, <1>21, <1>22, <1>23 DEF Lines

\* An unsolicited line is of no answer, wherever it gets in.
LEMMA UnsolicitedLines == ASSUME Basis, Lines, UnsolicitedLine PROVE Lines'
<1>1. UNCHANGED <<pc, cmd, resp, mutex, answer, misjudged, sem, curr, rpc, chunk, ioBroken>>
  BY Zenon DEF UnsolicitedLine, callerVars, chanVars, readerVars
<1>2. PICK p \in Prefixes, n \in 0 .. Len(rx) :
        rx' = SubSeq(rx, 1, n) \o <<[from |-> 0, kind |-> "prefix", prefix |-> p]>>
                               \o SubSeq(rx, n + 1, Len(rx))
  BY DEF UnsolicitedLine
<1> DEFINE u == [from |-> 0, kind |-> "prefix", prefix |-> p]
           x == SubSeq(rx, 1, n)
           y == SubSeq(rx, n + 1, Len(rx))
<1>3. rx' = x ++ <<u>> ++ y
  BY <1>2 DEF ++
<1>4. u.from = 0 /\ u.kind = "prefix" /\ u.prefix = p
  OBVIOUS
<1>5. u \in Line
  <2>1. 0 \in 0 .. MaxCmds
    BY ConstantsAssumption
  <2> QED BY <2>1, PrefixLine, Zenon
<1>6. rx \in Seq(Line) /\ Rest \in Seq(Line)
  BY LineTypes
<1>7. x \in Seq(Line) /\ y \in Seq(Line) /\ x ++ y = rx
  BY <1>6, CutFacts, JoinedAgain
<1>8. ASSUME NEW a \in Seq(Line)
      PROVE  rx' \in Seq(Line) /\ Inserted(a ++ (Rest ++ rx), a ++ (Rest ++ rx'), u)
  <2> HIDE DEF u, x, y
  <2>1. Rest \in Seq(Line) /\ u \in Line /\ x \in Seq(Line) /\ y \in Seq(Line)
    BY <1>5, <1>6, <1>7
  <2>2. /\ (x ++ <<u>>) ++ y \in Seq(Line)
        /\ Inserted(a ++ (Rest ++ (x ++ y)), a ++ (Rest ++ ((x ++ <<u>>) ++ y)), u)
    BY <2>1, InsertFacts
  <2> QED BY <1>3, <1>7, <2>2
<1> HIDE DEF u, x, y
<1>9. Elements(rx') = Elements(rx) \cup {u}
  <2>1. <<u>> \in Seq(Line) /\ Elements(<<u>>) = {u}
    BY <1>5 DEF Elements
  <2>2. x ++ <<u>> \in Seq(Line) /\ Elements(x ++ <<u>>) = Elements(x) \cup {u}
    BY <1>7, <2>1, PlaceFacts, JoinedElements
  <2>3. Elements((x ++ <<u>>) ++ y) = Elements(x ++ <<u>>) \cup Elements(y)
    BY <1>7, <2>2, JoinedElements
  <2>4. Elements(x ++ y) = Elements(x) \cup Elements(y)
    BY <1>7, JoinedElements
  <2> QED BY <1>3, <1>7, <2>2, <2>3, <2>4
<1>10. (Reading' <=> Reading) /\ Rest' = Rest
  BY <1>1 DEF Reading, Rest
<1>11. Coming' = Coming \cup {u}
  <2>1. Coming' = Elements(Rest) \cup Elements(rx')
    BY <1>10 DEF Coming, Elements
  <2> QED BY <1>9, <2>1 DEF Coming
<1>12. Unasked'
  BY <1>4, <1>10, <1>11 DEF Lines, Unasked
<1>13. Taking' /\ Claimed' /\ Complete'
  BY <1>1 DEF Lines, Taking, Claimed, Fair, Complete, Over, Elements
<1>14. Whole'
  <2> SUFFICES ASSUME curr # None, Reading, rpc # "clear"
               PROVE  LET mine == answer[cmd[curr].id]
                      IN  IF mine = NoAnswer
                          THEN \A l \in Elements(resp[curr].lines) : l.from = 0
                          ELSE mine.lines \in Bodies(cmd[curr]) /\ BodyPart(Stream(curr)', mine.lines)
    BY <1>1, <1>10 DEF Whole, Elements
  <2> DEFINE a == resp[curr].lines
             mine == answer[cmd[curr].id]
             m == mine.lines
  <2>1. IF mine = NoAnswer
        THEN \A l \in Elements(a) : l.from = 0
        ELSE m \in Bodies(cmd[curr]) /\ BodyPart(Stream(curr), m)
    BY DEF Lines, Whole
  <2>2. ASSUME mine # NoAnswer PROVE BodyPart(Stream(curr)', m)
    <3>1. m \in Seq(Line) /\ \A i \in DOMAIN m : IsBody(m[i])
      BY <2>1, <2>2, Published, AnswerBody
    <3>2. a \in Seq(Line)
      BY Published, LineTypes
    <3>3. Stream(curr) = a ++ (Rest ++ rx) /\ Stream(curr)' = a ++ (Rest ++ rx')
      BY <1>1, <1>10 DEF Stream
    <3>4. BodyPart(a ++ (Rest ++ rx), m)
      BY <2>1, <2>2, <3>3
    <3> HIDE DEF a, m, mine
    <3>5. rx' \in Seq(Line) /\ Inserted(a ++ (Rest ++ rx), a ++ (Rest ++ rx'), u)
      BY <1>8, <3>2
    <3>6. PICK k \in Nat : /\ Without(a ++ (Rest ++ rx'), k, a ++ (Rest ++ rx))
                           /\ (a ++ (Rest ++ rx'))[k] = u
      BY <3>5 DEF Inserted
    <3>7. a ++ (Rest ++ rx') \in Seq(Line) /\ a ++ (Rest ++ rx) \in Seq(Line)
      <4>1. Rest ++ rx' \in Seq(Line) /\ Rest ++ rx \in Seq(Line)
        BY <1>6, <3>5, PlaceFacts
      <4> QED BY <3>2, <4>1, PlaceFacts
    <3>8. ~ IsBody(u)
      BY <1>4 DEF IsBody
    <3>9. BodyPart(a ++ (Rest ++ rx'), m)
      BY <3>1, <3>4, <3>6, <3>7, <3>8, PartWithout
    <3> QED BY <3>3, <3>9
  <2> QED BY <2>1, <2>2
<1> QED BY <1>12, <1>13, <1>14 DEF Lines


-----------------------------------------------------------------------------
(* Every caller gets its own answer. *)

\* A call goes on with a request whose lines can be told from others: one that cannot
\* have lines for want of a prefix is made a NO_RESPONSE one.
LEMMA FittingStep == TypeInv /\ Fitting /\ [Next]_vars => Fitting'
<1> SUFFICES ASSUME TypeInv, Fitting, [Next]_vars PROVE Fitting'
  OBVIOUS
<1>t. /\ pc \in [Senders -> SenderPCs] /\ Requests \subseteq Request
      /\ cmd \in [Senders -> [id : 0 .. MaxCmds, req : Request]]
  BY ConstantsAssumption DEF TypeInv, TypeOK, CallerTypeOK
<1>1. ASSUME NEW s \in Senders, NEW q \in Requests, Call(s, q) PROVE Fitting'
  <2> DEFINE r == IF q.type \in {"DEFAULT", "MULTILINE"} /\ q.prefix = None
                  THEN [q EXCEPT !.type = "NO_RESPONSE"] ELSE q
  <2>1. cmd' = [cmd EXCEPT ![s] = [id |-> issued + 1, req |-> r]]
    BY <1>1 DEF Call
  <2>2. q \in Request
    BY <1>t
  <2>3. Fits(r)
    <3>1. CASE q.type \in {"DEFAULT", "MULTILINE"} /\ q.prefix = None
      <4>1. r.type = "NO_RESPONSE" /\ r.prefix = None
        BY <2>2, <3>1 DEF Request
      <4> QED BY <4>1 DEF Fits
    <3>2. CASE ~ (q.type \in {"DEFAULT", "MULTILINE"} /\ q.prefix = None)
      BY <3>2, RequestsAssumption DEF Fits
    <3> QED BY <3>1, <3>2
  <2> HIDE DEF r
  <2>4. cmd'[s].req = r
    BY <1>t, <2>1
  <2>5. \A t \in Senders \ {s} : cmd'[t] = cmd[t] /\ pc'[t] = pc[t]
    BY <1>t, <1>1, <2>1 DEF Call
  <2> QED BY <2>3, <2>4, <2>5 DEF Fitting, Underway
<1>2. ASSUME NEW s \in Senders, Release(s) PROVE Fitting'
  BY <1>t, <1>2 DEF Release, Fitting, Underway
<1>3. CASE \/ \E s \in Senders : \/ Lock(s) \/ Publish(s) \/ Write(s) \/ WriteFails(s)
                                 \/ WaitPosted(s) \/ WaitTimesOut(s) \/ Return(s) \/ Join(s)
           \/ \E s \in Stoppers : Stop(s)
  <2>1. cmd' = cmd
    BY <1>3, Zenon DEF Lock, Publish, Write, WriteFails, WaitPosted, WaitTimesOut, Return, Join, Stop
  <2>2. \A s \in Senders : Underway(s)' => Underway(s)
    BY <1>3, <1>t, ConstantsAssumption
       DEF Lock, Publish, Write, WriteFails, WaitPosted, WaitTimesOut, Return, Join, Stop, Underway
  <2> QED BY <2>1, <2>2 DEF Fitting
<1>4. CASE Start \/ Reader \/ Modem \/ UNCHANGED vars
  <2>1. UNCHANGED <<pc, cmd>>
    BY <1>4, Zenon
       DEF Start, Reader, ReaderTop, PollData, PollWoken, PollBroken,
           BrokenTest, FinishBroken, PostBroken, CallBroken, TestLine, CollectLine, FinishLine,
           ClearCurrent, PostLine, ClearAgain, Modem, ModemAnswers, UnsolicitedLine,
           DeviceLost, vars, callerVars
  <2> QED BY <2>1 DEF Fitting, Underway
<1> QED BY <1>1, <1>2, <1>3, <1>4 DEF Next, Sender

\* As long as nobody has given up, each step keeps the lines of an answer together.
LEMMA LinesStep == Basis /\ Fitting /\ Lines /\ [Next]_vars /\ ~ disturbed' => Lines'
<1> SUFFICES ASSUME Basis, Fitting, Lines, [Next]_vars, ~ disturbed' PROVE Lines'
  OBVIOUS
<1>1. CASE \E s \in Senders : WriteFails(s) \/ WaitTimesOut(s)
  BY <1>1 DEF WriteFails, WaitTimesOut
<1>2. CASE \E s \in Senders : Lock(s) \/ Release(s)
  BY <1>2, LockLines, ReleaseLines
<1>3. CASE \/ \E s \in Senders : \/ (\E q \in Requests : Call(s, q)) \/ Return(s) \/ Join(s)
                                 \/ Publish(s) \/ Write(s) \/ WaitPosted(s)
           \/ \E s \in Stoppers : Stop(s)
           \/ Start \/ DeviceLost \/ UNCHANGED vars
  BY <1>3, OutsideLines
<1>4. CASE Reader
  BY <1>4, ReaderLines, TestLines, CollectLines, FinishLines, PollLines DEF Reader
<1>5. CASE ModemAnswers \/ UnsolicitedLine
  BY <1>5, ModemLines, UnsolicitedLines
<1> QED BY <1>1, <1>2, <1>3, <1>4, <1>5 DEF Next, Sender, Modem

\* Initially nothing is on its way.
LEMMA InitOwn == Init => OwnInv
<1> SUFFICES ASSUME Init PROVE OwnInv
  OBVIOUS
<1>1. /\ rpc = "off" /\ mutex = None /\ chunk = <<>> /\ rx = <<>> /\ curr = None
      /\ \A s \in Senders : pc[s] = "idle"
  BY DEF Init
<1>2. Elements(<<>>) = {}
  BY DEF Elements
<1>3. Coming = {}
  BY <1>1, <1>2 DEF Coming, Rest
<1> QED BY <1>1, <1>3 DEF OwnInv, Fitting, Underway, Lines, Unasked, Taking, Claimed, Whole, Complete

\* Every step keeps it, with the invariants above.
LEMMA StepOwn == Invariants /\ OwnInv /\ [Next]_vars => OwnInv'
<1> SUFFICES ASSUME Invariants, OwnInv, [Next]_vars PROVE OwnInv'
  OBVIOUS
<1>1. Fitting'
  BY FittingStep DEF Invariants, NoCrashInv, OwnInv
<1>2. ASSUME ~ disturbed' PROVE Lines'
  <2>1. ~ disturbed
    <3>1. disturbed' = disturbed \/ disturbed' = TRUE
      BY Zenon
         DEF Next, Sender, Call, Lock, Publish, Write, WriteFails, WaitPosted, WaitTimesOut, Release,
             Return, Join, Stop, Start, Reader, ReaderTop, PollData, PollWoken, PollBroken,
             BrokenTest, FinishBroken, PostBroken, CallBroken, TestLine, CollectLine, FinishLine,
             ClearCurrent, PostLine, ClearAgain, Modem, ModemAnswers, UnsolicitedLine,
             DeviceLost, vars, callerVars
    <3> QED BY <1>2, <3>1
  <2>2. Basis /\ Fitting /\ Lines
    BY <2>1 DEF Invariants, AnswerInv, Basis, OwnInv
  <2> QED BY <1>2, <2>2, LinesStep
<1> QED BY <1>1, <1>2 DEF OwnInv

\* The verdict of the modem is not that the device is gone.
LEMMA NotGone ==
  ASSUME Invariants, NEW s \in Senders, Inside(s), Told(s)
  PROVE  resp[s].error # "IO_BROKEN"
<1>1. cmd[s].id \in Ids
  BY DEF Invariants, NoCrashInv, TypeInv, Busy, Inside
<1>2. answer[cmd[s].id].verdict \in {"SUCCESS", "ERROR", "TIMEOUT"}
  BY <1>1 DEF Invariants, NoCrashInv, TypeInv, TypeOK, HistoryTypeOK
<1> QED BY <1>2 DEF Told

\* A caller gets the answer of the modem to its own command: its verdict, all of its lines
\* in their order, and nothing else but what has the prefix asked for, comes to a call that
\* asked for everything, or came between the writes of sendCommand() that publish the
\* response and its kind; or it is told, rightly, that the device is gone.  It holds of any
\* number of threads, of commands and of unsolicited lines wherever they get in, as long as
\* no caller has given up.
THEOREM OwnAnswers == Spec => []AnswerIsOwn
<1>1. Invariants /\ OwnInv => AnswerIsOwn
  <2> SUFFICES ASSUME Invariants, OwnInv, ~ disturbed, NEW s \in Senders, pc[s] = "done",
                      ~ (resp[s].error = "IO_BROKEN" /\ broken)
               PROVE  LET mine == answer[cmd[s].id]
                      IN  /\ resp[s].error = mine.verdict
                          /\ OwnPart(resp[s].lines, mine.lines)
                          /\ \A i \in DOMAIN resp[s].lines :
                               \/ resp[s].lines[i].from # 0 \/ cmd[s].req.type = "NO_PREFIX_ALL"
                               \/ resp[s].lines[i].prefix = cmd[s].req.prefix
                               \/ cmd[s].id \in misjudged
    BY DEF AnswerIsOwn
  <2>1. Lines /\ Verdicts /\ Inside(s) /\ mutex = s /\ mutex # None
    BY ConstantsAssumption
       DEF OwnInv, Invariants, AnswerInv, Carried, NoCrashInv, CurrOwned, Inside
  <2>2. Told(s)
    BY <2>1 DEF Verdicts
  <2>3. Over(s)
    BY <2>1, <2>2, NotGone DEF Over
  <2>4. OwnPart(resp[s].lines, answer[cmd[s].id].lines)
    BY <2>1, <2>3 DEF Lines, Complete
  <2>5. \A l \in Elements(resp[s].lines) : Fair(l, cmd[s])
    BY <2>1 DEF Lines, Claimed
  <2>6. \A i \in DOMAIN resp[s].lines : Fair(resp[s].lines[i], cmd[s])
    BY <2>5 DEF Elements
  <2> QED BY <2>2, <2>4, <2>6 DEF Told, Fair
<1>2. Init => Invariants /\ OwnInv
  BY InitInvariants, InitOwn
<1>3. Invariants /\ OwnInv /\ [Next]_vars => (Invariants /\ OwnInv)'
  BY StepInvariants, StepOwn
<1> QED BY <1>1, <1>2, <1>3, PTL DEF Spec

-----------------------------------------------------------------------------
(* The channel implements AtCommands. *)

\* How a thread looks from outside.
LEMMA Outward ==
  ASSUME NEW s \in Senders
  PROVE  /\ pc[s] = "lock" => CallState[s] = "queued"
         /\ Inside(s) <=> CallState[s] = "active"
         /\ pc[s] = "returned" => CallState[s] = "returned" /\ CallReply[s] = result[s]
         /\ pc[s] \in {"idle", "closed", "join"} => CallState[s] = "idle"
         /\ pc[s] # "returned" => CallReply[s] = "TIMEOUT"
BY DEF CallState, CallReply, Inside

\* And after a step.
LEMMA OutwardNext ==
  ASSUME NEW s \in Senders
  PROVE  /\ pc'[s] = "lock" => CallState'[s] = "queued"
         /\ pc'[s] \in {"publish", "write", "wait", "done"} => CallState'[s] = "active"
         /\ pc'[s] = "returned" => CallState'[s] = "returned" /\ CallReply'[s] = result'[s]
         /\ pc'[s] \in {"idle", "closed", "join"} => CallState'[s] = "idle"
         /\ pc'[s] # "returned" => CallReply'[s] = "TIMEOUT"
BY DEF CallState, CallReply, Inside

\* The channel starts with every thread outside.
LEMMA InitImplements == Init => Commands!Init
<1> SUFFICES ASSUME Init PROVE Commands!Init
  OBVIOUS
<1>1. \A s \in Senders : pc[s] = "idle"
  BY DEF Init
<1>2. CallState = [s \in Senders |-> "idle"] /\ CallReply = [s \in Senders |-> "TIMEOUT"]
  BY <1>1 DEF CallState, CallReply, Inside
<1>3. CallSaid = "TIMEOUT" /\ broken = FALSE /\ disturbed = FALSE
  BY DEF Init, CallSaid
<1> QED BY <1>2, <1>3 DEF Commands!Init

\* A step that changes nothing that is seen.
LEMMA Stutters ==
  ASSUME UNCHANGED <<mutex, answer, broken, disturbed>>,
         mutex # None => cmd'[mutex] = cmd[mutex],
         \A s \in Senders : /\ CallState'[s] = CallState[s]
                            /\ CallReply'[s] = CallReply[s]
  PROVE  UNCHANGED Commands!vars
<1>1. CallSaid' = CallSaid
  BY DEF CallSaid
<1>2. CallState' = CallState /\ CallReply' = CallReply
  BY DEF CallState, CallReply
<1> QED BY <1>1, <1>2 DEF Commands!vars

\* What is seen of the step of one thread.
LEMMA OneSeen ==
  ASSUME NEW s \in Senders, \A t \in Senders \ {s} : pc'[t] = pc[t] /\ result'[t] = result[t]
  PROVE  /\ CallState' = [CallState EXCEPT ![s] = CallState'[s]]
         /\ CallReply' = [CallReply EXCEPT ![s] = CallReply'[s]]
<1>1. \A t \in Senders \ {s} : CallState'[t] = CallState[t] /\ CallReply'[t] = CallReply[t]
  BY DEF CallState, CallReply, Inside
<1>2. /\ CallState = [t \in Senders |-> CallState[t]]
      /\ CallState' = [t \in Senders |-> CallState'[t]]
      /\ CallReply = [t \in Senders |-> CallReply[t]]
      /\ CallReply' = [t \in Senders |-> CallReply'[t]]
  BY DEF CallState, CallReply
<1> QED BY <1>1, <1>2

\* A call enters, or finds the channel closed.
LEMMA CallImplements ==
  ASSUME Invariants, NEW s \in Senders, NEW q \in Requests, Call(s, q)
  PROVE  Commands!Enter(s) \/ UNCHANGED Commands!vars
<1>1. /\ pc[s] = "idle" /\ UNCHANGED <<mutex, answer, broken, disturbed>>
      /\ \/ pc' = [pc EXCEPT ![s] = "closed"]
         \/ pc' = [pc EXCEPT ![s] = "lock"] /\ result' = result
  BY Zenon DEF Call, portVars, historyVars
<1>t. /\ pc \in [Senders -> SenderPCs] /\ result \in [Senders -> Errors \cup {None}]
      /\ cmd \in [Senders -> [id : 0 .. MaxCmds, req : Request]]
      /\ mutex \in Senders \cup {None} /\ CurrOwned
  BY DEF Invariants, NoCrashInv, TypeInv, TypeOK, CallerTypeOK
<1>2. \A t \in Senders \ {s} : pc'[t] = pc[t]
  BY <1>1, <1>t
<1>3. \A t \in Senders \ {s} : result'[t] = result[t]
  BY <1>t DEF Call
<1>4. mutex # None => cmd'[mutex] = cmd[mutex]
  <2>1. mutex # s
    BY <1>1, <1>t DEF CurrOwned, Inside
  <2>2. \A t \in Senders \ {s} : cmd'[t] = cmd[t]
    BY <1>t DEF Call
  <2> QED BY <2>1, <2>2, <1>t
<1>5. CallSaid' = CallSaid
  BY <1>1, <1>4 DEF CallSaid
<1>6. /\ CallState' = [CallState EXCEPT ![s] = CallState'[s]]
      /\ CallReply' = [CallReply EXCEPT ![s] = CallReply'[s]]
  BY <1>2, <1>3, OneSeen
<1>7. CallState[s] = "idle" /\ CallReply[s] = "TIMEOUT"
  BY <1>1, Outward
<1>8. pc'[s] # "returned" /\ CallReply'[s] = "TIMEOUT"
  BY <1>1, <1>t DEF CallReply
<1>9. CASE pc' = [pc EXCEPT ![s] = "lock"]
  <2>0. pc'[s] = "lock"
    BY <1>9, <1>t
  <2>1. CallState'[s] = "queued"
    BY <2>0, OutwardNext
  <2>2. CallReply' = CallReply
    BY <1>6, <1>7, <1>8 DEF CallReply
  <2> QED BY <1>1, <1>5, <1>6, <1>7, <2>1, <2>2 DEF Commands!Enter
<1>10. CASE pc' = [pc EXCEPT ![s] = "closed"]
  <2>0. pc'[s] = "closed"
    BY <1>10, <1>t
  <2>1. CallState'[s] = "idle"
    BY <2>0, OutwardNext
  <2>2. \A t \in Senders : CallState'[t] = CallState[t] /\ CallReply'[t] = CallReply[t]
    BY <1>2, <1>3, <1>7, <1>8, <2>1 DEF CallState, CallReply, Inside
  <2> QED BY <1>1, <1>4, <2>2, Stutters
<1> QED BY <1>1, <1>9, <1>10

\* The call that has the mutex begins, with nothing said to it.
LEMMA LockImplements ==
  ASSUME Invariants, NEW s \in Senders, Lock(s) PROVE Commands!Begin(s)
<1>1. /\ pc[s] = "lock" /\ pc' = [pc EXCEPT ![s] = "publish"] /\ mutex = None /\ mutex' = s
      /\ UNCHANGED <<answer, broken, disturbed, result, cmd>>
  BY Zenon DEF Lock, portVars, historyVars
<1>t. pc \in [Senders -> SenderPCs] /\ CurrOwned /\ Numbers
  BY DEF Invariants, NoCrashInv, TypeInv, TypeOK, CallerTypeOK, AnswerInv
<1>2. \A t \in Senders : CallState[t] # "active"
  BY <1>1, <1>t, Outward, ConstantsAssumption DEF CurrOwned
<1>3. \A t \in Senders \ {s} : pc'[t] = pc[t] /\ result'[t] = result[t]
  BY <1>1, <1>t
<1>4. CallState[s] = "queued" /\ CallState'[s] = "active"
  <2>1. pc'[s] = "publish"
    BY <1>1, <1>t
  <2> QED BY <1>1, <2>1, Outward, OutwardNext
<1>5. CallState' = [CallState EXCEPT ![s] = "active"]
  BY <1>3, <1>4, OneSeen
<1>6. CallReply' = CallReply
  <2>1. \A t \in Senders : CallReply'[t] = CallReply[t]
    BY <1>1, <1>t DEF CallReply
  <2> QED BY <2>1 DEF CallReply
<1>7. CallSaid = "TIMEOUT" /\ CallSaid' = "TIMEOUT"
  <2>1. answer[cmd[s].id].verdict = "TIMEOUT"
    BY <1>1, <1>t DEF Numbers, NoAnswer
  <2>2. mutex' # None
    BY <1>1, ConstantsAssumption
  <2> QED BY <1>1, <2>1, <2>2 DEF CallSaid
<1> QED BY <1>1, <1>2, <1>4, <1>5, <1>6, <1>7 DEF Commands!Begin

\* A call returns what the modem said to it, or that the device is gone, or has given up.
LEMMA ReleaseImplements ==
  ASSUME Invariants, NEW s \in Senders, Release(s)
  PROVE  resp[s].error \in Commands!Replies /\ Commands!Finish(s, resp[s].error)
<1>1. /\ pc[s] = "done" /\ pc' = [pc EXCEPT ![s] = "returned"] /\ mutex' = None
      /\ result' = [result EXCEPT ![s] = resp[s].error]
      /\ UNCHANGED <<answer, broken, disturbed>>
  BY Zenon DEF Release, portVars, historyVars
<1>t. /\ pc \in [Senders -> SenderPCs] /\ CurrOwned /\ Numbers
      /\ result \in [Senders -> Errors \cup {None}] /\ resp \in [Senders -> Response]
      /\ cmd[s].id \in Ids
      /\ answer \in [Ids -> [verdict : {"SUCCESS", "ERROR", "TIMEOUT"}, lines : Seq(Line)]]
  BY <1>1 DEF Invariants, NoCrashInv, TypeInv, TypeOK, CallerTypeOK, HistoryTypeOK, AnswerInv, Busy
<1>2. mutex = s /\ mutex # None
  BY <1>1, <1>t, ConstantsAssumption DEF CurrOwned, Inside
<1>3. CallState[s] = "active" /\ CallState'[s] = "returned" /\ CallReply'[s] = resp[s].error
  <2>1. pc'[s] = "returned" /\ result'[s] = resp[s].error
    BY <1>1, <1>t
  <2> QED BY <1>1, <2>1, Outward, OutwardNext DEF Inside
<1>4. \A t \in Senders \ {s} : pc'[t] = pc[t] /\ result'[t] = result[t]
  BY <1>1, <1>t
<1>5. /\ CallState' = [CallState EXCEPT ![s] = "returned"]
      /\ CallReply' = [CallReply EXCEPT ![s] = resp[s].error]
  BY <1>3, <1>4, OneSeen
<1>6. CallSaid' = "TIMEOUT" /\ CallSaid = answer[cmd[s].id].verdict
  BY <1>1, <1>2 DEF CallSaid
<1>7. resp[s].error \in Commands!Replies
  BY <1>t DEF Response, Errors, Commands!Replies, Commands!Verdicts
<1>8. \/ resp[s].error = CallSaid /\ resp[s].error \in Commands!Verdicts
      \/ resp[s].error = "IO_BROKEN" /\ broken
      \/ resp[s].error \in Commands!Replies /\ disturbed
  <2>1. CASE disturbed
    BY <1>7, <2>1
  <2>2. CASE ~ disturbed
    <3>1. Told(s) \/ (resp[s].error = "IO_BROKEN" /\ broken)
      BY <1>1, <1>2, <2>2 DEF Invariants, AnswerInv, Carried, Verdicts
    <3>2. Told(s) => resp[s].error = CallSaid /\ resp[s].error \in {"SUCCESS", "ERROR"}
      BY <1>6, <1>t DEF Told, Numbers
    <3> QED BY <3>1, <3>2 DEF Commands!Verdicts
  <2> QED BY <2>1, <2>2
<1> QED BY <1>1, <1>3, <1>5, <1>6, <1>7, <1>8 DEF Commands!Finish

\* The caller has looked at what it got.
LEMMA ReturnImplements ==
  ASSUME Invariants, NEW s \in Senders, Return(s)
  PROVE  Commands!Leave(s) \/ UNCHANGED Commands!vars
<1>1. /\ pc[s] \in {"returned", "closed"} /\ pc' = [pc EXCEPT ![s] = "idle"]
      /\ result' = [result EXCEPT ![s] = None]
      /\ UNCHANGED <<mutex, cmd, answer, broken, disturbed>>
  BY Zenon DEF Return, portVars, historyVars
<1>t. pc \in [Senders -> SenderPCs] /\ result \in [Senders -> Errors \cup {None}]
  BY DEF Invariants, NoCrashInv, TypeInv, TypeOK, CallerTypeOK
<1>2. \A t \in Senders \ {s} : pc'[t] = pc[t] /\ result'[t] = result[t]
  BY <1>1, <1>t
<1>3. CallState'[s] = "idle" /\ CallReply'[s] = "TIMEOUT"
  <2>1. pc'[s] = "idle"
    BY <1>1, <1>t
  <2> QED BY <2>1, OutwardNext
<1>4. /\ CallState' = [CallState EXCEPT ![s] = "idle"]
      /\ CallReply' = [CallReply EXCEPT ![s] = "TIMEOUT"]
  BY <1>2, <1>3, OneSeen
<1>5. CallSaid' = CallSaid
  BY <1>1 DEF CallSaid
<1>6. CASE pc[s] = "returned"
  <2>1. CallState[s] = "returned"
    BY <1>6, Outward
  <2> QED BY <1>1, <1>4, <1>5, <2>1 DEF Commands!Leave
<1>7. CASE pc[s] = "closed"
  <2>1. CallState[s] = "idle" /\ CallReply[s] = "TIMEOUT"
    BY <1>7, Outward
  <2>2. \A t \in Senders : CallState'[t] = CallState[t] /\ CallReply'[t] = CallReply[t]
    BY <1>2, <1>3, <2>1 DEF CallState, CallReply, Inside
  <2> QED BY <1>1, <2>2, Stutters
<1> QED BY <1>1, <1>6, <1>7

\* A caller that gives up says so; the other steps of a call inside are not seen.
LEMMA InsideImplements ==
  ASSUME Invariants, NEW s \in Senders,
         Publish(s) \/ Write(s) \/ WaitPosted(s) \/ WriteFails(s) \/ WaitTimesOut(s)
  PROVE  Commands!GiveUp \/ UNCHANGED Commands!vars
<1>1. /\ UNCHANGED <<mutex, cmd, answer, broken, result>>
      /\ disturbed' = disturbed \/ disturbed' = TRUE
  BY Zenon DEF Publish, Write, WaitPosted, WriteFails, WaitTimesOut, portVars, historyVars
<1>t. pc \in [Senders -> SenderPCs]
  BY DEF Invariants, NoCrashInv, TypeInv, TypeOK, CallerTypeOK
<1>2. /\ Inside(s) /\ pc'[s] \in {"publish", "write", "wait", "done"}
      /\ \A t \in Senders \ {s} : pc'[t] = pc[t]
  BY <1>t DEF Publish, Write, WaitPosted, WriteFails, WaitTimesOut, Inside
<1>3. /\ CallState[s] = "active" /\ CallState'[s] = "active"
      /\ CallReply[s] = "TIMEOUT" /\ CallReply'[s] = "TIMEOUT"
  BY <1>2, Outward, OutwardNext DEF Inside
<1>4. \A t \in Senders : CallState'[t] = CallState[t] /\ CallReply'[t] = CallReply[t]
  BY <1>1, <1>2, <1>3 DEF CallState, CallReply, Inside
<1>5. CASE disturbed' = disturbed
  BY <1>1, <1>4, <1>5, Stutters
<1>6. CASE disturbed' = TRUE
  <2>1. CallState' = CallState /\ CallReply' = CallReply
    BY <1>4 DEF CallState, CallReply
  <2>2. CallSaid' = CallSaid
    BY <1>1 DEF CallSaid
  <2> QED BY <1>1, <1>3, <1>6, <2>1, <2>2 DEF Commands!GiveUp
<1> QED BY <1>1, <1>5, <1>6

\* What the modem says is said to the call inside, or to one that is over.
LEMMA ModemImplements ==
  ASSUME Invariants, Modem
  PROVE  (\E v \in Commands!Verdicts : Commands!Say(v)) \/ Commands!Lose \/ UNCHANGED Commands!vars
<1>1. UNCHANGED <<pc, cmd, mutex, result, disturbed>>
  BY Zenon DEF Modem, ModemAnswers, UnsolicitedLine, DeviceLost, callerVars
<1>2. CallState' = CallState /\ CallReply' = CallReply
  BY <1>1 DEF CallState, CallReply, Inside
<1>3. CASE UnsolicitedLine
  <2>1. UNCHANGED <<answer, broken>>
    BY <1>3, Zenon DEF UnsolicitedLine
  <2> QED BY <1>1, <1>2, <2>1, Stutters
<1>4. CASE DeviceLost
  <2>1. broken' = TRUE /\ answer' = answer
    BY <1>4, Zenon DEF DeviceLost, historyVars
  <2>2. CallSaid' = CallSaid
    BY <1>1, <2>1 DEF CallSaid
  <2> QED BY <1>1, <1>2, <2>1, <2>2 DEF Commands!Lose
<1>5. CASE ModemAnswers
  <2>1. tx # <<>> /\ broken' = broken
    BY <1>5, Zenon DEF ModemAnswers
  <2>2. PICK body \in Bodies(Head(tx)), verdict \in {"SUCCESS", "ERROR"} :
          answer' = [answer EXCEPT ![Head(tx).id] = [verdict |-> verdict, lines |-> body]]
    BY <1>5 DEF ModemAnswers
  <2>t. /\ tx \in Seq(Command) /\ CurrOwned /\ Numbers /\ mutex \in Senders \cup {None}
        /\ answer \in [Ids -> [verdict : {"SUCCESS", "ERROR", "TIMEOUT"}, lines : Seq(Line)]]
    BY DEF Invariants, NoCrashInv, TypeInv, TypeOK, CallerTypeOK, PortTypeOK, HistoryTypeOK,
           AnswerInv, Command
  <2>3. Head(tx) \in Elements(tx) /\ Head(tx) \in Command
    BY <2>1, <2>t, TailFacts
  <2>4. Head(tx).id \in Ids /\ answer[Head(tx).id] = NoAnswer
    BY <2>3, <2>t DEF Command, Numbers
  <2>5. /\ answer'[Head(tx).id].verdict = verdict
        /\ \A i \in Ids \ {Head(tx).id} : answer'[i] = answer[i]
    BY <2>2, <2>4, <2>t
  <2>6. mutex # None => cmd[mutex].id \in Ids
    BY <2>t DEF Invariants, NoCrashInv, TypeInv, Busy, CurrOwned, Inside
  <2>7. CASE mutex # None /\ cmd[mutex].id = Head(tx).id
    <3>1. CallSaid = "TIMEOUT" /\ CallSaid' = verdict
      BY <1>1, <2>4, <2>5, <2>7 DEF CallSaid, NoAnswer
    <3>2. \E s \in Senders : CallState[s] = "active"
      BY <2>7, <2>t, Outward DEF CurrOwned
    <3>3. Commands!Say(verdict)
      BY <1>1, <1>2, <2>1, <3>1, <3>2 DEF Commands!Say
    <3> QED BY <3>3 DEF Commands!Verdicts
  <2>8. CASE mutex = None \/ cmd[mutex].id # Head(tx).id
    <3>1. CallSaid' = CallSaid
      BY <1>1, <2>5, <2>6, <2>8 DEF CallSaid
    <3> QED BY <1>1, <1>2, <2>1, <3>1 DEF Commands!vars
  <2> QED BY <2>7, <2>8
<1> QED BY <1>3, <1>4, <1>5 DEF Modem

\* Every step of the channel is a step of AtCommands or is not seen.
LEMMA StepImplements == Invariants /\ [Next]_vars => [Commands!Next]_(Commands!vars)
<1> SUFFICES ASSUME Invariants, [Next]_vars PROVE Commands!Next \/ UNCHANGED Commands!vars
  OBVIOUS
<1>1. ASSUME NEW s \in Senders, NEW q \in Requests, Call(s, q)
      PROVE  Commands!Next \/ UNCHANGED Commands!vars
  BY <1>1, CallImplements DEF Commands!Next
<1>2. ASSUME NEW s \in Senders, Lock(s) PROVE Commands!Next
  BY <1>2, LockImplements DEF Commands!Next
<1>3. ASSUME NEW s \in Senders, Release(s) PROVE Commands!Next
  BY <1>3, ReleaseImplements DEF Commands!Next
<1>4. ASSUME NEW s \in Senders, Return(s) PROVE Commands!Next \/ UNCHANGED Commands!vars
  BY <1>4, ReturnImplements DEF Commands!Next
<1>5. ASSUME NEW s \in Senders,
             Publish(s) \/ Write(s) \/ WaitPosted(s) \/ WriteFails(s) \/ WaitTimesOut(s)
      PROVE  Commands!Next \/ UNCHANGED Commands!vars
  BY <1>5, InsideImplements DEF Commands!Next
<1>6. CASE Modem
  BY <1>6, ModemImplements DEF Commands!Next
\* stop() and the join are not seen.
<1>7. ASSUME NEW s \in Senders, Join(s) \/ (s \in Stoppers /\ Stop(s))
      PROVE  UNCHANGED Commands!vars
  <2>1. UNCHANGED <<mutex, cmd, answer, broken, disturbed, result>>
    BY <1>7, Zenon DEF Join, Stop, portVars, historyVars
  <2>t. pc \in [Senders -> SenderPCs]
    BY DEF Invariants, NoCrashInv, TypeInv, TypeOK, CallerTypeOK
  <2>2. /\ pc[s] \in {"idle", "join"} /\ pc'[s] \in {"idle", "join"}
        /\ \A t \in Senders \ {s} : pc'[t] = pc[t]
    BY <1>7, <2>t DEF Join, Stop
  <2>3. /\ CallState[s] = "idle" /\ CallState'[s] = "idle"
        /\ CallReply[s] = "TIMEOUT" /\ CallReply'[s] = "TIMEOUT"
    BY <2>2, Outward, OutwardNext
  <2>4. \A t \in Senders : CallState'[t] = CallState[t] /\ CallReply'[t] = CallReply[t]
    BY <2>1, <2>2, <2>3 DEF CallState, CallReply, Inside
  <2> QED BY <2>1, <2>4, Stutters
\* Nor is the reader.
<1>8. CASE Start \/ Reader \/ UNCHANGED vars
  <2>1. UNCHANGED <<pc, mutex, cmd, answer, broken, disturbed, result>>
    BY <1>8, Zenon
       DEF Start, Reader, ReaderTop, PollData, PollWoken, PollBroken, BrokenTest, FinishBroken,
           PostBroken, CallBroken, TestLine, CollectLine, FinishLine, ClearCurrent, PostLine,
           ClearAgain, vars, callerVars, portVars, historyVars
  <2>2. \A s \in Senders : CallState'[s] = CallState[s] /\ CallReply'[s] = CallReply[s]
    BY <2>1 DEF CallState, CallReply, Inside
  <2> QED BY <2>1, <2>2, Stutters
<1> QED BY <1>1, <1>2, <1>3, <1>4, <1>5, <1>6, <1>7, <1>8, ConstantsAssumption DEF Next, Sender

\* sendCommand() is the remote call that AtCommands describes: calls are served one at a
\* time and, until one of them is given up, each returns the verdict of the modem on that
\* very command or the truth that the device is gone.
THEOREM Implements == Spec => ImplementsCommands
<1>1. Spec => Commands!Init /\ [][Commands!Next]_(Commands!vars)
  BY InitImplements, StepImplements, InvariantsHold, PTL DEF Spec
<1> QED BY <1>1 DEF ImplementsCommands, Commands!Spec

=============================================================================

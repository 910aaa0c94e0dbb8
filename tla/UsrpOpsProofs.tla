--------------------------- MODULE UsrpOpsProofs ----------------------------
(***************************************************************************)
(* Proofs about UsrpOps for all constants that meet its assumptions, and   *)
(* about Daemon, which runs it beside MqttClient.                          *)
(***************************************************************************)
EXTENDS Daemon, SequenceTheorems, TLAPS

-----------------------------------------------------------------------------
(* Operators *)

\* Offsets are integers, and those of synchronised clocks are among them.
LEMMA OffsetFacts == Offsets \subseteq Int /\ -MaxDrift..MaxDrift \subseteq Offsets
<1>1. MaxDrift \in Nat /\ Second \in Int /\ 0 \in {-Second, 0, Second}
  BY ClockAssumption
<1>2. Offsets \subseteq Int
  BY <1>1 DEF Offsets
<1>3. \A d \in -MaxDrift..MaxDrift : 0 + d = d
  BY <1>1
<1>4. -MaxDrift..MaxDrift \subseteq Offsets
  BY <1>1, <1>3 DEF Offsets
<1> QED
  BY <1>2, <1>4

\* What a comparison that succeeds says about the two clocks, with either
\* abs().
LEMMA DistanceBound ==
  ASSUME NEW d \in Int, Distance(d) <= NtpSlack
  PROVE  -(NtpSlack + Blind) <= d /\ d <= NtpSlack + Blind
<1>1. Magnitude(d) \in Nat /\ -Magnitude(d) <= d /\ d <= Magnitude(d)
  BY DEF Magnitude
<1>2. CASE AbsIsInt
  <2> DEFINE m == Magnitude(d)  q == m \div Second
  <2>1. m \in Int /\ q \in Int /\ q * Second \in Int
        /\ m < q * Second + Second
    BY <1>1, ClockAssumption
  <2>2. q * Second <= NtpSlack
    BY <1>2 DEF Distance
  <2> HIDE DEF q
  <2>3. m <= NtpSlack + Second - 1
    BY <2>1, <2>2, ClockAssumption
  <2> QED
    BY <1>1, <1>2, <2>3, ClockAssumption DEF Blind
<1>3. CASE ~AbsIsInt
  BY <1>1, <1>3, ClockAssumption DEF Distance, Blind
<1> QED
  BY <1>2, <1>3

\* The loop of sync_usrp_ntp() leaves the clocks within MaxDrift.
LEMMA SyncedIsClose ==
  ASSUME TypeOK, SyncDone
  PROVE  offset \in -MaxDrift..MaxDrift
<1>1. PICK d \in 0..ReadDelay : FoundSynced(d)
  BY DEF SyncDone
<1>2. offset \in Int /\ d \in Int /\ offset - d \in Int /\ Blind \in Int
  BY <1>1, OffsetFacts, ClockAssumption DEF TypeOK, Blind
<1>3. -(NtpSlack + Blind) <= offset - d /\ offset - d <= NtpSlack + Blind
  BY <1>1, <1>2, DistanceBound DEF FoundSynced
<1> QED
  BY <1>1, <1>2, <1>3, ClockAssumption

\* The fields of a message in hand have their types.
LEMMA RequestFields ==
  ASSUME NEW r \in Requests
  PROVE  /\ r.fc \in Nat /\ r.sps \in Int /\ r.t0 \in Nat /\ r.n \in Nat
         /\ r.ant \in Antennas /\ r.fields \in -1..8
BY RequestAssumption DEF RequestType

\* Rounding down by DateStep loses less than DateStep.
LEMMA DateStrBound ==
  ASSUME NEW t \in Nat
  PROVE  /\ t \div DateStep \in Nat
         /\ (t \div DateStep) * DateStep <= t
         /\ t < (t \div DateStep) * DateStep + DateStep
BY ClockAssumption

\* Decoding yields values of the right types.
LEMMA ScanType ==
  ASSUME args \in ArgsType, NEW m \in Requests
  PROVE  Scan(m) \in ArgsType
BY RequestFields DEF Scan, ArgsType

\* Every answer is an answer.
LEMMA AnswerTypes ==
  ASSUME args \in ArgsType
  PROVE  /\ Invalid \in AnswerType /\ TooLate(args) \in AnswerType
         /\ Failed(args) \in AnswerType /\ Saved(args) \in AnswerType
<1>1. DateStr(args) \in Int
  BY ClockAssumption DEF ArgsType, DateStr
<1>2. FileName(args)[1] \in Int
  BY ClockAssumption, SMT DEF ArgsType, FileName
<1>3. FileName(args) \in Seq(Int)
  BY <1>1, <1>2 DEF FileName
<1>4. <<>> \in Seq(Int) /\ <<DateStr(args)>> \in Seq(Int)
  BY <1>1
<1> QED
  BY <1>3, <1>4 DEF AnswerType, Invalid, TooLate, Failed, Saved

-----------------------------------------------------------------------------
(* Type correctness *)

LEMMA InitType == Init => TypeOK
<1> SUFFICES ASSUME Init PROVE TypeOK
  OBVIOUS
<1>1. args \in ArgsType
  BY RequestAssumption DEF Init, Uninitialised, ArgsType
<1>2. disk \in [Names -> Nat \cup {Absent}]
  BY DEF Init
<1>3. answers \in Seq(AnswerType) /\ toNetwork \in Seq(AnswerType)
      /\ fromNetwork \in Seq(Requests)
  BY DEF Init
<1> QED
  BY <1>1, <1>2, <1>3, Zenon DEF Init, TypeOK, Steps

\* Putting an answer on the queue keeps the queues and histories typed.
LEMMA ReplyType ==
  ASSUME TypeOK, NEW a \in AnswerType, Reply(a)
  PROVE  /\ pc' \in Steps /\ fromNetwork' \in Seq(Requests)
         /\ toNetwork' \in Seq(AnswerType) /\ answers' \in Seq(AnswerType)
         /\ rxmsg' \in Requests \cup {NoRequest}
BY DEF TypeOK, Reply, Steps

LEMMA NextType == TypeOK /\ [Next]_vars => TypeOK'
<1> SUFFICES ASSUME TypeOK, [Next]_vars PROVE TypeOK'
  OBVIOUS
<1> USE DEF Goto, Steps
<1>1. CASE CreateDevice \/ SyncDone \/ Throw
  BY <1>1 DEF TypeOK, CreateDevice, SyncDone, Throw, queues, clocks, capture
<1>2. CASE SyncAttempt
  BY <1>2 DEF TypeOK, SyncAttempt, queues, capture
<1>3. CASE PopRequest
  <2>1. Head(fromNetwork) \in Requests /\ fromNetwork' \in Seq(Requests)
    BY <1>3 DEF PopRequest, TypeOK
  <2>2. args' \in ArgsType
    BY <1>3, <2>1, ScanType DEF PopRequest, TypeOK
  <2> QED
    BY <1>3, <2>1, <2>2 DEF PopRequest, TypeOK, clocks, capture
<1>4. CASE RejectMalformed \/ RejectLate
  <2>1. PICK a \in AnswerType : Reply(a)
    BY <1>4, AnswerTypes DEF RejectMalformed, RejectLate, TypeOK
  <2> QED
    BY <1>4, <2>1, ReplyType
    DEF RejectMalformed, RejectLate, TypeOK, clocks, capture
<1>5. CASE Accept \/ Tune \/ CheckLoLock
  BY <1>5 DEF TypeOK, Accept, Tune, CheckLoLock, queues, clocks, capture
<1>6. CASE OpenFile
  BY <1>6 DEF TypeOK, OpenFile, queues, clocks
<1>7. CASE OpenFailed
  <2>1. PICK left \in {Absent, disk[FileName(args)]} :
          disk' = [disk EXCEPT ![FileName(args)] = left]
    BY <1>7 DEF OpenFailed
  <2>2. disk' \in [Names -> Nat \cup {Absent}]
    BY <2>1 DEF TypeOK
  <2> QED
    BY <1>7, <2>2 DEF TypeOK, OpenFailed, queues, clocks
<1>8. CASE IssueStream
  BY <1>8 DEF TypeOK, IssueStream, queues, clocks
<1>9. ASSUME NEW k \in 1..Spb, RecvSamples(k) PROVE TypeOK'
  <2>1. PICK w \in Written(k) :
          /\ disk' = [disk EXCEPT ![FileName(args)] = @ + w]
          /\ writeBad' = (writeBad \/ w < k)
    BY <1>9 DEF RecvSamples
  <2>2. w \in Nat /\ k \in Nat
    BY CaptureAssumption DEF Written
  <2>3. disk' \in [Names -> Nat \cup {Absent}]
    <3>1. CASE FileName(args) \in Names
      <4>1. disk[FileName(args)] + w \in Nat \cup {-1}
        BY <2>2, <3>1 DEF TypeOK, Absent
      <4> QED
        BY <2>1, <3>1, <4>1 DEF TypeOK, Absent
    <3>2. CASE FileName(args) \notin Names
      BY <2>1, <3>2 DEF TypeOK
    <3> QED
      BY <3>1, <3>2
  <2> QED
    BY <1>9, <2>1, <2>2, <2>3 DEF TypeOK, RecvSamples, queues, clocks
<1>10. CASE RecvTimeout \/ RecvLateCommand \/ RecvOverflow \/ RecvComplete
  BY <1>10 DEF TypeOK, RecvTimeout, RecvLateCommand, RecvOverflow,
    RecvComplete, queues, clocks, capture
<1>11. CASE CloseFile
  BY <1>11 DEF TypeOK, CloseFile, queues, clocks
<1>12. CASE Answer
  <2>1. PICK a \in AnswerType : Reply(a)
    BY <1>12, AnswerTypes DEF Answer, TypeOK
  <2> QED
    BY <1>12, <2>1, ReplyType DEF Answer, TypeOK, clocks, capture
<1>13. ASSUME NEW r \in Requests, Arrive(r) PROVE TypeOK'
  BY <1>13 DEF TypeOK, Arrive, clocks, capture
<1>14. CASE TakeReply
  BY <1>14 DEF TypeOK, TakeReply, clocks, capture
<1>15. CASE Tick
  BY <1>15 DEF TypeOK, Tick, queues, capture
<1>16. CASE Drift
  BY <1>16, OffsetFacts DEF TypeOK, Drift, queues, capture
<1>17. CASE UNCHANGED vars
  BY <1>17 DEF TypeOK, vars, queues, clocks, capture
<1> QED
  BY <1>1, <1>2, <1>3, <1>4, <1>5, <1>6, <1>7, <1>8, <1>9, <1>10, <1>11,
     <1>12, <1>13, <1>14, <1>15, <1>16, <1>17
  DEF Next, UsrpThread, Outside, Environment

\* The locals and queues of the USRP thread keep their types.
THEOREM TypeCorrect == Spec => []TypeOK
BY InitType, NextType, PTL DEF Spec

-----------------------------------------------------------------------------
(* The inductive invariant behind the safety of the captured files *)

InHand == pc = "check" \/ Accepted

OwnParameters == args = [fc |-> rxmsg.fc, sps |-> rxmsg.sps, t0 |-> rxmsg.t0,
                         n |-> rxmsg.n, ant |-> rxmsg.ant]

\* A complete message has overwritten every local, and only complete messages
\* get past the check.
Decoded ==
  /\ InHand => rxmsg \in Requests /\ (rxmsg.fields = 8 => OwnParameters)
  /\ Accepted => rxmsg.fields = 8

\* Once synchronised, the two clocks stay within MaxDrift.
ClocksClose ==
  pc \notin {"create", "sync", "dead"} => offset \in -MaxDrift..MaxDrift

RatePositive ==
  pc \in {"lolock", "open", "issue", "recv"} => args.sps > 0

\* A file holds samples only when the first time its name stands for has
\* passed.
DataIsPast ==
  \A f \in Names : disk[f] > 0 => f[2] * DateStep < now + MaxDrift

\* The file an accepted request is about to open holds no samples.
StillEmpty == pc \in {"tune", "lolock", "open"} => disk[FileName(args)] <= 0

Inv ==
  TypeOK /\ Decoded /\ ClocksClose /\ RatePositive /\ DataIsPast /\ StillEmpty

LEMMA InitInv == Init => Inv
<1> SUFFICES ASSUME Init PROVE Inv
  OBVIOUS
<1>1. TypeOK
  BY InitType
<1>2. DataIsPast
  BY DEF Init, DataIsPast, Absent
<1> QED
  BY <1>1, <1>2 DEF Init, Inv, Decoded, InHand, Accepted, ClocksClose,
    RatePositive, StillEmpty

\* An accepted request's file is one of the names, with its start time in it.
LEMMA OwnName ==
  ASSUME TypeOK, Decoded, Accepted
  PROVE  /\ FileName(args) \in Names
         /\ FileName(args)[2] = args.t0 \div DateStep
         /\ args.t0 \in Nat /\ args.sps \in Int /\ args.n \in Nat
<1>1. OwnParameters /\ rxmsg \in Requests
  BY DEF Decoded, InHand
<1>2. FileName(args) = FileName(rxmsg)
  BY <1>1 DEF OwnParameters, FileName, DateStr
<1>3. FileName(args)[2] = args.t0 \div DateStep
  BY DEF FileName, DateStr
<1>4. args.t0 \in Nat /\ args.sps \in Int /\ args.n \in Nat
  BY DEF TypeOK, ArgsType
<1> QED
  BY <1>1, <1>2, <1>3, <1>4 DEF Names

\* The late check turns a request down when its file may hold samples: names
\* are finer than the two slacks.
LEMMA AcceptStillEmpty ==
  ASSUME Inv, Accept
  PROVE  disk[FileName(args)] <= 0
<1>1. rxmsg \in Requests /\ OwnParameters
  BY DEF Accept, Goto, Malformed, Inv, Decoded, InHand
<1>2. FileName(args) = FileName(rxmsg)
  BY <1>1 DEF OwnParameters, FileName, DateStr
<1>3. FileName(args) \in Names
  BY <1>1, <1>2 DEF Names
<1>4. FileName(args)[2] = args.t0 \div DateStep /\ args.t0 \in Nat
  BY DEF FileName, DateStr, Inv, TypeOK, ArgsType
<1>5. now + NtpSlack + TSlack <= args.t0
  BY <1>4, ClockAssumption DEF Accept, HostLate, Inv, TypeOK
<1>6. ~(FileName(args)[2] * DateStep < now + MaxDrift)
  <2> DEFINE d == args.t0 \div DateStep
  <2>1. d \in Nat /\ d * DateStep \in Nat /\ args.t0 < d * DateStep + DateStep
    BY <1>4, DateStrBound, ClockAssumption
  <2> HIDE DEF d
  <2>2. ~(d * DateStep < now + MaxDrift)
    BY <1>4, <1>5, <2>1, ClockAssumption, NameAssumption DEF Inv, TypeOK
  <2> QED
    BY <1>4, <2>2 DEF d
<1>7. disk[FileName(args)] \in Nat \cup {-1}
  BY <1>3 DEF Inv, TypeOK, Absent
<1> QED
  BY <1>3, <1>6, <1>7 DEF Inv, DataIsPast

LEMMA PositiveFactor ==
  ASSUME NEW a \in Int, NEW b \in Int, b > 0, a * b > 0
  PROVE  a > 0
OBVIOUS

\* Samples exist only after the start time the file name was made from.
LEMMA SamplesArePast ==
  ASSUME Inv, NEW k \in 1..Spb, RecvSamples(k)
  PROVE  FileName(args)[2] * DateStep < now + MaxDrift
<1>1. /\ args.t0 \in Nat /\ args.sps \in Int
      /\ FileName(args)[2] = args.t0 \div DateStep
  BY OwnName DEF RecvSamples, Goto, Inv, Accepted
<1>2. args.sps > 0 /\ offset \in Int /\ offset <= MaxDrift /\ now \in Nat
  BY ClockAssumption
  DEF RecvSamples, Goto, Inv, RatePositive, ClocksClose, TypeOK
<1>3. (now + offset - args.t0) * args.sps > 0
  <2>1. total \in Nat /\ k \in Nat /\ k > 0
    BY CaptureAssumption DEF Inv, TypeOK
  <2>2. (now + offset - args.t0) * args.sps >= total + k
    <3>1. Available(k)
      BY DEF RecvSamples
    <3> QED
      BY <3>1, <2>1, <1>1, <1>2 DEF Available, UsrpNow
  <2>3. (now + offset - args.t0) * args.sps \in Int
    BY <1>1, <1>2
  <2> QED
    BY <2>1, <2>2, <2>3
<1>4. now + offset - args.t0 > 0
  BY <1>1, <1>2, <1>3, PositiveFactor
<1>5. (args.t0 \div DateStep) * DateStep <= args.t0
      /\ args.t0 \div DateStep \in Nat
  BY <1>1, DateStrBound
<1>6. (args.t0 \div DateStep) * DateStep \in Int
  BY <1>5, ClockAssumption
<1> QED
  BY <1>1, <1>2, <1>4, <1>5, <1>6, ClockAssumption

LEMMA NextInv == Inv /\ [Next]_vars => Inv'
<1> SUFFICES ASSUME Inv, [Next]_vars PROVE Inv'
  OBVIOUS
<1> USE DEF Goto
<1>0. TypeOK /\ TypeOK'
  BY NextType DEF Inv
<1>1. CASE CreateDevice \/ SyncDone \/ SyncAttempt \/ Throw
  <2>1. ASSUME SyncDone PROVE ClocksClose'
    BY <1>0, <2>1, SyncedIsClose DEF SyncDone, ClocksClose, clocks
  <2>2. ASSUME CreateDevice \/ SyncAttempt \/ Throw PROVE ClocksClose'
    BY <2>2 DEF CreateDevice, SyncAttempt, Throw, ClocksClose
  <2>3. ClocksClose'
    BY <1>1, <2>1, <2>2
  <2> QED
    BY <1>0, <1>1, <2>3 DEF CreateDevice, SyncDone, SyncAttempt, Throw, Inv,
      Decoded, InHand, Accepted, RatePositive, DataIsPast, StillEmpty, clocks,
      capture
<1>2. CASE PopRequest
  <2>1. Head(fromNetwork) \in Requests
    BY <1>0, <1>2 DEF PopRequest, TypeOK
  <2>2. Decoded'
    <3>1. rxmsg'.fields = 8 => OwnParameters'
      BY <1>2 DEF PopRequest, Scan, OwnParameters
    <3> QED
      BY <1>2, <2>1, <3>1 DEF PopRequest, Decoded, InHand, Accepted
  <2> QED
    BY <1>0, <1>2, <2>2 DEF PopRequest, Inv, ClocksClose, RatePositive,
      DataIsPast, StillEmpty, clocks, capture
<1>3. CASE RejectMalformed \/ RejectLate \/ Answer
  BY <1>0, <1>3 DEF RejectMalformed, RejectLate, Answer, Reply, Inv, Decoded,
    InHand, Accepted, ClocksClose, RatePositive, DataIsPast, StillEmpty,
    clocks, capture
<1>4. CASE Accept
  <2>1. StillEmpty'
    BY <1>4, AcceptStillEmpty DEF Accept, StillEmpty, FileName, DateStr, capture
  <2>2. Decoded'
    BY <1>4 DEF Accept, Malformed, Inv, Decoded, InHand, Accepted,
      OwnParameters
  <2> QED
    BY <1>0, <1>4, <2>1, <2>2 DEF Accept, Inv, ClocksClose, RatePositive,
      DataIsPast, clocks, capture
<1>5. CASE Tune \/ CheckLoLock
  <2>1. RatePositive'
    BY <1>0, <1>5 DEF Tune, CheckLoLock, Inv, RatePositive, TypeOK, ArgsType
  <2> QED
    BY <1>0, <1>5, <2>1 DEF Tune, CheckLoLock, Inv, Decoded, InHand, Accepted,
      OwnParameters, ClocksClose, DataIsPast, StillEmpty, FileName, DateStr,
      clocks, capture
<1>6. CASE OpenFile
  <2>1. DataIsPast'
    BY <1>0, <1>6 DEF OpenFile, Inv, DataIsPast, TypeOK, clocks
  <2> QED
    BY <1>0, <1>6, <2>1 DEF OpenFile, Inv, Decoded, InHand, Accepted,
      OwnParameters, ClocksClose, RatePositive, StillEmpty, queues, clocks
<1>7. CASE OpenFailed
  <2>1. PICK left \in {Absent, disk[FileName(args)]} :
          disk' = [disk EXCEPT ![FileName(args)] = left]
    BY <1>7 DEF OpenFailed
  <2>2. DataIsPast'
    BY <1>0, <1>7, <2>1
    DEF OpenFailed, Inv, DataIsPast, TypeOK, clocks, Absent
  <2> QED
    BY <1>0, <1>7, <2>2 DEF OpenFailed, Inv, Decoded, InHand, Accepted,
      OwnParameters, ClocksClose, RatePositive, StillEmpty, queues, clocks
<1>8. CASE IssueStream
  BY <1>0, <1>8 DEF IssueStream, Inv, Decoded, InHand, Accepted,
    OwnParameters, ClocksClose, RatePositive, DataIsPast, StillEmpty, queues,
    clocks
<1>9. ASSUME NEW k \in 1..Spb, RecvSamples(k) PROVE Inv'
  <2>1. FileName(args)[2] * DateStep < now + MaxDrift
    BY <1>9, SamplesArePast
  <2>2. PICK w \in Written(k) :
          disk' = [disk EXCEPT ![FileName(args)] = @ + w]
    BY <1>9 DEF RecvSamples
  <2>3. DataIsPast'
    BY <1>0, <1>9, <2>1, <2>2
    DEF RecvSamples, Inv, DataIsPast, TypeOK, clocks
  <2> QED
    BY <1>0, <1>9, <2>3 DEF RecvSamples, Inv, Decoded, InHand, Accepted,
      OwnParameters, ClocksClose, RatePositive, StillEmpty, queues, clocks
<1>10. CASE RecvTimeout \/ RecvLateCommand \/ RecvOverflow \/ RecvComplete
  BY <1>0, <1>10 DEF RecvTimeout, RecvLateCommand, RecvOverflow, RecvComplete,
    Inv, Decoded, InHand, Accepted, OwnParameters, ClocksClose, RatePositive,
    DataIsPast, StillEmpty, queues, clocks, capture
<1>11. CASE CloseFile
  <2>1. DataIsPast'
    BY <1>0, <1>11 DEF CloseFile, Inv, DataIsPast, TypeOK, clocks, Absent
  <2> QED
    BY <1>0, <1>11, <2>1 DEF CloseFile, Inv, Decoded, InHand, Accepted,
      OwnParameters, ClocksClose, RatePositive, StillEmpty, queues, clocks
<1>12. CASE \/ \E r \in Requests : Arrive(r)
            \/ TakeReply
  BY <1>0, <1>12 DEF Arrive, TakeReply, Inv, Decoded, InHand, Accepted,
    OwnParameters, ClocksClose, RatePositive, DataIsPast, StillEmpty,
    FileName, DateStr, clocks, capture
<1>13. CASE Tick
  <2>1. DataIsPast'
    <3> SUFFICES ASSUME NEW f \in Names, disk[f] > 0
                 PROVE  f[2] * DateStep < now + 1 + MaxDrift
      BY <1>13 DEF Tick, DataIsPast, capture
    <3>1. f[2] * DateStep \in Int
      BY RequestFields, DateStrBound, ClockAssumption
      DEF Names, FileName, DateStr
    <3>2. f[2] * DateStep < now + MaxDrift
      BY DEF Inv, DataIsPast
    <3> QED
      BY <1>0, <3>1, <3>2, ClockAssumption DEF TypeOK
  <2> QED
    BY <1>0, <1>13, <2>1 DEF Tick, Inv, Decoded, InHand, Accepted,
      OwnParameters, ClocksClose, RatePositive, StillEmpty, FileName, DateStr,
      queues, capture
<1>14. CASE Drift
  BY <1>0, <1>14 DEF Drift, Inv, Decoded, InHand, Accepted, OwnParameters,
    ClocksClose, RatePositive, DataIsPast, StillEmpty, FileName, DateStr,
    queues, capture
<1>15. CASE UNCHANGED vars
  BY <1>0, <1>15 DEF vars, Inv, Decoded, InHand, Accepted, OwnParameters,
    ClocksClose, RatePositive, DataIsPast, StillEmpty, FileName, DateStr,
    queues, clocks, capture
<1> QED
  BY <1>1, <1>2, <1>3, <1>4, <1>5, <1>6, <1>7, <1>8, <1>9, <1>10, <1>11,
     <1>12, <1>13, <1>14, <1>15
  DEF Next, UsrpThread, Outside, Environment

LEMMA AlwaysInv == Spec => []Inv
BY InitInv, NextInv, PTL DEF Spec

-----------------------------------------------------------------------------
(* Theorems *)

\* A capture is made with the parameters of the message in hand, never with
\* what an earlier or a half-decoded message left in the locals of usrp_ops().
THEOREM CaptureUsesOneMessage == Spec => []CaptureMatchesRequest
<1>1. Inv => CaptureMatchesRequest
  BY DEF Inv, Decoded, InHand, CaptureMatchesRequest, OwnParameters
<1> QED
  BY <1>1, AlwaysInv, PTL

LEMMA StepKeepsData ==
  ASSUME Inv, [Next]_vars, NEW f \in Names, disk[f] > 0, ~Capturing(f)
  PROVE  disk'[f] = disk[f]
<1> USE DEF Goto, Capturing, FileInUse
<1>1. CASE OpenFile \/ OpenFailed
  <2>1. FileName(args) # f
    <3>1. StillEmpty /\ pc = "open"
      BY <1>1 DEF Inv, OpenFile, OpenFailed
    <3> QED
      BY <3>1 DEF StillEmpty, Inv, TypeOK, Absent
  <2> QED
    BY <1>1, <2>1 DEF OpenFile, OpenFailed, Inv, TypeOK
<1>2. CASE CloseFile \/ \E k \in 1..Spb : RecvSamples(k)
  <2>1. FileName(args) # f
    BY <1>2 DEF CloseFile, RecvSamples
  <2> QED
    BY <1>2, <2>1 DEF CloseFile, RecvSamples, Inv, TypeOK
<1>3. CASE ~(OpenFile \/ OpenFailed \/ CloseFile
             \/ \E k \in 1..Spb : RecvSamples(k))
  <2>1. UNCHANGED disk
    BY <1>3 DEF Next, UsrpThread, Outside, Environment, vars, capture,
      CreateDevice, SyncDone, SyncAttempt, PopRequest, RejectMalformed,
      RejectLate, Accept, Tune, CheckLoLock, IssueStream, RecvTimeout,
      RecvLateCommand, RecvComplete, RecvOverflow, Answer, Throw, Arrive,
      TakeReply, Tick, Drift
  <2> QED
    BY <2>1
<1> QED
  BY <1>1, <1>2, <1>3

\* No request destroys the samples another one captured, although distinct
\* requests may share a file name: the late check of usrp_ops() refuses every
\* start time whose file can already hold samples.
THEOREM SamplesAreKept == Spec => SavedDataKept
<1>1. Inv /\ [Next]_vars =>
        [\A f \in Names : disk[f] > 0 /\ ~Capturing(f) => disk'[f] = disk[f]]_vars
  BY StepKeepsData
<1> QED
  BY <1>1, AlwaysInv, PTL DEF Spec, SavedDataKept

-----------------------------------------------------------------------------
(* No file is left over *)

\* The file of a request about to be reported as failed is gone, or is an
\* earlier one that could not be opened again.
FailedIsGone ==
  pc = "answer" /\ ~ret =>
    disk[FileName(args)] = Absent \/ Claimed(FileName(args))

LEMMA ClaimedKept ==
  ASSUME TypeOK, NEW a, answers' = Append(answers, a), NEW f
  PROVE  /\ Claimed(f) => Claimed(f)'
         /\ a = [kind |-> "saved", about |-> f] => Claimed(f)'
<1>1. answers \in Seq(AnswerType)
  BY DEF TypeOK
<1>2. /\ DOMAIN answers' = 1..(Len(answers) + 1)
      /\ DOMAIN answers = 1..Len(answers) /\ Len(answers) \in Nat
      /\ \A i \in DOMAIN answers : answers'[i] = answers[i]
      /\ answers'[Len(answers) + 1] = a
  BY <1>1
<1>3. DOMAIN answers \subseteq DOMAIN answers'
      /\ Len(answers) + 1 \in DOMAIN answers'
  BY <1>2
<1> QED
  BY <1>2, <1>3, Zenon DEF Claimed

\* A step that neither writes files nor answers, outside a capture.
LEMMA QuietKeepsFiles ==
  ASSUME NoOrphanFile, FailedIsGone, UNCHANGED <<disk, answers, args>>,
         \/ pc' = pc /\ UNCHANGED <<ret, rxmsg>>
         \/ pc' = pc /\ UNCHANGED ret /\ pc # "dead"
         \/ FileInUse /\ pc' = "dead" /\ rxmsg' # NoRequest
         \/ ~FileInUse /\ pc # "dead" /\ pc' # "answer"
         \/ FileInUse /\ FileInUse' /\ pc' # "answer"
  PROVE  NoOrphanFile' /\ FailedIsGone'
BY DEF NoOrphanFile, FailedIsGone, Claimed, Capturing, CutShort, FileInUse,
  FileName, DateStr

LEMMA NextFiles ==
  ASSUME Inv, NoOrphanFile, FailedIsGone, [Next]_vars
  PROVE  NoOrphanFile' /\ FailedIsGone'
<1> USE DEF Goto
<1>0. TypeOK /\ Decoded
  BY DEF Inv
<1>1. CASE \/ CreateDevice \/ SyncDone \/ SyncAttempt \/ Accept \/ Tune
           \/ CheckLoLock \/ Throw
  <2>1. FileInUse => rxmsg # NoRequest
    BY <1>0, RequestAssumption DEF FileInUse, Decoded, InHand, Accepted
  <2> QED
    BY <1>1, <2>1, QuietKeepsFiles DEF CreateDevice, SyncDone, SyncAttempt,
      Accept, Tune, CheckLoLock, Throw, FileInUse, queues, capture
<1>2. CASE PopRequest
  <2>1. NoOrphanFile'
    BY <1>2 DEF PopRequest, NoOrphanFile, Claimed, Capturing, CutShort,
      FileInUse, capture
  <2> QED
    BY <1>2, <2>1 DEF PopRequest, FailedIsGone
<1>3. CASE RejectMalformed \/ RejectLate
  <2>1. PICK a : answers' = Append(answers, a)
    BY <1>3 DEF RejectMalformed, RejectLate, Reply
  <2>2. \A f : Claimed(f) => Claimed(f)'
    BY <1>0, <2>1, ClaimedKept
  <2> QED
    BY <1>3, <2>2 DEF RejectMalformed, RejectLate, Reply, NoOrphanFile,
      FailedIsGone, Capturing, CutShort, FileInUse, capture
<1>4. CASE OpenFile
  <2>1. FileName(args)' = FileName(args)
    BY <1>4 DEF OpenFile, FileName, DateStr
  <2>2. ASSUME NEW f \in Names, disk'[f] # Absent
        PROVE  Claimed(f)' \/ Capturing(f)'
    BY <1>0, <1>4, <2>1, <2>2 DEF OpenFile, NoOrphanFile, Claimed, Capturing,
      CutShort, FileInUse, TypeOK, queues
  <2> QED
    BY <1>4, <2>2 DEF OpenFile, NoOrphanFile, FailedIsGone
<1>5. CASE OpenFailed
  <2> DEFINE file == FileName(args)
  <2>1. file' = file /\ UNCHANGED answers /\ pc' = "answer" /\ pc = "open"
    BY <1>5 DEF OpenFailed, FileName, DateStr, queues
  <2>2. PICK left \in {Absent, disk[file]} : disk' = [disk EXCEPT ![file] = left]
    BY <1>5 DEF OpenFailed
  <2>3. file \in Names
    BY <1>0, <2>1, OwnName DEF Accepted
  <2>4. disk[file] = Absent \/ Claimed(file)
    BY <2>1, <2>3 DEF NoOrphanFile, Capturing, CutShort, FileInUse
  <2>5. FailedIsGone'
    BY <1>0, <2>1, <2>2, <2>3, <2>4 DEF FailedIsGone, Claimed, TypeOK
  <2>6. NoOrphanFile'
    BY <1>0, <2>1, <2>2 DEF NoOrphanFile, Claimed, Capturing, CutShort,
      FileInUse, TypeOK
  <2> QED
    BY <2>5, <2>6
<1>6. CASE IssueStream \/ RecvTimeout \/ RecvLateCommand \/ RecvOverflow
           \/ RecvComplete
  BY <1>6, QuietKeepsFiles DEF IssueStream, RecvTimeout, RecvLateCommand,
    RecvOverflow, RecvComplete, FileInUse, queues, capture
<1>7. ASSUME NEW k \in 1..Spb, RecvSamples(k)
      PROVE  NoOrphanFile' /\ FailedIsGone'
  <2>1. FileName(args)' = FileName(args) /\ UNCHANGED answers
    BY <1>7 DEF RecvSamples, FileName, DateStr, queues
  <2> QED
    BY <1>0, <1>7, <2>1 DEF RecvSamples, NoOrphanFile, FailedIsGone, Claimed,
      Capturing, CutShort, FileInUse, TypeOK
<1>8. CASE CloseFile
  <2>1. FileName(args)' = FileName(args) /\ UNCHANGED answers
    BY <1>8 DEF CloseFile, FileName, DateStr, queues
  <2>2. FileName(args) \in Names
    BY <1>0, <1>8, OwnName DEF CloseFile, Accepted
  <2> QED
    BY <1>0, <1>8, <2>1, <2>2 DEF CloseFile, NoOrphanFile, FailedIsGone,
      Claimed, Capturing, CutShort, FileInUse, TypeOK
<1>9. CASE Answer
  <2> DEFINE file == FileName(args)
  <2>1. PICK a : answers' = Append(answers, a) /\ (ret => a = Saved(args))
    BY <1>9 DEF Answer, Reply
  <2>2. \A f : Claimed(f) => Claimed(f)'
    BY <1>0, <2>1, ClaimedKept
  <2>3. ASSUME ret, NEW f, f = file PROVE Claimed(f)'
    <3>1. PICK b : answers' = Append(answers, b)
                   /\ b = [kind |-> "saved", about |-> f]
      BY <2>1, <2>3 DEF Saved
    <3> QED
      BY <1>0, <3>1, ClaimedKept
  <2>4. ASSUME NEW f, f = file, disk[f] # Absent PROVE Claimed(f)'
    BY <1>9, <2>2, <2>3, <2>4 DEF Answer, FailedIsGone
  <2> QED
    BY <1>9, <2>2, <2>4 DEF Answer, Reply, NoOrphanFile, FailedIsGone,
      Capturing, CutShort, FileInUse, capture
<1>10. CASE \/ \E r \in Requests : Arrive(r)
            \/ TakeReply \/ Tick \/ Drift \/ UNCHANGED vars
  BY <1>10, QuietKeepsFiles DEF Arrive, TakeReply, Tick, Drift, vars, queues,
    capture
<1> QED
  BY <1>1, <1>2, <1>3, <1>4, <1>5, <1>6, <1>7, <1>8, <1>9, <1>10
  DEF Next, UsrpThread, Outside, Environment

\* While the process lives, every file of the daemon is either reported as
\* saved or belongs to the capture in progress; when it dies, at most the file
\* of the request it was serving is neither.
THEOREM FilesAreAccountedFor == Spec => []NoOrphanFile
<1>1. Init => NoOrphanFile /\ FailedIsGone
  BY DEF Init, NoOrphanFile, FailedIsGone
<1>2. Inv /\ NoOrphanFile /\ FailedIsGone /\ [Next]_vars
        => NoOrphanFile' /\ FailedIsGone'
  BY NextFiles
<1> QED
  BY <1>1, <1>2, AlwaysInv, PTL DEF Spec

-----------------------------------------------------------------------------
(* What "saved" means *)

\* While a capture runs and its writes succeed, what was received is in the
\* file.
NothingLost ==
  pc \in {"issue", "recv", "close"} /\ ~writeBad =>
    disk[FileName(args)] = total

LEMMA NextComplete ==
  ASSUME Inv, NothingLost, SavedIfWritten, [Next]_vars
  PROVE  NothingLost' /\ SavedIfWritten'
<1> USE DEF Goto
<1>0. TypeOK /\ Decoded
  BY DEF Inv
<1>1. CASE OpenFile
  <2>1. FileName(args) \in Names /\ FileName(args)' = FileName(args)
    BY <1>0, <1>1, OwnName DEF OpenFile, Accepted, FileName, DateStr
  <2> QED
    BY <1>0, <1>1, <2>1 DEF OpenFile, NothingLost, SavedIfWritten, SavedIsComplete, TypeOK
<1>2. CASE OpenFailed
  BY <1>2 DEF OpenFailed, NothingLost, SavedIfWritten, SavedIsComplete
<1>3. ASSUME NEW k \in 1..Spb, RecvSamples(k)
      PROVE  NothingLost' /\ SavedIfWritten'
  <2>1. FileName(args) \in Names /\ FileName(args)' = FileName(args)
    BY <1>0, <1>3, OwnName DEF RecvSamples, Accepted, FileName, DateStr
  <2>2. pc = "recv" /\ pc' = "recv" /\ total' = total + k
    BY <1>3 DEF RecvSamples
  <2>3. CASE writeBad'
    BY <2>2, <2>3 DEF NothingLost, SavedIfWritten
  <2>4. CASE ~writeBad'
    <3>1. PICK w \in Written(k) :
            /\ disk' = [disk EXCEPT ![FileName(args)] = @ + w]
            /\ writeBad' = (writeBad \/ w < k)
      BY <1>3 DEF RecvSamples
    <3>2. ~writeBad /\ ~(w < k)
      BY <2>4, <3>1
    <3>3. w = k
      <4>1. w \in 0..k
        BY <3>1, <3>2 DEF Written
      <4> QED
        BY <3>2, <4>1, CaptureAssumption
    <3> QED
      BY <1>0, <2>1, <2>2, <3>1, <3>2, <3>3
      DEF NothingLost, SavedIfWritten, SavedIsComplete, TypeOK
  <2> QED
    BY <2>3, <2>4
<1>4. CASE CloseFile
  <2>1. FileName(args)' = FileName(args) /\ args' = args
    BY <1>4 DEF CloseFile, FileName, DateStr
  <2> QED
    BY <1>4, <2>1 DEF CloseFile, NothingLost, SavedIfWritten, SavedIsComplete
<1>5. CASE IssueStream \/ RecvTimeout \/ RecvLateCommand \/ RecvOverflow
           \/ RecvComplete
  BY <1>5 DEF IssueStream, RecvTimeout, RecvLateCommand, RecvOverflow,
    RecvComplete, capture, NothingLost, SavedIfWritten, SavedIsComplete, FileName, DateStr
<1>6. CASE \/ \E r \in Requests : Arrive(r)
           \/ TakeReply \/ Tick \/ Drift \/ UNCHANGED vars
  BY <1>6 DEF Arrive, TakeReply, Tick, Drift, vars, queues, capture,
    NothingLost, SavedIfWritten, FileName, SavedIsComplete, DateStr
<1>7. CASE \/ CreateDevice \/ SyncDone \/ SyncAttempt \/ PopRequest
           \/ RejectMalformed \/ RejectLate \/ Accept \/ Tune \/ CheckLoLock
           \/ Answer \/ Throw
  BY <1>7 DEF CreateDevice, SyncDone, SyncAttempt, PopRequest,
    RejectMalformed, RejectLate, Accept, Tune, CheckLoLock, Answer, Throw,
    Reply, NothingLost, SavedIfWritten, SavedIsComplete
<1> QED
  BY <1>1, <1>2, <1>3, <1>4, <1>5, <1>6, <1>7
  DEF Next, UsrpThread, Outside, Environment

\* A request about to be answered "req saved" has exactly the samples it asked
\* for in its file, unless a write to that file failed.
THEOREM SavedMeansComplete == Spec => []SavedIfWritten
<1>1. Init => NothingLost /\ SavedIfWritten
  BY DEF Init, NothingLost, SavedIfWritten, SavedIsComplete
<1>2. Inv /\ NothingLost /\ SavedIfWritten /\ [Next]_vars
        => NothingLost' /\ SavedIfWritten'
  BY NextComplete
<1> QED
  BY <1>1, <1>2, AlwaysInv, PTL DEF Spec

-----------------------------------------------------------------------------
(* The thread implements RequestService *)

NothingInHand == pc \in {"create", "sync", "wait"} => rxmsg = NoRequest

LEMMA NextNothingInHand ==
  NothingInHand /\ [Next]_vars => NothingInHand'
BY DEF NothingInHand, Next, UsrpThread, Outside, Environment, vars, queues,
  Goto, Reply, CreateDevice, SyncDone, SyncAttempt, PopRequest,
  RejectMalformed, RejectLate, Accept, Tune, CheckLoLock, OpenFile,
  IssueStream, RecvTimeout, RecvLateCommand, RecvComplete, CloseFile, Answer,
  RecvSamples, OpenFailed, RecvOverflow, Throw, Arrive, TakeReply, Tick, Drift

\* A message put in front of a queue.
LEMMA InFront ==
  ASSUME NEW S, NEW r \in S, NEW s \in Seq(S), NEW x \in S
  PROVE  /\ <<r>> \o s \in Seq(S) /\ <<r>> \o s # <<>>
         /\ Head(<<r>> \o s) = r /\ Tail(<<r>> \o s) = s
         /\ Append(<<r>> \o s, x) = <<r>> \o Append(s, x)
OBVIOUS

LEMMA HeadInFront ==
  ASSUME NEW S, NEW s \in Seq(S), s # <<>>
  PROVE  <<Head(s)>> \o Tail(s) = s
OBVIOUS

\* The oldest request is answered, and the answer is on its way.
Answers ==
  /\ Unanswered # <<>> /\ Unanswered' = Tail(Unanswered)
  /\ \E a \in RepliesTo[Head(Unanswered)] :
       answers' = Append(answers, a) /\ toNetwork' = Append(toNetwork, a)

\* Answering the message in hand.
LEMMA ReplyAnswers ==
  ASSUME TypeOK, rxmsg \in Requests, NEW a \in RepliesTo[rxmsg], Reply(a)
  PROVE  Answers /\ pc' # "dead"
<1>1. rxmsg # NoRequest /\ Unanswered = <<rxmsg>> \o fromNetwork
  BY RequestAssumption DEF Unanswered
<1>2. fromNetwork \in Seq(Requests)
  BY DEF TypeOK
<1>3. Unanswered # <<>> /\ Head(Unanswered) = rxmsg
      /\ Tail(Unanswered) = fromNetwork
  BY <1>1, <1>2, InFront
<1>4. Unanswered' = fromNetwork
  BY DEF Reply, Unanswered
<1>5. answers' = Append(answers, a) /\ toNetwork' = Append(toNetwork, a)
      /\ pc' # "dead"
  BY DEF Reply
<1> QED
  BY <1>3, <1>4, <1>5 DEF Answers

\* What the thread does by itself touches the queues only to answer the oldest
\* request.
LEMMA OwnStep ==
  ASSUME Inv, NothingInHand, UsrpThread \/ Outside
  PROVE  /\ pc # "dead"
         /\ \/ UNCHANGED <<Unanswered, answers, toNetwork>>
            \/ Answers /\ pc' # "dead"
<1> USE DEF Goto
<1>0. TypeOK /\ Decoded /\ fromNetwork \in Seq(Requests)
  BY DEF Inv, TypeOK
<1>1. CASE \/ SyncDone \/ SyncAttempt \/ CreateDevice \/ Accept \/ CheckLoLock
           \/ OpenFile \/ IssueStream \/ RecvTimeout \/ RecvLateCommand
           \/ RecvComplete \/ CloseFile \/ RecvOverflow \/ OpenFailed
           \/ Tune \/ Throw \/ \E k \in 1..Spb : RecvSamples(k)
  BY <1>1 DEF CreateDevice, SyncDone, SyncAttempt, Accept, CheckLoLock,
    OpenFile, IssueStream, RecvTimeout, RecvLateCommand, RecvComplete,
    CloseFile, RecvOverflow, OpenFailed, Tune, Throw, RecvSamples, queues,
    Unanswered
<1>2. CASE PopRequest
  <2>1. Head(fromNetwork) # NoRequest /\ rxmsg = NoRequest
    BY <1>0, <1>2, RequestAssumption DEF PopRequest, NothingInHand
  <2>2. Unanswered' = <<Head(fromNetwork)>> \o Tail(fromNetwork)
    BY <1>2, <2>1 DEF PopRequest, Unanswered
  <2>3. Unanswered' = Unanswered
    BY <1>0, <1>2, <2>1, <2>2, HeadInFront DEF PopRequest, Unanswered
  <2> QED
    BY <1>2, <2>3 DEF PopRequest
<1>3. CASE RejectMalformed
  <2>1. rxmsg \in Requests /\ Invalid \in RepliesTo[rxmsg]
    BY <1>0, <1>3 DEF RejectMalformed, Malformed, Decoded, InHand, RepliesTo
  <2> QED
    BY <1>0, <1>3, <2>1, ReplyAnswers DEF RejectMalformed
<1>4. CASE RejectLate
  <2>1. rxmsg \in Requests /\ rxmsg.fields = 8 /\ OwnParameters
    BY <1>0, <1>4 DEF RejectLate, Malformed, Decoded, InHand
  <2>2. TooLate(args) \in RepliesTo[rxmsg]
    BY <2>1 DEF RepliesTo, OwnParameters, TooLate, DateStr
  <2> QED
    BY <1>0, <1>4, <2>1, <2>2, ReplyAnswers DEF RejectLate
<1>5. CASE Answer
  <2>1. rxmsg \in Requests /\ rxmsg.fields = 8 /\ OwnParameters
    BY <1>0, <1>5 DEF Answer, Decoded, InHand, Accepted
  <2>2. Saved(args) \in RepliesTo[rxmsg] /\ Failed(args) \in RepliesTo[rxmsg]
    BY <2>1 DEF RepliesTo, OwnParameters, Saved, Failed, FileName, DateStr
  <2> QED
    BY <1>0, <1>5, <2>1, <2>2, ReplyAnswers DEF Answer
<1> QED
  BY <1>1, <1>2, <1>3, <1>4, <1>5 DEF UsrpThread, Outside

LEMMA ArriveAppends ==
  ASSUME TypeOK, NEW r \in Requests, Arrive(r)
  PROVE  Unanswered' = Append(Unanswered, r)
BY InFront DEF Arrive, Unanswered, TypeOK

LEMMA StepRefines ==
  ASSUME Inv, NothingInHand, [Next]_vars
  PROVE  [RS!Next]_(RS!vars)
<1>1. CASE UsrpThread \/ Outside
  BY <1>1, OwnStep DEF Answers, RS!Next, RS!Answer, RS!Stop, RS!vars
<1>2. ASSUME NEW r \in Requests, Arrive(r) PROVE RS!Next
  BY <1>2, ArriveAppends DEF Inv, Arrive, RS!Next, RS!Submit
<1>3. CASE TakeReply \/ Tick \/ Drift \/ UNCHANGED vars
  BY <1>3 DEF TakeReply, Tick, Drift, vars, queues, Unanswered, RS!vars
<1> QED
  BY <1>1, <1>2, <1>3 DEF Next, Environment

\* Requests are answered in order, once each, with an answer made from their
\* own parameters: the USRP thread implements RequestService.
THEOREM ImplementsRequestService == Spec => AnswersInOrder
<1>1. Init => RS!Init /\ NothingInHand
  BY DEF Init, RS!Init, Unanswered, NothingInHand
<1>2. Inv /\ NothingInHand /\ [Next]_vars => [RS!Next]_(RS!vars)
  BY StepRefines
<1> QED
  BY <1>1, <1>2, AlwaysInv, NextNothingInHand, PTL
  DEF Spec, AnswersInOrder, RS!Spec

-----------------------------------------------------------------------------
(* The daemon: each component in the other's company *)

\* A publisher about to publish has one answer in hand, at any other time none.
Hand(holding) ==
  IF holding THEN {<<a>> : a \in AnswerType} ELSE {<<>>}

CarriedType ==
  /\ mail \in Seq(Requests) /\ arrivals \in Seq(Requests)
  /\ published \in Seq(AnswerType)
  /\ msgStr \in Hand(main = "publish")

\* Whatever the daemon does, UsrpOps sees a step of its own or none.
LEMMA UsrpOpsTakesStep ==
  ASSUME CarriedType, [DaemonNext]_daemon
  PROVE  [Next]_vars
<1>1. CASE UsrpWorks \/ UsrpAnswers \/ UsrpDies
  BY <1>1 DEF UsrpWorks, UsrpAnswers, UsrpDies, UsrpStep, Next, Environment
<1>2. ASSUME NEW r \in Requests, Deliver(r) PROVE UNCHANGED vars
  BY <1>2 DEF Deliver
<1>3. CASE MessageArrived
  <2>1. Head(mail) \in Requests
    BY <1>3 DEF MessageArrived, CarriedType
  <2> QED
    BY <1>3, <2>1 DEF MessageArrived, Next, Environment
<1>4. CASE PopAnswer
  BY <1>4 DEF PopAnswer, Next, Environment
<1>5. CASE Publish \/ Control
  BY <1>5 DEF Publish, Control
<1>6. CASE UNCHANGED daemon
  BY <1>6 DEF daemon
<1> QED
  BY <1>1, <1>2, <1>3, <1>4, <1>5, <1>6 DEF DaemonNext

\* The steps of MqttClient that move no message leave the publisher where it
\* is, or outside of publish().
LEMMA ControlKeepsMain ==
  ASSUME Control
  PROVE  /\ main' = "publish" <=> main = "publish"
         /\ UNCHANGED <<vars, carried>>
         /\ process' = process \/ process' # "runs"
BY DEF Control, Mqtt!Connect, Mqtt!ConnectSucceeded, Mqtt!ConnectFailed,
  Mqtt!PublishThrows, Mqtt!ConnectedCallback, Mqtt!Announce, Mqtt!Subscribe,
  Mqtt!CallbackThrows, Mqtt!ConnectionLost, Mqtt!OnFailureRetries,
  Mqtt!OnFailureExits, Mqtt!Reconnect, Mqtt!ReconnectThrows, Mqtt!Report, Mqtt!Accept, Mqtt!Refuse,
  Mqtt!AckSubscribe, Mqtt!Lose, Mqtt!End

\* What is on its way keeps its type.
LEMMA CarriedStep ==
  ASSUME TypeOK, CarriedType, [DaemonNext]_daemon
  PROVE  CarriedType'
<1> USE DEF CarriedType
<1>1. CASE UsrpWorks \/ UsrpAnswers \/ UsrpDies
  BY <1>1 DEF UsrpWorks, UsrpAnswers, UsrpDies, client, carried, Mqtt!Produce,
    Mqtt!UsrpEnds, Mqtt!End
<1>2. ASSUME NEW r \in Requests, Deliver(r) PROVE CarriedType'
  BY <1>2 DEF Deliver, Mqtt!Deliver
<1>3. CASE MessageArrived
  BY <1>3 DEF MessageArrived, Mqtt!MessageArrived
<1>4. CASE PopAnswer
  <2>1. Head(toNetwork) \in AnswerType
    BY <1>4 DEF PopAnswer, TakeReply, TypeOK
  <2> QED
    BY <1>4, <2>1 DEF PopAnswer, Mqtt!PopAnswer, Hand
<1>5. CASE Publish
  <2>1. PICK a \in AnswerType : msgStr = <<a>>
    BY <1>5 DEF Publish, Mqtt!Publish, Hand
  <2> QED
    BY <1>5, <2>1 DEF Publish, Mqtt!Publish, Hand
<1>6. CASE Control
  BY <1>6, ControlKeepsMain DEF carried
<1>7. CASE UNCHANGED daemon
  BY <1>7 DEF daemon, client, carried
<1> QED
  BY <1>1, <1>2, <1>3, <1>4, <1>5, <1>6, <1>7 DEF DaemonNext

\* MqttClient sees every step, or nothing: the numbers of messages it counts
\* only change when it takes part.
LEMMA MqttTakesStep ==
  ASSUME Inv, NothingInHand, [DaemonNext]_daemon
  PROVE  [Mqtt!Next]_(Mqtt!vars)
<1>1. CASE UsrpWorks
  <2>1. UNCHANGED <<client, carried, answers>>
    BY <1>1 DEF UsrpWorks
  <2>2. UNCHANGED toNetwork
    <3>1. CASE UsrpStep
      <4>1. answers \in Seq(AnswerType)
        BY DEF Inv, TypeOK
      <4>2. ASSUME NEW a PROVE Append(answers, a) # answers
        BY <4>1
      <4>3. ~Answers
        BY <2>1, <4>2 DEF Answers
      <4> QED
        BY <3>1, <4>3, OwnStep DEF UsrpStep
    <3>2. CASE Tick \/ Drift
      BY <3>2 DEF Tick, Drift, queues
    <3> QED
      BY <1>1, <3>1, <3>2 DEF UsrpWorks
  <2> QED
    BY <2>1, <2>2 DEF client, carried, Mqtt!vars, Mqtt!helper, Mqtt!library,
      Mqtt!messages, Mqtt!history
<1>2. CASE UsrpAnswers \/ UsrpDies \/ MessageArrived \/ PopAnswer \/ Publish
  BY <1>2 DEF UsrpAnswers, UsrpDies, MessageArrived, PopAnswer, Publish,
    Mqtt!Next, Mqtt!Main, Mqtt!Callbacks
<1>3. ASSUME NEW r \in Requests, Deliver(r) PROVE Mqtt!Next
  BY <1>3 DEF Deliver, Mqtt!Next
<1>4. CASE Control
  BY <1>4 DEF Control, Mqtt!Next, Mqtt!Main, Mqtt!Callbacks
<1>5. CASE UNCHANGED daemon
  BY <1>5 DEF daemon, vars, queues, client, carried, Mqtt!vars, Mqtt!helper,
    Mqtt!library, Mqtt!messages, Mqtt!history
<1> QED
  BY <1>1, <1>2, <1>3, <1>4, <1>5 DEF DaemonNext

\* The invariants of UsrpOps hold in the daemon.
LEMMA DaemonInvariants == DaemonSpec => [](Inv /\ NothingInHand /\ CarriedType)
<1>1. DaemonInit => Inv /\ NothingInHand /\ CarriedType
  BY InitInv DEF DaemonInit, Init, NothingInHand, CarriedType, Hand, Mqtt!Init
<1>2. Inv /\ NothingInHand /\ CarriedType /\ [DaemonNext]_daemon
        => (Inv /\ NothingInHand /\ CarriedType)'
  BY UsrpOpsTakesStep, NextInv, NextNothingInHand, CarriedStep DEF Inv
<1> QED
  BY <1>1, <1>2, PTL DEF DaemonSpec

\* In the daemon the USRP thread behaves as UsrpOps, which leaves open when
\* requests come and answers go: the MQTT side is an environment it allows.
THEOREM DaemonRunsUsrpOps == DaemonSpec => RunsUsrpOps
<1>1. DaemonInit => Init
  BY DEF DaemonInit
<1>2. CarriedType /\ [DaemonNext]_daemon => [Next]_vars
  BY UsrpOpsTakesStep
<1> QED
  BY <1>1, <1>2, DaemonInvariants, PTL DEF DaemonSpec, RunsUsrpOps, Spec

\* In the daemon the MQTT side behaves as MqttClient, which leaves open when
\* answers are made and when the process ends: the USRP thread is an
\* environment it allows.
THEOREM DaemonRunsMqttClient == DaemonSpec => RunsMqttClient
<1>1. DaemonInit => Mqtt!Init
  BY DEF DaemonInit
<1>2. Inv /\ NothingInHand /\ [DaemonNext]_daemon => [Mqtt!Next]_(Mqtt!vars)
  BY MqttTakesStep
<1> QED
  BY <1>1, <1>2, DaemonInvariants, PTL DEF DaemonSpec, RunsMqttClient, Mqtt!Spec

\* What is shown of the captured files holds in the daemon, too, whatever the
\* connections and the publisher do meanwhile.
THEOREM DaemonKeepsCaptures ==
  DaemonSpec => /\ [](CaptureMatchesRequest /\ NoOrphanFile /\ SavedIfWritten)
                /\ SavedDataKept
BY DaemonRunsUsrpOps, CaptureUsesOneMessage, FilesAreAccountedFor,
   SavedMeansComplete, SamplesAreKept, PTL DEF RunsUsrpOps

\* What is proved of MqttClient, for the queues of the daemon.
Client == INSTANCE MqttClientProofs WITH
            fromNetwork <- Len(arrivals),
            toNetwork <- Len(toNetwork),
            produced <- Len(answers),
            MaxMessages <- MaxArrivals

\* Both instances of MqttClient are the same.
LEMMA SameState ==
  /\ Mqtt!Init => Client!Init
  /\ UNCHANGED Mqtt!vars => UNCHANGED Client!vars
  /\ Client!ConnectedMeansSubscribed => Mqtt!ConnectedMeansSubscribed
  /\ Client!AttemptsBounded => Mqtt!AttemptsBounded
  /\ Client!OneConnectAtATime => Mqtt!OneConnectAtATime
BY DEF Mqtt!Init, Client!Init, Mqtt!vars, Client!vars, Mqtt!helper,
  Client!helper, Mqtt!library, Client!library, Mqtt!messages, Client!messages,
  Mqtt!history, Client!history, Mqtt!ConnectedMeansSubscribed,
  Client!ConnectedMeansSubscribed, Mqtt!AttemptsBounded,
  Client!AttemptsBounded, Mqtt!OneConnectAtATime, Client!OneConnectAtATime,
  Mqtt!Running, Client!Running, Mqtt!Pending, Client!Pending

LEMMA SameMain == Mqtt!Main => Client!Main
BY DEF Mqtt!Main, Client!Main, Mqtt!Connect, Client!Connect,
  Mqtt!ConnectSucceeded, Client!ConnectSucceeded, Mqtt!ConnectFailed,
  Client!ConnectFailed, Mqtt!PopAnswer, Client!PopAnswer, Mqtt!Publish,
  Client!Publish, Mqtt!PublishThrows, Client!PublishThrows,
  Mqtt!StartConnect, Client!StartConnect, Mqtt!End, Client!End, Mqtt!Running,
  Client!Running, Mqtt!helper, Client!helper, Mqtt!library, Client!library,
  Mqtt!messages, Client!messages, Mqtt!history, Client!history

LEMMA SameCallbacks == Mqtt!Callbacks => Client!Callbacks
BY DEF Mqtt!Callbacks, Client!Callbacks, Mqtt!ConnectedCallback,
  Client!ConnectedCallback, Mqtt!Announce, Client!Announce, Mqtt!Subscribe,
  Client!Subscribe, Mqtt!CallbackThrows, Client!CallbackThrows,
  Mqtt!ConnectionLost, Client!ConnectionLost, Mqtt!OnFailureRetries,
  Client!OnFailureRetries, Mqtt!OnFailureExits, Client!OnFailureExits,
  Mqtt!Reconnect, Client!Reconnect, Mqtt!ReconnectThrows,
  Client!ReconnectThrows, Mqtt!MessageArrived,
  Client!MessageArrived, Mqtt!Event, Client!Event, Mqtt!StartConnect,
  Client!StartConnect, Mqtt!End, Client!End, Mqtt!Running, Client!Running,
  Mqtt!helper, Client!helper, Mqtt!library, Client!library, Mqtt!messages,
  Client!messages, Mqtt!history, Client!history

LEMMA SameOthers ==
  /\ Mqtt!Report => Client!Report
  /\ Mqtt!Lose => Client!Lose
  /\ Mqtt!Deliver => Client!Deliver
  /\ Mqtt!Produce => Client!Produce
  /\ Mqtt!UsrpEnds => Client!UsrpEnds
BY DEF Mqtt!Report, Client!Report, Mqtt!Accept, Client!Accept, Mqtt!Refuse,
  Client!Refuse, Mqtt!AckSubscribe, Client!AckSubscribe, Mqtt!Outcome,
  Client!Outcome, Mqtt!Lose, Client!Lose, Mqtt!Deliver, Client!Deliver,
  Mqtt!Arrivals, Client!Arrivals, Mqtt!Produce, Client!Produce,
  Mqtt!UsrpEnds, Client!UsrpEnds, Mqtt!End, Client!End, Mqtt!Running,
  Client!Running, Mqtt!helper, Client!helper, Mqtt!library, Client!library,
  Mqtt!messages, Client!messages, Mqtt!history, Client!history

\* What is shown of the connection holds in the daemon, too, whatever the USRP
\* thread does meanwhile: the client is subscribed once its callbacks have run,
\* retries no more than it may and never connects twice at a time.
THEOREM DaemonKeepsConnection ==
  ASSUME N_RETRY_ATTEMPTS \in Nat, MaxLosses \in Nat
  PROVE  DaemonSpec => [](/\ Mqtt!ConnectedMeansSubscribed
                          /\ Mqtt!AttemptsBounded
                          /\ Mqtt!OneConnectAtATime)
<1>1. Client!BoundAssumption
  BY CaptureAssumption DEF Client!BoundAssumption
<1>2. Mqtt!Spec => Client!Spec
  <2>1. Mqtt!Init => Client!Init
    BY SameState
  <2>2. [Mqtt!Next]_(Mqtt!vars) => [Client!Next]_(Client!vars)
    BY SameState, SameMain, SameCallbacks, SameOthers
    DEF Mqtt!Next, Client!Next
  <2> QED
    BY <2>1, <2>2, PTL DEF Mqtt!Spec, Client!Spec
<1>3. Client!Spec => /\ []Client!ConnectedMeansSubscribed
                     /\ []Client!AttemptsBounded
                     /\ []Client!OneConnectAtATime
  BY <1>1, Client!ConnectedIsSubscribed, Client!RetriesAreBounded,
     Client!ConnectsDoNotOverlap, PTL
<1> QED
  BY <1>2, <1>3, SameState, DaemonRunsMqttClient, PTL DEF RunsMqttClient

-----------------------------------------------------------------------------
(* The daemon: requests and answers from end to end *)

\* The sequence un is what is left of arr after its first k elements.
IsRest(k, un, arr) ==
  /\ k + Len(un) = Len(arr)
  /\ \A i \in 1..Len(un) : un[i] = arr[k + i]

\* The first k answers fit the requests in the same places.
FitsUpTo(k, ans, arr) == \A i \in 1..k : ans[i] \in RepliesTo[arr[i]]

\* The requests not answered yet are the last ones that arrived, and the
\* answers so far fit the requests before them, one by one.
Traced ==
  /\ IsRest(Len(answers), Unanswered, arrivals)
  /\ FitsUpTo(Len(answers), answers, arrivals)

\* Answers are published, in the publisher's hand or on the queue.
Kept == answers = (published \o msgStr) \o toNetwork

\* Only requests are unanswered.
LEMMA UnansweredType == TypeOK => Unanswered \in Seq(Requests)
<1> SUFFICES ASSUME TypeOK PROVE Unanswered \in Seq(Requests)
  OBVIOUS
<1>1. fromNetwork \in Seq(Requests) /\ rxmsg \in Requests \cup {NoRequest}
  BY DEF TypeOK
<1> QED
  BY <1>1, InFront DEF Unanswered

\* What Head and Tail do, element by element.
LEMMA TailFacts ==
  ASSUME NEW S, NEW s \in Seq(S), s # <<>>
  PROVE  /\ Len(s) \in Nat /\ Len(s) > 0 /\ Len(Tail(s)) = Len(s) - 1
         /\ Head(s) = s[1]
         /\ \A i \in 1..Len(s) - 1 : Tail(s)[i] = s[i + 1]
OBVIOUS

\* A new element is the last of both.
LEMMA RestGrows ==
  ASSUME NEW S, NEW un \in Seq(S), NEW arr \in Seq(S), NEW k \in Nat,
         IsRest(k, un, arr), NEW x \in S
  PROVE  IsRest(k, Append(un, x), Append(arr, x))
<1> DEFINE m == Len(un)  n == Len(arr)  un1 == Append(un, x)
           arr1 == Append(arr, x)
<1>1. m \in Nat /\ n \in Nat /\ k + m = n
      /\ \A i \in 1..m : un[i] = arr[k + i]
  BY AppendProperties, LenProperties DEF IsRest
<1>2. Len(un1) = m + 1 /\ un1[m + 1] = x /\ \A i \in 1..m : un1[i] = un[i]
  BY AppendProperties, LenProperties
<1>3. Len(arr1) = n + 1 /\ arr1[n + 1] = x /\ \A i \in 1..n : arr1[i] = arr[i]
  BY AppendProperties, LenProperties
<1> HIDE DEF m, n, un1, arr1
<1>4. ASSUME NEW i \in 1..m + 1 PROVE un1[i] = arr1[k + i]
  <2>1. CASE i \in 1..m
    <3>1. k + i \in 1..n
      BY <1>1, <2>1
    <3> QED
      BY <1>1, <1>2, <1>3, <2>1, <3>1
  <2>2. CASE i = m + 1
    <3>1. k + i = n + 1
      BY <1>1, <2>2
    <3> QED
      BY <1>2, <1>3, <2>2, <3>1
  <2> QED
    BY <1>1, <2>1, <2>2
<1>5. k + Len(un1) = Len(arr1)
  BY <1>1, <1>2, <1>3
<1>6. IsRest(k, un1, arr1)
  BY <1>2, <1>4, <1>5 DEF IsRest
<1> QED
  BY <1>6 DEF un1, arr1

\* Dropping the first element moves the rest by one.
LEMMA RestShrinks ==
  ASSUME NEW S, NEW un \in Seq(S), NEW arr \in Seq(S), NEW k \in Nat,
         IsRest(k, un, arr), un # <<>>
  PROVE  /\ IsRest(k + 1, Tail(un), arr)
         /\ Head(un) = arr[k + 1]
<1> DEFINE m == Len(un)  n == Len(arr)  un1 == Tail(un)
<1>1. k + m = n /\ \A i \in 1..m : un[i] = arr[k + i]
  BY DEF IsRest
<1>2. /\ m \in Nat /\ m > 0 /\ Len(un1) = m - 1 /\ Head(un) = un[1]
      /\ \A i \in 1..m - 1 : un1[i] = un[i + 1]
  BY TailFacts
<1>3. n \in Nat
  BY AppendProperties, LenProperties
<1> HIDE DEF m, n, un1
<1>4. ASSUME NEW i \in 1..m - 1 PROVE un1[i] = arr[k + 1 + i]
  <2>1. i + 1 \in 1..m /\ k + (i + 1) = k + 1 + i
    BY <1>2
  <2> QED
    BY <1>1, <1>2, <2>1
<1>5. k + 1 + Len(un1) = n /\ 1 \in 1..m
  BY <1>1, <1>2, <1>3
<1>6. IsRest(k + 1, un1, arr)
  BY <1>2, <1>4, <1>5 DEF IsRest, n
<1> QED
  BY <1>1, <1>2, <1>5, <1>6 DEF un1

\* A request that arrives is the last of those not answered.
LEMMA ArrivalTraced ==
  ASSUME TypeOK, CarriedType, Traced, NEW r \in Requests,
         Unanswered' = Append(Unanswered, r),
         arrivals' = Append(arrivals, r), UNCHANGED answers
  PROVE  Traced'
<1> DEFINE n == Len(answers)
<1>1. /\ Unanswered \in Seq(Requests) /\ arrivals \in Seq(Requests)
      /\ answers \in Seq(AnswerType) /\ n \in Nat
  BY UnansweredType DEF CarriedType, TypeOK
<1>2. IsRest(n, Unanswered, arrivals)
  BY DEF Traced
<1>3. IsRest(n, Unanswered', arrivals')
  BY <1>1, <1>2, RestGrows
<1>4. \A i \in 1..n : arrivals'[i] = arrivals[i]
  <2>1. \A i \in 1..Len(arrivals) : arrivals'[i] = arrivals[i]
    BY <1>1, AppendProperties, LenProperties
  <2>2. n + Len(Unanswered) = Len(arrivals) /\ Len(Unanswered) \in Nat
        /\ Len(arrivals) \in Nat
    BY <1>1, <1>2 DEF IsRest
  <2> QED
    BY <1>1, <2>1, <2>2
<1>5. FitsUpTo(n, answers, arrivals')
  BY <1>4 DEF Traced, FitsUpTo
<1> QED
  BY <1>3, <1>5 DEF Traced

\* An answer is for the oldest request that has none.
LEMMA AnswerTraced ==
  ASSUME TypeOK, CarriedType, Traced, Answers, UNCHANGED arrivals
  PROVE  Traced'
<1> DEFINE u == Unanswered  n == Len(answers)
<1>1. /\ u \in Seq(Requests) /\ answers \in Seq(AnswerType) /\ n \in Nat
      /\ arrivals \in Seq(Requests)
  BY UnansweredType DEF TypeOK, CarriedType
<1>2. u # <<>> /\ u' = Tail(u) /\ IsRest(n, u, arrivals)
  BY DEF Answers, Traced
<1>3. PICK a \in RepliesTo[Head(u)] : answers' = Append(answers, a)
  BY DEF Answers
<1>4. IsRest(n + 1, u', arrivals) /\ Head(u) = arrivals[n + 1]
  BY <1>1, <1>2, RestShrinks
<1>5. /\ Len(answers') = n + 1 /\ answers'[n + 1] = a
      /\ \A i \in 1..n : answers'[i] = answers[i]
  BY <1>1, <1>3
<1>6. \A i \in 1..n : answers[i] \in RepliesTo[arrivals[i]]
  BY DEF Traced, FitsUpTo
<1> HIDE DEF n
<1>7. \A i \in 1..n + 1 : i \in 1..n \/ i = n + 1
  BY <1>1
<1>8. FitsUpTo(n + 1, answers', arrivals)
  BY <1>3, <1>4, <1>5, <1>6, <1>7 DEF FitsUpTo
<1> QED
  BY <1>4, <1>5, <1>8 DEF Traced

\* An element added at the end of two sequences put together.
LEMMA Join ==
  ASSUME NEW S, NEW p \in Seq(S), NEW t \in Seq(S), NEW a \in S
  PROVE  /\ p \o Append(t, a) = Append(p \o t, a)
         /\ p \o <<a>> \in Seq(S) /\ p \o <<>> = p
<1>1. <<a>> \in Seq(S) /\ p \o t \in Seq(S)
  OBVIOUS
<1>2. /\ p \o (t \o <<a>>) = (p \o t) \o <<a>>
      /\ Append(t, a) = t \o <<a>> /\ Append(p \o t, a) = (p \o t) \o <<a>>
  BY <1>1, ConcatAssociative, AppendIsConcat
<1> QED
  BY <1>1, <1>2, ConcatProperties, ConcatEmptySeq

\* The first element of a sequence moves to the one in front of it.
LEMMA TakeFirst ==
  ASSUME NEW S, NEW p \in Seq(S), NEW t \in Seq(S), t # <<>>
  PROVE  (p \o <<Head(t)>>) \o Tail(t) = p \o t
<1>1. /\ Head(t) \in S /\ <<Head(t)>> \in Seq(S) /\ Tail(t) \in Seq(S)
      /\ <<Head(t)>> \o Tail(t) = t
  BY HeadInFront
<1> QED
  BY <1>1, ConcatAssociative

\* What the publisher has in hand.
LEMMA HandType ==
  ASSUME CarriedType
  PROVE  /\ published \o msgStr \in Seq(AnswerType)
         /\ main = "publish" => \E a \in AnswerType : msgStr = <<a>>
         /\ main # "publish" => msgStr = <<>>
<1>1. CASE main = "publish"
  <2>1. PICK a \in AnswerType : msgStr = <<a>>
    BY <1>1 DEF CarriedType, Hand
  <2> QED
    BY <1>1, <2>1, Join DEF CarriedType
<1>2. CASE main # "publish"
  <2>1. msgStr = <<>>
    BY <1>2 DEF CarriedType, Hand
  <2> QED
    BY <1>2, <2>1, ConcatEmptySeq DEF CarriedType
<1> QED
  BY <1>1, <1>2

\* Every answer given is on its way to the broker, or there.
LEMMA KeptStep ==
  ASSUME Inv, NothingInHand, CarriedType, Kept, [DaemonNext]_daemon
  PROVE  Kept'
<1> DEFINE p == published \o msgStr
<1>0. /\ TypeOK /\ toNetwork \in Seq(AnswerType) /\ answers \in Seq(AnswerType)
      /\ published \in Seq(AnswerType) /\ p \in Seq(AnswerType)
  BY HandType DEF Inv, TypeOK, CarriedType
<1>1. CASE UsrpWorks \/ UsrpAnswers \/ UsrpDies
  <2>1. UNCHANGED <<published, msgStr>>
    BY <1>1 DEF UsrpWorks, UsrpAnswers, UsrpDies, carried
  <2>2. CASE UNCHANGED <<answers, toNetwork>>
    BY <2>1, <2>2 DEF Kept
  <2>3. CASE Answers
    <3>1. PICK a : answers' = Append(answers, a)
                   /\ toNetwork' = Append(toNetwork, a)
      BY <2>3 DEF Answers
    <3>2. answers' \in Seq(AnswerType)
      BY <1>0, UsrpOpsTakesStep, NextType DEF TypeOK
    <3>3. a \in AnswerType
      <4>1. answers'[Len(answers) + 1] = a /\ Len(answers) + 1 \in 1..Len(answers')
        BY <1>0, <3>1
      <4> QED
        BY <3>2, <4>1
    <3>4. p \o Append(toNetwork, a) = Append(p \o toNetwork, a)
      BY <1>0, <3>3, Join
    <3>5. answers = p \o toNetwork /\ p' = p
      BY <2>1 DEF Kept
    <3>6. answers' = p' \o toNetwork'
      BY <3>1, <3>4, <3>5
    <3> QED
      BY <3>6 DEF Kept
  <2> QED
    BY <1>1, <2>2, <2>3, OwnStep DEF UsrpWorks, UsrpAnswers, UsrpDies, UsrpStep,
      Tick, Drift, queues
<1>2. CASE \/ (\E r \in Requests : Deliver(r)) \/ MessageArrived \/ Control
           \/ UNCHANGED daemon
  BY <1>2, ControlKeepsMain DEF Deliver, MessageArrived, Arrive, daemon, vars,
    queues, carried, Kept
<1>3. CASE PopAnswer
  <2>1. /\ msgStr = <<>> /\ msgStr' = <<Head(toNetwork)>> /\ toNetwork # <<>>
        /\ toNetwork' = Tail(toNetwork) /\ UNCHANGED <<answers, published>>
    BY <1>3, HandType DEF PopAnswer, TakeReply, Mqtt!PopAnswer
  <2>2. answers = published \o toNetwork
    BY <1>0, <2>1, ConcatEmptySeq DEF Kept
  <2>3. (published \o msgStr') \o toNetwork' = published \o toNetwork
    BY <1>0, <2>1, TakeFirst
  <2> QED
    BY <2>1, <2>2, <2>3 DEF Kept
<1>4. CASE Publish
  <2>1. published' = p /\ msgStr' = <<>> /\ UNCHANGED <<answers, toNetwork>>
    BY <1>4 DEF Publish, vars, queues
  <2>2. published' \o msgStr' = p
    BY <1>0, <2>1, ConcatEmptySeq
  <2> QED
    BY <2>1, <2>2 DEF Kept
<1> QED
  BY <1>1, <1>2, <1>3, <1>4 DEF DaemonNext

\* Requests and answers stay in step.
LEMMA TracedStep ==
  ASSUME Inv, NothingInHand, CarriedType, Traced, [DaemonNext]_daemon
  PROVE  Traced'
<1>0. TypeOK
  BY DEF Inv
<1>1. CASE UsrpWorks \/ UsrpAnswers \/ UsrpDies
  <2>1. UNCHANGED arrivals
    BY <1>1 DEF UsrpWorks, UsrpAnswers, UsrpDies, carried
  <2>2. CASE Answers
    BY <1>0, <2>1, <2>2, AnswerTraced
  <2>3. CASE UNCHANGED <<Unanswered, answers>>
    BY <2>1, <2>3 DEF Traced
  <2>4. CASE Tick \/ Drift
    BY <2>1, <2>4 DEF Tick, Drift, queues, Traced, Unanswered
  <2> QED
    BY <1>1, <2>2, <2>3, <2>4, OwnStep
    DEF UsrpWorks, UsrpAnswers, UsrpDies, UsrpStep
<1>2. CASE MessageArrived
  <2>1. Head(mail) \in Requests
    BY <1>2 DEF MessageArrived, CarriedType
  <2>2. /\ Arrive(Head(mail)) /\ UNCHANGED answers
        /\ arrivals' = Append(arrivals, Head(mail))
    BY <1>2 DEF MessageArrived, Arrive
  <2> QED
    BY <1>0, <2>1, <2>2, ArriveAppends, ArrivalTraced
<1>3. CASE \/ (\E r \in Requests : Deliver(r)) \/ PopAnswer \/ Publish
           \/ Control \/ UNCHANGED daemon
  BY <1>3, ControlKeepsMain DEF Deliver, PopAnswer, TakeReply, Publish, daemon,
    vars, queues, carried, Traced, Unanswered
<1> QED
  BY <1>1, <1>2, <1>3 DEF DaemonNext

\* What is left of a sequence behind its first k elements, when one more
\* element comes.
LEMMA LeftGrows ==
  ASSUME NEW S, NEW s \in Seq(S), NEW k \in Nat, k <= Len(s), NEW x \in S
  PROVE  SubSeq(Append(s, x), k + 1, Len(Append(s, x)))
           = Append(SubSeq(s, k + 1, Len(s)), x)
<1> DEFINE n == Len(s)  s1 == Append(s, x)
           u == SubSeq(s, k + 1, n)  u1 == SubSeq(s1, k + 1, n + 1)
<1>1. /\ n \in Nat /\ k <= n /\ Len(s1) = n + 1 /\ s1 \in Seq(S) /\ s1[n + 1] = x
      /\ \A i \in 1..n : s1[i] = s[i]
      /\ \A i \in 1..n : s[i] \in S
      /\ \A i \in 1..n + 1 : s1[i] \in S
  BY AppendProperties, LenProperties, ElementOfSeq
<1> HIDE DEF n, s1
<1>2. /\ u \in Seq(S) /\ Len(u) = n - k
      /\ \A i \in 1..n - k : u[i] = s[k + i]
  <2>1. \A i \in k + 1..n : s[i] \in S
    BY <1>1
  <2>2. /\ u \in Seq(S) /\ Len(u) = IF k + 1 <= n THEN n - (k + 1) + 1 ELSE 0
        /\ \A i \in 1..n - (k + 1) + 1 : u[i] = s[k + 1 + i - 1]
    BY <1>1, <2>1, SubSeqProperties
  <2> QED
    BY <1>1, <2>2 DEF n
<1>3. /\ u1 \in Seq(S) /\ Len(u1) = n + 1 - k
      /\ \A i \in 1..n + 1 - k : u1[i] = s1[k + i]
  <2>1. \A i \in k + 1..n + 1 : s1[i] \in S
    BY <1>1
  <2>2. /\ u1 \in Seq(S)
        /\ Len(u1) = IF k + 1 <= n + 1 THEN n + 1 - (k + 1) + 1 ELSE 0
        /\ \A i \in 1..n + 1 - (k + 1) + 1 : u1[i] = s1[k + 1 + i - 1]
    BY <1>1, <2>1, SubSeqProperties
  <2> QED
    BY <1>1, <2>2 DEF n
<1> HIDE DEF u, u1
<1>4. /\ Append(u, x) \in Seq(S) /\ Len(Append(u, x)) = n - k + 1
      /\ \A i \in 1..n - k : Append(u, x)[i] = u[i]
      /\ Append(u, x)[n - k + 1] = x
  BY <1>2, AppendProperties
<1>5. ASSUME NEW i \in 1..n + 1 - k PROVE u1[i] = Append(u, x)[i]
  <2>1. CASE i \in 1..n - k
    <3>1. k + i \in 1..n
      BY <1>1, <2>1
    <3> QED
      BY <1>1, <1>2, <1>3, <1>4, <2>1, <3>1
  <2>2. CASE i = n - k + 1
    <3>1. k + i = n + 1
      BY <1>1, <2>2
    <3> QED
      BY <1>1, <1>3, <1>4, <2>2, <3>1
  <2>3. i \in 1..n - k \/ i = n - k + 1
    BY <1>1
  <2> QED
    BY <2>1, <2>2, <2>3
<1>6. u1 = Append(u, x)
  <2>1. Len(u1) = Len(Append(u, x))
    BY <1>1, <1>3, <1>4
  <2> QED
    BY <1>3, <1>4, <1>5, <2>1, SeqEqual
<1> QED
  BY <1>1, <1>6 DEF u, u1, n, s1

\* The same, when one more is dropped from the front.
LEMMA LeftShrinks ==
  ASSUME NEW S, NEW s \in Seq(S), NEW k \in Nat, k < Len(s)
  PROVE  /\ SubSeq(s, k + 1, Len(s)) # <<>>
         /\ Head(SubSeq(s, k + 1, Len(s))) = s[k + 1]
         /\ Tail(SubSeq(s, k + 1, Len(s))) = SubSeq(s, k + 2, Len(s))
<1> DEFINE n == Len(s)  u == SubSeq(s, k + 1, n)
<1>1. /\ n \in Nat /\ k < n /\ k + 1 \in 1..n /\ n \in k + 1..n
      /\ k + 1 + 1 = k + 2
      /\ \A i \in k + 1..n : s[i] \in S
  BY LenProperties, ElementOfSeq
<1>2. Head(u) = s[k + 1] /\ Tail(u) = SubSeq(s, k + 2, n)
  BY <1>1, HeadTailOfSubSeq
<1>3. Len(u) = IF k + 1 <= n THEN n - (k + 1) + 1 ELSE 0
  BY <1>1, SubSeqProperties
<1> HIDE DEF n, u
<1>4. Len(u) # 0
  BY <1>1, <1>3
<1>5. u # <<>>
  BY <1>4, EmptySeq
<1> QED
  BY <1>2, <1>5 DEF n, u

\* A request that arrives is submitted, an answer that is published is given,
\* and all that happens in between does not show from outside.
LEMMA EndToEndStep ==
  ASSUME Inv, NothingInHand, CarriedType, Kept, Traced, [DaemonNext]_daemon
  PROVE  [EndToEnd!Next]_(EndToEnd!vars)
<1> USE DEF EndToEnd!vars
<1>0. /\ TypeOK /\ arrivals \in Seq(Requests) /\ answers \in Seq(AnswerType)
      /\ published \in Seq(AnswerType) /\ toNetwork \in Seq(AnswerType)
  BY DEF Inv, TypeOK, CarriedType
<1>1. Len(published) \in Nat /\ Len(published) <= Len(answers)
      /\ Len(answers) <= Len(arrivals)
  <2>1. published \o msgStr \in Seq(AnswerType) /\ msgStr \in Seq(AnswerType)
    BY HandType DEF CarriedType, Hand
  <2>2. Len(answers) = Len(published) + Len(msgStr) + Len(toNetwork)
    BY <1>0, <2>1, ConcatProperties DEF Kept
  <2>3. Len(answers) + Len(Unanswered) = Len(arrivals)
        /\ Len(Unanswered) \in Nat
    BY <1>0, UnansweredType, LenProperties DEF Traced, IsRest
  <2> QED
    BY <1>0, <2>1, <2>2, <2>3, LenProperties
<1>2. CASE MessageArrived
  <2>1. Head(mail) \in Requests
    BY <1>2 DEF MessageArrived, CarriedType
  <2>2. /\ arrivals' = Append(arrivals, Head(mail)) /\ UNCHANGED published
        /\ process = "runs" /\ UNCHANGED process
    BY <1>2 DEF MessageArrived, Mqtt!MessageArrived, Mqtt!Event, Mqtt!Running
  <2>3. Outstanding' = Append(Outstanding, Head(mail))
    <3>1. Len(published) <= Len(arrivals)
      BY <1>0, <1>1, LenProperties
    <3>2. SubSeq(Append(arrivals, Head(mail)), Len(published) + 1,
                 Len(Append(arrivals, Head(mail))))
            = Append(SubSeq(arrivals, Len(published) + 1, Len(arrivals)),
                     Head(mail))
      BY <1>0, <1>1, <2>1, <3>1, LeftGrows
    <3> QED
      BY <2>2, <3>2 DEF Outstanding
  <2> QED
    BY <2>1, <2>2, <2>3 DEF EndToEnd!Next, EndToEnd!Submit
<1>3. CASE Publish
  <2>1. /\ published' = published \o msgStr
        /\ UNCHANGED <<arrivals, answers, toNetwork, process>>
        /\ process = "runs" /\ main = "publish"
    BY <1>3 DEF Publish, vars, queues, Mqtt!Publish, Mqtt!Running
  <2>2. PICK a \in AnswerType : msgStr = <<a>>
    BY <2>1, HandType
  <2>3. published' = Append(published, a)
    BY <1>0, <2>1, <2>2, AppendIsConcat
  <2> DEFINE k == Len(published)
  <2>4. k < Len(answers) /\ answers[k + 1] = a
    <3>1. answers = Append(published, a) \o toNetwork
      BY <2>1, <2>3 DEF Kept
    <3>2. /\ Append(published, a) \in Seq(AnswerType)
          /\ Len(Append(published, a)) = k + 1
          /\ Append(published, a)[k + 1] = a
      BY <1>0, AppendProperties
    <3>3. Len(answers) = k + 1 + Len(toNetwork) /\ Len(toNetwork) \in Nat
      BY <1>0, <3>1, <3>2, ConcatProperties, LenProperties
    <3>4. k + 1 \in 1..(k + 1 + Len(toNetwork)) /\ k + 1 <= k + 1
      BY <1>1, <3>3
    <3>5. answers[k + 1] = Append(published, a)[k + 1]
      BY <1>0, <3>1, <3>2, <3>4, ConcatProperties
    <3> QED
      BY <1>1, <3>2, <3>3, <3>5
  <2>5. a \in RepliesTo[arrivals[k + 1]]
    BY <1>0, <1>1, <2>4 DEF Traced, FitsUpTo
  <2>6. k < Len(arrivals) /\ Len(published') = k + 1 /\ k + 1 + 1 = k + 2
    BY <1>0, <1>1, <2>3, <2>4, AppendProperties, LenProperties
  <2>7. /\ Outstanding # <<>> /\ Head(Outstanding) = arrivals[k + 1]
        /\ Outstanding' = Tail(Outstanding)
    BY <1>0, <1>1, <2>1, <2>6, LeftShrinks DEF Outstanding
  <2> QED
    BY <2>1, <2>3, <2>5, <2>7 DEF EndToEnd!Next, EndToEnd!Answer
<1>4. ASSUME UNCHANGED <<arrivals, published>>,
             process' = process \/ process' # "runs"
      PROVE  [EndToEnd!Next]_(EndToEnd!vars)
  BY <1>4 DEF Outstanding, EndToEnd!Next, EndToEnd!Stop
<1>5. CASE UsrpWorks \/ UsrpAnswers \/ UsrpDies
  BY <1>4, <1>5 DEF UsrpWorks, UsrpAnswers, UsrpDies, client, carried,
    Mqtt!Produce, Mqtt!UsrpEnds, Mqtt!End
<1>6. CASE (\E r \in Requests : Deliver(r)) \/ PopAnswer
  BY <1>4, <1>6 DEF Deliver, PopAnswer, Mqtt!Deliver, Mqtt!PopAnswer
<1>7. CASE Control
  BY <1>4, <1>7, ControlKeepsMain DEF carried
<1>8. CASE UNCHANGED daemon
  BY <1>4, <1>8 DEF daemon, client, carried
<1> QED
  BY <1>2, <1>3, <1>5, <1>6, <1>7, <1>8 DEF DaemonNext

\* Seen from the broker, with every step of three threads, two queues and a
\* capture in between: one answer is published for each request, in the order
\* the requests came, and it names that very request's file or start.
THEOREM DaemonServes == DaemonSpec => ServesFromEndToEnd
<1>1. DaemonInit => Kept /\ Traced /\ EndToEnd!Init
  <2> SUFFICES ASSUME DaemonInit PROVE Kept /\ Traced /\ EndToEnd!Init
    OBVIOUS
  <2>1. /\ answers = <<>> /\ toNetwork = <<>> /\ Unanswered = <<>>
        /\ arrivals = <<>> /\ published = <<>> /\ msgStr = <<>>
        /\ process = "runs"
    BY DEF DaemonInit, Init, Unanswered, Mqtt!Init
  <2>2. Outstanding = <<>>
    BY <2>1, SubSeqEmpty DEF Outstanding
  <2>3. \A i : i \notin 1..0
    OBVIOUS
  <2>4. Kept /\ Traced
    BY <2>1, <2>3 DEF Kept, Traced, IsRest, FitsUpTo
  <2> QED
    BY <2>1, <2>2, <2>4 DEF EndToEnd!Init
<1>2. Inv /\ NothingInHand /\ CarriedType /\ Kept /\ Traced
        /\ [DaemonNext]_daemon => Kept' /\ Traced'
  BY KeptStep, TracedStep
<1>3. Inv /\ NothingInHand /\ CarriedType /\ Kept /\ Traced
        /\ [DaemonNext]_daemon => [EndToEnd!Next]_(EndToEnd!vars)
  BY EndToEndStep
<1> QED
  BY <1>1, <1>2, <1>3, DaemonInvariants, PTL
  DEF DaemonSpec, ServesFromEndToEnd, EndToEnd!Spec
=============================================================================

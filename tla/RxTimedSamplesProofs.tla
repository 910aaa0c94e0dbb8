------------------------ MODULE RxTimedSamplesProofs ------------------------
(***************************************************************************)
(* What holds of the command line programs for all options, slacks and     *)
(* reset times: types, captures on host time, and files that hold the      *)
(* capture that wrote them last.                                           *)
(***************************************************************************)
EXTENDS RxTimedSamples, SequenceTheorems, TLAPS

Capturing == {"tune", "lolock", "open", "issue", "recv", "close", "return"}

\* A capture that has synchronised keeps its clocks close.
ClocksClose == pc \in Capturing => offset \in Near

\* Before it opens its file, a capture has none.
NothingOpen ==
  pc \in {"create", "sync", "tune", "lolock", "open"} => outfile = "closed"

Types ==
  /\ pc \in Steps
  /\ opt \in Captures
  /\ now \in 0..MaxTime
  /\ disk \in [Files -> Seq(Int)]
  /\ outfile \in {"closed", "good", "bad"}
  /\ total \in Nat
  /\ late \in BOOLEAN
  /\ ended \in {"none", "success", "error", "crashed"}
  /\ programs \in Nat

OffsetType == offset \in Landings \cup {t - h : t \in ResetTimes, h \in 0..MaxTime}

LEMMA NearLands ==
  ASSUME NEW d \in Near
  PROVE  d \in Landings /\ d \in Int
<1>1. d = 0 + d /\ 0 \in {-Second, 0, Second} /\ d \in Int
  BY TimeAssumption DEF Near
<1> QED
  BY <1>1 DEF Landings

\* What a comparison that succeeds says about the two clocks.
LEMMA DistanceBound ==
  ASSUME NEW d \in Int, Distance(d) <= NtpSlack
  PROVE  -(NtpSlack + Blind) <= d /\ d <= NtpSlack + Blind
<1>1. Magnitude(d) \in Nat /\ -Magnitude(d) <= d /\ d <= Magnitude(d)
  BY DEF Magnitude
<1>2. CASE AbsIsInt
  <2> DEFINE m == Magnitude(d)  q == m \div Second
  <2>1. m \in Int /\ q \in Int /\ q * Second \in Int
        /\ m < q * Second + Second
    BY <1>1, TimeAssumption
  <2>2. q * Second <= NtpSlack
    BY <1>2 DEF Distance
  <2> HIDE DEF q
  <2>3. m <= NtpSlack + Second - 1
    BY <2>1, <2>2, TimeAssumption
  <2> QED
    BY <1>1, <1>2, <2>3, TimeAssumption DEF Blind
<1>3. CASE ~AbsIsInt
  BY <1>1, <1>3, TimeAssumption DEF Distance, Blind
<1> QED
  BY <1>2, <1>3

LEMMA SyncedIsNear ==
  ASSUME OffsetType, NEW d \in 0..ReadDelay, FoundSynced(d)
  PROVE  offset \in Near
<1>1. offset \in Int
  <2>1. CASE offset \in Landings
    BY <2>1, TimeAssumption DEF Landings, Near
  <2>2. CASE offset \in {t - h : t \in ResetTimes, h \in 0..MaxTime}
    BY <2>2, TimeAssumption, CaptureAssumption
  <2> QED
    BY <2>1, <2>2 DEF OffsetType
<1>2. d \in Int /\ offset - d \in Int /\ Blind \in Int
  BY <1>1, TimeAssumption DEF Blind
<1>3. -(NtpSlack + Blind) <= offset - d /\ offset - d <= NtpSlack + Blind
  BY <1>2, DistanceBound DEF FoundSynced
<1> QED
  BY <1>1, <1>2, <1>3, TimeAssumption DEF Near

\* What a turn of the receive loop does to the file.
LEMMA Received ==
  ASSUME Types, OffsetType, NEW k \in 1..Spb, RecvSamples(k)
  PROVE  \E w \in 0..k :
           /\ outfile = "good" \/ w = 0
           /\ disk' = [disk EXCEPT ![opt.file] = @ \o [i \in 1..w |-> offset]]
           /\ outfile' = IF outfile = "good" /\ w < k THEN "bad" ELSE outfile
<1>1. PICK w \in IF outfile = "good" THEN 0..k ELSE {0} :
        /\ disk' = [disk EXCEPT ![opt.file] = @ \o [i \in 1..w |-> offset]]
        /\ outfile' = IF outfile = "good" /\ w < k THEN "bad" ELSE outfile
  BY DEF RecvSamples
<1>2. w \in 0..k /\ (outfile = "good" \/ w = 0)
  BY CaptureAssumption
<1> QED
  BY <1>1, <1>2

LEMMA Joined ==
  ASSUME NEW s \in Seq(Int), NEW t \in Seq(Int)
  PROVE  s \o t \in Seq(Int) /\ Len(s \o t) = Len(s) + Len(t)
OBVIOUS

LEMMA OptionFile == ASSUME Types PROVE opt.file \in Files /\ opt.n \in Nat
BY CaptureAssumption DEF Types, CaptureType

-----------------------------------------------------------------------------
(* The clocks *)

LEMMA NextClocks ==
  ASSUME OffsetType, ClocksClose, now \in 0..MaxTime, [Next]_vars
  PROVE  OffsetType' /\ ClocksClose'
<1> USE DEF Goto, clocks, output, Quiet
<1>1. CASE SyncDone
  BY <1>1, SyncedIsNear DEF SyncDone, OffsetType, ClocksClose
<1>2. CASE SyncAttempt
  BY <1>2 DEF SyncAttempt, End, OffsetType, ClocksClose, Capturing
<1>3. CASE ResetTime
  BY <1>3 DEF ResetTime, End, OffsetType, ClocksClose, Capturing
<1>4. CASE Drift
  BY <1>4, NearLands DEF Drift, OffsetType, ClocksClose
<1>5. CASE Tune \/ CheckLoLock \/ OpenFile \/ NoFile \/ IssueStream
           \/ CloseFile \/ RecvTimeout \/ RecvLateCommand \/ RecvComplete
           \/ RecvOverflow \/ \E k \in 1..Spb : RecvSamples(k)
  BY <1>5 DEF Tune, CheckLoLock, OpenFile, NoFile, IssueStream, CloseFile,
    RecvTimeout, RecvLateCommand, RecvComplete, RecvOverflow, RecvSamples,
    End, OffsetType, ClocksClose, Capturing
<1>6. CASE ReadTime \/ CreateDevice \/ ReturnFromRequest \/ Throw \/ Tick
           \/ StartTool \/ StartCapture \/ UNCHANGED vars
  BY <1>6 DEF ReadTime, CreateDevice, ReturnFromRequest, Throw, Tick,
    StartTool, StartCapture, Start, End, vars, OffsetType, ClocksClose,
    Capturing
<1> QED
  BY <1>1, <1>2, <1>3, <1>4, <1>5, <1>6 DEF Next, Program, User, Device

-----------------------------------------------------------------------------
(* The other variables *)

LEMMA NextTypes ==
  ASSUME Types, OffsetType, offset \in Int, [Next]_vars
  PROVE  Types'
<1> USE DEF Goto, clocks, output, Quiet, Steps
<1>1. CASE StartTool \/ StartCapture
  BY <1>1 DEF StartTool, StartCapture, Start, Types
<1>2. CASE ReadTime \/ ResetTime \/ SyncAttempt \/ ReturnFromRequest \/ Throw
           \/ Tune
  BY <1>2 DEF ReadTime, ResetTime, SyncAttempt, ReturnFromRequest, Throw, Tune,
    End, Types
<1>3. CASE CreateDevice \/ SyncDone \/ CheckLoLock \/ CloseFile \/ NoFile
           \/ RecvTimeout \/ RecvLateCommand \/ RecvComplete \/ RecvOverflow
  BY <1>3 DEF CreateDevice, SyncDone, CheckLoLock, CloseFile, NoFile,
    RecvTimeout, RecvLateCommand, RecvComplete, RecvOverflow, Types
<1>4. CASE IssueStream
  BY <1>4 DEF IssueStream, Types
<1>5. CASE OpenFile
  <2>1. disk' = [disk EXCEPT ![opt.file] = <<>>] /\ <<>> \in Seq(Int)
    BY <1>5 DEF OpenFile
  <2>2. disk' \in [Files -> Seq(Int)]
    BY <2>1 DEF Types
  <2> QED
    BY <1>5, <2>2 DEF OpenFile, Types
<1>6. ASSUME NEW k \in 1..Spb, RecvSamples(k)
      PROVE  Types'
  <2>1. PICK w \in 0..k :
          /\ outfile = "good" \/ w = 0
          /\ disk' = [disk EXCEPT ![opt.file] = @ \o [i \in 1..w |-> offset]]
          /\ outfile' = IF outfile = "good" /\ w < k THEN "bad" ELSE outfile
    BY <1>6, Received
  <2>2. [i \in 1..w |-> offset] \in Seq(Int)
    <3>1. w \in Nat
      BY CaptureAssumption
    <3> QED
      BY <3>1
  <2>3. disk' \in [Files -> Seq(Int)]
    BY <2>1, <2>2, OptionFile DEF Types
  <2>4. total' \in Nat
    <3>1. total' = total + k /\ total \in Nat
      BY <1>6 DEF RecvSamples, Types
    <3> QED
      BY <3>1, CaptureAssumption
  <2>5. outfile' \in {"closed", "good", "bad"}
    BY <2>1 DEF Types
  <2>6. /\ pc' = "recv" /\ opt' = opt /\ now' = now /\ late' = late
        /\ ended' = ended /\ programs' = programs
    BY <1>6 DEF RecvSamples
  <2> QED
    BY <2>3, <2>4, <2>5, <2>6 DEF Types
<1>7. CASE Tick \/ Drift \/ UNCHANGED vars
  BY <1>7, TimeAssumption DEF Tick, Drift, vars, Types
<1> QED
  BY <1>1, <1>2, <1>3, <1>5, <1>6, <1>7, <1>4
  DEF Next, Program, User, Device

LEMMA OffsetIsInt == ASSUME OffsetType PROVE offset \in Int
<1>1. CASE offset \in Landings
  BY <1>1, TimeAssumption DEF Landings, Near
<1>2. CASE offset \in {t - h : t \in ResetTimes, h \in 0..MaxTime}
  BY <1>2, TimeAssumption, CaptureAssumption
<1> QED
  BY <1>1, <1>2 DEF OffsetType

Inv == Types /\ OffsetType /\ ClocksClose

LEMMA InitInv == Init => Inv
<1> SUFFICES ASSUME Init PROVE Inv
  OBVIOUS
<1>1. opt \in Captures
  BY CaptureAssumption DEF Init
<1>2. disk \in [Files -> Seq(Int)]
  <2>1. <<>> \in Seq(Int)
    OBVIOUS
  <2> QED
    BY <2>1 DEF Init
<1>3. now \in 0..MaxTime
  BY TimeAssumption DEF Init
<1>4. Types
  BY <1>1, <1>2, <1>3 DEF Init, Types, Steps
<1> QED
  BY <1>4 DEF Init, Inv, OffsetType, ClocksClose, Capturing

LEMMA NextInv == Inv /\ [Next]_vars => Inv'
BY NextClocks, NextTypes, OffsetIsInt DEF Inv, Types

LEMMA AlwaysInv == Spec => []Inv
BY InitInv, NextInv, PTL DEF Spec

\* The variables keep their types, and the device clock is where a
\* synchronisation or a reset left it, give or take the drift.
THEOREM TypeCorrect == Spec => []TypeOK
<1>1. Inv => TypeOK
  BY DEF Inv, Types, OffsetType, TypeOK
<1> QED
  BY <1>1, AlwaysInv, PTL

-----------------------------------------------------------------------------
(* Captures are taken on host time *)

LEMMA NextOnHostTime ==
  ASSUME Inv, TakenOnHostTime, [Next]_vars
  PROVE  TakenOnHostTime'
<1>1. CASE disk' = disk
  BY <1>1 DEF TakenOnHostTime
<1>2. CASE OpenFile
  <2>1. disk' = [disk EXCEPT ![opt.file] = <<>>]
    BY <1>2 DEF OpenFile
  <2>2. ASSUME NEW f \in Files, NEW i \in DOMAIN disk'[f]
        PROVE  disk'[f][i] \in Near
    <3>1. CASE f = opt.file
      BY <2>1, <2>2, <3>1 DEF Inv, Types
    <3>2. CASE f # opt.file
      BY <2>1, <2>2, <3>2 DEF Inv, Types, TakenOnHostTime
    <3> QED
      BY <3>1, <3>2
  <2> QED
    BY <2>2 DEF TakenOnHostTime
<1>3. ASSUME NEW k \in 1..Spb, RecvSamples(k)
      PROVE  TakenOnHostTime'
  <2>1. PICK w \in 0..k :
          disk' = [disk EXCEPT ![opt.file] = @ \o [i \in 1..w |-> offset]]
    BY <1>3, Received DEF Inv
  <2>2. offset \in Near
    BY <1>3 DEF RecvSamples, Goto, Inv, ClocksClose, Capturing
  <2>3. w \in Nat
    BY CaptureAssumption
  <2>4. ASSUME NEW f \in Files, NEW i \in DOMAIN disk'[f]
        PROVE  disk'[f][i] \in Near
    <3>1. CASE f = opt.file
      <4> DEFINE s == disk[f]
                 t == [j \in 1..w |-> offset]
      <4>1. s \in Seq(Int) /\ t \in Seq(Int) /\ Len(t) = w
        BY <2>3, OffsetIsInt DEF Inv, Types
      <4>2. disk'[f] = s \o t
        BY <2>1, <3>1 DEF Inv, Types
      <4>3. i \in 1..(Len(s) + Len(t))
        BY <2>4, <4>1, <4>2
      <4>4. CASE i <= Len(s)
        <5>1. (s \o t)[i] = s[i] /\ i \in DOMAIN s
          BY <4>1, <4>3, <4>4
        <5> QED
          BY <4>2, <5>1 DEF TakenOnHostTime
      <4>5. CASE i > Len(s)
        <5>1. (s \o t)[i] = t[i - Len(s)] /\ i - Len(s) \in 1..w
          BY <4>1, <4>3, <4>5
        <5> QED
          BY <2>2, <4>2, <5>1
      <4> QED
        BY <4>1, <4>3, <4>4, <4>5
    <3>2. CASE f # opt.file
      BY <2>1, <2>4, <3>2 DEF Inv, Types, TakenOnHostTime
    <3> QED
      BY <3>1, <3>2
  <2> QED
    BY <2>4 DEF TakenOnHostTime
<1>4. [Next]_vars /\ ~OpenFile /\ ~(\E k \in 1..Spb : RecvSamples(k))
        => disk' = disk
  BY DEF Next, Program, User, Device, vars, output, Quiet, StartTool,
    StartCapture, Start, ReadTime, ResetTime, CreateDevice, SyncDone,
    SyncAttempt, Tune, CheckLoLock, NoFile, IssueStream, RecvTimeout,
    RecvLateCommand, RecvOverflow, RecvComplete, CloseFile, ReturnFromRequest,
    Throw, Tick, Drift
<1> QED
  BY <1>1, <1>2, <1>3, <1>4

\* Every sample was taken with the device clock near the host's, whatever
\* reset_usrp_time did before.
THEOREM CapturedOnHostTime == Spec => []TakenOnHostTime
<1>1. Init => TakenOnHostTime
  BY DEF Init, TakenOnHostTime
<1>2. Inv /\ TakenOnHostTime /\ [Next]_vars => TakenOnHostTime'
  BY NextOnHostTime
<1> QED
  BY <1>1, <1>2, AlwaysInv, PTL DEF Spec

-----------------------------------------------------------------------------
(* A file holds the capture that wrote it last *)

LEMMA NextFile ==
  ASSUME Inv, NothingOpen, FileIsThisCapture, [Next]_vars
  PROVE  NothingOpen' /\ FileIsThisCapture'
<1> USE DEF Goto, clocks, output, Quiet, NothingOpen
<1>1. CASE StartCapture
  BY <1>1 DEF StartCapture, FileIsThisCapture
<1>2. CASE StartTool
  BY <1>2 DEF StartTool, Start, FileIsThisCapture
<1>3. CASE OpenFile
  <2>1. disk'[opt'.file] = <<>> /\ total' = 0
    BY <1>3, OptionFile DEF OpenFile, Inv, Types
  <2> QED
    BY <1>3, <2>1 DEF OpenFile, FileIsThisCapture
<1>4. CASE NoFile
  BY <1>4 DEF NoFile, FileIsThisCapture
<1>5. ASSUME NEW k \in 1..Spb, RecvSamples(k)
      PROVE  NothingOpen' /\ FileIsThisCapture'
  <2>1. PICK w \in 0..k :
          /\ outfile = "good" \/ w = 0
          /\ disk' = [disk EXCEPT ![opt.file] = @ \o [i \in 1..w |-> offset]]
          /\ outfile' = IF outfile = "good" /\ w < k THEN "bad" ELSE outfile
    BY <1>5, Received DEF Inv
  <2>2. pc' = "recv" /\ total' = total + k /\ opt' = opt
    BY <1>5 DEF RecvSamples
  <2>3. ASSUME outfile' = "good"
        PROVE  Len(disk'[opt.file]) = total + k
    <3>1. outfile = "good" /\ ~(w < k)
      BY <2>1, <2>3
    <3>2. w = k /\ w \in Nat
      BY <3>1, CaptureAssumption
    <3> DEFINE t == [i \in 1..w |-> offset]
    <3>3. t \in Seq(Int) /\ Len(t) = w
      BY <3>2, OffsetIsInt DEF Inv
    <3>4. disk[opt.file] \in Seq(Int) /\ Len(disk[opt.file]) = total
      BY <3>1, OptionFile DEF Inv, Types, FileIsThisCapture
    <3>5. disk'[opt.file] = disk[opt.file] \o t
      BY <2>1, OptionFile DEF Inv, Types
    <3> HIDE DEF t
    <3>6. Len(disk[opt.file] \o t) = Len(disk[opt.file]) + Len(t)
      BY <3>3, <3>4, Joined
    <3> QED
      BY <3>2, <3>3, <3>4, <3>5, <3>6
  <2> QED
    BY <2>2, <2>3 DEF FileIsThisCapture
<1>6. CASE ReadTime \/ ResetTime \/ SyncAttempt \/ Tune \/ ReturnFromRequest
           \/ Throw
  BY <1>6 DEF ReadTime, ResetTime, SyncAttempt, Tune, ReturnFromRequest, Throw,
    End, FileIsThisCapture
<1>7. CASE CreateDevice \/ SyncDone \/ CheckLoLock \/ IssueStream \/ CloseFile
           \/ RecvTimeout \/ RecvLateCommand \/ RecvComplete \/ RecvOverflow
  BY <1>7 DEF CreateDevice, SyncDone, CheckLoLock, IssueStream, CloseFile,
    RecvTimeout, RecvLateCommand, RecvComplete, RecvOverflow, FileIsThisCapture
<1>8. CASE Tick \/ Drift \/ UNCHANGED vars
  BY <1>8 DEF Tick, Drift, vars, FileIsThisCapture
<1> QED
  BY <1>1, <1>2, <1>3, <1>4, <1>5, <1>6, <1>7, <1>8
  DEF Next, Program, User, Device

\* A file that was opened, and written without a failure, holds exactly the
\* samples of the last capture.
THEOREM FilesHoldLastCapture == Spec => []FileIsThisCapture
<1>1. Init => NothingOpen /\ FileIsThisCapture
  BY DEF Init, NothingOpen, FileIsThisCapture
<1>2. Inv /\ NothingOpen /\ FileIsThisCapture /\ [Next]_vars
        => NothingOpen' /\ FileIsThisCapture'
  BY NextFile
<1> QED
  BY <1>1, <1>2, AlwaysInv, PTL DEF Spec
=============================================================================

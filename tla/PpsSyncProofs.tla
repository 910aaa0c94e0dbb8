--------------------------- MODULE PpsSyncProofs ----------------------------
(***************************************************************************)
(* What an attempt to set the device's clock leaves behind, and what the   *)
(* end of sync_usrp_ntp() promises, for any second, slack, delay and       *)
(* distance between the host and the PPS.                                  *)
(***************************************************************************)
EXTENDS PpsSync, TLAPS

-----------------------------------------------------------------------------
(* The invariant *)

\* A step with nothing to wait for is at most Delay late.
OnTime ==
  /\ pc # "edge" => now <= due + Delay
  /\ pc \in {"compare", "call", "edge", "seen"} => due <= now
  /\ pc = "asked" => due - Second <= now

\* The device was read when the step before the comparison was taken.
ReadingFits == pc = "compare" => tusrp = due + offset

\* No edge since t, after which the thread has been waiting for one.
Quiet(t) == \A u \in t + 1..now : ~Edge(u)

\* e is the edge set_time_unknown_pps() sees after t_now.
SeenEdge(e) == e \in Int /\ Edge(e) /\ tNow < e /\ e <= tNow + Delay + Second

WayToEdge ==
  /\ pc = "call" => tNow = due
  /\ pc = "edge" => tNow <= due /\ due <= tNow + Delay /\ Quiet(due)
  /\ pc = "seen" => SeenEdge(due)

\* The time to take over waits for the edge after that one.
WayToLatch ==
  pending # NoTime =>
    /\ pc = "asked" /\ pending = NextPps
    /\ Quiet(due - Second)
    /\ \E e \in Int :
         SeenEdge(e) /\ e <= due - Second /\ due - Second <= e + Delay

Inv ==
  /\ TypeOK /\ OnTime /\ ReadingFits /\ WayToEdge /\ WayToLatch
  /\ AttemptOutcome /\ DoneIsClose

-----------------------------------------------------------------------------
(* Seconds and edges *)

LEMMA DivFacts ==
  ASSUME NEW a \in Int
  PROVE  /\ a % Second \in 0..Second - 1 /\ a \div Second \in Int
         /\ a = Second * (a \div Second) + (a % Second)
BY TimeAssumption

LEMMA Multiple ==
  ASSUME NEW k \in Int
  PROVE  (Second * k) % Second = 0 /\ Second * k \in Int
BY TimeAssumption

LEMMA NextSecFacts ==
  ASSUME NEW t \in Nat
  PROVE  /\ NextSec(t) \in Nat /\ t < NextSec(t) /\ NextSec(t) <= t + Second
         /\ \E k \in Int : NextSec(t) = Second * k
<1>1. NextSec(t) = Second * ((t \div Second) + 1)
  BY DivFacts, TimeAssumption DEF NextSec
<1> DEFINE q == t \div Second
<1>2. /\ q \in Int /\ Second * q \in Int /\ Second * (q + 1) = Second * q + Second
      /\ t = Second * q + (t % Second) /\ t % Second \in 0..Second - 1
  BY DivFacts, TimeAssumption
<1>3. NextSec(t) \in Nat /\ t < NextSec(t) /\ NextSec(t) <= t + Second
  BY <1>1, <1>2, TimeAssumption
<1>4. q + 1 \in Int /\ NextSec(t) = Second * (q + 1)
  BY <1>1, <1>2
<1> QED
  BY <1>3, <1>4

LEMMA EdgeFacts ==
  ASSUME NEW t \in Int, phase \in Int
  PROVE  Edge(t) <=> \E k \in Int : t = phase + Second * k
<1>1. ASSUME Edge(t) PROVE \E k \in Int : t = phase + Second * k
  <2> DEFINE q == (t - phase) \div Second
  <2>1. q \in Int /\ t - phase = Second * q + ((t - phase) % Second)
    BY DivFacts
  <2>2. (t - phase) % Second = 0
    BY <1>1 DEF Edge
  <2>3. Second * q \in Int
    BY <2>1, TimeAssumption
  <2> HIDE DEF q
  <2>4. t = phase + Second * q
    BY <2>1, <2>2, <2>3
  <2> QED
    BY <2>1, <2>4
<1>2. ASSUME NEW k \in Int, t = phase + Second * k PROVE Edge(t)
  <2>1. t - phase = Second * k
    BY <1>2, Multiple
  <2> QED
    BY <2>1, Multiple DEF Edge
<1> QED
  BY <1>1, <1>2

\* An edge comes in every second.
LEMMA EdgeWithin ==
  ASSUME NEW a \in Int, phase \in Int
  PROVE  \E u \in a + 1..a + Second : Edge(u)
<1> DEFINE q == (a - phase) \div Second
           u == phase + Second * (q + 1)
<1>1. q \in Int /\ a - phase = Second * q + ((a - phase) % Second)
      /\ (a - phase) % Second \in 0..Second - 1
  BY DivFacts
<1>2. Second * (q + 1) = Second * q + Second /\ Second * q \in Int
  BY <1>1, TimeAssumption
<1>3. u \in a + 1..a + Second
  BY <1>1, <1>2, TimeAssumption
<1>4. Edge(u)
  BY <1>1, <1>3, EdgeFacts
<1> QED
  BY <1>3, <1>4

\* The next edge is a second later, and not before.
LEMMA EdgeStep ==
  ASSUME NEW e \in Int, phase \in Int, Edge(e)
  PROVE  /\ Edge(e + Second)
         /\ \A u \in Int : Edge(u) /\ e < u => e + Second <= u
<1>1. PICK k \in Int : e = phase + Second * k
  BY EdgeFacts
<1>2. Edge(e + Second)
  <2>1. e + Second = phase + Second * (k + 1)
    BY <1>1, TimeAssumption
  <2> QED
    BY <2>1, EdgeFacts, TimeAssumption
<1>3. ASSUME NEW u \in Int, Edge(u), e < u PROVE e + Second <= u
  <2>1. PICK j \in Int : u = phase + Second * j
    BY <1>3, EdgeFacts
  <2>2. j - k > 0
    <3>1. Second * j > Second * k
      BY <1>1, <1>3, <2>1, Multiple
    <3> QED
      BY <3>1, TimeAssumption
  <2>3. Second * j >= Second * k + Second
    BY <2>2, TimeAssumption
  <2>4. Second * j \in Int /\ Second * k \in Int
    BY TimeAssumption
  <2> QED
    BY <1>1, <2>1, <2>3, <2>4, TimeAssumption
<1> QED
  BY <1>2, <1>3

\* The time to set is that of the edge it takes effect at, up to the phase and
\* a second: the edge that is seen comes at most a second and the delays after
\* t_now, and on the wrong side of the host's second at worst.
LEMMA LatchLands ==
  ASSUME NEW e \in Int, TypeOK, SeenEdge(e)
  PROVE  NextPps - (e + Second) + phase \in {-Second, 0, Second}
<1>1. PICK k \in Int : e = phase + Second * k
  BY EdgeFacts DEF SeenEdge, TypeOK
<1>2. PICK j \in Int : NextSec(tNow) = Second * j
  BY NextSecFacts DEF TypeOK
<1>3. NextPps - (e + Second) + phase = Second * (j - k)
  BY <1>1, <1>2, Multiple, TimeAssumption DEF NextPps, TypeOK
<1>4. tNow < Second * j /\ Second * j <= tNow + Second
  BY <1>2, NextSecFacts DEF TypeOK
<1>5. /\ Second * k > tNow - MaxPhase
      /\ Second * k <= tNow + Delay + Second + MaxPhase
  BY <1>1, Multiple, TimeAssumption DEF SeenEdge, TypeOK
<1>6. Second * (j - k) = Second * j - Second * k /\ Second * j \in Int /\ Second * k \in Int
  BY TimeAssumption
<1>7. /\ Second * (j - k) < 2 * Second
      /\ Second * (j - k) > -2 * Second
  BY <1>4, <1>5, <1>6, TimeAssumption, HostAssumption DEF TypeOK
<1>8. j - k < 2 /\ j - k > -2
  BY <1>7, TimeAssumption
<1>9. j - k \in {-1, 0, 1}
  BY <1>8
<1> QED
  BY <1>3, <1>9, TimeAssumption

-----------------------------------------------------------------------------
(* The invariant holds *)

LEMMA InitInv == Init => Inv
BY TimeAssumption
DEF Init, Inv, TypeOK, OnTime, ReadingFits, WayToEdge, WayToLatch, AttemptOutcome,
    DoneIsClose, NoTime

\* What a comparison that succeeds says about the two clocks.
LEMMA DistanceBound ==
  ASSUME NEW d \in Int, absIsInt \in BOOLEAN, Distance(d) <= NtpSlack
  PROVE  -(NtpSlack + Blind) <= d /\ d <= NtpSlack + Blind
<1>1. Magnitude(d) \in Nat /\ -Magnitude(d) <= d /\ d <= Magnitude(d)
  BY DEF Magnitude
<1>2. CASE absIsInt
  <2>1. (Magnitude(d) \div Second) * Second <= NtpSlack
    BY <1>2 DEF Distance
  <2>2. Magnitude(d) \in Int
    BY <1>1
  <2>3. /\ Magnitude(d) = Second * (Magnitude(d) \div Second) + (Magnitude(d) % Second)
        /\ Magnitude(d) % Second \in 0..Second - 1 /\ Magnitude(d) \div Second \in Int
    BY <2>2, DivFacts
  <2>4. Magnitude(d) <= NtpSlack + Second - 1
    BY <2>1, <2>3, TimeAssumption
  <2> QED
    BY <1>1, <1>2, <2>4, TimeAssumption DEF Blind
<1>3. CASE ~absIsInt
  BY <1>1, <1>3, TimeAssumption DEF Distance, Blind
<1> QED
  BY <1>2, <1>3

\* An edge comes in the second that set_time_unknown_pps() sleeps: what was
\* asked for has been done when it returns.
LEMMA RestSettled == Inv /\ RestAfter => pending = NoTime
<1> SUFFICES ASSUME Inv, RestAfter, pending # NoTime PROVE FALSE
  OBVIOUS
<1> DEFINE d == due - Second
<1>1. Quiet(d) /\ due <= now
  BY DEF Inv, RestAfter, WayToLatch, At
<1>2. d \in Int /\ phase \in Int
  BY TimeAssumption DEF Inv, TypeOK
<1> HIDE DEF d
<1>3. PICK u \in d + 1..d + Second : Edge(u)
  BY <1>2, EdgeWithin
<1> QED
  BY <1>1, <1>3, TimeAssumption DEF Quiet, Inv, TypeOK, d

LEMMA ThreadInv == Inv /\ Thread => Inv'
<1> SUFFICES ASSUME Inv, Thread PROVE Inv'
  OBVIOUS
<1> USE TimeAssumption, HostAssumption
    DEF Inv, setting, device, At, Continue
<1>1. CASE ReadDevice
  BY <1>1
  DEF ReadDevice, TypeOK, OnTime, ReadingFits, WayToEdge, WayToLatch,
      AttemptOutcome, DoneIsClose
<1>2. CASE Compare
  <2>1. Distance(tusrp - now) <= NtpSlack =>
          -(NtpSlack + Blind) <= offset /\ offset <= NtpSlack + Blind + Delay
    <3> SUFFICES ASSUME Distance(tusrp - now) <= NtpSlack
        PROVE -(NtpSlack + Blind) <= offset /\ offset <= NtpSlack + Blind + Delay
      OBVIOUS
    <3>1. tusrp - now \in Int /\ tusrp = due + offset
          /\ due <= now /\ now <= due + Delay
      BY <1>2 DEF Compare, TypeOK, ReadingFits, OnTime
    <3>2. -(NtpSlack + Blind) <= tusrp - now /\ tusrp - now <= NtpSlack + Blind
      BY <3>1, DistanceBound DEF TypeOK
    <3> QED
      BY <3>1, <3>2 DEF TypeOK, Blind
  <2>2. DoneIsClose'
    BY <1>2, <2>1 DEF Compare, DoneIsClose, Blind
  <2> QED
    BY <1>2, <2>2
    DEF Compare, TypeOK, OnTime, ReadingFits, WayToEdge, WayToLatch, AttemptOutcome
<1>3. CASE ReadClock
  <2>1. NextSec(now) \in Nat /\ now < NextSec(now)
    BY NextSecFacts DEF TypeOK
  <2> QED
    BY <1>3, <2>1
    DEF ReadClock, TypeOK, OnTime, ReadingFits, WayToEdge, WayToLatch,
        AttemptOutcome, DoneIsClose
<1>4. CASE CallSetTime
  BY <1>4
  DEF CallSetTime, TypeOK, OnTime, ReadingFits, WayToEdge, WayToLatch, Quiet,
      AttemptOutcome, DoneIsClose
<1>5. CASE AskDevice
  <2>1. NextPps \in Nat /\ NextPps' = NextPps
    BY <1>5, NextSecFacts DEF AskDevice, NextPps, NextSec, TypeOK
  <2>2. WayToLatch'
    <3>1. due <= now /\ now <= due + Delay /\ due' = now + Second
      BY <1>5 DEF AskDevice, OnTime
    <3>2. SeenEdge(due) /\ now' = now /\ tNow' = tNow /\ phase' = phase
      BY <1>5 DEF AskDevice, WayToEdge
    <3>3. due \in Int /\ SeenEdge(due) /\ due <= due' - Second /\ due' - Second <= due + Delay
      BY <3>1, <3>2 DEF TypeOK
    <3>4. \E e \in Int :
            (SeenEdge(e))' /\ e <= due' - Second /\ due' - Second <= e + Delay
      BY <3>2, <3>3 DEF SeenEdge, Edge
    <3>5. (Quiet(due - Second))'
      BY <3>1, <3>2 DEF Quiet, TypeOK
    <3> QED
      BY <1>5, <2>1, <3>4, <3>5 DEF AskDevice, WayToLatch
  <2> QED
    BY <1>5, <2>1, <2>2
    DEF AskDevice, TypeOK, OnTime, ReadingFits, WayToEdge, AttemptOutcome,
        DoneIsClose, NoTime
<1>6. CASE RestAfter
  <2>1. pending = NoTime
    BY <1>6, RestSettled
  <2> QED
    BY <1>6, <2>1
    DEF RestAfter, TypeOK, OnTime, ReadingFits, WayToEdge, WayToLatch,
        AttemptOutcome, DoneIsClose
<1> QED
  BY <1>1, <1>2, <1>3, <1>4, <1>5, <1>6 DEF Thread

\* An edge that comes when a time is pending is the one after the edge seen.
LEMMA LatchAfter ==
  ASSUME Inv, pending # NoTime, Edge(now + 1),
         NEW e \in Int, Edge(e), e <= due - Second, due - Second <= e + Delay
  PROVE  now + 1 = e + Second
<1> USE TimeAssumption, HostAssumption DEF Inv
<1> DEFINE d == due - Second
<1>1. Quiet(d) /\ d <= now
  BY DEF WayToLatch, OnTime
<1>2. d \in Int /\ now \in Int /\ phase \in Int /\ MaxPhase \in Nat
      /\ e <= d /\ d <= e + Delay
  BY DEF TypeOK
<1> HIDE DEF d
<1>3. Edge(e + Second) /\ e + Second <= now + 1
  <2>1. now + 1 \in Int /\ e < now + 1
    BY <1>1, <1>2
  <2> QED
    BY <1>2, <2>1, EdgeStep
<1>4. d < e + Second
  BY <1>2
<1>5. ~(e + Second <= now)
  BY <1>1, <1>2, <1>3, <1>4 DEF Quiet
<1> QED
  BY <1>2, <1>3, <1>5

LEMMA LatchTime ==
  ASSUME Inv, pending # NoTime, Edge(now + 1)
  PROVE  \E e \in Int : SeenEdge(e) /\ now + 1 = e + Second
<1>1. PICK e \in Int : SeenEdge(e) /\ e <= due - Second /\ due - Second <= e + Delay
  BY DEF Inv, WayToLatch
<1>2. now + 1 = e + Second
  BY <1>1, LatchAfter DEF SeenEdge
<1> QED
  BY <1>1, <1>2

LEMMA TickInv == Inv /\ Tick => Inv'
<1> SUFFICES ASSUME Inv, Tick PROVE Inv'
  OBVIOUS
<1> USE TimeAssumption, HostAssumption DEF Inv, setting, device
<1>1. CASE ~Edge(now + 1)
  <2>1. /\ now' = now + 1 /\ UNCHANGED <<setting, pc, due, device, tusrp, tNow, attempts>>
        /\ pc # "done" /\ (pc = "edge" \/ now < due + Delay)
    BY <1>1 DEF Tick
  <2>2. \A t \in Int : Quiet(t) => Quiet(t)'
    BY <1>1, <2>1 DEF Quiet, Edge, TypeOK
  <2>3. WayToLatch'
    <3>1. ASSUME pending # NoTime PROVE (Quiet(due - Second))'
      <4>1. due - Second \in Int /\ Quiet(due - Second) /\ due' = due
        BY <2>1, <3>1 DEF WayToLatch, TypeOK
      <4> QED
        BY <2>1, <2>2, <4>1 DEF Quiet, Edge
    <3> QED
      BY <2>1, <3>1 DEF WayToLatch, SeenEdge, Edge, NextPps, NextSec
  <2>4. WayToEdge'
    <3>1. ASSUME pc = "edge" PROVE (Quiet(due))'
      <4>1. due \in Int /\ Quiet(due) /\ due' = due
        BY <2>1, <3>1 DEF WayToEdge, TypeOK
      <4> QED
        BY <2>1, <2>2, <4>1 DEF Quiet, Edge
    <3> QED
      BY <2>1, <3>1 DEF WayToEdge, SeenEdge, Edge
  <2> QED
    BY <2>1, <2>3, <2>4
    DEF TypeOK, OnTime, ReadingFits, AttemptOutcome, DoneIsClose, Blind
<1>2. CASE Edge(now + 1)
  <2>1. /\ now' = now + 1 /\ UNCHANGED <<setting, tusrp, tNow, attempts>>
        /\ pc # "done" /\ (pc = "edge" \/ now < due + Delay)
        /\ Latch(now + 1) /\ Notice(now + 1)
    BY <1>2 DEF Tick
  <2>2. pending' = NoTime /\ WayToLatch'
    BY <2>1 DEF Latch, WayToLatch
  <2>3. CASE pending # NoTime
    <3>1. pc = "asked" /\ pending = NextPps /\ UNCHANGED <<pc, due>>
      BY <2>1, <2>3 DEF WayToLatch, Notice
    <3>2. PICK e \in Int : SeenEdge(e) /\ now + 1 = e + Second
      BY <1>2, <2>3, LatchTime
    <3>3. offset' = NextPps - (e + Second) /\ phase' = phase
      BY <2>1, <2>3, <3>1, <3>2 DEF Latch
    <3>4. offset' + phase' \in {-Second, 0, Second}
      BY <3>2, <3>3, LatchLands
    <3>5. offset' \in Int
      BY <2>1, <2>3 DEF Latch, TypeOK, NoTime
    <3>6. TypeOK'
      BY <2>1, <2>2, <3>1, <3>5 DEF TypeOK
    <3>7. OnTime'
      BY <2>1, <3>1 DEF OnTime, TypeOK
    <3>8. pc' = "asked"
      BY <3>1
    <3>9. ReadingFits' /\ WayToEdge' /\ DoneIsClose'
      BY <3>8 DEF ReadingFits, WayToEdge, DoneIsClose
    <3>10. AttemptOutcome'
      BY <3>4 DEF AttemptOutcome
    <3> QED
      BY <2>2, <3>6, <3>7, <3>9, <3>10
  <2>4. CASE pending = NoTime
    <3>1. offset' = offset
      BY <2>1, <2>4 DEF Latch
    <3>2. CASE pc = "edge"
      <4>1. pc' = "seen" /\ due' = now + 1
        BY <2>1, <3>2 DEF Notice
      <4>2. now + 1 <= due + Second
        <5>1. due \in Int /\ phase \in Int
          BY DEF TypeOK
        <5>2. PICK u \in due + 1..due + Second : Edge(u)
          BY <5>1, EdgeWithin
        <5> QED
          BY <3>2, <5>1, <5>2 DEF WayToEdge, Quiet, TypeOK
      <4>3. SeenEdge(now + 1)
        BY <1>2, <3>2, <4>2 DEF WayToEdge, SeenEdge, OnTime, TypeOK
      <4>4. WayToEdge'
        BY <2>1, <4>1, <4>3 DEF WayToEdge, SeenEdge, Edge
      <4> QED
        BY <2>1, <2>2, <2>4, <3>1, <4>1, <4>4
        DEF TypeOK, OnTime, ReadingFits, AttemptOutcome, DoneIsClose
    <3>3. CASE pc # "edge"
      BY <2>1, <2>2, <2>4, <3>1, <3>3
      DEF Notice, TypeOK, OnTime, ReadingFits, WayToEdge, SeenEdge, Edge,
          AttemptOutcome, DoneIsClose
    <3> QED
      BY <3>2, <3>3
  <2> QED
    BY <2>3, <2>4
<1> QED
  BY <1>1, <1>2

LEMMA StutterInv == Inv /\ UNCHANGED vars => Inv'
BY DEF Inv, vars, setting, device, TypeOK, OnTime, ReadingFits, WayToEdge,
       WayToLatch, Quiet, SeenEdge, Edge, NextPps, NextSec, AttemptOutcome,
       DoneIsClose, Blind

LEMMA InvHolds == Spec => []Inv
<1>1. Inv /\ [Next]_vars => Inv'
  BY ThreadInv, TickInv, StutterInv DEF Next
<1> QED
  BY <1>1, InitInv, PTL DEF Spec

-----------------------------------------------------------------------------
(* The second attempt *)

\* t comes a to b ticks after an edge.
AfterEdge(t, a, b) == \E e \in Int : Edge(e) /\ e + a <= t /\ t <= e + b

\* The edge that belongs to the host second after t_now: an attempt that sees
\* this one sets the right time.
RightEdge == NextSec(tNow) + phase

\* However late the next step is, the edge it waits for is the right one.
Aimed == RightEdge - Second <= tNow /\ tNow + Delay < RightEdge

\* Where in a second the thread is after an attempt: each step adds its delay.
Paced ==
  /\ pc = "asked" => AfterEdge(due, Second, Second + Delay)
  /\ attempts > 0 =>
       /\ pc = "read" => AfterEdge(due, Rest, Rest + 2 * Delay)
       /\ pc = "compare" => AfterEdge(due, Rest, Rest + 3 * Delay)
       /\ pc = "clock" => AfterEdge(due, Rest, Rest + 4 * Delay)
       /\ pc \in {"call", "edge"} => Aimed
       /\ pc = "seen" => due = RightEdge

\* The second attempt has seen the right edge, so that its time, once it is
\* taken over, is off by the phase alone, and there is no third.
SecondLands ==
  attempts > 1 =>
    /\ attempts = 2 /\ pc \in {"asked", "read", "compare", "done"}
    /\ pending = NoTime => offset = -phase
    /\ pending # NoTime =>
         RightEdge <= due - Second /\ due - Second <= RightEdge + Delay

PacedInv == Inv /\ Paced /\ SecondLands

LEMMA DivUnique ==
  ASSUME NEW n \in Int, NEW x \in 0..Second - 1, NEW t \in Int, t = Second * n + x
  PROVE  t \div Second = n /\ t % Second = x
<1> DEFINE q == t \div Second
<1>1. /\ q \in Int /\ t % Second \in 0..Second - 1
      /\ t = Second * q + (t % Second)
  BY DivFacts
<1> HIDE DEF q
<1>2. Second * (n - q) = Second * n - Second * q /\ Second * n \in Int /\ Second * q \in Int
  BY <1>1, TimeAssumption
<1>3. Second * (n - q) < Second /\ Second * (n - q) > -Second
  BY <1>1, <1>2, TimeAssumption
<1>4. n = q
  <2>1. n - q \in Int
    BY <1>1
  <2>2. n - q = 0
    BY <1>3, <2>1, TimeAssumption
  <2> QED
    BY <1>1, <2>2
<1>5. t % Second = x
  BY <1>1, <1>2, <1>4, TimeAssumption
<1> QED
  BY <1>4, <1>5 DEF q

\* The rest, and at most five steps' delays, lead from an edge to the middle of
\* a second, where the clock is read at once and the right edge is still to come
\* when the device is asked to look for it.
LEMMA MiddleOfSecond ==
  ASSUME TypeOK, NEW t \in Nat, AfterEdge(t, Rest, Rest + 5 * Delay)
  PROVE  /\ ~Near(t)
         /\ NextSec(t) + phase - Second <= t /\ t + Delay < NextSec(t) + phase
<1>1. PICK e \in Int : Edge(e) /\ e + Rest <= t /\ t <= e + Rest + 5 * Delay
  BY TimeAssumption DEF AfterEdge
<1>2. PICK k \in Int : e = phase + Second * k
  BY <1>1, EdgeFacts DEF TypeOK
<1> DEFINE h == Rest % Second
           q == Rest \div Second
           x == t - Second * (k + q)
<1>3. h \in 0..Second - 1 /\ q \in Int /\ Rest = Second * q + h
  BY DivFacts, TimeAssumption
<1>4. Second * (k + q) = Second * k + Second * q
      /\ Second * k \in Int /\ Second * q \in Int
  BY <1>3, TimeAssumption
<1>5. /\ MaxPhase + EdgeSlack < h /\ h + MaxPhase + EdgeSlack + 5 * Delay < Second
      /\ h + 6 * Delay < Second
  BY RestAssumption
<1> HIDE DEF h, q
<1>6. x \in Int /\ phase + h <= x /\ x <= phase + h + 5 * Delay
  BY <1>1, <1>2, <1>3, <1>4, TimeAssumption DEF TypeOK
<1>7. EdgeSlack < x /\ x + EdgeSlack < Second
  BY <1>3, <1>5, <1>6, TimeAssumption DEF TypeOK
<1>8. t = Second * (k + q) + x /\ k + q \in Int
  BY <1>3, <1>4
<1>9. t \div Second = k + q /\ t % Second = x
  <2> HIDE DEF x
  <2>1. x \in 0..Second - 1
    BY <1>6, <1>7, TimeAssumption
  <2> QED
    BY <1>8, <2>1, DivUnique
<1>10. ~Near(t)
  BY <1>7, <1>9, TimeAssumption DEF Near
<1>11. NextSec(t) = Second * (k + q) + Second
  <2>1. NextSec(t) = ((k + q) + 1) * Second
    BY <1>9 DEF NextSec
  <2> QED
    BY <1>3, <2>1, TimeAssumption
<1>12. Second * (k + q) \in Int
  BY <1>4
<1> QED
  BY <1>3, <1>5, <1>6, <1>8, <1>10, <1>11, <1>12, TimeAssumption DEF TypeOK

LEMMA RightEdgeFacts ==
  ASSUME TypeOK
  PROVE  RightEdge \in Int /\ Edge(RightEdge)
<1>1. PICK j \in Int : NextSec(tNow) = Second * j
  BY NextSecFacts DEF TypeOK
<1>2. RightEdge = phase + Second * j /\ RightEdge \in Int
  BY <1>1, NextSecFacts DEF RightEdge, TypeOK
<1> QED
  BY <1>2, EdgeFacts DEF TypeOK

\* The edge that an attempt which is aimed right notices is the right one.
LEMMA RightEdgeSeen ==
  ASSUME Inv, pc = "edge", Aimed, Edge(now + 1)
  PROVE  now + 1 = RightEdge
<1>1. RightEdge \in Int /\ Edge(RightEdge)
  BY RightEdgeFacts DEF Inv
<1>2. /\ now \in Nat /\ due \in Nat /\ tNow \in Nat /\ phase \in Int
      /\ Quiet(due) /\ due <= now
      /\ tNow <= due /\ due <= tNow + Delay
  BY TimeAssumption DEF Inv, TypeOK, WayToEdge, OnTime
<1>3. due < RightEdge /\ RightEdge <= due + Second
  BY <1>1, <1>2, TimeAssumption DEF Aimed
<1>4. now + 1 <= RightEdge
  BY <1>1, <1>2, <1>3 DEF Quiet
<1>5. ~(now + 1 < RightEdge)
  <2>1. now + 1 < RightEdge => now + 1 + Second <= RightEdge
    BY <1>1, <1>2, EdgeStep
  <2> QED
    BY <1>1, <1>2, <1>3, <2>1, TimeAssumption
<1> QED
  BY <1>1, <1>2, <1>4, <1>5

\* A comparison of clocks that are off by the phase alone succeeds.
LEMMA CloseEnough ==
  ASSUME NEW d \in Int, absIsInt \in BOOLEAN, -NtpSlack <= d, d <= NtpSlack
  PROVE  Distance(d) <= NtpSlack
<1>1. Magnitude(d) \in Nat /\ Magnitude(d) <= NtpSlack
  BY TimeAssumption DEF Magnitude
<1> DEFINE n == Magnitude(d)
<1>2. /\ n = Second * (n \div Second) + (n % Second)
      /\ n % Second \in 0..Second - 1 /\ n \div Second \in Int
  BY <1>1, DivFacts
<1> HIDE DEF n
<1>3. (n \div Second) * Second <= n
  <2>1. (n \div Second) * Second = Second * (n \div Second)
    BY <1>2, TimeAssumption
  <2>2. Second * (n \div Second) \in Int
    BY <1>2, TimeAssumption
  <2> QED
    BY <1>2, <2>1, <2>2, TimeAssumption
<1>4. Second * (n \div Second) \in Int /\ (n \div Second) * Second \in Int
  BY <1>2, TimeAssumption
<1> QED
  BY <1>1, <1>3, <1>4, TimeAssumption DEF Distance, n

LEMMA PacedThread == PacedInv /\ Thread => Paced' /\ SecondLands'
<1> SUFFICES ASSUME PacedInv, Thread PROVE Paced' /\ SecondLands'
  OBVIOUS
<1> USE TimeAssumption DEF PacedInv, setting, device, At, Continue
<1>0. TypeOK /\ Inv /\ \A t \in Int : Edge(t)' <=> Edge(t)
  <2>1. phase' = phase
    BY DEF Thread, ReadDevice, Compare, ReadClock, CallSetTime, AskDevice, RestAfter
  <2> QED
    BY <2>1 DEF Inv, Edge
<1>1. CASE ReadDevice
  <2>1. due' = now /\ due <= now /\ now <= due + Delay
    BY <1>1 DEF ReadDevice, Inv, TypeOK, OnTime
  <2>2. attempts > 0 => AfterEdge(due, Rest, Rest + 2 * Delay)
    BY <1>1 DEF ReadDevice, Paced
  <2>3. attempts > 0 => AfterEdge(due, Rest, Rest + 3 * Delay)'
    BY <1>0, <2>1, <2>2 DEF AfterEdge, TypeOK
  <2> QED
    BY <1>1, <2>3
    DEF ReadDevice, Inv, WayToLatch, Paced, SecondLands, AfterEdge, Edge
<1>2. CASE Compare
  <2>1. due' = now /\ due <= now /\ now <= due + Delay
    BY <1>2 DEF Compare, Inv, TypeOK, OnTime
  <2>2. attempts > 0 => AfterEdge(due, Rest, Rest + 3 * Delay)
    BY <1>2 DEF Compare, Paced
  <2>3. attempts > 0 => AfterEdge(due, Rest, Rest + 4 * Delay)'
    BY <1>0, <2>1, <2>2 DEF AfterEdge, TypeOK
  <2>4. attempts > 1 => Distance(tusrp - now) <= NtpSlack
    <3> SUFFICES ASSUME attempts > 1 PROVE Distance(tusrp - now) <= NtpSlack
      OBVIOUS
    <3>1. pending = NoTime /\ offset = -phase /\ tusrp = due + offset
      BY <1>2 DEF Compare, Inv, WayToLatch, SecondLands, ReadingFits
    <3>2. /\ tusrp - now \in Int
          /\ -NtpSlack <= tusrp - now /\ tusrp - now <= NtpSlack
      BY <1>0, <2>1, <3>1, SlackAssumption DEF TypeOK
    <3> QED
      BY <1>0, <3>2, CloseEnough DEF TypeOK
  <2> QED
    BY <1>2, <2>3, <2>4
    DEF Compare, Inv, WayToLatch, Paced, SecondLands, AfterEdge, Edge
<1>3. CASE ReadClock
  <2>1. due <= now /\ now <= due + Delay /\ tNow' = now /\ phase' = phase
        /\ attempts' = attempts
    BY <1>3 DEF ReadClock, Inv, TypeOK, OnTime
  <2>2. ~(attempts > 1)
    BY <1>3 DEF ReadClock, SecondLands
  <2>3. CASE attempts > 0
    <3>1. AfterEdge(due, Rest, Rest + 4 * Delay)
      BY <1>3, <2>3 DEF ReadClock, Paced
    <3>2. AfterEdge(now, Rest, Rest + 5 * Delay)
      BY <2>1, <3>1 DEF AfterEdge, Inv, TypeOK
    <3>3. /\ ~Near(now)
          /\ NextSec(now) + phase - Second <= now /\ now + Delay < NextSec(now) + phase
      BY <1>0, <3>2, MiddleOfSecond DEF TypeOK
    <3>4. pc' = "call"
      BY <1>3, <3>3 DEF ReadClock
    <3>5. Aimed'
      BY <1>0, <2>1, <3>3 DEF Aimed, RightEdge, NextSec, TypeOK
    <3> QED
      BY <2>1, <2>2, <3>4, <3>5 DEF Paced, SecondLands
  <2>4. CASE ~(attempts > 0)
    BY <1>3, <2>1, <2>4 DEF ReadClock, Paced, SecondLands, Inv, TypeOK
  <2> QED
    BY <2>3, <2>4
<1>4. CASE CallSetTime
  BY <1>4 DEF CallSetTime, Paced, SecondLands, Aimed, RightEdge, NextSec
<1>5. CASE AskDevice
  <2>1. /\ due <= now /\ now <= due + Delay /\ due' = now + Second /\ pc' = "asked"
        /\ attempts' = attempts + 1 /\ UNCHANGED <<now, phase, tNow>>
        /\ pending' = NextPps /\ pc = "seen"
    BY <1>5 DEF AskDevice, Inv, TypeOK, OnTime
  <2>2. AfterEdge(due, Second, Second + Delay)'
    <3>1. Edge(due)
      BY <2>1 DEF Inv, WayToEdge, SeenEdge
    <3>2. due + Second <= now + Second /\ now + Second <= due + (Second + Delay)
      BY <2>1 DEF Inv, TypeOK
    <3> QED
      BY <1>0, <2>1, <3>1, <3>2 DEF AfterEdge, Edge, TypeOK
  <2>3. Paced'
    BY <2>1, <2>2 DEF Paced, AfterEdge, Edge
  <2>4. ~(attempts > 1)
    BY <2>1 DEF SecondLands
  <2>5. NextPps # NoTime
    BY NextSecFacts DEF NextPps, NoTime, Inv, TypeOK
  <2>6. attempts' > 1 => RightEdge' <= due' - Second /\ due' - Second <= RightEdge' + Delay
    <3> SUFFICES ASSUME attempts' > 1
                 PROVE  RightEdge' <= due' - Second /\ due' - Second <= RightEdge' + Delay
      OBVIOUS
    <3>1. attempts > 0
      BY <1>0, <2>1 DEF TypeOK
    <3>2. due = RightEdge
      BY <2>1, <3>1 DEF Paced
    <3>3. RightEdge' = RightEdge /\ due' - Second = now
      BY <1>0, <2>1 DEF RightEdge, NextSec, TypeOK
    <3> QED
      BY <1>0, <2>1, <3>2, <3>3 DEF TypeOK
  <2> QED
    BY <1>0, <2>1, <2>3, <2>4, <2>5, <2>6 DEF SecondLands, TypeOK
<1>6. CASE RestAfter
  <2>1. /\ due <= now /\ now <= due + Delay /\ due' = now + Rest /\ pc' = "read"
        /\ pc = "asked" /\ UNCHANGED <<setting, device, tNow, attempts>>
    BY <1>6 DEF RestAfter, Inv, TypeOK, OnTime
  <2>2. PICK e \in Int : Edge(e) /\ e + Second <= due /\ due <= e + (Second + Delay)
    BY <2>1 DEF Paced, AfterEdge
  <2>3. Edge(e + Second) /\ e + Second \in Int
    BY <1>0, <2>2, EdgeStep DEF TypeOK
  <2>4. /\ e + Second + Rest <= due'
        /\ due' <= e + Second + (Rest + 2 * Delay)
    BY <1>0, <2>1, <2>2 DEF TypeOK
  <2>5. AfterEdge(due, Rest, Rest + 2 * Delay)'
    BY <1>0, <2>3, <2>4 DEF AfterEdge
  <2>6. pending = NoTime
    BY <1>6, RestSettled
  <2> QED
    BY <2>1, <2>5, <2>6 DEF Paced, SecondLands
<1> QED
  BY <1>1, <1>2, <1>3, <1>4, <1>5, <1>6 DEF Thread

LEMMA PacedTick == PacedInv /\ Tick => Paced' /\ SecondLands'
<1> SUFFICES ASSUME PacedInv, Tick PROVE Paced' /\ SecondLands'
  OBVIOUS
<1> USE TimeAssumption DEF PacedInv, setting, device
<1>0. /\ TypeOK /\ Inv /\ now' = now + 1
      /\ UNCHANGED <<phase, tNow, attempts>> /\ RightEdge' = RightEdge
      /\ \A t \in Int : Edge(t)' <=> Edge(t)
  BY DEF Inv, Tick, Edge, RightEdge, NextSec
<1>1. CASE ~Edge(now + 1)
  BY <1>0, <1>1 DEF Tick, Paced, SecondLands, AfterEdge, Aimed
<1>2. CASE Edge(now + 1)
  <2>1. Latch(now + 1) /\ Notice(now + 1)
    BY <1>2 DEF Tick
  <2>2. SecondLands'
    <3>1. CASE attempts > 1
      <4>1. pc' = pc /\ due' = due /\ pc # "edge"
        BY <2>1, <3>1 DEF SecondLands, Notice
      <4>2. CASE pending = NoTime
        BY <1>0, <2>1, <3>1, <4>1, <4>2 DEF Latch, SecondLands
      <4>3. CASE pending # NoTime
        <5>1. /\ pending = NextPps /\ pc = "asked"
              /\ RightEdge <= due - Second /\ due - Second <= RightEdge + Delay
          BY <3>1, <4>3 DEF Inv, WayToLatch, SecondLands
        <5>2. RightEdge \in Int /\ Edge(RightEdge)
          BY <1>0, RightEdgeFacts
        <5>3. now + 1 = RightEdge + Second
          BY <1>0, <1>2, <4>3, <5>1, <5>2, LatchAfter
        <5>4. offset' = -phase
          <6>1. offset' = NextPps - (RightEdge + Second)
            BY <2>1, <4>3, <5>1, <5>3 DEF Latch
          <6> QED
            BY <1>0, <6>1, NextSecFacts DEF NextPps, RightEdge, TypeOK
        <5> QED
          BY <1>0, <2>1, <3>1, <4>1, <4>3, <5>1, <5>4 DEF Latch, SecondLands
      <4> QED
        BY <4>2, <4>3
    <3>2. CASE ~(attempts > 1)
      BY <1>0, <3>2 DEF SecondLands
    <3> QED
      BY <3>1, <3>2
  <2>3. Paced'
    <3>1. CASE pc = "edge"
      <4>1. pc' = "seen" /\ due' = now + 1
        BY <2>1, <3>1 DEF Notice
      <4>2. attempts > 0 => now + 1 = RightEdge
        BY <1>0, <1>2, <3>1, RightEdgeSeen DEF Paced
      <4> QED
        BY <1>0, <4>1, <4>2 DEF Paced
    <3>2. CASE pc # "edge"
      BY <1>0, <2>1, <3>2 DEF Notice, Paced, AfterEdge, Aimed
    <3> QED
      BY <3>1, <3>2
  <2> QED
    BY <2>2, <2>3
<1> QED
  BY <1>1, <1>2

LEMMA PacedHolds == Spec => []PacedInv
<1>1. Init => Paced /\ SecondLands
  BY DEF Init, Paced, SecondLands
<1>2. PacedInv /\ UNCHANGED vars => Paced' /\ SecondLands'
  BY DEF PacedInv, vars, setting, device, Paced, SecondLands, AfterEdge, Edge,
         Aimed, RightEdge, NextSec
<1>3. PacedInv /\ [Next]_vars => PacedInv'
  BY <1>2, PacedThread, PacedTick, ThreadInv, TickInv, StutterInv DEF Next, PacedInv
<1>4. Init => PacedInv
  BY <1>1, InitInv DEF PacedInv
<1> QED
  BY <1>3, <1>4, PTL DEF Spec

-----------------------------------------------------------------------------
(* The theorems *)

\* The clocks, the locals and the device's registers keep their types.
THEOREM TypeCorrect == Spec => []TypeOK
<1>1. Inv => TypeOK
  BY DEF Inv
<1> QED
  BY <1>1, InvHolds, PTL

\* After an attempt the device is right up to the phase, or a second off on
\* top: UsrpOps has these as the outcomes of SyncAttempt.
THEOREM AttemptsLand == Spec => []AttemptOutcome
<1>1. Inv => AttemptOutcome
  BY DEF Inv
<1> QED
  BY <1>1, InvHolds, PTL

\* sync_usrp_ntp() returns only with clocks as close as ntp_usrp_synced() can
\* tell, for either abs().
THEOREM SyncedOnReturn == Spec => []DoneIsClose
<1>1. Inv => DoneIsClose
  BY DEF Inv
<1> QED
  BY <1>1, InvHolds, PTL

\* sync_usrp_ntp() sets the time twice at most: the first attempt may see an
\* edge on the wrong side of its host second, the second one cannot, for the
\* 2.5 s before it lead to the middle of a second.
THEOREM TwoAttempts == Spec => []TwoAttemptsSuffice
<1>1. PacedInv => TwoAttemptsSuffice
  BY DEF PacedInv, Inv, TypeOK, SecondLands, TwoAttemptsSuffice
<1> QED
  BY <1>1, PacedHolds, PTL


=============================================================================

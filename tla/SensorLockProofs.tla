-------------------------- MODULE SensorLockProofs --------------------------
(* Proofs about SensorLock for any setup time, poll interval and delay. *)
EXTENDS SensorLock, TLAPS

\* How late each point of the loop can be reached: a turn starts in time and
\* takes one reading of the clock, one or two of the device, and a sleep.
Latest ==
  /\ pc = "find" => now = 0
  /\ pc = "test" => now <= SetupTime + Poll + 3 * Delay
  /\ pc = "read" => now <= SetupTime + Delay
  /\ pc \in {"retest", "sleep"} => now <= SetupTime + 2 * Delay
  /\ pc = "ended" => now <= SetupTime + Poll + 4 * Delay

\* A reading is only taken, and doubted, while no lock has been seen.
NotSeenYet == pc \in {"find", "read", "retest"} => ~lockDetected

Undecided == pc # "ended" => result = "none"

Inv == TypeOK /\ Latest /\ NotSeenYet /\ Undecided /\ EarlyEndIsLock

LEMMA TakeBound ==
  ASSUME TypeOK, NEW d \in Nat, Take(d)
  PROVE  now' \in Nat /\ now + d <= now' /\ now' <= now + d + Delay
BY TimeAssumption DEF TypeOK, Take

LEMMA NextInv == Inv /\ [Next]_vars => Inv'
<1> SUFFICES ASSUME Inv, [Next]_vars PROVE Inv'
  OBVIOUS
<1> USE TimeAssumption
    DEF Inv, TypeOK, Latest, NotSeenYet, Undecided, EarlyEndIsLock, End
<1>1. CASE NotFound \/ Found
  BY <1>1 DEF NotFound, Found
<1>2. CASE Test
  <2>1. now' \in Nat /\ now <= now' /\ now' <= now + Delay
    BY <1>2, TakeBound DEF Test
  <2> QED
    BY <1>2, <2>1 DEF Test, Expired
<1>3. CASE Read
  <2>1. now' \in Nat /\ now <= now' /\ now' <= now + Delay
    BY <1>3, TakeBound DEF Read
  <2> QED
    BY <1>3, <2>1 DEF Read
<1>4. CASE Retest
  <2>1. now' \in Nat /\ now <= now' /\ now' <= now + Delay
    BY <1>4, TakeBound DEF Retest
  <2> QED
    BY <1>4, <2>1 DEF Retest, Expired
<1>5. CASE Sleep
  <2>1. now' \in Nat /\ now' <= now + Poll + Delay
    BY <1>5, TakeBound DEF Sleep
  <2> QED
    BY <1>5, <2>1 DEF Sleep
<1>6. CASE Wobble \/ UNCHANGED vars
  <2>1. locked' \in BOOLEAN
    BY <1>6, Zenon DEF Wobble, vars
  <2> QED
    BY <1>6, <2>1 DEF Wobble, vars
<1> QED
  BY <1>1, <1>2, <1>3, <1>4, <1>5, <1>6 DEF Next

LEMMA AlwaysInv == Spec => []Inv
<1>1. Init => Inv
  <2> SUFFICES ASSUME Init PROVE Inv
    OBVIOUS
  <2>1. TypeOK
    BY DEF Init, TypeOK
  <2>2. Latest
    BY TimeAssumption DEF Init, Latest
  <2> QED
    BY <2>1, <2>2 DEF Init, Inv, NotSeenYet, Undecided, EarlyEndIsLock
<1> QED
  BY <1>1, NextInv, PTL DEF Spec

\* The wait for a sensor exceeds the setup time by one poll at most, besides
\* the time that four steps take.
THEOREM WaitIsBounded == Spec => []BoundedWait
<1>1. Inv => BoundedWait
  BY TimeAssumption DEF Inv, TypeOK, Latest, BoundedWait
<1> QED
  BY <1>1, AlwaysInv, PTL

\* Only a call that has seen the lock ends before the setup time is over, and
\* a call that has seen it raises no timeout.
THEOREM EarlyEndMeansLock == Spec => []EarlyEndIsLock
BY AlwaysInv, PTL DEF Inv

\* The clock, the start time and the step of the wait stay of their types for
\* any times: check_locked_sensor() never leaves its five steps and its three
\* ways to end.
THEOREM TypeCorrect == Spec => []TypeOK
BY AlwaysInv, PTL DEF Inv
=============================================================================

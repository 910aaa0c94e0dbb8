----------------------------- MODULE SensorLock -----------------------------
(***************************************************************************)
(* check_locked_sensor(): poll a lock sensor of the device until it reads  *)
(* locked or the setup time is over. create_device() waits this way for    *)
(* the reference clock, process_rx_request() for the local oscillator.     *)
(*                                                                         *)
(* Time is that of steady_clock since the call. A step reads a clock or    *)
(* the sensor, or sleeps, and takes up to Delay ticks more than it asks.   *)
(***************************************************************************)
EXTENDS Naturals

CONSTANTS
  SetupTime, \* setup_time, which is params->tslack
  Poll,      \* the 100 ms between two readings
  Delay      \* bound: how much longer than asked one step takes

ASSUME TimeAssumption == SetupTime \in Nat /\ Poll \in Nat \ {0} /\ Delay \in Nat

VARIABLES
  pc,           \* where the call is
  now,          \* ticks since setup_timeout was computed
  locked,       \* what the sensor would read
  lockDetected, \* lock_detected
  result        \* "none" until the call ends, then what it ends with

vars == <<pc, now, locked, lockDetected, result>>

Take(d) == now' \in now + d .. now + d + Delay

\* Mutant: the return after the loop is missing, the value is undefined.
EndNoReturn(r) ==
  pc' = "ended" /\ result' = IF r = "true" THEN "undefined" ELSE r

End(r) == pc' = "ended" /\ result' = r

Init ==
  /\ pc = "find"
  /\ now = 0
  /\ locked \in BOOLEAN
  /\ lockDetected = FALSE
  /\ result = "none"

\* A device without such a sensor is not waited for.
NotFound ==
  /\ pc = "find"
  /\ End("false")
  /\ UNCHANGED <<now, locked, lockDetected>>

Found ==
  /\ pc = "find"
  /\ pc' = "test"
  /\ UNCHANGED <<now, locked, lockDetected, result>>

\* Mutant: seconds taken for milliseconds the other way round.
ExpiredWrongUnit == now > 10 * SetupTime

\* steady_clock::now() > setup_timeout
Expired == now > SetupTime

\* The top of the loop: either condition ends the call with true.
Test ==
  /\ pc = "test"
  /\ Take(0)
  /\ IF lockDetected \/ Expired
       THEN End("true")
       ELSE pc' = "read" /\ UNCHANGED result
  /\ UNCHANGED <<locked, lockDetected>>

\* Mutant: the negation is misplaced, the flag shows the last failure.
ReadNegated ==
  /\ pc = "read"
  /\ Take(0)
  /\ lockDetected' = ~locked
  /\ pc' = IF locked THEN "sleep" ELSE "retest"
  /\ UNCHANGED <<locked, result>>

\* get_sensor_fn(sensor_name).to_bool()
Read ==
  /\ pc = "read"
  /\ Take(0)
  /\ lockDetected' = locked
  /\ pc' = IF locked THEN "sleep" ELSE "retest"
  /\ UNCHANGED <<locked, result>>

\* After an unlocked reading the time is looked at again, and a timeout throws.
Retest ==
  /\ pc = "retest"
  /\ Take(0)
  /\ IF Expired
       THEN End("throw")
       ELSE pc' = "sleep" /\ UNCHANGED result
  /\ UNCHANGED <<locked, lockDetected>>

Sleep ==
  /\ pc = "sleep"
  /\ Take(Poll)
  /\ pc' = "test"
  /\ UNCHANGED <<locked, lockDetected, result>>

\* The device locks or loses its lock.
Wobble ==
  /\ pc # "ended"
  /\ locked' = ~locked
  /\ UNCHANGED <<pc, now, lockDetected, result>>

Next == NotFound \/ Found \/ Test \/ Read \/ Retest \/ Sleep \/ Wobble

Spec == Init /\ [][Next]_vars

-----------------------------------------------------------------------------
(* Properties *)

TypeOK ==
  /\ pc \in {"find", "test", "read", "retest", "sleep", "ended"}
  /\ now \in Nat
  /\ locked \in BOOLEAN /\ lockDetected \in BOOLEAN
  /\ result \in {"none", "true", "false", "throw"}

\* Whatever the sensor does, the caller waits at most one poll longer than the
\* setup time, besides what four steps take: the time is looked at twice in
\* every turn of the loop, and the turn that began in time may still sleep.
BoundedWait == now <= SetupTime + Poll + 4 * Delay

\* No timeout is raised by a call that has seen the lock, and a call that ends
\* early has seen it.
EarlyEndIsLock ==
  /\ result = "throw" => ~lockDetected
  /\ result = "true" /\ now <= SetupTime => lockDetected

\* The call returns true only when the sensor has read locked: the message of
\* the exception says that a wait without locks is a timeout.
TrueMeansLocked == result = "true" => lockDetected
=============================================================================

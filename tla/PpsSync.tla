------------------------------ MODULE PpsSync -------------------------------
(***************************************************************************)
(* sync_usrp_ntp() and attempt_ntp_pps_sync() against a device that takes  *)
(* over a new time at an edge of its PPS input, once a second.             *)
(*                                                                         *)
(* The host clock is now, in ticks; host seconds begin at its multiples of *)
(* Second. The device clock is now + offset. NTP keeps the host within     *)
(* MaxPhase of the PPS: edges come phase ticks after a host second begins. *)
(* A step of the thread comes up to Delay ticks after it could.            *)
(*                                                                         *)
(* uhd::usrp::multi_usrp::set_time_unknown_pps(), which is not in this     *)
(* repository, waits for an edge, asks the device to take over the time at *)
(* the next one, and sleeps for a second. UsrpOps has all this as its      *)
(* SyncAttempt and SyncDone.                                               *)
(***************************************************************************)
EXTENDS Integers

CONSTANTS
  Second,    \* ticks in a second
  NtpSlack,  \* params->ntpslack
  EdgeSlack, \* t_slack, 20 ms
  Rest,      \* 2500 ms, between an attempt and the next comparison
  MaxPhase,  \* how far the host is from the PPS at most
  Delay,     \* how late a step of the thread is at most
  FarOffsets, \* device clock minus host clock at the start, for example 0
              \* as reset_usrp_time leaves it
  MaxTime    \* bound: last value of the host clock

ASSUME TimeAssumption ==
  /\ Second \in Nat \ {0} /\ NtpSlack \in Nat /\ EdgeSlack \in Nat
  /\ Rest \in Nat /\ MaxPhase \in Nat /\ Delay \in Nat /\ MaxTime \in Nat
  /\ FarOffsets \subseteq Int

\* The host runs the program and keeps its clock within a second altogether.
ASSUME HostAssumption == Delay + MaxPhase < Second

\* The rest ends in the middle of a second (half a second after an edge, with
\* 2.5 s): the steps that follow it read the clock there, and not near a second.
ASSUME RestAssumption ==
  /\ MaxPhase + EdgeSlack < Rest % Second
  /\ (Rest % Second) + MaxPhase + EdgeSlack + 5 * Delay < Second
  /\ (Rest % Second) + 6 * Delay < Second

\* ntpslack allows for what NTP and the host are off when all is well.
ASSUME SlackAssumption == MaxPhase + Delay <= NtpSlack

NoTime == -1

VARIABLES
  absIsInt, \* abs(double) is abs(int) of <stdlib.h>, which drops the fraction of
           \* a second: the headers that a build finds decide
  pc,      \* where the thread is
  now,     \* host clock
  due,     \* when the next step of the thread is possible
  offset,  \* device clock minus host clock
  phase,   \* first edge after a host second begins, may be before it
  tusrp,   \* device time read for the comparison
  tNow,    \* t_now of the attempt
  pending, \* time the device takes over at the next edge, or NoTime
  attempts \* history: times the device was asked to take over a time

setting == <<absIsInt, phase>> \* the same throughout
device == <<offset, pending>>
vars == <<setting, pc, now, due, device, tusrp, tNow, attempts>>

Init ==
  /\ absIsInt \in BOOLEAN
  /\ pc = "read"
  /\ now \in 0..Second - 1 /\ due = now
  /\ offset \in FarOffsets /\ phase \in -MaxPhase..MaxPhase
  /\ tusrp = 0 /\ tNow = 0
  /\ pending = NoTime /\ attempts = 0

-----------------------------------------------------------------------------
(* Clock arithmetic *)

\* get_next_sec()
NextSec(t) == (t \div Second + 1) * Second

\* check_time_bidir_prox()
Near(t) == (t % Second) + EdgeSlack >= Second \/ t % Second <= EdgeSlack

Magnitude(d) == IF d < 0 THEN -d ELSE d

\* abs(tusrp - tsys), in ticks
Distance(d) ==
  IF absIsInt THEN (Magnitude(d) \div Second) * Second ELSE Magnitude(d)

Edge(t) == (t - phase) % Second = 0

-----------------------------------------------------------------------------
(* The thread *)

At(place) == pc = place /\ now >= due

Continue(place, pause) == pc' = place /\ due' = now + pause

\* ntp_usrp_synced(): get_time_now(), a round trip to the device.
ReadDevice ==
  /\ At("read")
  /\ Continue("compare", 0)
  /\ tusrp' = now + offset
  /\ UNCHANGED <<setting, now, device, tNow, attempts>>

\* Mutant: the sign of the difference is lost.
CompareOneSided ==
  /\ At("compare")
  /\ IF tusrp - now <= NtpSlack THEN Continue("done", 0) ELSE Continue("clock", 0)
  /\ UNCHANGED <<setting, now, device, tusrp, tNow, attempts>>

\* ... then the reading of the host clock, and the comparison.
Compare ==
  /\ At("compare")
  /\ IF Distance(tusrp - now) <= NtpSlack
       THEN Continue("done", 0)
       ELSE Continue("clock", 0)
  /\ UNCHANGED <<setting, now, device, tusrp, tNow, attempts>>

\* Mutant: t_now is the device's time.
ReadClockOfDevice ==
  /\ At("clock")
  /\ tNow' = tusrp
  /\ IF Near(tusrp)
       THEN Continue("clock", NextSec(tusrp) + 2 * EdgeSlack - tusrp)
       ELSE Continue("call", 0)
  /\ UNCHANGED <<setting, now, device, tusrp, attempts>>

\* attempt_ntp_pps_sync(): near a second, sleep until it is past and look again.
ReadClock ==
  /\ At("clock")
  /\ tNow' = now
  /\ IF Near(now)
       THEN Continue("clock", NextSec(now) + 2 * EdgeSlack - now)
       ELSE Continue("call", 0)
  /\ UNCHANGED <<setting, now, device, tusrp, attempts>>

\* set_time_unknown_pps(nextpps) begins to look for an edge.
CallSetTime ==
  /\ At("call")
  /\ Continue("edge", 0)
  /\ UNCHANGED <<setting, now, device, tusrp, tNow, attempts>>

\* Mutant: the time of the edge just seen.
NextPpsOneEarly == NextSec(tNow)

\* The time set is that of the second edge after t_now.
NextPps == NextSec(tNow) + Second

\* Mutant: set_time_now() in place of the time at the next edge.
AskDeviceNow ==
  /\ At("seen")
  /\ Continue("asked", Second)
  /\ offset' = NextPps - now
  /\ attempts' = attempts + 1
  /\ UNCHANGED <<setting, now, pending, tusrp, tNow>>

\* It has seen one, and asks for the time to be set at the next.
AskDevice ==
  /\ At("seen")
  /\ Continue("asked", Second)
  /\ pending' = NextPps
  /\ attempts' = attempts + 1
  /\ UNCHANGED <<setting, now, offset, tusrp, tNow>>

\* Mutant: a rest of whole seconds leads from one edge to another.
RestAfterWholeSeconds ==
  /\ At("asked")
  /\ Continue("read", 2 * Second)
  /\ UNCHANGED <<setting, now, device, tusrp, tNow, attempts>>

\* It returns, and sync_usrp_ntp() sleeps for 2.5 s.
RestAfter ==
  /\ At("asked")
  /\ Continue("read", Rest)
  /\ UNCHANGED <<setting, now, device, tusrp, tNow, attempts>>

Thread ==
  ReadDevice \/ Compare \/ ReadClock \/ CallSetTime \/ AskDevice \/ RestAfter

-----------------------------------------------------------------------------
(* Time, and what an edge does *)

Latch(t) ==
  IF pending = NoTime THEN UNCHANGED device
  ELSE offset' = pending - t /\ pending' = NoTime

Notice(t) ==
  IF pc = "edge" THEN pc' = "seen" /\ due' = t ELSE UNCHANGED <<pc, due>>

\* Nothing is later than Delay; a thread that waits for an edge is not late.
Tick ==
  /\ pc # "done" /\ now < MaxTime
  /\ pc = "edge" \/ now < due + Delay
  /\ now' = now + 1
  /\ IF Edge(now + 1)
       THEN Latch(now + 1) /\ Notice(now + 1)
       ELSE UNCHANGED <<pc, due, device>>
  /\ UNCHANGED <<setting, tusrp, tNow, attempts>>

Next == Thread \/ Tick

Spec == Init /\ [][Next]_vars

\* The operating system runs the thread, and time passes.
FairSpec == Spec /\ WF_vars(Thread) /\ WF_vars(Tick)

-----------------------------------------------------------------------------
(* Properties *)

TypeOK ==
  /\ absIsInt \in BOOLEAN
  /\ pc \in {"read", "compare", "clock", "call", "edge", "seen", "asked", "done"}
  /\ now \in Nat /\ due \in Nat
  /\ offset \in Int /\ phase \in -MaxPhase..MaxPhase
  /\ tusrp \in Int /\ tNow \in Nat
  /\ pending \in Nat \cup {NoTime}
  /\ attempts \in Nat

\* What abs() may drop.
Blind == IF absIsInt THEN Second - 1 ELSE 0

\* When sync_usrp_ntp() returns, the device is within ntpslack of the host, up
\* to what abs() drops and the time between the two readings: with the host's
\* second, only a device that is ahead can be further away.
DoneIsClose ==
  pc = "done" =>
    -(NtpSlack + Blind) <= offset /\ offset <= NtpSlack + Blind + Delay

\* Once an edge has come, the device is right up to the host's own distance from the
\* PPS, or a whole second off on top: what SyncAttempt of UsrpOps allows.
AttemptOutcome ==
  attempts > 0 /\ pending = NoTime => offset + phase \in {-Second, 0, Second}

\* The first attempt may be a second off, when the host second and the edge lie
\* on different sides of the reading of the clock; the 2.5 s after it put the
\* second attempt in the middle of a second, where it lands.
TwoAttemptsSuffice == attempts <= 2

\* The loop without a limit ends.
Synchronises == <>(pc = "done")
=============================================================================

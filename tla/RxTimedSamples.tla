--------------------------- MODULE RxTimedSamples ---------------------------
(***************************************************************************)
(* The command line programs on one device, used one after the other:      *)
(* rx_timed_samples_to_file with the functions of uhd_functions.hpp,       *)
(* read_usrp_time and reset_usrp_time. Each finds the device clock as the  *)
(* previous one left it, and the files as well.                            *)
(*                                                                         *)
(* The functions are an older copy of the daemon's. Here nobody looks at   *)
(* what was received: the file stays, whole or short, and the program ends *)
(* with success. process_rx_request() and attempt_ntp_pps_sync() are       *)
(* declared bool and return nothing: they come back, or they crash.        *)
(*                                                                         *)
(* Time is in ticks, the device clock is now + offset.                     *)
(***************************************************************************)
EXTENDS Integers, Sequences

CONSTANTS
  Captures,    \* option values rx_timed_samples_to_file may be given
  ResetTimes,  \* values of --time for reset_usrp_time
  Files,       \* values of --file
  NtpSlack,    \* the 0.1 s of sync_usrp_ntp()
  ToSlack,     \* to_slack, 0.5 s
  Spb,         \* --spb
  Second,      \* ticks in a second
  AbsIsInt,    \* BOOLEAN, a fact of the build: abs() in ntp_usrp_synced()
               \* is the one for int, which drops the fraction of a second
  ReadDelay,   \* ticks that may pass between the two clock readings there
  MaxDrift,    \* how far apart the two clocks may get once synchronised
  MaxPrograms, \* bound: programs started
  MaxTime      \* bound: last value of the host clock

CaptureType == [file : Files, sps : Int, t0 : Nat, n : Nat, null : BOOLEAN]

ASSUME CaptureAssumption ==
  /\ Captures \subseteq CaptureType /\ Captures # {}
  /\ ResetTimes \subseteq Nat
  /\ Spb \in Nat \ {0}

\* What the comparison of the two clocks does not see.
Blind == IF AbsIsInt THEN Second - 1 ELSE 0

\* MaxDrift is at least what that comparison lets through: with abs() for int
\* "near host time" means almost a second more than NtpSlack.
ASSUME TimeAssumption ==
  /\ AbsIsInt \in BOOLEAN /\ ReadDelay \in Nat /\ Second \in Nat \ {0}
  /\ NtpSlack \in Nat /\ ToSlack \in Nat
  /\ MaxDrift \in Nat /\ NtpSlack + Blind + ReadDelay <= MaxDrift
  /\ MaxTime \in Nat /\ MaxPrograms \in Nat

VARIABLES
  pc,       \* where the running program is, "idle" between programs
  opt,      \* the options of the last capture
  now,      \* host clock
  offset,   \* device clock minus host clock
  disk,     \* file -> its samples, each as the offset it was taken with
  outfile,  \* "closed", "good", or "bad" once a write has failed
  total,    \* num_total_samps
  late,     \* the stream command reached the device after its start time
  ended,    \* how the last program ended
  programs  \* history: programs started

clocks == <<now, offset>>
output == <<disk, outfile, total>>
vars == <<pc, opt, clocks, output, late, ended, programs>>

Near == -MaxDrift..MaxDrift

\* What PpsSync shows of an attempt: near host time, or a second off on top.
Landings == {s + d : s \in {-Second, 0, Second}, d \in Near}

Magnitude(d) == IF d >= 0 THEN d ELSE -d

\* abs() of a difference: abs(int) cuts it to whole seconds first.
Distance(d) ==
  IF AbsIsInt THEN (Magnitude(d) \div Second) * Second ELSE Magnitude(d)

\* ntp_usrp_synced() reads the host's clock d ticks after the device's.
FoundSynced(d) == Distance(offset - d) <= NtpSlack

UsrpNow == now + offset

Goto(from, to) == pc = from /\ pc' = to

Init ==
  /\ pc = "idle" /\ opt = CHOOSE c \in Captures : TRUE
  /\ now = 0 /\ offset \in Landings
  /\ disk = [f \in Files |-> <<>>] /\ outfile = "closed" /\ total = 0
  /\ late = FALSE /\ ended = "none" /\ programs = 0

\* How a program ends: success, an error code, or a crash.
End(how) ==
  /\ pc' = "idle"
  /\ ended' = how
  /\ UNCHANGED <<opt, now, late, programs>>

-----------------------------------------------------------------------------
(* The programs start *)

Start(first) ==
  /\ Goto("idle", first)
  /\ programs < MaxPrograms
  /\ programs' = programs + 1
  /\ ended' = "none"
  /\ UNCHANGED <<clocks, disk, late>>

StartTool ==
  /\ \E tool \in {"read", "reset"} : Start(tool)
  /\ UNCHANGED <<opt, outfile, total>>

StartCapture ==
  /\ Start("create")
  /\ opt' \in Captures
  /\ outfile' = "closed"
  /\ UNCHANGED total

\* read_usrp_time: multi_usrp::make(), then both clocks are printed.
ReadTime == pc = "read" /\ End("success") /\ UNCHANGED <<offset, output>>

\* Mutant: the time is added to the one the device has.
ResetTimeAdds ==
  /\ pc = "reset"
  /\ \E t \in ResetTimes : offset' = offset + t
  /\ End("success")
  /\ UNCHANGED output

\* reset_usrp_time: set_time_now(t0), whatever the host's time is.
ResetTime ==
  /\ pc = "reset"
  /\ \E t \in ResetTimes : offset' = t - now
  /\ End("success")
  /\ UNCHANGED output

-----------------------------------------------------------------------------
(* rx_timed_samples_to_file *)

Quiet == UNCHANGED <<opt, clocks, output, late, ended, programs>>

\* create_device(); the reference is waited for only when --ref names it.
CreateDevice == Goto("create", "sync") /\ Quiet

\* Mutant: ntp_usrp_synced() forgets abs().
SyncDoneOneSided == Goto("sync", "tune") /\ offset <= NtpSlack /\ Quiet

\* sync_usrp_ntp() leaves its loop.
SyncDone ==
  /\ Goto("sync", "tune")
  /\ \E d \in 0..ReadDelay : FoundSynced(d)
  /\ Quiet

\* attempt_ntp_pps_sync(), which may crash instead of returning, and the rest.
SyncAttempt ==
  /\ pc = "sync"
  /\ \E d \in 0..ReadDelay : ~FoundSynced(d)
  /\ offset' \in Landings
  /\ UNCHANGED output
  /\ \/ /\ pc' = "sync"
        /\ UNCHANGED <<opt, now, late, ended, programs>>
     \/ End("crashed")

\* set_sample_rate() exits on a rate that is not positive. The frequency, the
\* gain and the bandwidth go to the device.
Tune ==
  /\ pc = "tune"
  /\ IF opt.sps <= 0
       THEN End("error") /\ UNCHANGED <<offset, output>>
       ELSE pc' = "lolock" /\ Quiet

\* check_lo_lock(): nothing is made of how the wait ended.
CheckLoLock == Goto("lolock", "open") /\ Quiet

\* Mutant: the file is opened for appending.
OpenFileAppends ==
  /\ Goto("open", "issue")
  /\ ~opt.null
  /\ outfile' = "good"
  /\ total' = 0
  /\ UNCHANGED <<opt, clocks, disk, late, ended, programs>>

\* outfile.open() truncates the file, an earlier capture's as well.
OpenFile ==
  /\ Goto("open", "issue")
  /\ ~opt.null
  /\ outfile' = "good"
  /\ disk' = [disk EXCEPT ![opt.file] = <<>>]
  /\ total' = 0
  /\ UNCHANGED <<opt, clocks, late, ended, programs>>

\* --null, or open() fails and nobody notices.
NoFile ==
  /\ Goto("open", "issue")
  /\ total' = 0
  /\ UNCHANGED <<opt, clocks, disk, outfile, late, ended, programs>>

\* There is no late check: --t0 may have passed before the program started.
IssueStream ==
  /\ Goto("issue", "recv")
  /\ late' = (UsrpNow > opt.t0)
  /\ UNCHANGED <<opt, clocks, output, ended, programs>>

\* The device has taken k more samples.
Available(k) == ~late /\ (UsrpNow - opt.t0) * opt.sps >= total + k

\* outfile.write(): w of k samples reach the file.
RecvSamples(k) ==
  /\ Goto("recv", "recv")
  /\ total # opt.n /\ total + k <= opt.n
  /\ Available(k)
  /\ total' = total + k
  /\ \E w \in IF outfile = "good" THEN 0..k ELSE {0} :
       /\ disk' = [disk EXCEPT ![opt.file] = @ \o [i \in 1..w |-> offset]]
       /\ outfile' = IF outfile = "good" /\ w < k THEN "bad" ELSE outfile
  /\ UNCHANGED <<opt, clocks, late, ended, programs>>

TimedOut == (now - opt.t0 - ToSlack) * opt.sps >= opt.n

\* Mutant: a timeout does not end the loop.
RecvTimeoutIgnored == Goto("recv", "recv") /\ total # opt.n /\ TimedOut /\ Quiet

\* Timeout, also when --t0 lies so far back that recv_to is negative.
RecvTimeout == Goto("recv", "close") /\ total # opt.n /\ TimedOut /\ Quiet

RecvLateCommand == Goto("recv", "close") /\ total # opt.n /\ late /\ Quiet

RecvOverflow ==
  /\ Goto("recv", "close") /\ total # opt.n
  /\ ~late /\ UsrpNow >= opt.t0
  /\ Quiet

RecvComplete == Goto("recv", "close") /\ total = opt.n /\ Quiet

\* Stop the stream, close the file.
CloseFile == Goto("close", "return") /\ Quiet

\* process_rx_request() reaches its end without a return value; whatever main()
\* gets, it prints "Done!" and returns EXIT_SUCCESS.
ReturnFromRequest ==
  /\ pc = "return"
  /\ End("success") \/ End("crashed")
  /\ UNCHANGED <<offset, output>>

\* An exception: no device, an unknown reference or sample type, a sensor,
\* any other receive error, the command to stop. UHD_SAFE_MAIN makes it an
\* exit code.
Throw ==
  /\ pc \in {"read", "reset", "create", "sync", "tune", "lolock", "open",
             "issue", "recv", "close"}
  /\ End("error")
  /\ UNCHANGED <<offset, output>>

Program ==
  \/ ReadTime \/ ResetTime
  \/ CreateDevice \/ SyncDone \/ SyncAttempt \/ Tune \/ CheckLoLock
  \/ OpenFile \/ NoFile \/ IssueStream
  \/ RecvTimeout \/ RecvLateCommand \/ RecvComplete
  \/ CloseFile \/ ReturnFromRequest

-----------------------------------------------------------------------------
(* The user, the device and time *)

User == StartTool \/ StartCapture

Device == (\E k \in 1..Spb : RecvSamples(k)) \/ RecvOverflow \/ Throw

Tick ==
  /\ now < MaxTime
  /\ now' = now + 1
  /\ UNCHANGED <<pc, opt, offset, output, late, ended, programs>>

Drift ==
  /\ offset \in Near
  /\ offset' \in Near
  /\ UNCHANGED <<pc, opt, now, output, late, ended, programs>>

Next == Program \/ User \/ Device \/ Tick \/ Drift

Spec == Init /\ [][Next]_vars

\* The operating system runs the program and time passes; the device need not
\* deliver anything, and nobody need start another program.
FairSpec == Spec /\ WF_vars(Program) /\ WF_vars(Tick)

-----------------------------------------------------------------------------
(* Properties *)

Steps ==
  {"idle", "read", "reset", "create", "sync", "tune", "lolock", "open",
   "issue", "recv", "close", "return"}

\* The types, and what a reset leaves the device clock at.
TypeOK ==
  /\ pc \in Steps
  /\ opt \in Captures
  /\ now \in 0..MaxTime
  /\ offset \in Landings \cup {t - h : t \in ResetTimes, h \in 0..MaxTime}
  /\ disk \in [Files -> Seq(Int)]
  /\ outfile \in {"closed", "good", "bad"}
  /\ total \in Nat
  /\ late \in BOOLEAN
  /\ ended \in {"none", "success", "error", "crashed"}
  /\ programs \in Nat

\* Every sample in a file was taken with the device clock near the host's (as
\* near as the build's abs() can tell, see TimeAssumption),
\* although reset_usrp_time sets that clock to anything at all in between and
\* nothing of a synchronisation outlives the program that made it: the times
\* of a capture can be relied on whatever was run before.
TakenOnHostTime ==
  \A f \in Files : \A i \in DOMAIN disk[f] : disk[f][i] \in Near

\* A file that was opened, and written without a failure, holds exactly the
\* samples the capture received, and none of an earlier one with the same
\* name (--file has a default): while it runs, after it ended in whatever way,
\* and while the clock tools run.
FileIsThisCapture == outfile = "good" => Len(disk[opt.file]) = total

\* Past the synchronisation a capture ends, delivered or not.
CaptureEnds == pc = "tune" ~> pc = "idle"
=============================================================================

------------------------------ MODULE UsrpOps -------------------------------
(***************************************************************************)
(* The USRP thread of timed_rx_file_mqtt: usrp_ops() and what it calls,    *)
(* process_rx_request() and timed_recv_to_file(). The thread synchronises  *)
(* the device clock, takes one request from the fromNetwork queue, decodes *)
(* it, turns it down when it is malformed or too late, otherwise captures  *)
(* samples to a file, and puts one answer on the toNetwork queue.          *)
(*                                                                         *)
(* The two queues are atomic FIFOs here; ProtectedQ.tla shows that         *)
(* ProtectedQ behaves that way. Time is in ticks. The host clock is now,   *)
(* the device clock is now + offset.                                       *)
(***************************************************************************)
EXTENDS Integers, Sequences

CONSTANTS
  Requests,    \* the messages operators may publish, see RequestType
  NoRequest,   \* "no message in hand"
  Antennas,    \* antenna names a message may carry
  NtpSlack,    \* params->ntpslack
  TSlack,      \* params->tslack
  Spb,         \* params->spb, samples per recv() buffer
  Second,      \* ticks in a second
  AbsIsInt,    \* BOOLEAN, a fact of the build: abs() in ntp_usrp_synced()
               \* is the one for int, which drops the fraction of a second
  ReadDelay,   \* ticks that may pass between the two clock readings there
  MaxDrift,    \* how far apart the two clocks may get once synchronised
  DriftAt,     \* the steps of the thread during which they move apart
  FreqStep,    \* frequency resolution of a file name ("%.3lfM")
  DateStep,    \* time resolution of a file name (milliseconds)
  MaxArrivals, \* bound: messages received in one behaviour
  MaxTime      \* bound: last value of the host clock

\* A message is what sscanf() makes of it: the number of conversions that
\* succeed (EOF is -1) and the values the control flow or a file name needs.
\* sps is in samples per tick; lo, bw and g only pass through to the device.
RequestType ==
  [fields : -1..8, fc : Nat, sps : Int, t0 : Nat, n : Nat, ant : Antennas]

ASSUME RequestAssumption ==
  /\ Requests \subseteq RequestType
  /\ NoRequest \notin Requests
  /\ Antennas # {}

\* What the comparison of the two clocks does not see.
Blind == IF AbsIsInt THEN Second - 1 ELSE 0

\* MaxDrift is at least what that comparison lets through.
ASSUME ClockAssumption ==
  /\ NtpSlack \in Nat /\ TSlack \in Nat /\ MaxTime \in Nat
  /\ DateStep \in Nat \ {0} /\ FreqStep \in Nat \ {0}
  /\ AbsIsInt \in BOOLEAN /\ ReadDelay \in Nat /\ Second \in Nat \ {0}
  /\ MaxDrift \in Nat /\ NtpSlack + Blind + ReadDelay <= MaxDrift

\* Names are fine enough for the slacks. With abs() for double and the defaults
\* of main.cpp the left side is 0.1 s + 1 ms (and what the clocks wander), the
\* right side 0.6 s and one sample. A build with abs() for int lets through
\* almost a second more: it meets this only with a TSlack of about a second,
\* and nothing is claimed of SavedDataKept for such a build with the defaults.
ASSUME NameAssumption == MaxDrift + DateStep <= NtpSlack + TSlack + 1

ASSUME CaptureAssumption ==
  /\ Spb \in Nat \ {0}
  /\ MaxArrivals \in Nat

VARIABLES
  pc,          \* where the thread is; "dead" once the process has gone
  fromNetwork, \* queue of received messages
  toNetwork,   \* queue of answers waiting to be published
  answers,     \* history: every answer ever put on toNetwork
  rxmsg,       \* the message being served, a local of the loop body
  args,        \* fc, sps, tstart, n_samples, antc: locals outside the loop
  now,         \* host clock
  offset,      \* device clock minus host clock
  disk,        \* file name -> samples in that file, Absent if there is none
  total,       \* num_total_samps
  late,        \* the stream command reached the device after its start time
  writeBad,    \* the output stream has failed and ignores further writes
  ret          \* what process_rx_request() returns

queues == <<fromNetwork, toNetwork, answers>>
clocks == <<now, offset>>
capture == <<disk, total, late, writeBad, ret>>
vars == <<pc, queues, rxmsg, args, clocks, capture>>

-----------------------------------------------------------------------------
(* Clocks, names and answers *)

Offsets == {s + d : s \in {-Second, 0, Second}, d \in -MaxDrift..MaxDrift}

UsrpNow == now + offset

Magnitude(d) == IF d >= 0 THEN d ELSE -d

\* abs() of a difference: abs(int) cuts it to whole seconds first.
Distance(d) ==
  IF AbsIsInt THEN (Magnitude(d) \div Second) * Second ELSE Magnitude(d)

\* ntp_usrp_synced() reads the host's clock d ticks after the device's.
FoundSynced(d) == Distance(offset - d) <= NtpSlack

\* %F_%H-%M-%S of a time point cut to milliseconds: one name per DateStep.
DateStr(a) == a.t0 \div DateStep

\* prefix, fc / 1e6 rounded to three decimals, date.
FileName(a) == <<(2 * a.fc + FreqStep) \div (2 * FreqStep), DateStr(a)>>

Names == {FileName(r) : r \in Requests}

Absent == -1

Invalid   == [kind |-> "invalid", about |-> <<>>]
TooLate(a) == [kind |-> "late", about |-> <<DateStr(a)>>]
Failed(a) == [kind |-> "failed", about |-> <<DateStr(a)>>]
Saved(a)  == [kind |-> "saved", about |-> FileName(a)]

\* What sscanf() leaves in the locals: the first m.fields of
\* fc, lo, sps, bw, g, t0, n, ant are assigned, the others keep their value.
Scan(m) ==
  [fc  |-> IF m.fields >= 1 THEN m.fc  ELSE args.fc,
   sps |-> IF m.fields >= 3 THEN m.sps ELSE args.sps,
   t0  |-> IF m.fields >= 6 THEN m.t0  ELSE args.t0,
   n   |-> IF m.fields >= 7 THEN m.n   ELSE args.n,
   ant |-> IF m.fields >= 8 THEN m.ant ELSE args.ant]

\* Never read before a complete scan has overwritten them.
Uninitialised ==
  [fc |-> 0, sps |-> 0, t0 |-> 0, n |-> 0, ant |-> CHOOSE a \in Antennas : TRUE]

Goto(from, to) == pc = from /\ pc' = to

-----------------------------------------------------------------------------
Init ==
  /\ pc = "create"
  /\ fromNetwork = <<>> /\ toNetwork = <<>> /\ answers = <<>>
  /\ rxmsg = NoRequest /\ args = Uninitialised
  /\ now = 0 /\ offset \in Offsets
  /\ disk = [f \in Names |-> Absent]
  /\ total = 0 /\ late = FALSE /\ writeBad = FALSE /\ ret = FALSE

(* create_device(): multi_usrp::make() and the reference lock may throw, and
   an exception that leaves the thread function ends the process. *)
CreateDevice ==
  /\ Goto("create", "sync")
  /\ UNCHANGED <<queues, rxmsg, args, clocks, capture>>

\* sync_usrp_ntp(): leave the loop once the clocks are close.
SyncDone ==
  /\ Goto("sync", "wait")
  /\ \E d \in 0..ReadDelay : FoundSynced(d)
  /\ UNCHANGED <<queues, rxmsg, args, clocks, capture>>

\* Mutant: the time to set is taken from the device, not from the host.
SyncAttemptRelative ==
  /\ Goto("sync", "sync")
  /\ \E d \in 0..ReadDelay : ~FoundSynced(d)
  /\ offset' = offset + Second
  /\ UNCHANGED <<queues, rxmsg, args, now, capture>>

\* attempt_ntp_pps_sync(), then sleep and compare again. The device ends up
\* near host time, or a second off on top when the edge was missed (PpsSync).
SyncAttempt ==
  /\ Goto("sync", "sync")
  /\ \E d \in 0..ReadDelay : ~FoundSynced(d)
  /\ offset' \in Offsets
  /\ UNCHANGED <<queues, rxmsg, args, now, capture>>

\* fromNetwork->popItem() and sscanf() into locals that outlive the loop body.
PopRequest ==
  /\ Goto("wait", "check")
  /\ fromNetwork # <<>>
  /\ fromNetwork' = Tail(fromNetwork)
  /\ rxmsg' = Head(fromNetwork)
  /\ args' = Scan(Head(fromNetwork))
  /\ UNCHANGED <<toNetwork, answers, clocks, capture>>

\* toNetwork->addItem(a), after which the loop starts over.
Reply(a) ==
  /\ pc' = "sync"
  /\ toNetwork' = Append(toNetwork, a)
  /\ answers' = Append(answers, a)
  /\ rxmsg' = NoRequest
  /\ UNCHANGED fromNetwork

\* Mutant: a message without the antenna passes.
MalformedLoose == rxmsg.fields < 7

\* n_decoded != 8
Malformed == rxmsg.fields # 8

\* Mutant: no slack.
HostLateNoSlack == now > args.t0

\* The request cannot be set up in time, if NTP lags by ntpslack and setting
\* up takes tslack.
HostLate == now + NtpSlack + TSlack > args.t0

RejectMalformed ==
  /\ pc = "check"
  /\ Malformed
  /\ Reply(Invalid)
  /\ UNCHANGED <<args, clocks, capture>>

\* Mutant: the continue is missing, the late request is captured as well.
RejectLateFallsThrough ==
  /\ pc = "check"
  /\ ~Malformed
  /\ HostLate
  /\ pc' = "tune"
  /\ toNetwork' = Append(toNetwork, TooLate(args))
  /\ answers' = Append(answers, TooLate(args))
  /\ UNCHANGED <<fromNetwork, rxmsg, args, clocks, capture>>

RejectLate ==
  /\ pc = "check"
  /\ ~Malformed
  /\ HostLate
  /\ Reply(TooLate(args))
  /\ UNCHANGED <<args, clocks, capture>>

Accept ==
  /\ Goto("check", "tune")
  /\ ~Malformed
  /\ ~HostLate
  /\ UNCHANGED <<queues, rxmsg, args, clocks, capture>>

\* set_sample_rate() exits the process on a rate that is not positive; the
\* rest of the set-up talks to the device only.
Tune ==
  /\ pc = "tune"
  /\ pc' = IF args.sps <= 0 THEN "dead" ELSE "lolock"
  /\ UNCHANGED <<queues, rxmsg, args, clocks, capture>>

\* check_lo_lock(): its result is ignored. It takes time, which Tick models.
CheckLoLock ==
  /\ Goto("lolock", "open")
  /\ UNCHANGED <<queues, rxmsg, args, clocks, capture>>

\* Opening the file creates or truncates it.
OpenFile ==
  /\ Goto("open", "issue")
  /\ disk' = [disk EXCEPT ![FileName(args)] = 0]
  /\ total' = 0
  /\ writeBad' = FALSE
  /\ UNCHANGED <<queues, rxmsg, args, clocks, late, ret>>

\* The open fails; process_rx_request() then removes whatever has that name.
OpenFailed ==
  /\ Goto("open", "answer")
  /\ \E left \in {Absent, disk[FileName(args)]} :
       disk' = [disk EXCEPT ![FileName(args)] = left]
  /\ ret' = FALSE
  /\ UNCHANGED <<queues, rxmsg, args, clocks, total, late, writeBad>>

IssueStream ==
  /\ Goto("issue", "recv")
  /\ late' = (UsrpNow > args.t0)
  /\ UNCHANGED <<queues, rxmsg, args, clocks, disk, total, writeBad, ret>>

\* The device has taken k more samples: sample i exists at t0 + i / sps.
Available(k) == ~late /\ (UsrpNow - args.t0) * args.sps >= total + k

\* How much of a buffer of k samples reaches the file: a stream that has failed
\* writes nothing any more, a disk may fill in the middle of a buffer.
Written(k) == IF writeBad THEN {0} ELSE 0..k

\* One turn of the receive loop. The state of the output file is not looked
\* at after the write.
RecvSamples(k) ==
  /\ Goto("recv", "recv")
  /\ total # args.n
  /\ total + k <= args.n
  /\ Available(k)
  /\ total' = total + k
  /\ \E w \in Written(k) :
       /\ disk' = [disk EXCEPT ![FileName(args)] = @ + w]
       /\ writeBad' = (writeBad \/ w < k)
  /\ UNCHANGED <<queues, rxmsg, args, clocks, late, ret>>

\* recv() waits until stop_time = t0 + NtpSlack + n / sps.
TimedOut == (now - args.t0 - NtpSlack) * args.sps >= args.n

\* Mutant: the loop goes on after a timeout.
RecvTimeoutIgnored ==
  /\ Goto("recv", "recv")
  /\ total # args.n
  /\ TimedOut
  /\ UNCHANGED <<queues, rxmsg, args, clocks, capture>>

\* ERROR_CODE_TIMEOUT ends the loop; packets may be lost, so it can happen
\* after the device has taken all samples.
RecvTimeout ==
  /\ Goto("recv", "close")
  /\ total # args.n
  /\ TimedOut
  /\ UNCHANGED <<queues, rxmsg, args, clocks, capture>>

\* ERROR_CODE_LATE_COMMAND ends the loop.
RecvLateCommand ==
  /\ Goto("recv", "close")
  /\ total # args.n
  /\ late
  /\ UNCHANGED <<queues, rxmsg, args, clocks, capture>>

\* ERROR_CODE_OVERFLOW ends the loop: the host was too slow for the samples.
RecvOverflow ==
  /\ Goto("recv", "close")
  /\ total # args.n
  /\ ~late /\ UsrpNow >= args.t0
  /\ UNCHANGED <<queues, rxmsg, args, clocks, capture>>

RecvComplete ==
  /\ Goto("recv", "close")
  /\ total = args.n
  /\ UNCHANGED <<queues, rxmsg, args, clocks, capture>>

\* Mutant: a short file is left behind.
CloseFileKept ==
  /\ Goto("close", "answer")
  /\ ret' = (total = args.n)
  /\ UNCHANGED <<queues, rxmsg, args, clocks, disk, total, late, writeBad>>

\* Mutant: some samples are as good as all of them.
CloseFileShort ==
  /\ Goto("close", "answer")
  /\ ret' = (total > 0)
  /\ disk' = IF ret' THEN disk ELSE [disk EXCEPT ![FileName(args)] = Absent]
  /\ UNCHANGED <<queues, rxmsg, args, clocks, total, late, writeBad>>

\* Stop the stream, close the file, and remove it when it is short.
CloseFile ==
  /\ Goto("close", "answer")
  /\ ret' = (total = args.n)
  /\ disk' = IF ret' THEN disk ELSE [disk EXCEPT ![FileName(args)] = Absent]
  /\ UNCHANGED <<queues, rxmsg, args, clocks, total, late, writeBad>>

Answer ==
  /\ pc = "answer"
  /\ Reply(IF ret THEN Saved(args) ELSE Failed(args))
  /\ UNCHANGED <<args, clocks, capture>>

\* An exception leaves usrp_ops(): no device or reference lock, no PPS edge,
\* a tuning call that fails, no LO lock, any other receive error, or the
\* device refuses the command to stop.
Throw ==
  /\ pc \in {"create", "sync", "tune", "lolock", "open", "issue", "recv", "close"}
  /\ pc' = "dead"
  /\ UNCHANGED <<queues, rxmsg, args, clocks, capture>>

\* What the thread does by itself, given time.
UsrpThread ==
  \/ CreateDevice \/ SyncDone \/ SyncAttempt \/ PopRequest
  \/ RejectMalformed \/ RejectLate \/ Accept
  \/ Tune \/ CheckLoLock \/ OpenFile \/ IssueStream
  \/ RecvTimeout \/ RecvLateCommand \/ RecvComplete
  \/ CloseFile \/ Answer

\* What depends on the device, the file system and the network to it.
Outside ==
  \/ (\E k \in 1..Spb : RecvSamples(k))
  \/ OpenFailed \/ RecvOverflow \/ Throw

-----------------------------------------------------------------------------
(* The environment: the MQTT side of the two queues, and time. *)

Arrived ==
  Len(answers) + (IF rxmsg = NoRequest THEN 0 ELSE 1) + Len(fromNetwork)

\* message_arrived(): QoS 1 may deliver the same message more than once.
Arrive(r) ==
  /\ pc # "dead"
  /\ Arrived < MaxArrivals
  /\ fromNetwork' = Append(fromNetwork, r)
  /\ UNCHANGED <<pc, toNetwork, answers, rxmsg, args, clocks, capture>>

\* mqtt_publisher(): toNetwork->popItem().
TakeReply ==
  /\ pc # "dead"
  /\ toNetwork # <<>>
  /\ toNetwork' = Tail(toNetwork)
  /\ UNCHANGED <<pc, fromNetwork, answers, rxmsg, args, clocks, capture>>

Tick ==
  /\ pc # "dead"
  /\ now < MaxTime
  /\ now' = now + 1
  /\ UNCHANGED <<pc, queues, rxmsg, args, offset, capture>>

\* NTP and the device's reference wander against each other.
Drift ==
  /\ pc # "dead"
  /\ pc \in DriftAt
  /\ offset \in -MaxDrift..MaxDrift
  /\ offset' \in -MaxDrift..MaxDrift
  /\ UNCHANGED <<pc, queues, rxmsg, args, now, capture>>

Environment ==
  \/ \E r \in Requests : Arrive(r)
  \/ TakeReply
  \/ Tick
  \/ Drift

Next == UsrpThread \/ Outside \/ Environment

Spec == Init /\ [][Next]_vars

\* The operating system runs the thread and time passes. Nobody has to send
\* a request, and the device need not deliver a single sample.
Fairness ==
  /\ WF_vars(UsrpThread)
  /\ WF_vars(Tick)

FairSpec == Spec /\ Fairness

-----------------------------------------------------------------------------
(* Properties *)

Steps ==
  {"create", "sync", "wait", "check", "tune", "lolock", "open", "issue",
   "recv", "close", "answer", "dead"}

\* Past the checks of a request, before its answer.
Accepted ==
  pc \in {"tune", "lolock", "open", "issue", "recv", "close", "answer"}

\* The file of the request being served has been opened.
FileInUse == pc \in {"issue", "recv", "close", "answer"}

AnswerType ==
  [kind : {"invalid", "late", "failed", "saved"}, about : Seq(Int)]

ArgsType == [fc : Nat, sps : Int, t0 : Nat, n : Nat, ant : Antennas]

\* The variables have the types of the locals and queues they stand for.
TypeOK ==
  /\ pc \in Steps
  /\ fromNetwork \in Seq(Requests)
  /\ toNetwork \in Seq(AnswerType) /\ answers \in Seq(AnswerType)
  /\ rxmsg \in Requests \cup {NoRequest}
  /\ args \in ArgsType
  /\ now \in Nat /\ offset \in Offsets
  /\ disk \in [Names -> Nat \cup {Absent}]
  /\ total \in Nat
  /\ late \in BOOLEAN /\ writeBad \in BOOLEAN /\ ret \in BOOLEAN

Claimed(f) ==
  \E i \in DOMAIN answers : answers[i] = [kind |-> "saved", about |-> f]

\* A capture is made with the parameters of one message. The locals sscanf()
\* writes outlive the loop body, so those of an earlier or of a half-decoded
\* message are still there; only the test on the number of conversions keeps
\* them out of a capture.
CaptureMatchesRequest ==
  Accepted => args = [fc |-> rxmsg.fc, sps |-> rxmsg.sps, t0 |-> rxmsg.t0,
                      n |-> rxmsg.n, ant |-> rxmsg.ant]

Capturing(f) == FileInUse /\ f = FileName(args)

\* Samples in a file are never overwritten, extended or removed by a request
\* other than the one that captured them. File names only carry a date to the
\* millisecond and a frequency to the kilohertz, messages may be delivered
\* twice, and a failed request removes its file: what protects the earlier
\* capture is that the late check refuses a start time whose file can already
\* hold samples.
SavedDataKept ==
  [][\A f \in Names : disk[f] > 0 /\ ~Capturing(f) => disk'[f] = disk[f]]_vars

\* The process died while it served a request with this file name.
CutShort(f) == pc = "dead" /\ rxmsg # NoRequest /\ f = FileName(args)

\* Every file there is was announced as saved or belongs to the capture in
\* progress: early exits, failed opens and broken receptions leave no debris.
\* A process that dies leaves at most one file that was not announced, that of
\* the request it was serving; usrp_ops() removes it nowhere.
NoOrphanFile ==
  \A f \in Names :
    disk[f] # Absent => Claimed(f) \/ Capturing(f) \/ CutShort(f)

\* When a request is about to be answered "req saved", its file holds the
\* number of samples it asked for.
SavedIsComplete == pc = "answer" /\ ret => disk[FileName(args)] = args.n

\* The same as long as every write to that file succeeded, whatever way out
\* the receive loop took: late, overflow, timeout or complete.
SavedIfWritten == ~writeBad => SavedIsComplete

Synced == -NtpSlack <= offset /\ offset <= NtpSlack

\* The device is never given a start time while its clock is further from the
\* host's than ntpslack (the comment in usrp_ops() promises this check for
\* every processed operation).
SyncedWhenIssued == pc = "issue" => Synced

\* A request taken from the queue gets its answer or the process dies: the
\* receive loop ends even if the device never delivers a sample.
RequestFinishes ==
  rxmsg # NoRequest ~> (rxmsg = NoRequest \/ pc = "dead")

\* The answers that fit a request.
RepliesTo ==
  [r \in Requests |->
     IF r.fields # 8 THEN {Invalid} ELSE {TooLate(r), Failed(r), Saved(r)}]

\* The message in hand counts as not answered yet.
Unanswered ==
  IF rxmsg = NoRequest THEN fromNetwork ELSE <<rxmsg>> \o fromNetwork

RS == INSTANCE RequestService WITH inbox <- Unanswered, up <- pc # "dead"

\* Requests are answered in order, each once, each with an answer made from
\* its own parameters, whatever is rejected, cut short or failing in between.
AnswersInOrder == RS!Spec
=============================================================================

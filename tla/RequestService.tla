--------------------------- MODULE RequestService ---------------------------
(***************************************************************************)
(* What timed_rx_file_mqtt promises the operator who triggers captures,    *)
(* without threads, clocks, radios or files: requests are taken in the     *)
(* order they came, each is answered exactly once, with an answer that     *)
(* fits that very request, and the daemon may stop at any time.            *)
(***************************************************************************)
EXTENDS Sequences

CONSTANTS
  Requests,  \* the messages that may be published on the command topic
  RepliesTo  \* RepliesTo[r]: the answers that fit request r

VARIABLES
  inbox,     \* requests received and not yet answered, oldest first
  answers,   \* every answer given so far, oldest first
  up         \* the daemon is running

vars == <<inbox, answers, up>>

Init ==
  /\ inbox = <<>>
  /\ answers = <<>>
  /\ up = TRUE

Submit(r) ==
  /\ up
  /\ inbox' = Append(inbox, r)
  /\ UNCHANGED <<answers, up>>

Answer ==
  /\ up
  /\ inbox # <<>>
  /\ \E a \in RepliesTo[Head(inbox)] : answers' = Append(answers, a)
  /\ inbox' = Tail(inbox)
  /\ UNCHANGED up

Stop ==
  /\ up' = FALSE
  /\ UNCHANGED <<inbox, answers>>

Next == (\E r \in Requests : Submit(r)) \/ Answer \/ Stop

Spec == Init /\ [][Next]_vars
=============================================================================

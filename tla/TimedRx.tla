------------------------------ MODULE TimedRx -------------------------------
(***************************************************************************)
(* The daemon timed_rx_file_mqtt as main() puts it together: the USRP      *)
(* thread, the MQTT client and the two queues between them, from the       *)
(* delivery of a request to the publication of its answer.                 *)
(*                                                                         *)
(* MqttClient is the control of the MQTT side and counts messages; a step  *)
(* here is one of its steps together with what happens to the messages.    *)
(* The USRP thread is a RequestService, which UsrpOps implements. An       *)
(* answer is represented by the request it is about.                       *)
(***************************************************************************)
EXTENDS Integers, Sequences

CONSTANTS
  Requests,         \* the messages that may be published on the command topic
  NoAnswer,         \* the publisher has nothing in hand
  N_RETRY_ATTEMPTS,
  MaxLosses,        \* bound: times an established connection is lost
  MaxMessages       \* bound: requests delivered

ASSUME RequestAssumption == NoAnswer \notin Requests

VARIABLES
  \* MqttClient's
  process, main, callback, nretry, conn, first, sub, events, attempts, losses,
  mail,        \* the requests of the "message" events, in order
  arrivals,    \* history: requests put on fromNetwork
  fromNetwork, \* requests not answered yet, the one in the thread's hand first
  toNetwork,   \* answers waiting for the publisher
  answers,     \* history: answers of the USRP thread
  msgStr,      \* the answer in the publisher's hand
  published    \* history: answers published

client ==
  <<process, main, callback, nretry, conn, first, sub, events, attempts, losses>>
requests == <<mail, arrivals, fromNetwork>>
replies == <<toNetwork, answers, msgStr, published>>
vars == <<client, requests, replies>>

Mqtt == INSTANCE MqttClient WITH
          fromNetwork <- Len(arrivals),
          toNetwork <- Len(toNetwork),
          produced <- Len(answers)

Usrp == INSTANCE RequestService WITH
          inbox <- fromNetwork,
          up <- process = "runs",
          RepliesTo <- [r \in Requests |-> {r}]

Init ==
  /\ mail = <<>> /\ arrivals = <<>> /\ fromNetwork = <<>>
  /\ toNetwork = <<>> /\ answers = <<>> /\ published = <<>>
  /\ msgStr = NoAnswer
  /\ Mqtt!Init

-----------------------------------------------------------------------------
(* Messages on their way *)

\* The broker delivers a request, perhaps for the second time (QoS 1).
Deliver(r) ==
  /\ mail' = Append(mail, r)
  /\ UNCHANGED <<arrivals, fromNetwork, replies>>
  /\ Mqtt!Deliver

\* Mutant: the queue is a stack.
MessageArrivedFirst ==
  /\ mail # <<>>
  /\ mail' = Tail(mail)
  /\ arrivals' = Append(arrivals, Head(mail))
  /\ fromNetwork' = <<Head(mail)>> \o fromNetwork
  /\ UNCHANGED replies
  /\ Mqtt!MessageArrived

\* message_arrived(): fromNetQ->addItem()
MessageArrived ==
  /\ mail # <<>>
  /\ mail' = Tail(mail)
  /\ arrivals' = Append(arrivals, Head(mail))
  /\ fromNetwork' = Append(fromNetwork, Head(mail))
  /\ UNCHANGED replies
  /\ Mqtt!MessageArrived

\* Mutant: the message for the network is never filled in.
UsrpAnswersNothing ==
  /\ UNCHANGED <<process, mail, arrivals, msgStr, published>>
  /\ Usrp!Answer
  /\ toNetwork' = Append(toNetwork, NoAnswer)
  /\ Mqtt!Produce

\* usrp_ops(): a turn of the loop, toNetwork->addItem()
UsrpAnswer ==
  /\ UNCHANGED <<process, mail, arrivals, msgStr, published>>
  /\ Usrp!Answer
  /\ toNetwork' = Append(toNetwork, Head(fromNetwork))
  /\ Mqtt!Produce

\* mqtt_publisher(): toNetwork->popItem()
PopAnswer ==
  /\ toNetwork # <<>>
  /\ msgStr' = Head(toNetwork)
  /\ toNetwork' = Tail(toNetwork)
  /\ UNCHANGED <<requests, answers, published>>
  /\ Mqtt!PopAnswer

\* Mutant: the answer in hand is not sent.
PublishDrops ==
  /\ msgStr' = NoAnswer
  /\ UNCHANGED <<requests, toNetwork, answers, published>>
  /\ Mqtt!Publish

\* mqtt_publisher(): top.publish()
Publish ==
  /\ published' = Append(published, msgStr)
  /\ msgStr' = NoAnswer
  /\ UNCHANGED <<requests, toNetwork, answers>>
  /\ Mqtt!Publish

-----------------------------------------------------------------------------
(* Steps that move no message *)

Connecting == Mqtt!Connect \/ Mqtt!ConnectSucceeded \/ Mqtt!ConnectFailed

Callbacks ==
  \/ Mqtt!ConnectedCallback \/ Mqtt!Announce \/ Mqtt!Subscribe
  \/ Mqtt!CallbackThrows \/ Mqtt!ConnectionLost \/ Mqtt!OnFailureRetries
  \/ Mqtt!OnFailureExits \/ Mqtt!Reconnect \/ Mqtt!ReconnectThrows

Quietly(A) == UNCHANGED <<requests, replies>> /\ A

MainThread == PopAnswer \/ Publish \/ Quietly(Connecting \/ Mqtt!PublishThrows)

LibraryThread == MessageArrived \/ Quietly(Callbacks)

Broker ==
  \/ \E r \in Requests : Deliver(r)
  \/ Quietly(Mqtt!Report \/ Mqtt!Lose)

Next ==
  \/ MainThread \/ LibraryThread \/ UsrpAnswer \/ Quietly(Mqtt!UsrpEnds)
  \/ Broker

Spec == Init /\ [][Next]_vars

\* The three threads run, and so does the network when it owes an outcome.
FairSpec ==
  /\ Spec
  /\ WF_vars(MainThread) /\ WF_vars(LibraryThread) /\ WF_vars(UsrpAnswer)
  /\ WF_vars(Quietly(Mqtt!Report))

-----------------------------------------------------------------------------
(* Properties *)

\* The messages have their types; MqttClient has those of the other variables.
TypeOK ==
  /\ mail \in Seq(Requests) /\ arrivals \in Seq(Requests)
  /\ fromNetwork \in Seq(Requests)
  /\ toNetwork \in Seq(Requests) /\ answers \in Seq(Requests)
  /\ published \in Seq(Requests)
  /\ msgStr \in Requests \cup {NoAnswer}
  /\ main = "publish" <=> msgStr # NoAnswer

\* Received, and its answer not published yet: in the publisher's hand, on one
\* of the queues, or with the USRP thread.
Unpublished ==
  (IF msgStr = NoAnswer THEN <<>> ELSE <<msgStr>>) \o toNetwork \o fromNetwork

RS == INSTANCE RequestService WITH
        inbox <- Unpublished,
        answers <- published,
        up <- process = "runs",
        RepliesTo <- [r \in Requests |-> {r}]

\* Seen from the broker the whole daemon is a request service as well: with
\* three threads and two queues in between, and connections coming and going,
\* answers are published in the order the requests came, once each, until the
\* process ends.
ServesFromEndToEnd == RS!Spec

\* A request that arrived is answered on the broker's side, or the process
\* ends: no thread waits for ever on a queue that has something for it.
AnsweredOrEnded ==
  \A k \in 1..MaxMessages :
    Len(arrivals) >= k ~> Len(published) >= k \/ process # "runs"
=============================================================================

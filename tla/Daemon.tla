------------------------------- MODULE Daemon -------------------------------
(***************************************************************************)
(* timed_rx_file_mqtt with nothing abstracted between the broker and the   *)
(* radio: the USRP thread is UsrpOps, step by step, the MQTT side is       *)
(* MqttClient, and the queues between them carry the messages and answers  *)
(* themselves. TimedRx is the same program with a RequestService in place  *)
(* of the USRP thread.                                                     *)
(*                                                                         *)
(* The threads share the two queues and the end of the process. A step     *)
(* that uses a queue is a step of both components, any other step is one   *)
(* of a single component.                                                  *)
(***************************************************************************)
EXTENDS UsrpOps

CONSTANTS
  N_RETRY_ATTEMPTS,
  MaxLosses      \* bound: times an established connection is lost

VARIABLES
  \* MqttClient's
  process, main, callback, nretry, conn, first, sub, events, attempts, losses,
  mail,      \* the requests of the "message" events, in order
  arrivals,  \* history: requests put on fromNetwork
  msgStr,    \* the answer in the publisher's hand, if it has one
  published  \* history: answers published

client ==
  <<process, main, callback, nretry, conn, first, sub, events, attempts, losses>>
carried == <<mail, arrivals, msgStr, published>>
daemon == <<vars, client, carried>>

Mqtt == INSTANCE MqttClient WITH
          fromNetwork <- Len(arrivals),
          toNetwork <- Len(toNetwork),
          produced <- Len(answers),
          MaxMessages <- MaxArrivals

DaemonInit ==
  /\ mail = <<>> /\ arrivals = <<>> /\ msgStr = <<>> /\ published = <<>>
  /\ Init
  /\ Mqtt!Init

-----------------------------------------------------------------------------
(* The USRP thread *)

UsrpStep == UsrpThread \/ Outside

\* Between popItem() and addItem() the thread is on its own.
UsrpWorks ==
  /\ process = "runs"
  /\ UsrpStep \/ Tick \/ Drift
  /\ pc' # "dead" /\ answers' = answers
  /\ UNCHANGED <<client, carried>>

\* toNetwork->addItem()
UsrpAnswers ==
  /\ UsrpStep /\ answers' # answers
  /\ UNCHANGED carried
  /\ Mqtt!Produce

\* exit() in set_sample_rate(), or an exception out of the thread function,
\* ends the other threads too.
UsrpDies ==
  /\ UsrpStep /\ pc' = "dead"
  /\ UNCHANGED carried
  /\ Mqtt!UsrpEnds

-----------------------------------------------------------------------------
(* The MQTT side *)

\* The broker delivers a request, perhaps for the second time (QoS 1).
Deliver(r) ==
  /\ mail' = Append(mail, r)
  /\ UNCHANGED <<vars, arrivals, msgStr, published>>
  /\ Mqtt!Deliver

\* message_arrived(): fromNetQ->addItem()
MessageArrived ==
  /\ mail # <<>>
  /\ mail' = Tail(mail)
  /\ arrivals' = Append(arrivals, Head(mail))
  /\ UNCHANGED <<msgStr, published>>
  /\ Arrive(Head(mail))
  /\ Mqtt!MessageArrived

\* mqtt_publisher(): toNetwork->popItem()
PopAnswer ==
  /\ TakeReply
  /\ msgStr' = <<Head(toNetwork)>>
  /\ UNCHANGED <<mail, arrivals, published>>
  /\ Mqtt!PopAnswer

\* mqtt_publisher(): top.publish()
Publish ==
  /\ published' = published \o msgStr
  /\ msgStr' = <<>>
  /\ UNCHANGED <<vars, mail, arrivals>>
  /\ Mqtt!Publish

\* Connecting, losing the connection and giving up move no message.
Control ==
  /\ UNCHANGED <<vars, carried>>
  /\ \/ Mqtt!Connect \/ Mqtt!ConnectSucceeded \/ Mqtt!ConnectFailed
     \/ Mqtt!PublishThrows
     \/ Mqtt!ConnectedCallback \/ Mqtt!Announce \/ Mqtt!Subscribe
     \/ Mqtt!CallbackThrows \/ Mqtt!ConnectionLost \/ Mqtt!OnFailureRetries
     \/ Mqtt!OnFailureExits \/ Mqtt!Reconnect \/ Mqtt!ReconnectThrows
     \/ Mqtt!Report \/ Mqtt!Lose

DaemonNext ==
  \/ UsrpWorks \/ UsrpAnswers \/ UsrpDies
  \/ (\E r \in Requests : Deliver(r)) \/ MessageArrived
  \/ PopAnswer \/ Publish \/ Control

DaemonSpec == DaemonInit /\ [][DaemonNext]_daemon

-----------------------------------------------------------------------------
(* Properties *)

\* Each component behaves in the daemon as it does on its own, so that what is
\* shown of it holds here.
RunsUsrpOps == Spec
RunsMqttClient == Mqtt!Spec

\* Received, and its answer not published yet.
Outstanding == SubSeq(arrivals, Len(published) + 1, Len(arrivals))

EndToEnd == INSTANCE RequestService WITH
              inbox <- Outstanding,
              answers <- published,
              up <- process = "runs"

\* Seen from the broker, the daemon publishes one answer for each request, in
\* the order the requests came, and each answer is one that fits the request:
\* it names that request's own file or start.
ServesFromEndToEnd == EndToEnd!Spec
=============================================================================

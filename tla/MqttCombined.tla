---------------------------- MODULE MqttCombined ----------------------------
(***************************************************************************)
(* The program mqtt_combined_pubsub, from which the daemon's MQTT side was *)
(* made. Its CallbackHelper, publisher and connection code are older       *)
(* copies of the daemon's: where a copy does the same it is an action of   *)
(* MqttClient here. What differs is connected(), which announces nothing,  *)
(* and the thread behind the queues, a dummy that answers at once and      *)
(* never ends the process.                                                 *)
(*                                                                         *)
(* The variables are those of TimedRx. An answer is represented by the     *)
(* request it is about.                                                    *)
(***************************************************************************)
EXTENDS Integers, Sequences

CONSTANTS
  Requests,         \* the messages that may be published on "command"
  NoAnswer,         \* the publisher has nothing in hand
  N_RETRY_ATTEMPTS,
  MaxLosses,        \* bound: times an established connection is lost
  MaxMessages       \* bound: requests delivered

VARIABLES
  process, main, callback, nretry, conn, first, sub, events, attempts, losses,
  mail, arrivals, fromNetwork, toNetwork, answers, msgStr, published

requests == <<mail, arrivals, fromNetwork>>
replies == <<toNetwork, answers, msgStr, published>>

Mqtt == INSTANCE MqttClient WITH
          fromNetwork <- Len(arrivals),
          toNetwork <- Len(toNetwork),
          produced <- Len(answers)

Quietly(A) == UNCHANGED <<requests, replies>> /\ A

\* main(): two queues, the dummy processor's thread, then the MQTT side.
Init ==
  /\ mail = <<>> /\ arrivals = <<>> /\ fromNetwork = <<>>
  /\ toNetwork = <<>> /\ answers = <<>> /\ published = <<>>
  /\ msgStr = NoAnswer
  /\ Mqtt!Init

-----------------------------------------------------------------------------
(* CallbackHelper *)

Reconnect == Quietly(Mqtt!Reconnect \/ Mqtt!ReconnectThrows)

OnFailure == Quietly(Mqtt!OnFailureRetries \/ Mqtt!OnFailureExits)

\* connected() subscribes and does nothing else.
ConnectedCallback ==
  /\ Mqtt!Event("connected")
  /\ callback' = "subscribe"
  /\ UNCHANGED <<process, main, nretry, conn, first, sub, attempts, losses>>
  /\ UNCHANGED <<requests, replies>>

Subscribe == Quietly(Mqtt!Subscribe \/ Mqtt!CallbackThrows)

ConnectionLost == Quietly(Mqtt!ConnectionLost)

MessageArrived ==
  /\ mail # <<>>
  /\ mail' = Tail(mail)
  /\ arrivals' = Append(arrivals, Head(mail))
  /\ fromNetwork' = Append(fromNetwork, Head(mail))
  /\ UNCHANGED replies
  /\ Mqtt!MessageArrived

Callbacks ==
  \/ Reconnect \/ OnFailure \/ ConnectedCallback \/ Subscribe
  \/ ConnectionLost \/ MessageArrived

-----------------------------------------------------------------------------
(* The main thread and the dummy processor *)

\* mqtt_pubsub_ops() up to the first connection
Connecting ==
  Quietly(Mqtt!Connect \/ Mqtt!ConnectSucceeded \/ Mqtt!ConnectFailed)

\* mqtt_publisher(): popItem() ...
PopAnswer ==
  /\ toNetwork # <<>>
  /\ msgStr' = Head(toNetwork)
  /\ toNetwork' = Tail(toNetwork)
  /\ UNCHANGED <<requests, answers, published>>
  /\ Mqtt!PopAnswer

\* ... and publish(), which throws while the client is not connected.
Publish ==
  \/ /\ published' = Append(published, msgStr)
     /\ msgStr' = NoAnswer
     /\ UNCHANGED <<requests, toNetwork, answers>>
     /\ Mqtt!Publish
  \/ Quietly(Mqtt!PublishThrows)

MainThread == Connecting \/ PopAnswer \/ Publish

\* dummyProcessor(): "processed request at ..." or "invalid request" for each
\* message, whatever the number of conversions.
DummyProcessor ==
  /\ fromNetwork # <<>>
  /\ fromNetwork' = Tail(fromNetwork)
  /\ toNetwork' = Append(toNetwork, Head(fromNetwork))
  /\ answers' = Append(answers, Head(fromNetwork))
  /\ UNCHANGED <<process, mail, arrivals, msgStr, published>>
  /\ Mqtt!Produce

-----------------------------------------------------------------------------
(* The broker *)

Deliver(r) ==
  /\ mail' = Append(mail, r)
  /\ UNCHANGED <<arrivals, fromNetwork, replies>>
  /\ Mqtt!Deliver

Next ==
  \/ MainThread \/ Callbacks \/ DummyProcessor
  \/ \E r \in Requests : Deliver(r)
  \/ Quietly(Mqtt!Report \/ Mqtt!Lose)
=============================================================================

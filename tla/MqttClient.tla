----------------------------- MODULE MqttClient -----------------------------
(***************************************************************************)
(* The MQTT side of timed_rx_file_mqtt: mqtt_pubsub_ops() and then         *)
(* mqtt_publisher() in the main thread, the callbacks of CallbackHelper in *)
(* the library's thread, the library itself and a broker that comes and    *)
(* goes. The two queues are numbers of messages here.                      *)
(*                                                                         *)
(* The library is modelled from its use: it runs one callback at a time,   *)
(* in the order of the events, publish() and subscribe() throw when the    *)
(* client is not connected, and connect() throws when the client is not    *)
(* down, or when it cannot even begin.                                     *)
(***************************************************************************)
EXTENDS Integers, Sequences

CONSTANTS
  N_RETRY_ATTEMPTS,
  MaxLosses,   \* bound: times an established connection is lost
  MaxMessages  \* bound: requests delivered, and answers to publish

ASSUME BoundAssumption ==
  N_RETRY_ATTEMPTS \in Nat /\ MaxLosses \in Nat /\ MaxMessages \in Nat

VARIABLES
  process,     \* "runs", "exited" or "terminated" by an exception
  main,        \* where the main thread is
  callback,    \* what the library's thread does next for the current event
  nretry,      \* nretry_
  conn,        \* "down", "connecting" or "up"
  first,       \* token of the first connect(): "none", "ok" or "failed"
  sub,         \* subscription at the broker: "none", "sent" or "active"
  events,      \* callbacks to come
  fromNetwork, \* requests on the queue
  toNetwork,   \* answers on the queue
  attempts,    \* history: connect() calls since the connection was last up
  losses,      \* history: connections lost
  produced     \* history: answers the USRP thread has made

helper == <<callback, nretry>>
library == <<conn, first, sub, events>>
messages == <<fromNetwork, toNetwork, produced>>
history == <<attempts, losses>>
vars == <<process, main, helper, library, messages, history>>

Init ==
  /\ process = "runs" /\ main = "connect" /\ callback = "idle" /\ nretry = 0
  /\ conn = "down" /\ first = "none" /\ sub = "none" /\ events = <<>>
  /\ fromNetwork = 0 /\ toNetwork = 0 /\ produced = 0
  /\ attempts = 0 /\ losses = 0

Running == process = "runs"

\* exit(1), or an exception that nobody catches.
End(how) ==
  process' = how /\ UNCHANGED <<main, helper, library, messages, history>>

\* async_client::connect() begins: the result comes as an event.
StartConnect ==
  /\ conn = "down"
  /\ conn' = "connecting"
  /\ attempts' = attempts + 1
  /\ UNCHANGED <<first, sub, events, losses>>

-----------------------------------------------------------------------------
(* The main thread *)

\* client.connect(connOpts, nullptr, cb)
Connect ==
  /\ Running /\ main = "connect"
  /\ main' = "wait"
  /\ StartConnect
  /\ UNCHANGED <<process, helper, messages>>

\* ->wait()
ConnectSucceeded ==
  /\ Running /\ main = "wait" /\ first = "ok"
  /\ main' = "pop"
  /\ UNCHANGED <<process, helper, library, messages, history>>

\* connect() or wait() throws, and the handler calls exit(1).
ConnectFailed ==
  /\ Running /\ (main = "connect" \/ (main = "wait" /\ first = "failed"))
  /\ End("exited")

\* Mutant: popItem() does not wait.
PopAnswerNoWait ==
  /\ Running /\ main = "pop"
  /\ main' = "publish"
  /\ toNetwork' = toNetwork - 1
  /\ UNCHANGED <<process, helper, library, fromNetwork, produced, history>>

\* toNetwork->popItem()
PopAnswer ==
  /\ Running /\ main = "pop" /\ toNetwork > 0
  /\ main' = "publish"
  /\ toNetwork' = toNetwork - 1
  /\ UNCHANGED <<process, helper, library, fromNetwork, produced, history>>

\* top.publish(msgStr)
Publish ==
  /\ Running /\ main = "publish" /\ conn = "up"
  /\ main' = "pop"
  /\ UNCHANGED <<process, helper, library, messages, history>>

\* Mutant: the publisher catches the exception and connects again itself.
PublishThrowsReconnects ==
  /\ Running /\ main = "publish" /\ conn # "up"
  /\ main' = "connect"
  /\ UNCHANGED <<process, helper, library, messages, history>>

\* top.publish(msgStr) throws, and nobody catches.
PublishThrows ==
  /\ Running /\ main = "publish" /\ conn # "up"
  /\ End("terminated")

-----------------------------------------------------------------------------
(* CallbackHelper, in the thread of the library *)

Event(e) ==
  /\ Running /\ callback = "idle"
  /\ events # <<>> /\ Head(events) = e
  /\ events' = Tail(events)

\* connected()
ConnectedCallback ==
  /\ Event("connected")
  /\ callback' = "announce"
  /\ UNCHANGED <<process, main, nretry, conn, first, sub, messages, history>>

\* Mutant: connected() only says so, it does not subscribe.
AnnounceOnly ==
  /\ Running /\ callback = "announce" /\ conn = "up"
  /\ callback' = "idle"
  /\ UNCHANGED <<process, main, nretry, library, messages, history>>

\* cli_.publish(pubTopic, on_msg)
Announce ==
  /\ Running /\ callback = "announce" /\ conn = "up"
  /\ callback' = "subscribe"
  /\ UNCHANGED <<process, main, nretry, library, messages, history>>

\* cli_.subscribe(subTopic, QOS)
Subscribe ==
  /\ Running /\ callback = "subscribe" /\ conn = "up"
  /\ callback' = "idle"
  /\ sub' = "sent"
  /\ UNCHANGED <<process, main, nretry, conn, first, events, messages, history>>

\* Either call finds the connection gone again.
CallbackThrows ==
  /\ Running /\ callback \in {"announce", "subscribe"} /\ conn # "up"
  /\ End("terminated")

\* connection_lost()
ConnectionLost ==
  /\ Event("lost")
  /\ nretry' = 0
  /\ callback' = "reconnect"
  /\ UNCHANGED <<process, main, conn, first, sub, messages, history>>

\* Mutant: the counter is looked at before it is incremented.
OnFailureRetriesPostIncrement ==
  /\ Event("failed")
  /\ nretry < N_RETRY_ATTEMPTS + 1
  /\ nretry' = nretry + 1
  /\ callback' = "reconnect"
  /\ UNCHANGED <<process, main, conn, first, sub, messages, history>>

\* on_failure(): ++nretry_ is within N_RETRY_ATTEMPTS
OnFailureRetries ==
  /\ Event("failed")
  /\ nretry < N_RETRY_ATTEMPTS
  /\ nretry' = nretry + 1
  /\ callback' = "reconnect"
  /\ UNCHANGED <<process, main, conn, first, sub, messages, history>>

\* on_failure(): too many attempts, exit(1)
OnFailureExits ==
  /\ Event("failed")
  /\ nretry >= N_RETRY_ATTEMPTS
  /\ nretry' = nretry + 1
  /\ process' = "exited"
  /\ UNCHANGED <<main, callback, conn, first, sub, messages, history>>

\* Mutant: reconnect() returns without connecting.
ReconnectOnlySleeps ==
  /\ Running /\ callback = "reconnect"
  /\ callback' = "idle"
  /\ UNCHANGED <<process, main, nretry, library, messages, history>>

\* reconnect(), after its 100 ms
Reconnect ==
  /\ Running /\ callback = "reconnect"
  /\ callback' = "idle"
  /\ StartConnect
  /\ UNCHANGED <<process, main, nretry, messages>>

\* connect() throws in reconnect(), and the handler calls exit(1).
ReconnectThrows == Running /\ callback = "reconnect" /\ End("exited")

\* message_arrived()
MessageArrived ==
  /\ Event("message")
  /\ fromNetwork' = fromNetwork + 1
  /\ UNCHANGED <<process, main, helper, conn, first, sub, toNetwork, produced,
                 history>>

Main ==
  \/ Connect \/ ConnectSucceeded \/ ConnectFailed
  \/ PopAnswer \/ Publish \/ PublishThrows

Callbacks ==
  \/ ConnectedCallback \/ Announce \/ Subscribe \/ CallbackThrows
  \/ ConnectionLost \/ OnFailureRetries \/ OnFailureExits \/ Reconnect
  \/ ReconnectThrows \/ MessageArrived

-----------------------------------------------------------------------------
(* The broker and the network, as the library reports them *)

Outcome(result) == first' = IF first = "none" THEN result ELSE first

Accept ==
  /\ Running /\ conn = "connecting"
  /\ conn' = "up"
  /\ events' = Append(events, "connected")
  /\ Outcome("ok")
  /\ attempts' = 0
  /\ UNCHANGED <<process, main, helper, sub, messages, losses>>

Refuse ==
  /\ Running /\ conn = "connecting"
  /\ conn' = "down"
  /\ events' = Append(events, "failed")
  /\ Outcome("failed")
  /\ UNCHANGED <<process, main, helper, sub, messages, history>>

\* The session is clean: the broker forgets the subscription.
Lose ==
  /\ Running /\ conn = "up" /\ losses < MaxLosses
  /\ conn' = "down"
  /\ sub' = "none"
  /\ events' = Append(events, "lost")
  /\ losses' = losses + 1
  /\ UNCHANGED <<process, main, helper, first, messages, attempts>>

AckSubscribe ==
  /\ Running /\ sub = "sent"
  /\ sub' = "active"
  /\ UNCHANGED <<process, main, helper, conn, first, events, messages, history>>

Arrivals == fromNetwork + Len(SelectSeq(events, LAMBDA e : e = "message"))

Deliver ==
  /\ Running /\ sub = "active" /\ Arrivals < MaxMessages
  /\ events' = Append(events, "message")
  /\ UNCHANGED <<process, main, helper, conn, first, sub, messages, history>>

\* The USRP thread answers something.
Produce ==
  /\ Running /\ produced < MaxMessages
  /\ produced' = produced + 1
  /\ toNetwork' = toNetwork + 1
  /\ UNCHANGED <<process, main, helper, library, fromNetwork, history>>

\* exit() in set_sample_rate(), or an exception out of usrp_ops().
UsrpEnds == Running /\ End("exited")

Report == Accept \/ Refuse \/ AckSubscribe

Next == Main \/ Callbacks \/ Report \/ Lose \/ Deliver \/ Produce \/ UsrpEnds

Spec == Init /\ [][Next]_vars

\* Both threads run, and the library reports how a connect() ended and
\* forwards the acknowledgement of a subscription. Nobody has to accept a
\* connection, keep it, or send or answer anything.
FairSpec ==
  /\ Spec
  /\ WF_vars(Main) /\ WF_vars(Callbacks)
  /\ WF_vars(Accept \/ Refuse) /\ WF_vars(AckSubscribe)

-----------------------------------------------------------------------------
(* Properties *)

TypeOK ==
  /\ process \in {"runs", "exited", "terminated"}
  /\ main \in {"connect", "wait", "pop", "publish"}
  /\ callback \in {"idle", "announce", "subscribe", "reconnect"}
  /\ nretry \in Nat
  /\ conn \in {"down", "connecting", "up"}
  /\ first \in {"none", "ok", "failed"}
  /\ sub \in {"none", "sent", "active"}
  /\ events \in Seq({"connected", "lost", "failed", "message"})
  /\ fromNetwork \in Nat /\ toNetwork \in Nat /\ produced \in Nat
  /\ attempts \in Nat /\ losses \in Nat

Pending(e) == \E i \in DOMAIN events : events[i] = e

\* Once the callbacks of a connection have run, its subscription is under way:
\* requests are received again after every outage, although the broker forgets
\* the subscription and three parties take part in restoring it.
ConnectedMeansSubscribed ==
  Running /\ conn = "up" /\ callback = "idle" /\ ~Pending("connected")
    => sub # "none"

\* An outage is answered with one connect() and N_RETRY_ATTEMPTS retries at
\* most: nretry_ starts anew with each lost connection and only there.
AttemptsBounded == attempts <= N_RETRY_ATTEMPTS + 1

\* connect() is only called on a client that is neither connected nor
\* connecting, where it would throw and end the process: the callbacks never
\* overlap with each other or with the first connect() of the main thread.
OneConnectAtATime ==
  Running /\ (main = "connect" \/ callback = "reconnect") => conn = "down"

\* If connections are not lost for ever, a client that is down is subscribed
\* again some time, or has given up.
RestoredOrEnded == conn = "down" ~> sub = "active" \/ ~Running

\* A lost connection is restored (the comment on CallbackHelper), rather than
\* ending the process with an exception.
OutageSurvived == process # "terminated"
=============================================================================

-------------------------- MODULE MqttClientProofs --------------------------
(***************************************************************************)
(* The safety properties of MqttClient, for every number of retries,       *)
(* losses and messages.                                                    *)
(***************************************************************************)
EXTENDS MqttClient, TLAPS

(* What keeps the parties apart: a report of a failed or lost connection   *)
(* is the last event there is until it is answered with a connect(), so    *)
(* that a connect() under way finds nobody else at work.                   *)

StartsQuietly == main = "connect" => conn = "down" /\ events = <<>> /\ callback = "idle"

ReconnectsQuietly ==
  callback = "reconnect" => conn = "down" /\ events = <<>> /\ main # "connect"

ConnectsQuietly ==
  conn = "connecting" => callback = "idle" /\ events = <<>> /\ main # "connect"

BadNewsIsLast ==
  \A i \in DOMAIN events :
    events[i] \in {"lost", "failed"} => i = Len(events) /\ conn = "down"

GoodNewsIsFirst ==
  \A i \in DOMAIN events : events[i] = "connected" => i = 1 /\ callback = "idle"

SubscribedWhileUp ==
  sub # "none" => conn = "up" /\ callback = "idle" /\ ~Pending("connected")

UpIsFollowed ==
  conn = "up" =>
    sub # "none" \/ callback \in {"announce", "subscribe"} \/ Pending("connected")

(* The counter of the code against the true number of attempts.            *)

RetriesCounted ==
  /\ Running => nretry <= N_RETRY_ATTEMPTS
  /\ attempts <= nretry + 1
  /\ callback = "reconnect" => attempts <= nretry
  /\ conn = "up" \/ main = "connect" => attempts = 0
  /\ Pending("lost") => attempts = 0

Inv ==
  /\ TypeOK
  /\ StartsQuietly /\ ReconnectsQuietly /\ ConnectsQuietly
  /\ BadNewsIsLast /\ GoodNewsIsFirst
  /\ SubscribedWhileUp /\ UpIsFollowed
  /\ RetriesCounted /\ AttemptsBounded

-----------------------------------------------------------------------------
(* The queue of events *)

EventNames == {"connected", "lost", "failed", "message"}

LEMMA TakeFacts ==
  ASSUME NEW s \in Seq(EventNames), s # <<>>
  PROVE  /\ Len(s) \in Nat \ {0} /\ Head(s) = s[1] /\ 1 \in DOMAIN s
         /\ Tail(s) \in Seq(EventNames) /\ Len(Tail(s)) = Len(s) - 1
         /\ \A i \in DOMAIN Tail(s) : i + 1 \in DOMAIN s /\ Tail(s)[i] = s[i + 1]
         /\ Len(s) = 1 => Tail(s) = <<>>
OBVIOUS

LEMMA AppendFacts ==
  ASSUME NEW s \in Seq(EventNames), NEW e \in EventNames
  PROVE  /\ Append(s, e) \in Seq(EventNames) /\ Len(Append(s, e)) = Len(s) + 1
         /\ Len(s) + 1 \in DOMAIN Append(s, e) /\ Append(s, e)[Len(s) + 1] = e
         /\ \A i \in DOMAIN s : i \in DOMAIN Append(s, e) /\ Append(s, e)[i] = s[i]
         /\ \A i \in DOMAIN Append(s, e) : i = Len(s) + 1 \/ i \in DOMAIN s
OBVIOUS

-----------------------------------------------------------------------------
(* The invariant *)

LEMMA InitInv == Init => Inv
BY BoundAssumption
DEF Init, Inv, TypeOK, StartsQuietly, ReconnectsQuietly, ConnectsQuietly,
    BadNewsIsLast, GoodNewsIsFirst, SubscribedWhileUp, UpIsFollowed,
    RetriesCounted, AttemptsBounded, Pending

\* An event that is a bad report is the only one, and is gone when its
\* callback runs.
LEMMA BadNewsIsAlone ==
  ASSUME Inv, NEW e \in {"lost", "failed"}, Event(e)
  PROVE  /\ conn = "down" /\ events' = <<>> /\ main # "connect"
         /\ callback = "idle" /\ sub = "none"
         /\ e = "lost" => attempts = 0
<1>1. events \in Seq(EventNames) /\ events # <<>> /\ events[1] = e
  BY TakeFacts DEF Inv, TypeOK, EventNames, Event
<1>2. 1 = Len(events) /\ conn = "down" /\ 1 \in DOMAIN events
  BY <1>1, TakeFacts DEF Inv, BadNewsIsLast
<1>3. events' = <<>>
  BY <1>1, <1>2, TakeFacts DEF Event
<1>4. sub = "none"
  BY <1>2 DEF Inv, SubscribedWhileUp
<1> QED
  BY <1>1, <1>2, <1>3, <1>4
  DEF Inv, StartsQuietly, RetriesCounted, Pending, Event

\* Once an event is taken, no report of a connection is left.
LEMMA EventFacts ==
  ASSUME Inv, NEW e \in EventNames, Event(e)
  PROVE  /\ events' \in Seq(EventNames) /\ events # <<>> /\ callback = "idle"
         /\ \A i \in DOMAIN events' :
              /\ events'[i] # "connected"
              /\ i + 1 \in DOMAIN events /\ events'[i] = events[i + 1]
         /\ Len(events') = Len(events) - 1 /\ Len(events) \in Nat
         /\ Pending(e)
<1>1. /\ events \in Seq(EventNames) /\ events # <<>> /\ events' = Tail(events)
      /\ callback = "idle" /\ Head(events) = e
  BY DEF Inv, TypeOK, EventNames, Event
<1>2. \A i \in DOMAIN events' : i \in Nat \ {0} /\ events'[i] = events[i + 1]
                                /\ i + 1 \in DOMAIN events
  BY <1>1, TakeFacts
<1>3. \A i \in DOMAIN events' : events'[i] # "connected"
  BY <1>2 DEF Inv, GoodNewsIsFirst
<1>4. Pending(e)
  BY <1>1, TakeFacts DEF Pending
<1> QED
  BY <1>1, <1>2, <1>3, <1>4, TakeFacts

\* The conjuncts that look into the queue, after an event was taken while the
\* connection stayed as it was.
LEMMA EventKeepsOrder ==
  ASSUME Inv, NEW e \in EventNames, Event(e), conn' = conn
  PROVE  /\ BadNewsIsLast' /\ GoodNewsIsFirst' /\ ~Pending("connected")'
         /\ Pending("lost")' => Pending("lost")
<1>1. BadNewsIsLast'
  BY EventFacts DEF BadNewsIsLast, Inv
<1>2. GoodNewsIsFirst' /\ ~Pending("connected")'
  BY EventFacts DEF GoodNewsIsFirst, Pending
<1>3. Pending("lost")' => Pending("lost")
  BY EventFacts DEF Pending
<1> QED
  BY <1>1, <1>2, <1>3

LEMMA MainInv == Inv /\ Main => Inv'
<1> SUFFICES ASSUME Inv, Main PROVE Inv'
  OBVIOUS
<1> USE BoundAssumption DEF Inv, vars, helper, library, messages, history
<1>1. CASE Connect
  BY <1>1
  DEF Connect, StartConnect, TypeOK, StartsQuietly, ReconnectsQuietly,
      ConnectsQuietly, BadNewsIsLast, GoodNewsIsFirst, SubscribedWhileUp,
      UpIsFollowed, RetriesCounted, AttemptsBounded, Pending, Running
<1>2. CASE ConnectSucceeded \/ PopAnswer \/ Publish
  BY <1>2
  DEF ConnectSucceeded, PopAnswer, Publish, TypeOK, StartsQuietly,
      ReconnectsQuietly, ConnectsQuietly, BadNewsIsLast, GoodNewsIsFirst,
      SubscribedWhileUp, UpIsFollowed, RetriesCounted, AttemptsBounded, Pending,
      Running
<1>3. CASE ConnectFailed \/ PublishThrows
  BY <1>3
  DEF ConnectFailed, PublishThrows, End, TypeOK, StartsQuietly,
      ReconnectsQuietly, ConnectsQuietly, BadNewsIsLast, GoodNewsIsFirst,
      SubscribedWhileUp, UpIsFollowed, RetriesCounted, AttemptsBounded, Pending,
      Running
<1> QED
  BY <1>1, <1>2, <1>3 DEF Main

LEMMA CallbacksInv == Inv /\ Callbacks => Inv'
<1> SUFFICES ASSUME Inv, Callbacks PROVE Inv'
  OBVIOUS
<1> USE BoundAssumption DEF Inv, vars, helper, library, messages, history
<1>1. CASE ConnectedCallback
  <2>1. Event("connected") /\ conn' = conn
    BY <1>1 DEF ConnectedCallback
  <2>2. BadNewsIsLast' /\ GoodNewsIsFirst' /\ ~Pending("connected")'
        /\ (Pending("lost")' => Pending("lost")) /\ Pending("connected")
        /\ events' \in Seq(EventNames) /\ events # <<>>
    BY <2>1, EventKeepsOrder, EventFacts DEF EventNames
  <2>3. sub = "none"
    BY <2>2 DEF SubscribedWhileUp
  <2> QED
    BY <1>1, <2>2, <2>3
    DEF ConnectedCallback, Event, TypeOK, EventNames, StartsQuietly,
        ReconnectsQuietly, ConnectsQuietly, SubscribedWhileUp, UpIsFollowed,
        RetriesCounted, AttemptsBounded, Running
<1>2. CASE MessageArrived
  <2>1. Event("message") /\ conn' = conn
    BY <1>2 DEF MessageArrived
  <2>2. BadNewsIsLast' /\ GoodNewsIsFirst' /\ ~Pending("connected")'
        /\ (Pending("lost")' => Pending("lost"))
        /\ events' \in Seq(EventNames) /\ events # <<>>
    BY <2>1, EventKeepsOrder, EventFacts DEF EventNames
  <2>3. ~Pending("connected")
    <3>1. events \in Seq(EventNames) /\ events # <<>> /\ events[1] = "message"
      BY <2>1, TakeFacts DEF TypeOK, EventNames, Event
    <3> QED
      BY <3>1 DEF Pending, GoodNewsIsFirst
  <2> QED
    BY <1>2, <2>2, <2>3
    DEF MessageArrived, Event, TypeOK, EventNames, StartsQuietly,
        ReconnectsQuietly, ConnectsQuietly, SubscribedWhileUp, UpIsFollowed,
        RetriesCounted, AttemptsBounded, Running
<1>3. CASE ConnectionLost
  <2>1. /\ conn = "down" /\ events' = <<>> /\ main # "connect" /\ sub = "none"
        /\ attempts = 0
    BY <1>3, BadNewsIsAlone DEF ConnectionLost
  <2> QED
    BY <1>3, <2>1
    DEF ConnectionLost, TypeOK, StartsQuietly, ReconnectsQuietly,
        ConnectsQuietly, BadNewsIsLast, GoodNewsIsFirst, SubscribedWhileUp,
        UpIsFollowed, RetriesCounted, AttemptsBounded, Pending, Running
<1>4. CASE OnFailureRetries \/ OnFailureExits
  <2>1. /\ conn = "down" /\ events' = <<>> /\ main # "connect" /\ sub = "none"
        /\ callback = "idle"
    BY <1>4, BadNewsIsAlone DEF OnFailureRetries, OnFailureExits
  <2> QED
    BY <1>4, <2>1
    DEF OnFailureRetries, OnFailureExits, TypeOK, StartsQuietly,
        ReconnectsQuietly, ConnectsQuietly, BadNewsIsLast, GoodNewsIsFirst,
        SubscribedWhileUp, UpIsFollowed, RetriesCounted, AttemptsBounded,
        Pending, Running
<1>5. CASE Announce \/ Subscribe
  BY <1>5
  DEF Announce, Subscribe, TypeOK, StartsQuietly, ReconnectsQuietly,
      ConnectsQuietly, BadNewsIsLast, GoodNewsIsFirst, SubscribedWhileUp,
      UpIsFollowed, RetriesCounted, AttemptsBounded, Pending, Running
<1>6. CASE CallbackThrows \/ ReconnectThrows
  BY <1>6
  DEF CallbackThrows, ReconnectThrows, End, TypeOK, StartsQuietly, ReconnectsQuietly,
      ConnectsQuietly, BadNewsIsLast, GoodNewsIsFirst, SubscribedWhileUp,
      UpIsFollowed, RetriesCounted, AttemptsBounded, Pending, Running
<1>7. CASE Reconnect
  BY <1>7
  DEF Reconnect, StartConnect, TypeOK, StartsQuietly, ReconnectsQuietly,
      ConnectsQuietly, BadNewsIsLast, GoodNewsIsFirst, SubscribedWhileUp,
      UpIsFollowed, RetriesCounted, AttemptsBounded, Pending, Running
<1> QED
  BY <1>1, <1>2, <1>3, <1>4, <1>5, <1>6, <1>7 DEF Callbacks

LEMMA OutsideInv == Inv /\ (Report \/ Lose \/ Deliver \/ Produce \/ UsrpEnds) => Inv'
<1> SUFFICES ASSUME Inv, Report \/ Lose \/ Deliver \/ Produce \/ UsrpEnds PROVE Inv'
  OBVIOUS
<1> USE BoundAssumption DEF Inv, vars, helper, library, messages, history
<1>0. events \in Seq(EventNames) /\ Len(events) \in Nat
  BY DEF TypeOK, EventNames
<1>1. CASE Accept
  <2>1. conn = "connecting" /\ events = <<>> /\ callback = "idle" /\ main # "connect"
    BY <1>1 DEF Accept, ConnectsQuietly
  <2>2. events' = <<"connected">> /\ sub = "none"
    BY <1>1, <2>1 DEF Accept, SubscribedWhileUp
  <2> QED
    BY <1>1, <2>1, <2>2
    DEF Accept, Outcome, TypeOK, StartsQuietly, ReconnectsQuietly,
        ConnectsQuietly, BadNewsIsLast, GoodNewsIsFirst, SubscribedWhileUp,
        UpIsFollowed, RetriesCounted, AttemptsBounded, Pending, Running
<1>2. CASE Refuse
  <2>1. conn = "connecting" /\ events = <<>> /\ callback = "idle" /\ main # "connect"
    BY <1>2 DEF Refuse, ConnectsQuietly
  <2>2. events' = <<"failed">> /\ sub = "none"
    BY <1>2, <2>1 DEF Refuse, SubscribedWhileUp
  <2> QED
    BY <1>2, <2>1, <2>2
    DEF Refuse, Outcome, TypeOK, StartsQuietly, ReconnectsQuietly,
        ConnectsQuietly, BadNewsIsLast, GoodNewsIsFirst, SubscribedWhileUp,
        UpIsFollowed, RetriesCounted, AttemptsBounded, Pending, Running
<1>3. CASE AckSubscribe
  BY <1>3
  DEF AckSubscribe, TypeOK, StartsQuietly, ReconnectsQuietly, ConnectsQuietly,
      BadNewsIsLast, GoodNewsIsFirst, SubscribedWhileUp, UpIsFollowed,
      RetriesCounted, AttemptsBounded, Pending, Running
<1>4. CASE Lose
  <2>1. conn = "up" /\ events' = Append(events, "lost") /\ attempts = 0
        /\ attempts' = 0 /\ conn' = "down" /\ sub' = "none"
    BY <1>4 DEF Lose, RetriesCounted
  <2>2. events' \in Seq(EventNames)
    BY <1>0, <2>1, AppendFacts DEF EventNames
  <2>3. BadNewsIsLast'
    BY <1>0, <2>1, AppendFacts DEF BadNewsIsLast, EventNames
  <2>4. GoodNewsIsFirst'
    <3>1. callback' = callback
      BY <1>4 DEF Lose
    <3> QED
      BY <1>0, <2>1, <3>1, AppendFacts DEF GoodNewsIsFirst, EventNames
  <2>5. main # "connect" /\ callback # "reconnect"
    BY <2>1 DEF StartsQuietly, ReconnectsQuietly
  <2> QED
    BY <1>4, <2>1, <2>2, <2>3, <2>4, <2>5
    DEF Lose, TypeOK, EventNames, StartsQuietly, ReconnectsQuietly,
        ConnectsQuietly, SubscribedWhileUp, UpIsFollowed, RetriesCounted,
        AttemptsBounded, Running
<1>5. CASE Deliver
  <2>1. /\ events' = Append(events, "message") /\ sub = "active" /\ conn = "up"
        /\ callback = "idle" /\ main # "connect" /\ ~Pending("connected")
    BY <1>5 DEF Deliver, SubscribedWhileUp, StartsQuietly
  <2>2. \A i \in DOMAIN events' : events'[i] \notin {"lost", "failed", "connected"}
    <3>1. \A i \in DOMAIN events : events[i] \notin {"lost", "failed", "connected"}
      BY <2>1 DEF BadNewsIsLast, Pending
    <3> QED
      BY <1>0, <2>1, <3>1, AppendFacts DEF EventNames
  <2>3. events' \in Seq(EventNames)
    BY <1>0, <2>1, AppendFacts DEF EventNames
  <2>4. /\ BadNewsIsLast' /\ GoodNewsIsFirst'
        /\ ~Pending("connected")' /\ ~Pending("lost")'
    BY <2>2 DEF BadNewsIsLast, GoodNewsIsFirst, Pending
  <2> QED
    BY <1>5, <2>1, <2>3, <2>4
    DEF Deliver, TypeOK, EventNames, StartsQuietly, ReconnectsQuietly,
        ConnectsQuietly, SubscribedWhileUp, UpIsFollowed, RetriesCounted,
        AttemptsBounded, Running
<1>6. CASE Produce
  BY <1>6
  DEF Produce, TypeOK, StartsQuietly, ReconnectsQuietly, ConnectsQuietly,
      BadNewsIsLast, GoodNewsIsFirst, SubscribedWhileUp, UpIsFollowed,
      RetriesCounted, AttemptsBounded, Pending, Running
<1>7. CASE UsrpEnds
  BY <1>7
  DEF UsrpEnds, End, TypeOK, StartsQuietly, ReconnectsQuietly, ConnectsQuietly,
      BadNewsIsLast, GoodNewsIsFirst, SubscribedWhileUp, UpIsFollowed,
      RetriesCounted, AttemptsBounded, Pending, Running
<1> QED
  BY <1>1, <1>2, <1>3, <1>4, <1>5, <1>6, <1>7 DEF Report

LEMMA StutterInv == Inv /\ UNCHANGED vars => Inv'
BY DEF Inv, vars, helper, library, messages, history, TypeOK, StartsQuietly,
       ReconnectsQuietly, ConnectsQuietly, BadNewsIsLast, GoodNewsIsFirst,
       SubscribedWhileUp, UpIsFollowed, RetriesCounted, AttemptsBounded, Pending,
       Running

LEMMA NextInv == Inv /\ [Next]_vars => Inv'
BY MainInv, CallbacksInv, OutsideInv, StutterInv DEF Next

LEMMA InvHolds == Spec => []Inv
<1> QED
  BY InitInv, NextInv, PTL DEF Spec

-----------------------------------------------------------------------------
(* The theorems *)

\* The variables of the client, the library and the queues keep their types.
THEOREM TypeCorrect == Spec => []TypeOK
<1>1. Inv => TypeOK
  BY DEF Inv
<1> QED
  BY <1>1, InvHolds, PTL

\* After every outage, once connected() has run, a subscription is under way.
THEOREM ConnectedIsSubscribed == Spec => []ConnectedMeansSubscribed
<1>1. Inv => ConnectedMeansSubscribed
  BY DEF Inv, UpIsFollowed, ConnectedMeansSubscribed
<1> QED
  BY <1>1, InvHolds, PTL

\* An outage sees one connect() and N_RETRY_ATTEMPTS retries at most.
THEOREM RetriesAreBounded == Spec => []AttemptsBounded
<1>1. Inv => AttemptsBounded
  BY DEF Inv
<1> QED
  BY <1>1, InvHolds, PTL

\* connect() finds a client that is neither connected nor connecting.
THEOREM ConnectsDoNotOverlap == Spec => []OneConnectAtATime
<1>1. Inv => OneConnectAtATime
  BY DEF Inv, StartsQuietly, ReconnectsQuietly, OneConnectAtATime
<1> QED
  BY <1>1, InvHolds, PTL
=============================================================================

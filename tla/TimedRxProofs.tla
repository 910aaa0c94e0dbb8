--------------------------- MODULE TimedRxProofs ---------------------------
(***************************************************************************)
(* The daemon as a whole implements RequestService, for any requests and   *)
(* any number of messages and losses, and so does the prototype it was     *)
(* made from.                                                              *)
(***************************************************************************)
EXTENDS MCDaemons, TLAPS

-----------------------------------------------------------------------------

(* Sequences                                                               *)

LEMMA SeqFacts ==
  ASSUME NEW S, NEW s \in Seq(S), NEW x \in S
  PROVE  /\ Append(s, x) \in Seq(S) /\ s \o <<x>> = Append(s, x)
         /\ <<x>> \o s \in Seq(S) /\ <<x>> \o s # <<>>
         /\ Head(<<x>> \o s) = x /\ Tail(<<x>> \o s) = s
         /\ <<>> \o s = s
         /\ s # <<>> => /\ Head(s) \in S /\ Tail(s) \in Seq(S)
                        /\ <<Head(s)>> \o Tail(s) = s
OBVIOUS

LEMMA MoveOver ==
  ASSUME NEW S, NEW s \in Seq(S), NEW t \in Seq(S), t # <<>>
  PROVE  Append(s, Head(t)) \o Tail(t) = s \o t
OBVIOUS

LEMMA AppendBehind ==
  ASSUME NEW S, NEW s \in Seq(S), NEW t \in Seq(S), NEW x \in S
  PROVE  s \o Append(t, x) = Append(s \o t, x)
OBVIOUS

-----------------------------------------------------------------------------
(* Types *)

LEMMA NextType == TypeOK /\ [Next]_vars => TypeOK'
<1> SUFFICES ASSUME TypeOK, [Next]_vars PROVE TypeOK'
  OBVIOUS
<1> USE DEF TypeOK
<1>1. ASSUME NEW r \in Requests, Deliver(r) PROVE TypeOK'
  BY <1>1, SeqFacts DEF Deliver, requests, replies, Mqtt!Deliver, Mqtt!helper,
    Mqtt!messages, Mqtt!history
<1>2. CASE MessageArrived
  BY <1>2, SeqFacts DEF MessageArrived, replies, Mqtt!MessageArrived,
    Mqtt!Event, Mqtt!helper, Mqtt!history
<1>3. CASE UsrpAnswer
  <2>1. Head(fromNetwork) \in Requests /\ Tail(fromNetwork) \in Seq(Requests)
    BY <1>3, SeqFacts DEF UsrpAnswer, Usrp!Answer
  <2>2. answers' = Append(answers, Head(fromNetwork))
        /\ fromNetwork' = Tail(fromNetwork)
    BY <1>3, <2>1 DEF UsrpAnswer, Usrp!Answer
  <2> QED
    BY <1>3, <2>1, <2>2, SeqFacts DEF UsrpAnswer, Mqtt!Produce, Mqtt!helper,
      Mqtt!library, Mqtt!history
<1>4. CASE PopAnswer
  BY <1>4, SeqFacts, RequestAssumption DEF PopAnswer, requests, Mqtt!PopAnswer
<1>5. CASE Publish
  <2>1. msgStr \in Requests
    BY <1>5 DEF Publish, Mqtt!Publish
  <2> QED
    BY <1>5, <2>1, SeqFacts DEF Publish, requests, Mqtt!Publish
<1>6. CASE Quietly(Connecting \/ Mqtt!PublishThrows)
  BY <1>6 DEF Quietly, requests, replies, Connecting, Mqtt!PublishThrows,
    Mqtt!Connect, Mqtt!ConnectSucceeded, Mqtt!ConnectFailed, Mqtt!End
<1>7. CASE Quietly(Callbacks)
  BY <1>7 DEF Quietly, requests, replies, Callbacks, Mqtt!ConnectedCallback,
    Mqtt!Announce, Mqtt!Subscribe, Mqtt!CallbackThrows, Mqtt!ConnectionLost,
    Mqtt!OnFailureRetries, Mqtt!OnFailureExits, Mqtt!Reconnect,
    Mqtt!ReconnectThrows, Mqtt!End
<1>8. CASE Quietly(Mqtt!Report \/ Mqtt!Lose) \/ Quietly(Mqtt!UsrpEnds)
  BY <1>8 DEF Quietly, requests, replies, Mqtt!Report, Mqtt!Accept,
    Mqtt!Refuse, Mqtt!AckSubscribe, Mqtt!Lose, Mqtt!UsrpEnds, Mqtt!End
<1>9. CASE UNCHANGED vars
  BY <1>9 DEF vars, client, requests, replies
<1> QED
  BY <1>1, <1>2, <1>3, <1>4, <1>5, <1>6, <1>7, <1>8, <1>9
  DEF Next, MainThread, LibraryThread, Broker

\* Nothing but requests is on the queues, and the publisher has an answer in
\* hand exactly when it is about to publish.
THEOREM TypeCorrect == Spec => []TypeOK
<1>1. Init => TypeOK
  BY DEF Init, TypeOK, Mqtt!Init
<1> QED
  BY <1>1, NextType, PTL DEF Spec

-----------------------------------------------------------------------------
(* From the callback that receives to the call that publishes *)

\* A step that moves no message, or only from one queue to the next, and may
\* end the process.
LEMMA Unseen ==
  ASSUME UNCHANGED <<Unpublished, published>>,
         process' = process \/ process' # "runs"
  PROVE  [RS!Next]_(RS!vars)
BY DEF RS!Next, RS!Stop, RS!vars

LEMMA StepRefines ==
  ASSUME TypeOK, [Next]_vars
  PROVE  [RS!Next]_(RS!vars)
<1> USE DEF TypeOK
<1> DEFINE Hand == IF msgStr = NoAnswer THEN <<>> ELSE <<msgStr>>
<1>0. Hand \in Seq(Requests) /\ Hand \o toNetwork \in Seq(Requests)
  OBVIOUS
<1>1. ASSUME NEW r \in Requests, Deliver(r) PROVE [RS!Next]_(RS!vars)
  BY <1>1, Unseen DEF Deliver, Unpublished, replies, Mqtt!Deliver
<1>2. CASE MessageArrived
  <2>1. Head(mail) \in Requests
    BY <1>2, SeqFacts DEF MessageArrived
  <2>2. Unpublished' = Append(Unpublished, Head(mail))
    <3>1. Unpublished' = (Hand \o toNetwork) \o Append(fromNetwork, Head(mail))
      BY <1>2 DEF MessageArrived, Unpublished, replies
    <3>2. Unpublished = (Hand \o toNetwork) \o fromNetwork
      BY DEF Unpublished
    <3>3. \A s, t \in Seq(Requests), x \in Requests :
            s \o Append(t, x) = Append(s \o t, x)
      BY AppendBehind
    <3>4. (Hand \o toNetwork) \o Append(fromNetwork, Head(mail))
            = Append((Hand \o toNetwork) \o fromNetwork, Head(mail))
      BY <1>0, <2>1, <3>3 DEF TypeOK
    <3> QED
      BY <3>1, <3>2, <3>4
  <2>3. RS!Submit(Head(mail))
    BY <1>2, <2>2 DEF RS!Submit, MessageArrived, replies, Mqtt!MessageArrived,
      Mqtt!Event, Mqtt!Running
  <2> QED
    BY <2>1, <2>3 DEF RS!Next
<1>3. CASE UsrpAnswer
  <2>1. /\ toNetwork' = Append(toNetwork, Head(fromNetwork))
        /\ fromNetwork' = Tail(fromNetwork) /\ fromNetwork # <<>>
        /\ UNCHANGED <<msgStr, published, process>>
    BY <1>3 DEF UsrpAnswer, Usrp!Answer
  <2>2. Head(fromNetwork) \in Requests /\ Tail(fromNetwork) \in Seq(Requests)
    BY <2>1, SeqFacts
  <2>3. Hand \o Append(toNetwork, Head(fromNetwork))
          = Append(Hand \o toNetwork, Head(fromNetwork))
    BY <1>0, <2>2, AppendBehind
  <2>4. UNCHANGED Unpublished
    BY <1>0, <2>1, <2>3, MoveOver DEF Unpublished
  <2> QED
    BY <2>1, <2>4, Unseen
<1>4. CASE PopAnswer
  <2>1. /\ msgStr = NoAnswer /\ toNetwork # <<>> /\ msgStr' = Head(toNetwork)
        /\ toNetwork' = Tail(toNetwork)
        /\ UNCHANGED <<fromNetwork, published, process>>
    BY <1>4 DEF PopAnswer, requests, Mqtt!PopAnswer
  <2>2. /\ Head(toNetwork) \in Requests /\ <<>> \o toNetwork = toNetwork
        /\ <<Head(toNetwork)>> \o Tail(toNetwork) = toNetwork
    BY <2>1, SeqFacts
  <2>3. UNCHANGED Unpublished
    BY <2>1, <2>2, RequestAssumption DEF Unpublished
  <2> QED
    BY <2>1, <2>3, Unseen
<1>5. CASE Publish
  <2>1. /\ msgStr \in Requests /\ msgStr # NoAnswer /\ msgStr' = NoAnswer
        /\ published' = Append(published, msgStr) /\ process = "runs"
        /\ UNCHANGED <<toNetwork, fromNetwork, process>>
    BY <1>5 DEF Publish, requests, Mqtt!Publish, Mqtt!Running
  <2>2. /\ toNetwork \o fromNetwork \in Seq(Requests)
        /\ Unpublished = <<msgStr>> \o (toNetwork \o fromNetwork)
        /\ Unpublished' = toNetwork \o fromNetwork
    BY <2>1, SeqFacts DEF Unpublished
  <2>3. /\ Unpublished # <<>> /\ Head(Unpublished) = msgStr
        /\ Tail(Unpublished) = Unpublished'
    BY <2>1, <2>2, SeqFacts
  <2>4. RS!Answer
    BY <2>1, <2>3 DEF RS!Answer
  <2> QED
    BY <2>4 DEF RS!Next
<1>6. CASE Quietly(Connecting \/ Mqtt!PublishThrows)
  BY <1>6, Unseen DEF Quietly, requests, replies, Unpublished, Connecting,
    Mqtt!PublishThrows, Mqtt!Connect, Mqtt!ConnectSucceeded,
    Mqtt!ConnectFailed, Mqtt!End
<1>7. CASE Quietly(Callbacks)
  BY <1>7, Unseen DEF Quietly, requests, replies, Unpublished, Callbacks,
    Mqtt!ConnectedCallback, Mqtt!Announce, Mqtt!Subscribe,
    Mqtt!CallbackThrows, Mqtt!ConnectionLost, Mqtt!OnFailureRetries,
    Mqtt!OnFailureExits, Mqtt!Reconnect, Mqtt!ReconnectThrows, Mqtt!End
<1>8. CASE Quietly(Mqtt!Report \/ Mqtt!Lose) \/ Quietly(Mqtt!UsrpEnds)
  BY <1>8, Unseen DEF Quietly, requests, replies, Unpublished, Mqtt!Report,
    Mqtt!Accept, Mqtt!Refuse, Mqtt!AckSubscribe, Mqtt!Lose, Mqtt!UsrpEnds,
    Mqtt!End
<1>9. CASE UNCHANGED vars
  BY <1>9, Unseen DEF vars, client, requests, replies, Unpublished
<1> QED
  BY <1>1, <1>2, <1>3, <1>4, <1>5, <1>6, <1>7, <1>8, <1>9
  DEF Next, MainThread, LibraryThread, Broker

\* Answers are published in the order in which the requests were received and
\* once each, until the process ends: threads, queues and connections do not
\* show.
THEOREM ImplementsRequestService == Spec => ServesFromEndToEnd
<1>1. Init => RS!Init
  BY DEF Init, RS!Init, Unpublished, Mqtt!Init
<1>2. TypeOK /\ [Next]_vars => [RS!Next]_(RS!vars)
  BY StepRefines
<1> QED
  BY <1>1, <1>2, TypeCorrect, PTL DEF Spec, ServesFromEndToEnd, RS!Spec

-----------------------------------------------------------------------------
(* The prototype *)

\* The older copies of the client's code do what the daemon's do.
LEMMA SameClient ==
  /\ Combined!Mqtt!Connect => Mqtt!Connect
  /\ Combined!Mqtt!ConnectSucceeded => Mqtt!ConnectSucceeded
  /\ Combined!Mqtt!ConnectFailed => Mqtt!ConnectFailed
  /\ Combined!Mqtt!PopAnswer => Mqtt!PopAnswer
  /\ Combined!Mqtt!Publish => Mqtt!Publish
  /\ Combined!Mqtt!PublishThrows => Mqtt!PublishThrows
  /\ Combined!Mqtt!Produce => Mqtt!Produce
BY DEF
    Combined!Mqtt!Connect, Mqtt!Connect, Combined!Mqtt!StartConnect,
    Mqtt!StartConnect, Combined!Mqtt!ConnectSucceeded,
    Mqtt!ConnectSucceeded, Combined!Mqtt!ConnectFailed,
    Mqtt!ConnectFailed, Combined!Mqtt!End, Mqtt!End,
    Combined!Mqtt!PopAnswer, Mqtt!PopAnswer, Combined!Mqtt!Publish,
    Mqtt!Publish, Combined!Mqtt!PublishThrows, Mqtt!PublishThrows,
    Combined!Mqtt!Produce, Mqtt!Produce, Combined!Mqtt!Running,
    Mqtt!Running, Combined!Mqtt!helper, Mqtt!helper,
    Combined!Mqtt!library, Mqtt!library, Combined!Mqtt!messages,
    Mqtt!messages, Combined!Mqtt!history, Mqtt!history

LEMMA SameCallbacks ==
  /\ Combined!Mqtt!Reconnect => Mqtt!Reconnect
  /\ Combined!Mqtt!ReconnectThrows => Mqtt!ReconnectThrows
  /\ Combined!Mqtt!OnFailureRetries => Mqtt!OnFailureRetries
  /\ Combined!Mqtt!OnFailureExits => Mqtt!OnFailureExits
  /\ Combined!Mqtt!Subscribe => Mqtt!Subscribe
  /\ Combined!Mqtt!CallbackThrows => Mqtt!CallbackThrows
  /\ Combined!Mqtt!ConnectionLost => Mqtt!ConnectionLost
  /\ Combined!Mqtt!MessageArrived => Mqtt!MessageArrived
BY DEF
    Combined!Mqtt!Reconnect, Mqtt!Reconnect, Combined!Mqtt!ReconnectThrows,
    Mqtt!ReconnectThrows, Combined!Mqtt!StartConnect, Mqtt!StartConnect,
    Combined!Mqtt!OnFailureRetries, Mqtt!OnFailureRetries,
    Combined!Mqtt!OnFailureExits,
    Mqtt!OnFailureExits, Combined!Mqtt!Subscribe, Mqtt!Subscribe,
    Combined!Mqtt!CallbackThrows, Mqtt!CallbackThrows,
    Combined!Mqtt!ConnectionLost, Mqtt!ConnectionLost,
    Combined!Mqtt!MessageArrived, Mqtt!MessageArrived,
    Combined!Mqtt!Event, Mqtt!Event, Combined!Mqtt!End, Mqtt!End,
    Combined!Mqtt!Running, Mqtt!Running, Combined!Mqtt!helper,
    Mqtt!helper, Combined!Mqtt!library, Mqtt!library,
    Combined!Mqtt!messages, Mqtt!messages, Combined!Mqtt!history,
    Mqtt!history

LEMMA SameBroker ==
  /\ Combined!Mqtt!Report => Mqtt!Report
  /\ Combined!Mqtt!Lose => Mqtt!Lose
  /\ Combined!Mqtt!Deliver => Mqtt!Deliver
BY DEF
    Combined!Mqtt!Report, Mqtt!Report, Combined!Mqtt!Accept, Mqtt!Accept,
    Combined!Mqtt!Refuse, Mqtt!Refuse, Combined!Mqtt!AckSubscribe,
    Mqtt!AckSubscribe, Combined!Mqtt!Outcome, Mqtt!Outcome,
    Combined!Mqtt!Lose, Mqtt!Lose, Combined!Mqtt!Deliver, Mqtt!Deliver,
    Combined!Mqtt!Arrivals, Mqtt!Arrivals, Combined!Mqtt!Running,
    Mqtt!Running, Combined!Mqtt!helper, Mqtt!helper,
    Combined!Mqtt!library, Mqtt!library, Combined!Mqtt!messages,
    Mqtt!messages, Combined!Mqtt!history, Mqtt!history

\* What a step of the prototype does, a step of the daemon does too; connected()
\* alone, which announces nothing, has a step of its own. The dummy processor
\* is the USRP thread as the queues see it.
LEMMA CombinedCopies ==
  ASSUME TypeOK, Combined!Next
  PROVE  Next \/ Combined!ConnectedCallback
<1> USE DEF Combined!Quietly, Quietly, Combined!requests, requests,
        Combined!replies, replies
<1>1. CASE Combined!MainThread
  BY <1>1, SameClient
  DEF Combined!MainThread, Combined!Connecting, Combined!PopAnswer,
      Combined!Publish, Next, MainThread, Connecting, PopAnswer, Publish
<1>2. CASE Combined!Callbacks
  BY <1>2, SameCallbacks
  DEF Combined!Callbacks, Combined!Reconnect, Combined!OnFailure,
      Combined!Subscribe, Combined!ConnectionLost, Combined!MessageArrived,
      Next, LibraryThread, Callbacks, MessageArrived
<1>3. CASE Combined!DummyProcessor
  <2>1. Head(fromNetwork) \in Requests
    BY <1>3, SeqFacts DEF Combined!DummyProcessor, TypeOK
  <2>2. process = "runs" /\ Mqtt!Produce
    BY <1>3, SameClient DEF Combined!DummyProcessor, Mqtt!Produce, Mqtt!Running
  <2>3. Usrp!Answer
    BY <1>3, <2>1, <2>2 DEF Combined!DummyProcessor, Usrp!Answer
  <2> QED
    BY <1>3, <2>2, <2>3 DEF Combined!DummyProcessor, UsrpAnswer, Next
<1>4. ASSUME NEW r \in Requests, Combined!Deliver(r) PROVE Next
  BY <1>4, SameBroker DEF Combined!Deliver, Deliver, Broker, Next
<1>5. CASE Combined!Quietly(Combined!Mqtt!Report \/ Combined!Mqtt!Lose)
  BY <1>5, SameBroker DEF Broker, Next
<1> QED
  BY <1>1, <1>2, <1>3, <1>4, <1>5 DEF Combined!Next

LEMMA BothStep ==
  ASSUME TypeOK, [BothNext]_both
  PROVE  [Next]_vars \/ Combined!ConnectedCallback
<1>1. CASE Daemon(Next)
  BY <1>1 DEF Daemon
<1>2. CASE Prototype(Combined!Next)
  BY <1>2, CombinedCopies DEF Prototype
<1>3. CASE UNCHANGED both
  BY <1>3 DEF both
<1> QED
  BY <1>1, <1>2, <1>3 DEF BothNext

LEMMA ConnectedMovesNothing ==
  ASSUME TypeOK, Combined!ConnectedCallback
  PROVE  TypeOK' /\ UNCHANGED <<Unpublished, published, process>>
BY DEF Combined!ConnectedCallback, Combined!requests, Combined!replies, TypeOK,
       Unpublished

LEMMA BothTypes == BothSpec => []TypeOK
<1>1. BothInit => TypeOK
  BY DEF BothInit, Init, TypeOK, Mqtt!Init
<1>2. TypeOK /\ [BothNext]_both => TypeOK'
  BY BothStep, NextType, ConnectedMovesNothing
<1> QED
  BY <1>1, <1>2, PTL DEF BothSpec

\* The prototype with its dummy processor keeps the promise of the daemon, so
\* that what is put behind the queues does not show.
THEOREM BothImplementRequestService == BothSpec => ServesFromEndToEnd
<1>1. BothInit => RS!Init
  BY DEF BothInit, Init, RS!Init, Unpublished, Mqtt!Init
<1>2. TypeOK /\ [BothNext]_both => [RS!Next]_(RS!vars)
  BY BothStep, StepRefines, ConnectedMovesNothing, Unseen
<1> QED
  BY <1>1, <1>2, BothTypes, PTL DEF BothSpec, ServesFromEndToEnd, RS!Spec
=============================================================================

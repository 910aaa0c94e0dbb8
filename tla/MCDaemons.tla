----------------------------- MODULE MCDaemons ------------------------------
(* The two programs that serve requests over MQTT, checked for the same      *)
(* properties: a behaviour runs one of them.                                 *)
EXTENDS TimedRx

VARIABLE program \* which of the two was started

Combined == INSTANCE MqttCombined

BothInit == program \in {"timed_rx_file_mqtt", "mqtt_combined_pubsub"} /\ Init

Daemon(A) == program = "timed_rx_file_mqtt" /\ A /\ UNCHANGED program

Prototype(A) == program = "mqtt_combined_pubsub" /\ A /\ UNCHANGED program

BothNext == Daemon(Next) \/ Prototype(Combined!Next)

both == <<program, vars>>

BothSpec == BothInit /\ [][BothNext]_both

\* The fairness of TimedRx, for the threads of the program that runs.
BothFair ==
  /\ BothSpec
  /\ WF_both(Daemon(MainThread)) /\ WF_both(Prototype(Combined!MainThread))
  /\ WF_both(Daemon(LibraryThread)) /\ WF_both(Prototype(Combined!Callbacks))
  /\ WF_both(Daemon(UsrpAnswer)) /\ WF_both(Prototype(Combined!DummyProcessor))
  /\ WF_both(Quietly(Mqtt!Report) /\ UNCHANGED program)
=============================================================================

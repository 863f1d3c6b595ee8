------------------------------ MODULE MCDxMqtt ------------------------------
(* The instances of the MQTT client that TLC checks.                       *)
EXTENDS DxMqttProperties, TLC

\* One request of each kind with the values the code treats specially (a QoS
\* the library is given, one it is not), and one without a topic.
MCRequests ==
  { [type |-> "PUBLISH",     qos |-> 1, retain |-> TRUE,  valid |-> TRUE],
    [type |-> "SUBSCRIBE",   qos |-> 3, retain |-> FALSE, valid |-> TRUE],
    [type |-> "UNSUBSCRIBE", qos |-> 0, retain |-> FALSE, valid |-> TRUE],
    [type |-> "PUBLISH",     qos |-> 0, retain |-> FALSE, valid |-> FALSE] }

OnePublish ==
  { [type |-> "PUBLISH", qos |-> 1, retain |-> TRUE, valid |-> TRUE] }

MCSymmetry == Permutations(Daemons) \cup Permutations(Registrations)
=============================================================================

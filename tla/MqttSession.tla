---------------------------- MODULE MqttSession ----------------------------
(***************************************************************************)
(* What dx_mqtt.h promises an application that ends every session with     *)
(* dx_mqttDisconnect: sessions that follow each other, each carrying the   *)
(* packets it accepted in order and once, and delivering messages to the   *)
(* handler it was opened with, and to it only, until it is closed.         *)
(***************************************************************************)
EXTENDS Naturals, Sequences

CONSTANTS Packet, Owner, None

VARIABLES
  status,      \* "down", "up" or "lost"
  owner,       \* whose handler the session was opened with
  accepted,    \* packets accepted in this session
  carried,     \* packets the connection carried
  delivering   \* whose handler is being called

session == <<status, owner, accepted, carried, delivering>>

Init ==
  /\ status = "down"
  /\ owner = None
  /\ accepted = <<>>
  /\ carried = <<>>
  /\ delivering = None

Open ==
  /\ status = "down"
  /\ status' = "up"
  /\ owner' \in Owner \cup {None}
  /\ \E p \in Packet : accepted' = <<p>>
  /\ UNCHANGED <<carried, delivering>>

Accept ==
  /\ status = "up"
  /\ \E p \in Packet : accepted' = Append(accepted, p)
  /\ UNCHANGED <<status, owner, carried, delivering>>

\* A session that is lost may still flush what it accepted.
Carry ==
  /\ status # "down"
  /\ carried' = accepted
  /\ UNCHANGED <<status, owner, accepted, delivering>>

Lose ==
  /\ status = "up"
  /\ status' = "lost"
  /\ UNCHANGED <<owner, accepted, carried, delivering>>

Deliver ==
  /\ status # "down"
  /\ delivering = None
  /\ owner # None
  /\ delivering' = owner
  /\ UNCHANGED <<status, owner, accepted, carried>>

Delivered ==
  /\ delivering # None
  /\ delivering' = None
  /\ UNCHANGED <<status, owner, accepted, carried>>

\* No handler is running and none will.
Close ==
  /\ status # "down"
  /\ delivering = None
  /\ status' = "down"
  /\ owner' = None
  /\ accepted' = <<>>
  /\ carried' = <<>>
  /\ UNCHANGED delivering

Next == Open \/ Accept \/ Carry \/ Lose \/ Deliver \/ Delivered \/ Close

Spec == Init /\ [][Next]_session
=============================================================================

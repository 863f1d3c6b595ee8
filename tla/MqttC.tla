------------------------------- MODULE MqttC -------------------------------
(***************************************************************************)
(* What dx_mqtt.c stands on and does not contain: the MQTT-C client        *)
(* library (a git submodule), the kernel's descriptor table, the TCP       *)
(* connections and the broker.  The definitions are as coarse as the way   *)
(* dx_mqtt.c uses them allows:                                             *)
(*                                                                         *)
(*   - struct mqtt_client keeps a descriptor, an error that only           *)
(*     mqtt_init/mqtt_connect reset, a bounded queue of packets to send    *)
(*     (_send_buffer) and a mutex;                                         *)
(*   - the API calls only queue a packet; mqtt_sync, called by the         *)
(*     background thread, does all of the receiving and the sending;       *)
(*   - every operation on the client holds the mutex, except mqtt_init,    *)
(*     which re-creates it and leaves it locked until mqtt_connect.        *)
(***************************************************************************)
EXTENDS Integers, Sequences

CONSTANTS
  FDs,        \* socket descriptors the process can be given
  QueueCap,   \* packets that fit in _send_buffer
  MaxOpens    \* bound: TCP connections opened in one behaviour

ASSUME LibraryAssumption ==
  /\ FDs \subseteq Nat
  /\ QueueCap \in Nat \ {0}
  /\ MaxOpens \in Nat

NoFd == -1

PacketTypes == {"CONNECT", "PUBLISH", "SUBSCRIBE", "UNSUBSCRIBE", "DISCONNECT"}
Packets == [type : PacketTypes, qos : 0..2, retain : BOOLEAN]
Control(t) == [type |-> t, qos |-> 0, retain |-> FALSE]

(***************************************************************************)
(* client.error.  UNSET is the zeroed static struct, which is not MQTT_OK. *)
(* After QUEUE_FULL the library still sends; after FAILED it does not.     *)
(***************************************************************************)
Errors == {"UNSET", "CONNECT_NOT_CALLED", "OK", "QUEUE_FULL", "FAILED"}

VARIABLES
  client_socketfd,  \* struct mqtt_client: the descriptor it was given
  client_error,     \* struct mqtt_client: error
  client_mq,        \* struct mqtt_client: packets queued, not yet sent
  client_mutex,     \* struct mqtt_client: "free", "app" or "daemon"
  fdtab,            \* kernel: the connection behind a descriptor, 0 if closed
  opened,           \* number of TCP connections opened so far
  up,               \* connections that are open at both ends
  connack,          \* the broker has accepted the CONNECT of the last connection
  wire,             \* packets handed to the last connection
  submitted         \* packets queued for the last connection (history)

clientVars == <<client_socketfd, client_error, client_mq, client_mutex>>
netVars    == <<fdtab, opened, up, connack, wire, submitted>>

LibraryInit ==
  /\ client_socketfd = NoFd
  /\ client_error = "UNSET"
  /\ client_mq = <<>>
  /\ client_mutex = "free"
  /\ fdtab = [fd \in FDs |-> 0]
  /\ opened = 0
  /\ up = {}
  /\ connack = FALSE
  /\ wire = <<>>
  /\ submitted = <<>>

LibraryTypeOK ==
  /\ client_socketfd \in FDs \cup {NoFd}
  /\ client_error \in Errors
  /\ client_mq \in Seq(Packets)
  /\ client_mutex \in {"free", "app", "daemon"}
  /\ fdtab \in [FDs -> 0..MaxOpens]
  /\ opened \in 0..MaxOpens
  /\ up \subseteq 1..MaxOpens
  /\ wire \in Seq(Packets)
  /\ submitted \in Seq(Packets)

-----------------------------------------------------------------------------
(* The kernel.                                                             *)

OpenFds == {fd \in FDs : fdtab[fd] # 0}

\* A socket is created and its TCP connection established.
KernelOpen(fd) ==
  /\ fdtab[fd] = 0
  /\ opened < MaxOpens
  /\ opened' = opened + 1
  /\ fdtab' = [fdtab EXCEPT ![fd] = opened']
  /\ up' = up \cup {opened'}
  /\ connack' = FALSE
  /\ wire' = <<>>
  /\ submitted' = <<>>

KernelClose(fd) ==
  /\ up' = up \ {fdtab[fd]}
  /\ fdtab' = [fdtab EXCEPT ![fd] = 0]
  /\ UNCHANGED <<opened, connack, wire, submitted>>

\* The connection the client's descriptor refers to now, 0 if none.
ClientConn == IF client_socketfd \in FDs THEN fdtab[client_socketfd] ELSE 0

-----------------------------------------------------------------------------
(* The broker.                                                             *)

BrokerAccepts ==
  /\ opened \in up
  /\ ~connack
  /\ wire # <<>> /\ wire[1].type = "CONNECT"
  /\ connack' = TRUE
  /\ UNCHANGED <<clientVars, fdtab, opened, up, wire, submitted>>

\* The broker refuses the session or closes it, or the network drops it.
PeerDrops ==
  /\ \E c \in up : up' = up \ {c}
  /\ UNCHANGED <<clientVars, fdtab, opened, connack, wire, submitted>>

-----------------------------------------------------------------------------
(* The client library.                                                     *)

mqtt_init(fd) ==
  /\ client_socketfd' = fd
  /\ client_error' = "CONNECT_NOT_CALLED"
  /\ client_mq' = <<>>
  /\ client_mutex' = "app"

\* Packing p into the send buffer when the client's error is `error`.  A full
\* buffer is an error like any other: it stays until the next mqtt_init.
Pack(p, error) ==
  \/ /\ error # "OK"
     /\ client_error' = error
     /\ UNCHANGED <<client_mq, submitted>>
  \/ /\ error = "OK"
     /\ Len(client_mq) >= QueueCap
     /\ client_error' = "QUEUE_FULL"
     /\ UNCHANGED <<client_mq, submitted>>
  \/ /\ error = "OK"
     /\ Len(client_mq) < QueueCap
     /\ client_error' = "OK"
     /\ client_mq' = Append(client_mq, p)
     /\ submitted' = Append(submitted, p)

\* Unlocks what mqtt_init locked.  It refuses some configurations.
mqtt_connect ==
  /\ client_mutex' = "free"
  /\ LET error == IF client_error = "CONNECT_NOT_CALLED" THEN "OK" ELSE client_error
     IN \/ Pack(Control("CONNECT"), error)
        \/ /\ error = "OK"
           /\ client_error' = "FAILED"
           /\ UNCHANGED <<client_mq, submitted>>
  /\ UNCHANGED <<client_socketfd, fdtab, opened, up, connack, wire>>

\* mqtt_publish, mqtt_subscribe, mqtt_unsubscribe, mqtt_disconnect.
mqtt_queue(p) ==
  /\ client_mutex = "free"
  /\ Pack(p, client_error)
  /\ UNCHANGED <<client_socketfd, client_mutex, fdtab, opened, up, connack, wire>>

\* mqtt_sync, receiving: nothing arrived.
SyncReceiveNothing ==
  /\ client_mutex = "free"
  /\ ClientConn \in up
  /\ UNCHANGED <<clientVars, netVars>>

\* mqtt_sync, receiving: a PUBLISH arrived; the mutex is kept for the callback.
SyncReceivePublish ==
  /\ client_mutex = "free"
  /\ ClientConn \in up
  /\ connack
  /\ client_mutex' = "daemon"
  /\ UNCHANGED <<client_socketfd, client_error, client_mq, netVars>>

\* mqtt_sync, receiving: the descriptor is closed or the peer is gone.
SyncReceiveFails ==
  /\ client_mutex = "free"
  /\ ClientConn \notin up
  /\ client_error' = "FAILED"
  /\ UNCHANGED <<client_socketfd, client_mq, client_mutex, netVars>>

\* mqtt_sync, sending: everything queued is written to the descriptor.  What
\* is written to a connection whose peer has gone is lost without an error.
SyncSends ==
  /\ client_mutex = "free"
  /\ client_error \in {"OK", "QUEUE_FULL"}
  /\ client_mq # <<>> => ClientConn # 0
  /\ client_mq' = <<>>
  /\ wire' = IF ClientConn \in up /\ ClientConn = opened THEN wire \o client_mq ELSE wire
  /\ UNCHANGED <<client_socketfd, client_error, client_mutex, fdtab, opened, up, connack, submitted>>

\* mqtt_sync, sending: an earlier error stands, or the write fails.
SyncSendFails ==
  /\ client_mutex = "free"
  /\ \/ client_error \notin {"OK", "QUEUE_FULL"}
     \/ client_mq # <<>> /\ ClientConn \notin up
  /\ client_error' = IF client_error \in {"OK", "QUEUE_FULL"} THEN "FAILED" ELSE client_error
  /\ UNCHANGED <<client_socketfd, client_mq, client_mutex, netVars>>

=============================================================================

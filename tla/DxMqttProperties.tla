-------------------------- MODULE DxMqttProperties --------------------------
(***************************************************************************)
(* What dx_mqtt.c promises its application, and the fairness under which   *)
(* it promises it.                                                         *)
(***************************************************************************)
EXTENDS DxMqtt

\* A background thread that has been created and not joined.
Threads == {d \in Daemons : dpc[d] # "none"}

Alive(d) == dpc[d] \notin {"none", "exited"}

-----------------------------------------------------------------------------
(* Resources, under any order of calls.                                    *)

\* Every descriptor that is open is the one _sockfd names: no path through
\* dx_mqttConnect or dx_mqttDisconnect leaks a socket or keeps a closed one.
SocketOwned == OpenFds = {sockfd} \ {NoFd}

\* At most one background thread exists, and the code knows whether it does:
\* a thread is never orphaned and never started twice on the one mqtt_client.
OneDaemon == Threads = IF daemon_created THEN {client_daemon} ELSE {}

\* Between calls, a client that counts as initialised is really served: a
\* thread runs client_refresher, and it works on the socket that is open.
ServedWhenInitialized ==
  apc = "idle" /\ is_initialized =>
    /\ daemon_running /\ daemon_created
    /\ Alive(client_daemon)
    /\ sockfd # NoFd /\ client_socketfd = sockfd

-----------------------------------------------------------------------------
(* A session, when each is ended by dx_mqttDisconnect before the next.     *)

\* The connection carries what was asked for, in order, once, after CONNECT,
\* and nothing that an earlier session left in the send buffer.
WireFaithful ==
  /\ Len(wire) <= Len(submitted)
  /\ \A i \in DOMAIN wire : wire[i] = submitted[i]
  /\ \A i \in DOMAIN wire : wire[i].type = "CONNECT" <=> i = 1

\* is_connected is not taken away from a session without an error: what the
\* background thread concluded about one session never hits the next one.
HealthyMeansConnected ==
  apc = "idle" /\ is_initialized /\ client_error = "OK" => is_connected

\* The handler runs with the context registered together with it, and with
\* the pair under which the message's connection was opened.
CallbackMatches ==
  \A d \in Daemons : dpc[d] = "callback_run" =>
    /\ callback.handler # NULL
    /\ callback.handler = callback.context
    /\ callback.handler = callback.from

\* Once dx_mqttDisconnect has returned, or dx_mqttConnect has failed, nothing
\* is left running: no thread, so no handler call, and no open descriptor.
QuietWhenDown ==
  apc = "idle" /\ ~is_initialized => Threads = {} /\ OpenFds = {}

-----------------------------------------------------------------------------
(* The session an application sees.                                        *)

Session == INSTANCE MqttSession WITH
  Packet     <- Packets,
  Owner      <- Registrations,
  None       <- NULL,
  status     <- IF ~is_initialized THEN "down" ELSE IF dx_isMqttConnected THEN "up" ELSE "lost",
  owner      <- IF is_initialized THEN regOf ELSE NULL,
  accepted   <- IF is_initialized THEN submitted ELSE <<>>,
  carried    <- IF is_initialized THEN wire ELSE <<>>,
  delivering <- callback.handler

\* dx_mqtt.c implements the sessions of MqttSession.
ImplementsSession == Session!Spec

-----------------------------------------------------------------------------
(* What the header says, for an application that calls in any order.       *)

\* dx_isMqttConnected is "True if connected, false otherwise": a session the broker accepted,
\* whose connection is up and which met no error, is reported connected.
ReportedWhenConnected ==
  apc = "idle" /\ is_initialized /\ opened \in up /\ connack /\ client_error = "OK"
    => dx_isMqttConnected

-----------------------------------------------------------------------------
(* Liveness.  The application's thread and the background thread are       *)
(* scheduled.  The mutex of the mqtt_client is granted to the application  *)
(* even if the background thread keeps taking it, because client_refresher *)
(* sleeps 100 ms between two mqtt_sync.                                    *)

Fairness ==
  /\ WF_vars(AppStep)
  /\ SF_vars(RequestCall) /\ SF_vars(SendDisconnect)
  /\ \A d \in Daemons : WF_vars(DaemonStep(d))

FairSpec == Spec /\ Fairness

\* Every call returns; dx_mqttDisconnect's pthread_join in particular.
CallsReturn == (apc # "idle") ~> (apc = "idle")

\* A connection that has gone is noticed, by the background thread or by a
\* call, without the application doing anything.
LossNoticed ==
  (is_initialized /\ ClientConn \notin up) ~> ~dx_isMqttConnected

\* What a call accepted is sent, or the session is over or reported lost.
RequestsAreSent ==
  \A n \in 1..MaxPackets :
    (dx_isMqttConnected /\ Len(submitted) = n) ~> (Len(wire) >= n \/ ~dx_isMqttConnected)

=============================================================================

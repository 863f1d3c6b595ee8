------------------------------- MODULE DxMqtt -------------------------------
(***************************************************************************)
(* dx_mqtt.c: the MQTT client wrapper.  One application thread calls the   *)
(* dx_mqtt* functions; a background thread (client_refresher) runs         *)
(* mqtt_sync and delivers incoming messages to the application's handler.  *)
(* The two share the file's static variables and the mqtt_client without a *)
(* lock of their own, so every access the other thread could observe is a  *)
(* step of its own here.                                                   *)
(*                                                                         *)
(* A definition marked Slip is not the code: it is a plausible mistake in  *)
(* the definition after it, kept to show that some property notices it.    *)
(***************************************************************************)
EXTENDS MqttC

CONSTANTS
  Daemons,        \* thread handles pthread_create can return
  Registrations,  \* (handler, context) pairs the application passes
  NULL,
  Requests,       \* publish / subscribe / unsubscribe calls
  MaxPackets,     \* bound: packets submitted to one connection
  ReconnectAllowed
    \* TRUE: the application may call dx_mqttConnect again without calling
    \* dx_mqttDisconnect first, which the code handles ("Clean up any
    \* existing connection").

\* A publish, subscribe or unsubscribe call: qos is the caller's uint8_t;
\* valid is false for a NULL message or topic.
RequestShape ==
  [type : {"PUBLISH", "SUBSCRIBE", "UNSUBSCRIBE"}, qos : 0..255, retain : BOOLEAN, valid : BOOLEAN]

ASSUME ClientAssumption ==
  /\ NULL \notin Registrations \cup Daemons \cup Requests
  /\ Requests \subseteq RequestShape
  /\ MaxPackets \in Nat
  /\ ReconnectAllowed \in BOOLEAN

VARIABLES
  sockfd, is_initialized, is_connected,
  daemon_running, daemon_created, client_daemon,
  message_handler, user_context,
  last_error,     \* _last_error is not empty
  apc,            \* the application thread: where it is in a dx_mqtt* call
  after,          \* where it goes after cleanup_connection
  registration,   \* parameters of the dx_mqttConnect in progress
  request,        \* parameters of the publish / subscribe / unsubscribe
  ret,            \* what the last call returned
  dpc,            \* the background threads: where each is in client_refresher
  callback,       \* the message being delivered
  regOf           \* registration under which the last connection was opened

flags     == <<sockfd, is_initialized, is_connected>>
daemonVars == <<daemon_running, daemon_created, client_daemon>>
handlerVars == <<message_handler, user_context>>
callVars  == <<registration, request>>
threadVars == <<dpc, callback>>

vars == <<clientVars, netVars, flags, daemonVars, handlerVars, last_error,
          apc, after, callVars, ret, threadVars, regOf>>

AppLabels ==
  {"idle", "cleanup_close", "cleanup_flags", "store_handler", "store_context",
   "open_socket", "mqtt_init", "mqtt_connect", "check_error", "start_daemon",
   "set_connected", "request", "disconnect", "stop_daemon", "join", "clear_error"}

DaemonLabels ==
  {"none", "loop", "check_connected", "receive", "callback_check", "callback_call",
   "callback_handler", "callback_context", "callback_run", "send", "sync_failed", "check_error", "mark_lost", "exited"}

AfterLabels == {"store_handler", "return_false", "clear_error"}

MaybeRegistration == Registrations \cup {NULL}

NoCallback == [from |-> NULL, handler |-> NULL, context |-> NULL]

FlagsOK ==
  /\ is_initialized \in BOOLEAN /\ is_connected \in BOOLEAN
  /\ daemon_running \in BOOLEAN /\ daemon_created \in BOOLEAN
  /\ last_error \in BOOLEAN
  /\ connack \in BOOLEAN

TypeOK ==
  /\ LibraryTypeOK
  /\ FlagsOK
  /\ sockfd \in FDs \cup {NoFd}
  /\ client_daemon \in Daemons \cup {NULL}
  /\ message_handler \in MaybeRegistration /\ user_context \in MaybeRegistration
  /\ apc \in AppLabels
  /\ after \in AfterLabels
  /\ registration \in MaybeRegistration
  /\ request \in Requests \cup {NULL}
  /\ ret \in {"void", "true", "false"}
  /\ dpc \in [Daemons -> DaemonLabels]
  /\ callback \in [from : MaybeRegistration, handler : MaybeRegistration, context : MaybeRegistration]
  /\ regOf \in MaybeRegistration

Init ==
  /\ LibraryInit
  /\ sockfd = NoFd
  /\ is_initialized = FALSE /\ is_connected = FALSE
  /\ daemon_running = FALSE /\ daemon_created = FALSE
  /\ client_daemon = NULL
  /\ message_handler = NULL /\ user_context = NULL
  /\ last_error = FALSE
  /\ apc = "idle"
  /\ after = "return_false"
  /\ registration = NULL
  /\ request = NULL
  /\ ret = "void"
  /\ dpc = [d \in Daemons |-> "none"]
  /\ callback = NoCallback
  /\ regOf = NULL

AppAt(here, there) == apc = here /\ apc' = there
DaemonAt(d, here, there) == dpc[d] = here /\ dpc' = [dpc EXCEPT ![d] = there]

\* A call returns: its parameters are gone.
Return(value) ==
  /\ ret' = value
  /\ registration' = NULL
  /\ request' = NULL

-----------------------------------------------------------------------------
(* cleanup_connection, called by dx_mqttConnect and dx_mqttDisconnect.     *)

CleanupClose ==
  /\ AppAt("cleanup_close", "cleanup_flags")
  /\ \/ sockfd # NoFd /\ KernelClose(sockfd) /\ sockfd' = NoFd
     \/ sockfd = NoFd /\ UNCHANGED <<sockfd, netVars>>
  /\ UNCHANGED <<clientVars, is_initialized, is_connected, daemonVars, handlerVars,
                 last_error, after, callVars, ret, threadVars, regOf>>

CleanupFlags ==
  /\ apc = "cleanup_flags"
  /\ is_connected' = FALSE
  /\ is_initialized' = FALSE
  /\ IF after = "return_false"
       THEN apc' = "idle" /\ Return("false")
       ELSE apc' = after /\ UNCHANGED <<callVars, ret>>
  /\ UNCHANGED <<clientVars, netVars, sockfd, daemonVars, handlerVars, last_error,
                 after, threadVars, regOf>>

-----------------------------------------------------------------------------
(* dx_mqttConnect.                                                         *)

ConnectInvalid ==
  /\ apc = "idle"
  /\ last_error' = TRUE
  /\ Return("false")
  /\ UNCHANGED <<clientVars, netVars, flags, daemonVars, handlerVars, apc, after, threadVars, regOf>>

\* Slip: no clean-up before connecting again.
ConnectOverExisting ==
  /\ AppAt("idle", "store_handler")
  /\ ReconnectAllowed \/ ~is_initialized
  /\ registration' \in MaybeRegistration
  /\ UNCHANGED <<clientVars, netVars, flags, daemonVars, handlerVars, last_error, after,
                 request, ret, threadVars, regOf>>

ConnectBegin ==
  /\ apc = "idle"
  /\ ReconnectAllowed \/ ~is_initialized
  /\ registration' \in MaybeRegistration
  /\ IF is_initialized
       THEN apc' = "cleanup_close" /\ after' = "store_handler"
       ELSE apc' = "store_handler" /\ after' = after
  /\ UNCHANGED <<clientVars, netVars, flags, daemonVars, handlerVars, last_error,
                 request, ret, threadVars, regOf>>

\* Slip: the first handler is kept.
StoreHandlerOnce ==
  /\ AppAt("store_handler", "store_context")
  /\ message_handler' = IF message_handler = NULL THEN registration ELSE message_handler
  /\ UNCHANGED <<clientVars, netVars, flags, daemonVars, user_context, last_error,
                 after, callVars, ret, threadVars, regOf>>

StoreHandler ==
  /\ AppAt("store_handler", "store_context")
  /\ message_handler' = registration
  /\ UNCHANGED <<clientVars, netVars, flags, daemonVars, user_context, last_error,
                 after, callVars, ret, threadVars, regOf>>

StoreContext ==
  /\ AppAt("store_context", "open_socket")
  /\ user_context' = registration
  /\ UNCHANGED <<clientVars, netVars, flags, daemonVars, message_handler, last_error,
                 after, callVars, ret, threadVars, regOf>>

\* open_nb_socket delivers a connected socket ...
OpenSocket ==
  /\ AppAt("open_socket", "mqtt_init")
  /\ \E fd \in FDs : KernelOpen(fd) /\ sockfd' = fd
  /\ regOf' = registration
  /\ UNCHANGED <<clientVars, is_initialized, is_connected, daemonVars, handlerVars,
                 last_error, after, callVars, ret, threadVars>>

\* ... or fails for every address of the host.
OpenSocketFails ==
  /\ AppAt("open_socket", "idle")
  /\ sockfd' = NoFd
  /\ last_error' = TRUE
  /\ Return("false")
  /\ UNCHANGED <<clientVars, netVars, is_initialized, is_connected, daemonVars,
                 handlerVars, after, threadVars, regOf>>

InitClient ==
  /\ AppAt("mqtt_init", "mqtt_connect")
  /\ mqtt_init(sockfd)
  /\ UNCHANGED <<netVars, flags, daemonVars, handlerVars, last_error, after,
                 callVars, ret, threadVars, regOf>>

\* Slip: an early return without the clean-up.
FailWithoutCleanup ==
  /\ last_error' = TRUE
  /\ apc' = "idle"
  /\ UNCHANGED after

\* dx_mqttConnect gives up: it records the error and cleans up.
FailConnect ==
  /\ last_error' = TRUE
  /\ apc' = "cleanup_close"
  /\ after' = "return_false"

SendConnect ==
  /\ apc = "mqtt_connect"
  /\ mqtt_connect
  /\ IF client_error' = "OK"
       THEN apc' = "check_error" /\ UNCHANGED <<last_error, after>>
       ELSE FailConnect
  /\ UNCHANGED <<flags, daemonVars, handlerVars, callVars, ret, threadVars, regOf>>

CheckConnectError ==
  /\ apc = "check_error"
  /\ IF client_error = "OK"
       THEN apc' = "start_daemon" /\ UNCHANGED <<last_error, after>>
       ELSE FailConnect
  /\ UNCHANGED <<clientVars, netVars, flags, daemonVars, handlerVars, callVars, ret,
                 threadVars, regOf>>

DaemonExists ==
  /\ AppAt("start_daemon", "set_connected")
  /\ daemon_created
  /\ UNCHANGED <<clientVars, netVars, flags, daemonVars, handlerVars, last_error,
                 after, callVars, ret, threadVars, regOf>>

\* Slip: a thread for every connection.
CreateDaemonAlways ==
  /\ AppAt("start_daemon", "set_connected")
  /\ \E d \in Daemons : DaemonAt(d, "none", "loop") /\ client_daemon' = d
  /\ daemon_running' = TRUE
  /\ daemon_created' = TRUE
  /\ UNCHANGED <<clientVars, netVars, flags, handlerVars, last_error, after,
                 callVars, ret, callback, regOf>>

\* Slip: the thread can find the flag still down.
CreateDaemonNotRunning ==
  /\ AppAt("start_daemon", "set_connected")
  /\ ~daemon_created
  /\ \E d \in Daemons : DaemonAt(d, "none", "loop") /\ client_daemon' = d
  /\ daemon_created' = TRUE
  /\ UNCHANGED <<clientVars, netVars, flags, daemon_running, handlerVars, last_error, after,
                 callVars, ret, callback, regOf>>

CreateDaemon ==
  /\ AppAt("start_daemon", "set_connected")
  /\ ~daemon_created
  /\ \E d \in Daemons :
       /\ DaemonAt(d, "none", "loop")
       /\ client_daemon' = d
  /\ daemon_running' = TRUE
  /\ daemon_created' = TRUE
  /\ UNCHANGED <<clientVars, netVars, flags, handlerVars, last_error, after,
                 callVars, ret, callback, regOf>>

CreateDaemonFails ==
  /\ apc = "start_daemon"
  /\ ~daemon_created
  /\ daemon_running' = FALSE
  /\ FailConnect
  /\ UNCHANGED <<clientVars, netVars, flags, daemon_created, client_daemon, handlerVars,
                 callVars, ret, threadVars, regOf>>

SetConnected ==
  /\ AppAt("set_connected", "idle")
  /\ is_initialized' = TRUE
  /\ is_connected' = TRUE
  /\ Return("true")
  /\ UNCHANGED <<clientVars, netVars, sockfd, daemonVars, handlerVars, last_error,
                 after, threadVars, regOf>>

-----------------------------------------------------------------------------
(* dx_mqttPublish, dx_mqttSubscribe, dx_mqttUnsubscribe.                   *)

\* Slip: the caller's QoS as it is.
PacketOfAnyQos(r) == [type |-> r.type, qos |-> r.qos, retain |-> FALSE]

\* The packets the calls ask the library for.  The message's retain flag is
\* not an argument of the call.
PublishPacket(r) ==
  [type |-> "PUBLISH", qos |-> IF r.qos \in {1, 2} THEN r.qos ELSE 0, retain |-> FALSE]

\* Slip: the caller's QoS as it is.
SubscribeAnyQos(r) == [type |-> "SUBSCRIBE", qos |-> r.qos, retain |-> FALSE]

SubscribePacket(r) ==
  [type |-> "SUBSCRIBE", qos |-> IF r.qos > 2 THEN 0 ELSE r.qos, retain |-> FALSE]

\* The call is refused.  dx_mqttPublish reports a missing or lost connection
\* by its result alone; the other two also record the error.
Refused(r) ==
  /\ apc = "idle"
  /\ ~(is_initialized /\ is_connected /\ r.valid)
  /\ Return("false")
  /\ UNCHANGED <<clientVars, netVars, flags, daemonVars, handlerVars, apc, after, threadVars, regOf>>

PublishRefused(r) ==
  /\ r.type = "PUBLISH"
  /\ Refused(r)
  /\ last_error' = (last_error \/ (is_initialized /\ is_connected))

SubscribeRefused(r) ==
  /\ r.type = "SUBSCRIBE"
  /\ Refused(r)
  /\ last_error' = TRUE

UnsubscribeRefused(r) ==
  /\ r.type = "UNSUBSCRIBE"
  /\ Refused(r)
  /\ last_error' = TRUE

\* The call finds the client connected.
RequestBegin(r) ==
  /\ AppAt("idle", "request")
  /\ is_initialized /\ is_connected /\ r.valid
  /\ Len(submitted) < MaxPackets
  /\ request' = r
  /\ UNCHANGED <<clientVars, netVars, flags, daemonVars, handlerVars, last_error,
                 after, registration, ret, threadVars, regOf>>

\* The library call, and what the code does about its result.
Queue(p) ==
  /\ AppAt("request", "idle")
  /\ mqtt_queue(p)
  /\ IF client_error' = "OK"
       THEN Return("true") /\ UNCHANGED <<last_error, is_connected>>
       ELSE Return("false") /\ last_error' = TRUE /\ is_connected' = FALSE
  /\ UNCHANGED <<sockfd, is_initialized, daemonVars, handlerVars, after, threadVars, regOf>>

InCall(type) == apc = "request" /\ request.type = type

PublishCall     == InCall("PUBLISH") /\ Queue(PublishPacket(request))
SubscribeCall   == InCall("SUBSCRIBE") /\ Queue(SubscribePacket(request))
UnsubscribeCall == InCall("UNSUBSCRIBE") /\ Queue(Control("UNSUBSCRIBE"))

RequestCall == PublishCall \/ SubscribeCall \/ UnsubscribeCall

\* dx_isMqttConnected.
dx_isMqttConnected == is_connected /\ is_initialized /\ client_error = "OK"

-----------------------------------------------------------------------------
(* dx_mqttDisconnect.                                                      *)

DisconnectIgnored ==
  /\ apc = "idle"
  /\ ~is_initialized
  /\ Return("void")
  /\ UNCHANGED <<clientVars, netVars, flags, daemonVars, handlerVars, last_error, apc,
                 after, threadVars, regOf>>

DisconnectBegin ==
  /\ apc = "idle"
  /\ is_initialized
  /\ apc' = IF is_connected /\ client_error = "OK" THEN "disconnect" ELSE "stop_daemon"
  /\ UNCHANGED <<clientVars, netVars, flags, daemonVars, handlerVars, last_error,
                 after, callVars, ret, threadVars, regOf>>

SendDisconnect ==
  /\ AppAt("disconnect", "stop_daemon")
  /\ mqtt_queue(Control("DISCONNECT"))
  /\ UNCHANGED <<flags, daemonVars, handlerVars, last_error, after, callVars, ret,
                 threadVars, regOf>>

\* Slip: the thread is told to stop but not waited for.
StopWithoutJoin ==
  /\ AppAt("stop_daemon", "cleanup_close")
  /\ after' = "clear_error"
  /\ daemon_running' = FALSE
  /\ UNCHANGED <<clientVars, netVars, flags, daemon_created, client_daemon, handlerVars,
                 last_error, callVars, ret, threadVars, regOf>>

\* Slip: the thread is waited for but not told to stop.
StopWithoutFlag ==
  /\ apc = "stop_daemon"
  /\ after' = "clear_error"
  /\ apc' = IF client_daemon # NULL THEN "join" ELSE "cleanup_close"
  /\ UNCHANGED <<clientVars, netVars, flags, daemonVars, handlerVars,
                 last_error, callVars, ret, threadVars, regOf>>

StopDaemon ==
  /\ apc = "stop_daemon"
  /\ after' = "clear_error"
  /\ IF daemon_created /\ daemon_running
       THEN /\ daemon_running' = FALSE
            /\ apc' = IF client_daemon # NULL THEN "join" ELSE "cleanup_close"
       ELSE UNCHANGED daemon_running /\ apc' = "cleanup_close"
  /\ UNCHANGED <<clientVars, netVars, flags, daemon_created, client_daemon, handlerVars,
                 last_error, callVars, ret, threadVars, regOf>>

\* Slip: the thread is detached instead of joined.
DetachDaemon ==
  /\ AppAt("join", "cleanup_close")
  /\ client_daemon' = NULL
  /\ daemon_created' = FALSE
  /\ UNCHANGED <<clientVars, netVars, flags, daemon_running, handlerVars, last_error,
                 after, callVars, ret, threadVars, regOf>>

\* Slip: daemon_created survives the join.
JoinKeepsCreated ==
  /\ AppAt("join", "cleanup_close")
  /\ DaemonAt(client_daemon, "exited", "none")
  /\ client_daemon' = NULL
  /\ UNCHANGED <<clientVars, netVars, flags, daemon_created, daemon_running, handlerVars,
                 last_error, after, callVars, ret, callback, regOf>>

\* pthread_join returns once the thread has left client_refresher.
JoinDaemon ==
  /\ AppAt("join", "cleanup_close")
  /\ DaemonAt(client_daemon, "exited", "none")
  /\ client_daemon' = NULL
  /\ daemon_created' = FALSE
  /\ UNCHANGED <<clientVars, netVars, flags, daemon_running, handlerVars, last_error,
                 after, callVars, ret, callback, regOf>>

ClearError ==
  /\ AppAt("clear_error", "idle")
  /\ last_error' = FALSE
  /\ Return("void")
  /\ UNCHANGED <<clientVars, netVars, flags, daemonVars, handlerVars, after, threadVars, regOf>>

-----------------------------------------------------------------------------
(* client_refresher and publish_callback, on the background thread.        *)

appVars == <<sockfd, is_initialized, daemonVars, handlerVars, apc, after, callVars, ret, regOf>>

\* Slip: the thread ends with the connection.
DaemonLoopWhileConnected(d) ==
  /\ DaemonAt(d, "loop", IF daemon_running /\ is_connected THEN "check_connected" ELSE "exited")
  /\ UNCHANGED <<clientVars, netVars, appVars, is_connected, last_error, callback>>

DaemonLoop(d) ==
  /\ DaemonAt(d, "loop", IF daemon_running THEN "check_connected" ELSE "exited")
  /\ UNCHANGED <<clientVars, netVars, appVars, is_connected, last_error, callback>>

DaemonCheckConnected(d) ==
  /\ DaemonAt(d, "check_connected", IF is_connected THEN "receive" ELSE "loop")
  /\ UNCHANGED <<clientVars, netVars, appVars, is_connected, last_error, callback>>

DaemonReceivesNothing(d) ==
  /\ DaemonAt(d, "receive", "send")
  /\ SyncReceiveNothing
  /\ UNCHANGED <<appVars, is_connected, last_error, callback>>

DaemonReceivesPublish(d) ==
  /\ DaemonAt(d, "receive", "callback_check")
  /\ SyncReceivePublish
  /\ callback' = [NoCallback EXCEPT !.from = regOf]
  /\ UNCHANGED <<appVars, is_connected, last_error>>

DaemonReceiveFails(d) ==
  /\ DaemonAt(d, "receive", "sync_failed")
  /\ SyncReceiveFails
  /\ UNCHANGED <<appVars, is_connected, last_error, callback>>

\* The callback is over; the library releases the mutex and goes on.
CallbackReturns(d, from) ==
  /\ DaemonAt(d, from, "send")
  /\ client_mutex' = "free"
  /\ callback' = NoCallback
  /\ UNCHANGED <<client_socketfd, client_error, client_mq, netVars, appVars, is_connected>>

\* publish_callback drops the message: there is no handler, or no memory.
CallbackDrops(d) ==
  /\ CallbackReturns(d, "callback_check")
  /\ \/ message_handler = NULL /\ UNCHANGED last_error
     \/ message_handler # NULL /\ last_error' = TRUE

\* Slip: no test for a missing handler.
CallbackWithoutCheck(d) ==
  /\ DaemonAt(d, "callback_check", "callback_call")
  /\ UNCHANGED <<clientVars, netVars, appVars, is_connected, last_error, callback>>

CallbackHasHandler(d) ==
  /\ DaemonAt(d, "callback_check", "callback_call")
  /\ message_handler # NULL
  /\ UNCHANGED <<clientVars, netVars, appVars, is_connected, last_error, callback>>

\* The handler and the context are read again for the call, one by one and in
\* either order.
CallbackReadsHandler(d) ==
  /\ \/ DaemonAt(d, "callback_call", "callback_context")
     \/ DaemonAt(d, "callback_handler", "callback_run")
  /\ callback' = [callback EXCEPT !.handler = message_handler]
  /\ UNCHANGED <<clientVars, netVars, appVars, is_connected, last_error>>

CallbackReadsContext(d) ==
  /\ \/ DaemonAt(d, "callback_call", "callback_handler")
     \/ DaemonAt(d, "callback_context", "callback_run")
  /\ callback' = [callback EXCEPT !.context = user_context]
  /\ UNCHANGED <<clientVars, netVars, appVars, is_connected, last_error>>

CallbackCall(d) == CallbackReadsHandler(d) \/ CallbackReadsContext(d)

CallbackDone(d) ==
  /\ CallbackReturns(d, "callback_run")
  /\ UNCHANGED last_error

DaemonSends(d) ==
  /\ DaemonAt(d, "send", "check_error")
  /\ SyncSends
  /\ UNCHANGED <<appVars, is_connected, last_error, callback>>

DaemonSendFails(d) ==
  /\ DaemonAt(d, "send", "sync_failed")
  /\ SyncSendFails
  /\ UNCHANGED <<appVars, is_connected, last_error, callback>>

\* mqtt_sync did not return MQTT_OK.
DaemonSyncFailed(d) ==
  /\ DaemonAt(d, "sync_failed", "check_error")
  /\ last_error' = TRUE
  /\ is_connected' = FALSE
  /\ UNCHANGED <<clientVars, netVars, appVars, callback>>

DaemonCheckError(d) ==
  /\ DaemonAt(d, "check_error", IF client_error = "OK" THEN "loop" ELSE "mark_lost")
  /\ UNCHANGED <<clientVars, netVars, appVars, is_connected, last_error, callback>>

DaemonMarksLost(d) ==
  /\ DaemonAt(d, "mark_lost", "loop")
  /\ last_error' = TRUE
  /\ is_connected' = FALSE
  /\ UNCHANGED <<clientVars, netVars, appVars, callback>>

-----------------------------------------------------------------------------

\* The steps a call takes once it has begun.
AppStep ==
  \/ CleanupClose \/ CleanupFlags
  \/ StoreHandler \/ StoreContext \/ OpenSocket \/ OpenSocketFails
  \/ InitClient \/ SendConnect \/ CheckConnectError
  \/ DaemonExists \/ CreateDaemon \/ CreateDaemonFails \/ SetConnected
  \/ RequestCall
  \/ SendDisconnect \/ StopDaemon \/ JoinDaemon \/ ClearError

\* The calls the application makes when it chooses to.
AppCall ==
  \/ ConnectInvalid \/ ConnectBegin
  \/ \E r \in Requests :
       PublishRefused(r) \/ SubscribeRefused(r) \/ UnsubscribeRefused(r) \/ RequestBegin(r)
  \/ DisconnectIgnored \/ DisconnectBegin

DaemonStep(d) ==
  \/ DaemonLoop(d) \/ DaemonCheckConnected(d)
  \/ DaemonReceivesNothing(d) \/ DaemonReceivesPublish(d) \/ DaemonReceiveFails(d)
  \/ CallbackDrops(d) \/ CallbackHasHandler(d) \/ CallbackCall(d) \/ CallbackDone(d)
  \/ DaemonSends(d) \/ DaemonSendFails(d)
  \/ DaemonSyncFailed(d) \/ DaemonCheckError(d) \/ DaemonMarksLost(d)

ownVars == <<flags, daemonVars, handlerVars, last_error, apc, after, callVars, ret, threadVars, regOf>>

Network == (BrokerAccepts \/ PeerDrops) /\ UNCHANGED ownVars

Next ==
  \/ AppStep
  \/ AppCall
  \/ \E d \in Daemons : DaemonStep(d)
  \/ Network

Spec == Init /\ [][Next]_vars

=============================================================================

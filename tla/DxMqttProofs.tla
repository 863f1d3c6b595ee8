---------------------------- MODULE DxMqttProofs ----------------------------
(***************************************************************************)
(* What holds of the MQTT client for every number of descriptors, threads, *)
(* registrations and requests, and for both disciplines of the caller.     *)
(***************************************************************************)
EXTENDS DxMqttProperties, TLAPS

(***************************************************************************)
(* Type correctness.  A call in progress has its parameters.               *)
(***************************************************************************)
TypeInv == TypeOK /\ (apc = "request" => request \in Requests)

LEMMA RequestPackets ==
  ASSUME NEW r \in Requests
  PROVE  PublishPacket(r) \in Packets /\ SubscribePacket(r) \in Packets
BY ClientAssumption DEF ClientAssumption, PublishPacket, SubscribePacket, Packets, PacketTypes,
   RequestShape

LEMMA ControlType ==
  \A t \in {"CONNECT", "UNSUBSCRIBE", "DISCONNECT"} : Control(t) \in Packets
BY DEF Control, Packets, PacketTypes

LEMMA PackType ==
  ASSUME client_mq \in Seq(Packets), submitted \in Seq(Packets),
         NEW p \in Packets, NEW error \in Errors, Pack(p, error)
  PROVE  client_mq' \in Seq(Packets) /\ submitted' \in Seq(Packets) /\ client_error' \in Errors
<1>1. Append(client_mq, p) \in Seq(Packets) /\ Append(submitted, p) \in Seq(Packets)
  OBVIOUS
<1>2. CASE error # "OK"
  BY <1>2 DEF Pack
<1>3. CASE error = "OK" /\ client_mq' = Append(client_mq, p)
  BY <1>1, <1>3 DEF Pack, Errors
<1>4. CASE client_mq' = client_mq /\ submitted' = submitted
  BY <1>4 DEF Pack, Errors
<1> QED
  BY <1>2, <1>3, <1>4 DEF Pack

LEMMA FlagsApp == FlagsOK /\ AppStep => FlagsOK'
<1> SUFFICES ASSUME FlagsOK, AppStep PROVE FlagsOK'
  OBVIOUS
<1> USE DEF FlagsOK, clientVars, netVars, flags, daemonVars
<1>1. CASE CleanupClose
  BY <1>1, Zenon DEF CleanupClose, KernelClose
<1>2. CASE CleanupFlags
  BY <1>2, Zenon DEF CleanupFlags
<1>3. CASE StoreHandler
  BY <1>3, Zenon DEF StoreHandler
<1>4. CASE StoreContext
  BY <1>4, Zenon DEF StoreContext
<1>5. CASE OpenSocket
  BY <1>5, Zenon DEF OpenSocket, KernelOpen
<1>6. CASE OpenSocketFails
  BY <1>6, Zenon DEF OpenSocketFails
<1>7. CASE InitClient
  BY <1>7, Zenon DEF InitClient
<1>8. CASE SendConnect
  BY <1>8, Zenon DEF SendConnect, mqtt_connect, Pack, FailConnect
<1>9. CASE CheckConnectError
  BY <1>9, Zenon DEF CheckConnectError, FailConnect
<1>10. CASE DaemonExists
  BY <1>10, Zenon DEF DaemonExists
<1>11. CASE CreateDaemon
  BY <1>11, Zenon DEF CreateDaemon
<1>12. CASE CreateDaemonFails
  BY <1>12, Zenon DEF CreateDaemonFails, FailConnect
<1>13. CASE SetConnected
  BY <1>13, Zenon DEF SetConnected
<1>14. CASE RequestCall
  BY <1>14, Zenon DEF RequestCall, PublishCall, SubscribeCall,
     UnsubscribeCall, Queue, mqtt_queue, Pack
<1>15. CASE SendDisconnect
  BY <1>15, Zenon DEF SendDisconnect, mqtt_queue, Pack
<1>16. CASE StopDaemon
  BY <1>16, Zenon DEF StopDaemon
<1>17. CASE JoinDaemon
  BY <1>17, Zenon DEF JoinDaemon
<1>18. CASE ClearError
  BY <1>18, Zenon DEF ClearError
<1> QED
  BY <1>1, <1>2, <1>3, <1>4, <1>5, <1>6, <1>7, <1>8, <1>9, <1>10, <1>11, <1>12, <1>13, <1>14, <1>15, <1>16, <1>17, <1>18 DEF AppStep

LEMMA FlagsCall == FlagsOK /\ AppCall => FlagsOK'
<1> SUFFICES ASSUME FlagsOK, AppCall PROVE FlagsOK'
  OBVIOUS
<1> USE DEF FlagsOK, clientVars, netVars, flags, daemonVars
<1>1. CASE ConnectInvalid
  BY <1>1, Zenon DEF ConnectInvalid
<1>2. CASE ConnectBegin
  BY <1>2, Zenon DEF ConnectBegin
<1>3. ASSUME NEW r \in Requests, PublishRefused(r) \/ SubscribeRefused(r) \/ UnsubscribeRefused(r)
      PROVE  FlagsOK'
  <2>1. CASE PublishRefused(r)
    BY <2>1, SMT DEF PublishRefused, Refused
  <2>2. CASE SubscribeRefused(r) \/ UnsubscribeRefused(r)
    BY <2>2, Zenon DEF SubscribeRefused, UnsubscribeRefused, Refused
  <2> QED
    BY <1>3, <2>1, <2>2
<1>4. ASSUME NEW r \in Requests, RequestBegin(r) PROVE FlagsOK'
  BY <1>4, Zenon DEF RequestBegin
<1>5. CASE DisconnectIgnored \/ DisconnectBegin
  BY <1>5, Zenon DEF DisconnectIgnored, DisconnectBegin
<1> QED
  BY <1>1, <1>2, <1>3, <1>4, <1>5 DEF AppCall

LEMMA FlagsDaemon == ASSUME NEW d \in Daemons PROVE FlagsOK /\ DaemonStep(d) => FlagsOK'
<1> SUFFICES ASSUME FlagsOK, DaemonStep(d) PROVE FlagsOK'
  OBVIOUS
<1> USE DEF FlagsOK, clientVars, netVars, daemonVars, appVars
<1>1. CASE DaemonLoop(d) \/ DaemonCheckConnected(d) \/ CallbackHasHandler(d) \/ CallbackCall(d)
  BY <1>1, Zenon DEF DaemonLoop, DaemonCheckConnected, CallbackHasHandler, CallbackCall,
     CallbackReadsHandler, CallbackReadsContext
<1>2. CASE DaemonReceivesNothing(d) \/ DaemonReceivesPublish(d) \/ DaemonReceiveFails(d)
  BY <1>2, Zenon DEF DaemonReceivesNothing, DaemonReceivesPublish, DaemonReceiveFails,
     SyncReceiveNothing, SyncReceivePublish, SyncReceiveFails
<1>3. CASE CallbackDrops(d) \/ CallbackDone(d)
  BY <1>3, Zenon DEF CallbackDrops, CallbackDone, CallbackReturns
<1>4. CASE DaemonSends(d) \/ DaemonSendFails(d)
  BY <1>4, Zenon DEF DaemonSends, DaemonSendFails, SyncSends, SyncSendFails
<1>5. CASE DaemonSyncFailed(d) \/ DaemonCheckError(d) \/ DaemonMarksLost(d)
  BY <1>5, Zenon DEF DaemonSyncFailed, DaemonCheckError, DaemonMarksLost
<1> QED
  BY <1>1, <1>2, <1>3, <1>4, <1>5 DEF DaemonStep

LEMMA FlagsStep == FlagsOK /\ [Next]_vars => FlagsOK'
<1>1. FlagsOK /\ Network => FlagsOK'
  BY Zenon DEF Network, BrokerAccepts, PeerDrops, FlagsOK, ownVars, flags, daemonVars
<1>2. FlagsOK /\ UNCHANGED vars => FlagsOK'
  BY Zenon DEF FlagsOK, vars, flags, daemonVars, netVars
<1> QED
  BY <1>1, <1>2, FlagsApp, FlagsCall, FlagsDaemon DEF Next

LEMMA TypeInit == Init => TypeInv
<1>1. Init => FlagsOK
  BY Zenon DEF Init, LibraryInit, FlagsOK
<1> QED
  BY <1>1, LibraryAssumption DEF LibraryAssumption, Init, TypeInv, TypeOK, LibraryInit, LibraryTypeOK, Errors, AppLabels,
   AfterLabels, DaemonLabels, MaybeRegistration, NoCallback

LEMMA TypeApp == TypeInv /\ AppStep /\ FlagsOK' => TypeInv'
<1> SUFFICES ASSUME TypeInv, AppStep, FlagsOK' PROVE TypeInv'
  OBVIOUS
<1> USE DEF TypeInv, TypeOK, LibraryTypeOK, AppLabels, AfterLabels, MaybeRegistration,
        clientVars, netVars, flags, daemonVars, handlerVars, callVars, threadVars, AppAt
<1>1. CASE CleanupClose
  <2>1. CASE sockfd # NoFd
    <3>1. KernelClose(sockfd) /\ sockfd' = NoFd
      BY <1>1, <2>1 DEF CleanupClose
    <3>2. fdtab' \in [FDs -> 0..MaxOpens]
      <4>1. 0 \in 0..MaxOpens
        BY LibraryAssumption DEF LibraryAssumption
      <4>2. fdtab' = [fdtab EXCEPT ![sockfd] = 0]
        BY <3>1 DEF KernelClose
      <4> QED
        BY <4>1, <4>2
    <3>3. up' \subseteq 1..MaxOpens
      BY <3>1 DEF KernelClose
    <3> QED
      BY <1>1, <3>1, <3>2, <3>3 DEF CleanupClose, KernelClose
  <2>2. CASE sockfd = NoFd
    <3>1. UNCHANGED <<sockfd, netVars>>
      BY <1>1, <2>2 DEF CleanupClose
    <3>2. LibraryTypeOK'
      BY <1>1, <3>1 DEF CleanupClose
    <3>3. sockfd' \in FDs \cup {NoFd}
      BY <3>1
    <3> QED
      BY <1>1, <3>2, <3>3 DEF CleanupClose
  <2> QED
    BY <2>1, <2>2
<1>2. CASE CleanupFlags
  <2>1. CASE after = "return_false"
    BY <1>2, <2>1 DEF CleanupFlags, Return
  <2>2. CASE after # "return_false"
    BY <1>2, <2>2 DEF CleanupFlags
  <2> QED
    BY <2>1, <2>2
<1>3. CASE StoreHandler
  BY <1>3 DEF StoreHandler
<1>4. CASE StoreContext
  BY <1>4 DEF StoreContext
<1>5. CASE OpenSocket
  BY <1>5, LibraryAssumption DEF LibraryAssumption, OpenSocket, KernelOpen
<1>6. CASE OpenSocketFails
  BY <1>6 DEF OpenSocketFails, Return
<1>7. CASE InitClient
  BY <1>7 DEF InitClient, mqtt_init, Errors
<1>8. CASE SendConnect
  BY <1>8, ControlType, PackType DEF SendConnect, mqtt_connect, FailConnect, Errors
<1>9. CASE CheckConnectError
  <2>1. CASE client_error = "OK"
    BY <1>9, <2>1 DEF CheckConnectError
  <2>2. CASE client_error # "OK"
    BY <1>9, <2>2 DEF CheckConnectError, FailConnect
  <2> QED
    BY <2>1, <2>2
<1>10. CASE DaemonExists
  BY <1>10 DEF DaemonExists
<1>11. CASE CreateDaemon
  BY <1>11 DEF CreateDaemon, DaemonAt, DaemonLabels
<1>12. CASE CreateDaemonFails
  BY <1>12 DEF CreateDaemonFails, FailConnect
<1>13. CASE SetConnected
  BY <1>13 DEF SetConnected, Return
<1>14. CASE RequestCall
  BY <1>14, RequestPackets, ControlType, PackType DEF RequestCall, PublishCall, SubscribeCall,
     UnsubscribeCall, Queue, mqtt_queue, Return
<1>15. CASE SendDisconnect
  BY <1>15, ControlType, PackType DEF SendDisconnect, mqtt_queue
<1>16. CASE StopDaemon
  BY <1>16 DEF StopDaemon
<1>17. CASE JoinDaemon
  <2>1. dpc' \in [Daemons -> DaemonLabels]
    BY <1>17 DEF JoinDaemon, DaemonAt, DaemonLabels
  <2> QED
    BY <1>17, <2>1 DEF JoinDaemon
<1>18. CASE ClearError
  BY <1>18 DEF ClearError, Return
<1> QED
  BY <1>1, <1>2, <1>3, <1>4, <1>5, <1>6, <1>7, <1>8, <1>9, <1>10, <1>11, <1>12, <1>13,
     <1>14, <1>15, <1>16, <1>17, <1>18 DEF AppStep

LEMMA TypeCall == TypeInv /\ AppCall /\ FlagsOK' => TypeInv'
<1> SUFFICES ASSUME TypeInv, AppCall, FlagsOK' PROVE TypeInv'
  OBVIOUS
<1> USE DEF TypeInv, TypeOK, LibraryTypeOK, AppLabels, AfterLabels, MaybeRegistration,
        clientVars, netVars, flags, daemonVars, handlerVars, callVars, threadVars, AppAt, Return
<1>1. CASE ConnectInvalid
  BY <1>1 DEF ConnectInvalid
<1>2. CASE ConnectBegin
  BY <1>2 DEF ConnectBegin
<1>3. ASSUME NEW r \in Requests, PublishRefused(r) \/ SubscribeRefused(r) \/ UnsubscribeRefused(r)
      PROVE  TypeInv'
  BY <1>3 DEF PublishRefused, SubscribeRefused, UnsubscribeRefused, Refused
<1>4. ASSUME NEW r \in Requests, RequestBegin(r) PROVE TypeInv'
  BY <1>4 DEF RequestBegin
<1>5. CASE DisconnectIgnored
  BY <1>5 DEF DisconnectIgnored
<1>6. CASE DisconnectBegin
  BY <1>6 DEF DisconnectBegin
<1> QED
  BY <1>1, <1>2, <1>3, <1>4, <1>5, <1>6 DEF AppCall

LEMMA TypeDaemon == ASSUME NEW d \in Daemons PROVE TypeInv /\ DaemonStep(d) /\ FlagsOK' => TypeInv'
<1> SUFFICES ASSUME TypeInv, DaemonStep(d), FlagsOK' PROVE TypeInv'
  OBVIOUS
<1> USE DEF TypeInv, TypeOK, LibraryTypeOK, MaybeRegistration, DaemonAt, DaemonLabels, appVars,
        clientVars, netVars, daemonVars, handlerVars, callVars
<1>1. CASE DaemonLoop(d) \/ DaemonCheckConnected(d) \/ CallbackHasHandler(d)
           \/ DaemonSyncFailed(d) \/ DaemonCheckError(d) \/ DaemonMarksLost(d)
  <2>1. CASE DaemonLoop(d)
    BY <2>1 DEF DaemonLoop
  <2>2. CASE DaemonCheckConnected(d)
    BY <2>2 DEF DaemonCheckConnected
  <2>3. CASE CallbackHasHandler(d)
    BY <2>3 DEF CallbackHasHandler
  <2>4. CASE DaemonSyncFailed(d) \/ DaemonMarksLost(d)
    BY <2>4 DEF DaemonSyncFailed, DaemonMarksLost
  <2>5. CASE DaemonCheckError(d)
    BY <2>5 DEF DaemonCheckError
  <2> QED
    BY <1>1, <2>1, <2>2, <2>3, <2>4, <2>5
<1>2. CASE DaemonReceivesNothing(d)
  BY <1>2 DEF DaemonReceivesNothing, SyncReceiveNothing
<1>3. CASE DaemonReceivesPublish(d)
  BY <1>3 DEF DaemonReceivesPublish, SyncReceivePublish, NoCallback
<1>4. CASE DaemonReceiveFails(d)
  BY <1>4 DEF DaemonReceiveFails, SyncReceiveFails, Errors
<1>5. CASE CallbackDrops(d)
  BY <1>5 DEF CallbackDrops, CallbackReturns, NoCallback
<1>6. CASE CallbackCall(d)
  <2> DEFINE Messages == [from : MaybeRegistration, handler : MaybeRegistration, context : MaybeRegistration]
  <2>1. /\ [callback EXCEPT !.handler = message_handler] \in Messages
        /\ [callback EXCEPT !.context = user_context] \in Messages
    OBVIOUS
  <2>2. callback' \in Messages /\ dpc' \in [Daemons -> DaemonLabels]
    BY <1>6, <2>1 DEF CallbackCall, CallbackReadsHandler, CallbackReadsContext
  <2>3. UNCHANGED <<clientVars, netVars, appVars, is_connected, last_error>>
    BY <1>6 DEF CallbackCall, CallbackReadsHandler, CallbackReadsContext
  <2> HIDE DEF Messages
  <2> QED
    BY <2>2, <2>3 DEF Messages
<1>7. CASE CallbackDone(d)
  BY <1>7 DEF CallbackDone, CallbackReturns, NoCallback
<1>8. CASE DaemonSends(d)
  <2>1. wire \o client_mq \in Seq(Packets) /\ <<>> \in Seq(Packets)
    OBVIOUS
  <2> QED
    BY <1>8, <2>1 DEF DaemonSends, SyncSends
<1>9. CASE DaemonSendFails(d)
  BY <1>9 DEF DaemonSendFails, SyncSendFails, Errors
<1> QED
  BY <1>1, <1>2, <1>3, <1>4, <1>5, <1>6, <1>7, <1>8, <1>9 DEF DaemonStep

LEMMA TypeNetwork == TypeInv /\ Network /\ FlagsOK' => TypeInv'
BY DEF Network, BrokerAccepts, PeerDrops, TypeInv, TypeOK, LibraryTypeOK, ownVars, clientVars,
   flags, daemonVars, handlerVars, callVars, threadVars

LEMMA TypeStutter == TypeInv /\ UNCHANGED vars /\ FlagsOK' => TypeInv'
BY DEF TypeInv, TypeOK, LibraryTypeOK, vars, clientVars, netVars, flags, daemonVars,
   handlerVars, callVars, threadVars

\* Every variable keeps its type, and a request in progress its parameters.
THEOREM TypeCorrect == Spec => []TypeInv
<1>1. TypeInv /\ [Next]_vars => TypeInv'
  <2>1. TypeInv /\ [Next]_vars => FlagsOK'
    BY FlagsStep DEF TypeInv, TypeOK
  <2> QED
    BY <2>1, TypeApp, TypeCall, TypeDaemon, TypeNetwork, TypeStutter DEF Next
<1> QED
  BY <1>1, TypeInit, PTL DEF Spec

\* The type invariant the runs check.
THEOREM TypeSafe == Spec => []TypeOK
<1>1. TypeInv => TypeOK
  BY DEF TypeInv
<1> QED
  BY <1>1, TypeCorrect, PTL

-----------------------------------------------------------------------------
(***************************************************************************)
(* Resources.  SocketOwned, OneDaemon and ServedWhenInitialized are not    *)
(* inductive alone: what _sockfd, _is_initialized and the thread's flags   *)
(* say depends on how far the call in progress has come.                   *)
(***************************************************************************)
NoSocketYet == {"store_handler", "store_context", "open_socket", "cleanup_flags", "clear_error"}
Serving == {"request", "disconnect", "stop_daemon"}
Connecting == {"mqtt_connect", "check_error", "start_daemon", "set_connected"}

SocketPc ==
  /\ apc \in NoSocketYet => sockfd = NoFd /\ (is_initialized => apc = "cleanup_flags")
  /\ apc \in Connecting \cup Serving \cup {"mqtt_init"} => sockfd # NoFd
  /\ apc \in Connecting \cup Serving => client_socketfd = sockfd
  /\ apc \in Serving => is_initialized
  /\ apc = "idle" => IF is_initialized THEN sockfd # NoFd /\ client_socketfd = sockfd
                                       ELSE sockfd = NoFd

SocketInv == SocketOwned /\ SocketPc

ThreadInv ==
  /\ OneDaemon
  /\ daemon_created => (daemon_running <=> apc # "join")
  /\ daemon_created /\ daemon_running => dpc[client_daemon] # "exited"
  /\ apc \in Serving \cup {"set_connected", "join"} => daemon_created
  /\ apc = "idle" /\ is_initialized => daemon_created

LEMMA SocketInit == Init => SocketInv
BY DEF Init, LibraryInit, SocketInv, SocketOwned, OpenFds, SocketPc, NoSocketYet, Serving, Connecting

\* Where a call that has begun takes _sockfd.
LEMMA SocketPcApp == TypeInv /\ SocketPc /\ AppStep => SocketPc'
<1> SUFFICES ASSUME TypeInv, SocketPc, AppStep PROVE SocketPc'
  OBVIOUS
<1> USE DEF SocketPc, NoSocketYet, Serving, Connecting, AppAt, clientVars, netVars, flags
<1>1. CASE CleanupClose
  BY <1>1 DEF CleanupClose
<1>2. CASE CleanupFlags
  BY <1>2 DEF CleanupFlags, TypeInv, TypeOK, AfterLabels
<1>3. CASE StoreHandler
  BY <1>3 DEF StoreHandler
<1>4. CASE StoreContext
  BY <1>4 DEF StoreContext
<1>5. CASE OpenSocket
  BY <1>5, LibraryAssumption DEF LibraryAssumption, OpenSocket, NoFd
<1>6. CASE OpenSocketFails
  BY <1>6 DEF OpenSocketFails
<1>7. CASE InitClient
  BY <1>7 DEF InitClient, mqtt_init
<1>8. CASE SendConnect
  BY <1>8 DEF SendConnect, mqtt_connect, FailConnect
<1>9. CASE CheckConnectError
  BY <1>9 DEF CheckConnectError, FailConnect
<1>10. CASE DaemonExists
  BY <1>10 DEF DaemonExists
<1>11. CASE CreateDaemon
  BY <1>11 DEF CreateDaemon
<1>12. CASE CreateDaemonFails
  BY <1>12 DEF CreateDaemonFails, FailConnect
<1>13. CASE SetConnected
  BY <1>13 DEF SetConnected
<1>14. CASE RequestCall
  BY <1>14 DEF RequestCall, PublishCall, SubscribeCall, UnsubscribeCall, Queue, mqtt_queue
<1>15. CASE SendDisconnect
  BY <1>15 DEF SendDisconnect, mqtt_queue
<1>16. CASE StopDaemon
  BY <1>16 DEF StopDaemon
<1>17. CASE JoinDaemon
  BY <1>17 DEF JoinDaemon
<1>18. CASE ClearError
  BY <1>18 DEF ClearError
<1> QED
  BY <1>1, <1>2, <1>3, <1>4, <1>5, <1>6, <1>7, <1>8, <1>9, <1>10, <1>11, <1>12, <1>13, <1>14, <1>15, <1>16, <1>17, <1>18 DEF AppStep

LEMMA SocketPcCall == SocketPc /\ AppCall => SocketPc'
<1> SUFFICES ASSUME SocketPc, AppCall PROVE SocketPc'
  OBVIOUS
<1> USE DEF SocketPc, NoSocketYet, Serving, Connecting, AppAt, clientVars, flags
<1>1. CASE ConnectInvalid
  BY <1>1 DEF ConnectInvalid
<1>2. CASE ConnectBegin
  BY <1>2 DEF ConnectBegin
<1>3. ASSUME NEW r \in Requests, PublishRefused(r) \/ SubscribeRefused(r) \/ UnsubscribeRefused(r)
      PROVE  SocketPc'
  BY <1>3 DEF PublishRefused, SubscribeRefused, UnsubscribeRefused, Refused
<1>4. ASSUME NEW r \in Requests, RequestBegin(r) PROVE SocketPc'
  BY <1>4 DEF RequestBegin
<1>5. CASE DisconnectIgnored
  BY <1>5 DEF DisconnectIgnored
<1>6. CASE DisconnectBegin
  BY <1>6 DEF DisconnectBegin
<1> QED
  BY <1>1, <1>2, <1>3, <1>4, <1>5, <1>6 DEF AppCall

\* The background thread neither opens nor closes anything, and touches none
\* of the variables the application's calls go by, but is_connected.
LEMMA DaemonFrame ==
  ASSUME NEW d \in Daemons, DaemonStep(d)
  PROVE  UNCHANGED <<fdtab, client_socketfd, sockfd, is_initialized, apc, daemonVars>>
<1> USE DEF appVars, clientVars, netVars
<1>1. CASE DaemonLoop(d) \/ DaemonCheckConnected(d) \/ CallbackHasHandler(d) \/ CallbackCall(d)
  BY <1>1, Zenon DEF DaemonLoop, DaemonCheckConnected, CallbackHasHandler, CallbackCall,
     CallbackReadsHandler, CallbackReadsContext
<1>2. CASE DaemonReceivesNothing(d) \/ DaemonReceivesPublish(d) \/ DaemonReceiveFails(d)
  BY <1>2, Zenon DEF DaemonReceivesNothing, DaemonReceivesPublish, DaemonReceiveFails,
     SyncReceiveNothing, SyncReceivePublish, SyncReceiveFails
<1>3. CASE CallbackDrops(d) \/ CallbackDone(d)
  BY <1>3, Zenon DEF CallbackDrops, CallbackDone, CallbackReturns
<1>4. CASE DaemonSends(d) \/ DaemonSendFails(d)
  BY <1>4, Zenon DEF DaemonSends, DaemonSendFails, SyncSends, SyncSendFails
<1>5. CASE DaemonSyncFailed(d) \/ DaemonCheckError(d) \/ DaemonMarksLost(d)
  BY <1>5, Zenon DEF DaemonSyncFailed, DaemonCheckError, DaemonMarksLost
<1> QED
  BY <1>1, <1>2, <1>3, <1>4, <1>5 DEF DaemonStep

LEMMA NetworkFrame ==
  ASSUME Network \/ UNCHANGED vars
  PROVE  UNCHANGED <<fdtab, client_socketfd, sockfd, is_initialized, apc, daemonVars, dpc>>
BY Zenon DEF Network, BrokerAccepts, PeerDrops, vars, ownVars, clientVars, netVars, flags,
   daemonVars, threadVars

LEMMA SocketOwnedApp == TypeInv /\ SocketInv /\ AppStep => SocketOwned'
<1> SUFFICES ASSUME TypeInv, SocketInv, AppStep PROVE SocketOwned'
  OBVIOUS
<1>1. NoFd \notin FDs /\ fdtab \in [FDs -> 0..MaxOpens] /\ opened \in 0..MaxOpens
  BY LibraryAssumption DEF LibraryAssumption, NoFd, TypeInv, TypeOK, LibraryTypeOK
<1>2. CASE CleanupClose
  <2>1. CASE UNCHANGED <<sockfd, netVars>>
    BY <2>1 DEF netVars, SocketInv, SocketOwned, OpenFds
  <2>2. CASE sockfd # NoFd /\ KernelClose(sockfd) /\ sockfd' = NoFd
    <3>1. sockfd \in FDs
      BY <2>2 DEF TypeInv, TypeOK
    <3>2. \A fd \in FDs : fdtab'[fd] = IF fd = sockfd THEN 0 ELSE fdtab[fd]
      BY <1>1, <2>2, <3>1 DEF KernelClose
    <3> QED
      BY <2>2, <3>1, <3>2 DEF SocketInv, SocketOwned, OpenFds
  <2> QED
    BY <1>2, <2>1, <2>2 DEF CleanupClose
<1>3. CASE OpenSocket
  <2>1. PICK fd \in FDs : KernelOpen(fd) /\ sockfd' = fd
    BY <1>3 DEF OpenSocket
  <2>2. sockfd = NoFd
    BY <1>3 DEF OpenSocket, AppAt, SocketInv, SocketPc, NoSocketYet
  <2>3. opened' # 0
    BY <1>1, <2>1, LibraryAssumption DEF KernelOpen, LibraryAssumption
  <2>4. \A g \in FDs : fdtab'[g] = IF g = fd THEN opened' ELSE fdtab[g]
    BY <1>1, <2>1 DEF KernelOpen
  <2> QED
    BY <1>1, <2>1, <2>2, <2>3, <2>4 DEF SocketInv, SocketOwned, OpenFds
<1>4. CASE OpenSocketFails
  <2>1. sockfd = NoFd /\ sockfd' = NoFd /\ fdtab' = fdtab
    BY <1>4 DEF OpenSocketFails, AppAt, SocketInv, SocketPc, NoSocketYet, netVars
  <2> QED
    BY <2>1 DEF SocketInv, SocketOwned, OpenFds
<1>5. CASE AppStep /\ ~CleanupClose /\ ~OpenSocket /\ ~OpenSocketFails
  <2>1. UNCHANGED <<sockfd, fdtab>>
    BY <1>5, Zenon DEF AppStep, CleanupFlags, StoreHandler, StoreContext, InitClient, SendConnect,
       mqtt_connect, CheckConnectError, DaemonExists, CreateDaemon, CreateDaemonFails,
       SetConnected, RequestCall, PublishCall, SubscribeCall, UnsubscribeCall, Queue, mqtt_queue,
       SendDisconnect, StopDaemon, JoinDaemon,
       ClearError, netVars, flags
  <2> QED
    BY <2>1 DEF SocketInv, SocketOwned, OpenFds
<1> QED
  BY <1>2, <1>3, <1>4, <1>5

LEMMA SocketStep == TypeInv /\ SocketInv /\ [Next]_vars => SocketInv'
<1> SUFFICES ASSUME TypeInv, SocketInv, [Next]_vars PROVE SocketInv'
  OBVIOUS
<1>1. CASE AppStep
  BY <1>1, SocketOwnedApp, SocketPcApp DEF SocketInv
<1>2. CASE AppCall
  <2>1. UNCHANGED <<sockfd, fdtab>>
    BY <1>2, Zenon DEF AppCall, ConnectInvalid, ConnectBegin, PublishRefused, SubscribeRefused,
       UnsubscribeRefused, Refused, RequestBegin,
       DisconnectIgnored, DisconnectBegin, netVars, flags
  <2> QED
    BY <1>2, <2>1, SocketPcCall DEF SocketInv, SocketOwned, OpenFds
<1>3. CASE UNCHANGED <<fdtab, client_socketfd, sockfd, is_initialized, apc, daemonVars>>
  BY <1>3 DEF SocketInv, SocketOwned, OpenFds, SocketPc
<1> QED
  BY <1>1, <1>2, <1>3, DaemonFrame, NetworkFrame DEF Next

\* No path through dx_mqttConnect or dx_mqttDisconnect leaks a socket or keeps
\* the descriptor of a closed one, in whatever order they are called.
THEOREM SocketsOwned == Spec => []SocketOwned
<1>1. TypeInv /\ SocketInv /\ TypeInv' /\ [Next]_vars => SocketInv'
  BY SocketStep
<1>2. SocketInv => SocketOwned
  BY DEF SocketInv
<1> QED
  BY <1>1, <1>2, SocketInit, TypeCorrect, PTL DEF Spec

LEMMA ThreadInit == Init => ThreadInv
BY DEF Init, ThreadInv, OneDaemon, Threads, Serving

\* A step of a thread leaves it a thread; it ends only when told to.
LEMMA DaemonThread ==
  ASSUME TypeInv, NEW d \in Daemons, DaemonStep(d)
  PROVE  /\ dpc[d] # "none" /\ dpc'[d] # "none"
         /\ dpc'[d] = "exited" => ~daemon_running
         /\ \A e \in Daemons \ {d} : dpc'[e] = dpc[e]
<1>1. dpc \in [Daemons -> DaemonLabels]
  BY DEF TypeInv, TypeOK
<1> USE <1>1 DEF DaemonAt
<1>2. CASE DaemonLoop(d)
  <2>1. CASE daemon_running
    BY <1>2, <2>1 DEF DaemonLoop
  <2>2. CASE ~daemon_running
    BY <1>2, <2>2 DEF DaemonLoop
  <2> QED
    BY <2>1, <2>2
<1>3. CASE DaemonCheckConnected(d) \/ DaemonCheckError(d)
  BY <1>3 DEF DaemonCheckConnected, DaemonCheckError
<1>4. CASE DaemonReceivesNothing(d) \/ DaemonReceivesPublish(d) \/ DaemonReceiveFails(d)
  BY <1>4 DEF DaemonReceivesNothing, DaemonReceivesPublish, DaemonReceiveFails
<1>5. CASE CallbackDrops(d) \/ CallbackDone(d)
  BY <1>5 DEF CallbackDrops, CallbackDone, CallbackReturns
<1>6. CASE CallbackHasHandler(d) \/ CallbackCall(d)
  BY <1>6 DEF CallbackHasHandler, CallbackCall, CallbackReadsHandler, CallbackReadsContext
<1>7. CASE DaemonSends(d) \/ DaemonSendFails(d)
  BY <1>7 DEF DaemonSends, DaemonSendFails
<1>8. CASE DaemonSyncFailed(d) \/ DaemonMarksLost(d)
  BY <1>8 DEF DaemonSyncFailed, DaemonMarksLost
<1> QED
  BY <1>2, <1>3, <1>4, <1>5, <1>6, <1>7, <1>8 DEF DaemonStep

\* The thread a daemon_created stands for is a thread.
LEMMA CreatedDaemon ==
  ASSUME OneDaemon
  PROVE  daemon_created => client_daemon \in Daemons /\ dpc[client_daemon] # "none"
BY DEF OneDaemon, Threads

LEMMA ThreadApp == TypeInv /\ SocketInv /\ ThreadInv /\ AppStep => ThreadInv'
<1> SUFFICES ASSUME TypeInv, SocketInv, ThreadInv, AppStep PROVE ThreadInv'
  OBVIOUS
<1>1. dpc \in [Daemons -> DaemonLabels] /\ after \in AfterLabels /\ NULL \notin Daemons
  BY ClientAssumption DEF TypeInv, TypeOK, ClientAssumption
<1>2. CASE CreateDaemon
  <2>1. PICK d \in Daemons : DaemonAt(d, "none", "loop") /\ client_daemon' = d
    BY <1>2 DEF CreateDaemon
  <2>2. Threads = {}
    BY <1>2 DEF CreateDaemon, ThreadInv, OneDaemon
  <2>3. \A e \in Daemons : dpc'[e] = IF e = d THEN "loop" ELSE dpc[e]
    BY <1>1, <2>1 DEF DaemonAt
  <2>4. OneDaemon'
    BY <1>2, <2>1, <2>2, <2>3 DEF CreateDaemon, OneDaemon, Threads
  <2> QED
    BY <1>2, <2>1, <2>3, <2>4 DEF CreateDaemon, AppAt, ThreadInv, Serving
<1>3. CASE JoinDaemon
  <2>1. daemon_created /\ Threads = {client_daemon}
    BY <1>3 DEF JoinDaemon, AppAt, ThreadInv, OneDaemon
  <2>2. client_daemon \in Daemons
    BY <2>1 DEF Threads
  <2>3. \A e \in Daemons : dpc'[e] = IF e = client_daemon THEN "none" ELSE dpc[e]
    BY <1>1, <1>3, <2>2 DEF JoinDaemon, DaemonAt
  <2>4. Threads' = {}
    BY <2>1, <2>3 DEF Threads
  <2>5. daemon_created' = FALSE /\ apc' = "cleanup_close"
    BY <1>3 DEF JoinDaemon, AppAt
  <2> QED
    BY <2>4, <2>5 DEF ThreadInv, OneDaemon, Serving
<1>4. CASE StopDaemon
  <2>1. daemon_created /\ daemon_running /\ client_daemon \in Daemons
    BY <1>4, CreatedDaemon DEF StopDaemon, ThreadInv, Serving
  <2>2. apc' = "join" /\ ~daemon_running' /\ UNCHANGED <<daemon_created, client_daemon, dpc>>
    BY <1>1, <1>4, <2>1, Zenon DEF StopDaemon, threadVars
  <2> QED
    BY <2>1, <2>2 DEF ThreadInv, OneDaemon, Threads, Serving
<1>5. CASE AppStep /\ ~CreateDaemon /\ ~JoinDaemon /\ ~StopDaemon /\ ~CreateDaemonFails
  <2>1. UNCHANGED <<daemonVars, dpc>>
    BY <1>5, Zenon DEF AppStep, CleanupClose, CleanupFlags, StoreHandler, StoreContext, OpenSocket,
       OpenSocketFails, InitClient, SendConnect, CheckConnectError, DaemonExists, SetConnected,
       RequestCall, PublishCall, SubscribeCall, UnsubscribeCall, Queue, SendDisconnect, ClearError,
       threadVars
  <2>2. OneDaemon'
    BY <2>1 DEF ThreadInv, OneDaemon, Threads, daemonVars
  <2>3. CASE CleanupClose \/ StoreHandler \/ StoreContext \/ OpenSocket \/ InitClient \/ CheckConnectError
    BY <2>1, <2>2, <2>3 DEF CleanupClose, StoreHandler, StoreContext, OpenSocket, InitClient,
       CheckConnectError, FailConnect, AppAt, ThreadInv, Serving, daemonVars
  <2>4. CASE CleanupFlags
    <3>1. apc = "cleanup_flags" /\ is_initialized' = FALSE
      BY <2>4 DEF CleanupFlags
    <3>2. apc' \in {"idle", "store_handler", "clear_error"}
      BY <1>1, <2>4 DEF CleanupFlags, AfterLabels
    <3> QED
      BY <2>1, <2>2, <3>1, <3>2 DEF ThreadInv, Serving, daemonVars
  <2>5. CASE OpenSocketFails \/ ClearError
    <3>1. apc \in {"open_socket", "clear_error"} /\ apc' = "idle" /\ is_initialized' = is_initialized
      BY <2>5 DEF OpenSocketFails, ClearError, AppAt, flags
    <3> QED
      BY <2>1, <2>2, <3>1 DEF SocketInv, SocketPc, NoSocketYet, ThreadInv, Serving, daemonVars
  <2>6. CASE SendConnect
    BY <2>1, <2>2, <2>6 DEF SendConnect, FailConnect, ThreadInv, Serving, daemonVars
  <2>7. CASE DaemonExists \/ SetConnected \/ RequestCall \/ SendDisconnect
    BY <2>1, <2>2, <2>7 DEF DaemonExists, SetConnected, RequestCall, PublishCall,
       SubscribeCall, UnsubscribeCall, Queue, SendDisconnect, AppAt,
       ThreadInv, Serving, daemonVars
  <2> QED
    BY <1>5, <2>3, <2>4, <2>5, <2>6, <2>7 DEF AppStep
<1>6. CASE CreateDaemonFails
  <2>1. OneDaemon'
    BY <1>6 DEF CreateDaemonFails, ThreadInv, OneDaemon, Threads, threadVars
  <2> QED
    BY <1>6, <2>1 DEF CreateDaemonFails, FailConnect, ThreadInv, Serving
<1> QED
  BY <1>2, <1>3, <1>4, <1>5, <1>6

LEMMA ThreadStep == TypeInv /\ SocketInv /\ ThreadInv /\ [Next]_vars => ThreadInv'
<1> SUFFICES ASSUME TypeInv, SocketInv, ThreadInv, [Next]_vars PROVE ThreadInv'
  OBVIOUS
<1>1. CASE AppStep
  BY <1>1, ThreadApp
<1>2. CASE AppCall
  <2>1. UNCHANGED <<daemonVars, dpc>>
    BY <1>2, Zenon DEF AppCall, ConnectInvalid, ConnectBegin, PublishRefused, SubscribeRefused,
       UnsubscribeRefused, Refused, RequestBegin,
       DisconnectIgnored, DisconnectBegin, threadVars
  <2>2. OneDaemon'
    BY <2>1 DEF ThreadInv, OneDaemon, Threads, daemonVars
  <2>3. apc = "idle" /\ UNCHANGED is_initialized
    BY <1>2, Zenon DEF AppCall, ConnectInvalid, ConnectBegin, PublishRefused, SubscribeRefused,
       UnsubscribeRefused, Refused, RequestBegin,
       DisconnectIgnored, DisconnectBegin, flags, AppAt
  <2>4. \/ apc' = "idle"
        \/ apc' \in {"cleanup_close", "store_handler"}
        \/ apc' \in Serving /\ is_initialized
    BY <1>2 DEF AppCall, ConnectInvalid, ConnectBegin, PublishRefused, SubscribeRefused,
       UnsubscribeRefused, Refused, RequestBegin,
       DisconnectIgnored, DisconnectBegin, flags, AppAt, Serving
  <2> QED
    BY <2>1, <2>2, <2>3, <2>4 DEF ThreadInv, daemonVars, Serving
<1>3. ASSUME NEW d \in Daemons, DaemonStep(d) PROVE ThreadInv'
  <2>1. UNCHANGED <<is_initialized, apc, daemonVars>>
    BY <1>3, DaemonFrame
  <2>2. Threads' = Threads
    BY <1>3, DaemonThread DEF Threads
  <2>3. OneDaemon'
    BY <2>1, <2>2 DEF ThreadInv, OneDaemon, daemonVars
  <2>4. daemon_created /\ daemon_running => dpc'[client_daemon] # "exited"
    BY <1>3, DaemonThread, CreatedDaemon DEF ThreadInv
  <2> QED
    BY <2>1, <2>3, <2>4 DEF ThreadInv, daemonVars
<1>4. CASE Network \/ UNCHANGED vars
  <2>1. UNCHANGED <<is_initialized, apc, daemonVars, dpc>>
    BY <1>4, NetworkFrame
  <2> QED
    BY <2>1 DEF ThreadInv, OneDaemon, Threads, daemonVars
<1> QED
  BY <1>1, <1>2, <1>3, <1>4 DEF Next

THEOREM ResourceInv == Spec => [](TypeInv /\ SocketInv /\ ThreadInv)
<1>1. TypeInv /\ SocketInv /\ ThreadInv /\ [Next]_vars => (SocketInv /\ ThreadInv)'
  BY SocketStep, ThreadStep
<1> QED
  BY <1>1, SocketInit, ThreadInit, TypeCorrect, PTL DEF Spec

\* At most one background thread exists, and daemon_created, client_daemon say
\* which: it is never orphaned and never started twice.
THEOREM OneDaemonAlways == Spec => []OneDaemon
<1>1. ThreadInv => OneDaemon
  BY DEF ThreadInv
<1> QED
  BY <1>1, ResourceInv, PTL

\* Between calls an initialised client has a running thread that works on the
\* socket that is open.
THEOREM Served == Spec => []ServedWhenInitialized
<1>1. SocketInv /\ ThreadInv => ServedWhenInitialized
  BY CreatedDaemon DEF SocketInv, SocketPc, ThreadInv, ServedWhenInitialized, Alive
<1> QED
  BY <1>1, ResourceInv, PTL

-----------------------------------------------------------------------------
(***************************************************************************)
(* What holds when every session is ended by dx_mqttDisconnect before the  *)
(* next is opened: a session is what MqttSession says.                     *)
(***************************************************************************)

\* From dx_mqttConnect's first assignment to its last, and the end of
\* dx_mqttDisconnect: no session, and no thread before "set_connected".
Down == {"store_handler", "store_context", "open_socket", "mqtt_init", "clear_error"} \cup Connecting

\* In mqtt_sync, or on the way out of it.
Working == DaemonLabels \ {"none", "loop", "check_connected", "exited"}

\* The thread lives in a session and works only once it is open.
ThreadInSession ==
  /\ is_connected => is_initialized
  /\ apc \in Down => ~is_initialized
  /\ daemon_created => \/ apc \in Serving \cup {"set_connected", "join"}
                       \/ apc = "idle" /\ is_initialized
  /\ \A d \in Daemons : dpc[d] \in Working => is_initialized

\* An error is never taken back, and precedes every report of a loss.
LossHasCause ==
  /\ is_initialized /\ client_error = "OK" => is_connected
  /\ \A d \in Daemons : dpc[d] \in {"sync_failed", "mark_lost"} => client_error # "OK"

\* The two halves of a registration are stored before the session is opened
\* under it, and stay.
OneRegistration ==
  /\ apc = "store_context" => message_handler = registration
  /\ apc = "open_socket" => message_handler = registration /\ user_context = registration
  /\ apc \in Connecting \cup {"mqtt_init"} \/ is_initialized
       => message_handler = regOf /\ user_context = regOf

\* How far the delivery of a message has come: the handler and the context are
\* read one after the other, in either order.
Reading == {"callback_call", "callback_handler", "callback_context", "callback_run"}
HandlerRead == {"callback_context", "callback_run"}
ContextRead == {"callback_handler", "callback_run"}

Delivery ==
  /\ \A d \in Daemons :
       /\ dpc[d] \in Reading \cup {"callback_check"} => callback.from = regOf
       /\ dpc[d] \in Reading => message_handler = regOf /\ regOf # NULL
       /\ dpc[d] \in HandlerRead => callback.handler = regOf
       /\ dpc[d] \in ContextRead => callback.context = regOf
  /\ callback.handler # NULL => \E d \in Daemons : dpc[d] \in HandlerRead

\* What was accepted is what was carried and what is queued, as long as the
\* connection is up; a connection starts with nothing of either.
Carried ==
  /\ Len(wire) <= Len(submitted)
  /\ \A i \in DOMAIN wire : wire[i] = submitted[i]
  /\ \A i \in DOMAIN submitted : submitted[i].type = "CONNECT" <=> i = 1
  /\ ClientConn \in up /\ ClientConn = opened /\ apc # "mqtt_init" => submitted = wire \o client_mq
  /\ client_error = "OK" /\ apc # "mqtt_init" => submitted # <<>>
  /\ apc \in {"mqtt_init", "mqtt_connect"} => wire = <<>> /\ submitted = <<>>
  /\ apc = "mqtt_connect" => client_mq = <<>> /\ client_error = "CONNECT_NOT_CALLED"
  /\ apc \in {"check_error", "start_daemon", "set_connected"}
       => wire = <<>> /\ submitted = <<Control("CONNECT")>> /\ client_error = "OK"

SessionInv == ThreadInSession /\ LossHasCause /\ OneRegistration /\ Delivery /\ Carried

LEMMA SessionInit == Init => SessionInv
<1> SUFFICES ASSUME Init PROVE SessionInv
  OBVIOUS
<1>1. ThreadInSession /\ LossHasCause /\ OneRegistration
  BY DEF Init, LibraryInit, ThreadInSession, LossHasCause, OneRegistration, Down, Connecting,
     Serving, Working
<1>2. Delivery
  BY DEF Init, Delivery, NoCallback, Reading, HandlerRead, ContextRead
<1>3. Carried
  <2>1. ClientConn = 0 /\ wire = <<>> /\ submitted = <<>> /\ up = {} /\ apc = "idle"
    BY DEF Init, LibraryInit, ClientConn, NoFd
  <2>2. client_error # "OK"
    BY DEF Init, LibraryInit
  <2> QED
    BY <2>1, <2>2 DEF Carried
<1> QED
  BY <1>1, <1>2, <1>3 DEF SessionInv

-----------------------------------------------------------------------------
(* Which thread there is, and when.                                        *)

LEMMA NoThread ==
  ASSUME TypeInv, OneDaemon, ~daemon_created, NEW d \in Daemons
  PROVE  dpc[d] = "none"
BY DEF OneDaemon, Threads

\* There is one thread at most, and a step of a thread is its.
LEMMA OneThread ==
  ASSUME TypeInv, OneDaemon, NEW d \in Daemons, dpc[d] # "none"
  PROVE  daemon_created /\ client_daemon = d /\ \A e \in Daemons \ {d} : dpc[e] = "none"
BY DEF OneDaemon, Threads

\* The application's steps leave a thread that works where it is.
LEMMA AppThreads ==
  ASSUME TypeInv, OneDaemon, AppStep
  PROVE  /\ callback' = callback
         /\ \A d \in Daemons : dpc'[d] = dpc[d] \/ dpc'[d] \in {"none", "loop"}
         /\ \A d \in Daemons : dpc[d] \in Working => dpc'[d] = dpc[d]
<1>1. dpc \in [Daemons -> DaemonLabels]
  BY DEF TypeInv, TypeOK
<1>2. CASE CreateDaemon
  BY <1>1, <1>2 DEF CreateDaemon, DaemonAt, Working
<1>3. CASE JoinDaemon
  <2>1. dpc[client_daemon] = "exited" /\ dpc' = [dpc EXCEPT ![client_daemon] = "none"] /\ callback' = callback
    BY <1>3 DEF JoinDaemon, DaemonAt
  <2> QED
    BY <1>1, <2>1 DEF Working
<1>4. CASE ~CreateDaemon /\ ~JoinDaemon
  <2>1. UNCHANGED <<callback, dpc>>
    BY <1>4, Zenon DEF AppStep, CleanupClose, CleanupFlags, StoreHandler, StoreContext, OpenSocket,
       OpenSocketFails, InitClient, SendConnect, CheckConnectError, DaemonExists, SetConnected,
       RequestCall, PublishCall, SubscribeCall, UnsubscribeCall, Queue, SendDisconnect, ClearError,
       CreateDaemonFails, StopDaemon, threadVars
  <2> QED
    BY <2>1
<1> QED
  BY <1>2, <1>3, <1>4

\* A call begins between calls and changes nothing the thread can see.
LEMMA CallFrame ==
  ASSUME AppCall
  PROVE  /\ apc = "idle"
         /\ UNCHANGED <<clientVars, netVars, flags, daemonVars, handlerVars, threadVars, regOf>>
         /\ apc' \in {"idle", "cleanup_close", "store_handler"} \cup Serving
BY Zenon DEF AppCall, ConnectInvalid, ConnectBegin, PublishRefused, SubscribeRefused,
   UnsubscribeRefused, Refused, RequestBegin, DisconnectIgnored, DisconnectBegin, AppAt, Serving

LEMMA CallPlace ==
  ASSUME AppCall, ReconnectAllowed = FALSE
  PROVE  \/ apc' = "idle"
         \/ apc' = "store_handler" /\ ~is_initialized
         \/ apc' \in Serving /\ is_initialized
BY DEF AppCall, ConnectInvalid, ConnectBegin, PublishRefused, SubscribeRefused,
   UnsubscribeRefused, Refused, RequestBegin, DisconnectIgnored, DisconnectBegin, AppAt, Serving

-----------------------------------------------------------------------------
LEMMA ThreadInSessionApp ==
  ASSUME TypeInv, SocketInv, ThreadInv, ThreadInSession, AppStep
  PROVE  ThreadInSession'
<1>1. OneDaemon /\ after \in AfterLabels
  BY DEF ThreadInv, TypeInv, TypeOK
<1>2. (\A d \in Daemons : dpc'[d] \in Working => is_initialized')
  <2>1. CASE CleanupFlags
    <3>1. ~daemon_created /\ dpc' = dpc
      BY <2>1, Zenon DEF CleanupFlags, ThreadInSession, Serving, threadVars
    <3> QED
      BY <1>1, <3>1, NoThread DEF Working
  <2>2. CASE SetConnected
    BY <2>2 DEF SetConnected
  <2>3. CASE ~CleanupFlags /\ ~SetConnected
    <3>1. is_initialized' = is_initialized
      BY <2>3, Zenon DEF AppStep, CleanupClose, StoreHandler, StoreContext, OpenSocket,
         OpenSocketFails, InitClient, SendConnect, CheckConnectError, DaemonExists, CreateDaemon,
         CreateDaemonFails, RequestCall, PublishCall, SubscribeCall, UnsubscribeCall, Queue,
         SendDisconnect, StopDaemon, JoinDaemon, ClearError, flags
    <3> QED
      BY <1>1, <3>1, AppThreads DEF ThreadInSession, Working
  <2> QED
    BY <2>1, <2>2, <2>3
<1> USE DEF Down, Connecting, Serving, AppAt, flags, daemonVars
<1>3. CASE CleanupFlags
  BY <1>1, <1>2, <1>3 DEF CleanupFlags, ThreadInSession, AfterLabels
<1>4. CASE CleanupClose \/ StoreHandler \/ StoreContext \/ OpenSocket \/ InitClient \/ CheckConnectError
  BY <1>2, <1>4 DEF CleanupClose, StoreHandler, StoreContext, OpenSocket, InitClient,
     CheckConnectError, FailConnect, ThreadInSession
<1>5. CASE OpenSocketFails \/ ClearError
  BY <1>2, <1>5 DEF OpenSocketFails, ClearError, ThreadInSession
<1>6. CASE SendConnect
  BY <1>2, <1>6 DEF SendConnect, FailConnect, ThreadInSession
<1>7. CASE DaemonExists \/ CreateDaemon \/ CreateDaemonFails \/ SetConnected
  BY <1>2, <1>7 DEF DaemonExists, CreateDaemon, CreateDaemonFails, SetConnected, FailConnect,
     ThreadInSession
<1>8. CASE RequestCall \/ SendDisconnect
  BY <1>2, <1>8 DEF RequestCall, PublishCall, SubscribeCall, UnsubscribeCall, Queue,
     SendDisconnect, SocketInv, SocketPc, ThreadInSession
<1>9. CASE StopDaemon
  BY <1>2, <1>9, <1>1, CreatedDaemon, ClientAssumption DEF StopDaemon, ThreadInv, ThreadInSession,
     ClientAssumption
<1>10. CASE JoinDaemon
  BY <1>2, <1>10 DEF JoinDaemon, ThreadInSession
<1> QED
  BY <1>3, <1>4, <1>5, <1>6, <1>7, <1>8, <1>9, <1>10 DEF AppStep

\* The calls' steps that change no more than where the call is.
LEMMA LossHasCauseApp ==
  ASSUME TypeInv, SocketInv, ThreadInv, ThreadInSession, LossHasCause, Carried, AppStep
  PROVE  LossHasCause'
<1>1. OneDaemon /\ after \in AfterLabels
  BY DEF ThreadInv, TypeInv, TypeOK
<1>2. \A d \in Daemons : dpc'[d] \in {"sync_failed", "mark_lost"} =>
         dpc[d] \in {"sync_failed", "mark_lost"} /\ dpc[d] \in Working /\ daemon_created /\ is_initialized
  <2> SUFFICES ASSUME NEW d \in Daemons, dpc'[d] \in {"sync_failed", "mark_lost"}
               PROVE  /\ dpc[d] \in {"sync_failed", "mark_lost"} /\ dpc[d] \in Working
                      /\ daemon_created /\ is_initialized
    OBVIOUS
  <2>1. dpc'[d] = dpc[d]
    BY <1>1, AppThreads
  <2>2. dpc[d] \in Working
    BY <2>1 DEF Working, DaemonLabels
  <2> QED
    BY <1>1, <2>1, <2>2, OneThread DEF ThreadInSession, Working
<1>3. CASE InitClient \/ SendConnect
  <2>1. ~is_initialized /\ is_initialized' = is_initialized
    BY <1>3 DEF InitClient, SendConnect, AppAt, ThreadInSession, Down, Connecting, flags
  <2> QED
    BY <1>2, <2>1 DEF LossHasCause
<1>4. CASE SetConnected
  BY <1>2, <1>4 DEF SetConnected, LossHasCause, clientVars
<1>5. CASE CleanupFlags
  BY <1>2, <1>5 DEF CleanupFlags, LossHasCause, clientVars
<1>6. CASE RequestCall
  BY <1>2, <1>6 DEF RequestCall, PublishCall, SubscribeCall, UnsubscribeCall, Queue, mqtt_queue,
     Pack, LossHasCause
<1>7. CASE SendDisconnect
  BY <1>2, <1>7 DEF SendDisconnect, mqtt_queue, Pack, LossHasCause, flags
<1>8. CASE AppStep /\ ~InitClient /\ ~SendConnect /\ ~SetConnected /\ ~CleanupFlags /\ ~RequestCall
           /\ ~SendDisconnect
  <2>1. UNCHANGED <<client_error, is_connected, is_initialized>>
    BY <1>8, Zenon DEF AppStep, CleanupClose, StoreHandler, StoreContext, OpenSocket,
       OpenSocketFails, CheckConnectError, DaemonExists, CreateDaemon, CreateDaemonFails,
       StopDaemon, JoinDaemon, ClearError, flags, clientVars
  <2> QED
    BY <1>2, <2>1 DEF LossHasCause
<1> QED
  BY <1>3, <1>4, <1>5, <1>6, <1>7, <1>8

LEMMA OneRegistrationApp ==
  ASSUME TypeInv, SocketInv, ThreadInv, ThreadInSession, OneRegistration, AppStep
  PROVE  OneRegistration'
<1> USE DEF OneRegistration, ThreadInSession, Down, Connecting, AppAt, flags, handlerVars, callVars
<1>1. after \in AfterLabels
  BY DEF TypeInv, TypeOK
<1>2. CASE CleanupClose
  BY <1>2 DEF CleanupClose
<1>3. CASE CleanupFlags
  BY <1>1, <1>3 DEF CleanupFlags, AfterLabels
<1>4. CASE StoreHandler
  BY <1>4 DEF StoreHandler
<1>5. CASE StoreContext
  BY <1>5 DEF StoreContext
<1>6. CASE OpenSocket
  BY <1>6 DEF OpenSocket
<1>7. CASE OpenSocketFails \/ ClearError
  BY <1>7 DEF OpenSocketFails, ClearError
<1>8. CASE InitClient \/ CheckConnectError
  BY <1>8 DEF InitClient, CheckConnectError, FailConnect
<1>9. CASE SendConnect
  BY <1>9 DEF SendConnect, FailConnect
<1>10. CASE DaemonExists \/ CreateDaemon \/ CreateDaemonFails \/ SetConnected
  BY <1>10 DEF DaemonExists, CreateDaemon, CreateDaemonFails, SetConnected, FailConnect
<1>11. CASE RequestCall \/ SendDisconnect
  BY <1>11 DEF RequestCall, PublishCall, SubscribeCall, UnsubscribeCall, Queue, SendDisconnect
<1>12. CASE StopDaemon \/ JoinDaemon
  BY <1>12 DEF StopDaemon, JoinDaemon
<1> QED
  BY <1>2, <1>3, <1>4, <1>5, <1>6, <1>7, <1>8, <1>9, <1>10, <1>11, <1>12 DEF AppStep

\* A message is being delivered only in a session, whose registration stays.
LEMMA DeliveryApp ==
  ASSUME TypeInv, SocketInv, ThreadInv, ThreadInSession, Delivery, AppStep
  PROVE  Delivery'
<1>1. OneDaemon
  BY DEF ThreadInv
<1>2. CASE UNCHANGED <<message_handler, regOf>>
  <2> DEFINE Labels == Reading \cup {"callback_check"}
  <2>1. \A d \in Daemons :
          /\ dpc[d] \in Labels => dpc'[d] = dpc[d]
          /\ dpc'[d] \in Labels => dpc'[d] = dpc[d]
    BY <1>1, AppThreads DEF Working, DaemonLabels, Reading
  <2>2. callback' = callback /\ HandlerRead \subseteq Labels /\ ContextRead \subseteq Labels
        /\ Reading \subseteq Labels
    BY <1>1, AppThreads DEF HandlerRead, ContextRead, Reading
  <2> HIDE DEF Labels
  <2> QED
    BY <1>2, <2>1, <2>2 DEF Delivery, Labels
<1>3. CASE StoreHandler \/ OpenSocket
  <2>1. ~daemon_created
    BY <1>3 DEF StoreHandler, OpenSocket, AppAt, ThreadInSession, Serving
  <2>2. \A d \in Daemons : dpc[d] = "none"
    BY <1>1, <2>1, NoThread
  <2>3. \A d \in Daemons : dpc'[d] \in {"none", "loop"} /\ callback' = callback
    BY <1>1, <2>2, AppThreads
  <2> QED
    BY <1>1, <2>2, <2>3, AppThreads DEF Delivery, Reading, HandlerRead, ContextRead
<1>4. CASE AppStep /\ ~StoreHandler /\ ~OpenSocket
  <2>1. UNCHANGED <<message_handler, regOf>>
    BY <1>4, Zenon DEF AppStep, CleanupClose, CleanupFlags, StoreContext, OpenSocketFails,
       InitClient, SendConnect, CheckConnectError, DaemonExists, CreateDaemon, CreateDaemonFails,
       SetConnected, RequestCall, PublishCall, SubscribeCall, UnsubscribeCall, Queue,
       SendDisconnect, StopDaemon, JoinDaemon, ClearError, handlerVars
  <2> QED
    BY <1>2, <2>1
<1> QED
  BY <1>3, <1>4

-----------------------------------------------------------------------------
(* What the connection carries.                                            *)

LEMMA AppendOfConcat ==
  ASSUME NEW s \in Seq(Packets), NEW t \in Seq(Packets), NEW x \in Packets
  PROVE  Append(s \o t, x) = s \o Append(t, x)
OBVIOUS

\* A packet accepted in a session is accepted after CONNECT.
LEMMA PackCarried ==
  ASSUME TypeInv, Carried, NEW p \in Packets, p.type # "CONNECT", Pack(p, client_error),
         apc \in {"request", "disconnect"}, apc' \in {"idle", "stop_daemon"},
         UNCHANGED <<wire, client_socketfd, fdtab, up, opened>>
  PROVE  Carried'
<1>1. submitted \in Seq(Packets) /\ wire \in Seq(Packets) /\ client_mq \in Seq(Packets)
  BY DEF TypeInv, TypeOK, LibraryTypeOK
<1>2. ClientConn' = ClientConn /\ apc # "mqtt_init"
  BY DEF ClientConn
<1>3. CASE client_error = "OK" /\ client_mq' = Append(client_mq, p) /\ submitted' = Append(submitted, p)
  <2>1. submitted # <<>>
    BY <1>3, <1>2 DEF Carried
  <2>2. /\ Len(submitted') = Len(submitted) + 1 /\ Len(submitted) > 0
        /\ DOMAIN submitted' = 1..(Len(submitted) + 1) /\ DOMAIN submitted = 1..Len(submitted)
        /\ \A i \in DOMAIN submitted : submitted'[i] = submitted[i]
        /\ submitted'[Len(submitted) + 1] = p
    BY <1>1, <1>3, <2>1
  <2>3. /\ Len(wire') <= Len(submitted')
        /\ \A i \in DOMAIN wire' : wire'[i] = submitted'[i]
    <3>1. Len(wire) \in Nat /\ Len(submitted) \in Nat /\ DOMAIN wire = 1..Len(wire)
      BY <1>1
    <3>2. Len(wire) <= Len(submitted) /\ \A i \in DOMAIN wire : wire[i] = submitted[i]
      BY DEF Carried
    <3> QED
      BY <2>2, <3>1, <3>2
  <2>4. \A i \in DOMAIN submitted' : submitted'[i].type = "CONNECT" <=> i = 1
    <3>1. \A i \in DOMAIN submitted : submitted[i].type = "CONNECT" <=> i = 1
      BY DEF Carried
    <3>2. Len(submitted) \in Nat
      BY <1>1
    <3> QED
      BY <2>2, <3>1, <3>2
  <2>5. submitted = wire \o client_mq => submitted' = wire' \o client_mq'
    <3>1. Append(wire \o client_mq, p) = wire \o Append(client_mq, p)
      BY <1>1, AppendOfConcat, Zenon
    <3> QED
      BY <1>3, <3>1
  <2>6. submitted' # <<>>
    <3>1. Len(submitted) \in Nat
      BY <1>1
    <3> QED
      BY <2>2, <3>1
  <2> QED
    BY <1>2, <2>3, <2>4, <2>5, <2>6 DEF Carried
<1>4. CASE UNCHANGED <<client_mq, submitted>> /\ client_error' # "OK"
  BY <1>2, <1>4 DEF Carried
<1> QED
  BY <1>3, <1>4 DEF Pack

LEMMA CarriedApp ==
  ASSUME TypeInv, SocketInv, ThreadInv, ThreadInSession, Carried, AppStep
  PROVE  Carried'
<1>1. /\ submitted \in Seq(Packets) /\ wire \in Seq(Packets) /\ client_mq \in Seq(Packets)
      /\ up \subseteq 1..MaxOpens /\ fdtab \in [FDs -> 0..MaxOpens] /\ NoFd \notin FDs
      /\ after \in AfterLabels /\ request \in Requests \cup {NULL}
      /\ apc = "request" => request \in Requests
  BY LibraryAssumption DEF LibraryAssumption, NoFd, TypeInv, TypeOK, LibraryTypeOK
<1>2. CASE CleanupClose
  <2>1. CASE UNCHANGED netVars
    BY <1>2, <2>1 DEF CleanupClose, AppAt, Carried, netVars, clientVars, ClientConn
  <2>2. CASE sockfd # NoFd /\ KernelClose(sockfd)
    <3>1. sockfd \in FDs
      BY <2>2 DEF TypeInv, TypeOK
    <3>2. UNCHANGED <<opened, wire, submitted, client_mq, client_error, client_socketfd>>
      BY <1>2, <2>2 DEF CleanupClose, KernelClose, clientVars
    <3>3. up' \subseteq up /\ \A fd \in FDs : fdtab'[fd] = IF fd = sockfd THEN 0 ELSE fdtab[fd]
      BY <1>1, <2>2, <3>1 DEF KernelClose
    <3>4. ClientConn' \in up' => ClientConn' = ClientConn
      BY <1>1, <3>1, <3>2, <3>3 DEF ClientConn
    <3> QED
      BY <1>2, <3>2, <3>3, <3>4 DEF CleanupClose, AppAt, Carried
  <2> QED
    BY <1>2, <2>1, <2>2 DEF CleanupClose
<1>3. CASE OpenSocket
  <2>1. wire' = <<>> /\ submitted' = <<>> /\ apc' = "mqtt_init"
    BY <1>3 DEF OpenSocket, AppAt, KernelOpen
  <2> QED
    BY <2>1 DEF Carried
<1>4. CASE InitClient
  <2>1. /\ wire' = <<>> /\ submitted' = <<>> /\ client_mq' = <<>>
        /\ apc' = "mqtt_connect" /\ client_error' = "CONNECT_NOT_CALLED"
    BY <1>4 DEF InitClient, AppAt, mqtt_init, Carried, netVars
  <2> QED
    BY <2>1 DEF Carried
<1>5. CASE SendConnect
  <2>1. /\ wire = <<>> /\ submitted = <<>> /\ client_mq = <<>> /\ client_error = "CONNECT_NOT_CALLED"
        /\ apc = "mqtt_connect" /\ apc' \in {"check_error", "cleanup_close"} /\ wire' = wire
        /\ apc' = "check_error" => client_error' = "OK"
    BY <1>5 DEF SendConnect, mqtt_connect, FailConnect, Carried
  <2>2. \/ client_error' # "OK" /\ UNCHANGED <<client_mq, submitted>>
        \/ client_mq' = Append(client_mq, Control("CONNECT")) /\ submitted' = Append(submitted, Control("CONNECT"))
    BY <1>5, <2>1 DEF SendConnect, mqtt_connect, Pack
  <2>3. CASE client_error' # "OK" /\ UNCHANGED <<client_mq, submitted>>
    BY <2>1, <2>3 DEF Carried
  <2>4. CASE client_mq' = Append(client_mq, Control("CONNECT")) /\ submitted' = Append(submitted, Control("CONNECT"))
    <3>1. client_mq' = <<Control("CONNECT")>> /\ submitted' = <<Control("CONNECT")>> /\ wire' = <<>>
      BY <2>1, <2>4
    <3>2. Control("CONNECT").type = "CONNECT"
      BY DEF Control
    <3>3. wire' \o client_mq' = submitted' /\ submitted' # <<>>
      BY <3>1
    <3>4. \A i \in DOMAIN submitted' : submitted'[i].type = "CONNECT" <=> i = 1
      BY <3>1, <3>2
    <3> QED
      BY <2>1, <3>1, <3>3, <3>4 DEF Carried
  <2> QED
    BY <2>2, <2>3, <2>4
<1>6. CASE RequestCall \/ SendDisconnect
  <2>1. /\ apc \in {"request", "disconnect"} /\ apc' \in {"idle", "stop_daemon"}
        /\ UNCHANGED <<wire, client_socketfd, fdtab, up, opened>>
    BY <1>6 DEF RequestCall, PublishCall, SubscribeCall, UnsubscribeCall, Queue, SendDisconnect,
       mqtt_queue, AppAt
  <2>2. \E p \in Packets : p.type # "CONNECT" /\ Pack(p, client_error)
    <3>1. CASE PublishCall
      BY <1>1, <3>1, RequestPackets DEF PublishCall, InCall, Queue, mqtt_queue, PublishPacket
    <3>2. CASE SubscribeCall
      BY <1>1, <3>2, RequestPackets DEF SubscribeCall, InCall, Queue, mqtt_queue, SubscribePacket
    <3>3. CASE UnsubscribeCall
      BY <3>3, ControlType DEF UnsubscribeCall, Queue, mqtt_queue, Control
    <3>4. CASE SendDisconnect
      BY <3>4, ControlType DEF SendDisconnect, mqtt_queue, Control
    <3> QED
      BY <1>6, <3>1, <3>2, <3>3, <3>4 DEF RequestCall
  <2> QED
    BY <2>1, <2>2, PackCarried
<1>7. CASE AppStep /\ ~CleanupClose /\ ~OpenSocket /\ ~InitClient /\ ~SendConnect /\ ~RequestCall
           /\ ~SendDisconnect
  <2>1. UNCHANGED <<clientVars, netVars>>
    BY <1>7, Zenon DEF AppStep, CleanupFlags, StoreHandler, StoreContext,
       OpenSocketFails, CheckConnectError, DaemonExists, CreateDaemon, CreateDaemonFails,
       SetConnected, StopDaemon, JoinDaemon, ClearError
  <2>2. /\ apc # "mqtt_init" /\ apc' \notin {"mqtt_init", "mqtt_connect", "check_error"}
        /\ apc' \in {"start_daemon", "set_connected"} => apc \in {"check_error", "start_daemon"}
    BY <1>1, <1>7 DEF AppStep, CleanupFlags, StoreHandler, StoreContext,
       OpenSocketFails, CheckConnectError, DaemonExists, CreateDaemon, CreateDaemonFails,
       SetConnected, StopDaemon, JoinDaemon, ClearError, AppAt, FailConnect, AfterLabels
  <2> QED
    BY <2>1, <2>2 DEF Carried, clientVars, netVars, ClientConn
<1> QED
  BY <1>2, <1>3, <1>4, <1>5, <1>6, <1>7

-----------------------------------------------------------------------------
(* The background thread's steps.                                          *)

LEMMA DaemonKeepsApp ==
  ASSUME NEW d \in Daemons, DaemonStep(d)
  PROVE  UNCHANGED <<appVars, fdtab, opened, up, connack, submitted, client_socketfd>>
<1> USE DEF clientVars, netVars
<1>1. CASE DaemonLoop(d) \/ DaemonCheckConnected(d) \/ CallbackHasHandler(d) \/ CallbackCall(d)
  BY <1>1, Zenon DEF DaemonLoop, DaemonCheckConnected, CallbackHasHandler, CallbackCall,
     CallbackReadsHandler, CallbackReadsContext
<1>2. CASE DaemonReceivesNothing(d) \/ DaemonReceivesPublish(d) \/ DaemonReceiveFails(d)
  BY <1>2, Zenon DEF DaemonReceivesNothing, DaemonReceivesPublish, DaemonReceiveFails,
     SyncReceiveNothing, SyncReceivePublish, SyncReceiveFails
<1>3. CASE CallbackDrops(d) \/ CallbackDone(d)
  BY <1>3, Zenon DEF CallbackDrops, CallbackDone, CallbackReturns
<1>4. CASE DaemonSends(d) \/ DaemonSendFails(d)
  BY <1>4, Zenon DEF DaemonSends, DaemonSendFails, SyncSends, SyncSendFails
<1>5. CASE DaemonSyncFailed(d) \/ DaemonCheckError(d) \/ DaemonMarksLost(d)
  BY <1>5, Zenon DEF DaemonSyncFailed, DaemonCheckError, DaemonMarksLost
<1> QED
  BY <1>1, <1>2, <1>3, <1>4, <1>5 DEF DaemonStep

\* What one step of a thread does to the client's error, and where it goes.
LEMMA DaemonErrors ==
  ASSUME TypeInv, NEW d \in Daemons, DaemonStep(d)
  PROVE  /\ client_error' = "OK" => client_error = "OK"
         /\ dpc'[d] \in {"sync_failed", "mark_lost"} => client_error' # "OK"
         /\ dpc'[d] \in Working => dpc[d] \in Working \cup {"check_connected"}
<1>1. dpc \in [Daemons -> DaemonLabels]
  BY DEF TypeInv, TypeOK
<1> USE <1>1 DEF DaemonAt, Working, DaemonLabels, clientVars, netVars
<1>2. CASE DaemonLoop(d)
  <2>1. dpc'[d] \in {"check_connected", "exited"}
    BY <1>2 DEF DaemonLoop
  <2> QED
    BY <1>2, <2>1 DEF DaemonLoop
<1>3. CASE DaemonCheckConnected(d)
  BY <1>3 DEF DaemonCheckConnected
<1>4. CASE DaemonCheckError(d)
  BY <1>4 DEF DaemonCheckError
<1>5. CASE DaemonReceivesNothing(d) \/ DaemonReceivesPublish(d) \/ DaemonReceiveFails(d)
  BY <1>5 DEF DaemonReceivesNothing, DaemonReceivesPublish, DaemonReceiveFails,
     SyncReceiveNothing, SyncReceivePublish, SyncReceiveFails
<1>6. CASE CallbackDrops(d) \/ CallbackDone(d)
  BY <1>6 DEF CallbackDrops, CallbackDone, CallbackReturns
<1>7. CASE CallbackHasHandler(d) \/ CallbackCall(d)
  BY <1>7 DEF CallbackHasHandler, CallbackCall, CallbackReadsHandler, CallbackReadsContext
<1>8. CASE DaemonSends(d) \/ DaemonSendFails(d)
  BY <1>8 DEF DaemonSends, DaemonSendFails, SyncSends, SyncSendFails
<1>9. CASE DaemonSyncFailed(d) \/ DaemonMarksLost(d)
  BY <1>9 DEF DaemonSyncFailed, DaemonMarksLost
<1> QED
  BY <1>2, <1>3, <1>4, <1>5, <1>6, <1>7, <1>8, <1>9 DEF DaemonStep

\* It goes to work only when it finds the client connected.
LEMMA DaemonGoesToWork ==
  ASSUME TypeInv, NEW d \in Daemons, DaemonStep(d), dpc'[d] \in Working, dpc[d] \notin Working
  PROVE  is_connected
<1>1. dpc[d] = "check_connected" /\ dpc \in [Daemons -> DaemonLabels]
  BY DaemonErrors DEF TypeInv, TypeOK
<1>2. DaemonCheckConnected(d)
  BY <1>1 DEF DaemonStep, DaemonAt, DaemonLoop, DaemonReceivesNothing,
     DaemonReceivesPublish, DaemonReceiveFails, CallbackDrops, CallbackHasHandler, CallbackCall,
     CallbackReadsHandler, CallbackReadsContext,
     CallbackDone, CallbackReturns, DaemonSends, DaemonSendFails, DaemonCheckError, DaemonSyncFailed,
     DaemonMarksLost
<1>3. SUFFICES ASSUME ~is_connected PROVE FALSE
  OBVIOUS
<1>4. dpc'[d] = "loop"
  BY <1>1, <1>2, <1>3 DEF DaemonCheckConnected, DaemonAt
<1> QED
  BY <1>4 DEF Working

\* A thread takes is_connected away after an error only, and never gives it.
LEMMA DaemonConnected ==
  ASSUME NEW d \in Daemons, DaemonStep(d)
  PROVE  \/ is_connected' = is_connected
         \/ dpc[d] \in {"sync_failed", "mark_lost"} /\ is_connected' = FALSE
<1>1. CASE DaemonSyncFailed(d) \/ DaemonMarksLost(d)
  BY <1>1 DEF DaemonSyncFailed, DaemonMarksLost, DaemonAt
<1>2. CASE ~DaemonSyncFailed(d) /\ ~DaemonMarksLost(d)
  BY <1>2, Zenon DEF DaemonStep, DaemonLoop, DaemonCheckConnected, DaemonReceivesNothing,
     DaemonReceivesPublish, DaemonReceiveFails, CallbackDrops, CallbackHasHandler, CallbackCall,
     CallbackReadsHandler, CallbackReadsContext,
     CallbackDone, CallbackReturns, DaemonSends, DaemonSendFails, DaemonCheckError
<1> QED
  BY <1>1, <1>2

LEMMA ThreadInSessionDaemon ==
  ASSUME TypeInv, ThreadInSession, NEW d \in Daemons, DaemonStep(d)
  PROVE  ThreadInSession'
<1>1. UNCHANGED <<is_initialized, apc, daemonVars>>
  BY DaemonFrame
<1>2. is_connected' => is_connected
  BY DaemonConnected
<1>3. \A e \in Daemons : dpc'[e] \in Working => dpc[e] \in Working \/ is_connected
  BY DaemonGoesToWork, DaemonThread
<1> QED
  BY <1>1, <1>2, <1>3 DEF ThreadInSession, daemonVars

LEMMA LossHasCauseDaemon ==
  ASSUME TypeInv, LossHasCause, NEW d \in Daemons, DaemonStep(d)
  PROVE  LossHasCause'
<1>1. UNCHANGED is_initialized
  BY DaemonFrame
<1>2. \A e \in Daemons : dpc'[e] \in {"sync_failed", "mark_lost"} => client_error' # "OK"
  BY DaemonErrors, DaemonThread DEF LossHasCause
<1>3. client_error' = "OK" => client_error = "OK" /\ is_connected' = is_connected
  BY DaemonErrors, DaemonConnected DEF LossHasCause
<1> QED
  BY <1>1, <1>2, <1>3 DEF LossHasCause

\* Only one thread delivers, one message at a time.
LEMMA DeliveryDaemon ==
  ASSUME TypeInv, OneDaemon, ThreadInSession, OneRegistration, Delivery,
         NEW d \in Daemons, DaemonStep(d)
  PROVE  Delivery'
<1>1. dpc \in [Daemons -> DaemonLabels]
      /\ callback \in [from : MaybeRegistration, handler : MaybeRegistration, context : MaybeRegistration]
  BY DEF TypeInv, TypeOK
<1>2. /\ \A e \in Daemons \ {d} : dpc[e] = "none" /\ dpc'[e] = "none"
      /\ UNCHANGED <<message_handler, user_context, regOf>>
  BY DaemonThread, OneThread, DaemonKeepsApp DEF appVars, handlerVars
<1>3. dpc[d] \in Working => message_handler = regOf /\ user_context = regOf
  BY DEF ThreadInSession, OneRegistration
<1>4. callback.handler # NULL => dpc[d] \in HandlerRead
  BY <1>2 DEF Delivery, HandlerRead
<1> USE <1>1, <1>2, <1>3 DEF DaemonAt, NoCallback, Reading, HandlerRead, ContextRead
<1>5. CASE DaemonReceivesPublish(d)
  <2>1. dpc'[d] = "callback_check" /\ callback' = [NoCallback EXCEPT !.from = regOf]
    BY <1>5 DEF DaemonReceivesPublish
  <2>2. callback'.from = regOf /\ callback'.handler = NULL
    BY <2>1
  <2> QED
    BY <2>1, <2>2 DEF Delivery
<1>6. CASE CallbackDrops(d) \/ CallbackDone(d)
  <2>1. dpc'[d] = "send" /\ callback'.handler = NULL
    BY <1>6 DEF CallbackDrops, CallbackDone, CallbackReturns
  <2> QED
    BY <2>1 DEF Delivery
<1>7. CASE CallbackHasHandler(d)
  <2>1. dpc[d] = "callback_check" /\ dpc'[d] = "callback_call" /\ message_handler # NULL /\ callback' = callback
    BY <1>7 DEF CallbackHasHandler
  <2>2. message_handler = regOf
    BY <2>1 DEF Working, DaemonLabels
  <2> QED
    BY <2>1, <2>2, <1>4 DEF Delivery
<1>8. CASE CallbackCall(d)
  <2>1. /\ dpc[d] \in Reading /\ dpc'[d] \in Reading
        /\ message_handler = regOf /\ user_context = regOf /\ regOf # NULL /\ callback.from = regOf
    BY <1>8 DEF CallbackCall, CallbackReadsHandler, CallbackReadsContext, Working, DaemonLabels,
       Delivery
  <2>2. CASE CallbackReadsHandler(d)
    <3>1. /\ dpc[d] \in {"callback_call", "callback_handler"} /\ dpc'[d] \in HandlerRead
          /\ dpc'[d] \in ContextRead => dpc[d] \in ContextRead
      BY <2>2 DEF CallbackReadsHandler
    <3>2. callback'.handler = regOf /\ callback'.context = callback.context /\ callback'.from = regOf
      BY <2>1, <2>2 DEF CallbackReadsHandler
    <3> QED
      BY <2>1, <3>1, <3>2 DEF Delivery
  <2>3. CASE CallbackReadsContext(d)
    <3>1. /\ dpc[d] \in {"callback_call", "callback_context"} /\ dpc'[d] \in ContextRead
          /\ dpc'[d] \in HandlerRead <=> dpc[d] \in HandlerRead
      BY <2>3 DEF CallbackReadsContext
    <3>2. callback'.context = regOf /\ callback'.handler = callback.handler /\ callback'.from = regOf
      BY <2>1, <2>3 DEF CallbackReadsContext
    <3> QED
      BY <1>4, <2>1, <3>1, <3>2 DEF Delivery
  <2> QED
    BY <1>8, <2>2, <2>3 DEF CallbackCall
<1>9. CASE /\ callback' = callback
           /\ dpc[d] \notin Reading \cup {"callback_check"}
           /\ dpc'[d] \notin Reading \cup {"callback_check"}
  BY <1>9, <1>4 DEF Delivery
<1>10. CASE DaemonLoop(d)
  <2>1. CASE daemon_running
    BY <1>9, <1>10, <2>1 DEF DaemonLoop
  <2>2. CASE ~daemon_running
    BY <1>9, <1>10, <2>2 DEF DaemonLoop
  <2> QED
    BY <2>1, <2>2
<1>11. CASE DaemonCheckConnected(d) \/ DaemonCheckError(d) \/ DaemonSyncFailed(d) \/ DaemonMarksLost(d)
  BY <1>9, <1>11 DEF DaemonCheckConnected, DaemonCheckError, DaemonSyncFailed, DaemonMarksLost
<1>12. CASE DaemonReceivesNothing(d) \/ DaemonReceiveFails(d) \/ DaemonSends(d) \/ DaemonSendFails(d)
  BY <1>9, <1>12 DEF DaemonReceivesNothing, DaemonReceiveFails, DaemonSends, DaemonSendFails
<1> QED
  BY <1>5, <1>6, <1>7, <1>8, <1>10, <1>11, <1>12 DEF DaemonStep

LEMMA CarriedDaemon ==
  ASSUME TypeInv, ThreadInSession, Carried, NEW d \in Daemons, DaemonStep(d)
  PROVE  Carried'
<1>1. UNCHANGED <<apc, is_initialized, fdtab, opened, up, submitted, client_socketfd>>
  BY DaemonKeepsApp DEF appVars
<1>2. ClientConn' = ClientConn
  BY <1>1 DEF ClientConn
<1>3. CASE DaemonSends(d)
  <2>1. /\ client_mq' = <<>> /\ client_error' = client_error /\ dpc[d] = "send"
        /\ wire' = IF ClientConn \in up /\ ClientConn = opened THEN wire \o client_mq ELSE wire
    BY <1>3 DEF DaemonSends, DaemonAt, SyncSends
  <2>2. apc \notin Down
    BY <2>1 DEF ThreadInSession, Working, DaemonLabels
  <2>3. submitted \in Seq(Packets) /\ wire \in Seq(Packets) /\ client_mq \in Seq(Packets)
    BY DEF TypeInv, TypeOK, LibraryTypeOK
  <2>4. CASE ClientConn \in up /\ ClientConn = opened
    <3>1. wire' = submitted
      BY <2>1, <2>2, <2>4 DEF Carried, Down
    <3>2. submitted = wire' \o client_mq' /\ Len(wire') <= Len(submitted)
      BY <2>1, <2>3, <3>1
    <3> QED
      BY <1>1, <1>2, <2>1, <2>2, <3>1, <3>2 DEF Carried, Down, Connecting
  <2>5. CASE ~(ClientConn \in up /\ ClientConn = opened)
    BY <1>1, <1>2, <2>1, <2>2, <2>5 DEF Carried, Down, Connecting
  <2> QED
    BY <2>4, <2>5
<1>4. CASE ~DaemonSends(d)
  <2>1. UNCHANGED <<wire, client_mq>>
    BY <1>4, Zenon DEF DaemonStep, DaemonLoop, DaemonCheckConnected, DaemonReceivesNothing,
       DaemonReceivesPublish, DaemonReceiveFails, CallbackDrops, CallbackHasHandler, CallbackCall,
     CallbackReadsHandler, CallbackReadsContext,
       CallbackDone, CallbackReturns, DaemonSendFails, DaemonSyncFailed, DaemonCheckError,
       DaemonMarksLost, SyncReceiveNothing, SyncReceivePublish, SyncReceiveFails, SyncSendFails,
       clientVars, netVars
  <2>2. client_error' = client_error \/ (apc \notin Down /\ client_error' # "OK")
    <3>1. CASE DaemonReceiveFails(d) \/ DaemonSendFails(d)
      <4>1. dpc[d] \in {"receive", "send"}
        BY <3>1 DEF DaemonReceiveFails, DaemonSendFails, DaemonAt
      <4>2. client_error' # "OK"
        BY <3>1 DEF DaemonReceiveFails, DaemonSendFails, SyncReceiveFails, SyncSendFails
      <4> QED
        BY <4>1, <4>2 DEF ThreadInSession, Working, DaemonLabels
    <3>2. CASE ~DaemonReceiveFails(d) /\ ~DaemonSendFails(d)
      <4>1. client_error' = client_error
        BY <1>4, <3>2, Zenon DEF DaemonStep, DaemonLoop, DaemonCheckConnected, DaemonReceivesNothing,
         DaemonReceivesPublish, CallbackDrops, CallbackHasHandler, CallbackCall,
     CallbackReadsHandler, CallbackReadsContext,
         CallbackDone, CallbackReturns, DaemonSyncFailed, DaemonCheckError,
         DaemonMarksLost, SyncReceiveNothing, SyncReceivePublish, clientVars, netVars
      <4> QED
        BY <4>1
    <3> QED
      BY <3>1, <3>2
  <2> QED
    BY <1>1, <1>2, <2>1, <2>2 DEF Carried, Down, Connecting
<1> QED
  BY <1>3, <1>4

-----------------------------------------------------------------------------
(* The calls themselves, and the network.                                  *)

LEMMA SessionCall ==
  ASSUME TypeInv, SocketInv, ThreadInv, SessionInv, ReconnectAllowed = FALSE, AppCall
  PROVE  SessionInv'
<1>1. UNCHANGED <<clientVars, netVars, flags, daemonVars, handlerVars, threadVars, regOf>> /\ apc = "idle"
  BY CallFrame
<1>2. \/ apc' = "idle"
      \/ apc' = "store_handler" /\ ~is_initialized
      \/ apc' \in Serving /\ is_initialized
  BY CallPlace
<1>3. ThreadInSession'
  BY <1>1, <1>2 DEF SessionInv, ThreadInSession, Down, Connecting, Serving, flags, daemonVars, threadVars
<1>4. LossHasCause'
  BY <1>1 DEF SessionInv, LossHasCause, flags, clientVars, threadVars
<1>5. OneRegistration'
  BY <1>1, <1>2 DEF SessionInv, OneRegistration, Connecting, Serving, flags, handlerVars
<1>6. Delivery'
  BY <1>1 DEF SessionInv, Delivery, handlerVars, threadVars
<1>7. Carried'
  BY <1>1, <1>2 DEF SessionInv, Carried, Serving, clientVars, netVars, ClientConn
<1> QED
  BY <1>3, <1>4, <1>5, <1>6, <1>7 DEF SessionInv

LEMMA SessionNetwork ==
  ASSUME SessionInv, Network \/ UNCHANGED vars
  PROVE  SessionInv'
<1>1. UNCHANGED <<clientVars, fdtab, opened, wire, submitted, ownVars>>
  BY Zenon DEF Network, BrokerAccepts, PeerDrops, vars, ownVars, clientVars, netVars
<1>2. up' \subseteq up
  BY DEF Network, BrokerAccepts, PeerDrops, vars, netVars
<1>3. ThreadInSession' /\ LossHasCause' /\ OneRegistration'
  BY <1>1 DEF SessionInv, ThreadInSession, LossHasCause, OneRegistration, ownVars, flags, daemonVars,
     handlerVars, callVars, threadVars, clientVars
<1>4. Delivery'
  BY <1>1 DEF SessionInv, Delivery, ownVars, handlerVars, threadVars
<1>5. Carried'
  BY <1>1, <1>2 DEF SessionInv, Carried, ownVars, clientVars, ClientConn
<1> QED
  BY <1>3, <1>4, <1>5 DEF SessionInv

LEMMA SessionStep ==
  ASSUME TypeInv, SocketInv, ThreadInv, SessionInv, ReconnectAllowed = FALSE, [Next]_vars
  PROVE  SessionInv'
<1>1. CASE AppStep
  BY <1>1, ThreadInSessionApp, LossHasCauseApp, OneRegistrationApp, DeliveryApp, CarriedApp
  DEF SessionInv
<1>2. CASE AppCall
  BY <1>2, SessionCall
<1>3. ASSUME NEW d \in Daemons, DaemonStep(d) PROVE SessionInv'
  <2>1. OneDaemon
    BY DEF ThreadInv
  <2>2. OneRegistration'
    <3>1. UNCHANGED <<appVars>>
      BY <1>3, DaemonKeepsApp
    <3> QED
      BY <3>1 DEF SessionInv, OneRegistration, appVars, handlerVars, callVars
  <2> QED
    BY <1>3, <2>1, <2>2, ThreadInSessionDaemon, LossHasCauseDaemon, DeliveryDaemon, CarriedDaemon
    DEF SessionInv
<1>4. CASE Network \/ UNCHANGED vars
  BY <1>4, SessionNetwork
<1> QED
  BY <1>1, <1>2, <1>3, <1>4 DEF Next

THEOREM SessionsKept ==
  ASSUME ReconnectAllowed = FALSE
  PROVE  Spec => [](TypeInv /\ SocketInv /\ ThreadInv /\ SessionInv)
<1>1. TypeInv /\ SocketInv /\ ThreadInv /\ SessionInv /\ [Next]_vars => SessionInv'
  BY SessionStep
<1> QED
  BY <1>1, SessionInit, ResourceInv, PTL DEF Spec

-----------------------------------------------------------------------------
(* What the runs check.                                                    *)

\* After dx_mqttDisconnect, or a dx_mqttConnect that failed, no thread and no
\* descriptor is left.
THEOREM QuietAfterwards ==
  ASSUME ReconnectAllowed = FALSE
  PROVE  Spec => []QuietWhenDown
<1>1. TypeInv /\ SocketInv /\ ThreadInv /\ SessionInv => QuietWhenDown
  <2> SUFFICES ASSUME SocketInv, ThreadInv, SessionInv, apc = "idle", ~is_initialized
               PROVE  Threads = {} /\ OpenFds = {}
    BY DEF QuietWhenDown
  <2>1. ~daemon_created /\ sockfd = NoFd
    BY DEF SessionInv, ThreadInSession, SocketInv, SocketPc, Serving
  <2> QED
    BY <2>1 DEF ThreadInv, OneDaemon, SocketInv, SocketOwned
<1> QED
  BY <1>1, SessionsKept, PTL

\* A session without an error counts as connected.
THEOREM HealthyIsConnected ==
  ASSUME ReconnectAllowed = FALSE
  PROVE  Spec => []HealthyMeansConnected
<1>1. SessionInv => HealthyMeansConnected
  BY DEF SessionInv, LossHasCause, HealthyMeansConnected
<1> QED
  BY <1>1, SessionsKept, PTL

\* A message goes to the handler, and the context, its session was opened with.
THEOREM DeliversToItsOwner ==
  ASSUME ReconnectAllowed = FALSE
  PROVE  Spec => []CallbackMatches
<1>1. SessionInv => CallbackMatches
  BY DEF SessionInv, Delivery, CallbackMatches, Reading, HandlerRead, ContextRead
<1> QED
  BY <1>1, SessionsKept, PTL

\* The connection carries what was accepted, in order and once, after CONNECT.
THEOREM CarriesWhatWasAsked ==
  ASSUME ReconnectAllowed = FALSE
  PROVE  Spec => []WireFaithful
<1>1. TypeInv /\ SessionInv => WireFaithful
  <2> SUFFICES ASSUME TypeInv, Carried PROVE WireFaithful
    BY DEF SessionInv
  <2>1. /\ DOMAIN wire = 1..Len(wire) /\ DOMAIN submitted = 1..Len(submitted)
        /\ Len(wire) \in Nat /\ Len(submitted) \in Nat
    BY DEF TypeInv, TypeOK, LibraryTypeOK
  <2>2. /\ Len(wire) <= Len(submitted)
        /\ \A i \in DOMAIN wire : wire[i] = submitted[i]
        /\ \A i \in DOMAIN submitted : submitted[i].type = "CONNECT" <=> i = 1
    BY DEF Carried
  <2>3. \A i \in DOMAIN wire : i \in DOMAIN submitted
    BY <2>1, <2>2
  <2>4. \A i \in DOMAIN wire : wire[i].type = "CONNECT" <=> i = 1
    BY <2>2, <2>3
  <2> QED
    BY <2>2, <2>4 DEF WireFaithful
<1> QED
  BY <1>1, SessionsKept, PTL

-----------------------------------------------------------------------------
(***************************************************************************)
(* dx_mqtt.c implements MqttSession: every step is a step of the session   *)
(* an application sees, or changes nothing of it.                          *)
(***************************************************************************)
Unseen ==
  UNCHANGED <<is_initialized, is_connected, client_error, regOf, submitted, wire, callback>>

LEMMA UnseenStutters ==
  ASSUME Unseen
  PROVE  UNCHANGED Session!session
BY DEF Unseen, Session!session, dx_isMqttConnected

THEOREM StartsDown == Init => Session!Init
BY DEF Init, LibraryInit, NoCallback, Session!Init

\* While there is no session, nothing of one is seen.
LEMMA DownStutters ==
  ASSUME ~is_initialized, ~is_initialized', callback'.handler = callback.handler
  PROVE  UNCHANGED Session!session
BY DEF Session!session

\* A step that ends with an error loses the session, if it is not lost yet.
LEMMA ErrorLoses ==
  ASSUME is_initialized, is_initialized', client_error' # "OK", callback'.handler = callback.handler,
         UNCHANGED <<regOf, submitted, wire>>
  PROVE  Session!Lose \/ UNCHANGED Session!session
<1>1. CASE dx_isMqttConnected
  BY <1>1 DEF Session!Lose, dx_isMqttConnected
<1>2. CASE ~dx_isMqttConnected
  BY <1>2 DEF Session!session, dx_isMqttConnected
<1> QED
  BY <1>1, <1>2

\* What a call asks for is accepted, or loses the session.
LEMMA PackAccepts ==
  ASSUME SessionInv, is_initialized, is_initialized', NEW p \in Packets, Pack(p, client_error),
         client_error' = "OK" => is_connected',
         UNCHANGED <<regOf, wire, callback>>
  PROVE  Session!Accept \/ Session!Lose \/ UNCHANGED Session!session
<1>1. CASE client_error' = "OK"
  <2>1. client_error = "OK" /\ submitted' = Append(submitted, p)
    BY <1>1 DEF Pack
  <2>2. dx_isMqttConnected /\ dx_isMqttConnected'
    BY <1>1, <2>1 DEF SessionInv, LossHasCause, dx_isMqttConnected
  <2> QED
    BY <2>1, <2>2 DEF Session!Accept
<1>2. CASE client_error' # "OK"
  <2>1. submitted' = submitted
    BY <1>2 DEF Pack
  <2> QED
    BY <1>2, <2>1, ErrorLoses
<1> QED
  BY <1>1, <1>2

LEMMA AppImplements ==
  ASSUME TypeInv, SocketInv, ThreadInv, SessionInv, AppStep
  PROVE  [Session!Next]_(Session!session)
<1>1. OneDaemon
  BY DEF ThreadInv
<1>2. callback' = callback
  BY <1>1, AppThreads
<1>3. CASE OpenSocket \/ InitClient \/ SendConnect
  <2>1. ~is_initialized /\ is_initialized' = is_initialized
    BY <1>3 DEF OpenSocket, InitClient, SendConnect, AppAt, SessionInv, ThreadInSession, Down,
       Connecting, flags
  <2> QED
    BY <1>2, <2>1, DownStutters
<1>4. CASE CleanupFlags
  <2>1. CASE ~is_initialized
    BY <1>2, <1>4, <2>1, DownStutters DEF CleanupFlags
  <2>2. CASE is_initialized
    <3>1. ~daemon_created
      BY <1>4 DEF CleanupFlags, SessionInv, ThreadInSession, Serving
    <3>2. callback.handler = NULL
      BY <1>1, <3>1, NoThread DEF SessionInv, Delivery, HandlerRead
    <3> QED
      BY <1>2, <1>4, <2>2, <3>2 DEF CleanupFlags, Session!Close, Session!Next
  <2> QED
    BY <2>1, <2>2
<1>5. CASE SetConnected
  <2>1. /\ apc = "set_connected" /\ ~is_initialized
        /\ wire = <<>> /\ submitted = <<Control("CONNECT")>> /\ client_error = "OK"
    BY <1>5 DEF SetConnected, AppAt, SessionInv, ThreadInSession, Down, Connecting, Carried
  <2>2. dx_isMqttConnected' /\ is_initialized' /\ UNCHANGED <<wire, submitted, regOf>>
    BY <1>5, <2>1 DEF SetConnected, dx_isMqttConnected, clientVars, netVars
  <2>3. regOf \in Registrations \cup {NULL} /\ Control("CONNECT") \in Packets
    BY ControlType DEF TypeInv, TypeOK, MaybeRegistration
  <2> QED
    BY <1>2, <2>1, <2>2, <2>3 DEF Session!Open, Session!Next
<1>6. CASE RequestCall \/ SendDisconnect
  <2>1. /\ is_initialized /\ is_initialized' = is_initialized
        /\ UNCHANGED <<regOf, wire>>
    BY <1>6 DEF RequestCall, PublishCall, SubscribeCall, UnsubscribeCall, Queue, SendDisconnect,
       mqtt_queue, AppAt, SocketInv, SocketPc, Serving, flags
  <2>2. client_error' = "OK" => is_connected'
    BY <1>6, LossHasCauseApp, <2>1 DEF SessionInv, LossHasCause
  <2>3. \E p \in Packets : Pack(p, client_error)
    <3>1. apc = "request" => request \in Requests
      BY DEF TypeInv
    <3> QED
      BY <1>6, <3>1, RequestPackets, ControlType DEF RequestCall, PublishCall, SubscribeCall,
         UnsubscribeCall, InCall, Queue, SendDisconnect, mqtt_queue
  <2> QED
    BY <1>2, <2>1, <2>2, <2>3, PackAccepts DEF Session!Next
<1>7. CASE AppStep /\ ~OpenSocket /\ ~InitClient /\ ~SendConnect /\ ~CleanupFlags /\ ~SetConnected
           /\ ~RequestCall /\ ~SendDisconnect
  <2>1. UNCHANGED <<is_initialized, is_connected, client_error, regOf>>
    BY <1>7, Zenon DEF AppStep, CleanupClose, StoreHandler, StoreContext, OpenSocketFails,
       CheckConnectError, DaemonExists, CreateDaemon, CreateDaemonFails,
       StopDaemon, JoinDaemon, ClearError, clientVars, flags
  <2>2. UNCHANGED <<submitted, wire>>
    BY <1>7, Zenon DEF AppStep, CleanupClose, KernelClose, StoreHandler, StoreContext,
       OpenSocketFails, CheckConnectError, DaemonExists, CreateDaemon, CreateDaemonFails,
       StopDaemon, JoinDaemon, ClearError, netVars
  <2> QED
    BY <1>2, <2>1, <2>2, UnseenStutters DEF Unseen
<1> QED
  BY <1>3, <1>4, <1>5, <1>6, <1>7

LEMMA DaemonImplements ==
  ASSUME TypeInv, OneDaemon, SessionInv, NEW d \in Daemons, DaemonStep(d)
  PROVE  [Session!Next]_(Session!session)
<1>1. dpc[d] # "none" /\ \A e \in Daemons \ {d} : dpc[e] = "none"
  BY DaemonThread, OneThread
<1>2. callback.handler # NULL => dpc[d] \in HandlerRead
  BY <1>1 DEF SessionInv, Delivery, HandlerRead
<1>3. UNCHANGED <<is_initialized, regOf, submitted>>
  BY DaemonKeepsApp DEF appVars
<1>4. dpc[d] \in Working => is_initialized
  BY DEF SessionInv, ThreadInSession
<1>5. callback \in [from : MaybeRegistration, handler : MaybeRegistration, context : MaybeRegistration]
  BY DEF TypeInv, TypeOK
<1> USE DEF clientVars, netVars
<1>6. CASE DaemonSends(d)
  <2>1. /\ dpc[d] = "send" /\ UNCHANGED <<is_connected, client_error, callback>>
        /\ wire' = IF ClientConn \in up /\ ClientConn = opened THEN wire \o client_mq ELSE wire
    BY <1>6 DEF DaemonSends, DaemonAt, SyncSends
  <2>2. CASE ClientConn \in up /\ ClientConn = opened
    <3>1. apc # "mqtt_init" /\ is_initialized
      BY <1>4, <2>1 DEF Working, DaemonLabels, SessionInv, ThreadInSession, Down
    <3>2. wire' = submitted
      BY <2>1, <2>2, <3>1 DEF SessionInv, Carried
    <3>3. dx_isMqttConnected' = dx_isMqttConnected
      BY <1>3, <2>1 DEF dx_isMqttConnected
    <3> QED
      BY <1>3, <2>1, <3>1, <3>2, <3>3 DEF Session!Carry, Session!Next
  <2>3. CASE ~(ClientConn \in up /\ ClientConn = opened)
    BY <1>3, <2>1, <2>3, UnseenStutters DEF Unseen
  <2> QED
    BY <2>2, <2>3
<1>7. CASE CallbackReadsHandler(d)
  <2>1. /\ dpc[d] \in {"callback_call", "callback_handler"}
        /\ UNCHANGED <<is_connected, client_error, wire>>
        /\ callback'.handler = message_handler
    BY <1>5, <1>7 DEF CallbackReadsHandler, DaemonAt
  <2>2. message_handler = regOf /\ message_handler # NULL /\ is_initialized /\ callback.handler = NULL
    BY <1>2, <1>4, <2>1 DEF Working, DaemonLabels, SessionInv, Delivery, Reading, HandlerRead
  <2>3. dx_isMqttConnected' = dx_isMqttConnected
    BY <1>3, <2>1 DEF dx_isMqttConnected
  <2> QED
    BY <1>3, <2>1, <2>2, <2>3 DEF Session!Deliver, Session!Next
<1>13. CASE CallbackReadsContext(d)
  <2>1. UNCHANGED <<is_connected, client_error, wire>> /\ callback'.handler = callback.handler
    BY <1>5, <1>13 DEF CallbackReadsContext
  <2> QED
    BY <1>3, <2>1 DEF Session!session, dx_isMqttConnected
<1>8. CASE CallbackDone(d)
  <2>1. /\ dpc[d] = "callback_run" /\ UNCHANGED <<is_connected, client_error, wire>>
        /\ callback'.handler = NULL
    BY <1>8 DEF CallbackDone, CallbackReturns, DaemonAt, NoCallback
  <2>2. callback.handler # NULL
    BY <2>1 DEF SessionInv, Delivery, Reading, HandlerRead
  <2>3. dx_isMqttConnected' = dx_isMqttConnected
    BY <1>3, <2>1 DEF dx_isMqttConnected
  <2> QED
    BY <1>3, <2>1, <2>2, <2>3 DEF Session!Delivered, Session!Next
<1>9. CASE CallbackDrops(d) \/ DaemonReceivesPublish(d)
  <2>1. /\ dpc[d] \in {"callback_check", "receive"} /\ UNCHANGED <<is_connected, client_error, wire>>
        /\ callback'.handler = NULL
    BY <1>9 DEF CallbackDrops, CallbackReturns, DaemonReceivesPublish, SyncReceivePublish, DaemonAt,
       NoCallback
  <2>2. callback.handler = NULL
    BY <1>2, <2>1 DEF HandlerRead
  <2> QED
    BY <1>3, <2>1, <2>2 DEF Session!session, dx_isMqttConnected
<1>10. CASE DaemonReceiveFails(d) \/ DaemonSendFails(d)
  <2>1. /\ dpc[d] \in {"receive", "send"} /\ client_error' # "OK" /\ UNCHANGED <<wire, callback>>
    BY <1>10 DEF DaemonReceiveFails, DaemonSendFails, SyncReceiveFails, SyncSendFails, DaemonAt
  <2>2. is_initialized
    BY <1>4, <2>1 DEF Working, DaemonLabels
  <2> QED
    BY <1>3, <2>1, <2>2, ErrorLoses DEF Session!Next
<1>11. CASE DaemonSyncFailed(d) \/ DaemonMarksLost(d)
  <2>1. dpc[d] \in {"sync_failed", "mark_lost"} /\ UNCHANGED <<client_error, wire, callback>>
    BY <1>11 DEF DaemonSyncFailed, DaemonMarksLost, DaemonAt
  <2>2. client_error # "OK"
    BY <2>1 DEF SessionInv, LossHasCause
  <2> QED
    BY <1>3, <2>1, <2>2 DEF Session!session, dx_isMqttConnected
<1>12. CASE DaemonLoop(d) \/ DaemonCheckConnected(d) \/ DaemonReceivesNothing(d)
            \/ CallbackHasHandler(d) \/ DaemonCheckError(d)
  <2>1. UNCHANGED <<is_connected, client_error, wire, callback>>
    BY <1>12, Zenon DEF DaemonLoop, DaemonCheckConnected, DaemonReceivesNothing,
       SyncReceiveNothing, CallbackHasHandler, DaemonCheckError
  <2> QED
    BY <1>3, <2>1, UnseenStutters DEF Unseen
<1> QED
  BY <1>6, <1>7, <1>8, <1>9, <1>10, <1>11, <1>12, <1>13 DEF DaemonStep, CallbackCall

LEMMA StepImplements ==
  ASSUME TypeInv, SocketInv, ThreadInv, SessionInv, [Next]_vars
  PROVE  [Session!Next]_(Session!session)
<1>1. CASE AppStep
  BY <1>1, AppImplements
<1>2. CASE AppCall
  BY <1>2, CallFrame, UnseenStutters DEF Unseen, clientVars, netVars, flags, threadVars
<1>3. ASSUME NEW d \in Daemons, DaemonStep(d) PROVE [Session!Next]_(Session!session)
  BY <1>3, DaemonImplements DEF ThreadInv
<1>4. CASE Network \/ UNCHANGED vars
  <2>1. Unseen
    BY <1>4, Zenon DEF Network, BrokerAccepts, PeerDrops, vars, ownVars, clientVars, netVars, flags,
       threadVars, Unseen
  <2> QED
    BY <2>1, UnseenStutters
<1> QED
  BY <1>1, <1>2, <1>3, <1>4 DEF Next

\* dx_mqtt.c implements the sessions of MqttSession.
THEOREM ImplementsSessions ==
  ASSUME ReconnectAllowed = FALSE
  PROVE  Spec => ImplementsSession
<1>1. TypeInv /\ SocketInv /\ ThreadInv /\ SessionInv /\ [Next]_vars => [Session!Next]_(Session!session)
  BY StepImplements
<1> QED
  BY <1>1, StartsDown, SessionsKept, PTL DEF Spec, ImplementsSession, Session!Spec

=============================================================================

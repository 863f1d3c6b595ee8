----------------------------- MODULE DxNetwork -----------------------------
(***************************************************************************)
(* dx_isNetworkConnected of dx_utilities.c: the result of the end-to-end   *)
(* test is cached until a one-shot timer of the event loop drops it.  The  *)
(* application calls it on the loop's thread, before uv_run or in a        *)
(* timer's handler, and on threads of its own; these fetch data with       *)
(* dx_getHttpData, which the test is made with, as well.                   *)
(***************************************************************************)
EXTENDS UvLoop, DxHttp

CONSTANTS
  Main,         \* the loop's thread
  Workers,      \* the application's other threads
  CacheTime,    \* the 3 minutes
  AppPeriod,    \* the repeat of the application's timer, 0 if it has none
  NULL

Tmr == "tmr_network_connected_cached"
App == "application_timer"
Threads == Workers \cup {Main}

ASSUME NetworkAssumption ==
  /\ Timers = {Tmr, App}
  /\ Main \notin Workers /\ NULL \notin Threads
  /\ Callers = Threads
  /\ CacheTime \in 1..MaxLag /\ AppPeriod \in 0..MaxLag

VARIABLES
  network_timer_initialised, network_connected_cached,
  mutex,        \* network_timer_mutex: its owner, or NULL
  started,      \* tmr_network_connected_cached.initialized
  pc,           \* where each thread is in dx_isNetworkConnected, or "fetch"
  interface     \* until it is used: the parameter is not empty

cacheVars == <<network_timer_initialised, network_connected_cached, mutex, started>>
callVars  == <<pc, interface>>
vars == <<uvVars, cacheVars, httpVars, callVars>>

TypeOK ==
  /\ UvTypeOK /\ HttpTypeOK
  /\ network_timer_initialised \in BOOLEAN /\ network_connected_cached \in BOOLEAN
  /\ mutex \in Threads \cup {NULL}
  /\ started \in BOOLEAN
  /\ pc \in [Threads -> {"idle", "lock", "start", "ready", "http", "arm", "fetch"}]
  /\ interface \in [Threads -> BOOLEAN]

\* The application has an async and, if AppPeriod is not 0, a periodic timer.
Init ==
  /\ lag = 0
  /\ active = [t \in Timers |-> t = App /\ AppPeriod > 0]
  /\ left = [t \in Timers |-> IF t = App THEN AppPeriod ELSE 0]
  /\ rep = [t \in Timers |-> IF t = App THEN AppPeriod ELSE 0]
  /\ asyncs = Asyncs /\ pending = {}
  /\ stop_flag = FALSE /\ timeout = 0
  /\ loop = "out" /\ running = NoHandle
  /\ HttpInit
  /\ network_timer_initialised = FALSE /\ network_connected_cached = FALSE
  /\ mutex = NULL
  /\ started = FALSE
  /\ pc = [c \in Threads |-> "idle"]
  /\ interface = [c \in Threads |-> FALSE]

At(c, here, there) == pc[c] = here /\ pc' = [pc EXCEPT ![c] = there]

-----------------------------------------------------------------------------

AppRuns(c) == c = Main => loop = "out" \/ running = App

Call(c) ==
  /\ AppRuns(c)
  /\ At(c, "idle", "lock")
  /\ \E given \in BOOLEAN : interface' = [interface EXCEPT ![c] = given]
  /\ UNCHANGED <<uvVars, cacheVars, httpVars>>

\* The application calls dx_getHttpData itself, and has its result.
Fetch(c) ==
  /\ AppRuns(c)
  /\ At(c, "idle", "fetch") /\ HttpBegin(c)
  /\ UNCHANGED <<uvVars, cacheVars, interface>>

FetchEnds(c) ==
  /\ At(c, "fetch", "idle") /\ HttpEnds(c)
  /\ UNCHANGED <<uvVars, cacheVars, interface>>

\* Slip: a thread that finds the flag set does not wait for the mutex.
CheckThenLock(c) ==
  /\ network_timer_initialised \/ mutex = NULL
  /\ network_timer_initialised' = TRUE
  /\ IF network_timer_initialised
       THEN At(c, "lock", "ready") /\ UNCHANGED mutex
       ELSE At(c, "lock", "start") /\ mutex' = c
  /\ UNCHANGED <<uvVars, httpVars, network_connected_cached, started, interface>>

\* The flag is set before the timer is started, so it is read under the mutex.
LockAndCheck(c) ==
  /\ mutex = NULL
  /\ network_timer_initialised' = TRUE
  /\ IF network_timer_initialised
       THEN At(c, "lock", "ready") /\ UNCHANGED mutex
       ELSE At(c, "lock", "start") /\ mutex' = c
  /\ UNCHANGED <<uvVars, httpVars, network_connected_cached, started, interface>>

\* dx_timerStart of a binding without delay or repeat only initialises it.
StartTimer(c) ==
  /\ At(c, "start", "ready")
  /\ started' = TRUE
  /\ active' = [active EXCEPT ![Tmr] = IF started THEN active[Tmr] ELSE FALSE]
  /\ mutex' = NULL
  /\ UNCHANGED <<lag, left, rep, asyncVars, stop_flag, runVars, httpVars,
                 network_timer_initialised, network_connected_cached, interface>>

\* Without an interface that is up the answer is no; without a parameter, or
\* with a cached result, it is yes; otherwise there is a test to be made.
AnswerAtOnce(c) ==
  /\ At(c, "ready", "idle")
  /\ interface' = [interface EXCEPT ![c] = FALSE]
  /\ UNCHANGED <<uvVars, cacheVars, httpVars>>

\* Slip: the cached result is not used.
TestAgain(c) ==
  /\ interface[c]
  /\ At(c, "ready", "http") /\ HttpBegin(c)
  /\ interface' = [interface EXCEPT ![c] = FALSE]
  /\ UNCHANGED <<uvVars, cacheVars>>

MakeTest(c) ==
  /\ interface[c] /\ ~network_connected_cached
  /\ At(c, "ready", "http") /\ HttpBegin(c)
  /\ interface' = [interface EXCEPT ![c] = FALSE]
  /\ UNCHANGED <<uvVars, cacheVars>>

\* dx_getHttpData has returned NULL,
TestFails(c) ==
  /\ At(c, "http", "idle") /\ HttpEnds(c)
  /\ UNCHANGED <<uvVars, cacheVars, interface>>

\* ... or anything else: an empty answer is one, too.
CacheResult(c) ==
  /\ At(c, "http", "arm") /\ HttpEnds(c)
  /\ network_connected_cached' = TRUE
  /\ UNCHANGED <<uvVars, network_timer_initialised, mutex, started, interface>>

\* dx_timerOneShotSet, which does nothing to a timer that is not started.
ArmTimer(c) ==
  /\ At(c, "arm", "idle")
  /\ IF started
       THEN /\ lag' = 0
            /\ left' = [Elapsed EXCEPT ![Tmr] = CacheTime]
            /\ active' = [active EXCEPT ![Tmr] = TRUE]
       ELSE UNCHANGED <<lag, left, active>>
  /\ UNCHANGED <<rep, asyncVars, stop_flag, runVars, cacheVars, httpVars, interface>>

\* network_connected_expired_handler.
Expired ==
  /\ running = Tmr
  /\ network_connected_cached' = FALSE
  /\ CallbackReturns
  /\ UNCHANGED <<network_timer_initialised, mutex, started, httpVars, callVars>>

-----------------------------------------------------------------------------

CallStep(c) ==
  \/ LockAndCheck(c) \/ StartTimer(c) \/ AnswerAtOnce(c) \/ MakeTest(c)
  \/ TestFails(c) \/ CacheResult(c) \/ ArmTimer(c) \/ FetchEnds(c)
  \/ HttpStep(c) /\ UNCHANGED <<uvVars, cacheVars, callVars>>

\* The loop and the application's handlers go on when Main is not in a call.
LoopStep ==
  /\ pc[Main] = "idle"
  /\ \/ \E t \in Timers : TimerFires(t)
     \/ NoTimerDue \/ PollStart \/ PollReturns \/ NoAsyncPending \/ RunEndsOrRepeats
  /\ UNCHANGED <<cacheVars, httpVars, callVars>>

HandlerReturns ==
  /\ pc[Main] = "idle"
  /\ running = App /\ CallbackReturns
  /\ UNCHANGED <<cacheVars, httpVars, callVars>>

dx_eventLoopRun == pc[Main] = "idle" /\ RunBegin /\ UNCHANGED <<cacheVars, httpVars, callVars>>

TimePasses == Tick /\ UNCHANGED <<cacheVars, httpVars, callVars>>

Next ==
  \/ \E c \in Threads : Call(c) \/ Fetch(c) \/ CallStep(c)
  \/ Expired \/ LoopStep \/ HandlerReturns \/ dx_eventLoopRun \/ TimePasses

Spec == Init /\ [][Next]_vars

\* Main runs the loop in the end, and handlers return, however often they call;
\* time passes, calls are finished and the mutex is fair.
FairSpec ==
  /\ Spec
  /\ SF_vars(dx_eventLoopRun) /\ SF_vars(HandlerReturns)
  /\ WF_vars(LoopStep) /\ WF_vars(Expired) /\ WF_vars(TimePasses)
  /\ \A c \in Threads : SF_vars(LockAndCheck(c)) /\ WF_vars(CallStep(c))

-----------------------------------------------------------------------------

\* A cached result always has its end before it: the timer that drops it is
\* waiting, or its handler is about to run, or a thread is about to start it.
CacheHasAnEnd ==
  network_connected_cached =>
    active[Tmr] \/ running = Tmr \/ \E c \in Threads : pc[c] = "arm"

\* "3 minute cache on end to end testing": a cached result is dropped.
CacheExpires == network_connected_cached ~> ~network_connected_cached
=============================================================================

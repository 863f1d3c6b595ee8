--------------------------- MODULE DxNetworkProofs ---------------------------
(***************************************************************************)
(* The cache of dx_isNetworkConnected for any threads, times and timers.   *)
(***************************************************************************)
EXTENDS DxNetwork, TLAPS

(***************************************************************************)
(* The strengthening: the timer's handle is initialised once, under the    *)
(* mutex, before any thread can get as far as starting the timer; and a    *)
(* callback runs exactly when the loop is in one.                          *)
(***************************************************************************)
Shape ==
  /\ active \in [Timers -> BOOLEAN]
  /\ pc \in [Threads -> {"idle", "lock", "start", "ready", "http", "arm", "fetch"}]

LoopShape == loop \notin {"callback", "handler"} => running = NoHandle

\* The flag is set, and the timer started, by whoever has the mutex.
Starting == \A c \in Threads : pc[c] = "start" => mutex = c

StartedFirst ==
  /\ network_timer_initialised /\ mutex = NULL => started
  /\ mutex # NULL => ~started /\ network_timer_initialised
  /\ (\E c \in Threads : pc[c] \in {"ready", "http", "arm"}) => started
  /\ network_connected_cached => started
  /\ started => network_timer_initialised

NInv == Shape /\ LoopShape /\ Starting /\ StartedFirst /\ CacheHasAnEnd

LEMMA Names == Timers = {Tmr, App} /\ NULL \notin Threads /\ Tmr # App /\ Tmr # NoHandle
BY NetworkAssumption DEF NetworkAssumption, Threads, Tmr, App, NoHandle

LEMMA NetInit == Init => NInv
BY Names DEF Init, NInv, Shape, LoopShape, Starting, StartedFirst, CacheHasAnEnd

\* Steps of the loop that fire no timer leave all of it alone.
LEMMA QuietLoop ==
  ASSUME NInv, UNCHANGED <<active, cacheVars, callVars>>, LoopShape',
         running = Tmr => running' = Tmr
  PROVE  NInv'
BY DEF NInv, Shape, Starting, StartedFirst, CacheHasAnEnd, cacheVars, callVars

LEMMA NetStep == NInv /\ [Next]_vars => NInv'
<1> SUFFICES ASSUME NInv, [Next]_vars PROVE NInv'
  OBVIOUS
<1> USE DEF cacheVars, callVars
<1>1. ASSUME NEW c \in Threads, Call(c) PROVE NInv'
  <2> USE <1>1 DEF Call, At
  <2>1. Shape' /\ LoopShape'
    BY DEF NInv, Shape, LoopShape, uvVars, timerVars, runVars
  <2>2. Starting' /\ StartedFirst' /\ CacheHasAnEnd'
    BY DEF NInv, Shape, Starting, StartedFirst, CacheHasAnEnd, uvVars, timerVars, runVars
  <2> QED
    BY <2>1, <2>2 DEF NInv
<1>2. ASSUME NEW c \in Threads, LockAndCheck(c) PROVE NInv'
  <2> USE <1>2, Names DEF LockAndCheck, At
  <2>1. Shape' /\ LoopShape'
    BY DEF NInv, Shape, LoopShape, uvVars, timerVars, runVars
  <2>2. Starting'
    BY DEF NInv, Shape, Starting
  <2>3. StartedFirst'
    BY DEF NInv, Shape, StartedFirst
  <2>4. CacheHasAnEnd'
    BY DEF NInv, Shape, CacheHasAnEnd, uvVars, timerVars, runVars
  <2> QED
    BY <2>1, <2>2, <2>3, <2>4 DEF NInv
<1>3. ASSUME NEW c \in Threads, StartTimer(c) PROVE NInv'
  <2> USE <1>3, Names DEF StartTimer, At
  <2>1. mutex = c /\ ~started /\ ~network_connected_cached
    BY DEF NInv, Starting, StartedFirst
  <2>2. Shape' /\ LoopShape'
    BY DEF NInv, Shape, LoopShape, runVars
  <2>3. Starting' /\ StartedFirst' /\ CacheHasAnEnd'
    BY <2>1 DEF NInv, Shape, Starting, StartedFirst, CacheHasAnEnd
  <2> QED
    BY <2>2, <2>3 DEF NInv
<1>4. ASSUME NEW c \in Threads,
             \/ AnswerAtOnce(c) \/ MakeTest(c) \/ TestFails(c) \/ Fetch(c) \/ FetchEnds(c)
             \/ HttpStep(c) /\ UNCHANGED <<uvVars, cacheVars, callVars>>
      PROVE  NInv'
  <2> USE <1>4 DEF AnswerAtOnce, MakeTest, TestFails, Fetch, FetchEnds, At
  <2>1. Shape' /\ LoopShape'
    BY DEF NInv, Shape, LoopShape, uvVars, timerVars, runVars
  <2>2. Starting' /\ StartedFirst' /\ CacheHasAnEnd'
    BY DEF NInv, Shape, Starting, StartedFirst, CacheHasAnEnd, uvVars, timerVars, runVars
  <2> QED
    BY <2>1, <2>2 DEF NInv
<1>5. ASSUME NEW c \in Threads, CacheResult(c) PROVE NInv'
  <2> USE <1>5 DEF CacheResult, At
  <2>1. Shape' /\ LoopShape'
    BY DEF NInv, Shape, LoopShape, uvVars, timerVars, runVars
  <2>2. Starting' /\ StartedFirst' /\ CacheHasAnEnd'
    BY DEF NInv, Shape, Starting, StartedFirst, CacheHasAnEnd, uvVars, timerVars, runVars
  <2> QED
    BY <2>1, <2>2 DEF NInv
<1>6. ASSUME NEW c \in Threads, ArmTimer(c) PROVE NInv'
  <2> USE <1>6, Names DEF ArmTimer, At
  <2>1. started
    BY DEF NInv, StartedFirst
  <2>2. Shape' /\ LoopShape' /\ active'[Tmr]
    BY <2>1 DEF NInv, Shape, LoopShape, runVars
  <2>3. Starting' /\ StartedFirst' /\ CacheHasAnEnd'
    BY <2>1, <2>2 DEF NInv, Shape, Starting, StartedFirst, CacheHasAnEnd
  <2> QED
    BY <2>2, <2>3 DEF NInv
<1>7. CASE Expired
  <2> USE <1>7 DEF Expired, CallbackReturns
  <2>1. Shape' /\ LoopShape'
    BY DEF NInv, Shape, LoopShape, timerVars
  <2>2. Starting' /\ StartedFirst' /\ CacheHasAnEnd'
    BY DEF NInv, Starting, StartedFirst, CacheHasAnEnd
  <2> QED
    BY <2>1, <2>2 DEF NInv
<1>8. CASE LoopStep
  <2>1. ASSUME NEW t \in Timers, TimerFires(t) PROVE NInv'
    <3> USE <1>8, <2>1, Names DEF LoopStep, TimerFires
    <3>1. Shape' /\ LoopShape'
      BY DEF NInv, Shape, LoopShape
    <3>2. CASE t = Tmr
      BY <3>1, <3>2 DEF NInv, Starting, StartedFirst, CacheHasAnEnd
    <3>3. CASE t # Tmr
      <4>1. active'[Tmr] = active[Tmr] /\ running # Tmr
        BY <3>3 DEF NInv, Shape, LoopShape
      <4> QED
        BY <3>1, <4>1 DEF NInv, Starting, StartedFirst, CacheHasAnEnd
    <3> QED
      BY <3>2, <3>3
  <2>2. CASE NoTimerDue \/ PollStart \/ PollReturns \/ NoAsyncPending
    BY <1>8, <2>2, QuietLoop DEF LoopStep, NoTimerDue, PollStart, PollReturns, NoAsyncPending,
       LoopShape, timerVars, NInv
  <2>3. CASE RunEndsOrRepeats
    BY <1>8, <2>3, QuietLoop DEF LoopStep, RunEndsOrRepeats, LoopShape, NInv
  <2> QED
    BY <1>8, <2>1, <2>2, <2>3 DEF LoopStep
<1>9. CASE HandlerReturns
  BY <1>9, QuietLoop, Names DEF HandlerReturns, CallbackReturns, LoopShape, timerVars, NInv
<1>10. CASE dx_eventLoopRun
  BY <1>10, QuietLoop DEF dx_eventLoopRun, RunBegin, LoopShape, NInv
<1>11. CASE TimePasses
  BY <1>11, QuietLoop DEF TimePasses, Tick, LoopShape, runVars, NInv
<1>12. CASE UNCHANGED vars
  BY <1>12, QuietLoop DEF vars, uvVars, timerVars, runVars, LoopShape, NInv
<1> QED
  BY <1>1, <1>2, <1>3, <1>4, <1>5, <1>6, <1>7, <1>8, <1>9, <1>10, <1>11, <1>12
     DEF Next, CallStep

\* No order of the threads and the loop leaves a cached result without a timer
\* that drops it: waiting, running, or about to be started.
THEOREM CacheAlwaysEnds == Spec => []CacheHasAnEnd
<1>1. NInv => CacheHasAnEnd
  BY DEF NInv
<1> QED
  BY <1>1, NetInit, NetStep, PTL DEF Spec

(***************************************************************************)
(* libcurl: the flag and whoever set it come after a finished call.        *)
(***************************************************************************)
HInv ==
  /\ HttpTypeOK
  /\ curl_initialized => curl_ready
  /\ \A c \in Callers : http[c] \in {"flag", "transfer"} => curl_ready

\* The steps of a call, whatever its thread does besides.
HttpAction(c) == HttpBegin(c) \/ HttpStep(c) \/ HttpEnds(c)

LEMMA HttpActionKeeps == ASSUME HInv, NEW c \in Callers, HttpAction(c) PROVE HInv'
<1> USE DEF HInv, HttpTypeOK, Goes
<1>1. CASE HttpBegin(c) \/ HttpEnds(c)
  BY <1>1 DEF HttpBegin, HttpEnds
<1>2. CASE CheckFlag(c)
  BY <1>2 DEF CheckFlag
<1>3. CASE curl_global_init(c)
  BY <1>3 DEF curl_global_init
<1>4. CASE SetFlag(c)
  BY <1>4 DEF SetFlag
<1> QED
  BY <1>1, <1>2, <1>3, <1>4 DEF HttpAction, HttpStep

\* A step of the program is one of these, or leaves libcurl alone.
LEMMA HttpInNetwork ==
  [Next]_vars => (\E c \in Callers : HttpAction(c)) \/ UNCHANGED httpVars
<1> SUFFICES ASSUME [Next]_vars PROVE (\E c \in Callers : HttpAction(c)) \/ UNCHANGED httpVars
  OBVIOUS
<1>1. ASSUME NEW c \in Threads, Call(c) \/ Fetch(c) \/ CallStep(c)
      PROVE  HttpAction(c) \/ UNCHANGED httpVars
  BY <1>1 DEF Call, Fetch, CallStep, LockAndCheck, StartTimer, AnswerAtOnce, MakeTest, TestFails,
     CacheResult, ArmTimer, FetchEnds, HttpAction
<1>2. CASE Expired \/ LoopStep \/ HandlerReturns \/ dx_eventLoopRun \/ TimePasses
  BY <1>2 DEF Expired, LoopStep, HandlerReturns, dx_eventLoopRun, TimePasses
<1> QED
  BY <1>1, <1>2, NetworkAssumption DEF NetworkAssumption, Next, vars

LEMMA HttpInitially == Init => HInv
BY DEF Init, HttpInit, HInv, HttpTypeOK

LEMMA HttpKept == HInv /\ [Next]_vars => HInv'
<1> SUFFICES ASSUME HInv, [Next]_vars PROVE HInv'
  OBVIOUS
<1>1. CASE UNCHANGED httpVars
  BY <1>1 DEF HInv, HttpTypeOK, httpVars
<1> QED
  BY <1>1, HttpInNetwork, HttpActionKeeps

\* No thread uses libcurl before a call of curl_global_init has returned, though
\* several may find the flag clear and the flag has no lock.
THEOREM LibcurlIsReady == Spec => []NoTransferBeforeInit
<1>1. HInv => NoTransferBeforeInit
  BY DEF HInv, NoTransferBeforeInit
<1> QED
  BY <1>1, HttpInitially, HttpKept, PTL DEF Spec

(***************************************************************************)
(* Type correctness.                                                       *)
(***************************************************************************)
LEMMA ElapsedType ==
  ASSUME UvTypeOK
  PROVE  Elapsed \in [Timers -> 0..MaxLag]
BY LoopAssumption DEF LoopAssumption, UvTypeOK, Elapsed

\* The shortest time to go is some active timer's.
LEMMA TimeoutType ==
  ASSUME UvTypeOK
  PROVE  NextTimeout \in {Never} \cup (0..MaxLag)
<1> DEFINE S == {left[t] : t \in {u \in Timers : active[u]}}
<1>1. CASE stop_flag \/ ~Alive
  BY <1>1, LoopAssumption DEF LoopAssumption, NextTimeout
<1>2. CASE \A t \in Timers : ~active[t]
  BY <1>2, LoopAssumption DEF LoopAssumption, NextTimeout
<1>3. CASE ~(stop_flag \/ ~Alive) /\ ~(\A t \in Timers : ~active[t])
  <2>1. S \subseteq 0..MaxLag /\ S \subseteq {left[Tmr], left[App]} /\ S # {}
    BY <1>3, Names DEF UvTypeOK
  <2>2. \E x \in S : \A y \in S : x <= y
    <3> DEFINE a == left[Tmr]
              b == left[App]
    <3> HIDE DEF S
    <3>1. \A x \in S : x \in Int /\ (x = a \/ x = b)
      BY <2>1, LoopAssumption DEF LoopAssumption
    <3> HIDE DEF a, b
    <3>2. CASE a \in S /\ (b \notin S \/ a <= b)
      BY <3>1, <3>2
    <3>3. CASE b \in S /\ (a \notin S \/ ~(a <= b))
      BY <3>1, <3>3
    <3> QED
      BY <2>1, <3>1, <3>2, <3>3
  <2>3. Min(S) \in S
    BY <2>2 DEF Min
  <2> QED
    BY <1>3, <2>1, <2>3 DEF NextTimeout
<1> QED
  BY <1>1, <1>2, <1>3

LEMMA NetTypeInit == Init => TypeOK
<1> SUFFICES ASSUME Init PROVE TypeOK
  OBVIOUS
<1>1. 0 \in 0..MaxLag /\ AppPeriod \in 0..MaxLag
  BY LoopAssumption, NetworkAssumption DEF LoopAssumption, NetworkAssumption
<1>2. UvTypeOK
  BY <1>1 DEF Init, UvTypeOK
<1> QED
  BY <1>2, NetworkAssumption DEF NetworkAssumption, Init, TypeOK, HttpInit, HttpTypeOK

LEMMA LoopType ==
  ASSUME TypeOK, HttpTypeOK', LoopStep
  PROVE  TypeOK'
<1> USE DEF TypeOK, UvTypeOK, cacheVars, callVars, timerVars, asyncVars, runVars
<1>1. ASSUME NEW t \in Timers, TimerFires(t) PROVE TypeOK'
  BY <1>1 DEF LoopStep, TimerFires
<1>2. CASE NoTimerDue
  BY <1>2 DEF LoopStep, NoTimerDue
<1>3. CASE PollStart
  BY <1>3, TimeoutType DEF LoopStep, PollStart
<1>4. CASE PollReturns
  BY <1>4, ElapsedType, LoopAssumption DEF LoopStep, LoopAssumption, PollReturns, uv_update_time
<1>5. CASE NoAsyncPending
  BY <1>5 DEF LoopStep, NoAsyncPending
<1>6. CASE RunEndsOrRepeats
  <2>1. Elapsed \in [Timers -> 0..MaxLag] /\ 0 \in 0..MaxLag
    BY ElapsedType, LoopAssumption DEF LoopAssumption
  <2>2. CASE left' = Elapsed /\ lag' = 0 /\ loop' = "timers" /\ UNCHANGED stop_flag
    BY <1>6, <2>1, <2>2 DEF LoopStep, RunEndsOrRepeats
  <2>3. CASE loop' = "out" /\ stop_flag' = FALSE /\ UNCHANGED <<left, lag>>
    BY <1>6, <2>3 DEF LoopStep, RunEndsOrRepeats
  <2> QED
    BY <1>6, <2>2, <2>3 DEF RunEndsOrRepeats, uv_update_time
<1> QED
  BY <1>1, <1>2, <1>3, <1>4, <1>5, <1>6 DEF LoopStep

LEMMA CallType ==
  ASSUME TypeOK, HttpTypeOK', NEW c \in Threads, Call(c) \/ Fetch(c) \/ CallStep(c)
  PROVE  TypeOK'
<1> USE DEF TypeOK, UvTypeOK, cacheVars, callVars, uvVars, timerVars, asyncVars, runVars, At
<1>1. CASE Call(c)
  BY <1>1 DEF Call
<1>2. CASE LockAndCheck(c)
  BY <1>2 DEF LockAndCheck
<1>3. CASE StartTimer(c)
  BY <1>3 DEF StartTimer
<1>4. CASE AnswerAtOnce(c) \/ MakeTest(c)
  BY <1>4 DEF AnswerAtOnce, MakeTest
<1>5. CASE TestFails(c) \/ CacheResult(c) \/ Fetch(c) \/ FetchEnds(c)
  BY <1>5 DEF TestFails, CacheResult, Fetch, FetchEnds
<1>6. CASE ArmTimer(c)
  <2>1. Elapsed \in [Timers -> 0..MaxLag] /\ 0 \in 0..MaxLag /\ CacheTime \in 0..MaxLag
    BY ElapsedType, LoopAssumption, NetworkAssumption DEF LoopAssumption, NetworkAssumption
  <2>2. CASE started
    BY <1>6, <2>1, <2>2 DEF ArmTimer
  <2>3. CASE ~started
    BY <1>6, <2>3 DEF ArmTimer
  <2> QED
    BY <2>2, <2>3
<1>7. CASE HttpStep(c) /\ UNCHANGED <<uvVars, cacheVars, callVars>>
  BY <1>7
<1> QED
  BY <1>1, <1>2, <1>3, <1>4, <1>5, <1>6, <1>7 DEF CallStep

LEMMA HttpTypeKept == HttpTypeOK /\ [Next]_vars => HttpTypeOK'
<1> SUFFICES ASSUME HttpTypeOK, [Next]_vars PROVE HttpTypeOK'
  OBVIOUS
<1> USE DEF HttpTypeOK, httpVars
<1>1. ASSUME NEW c \in Callers, HttpAction(c) PROVE HttpTypeOK'
  BY <1>1 DEF HttpAction, HttpBegin, HttpEnds, HttpStep, CheckFlag, curl_global_init, SetFlag, Goes
<1> QED
  BY <1>1, HttpInNetwork

LEMMA NetTypeStep == TypeOK /\ [Next]_vars => TypeOK'
<1> SUFFICES ASSUME TypeOK, [Next]_vars PROVE TypeOK'
  OBVIOUS
<1> USE DEF TypeOK, UvTypeOK, cacheVars, callVars, uvVars, timerVars, asyncVars, runVars
<1>0. HttpTypeOK'
  BY HttpTypeKept
<1>1. ASSUME NEW c \in Threads, Call(c) \/ Fetch(c) \/ CallStep(c) PROVE TypeOK'
  BY <1>0, <1>1, CallType
<1>2. CASE LoopStep
  BY <1>0, <1>2, LoopType
<1>3. CASE Expired \/ HandlerReturns
  BY <1>0, <1>3 DEF Expired, HandlerReturns, CallbackReturns
<1>4. CASE dx_eventLoopRun
  <2>1. Elapsed \in [Timers -> 0..MaxLag] /\ 0 \in 0..MaxLag
    BY ElapsedType, LoopAssumption DEF LoopAssumption
  <2>2. CASE left' = Elapsed /\ lag' = 0 /\ loop' = "timers" /\ UNCHANGED stop_flag
    BY <1>0, <1>4, <2>1, <2>2 DEF dx_eventLoopRun, RunBegin
  <2>3. CASE stop_flag' = FALSE /\ UNCHANGED <<loop, left, lag>>
    BY <1>0, <1>4, <2>3 DEF dx_eventLoopRun, RunBegin
  <2> QED
    BY <1>4, <2>2, <2>3 DEF dx_eventLoopRun, RunBegin, uv_update_time
<1>5. CASE TimePasses
  BY <1>0, <1>5, LoopAssumption DEF LoopAssumption, TimePasses, Tick
<1>6. CASE UNCHANGED vars
  BY <1>0, <1>6 DEF vars
<1> QED
  BY <1>1, <1>2, <1>3, <1>4, <1>5, <1>6 DEF Next

\* Every variable of the cache, of its callers and of the loop under them keeps
\* its type; the loop never computes a time to block beyond its timers'.
THEOREM NetworkTypes == Spec => []TypeOK
BY NetTypeInit, NetTypeStep, PTL DEF Spec
=============================================================================

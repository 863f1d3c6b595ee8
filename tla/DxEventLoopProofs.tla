------------------------- MODULE DxEventLoopProofs -------------------------
(***************************************************************************)
(* The timers and the termination of the event loop, for any timers with   *)
(* any times, any sets of them, any threads and any exit codes but 0.      *)
(***************************************************************************)
EXTENDS DxEventLoop, WellFoundedInduction, TLAPS

-----------------------------------------------------------------------------
(* Arithmetic.                                                             *)

LEMMA MsType ==
  ASSUME NEW ts \in Int, Convertible(ts)
  PROVE  Ms(ts) \in Nat
<1>1. TicksPerMs \in Nat \ {0} /\ ts \in Nat
  BY EventLoopAssumption DEF EventLoopAssumption, Convertible
<1>2. ASSUME NEW n \in Nat, NEW d \in Nat \ {0} PROVE n \div d \in Nat
  BY Z3
<1> QED
  BY <1>1, <1>2 DEF Ms

\* A set of numbers that is not empty has a least one.
LEMMA MinOf ==
  ASSUME NEW S, S \subseteq Nat, S # {}
  PROVE  Min(S) \in S /\ \A y \in S : Min(S) <= y
<1> DEFINE R == {ss \in Nat \X Nat : ss[1] < ss[2]}
<1>1. PICK x \in S : \A y \in S : ~(<<y, x>> \in R)
  <2>1. IsWellFoundedOn(R, Nat)
    BY NatLessThanWellFounded, Zenon DEF OpToRel
  <2> HIDE DEF R
  <2> QED
    BY <2>1, WFMin
<1>2. ASSUME NEW y \in S PROVE x <= y
  <2>1. x \in Nat /\ y \in Nat /\ <<y, x>> \in Nat \X Nat
    OBVIOUS
  <2>2. ~(<<y, x>>[1] < <<y, x>>[2])
    BY <1>1, <2>1
  <2> QED
    BY <2>1, <2>2
<1> QED
  BY <1>2 DEF Min

-----------------------------------------------------------------------------
(* Timers.                                                                 *)

(***************************************************************************)
(* The strengthening: what is still owed to dx_timerOneShotSet is no more  *)
(* than what the timer has to go on the real clock, which is lag ahead of  *)
(* the loop's.                                                             *)
(***************************************************************************)
Shape == initialized \in [Timers -> BOOLEAN] /\ active \in [Timers -> BOOLEAN]

Times ==
  /\ lag \in Nat
  /\ left \in [Timers -> Nat] /\ rep \in [Timers -> Nat] /\ owed \in [Timers -> Nat]

Promised == \A t \in Timers : owed[t] = 0 \/ owed[t] + lag <= left[t]

TimerInv == Shape /\ Times /\ StoppedIsIdle /\ Promised

LEMMA TimersInit == Init => TimerInv
BY DEF Init, UvInit, TimerInv, Shape, Times, StoppedIsIdle, Promised

\* None of it changes.
LEMMA TimersSame ==
  TimerInv /\ UNCHANGED <<timerVars, initialized, owed>> => TimerInv'
BY DEF TimerInv, Shape, Times, StoppedIsIdle, Promised, timerVars

\* The loop's time is brought up to the clock.
LEMMA TimersUpdated ==
  TimerInv /\ uv_update_time /\ UNCHANGED <<active, rep, initialized, owed>> => TimerInv'
<1> SUFFICES ASSUME TimerInv, uv_update_time, UNCHANGED <<active, rep, initialized, owed>>
             PROVE  TimerInv'
  OBVIOUS
<1>1. \A t \in Timers : Elapsed[t] \in Nat /\ (owed[t] = 0 \/ owed[t] <= Elapsed[t])
  BY DEF TimerInv, Times, Promised, Elapsed
<1>2. left' \in [Timers -> Nat] /\ lag' = 0
  BY <1>1 DEF uv_update_time, Elapsed
<1>3. Promised'
  BY <1>1, <1>2 DEF TimerInv, Times, Promised, uv_update_time
<1> QED
  BY <1>2, <1>3 DEF TimerInv, Shape, Times, StoppedIsIdle

\* What can be started has times that can be converted.
LEMMA PeriodType ==
  ASSUME NEW t \in Timers, StartOK(t), ~initialized[t], Configured(t)
  PROVE  Ms(Period(t)) \in Nat /\ (Repeat[t] # None => Ms(Repeat[t]) \in Nat)
<1>1. Convertible(Period(t)) /\ ~Clash(t)
  BY DEF StartOK
<1>2. Period(t) \in Int
  BY EventLoopAssumption
     DEF EventLoopAssumption, Period, Configured, MaybeTimespec, Timespecs
<1>3. Repeat[t] # None => Period(t) = Repeat[t]
  BY <1>1 DEF Clash, Period
<1> QED
  BY <1>1, <1>2, <1>3, MsType

LEMMA TimersStarted ==
  ASSUME TimerInv, NEW ts, Started(ts), UNCHANGED lag
  PROVE  TimerInv'
<1> DEFINE new == {t \in ts : ~initialized[t] /\ StartOK(t)}
           inits == {t \in ts : ~initialized[t] /\ ~Clash(t)}
<1>1. new \subseteq inits
  BY DEF StartOK
<1>2. \A t \in Timers : t \in new /\ Configured(t) =>
        Ms(Period(t)) \in Nat /\ (Repeat[t] # None => Ms(Repeat[t]) \in Nat)
  BY PeriodType
<1>3. \A t \in Timers : Repeat[t] # None => Configured(t)
  BY DEF Configured
<1>4. /\ initialized' = [t \in Timers |-> initialized[t] \/ t \in new]
      /\ active' = [t \in Timers |-> IF t \in inits THEN t \in new /\ Configured(t) ELSE active[t]]
      /\ left' = [t \in Timers |-> IF t \in new /\ Configured(t) THEN Ms(Period(t)) ELSE left[t]]
      /\ rep' = [t \in Timers |->
                   IF t \in inits
                     THEN IF t \in new /\ Repeat[t] # None THEN Ms(Repeat[t]) ELSE 0
                     ELSE rep[t]]
      /\ owed' = [t \in Timers |-> IF t \in inits THEN 0 ELSE owed[t]]
  BY DEF Started
<1> HIDE DEF new, inits
<1>5. Shape'
  BY <1>4 DEF TimerInv, Shape
<1>6. Times'
  BY <1>2, <1>3, <1>4 DEF TimerInv, Times
<1>7. StoppedIsIdle'
  BY <1>4 DEF TimerInv, Shape, StoppedIsIdle
<1>8. Promised'
  BY <1>1, <1>4 DEF TimerInv, Times, Promised
<1> QED
  BY <1>5, <1>6, <1>7, <1>8 DEF TimerInv

LEMMA TimersStopped ==
  ASSUME TimerInv, NEW ts, Stopped(ts), UNCHANGED lag
  PROVE  TimerInv'
<1> USE DEF Stopped
<1>1. Shape' /\ Times'
  BY DEF TimerInv, Shape, Times
<1>2. StoppedIsIdle'
  BY DEF TimerInv, Shape, StoppedIsIdle
<1>3. Promised'
  BY DEF TimerInv, Times, Promised
<1> QED
  BY <1>1, <1>2, <1>3 DEF TimerInv

LEMMA TimerSetAgain ==
  ASSUME TimerInv, NEW t \in Timers, NEW ts \in Periods, dx_timerOneShotSet(t, ts)
  PROVE  TimerInv'
<1> USE DEF dx_timerOneShotSet
<1>1. Ms(ts) \in Nat
  BY MsType, EventLoopAssumption DEF EventLoopAssumption, Timespecs
<1>2. \A u \in Timers : Elapsed[u] \in Nat /\ (owed[u] = 0 \/ owed[u] <= Elapsed[u])
  BY DEF TimerInv, Times, Promised, Elapsed
<1>3. left' = [u \in Timers |-> IF u = t THEN Ms(ts) ELSE Elapsed[u]]
  BY DEF Elapsed
<1>4. Shape' /\ Times'
  BY <1>1, <1>2, <1>3 DEF TimerInv, Shape, Times
<1>5. StoppedIsIdle'
  BY DEF TimerInv, Shape, StoppedIsIdle
<1>6. Promised'
  <2>1. owed'[t] = Ms(ts) /\ left'[t] = Ms(ts) /\ lag' = 0
    BY <1>1, <1>3 DEF TimerInv, Times
  <2>2. ASSUME NEW u \in Timers, u # t PROVE owed'[u] = owed[u] /\ left'[u] = Elapsed[u]
    BY <1>3, <2>2 DEF TimerInv, Times
  <2>3. ASSUME NEW u \in Timers PROVE owed'[u] = 0 \/ owed'[u] + lag' <= left'[u]
    <3>1. CASE u = t
      BY <1>1, <2>1, <3>1
    <3>2. CASE u # t
      <4>1. Elapsed[u] \in Nat /\ owed[u] \in Nat /\ (owed[u] = 0 \/ owed[u] <= Elapsed[u])
        BY <1>2 DEF TimerInv, Times
      <4> QED
        BY <2>1, <2>2, <3>2, <4>1
    <3> QED
      BY <3>1, <3>2
  <2> QED
    BY <2>3 DEF Promised
<1> QED
  BY <1>4, <1>5, <1>6 DEF TimerInv

LEMMA TimerChanged ==
  ASSUME TimerInv, NEW t \in Timers, NEW ts \in Periods, dx_timerChange(t, ts)
  PROVE  TimerInv'
<1>1. Ms(ts) \in Nat
  BY MsType, EventLoopAssumption DEF EventLoopAssumption, Timespecs, dx_timerChange
<1> QED
  BY <1>1 DEF dx_timerChange, TimerInv, Shape, Times, StoppedIsIdle, Promised

\* A timer that fires was started, and owes nothing.
LEMMA FiresInTime ==
  ASSUME TimerInv, NEW t \in Timers, TimerFires(t)
  PROVE  initialized[t] /\ owed[t] = 0
BY DEF TimerInv, Shape, Times, StoppedIsIdle, Promised, TimerFires, Due

LEMMA TimerFired ==
  ASSUME TimerInv, NEW t \in Timers, TimerRuns(t)
  PROVE  TimerInv'
<1>1. initialized[t] /\ owed[t] = 0
  BY FiresInTime DEF TimerRuns
<1> QED
  BY <1>1 DEF TimerRuns, TimerFires, TimerInv, Shape, Times, StoppedIsIdle, Promised,
     LibraryVars, apiVars, ghostVars

LEMMA TimersTick == TimerInv /\ TimePasses => TimerInv'
BY DEF TimePasses, Tick, TimerInv, Shape, Times, StoppedIsIdle, Promised, LibraryVars, apiVars

LEMMA TimersCall ==
  ASSUME TimerInv, AppCall
  PROVE  TimerInv'
<1>1. ASSUME NEW t \in Timers, NEW on \in BOOLEAN, dx_timerStateSet(t, on) PROVE TimerInv'
  <2>1. CASE dx_timerStart(t)
    BY <2>1, TimersStarted DEF dx_timerStart
  <2>2. CASE dx_timerStop(t)
    BY <2>2, TimersStopped DEF dx_timerStop
  <2> QED
    BY <1>1, <2>1, <2>2 DEF dx_timerStateSet
<1>2. ASSUME NEW t \in Timers, NEW ts \in Periods,
             dx_timerOneShotSet(t, ts) \/ dx_timerChange(t, ts)
      PROVE  TimerInv'
  BY <1>2, TimerSetAgain, TimerChanged
<1>3. ASSUME NEW s \in TimerSets, dx_timerSetStart(s) \/ dx_timerSetStop(s) PROVE TimerInv'
  <2>1. CASE SetStartSucceeds(s)
    BY <2>1, TimersStarted DEF SetStartSucceeds
  <2>2. CASE SetStartFails(s)
    BY <2>2, TimersStopped DEF SetStartFails
  <2>3. CASE dx_timerSetStop(s)
    BY <2>3, TimersStopped DEF dx_timerSetStop
  <2> QED
    BY <1>3, <2>1, <2>2, <2>3 DEF dx_timerSetStart
<1>4. CASE \/ \E a \in Asyncs : dx_asyncInit(a)
           \/ \E c \in Codes : dx_terminate(c)
           \/ dx_eventLoopStop
  BY <1>4, TimersSame DEF dx_asyncInit, dx_terminate, dx_eventLoopStop, apiVars, ghostVars
<1>5. CASE dx_eventLoopRun
  BY <1>5, TimersSame, TimersUpdated
     DEF dx_eventLoopRun, RunBegin, LibraryVars, apiVars, ghostVars, timerVars
<1> QED
  BY <1>1, <1>2, <1>3, <1>4, <1>5 DEF AppCall

LEMMA TimersStep == TimerInv /\ [Next]_vars => TimerInv'
<1> SUFFICES ASSUME TimerInv, [Next]_vars PROVE TimerInv'
  OBVIOUS
<1> USE DEF LibraryVars, apiVars, ghostVars
<1>1. CASE LoopStep
  <2>1. ASSUME NEW t \in Timers, TimerRuns(t) PROVE TimerInv'
    BY <2>1, TimerFired
  <2>2. ASSUME NEW a \in Asyncs, HandlerRuns(a) PROVE TimerInv'
    BY <2>2, TimersSame DEF HandlerRuns, AsyncFires
  <2>3. CASE /\ NoTimerDue \/ PollStart \/ PollReturns \/ NoAsyncPending \/ RunEndsOrRepeats
             /\ UNCHANGED <<LibraryVars, ghostVars>>
    <3>1. CASE NoTimerDue \/ PollStart \/ NoAsyncPending
      BY <2>3, <3>1, TimersSame DEF NoTimerDue, PollStart, NoAsyncPending
    <3>2. CASE PollReturns
      BY <2>3, <3>2, TimersUpdated DEF PollReturns
    <3>3. CASE RunEndsOrRepeats
      BY <2>3, <3>3, TimersSame, TimersUpdated DEF RunEndsOrRepeats, timerVars
    <3> QED
      BY <2>3, <3>1, <3>2, <3>3
  <2> QED
    BY <1>1, <2>1, <2>2, <2>3 DEF LoopStep
<1>2. CASE AppReturns
  BY <1>2, TimersSame DEF AppReturns, CallbackReturns
<1>3. CASE AppCall
  BY <1>3, TimersCall
<1>4. CASE TimePasses
  BY <1>4, TimersTick
<1>5. ASSUME NEW w \in Workers, WorkerCall(w) \/ WorkerFinishes(w) PROVE TimerInv'
  BY <1>5, TimersSame DEF WorkerCall, WorkerFinishes, AsyncData, TerminateCode, AsyncSend,
     TerminateStop, uvVars
<1>6. CASE SignalCode \/ SignalStop
  BY <1>6, TimersSame DEF SignalCode, SignalStop, uvVars
<1>7. CASE UNCHANGED vars
  BY <1>7, TimersSame DEF vars, uvVars
<1> QED
  BY <1>1, <1>2, <1>3, <1>4, <1>5, <1>6, <1>7 DEF Next

LEMMA TimersAlways == Spec => []TimerInv
BY TimersInit, TimersStep, PTL DEF Spec

\* However dx_timerStart, dx_timerStop, dx_timerSetStart and dx_timerOneShotSet
\* follow each other, and whatever fails, a binding that counts as stopped has
\* no timer in libuv's heap.
THEOREM StoppedTimersIdle == Spec => []StoppedIsIdle
<1>1. TimerInv => StoppedIsIdle
  BY DEF TimerInv
<1> QED
  BY <1>1, TimersAlways, PTL

\* dx_timerOneShotSet brings the loop's time up to the clock first, so the timer
\* never fires early, however long the callback that set it had been running.
THEOREM OneShotsInTime == Spec => OneShotNotEarly
<1>1. TimerInv /\ [Next]_vars => [\A t \in Timers : TimerFires(t) => owed[t] = 0]_vars
  BY FiresInTime
<1> QED
  BY <1>1, TimersAlways, PTL DEF Spec, OneShotNotEarly

-----------------------------------------------------------------------------
(* Sets of timers.                                                         *)

LEMMA Failure ==
  ASSUME NEW s \in TimerSets
  PROVE  LET bad == {i \in DOMAIN s : s[i] = None \/ ~StartOK(s[i])}
         IN /\ s \in Seq(Timers \cup {None})
            /\ FirstFailure(s) = 0 => bad = {}
            /\ FirstFailure(s) > 0 =>
                 FirstFailure(s) \in bad /\ \A i \in bad : FirstFailure(s) <= i
<1> DEFINE bad == {i \in DOMAIN s : s[i] = None \/ ~StartOK(s[i])}
<1>1. s \in Seq(Timers \cup {None}) /\ bad \subseteq 1..Len(s)
  BY EventLoopAssumption DEF EventLoopAssumption
<1>2. FirstFailure(s) = IF bad = {} THEN 0 ELSE Min(bad)
  BY DEF FirstFailure
<1> HIDE DEF bad
<1>3. bad # {} => Min(bad) \in bad /\ \A i \in bad : Min(bad) <= i
  <2>1. bad \subseteq Nat
    BY <1>1
  <2> QED
    BY <2>1, MinOf
<1>4. bad # {} => FirstFailure(s) > 0
  <2>1. \A i \in bad : i > 0
    BY <1>1
  <2> QED
    BY <1>2, <1>3, <2>1
<1> QED
  BY <1>1, <1>2, <1>3, <1>4 DEF bad

\* dx_timerSetStart leaves every timer of its set started, or starts none of them
\* and stops those before the one that failed; a timer after that one runs if it ran
\* before.  The same timer may be in the set twice.
THEOREM SetsStartedOrNot == Spec => AllOrNone
<1> DEFINE Whole(s) ==
             \/ \A i \in DOMAIN s : s[i] # None /\ initialized'[s[i]]
             \/ /\ \A t \in Elements(s, Len(s)) :
                     (initialized'[t] => initialized[t]) /\ (active'[t] => active[t])
                /\ \E k \in DOMAIN s :
                     /\ s[k] = None \/ ~StartOK(s[k])
                     /\ \A t \in Elements(s, k - 1) : ~initialized'[t]
<1>1. ASSUME TimerInv, NEW s \in TimerSets, dx_timerSetStart(s)
      PROVE  Whole(s)
  <2> DEFINE bad == {i \in DOMAIN s : s[i] = None \/ ~StartOK(s[i])}
             k == FirstFailure(s)
  <2>1. /\ s \in Seq(Timers \cup {None})
        /\ k = 0 => bad = {}
        /\ k > 0 => k \in bad /\ \A i \in bad : k <= i
    BY Failure
  <2>2. CASE SetStartSucceeds(s)
    <3>1. bad = {} /\ Started(Elements(s, Len(s)))
      BY <2>1, <2>2 DEF SetStartSucceeds
    <3>2. ASSUME NEW i \in DOMAIN s
          PROVE  s[i] # None /\ initialized'[s[i]]
      <4>1. s[i] # None /\ StartOK(s[i])
        BY <3>1
      <4>2. s[i] \in Elements(s, Len(s)) /\ s[i] \in Timers
        BY <2>1, <4>1 DEF Elements
      <4> QED
        BY <3>1, <4>1, <4>2 DEF Started
    <3> QED
      BY <3>2
  <2>3. CASE SetStartFails(s)
    <3>1. k > 0 /\ Stopped(Elements(s, k - 1))
      BY <2>3 DEF SetStartFails
    <3>2. k \in DOMAIN s /\ (s[k] = None \/ ~StartOK(s[k]))
      BY <2>1, <3>1
    <3>3. \A n \in 0..Len(s) : Elements(s, n) \subseteq Timers
      BY <2>1 DEF Elements
    <3>4. \A t \in Timers : /\ initialized'[t] => initialized[t] /\ t \notin Elements(s, k - 1)
                            /\ active'[t] => active[t]
      BY <3>1 DEF Stopped
    <3>5. \A t \in Elements(s, Len(s)) :
            (initialized'[t] => initialized[t]) /\ (active'[t] => active[t])
      BY <2>1, <3>3, <3>4
    <3>6. \A t \in Elements(s, k - 1) : ~initialized'[t]
      <4>1. Elements(s, k - 1) \subseteq Timers
        BY <2>1, <3>2, <3>3
      <4> QED
        BY <3>4, <4>1
    <3> QED
      BY <3>2, <3>5, <3>6
  <2> QED
    BY <1>1, <2>2, <2>3 DEF dx_timerSetStart
<1>2. TimerInv /\ [Next]_vars => [\A s \in TimerSets : dx_timerSetStart(s) => Whole(s)]_vars
  <2> HIDE DEF Whole
  <2> QED
    BY <1>1
<1> QED
  BY <1>2, TimersAlways, PTL DEF Spec, AllOrNone

-----------------------------------------------------------------------------
(* Termination.                                                            *)

\* Whoever is about to stop the loop has left a code that is not 0.
CodeInv ==
  /\ wpc \in [Workers -> {"idle", "send", "stop"}]
  /\ (\E w \in Workers : wpc[w] = "stop") \/ sigpc = "stop" => exit_code # 0

LEMMA ClampKeeps ==
  ASSUME NEW code, code # 0
  PROVE  Clamp(code) # 0
BY DEF Clamp

LEMMA CodeSame ==
  CodeInv /\ UNCHANGED <<wpc, sigpc>> /\ (exit_code' = exit_code \/ exit_code' # 0) => CodeInv'
BY DEF CodeInv

LEMMA CodeStep ==
  ASSUME 0 \notin Codes, CodeInv, [Next]_vars
  PROVE  CodeInv'
<1> USE DEF LibraryVars, apiVars, otherVars
<1>1. CASE LoopStep
  BY <1>1, CodeSame DEF LoopStep, TimerRuns, HandlerRuns
<1>2. CASE AppReturns \/ TimePasses
  BY <1>2, CodeSame DEF AppReturns, TimePasses
<1>3. CASE AppCall
  <2>1. ASSUME NEW t \in Timers, NEW on \in BOOLEAN, dx_timerStateSet(t, on) PROVE CodeInv'
    BY <2>1, CodeSame DEF dx_timerStateSet, dx_timerStart, dx_timerStop, TimerSame, CreateTimerFailed
  <2>2. ASSUME NEW t \in Timers, NEW ts \in Periods,
               dx_timerOneShotSet(t, ts) \/ dx_timerChange(t, ts)
        PROVE  CodeInv'
    BY <2>2, CodeSame DEF dx_timerOneShotSet, dx_timerChange, TimerSame
  <2>3. ASSUME NEW s \in TimerSets, dx_timerSetStart(s) \/ dx_timerSetStop(s) PROVE CodeInv'
    BY <2>3, CodeSame DEF dx_timerSetStart, SetStartSucceeds, SetStartFails, dx_timerSetStop,
       TimerSame, CreateTimerFailed
  <2>4. ASSUME NEW c \in Codes, dx_terminate(c) PROVE CodeInv'
    BY <2>4, CodeSame, ClampKeeps DEF dx_terminate
  <2>5. CASE (\E a \in Asyncs : dx_asyncInit(a)) \/ dx_eventLoopRun \/ dx_eventLoopStop
    BY <2>5, CodeSame DEF dx_asyncInit, dx_eventLoopRun, dx_eventLoopStop, AsyncInitFailed
  <2> QED
    BY <1>3, <2>1, <2>2, <2>3, <2>4, <2>5 DEF AppCall
<1>4. ASSUME NEW w \in Workers, WorkerCall(w) \/ WorkerFinishes(w) PROVE CodeInv'
  <2>1. ASSUME NEW c \in Codes, TerminateCode(w, c) PROVE CodeInv'
    BY <2>1, ClampKeeps DEF CodeInv, TerminateCode
  <2>2. CASE (\E a \in Asyncs : AsyncData(w, a)) \/ WorkerFinishes(w)
    BY <2>2 DEF CodeInv, AsyncData, WorkerFinishes, AsyncSend, TerminateStop
  <2> QED
    BY <1>4, <2>1, <2>2 DEF WorkerCall
<1>5. CASE SignalCode
  BY <1>5 DEF CodeInv, SignalCode, SigTerm
<1>6. CASE SignalStop
  BY <1>6 DEF CodeInv, SignalStop
<1>7. CASE UNCHANGED vars
  BY <1>7, CodeSame DEF vars
<1> QED
  BY <1>1, <1>2, <1>3, <1>4, <1>5, <1>6, <1>7 DEF Next

\* Whenever dx_terminate on another thread, or the signal handler, stops the
\* loop, dx_getTerminationExitCode has a code other than 0, whatever other
\* threads terminated with in between, as long as nobody terminates with 0.
THEOREM CodesBeforeStops ==
  ASSUME 0 \notin Codes
  PROVE  Spec => CodeBeforeStop
<1>1. Init => CodeInv
  BY DEF Init, CodeInv
<1>2. CodeInv /\ [Next]_vars => CodeInv'
  BY CodeStep
<1>3. CodeInv /\ [Next]_vars =>
        [(\E w \in Workers : TerminateStop(w)) \/ SignalStop => exit_code # 0]_vars
  BY DEF CodeInv, TerminateStop, SignalStop
<1> QED
  BY <1>1, <1>2, <1>3, PTL DEF Spec, CodeBeforeStop

-----------------------------------------------------------------------------
(* Types.                                                                  *)

\* The model's bound on times is one for the bindings' own, and for those given
\* to dx_timerOneShotSet and dx_timerChange.
TimesFit ==
  /\ \A t \in Timers : Configured(t) /\ Convertible(Period(t)) => Ms(Period(t)) <= MaxLag
  /\ \A ts \in Periods : Convertible(ts) => Ms(ts) <= MaxLag

\* What is about to be sent is an async of the loop.
Sending == \A w \in Workers : wpc[w] = "send" => arg[w] \in asyncs

Types == TypeOK /\ Sending

LEMMA ElapsedType ==
  UvTypeOK => Elapsed \in [Timers -> 0..MaxLag]
<1> SUFFICES ASSUME UvTypeOK, NEW t \in Timers
             PROVE  (IF left[t] > lag THEN left[t] - lag ELSE 0) \in 0..MaxLag
  BY DEF Elapsed
<1> QED
  BY LoopAssumption DEF LoopAssumption, UvTypeOK

LEMMA TimeoutType ==
  UvTypeOK => NextTimeout \in {Never} \cup (0..MaxLag)
<1> SUFFICES ASSUME UvTypeOK PROVE NextTimeout \in {Never} \cup (0..MaxLag)
  OBVIOUS
<1> DEFINE S == {left[t] : t \in {u \in Timers : active[u]}}
<1>1. S \subseteq 0..MaxLag /\ 0 \in 0..MaxLag
  BY LoopAssumption DEF LoopAssumption, UvTypeOK
<1>2. CASE ~(\A t \in Timers : ~active[t])
  <2>1. S # {}
    BY <1>2
  <2> HIDE DEF S
  <2>2. Min(S) \in 0..MaxLag
    <3>1. S \subseteq Nat
      BY <1>1
    <3> QED
      BY <1>1, <2>1, <3>1, MinOf
  <2> QED
    BY <1>1, <1>2, <2>2 DEF NextTimeout, S
<1>3. CASE \A t \in Timers : ~active[t]
  BY <1>1, <1>3 DEF NextTimeout
<1> QED
  BY <1>2, <1>3

\* The calls on timers leave the rest of the state alone.
LEMMA TimerTypes ==
  ASSUME Types, TimerSame, exit_code' \in 0..255, stop_flag' \in BOOLEAN, lag' \in 0..MaxLag,
         active' \in [Timers -> BOOLEAN], initialized' \in [Timers -> BOOLEAN],
         left' \in [Timers -> 0..MaxLag], rep' \in [Timers -> 0..MaxLag],
         owed' \in [Timers -> 0..MaxLag]
  PROVE  Types'
BY DEF Types, TypeOK, UvTypeOK, Sending, TimerSame, asyncVars, runVars, otherVars

LEMMA StartedTypes ==
  ASSUME TimesFit, Types, NEW ts, Started(ts)
  PROVE  /\ active' \in [Timers -> BOOLEAN] /\ initialized' \in [Timers -> BOOLEAN]
         /\ left' \in [Timers -> 0..MaxLag] /\ rep' \in [Timers -> 0..MaxLag]
         /\ owed' \in [Timers -> 0..MaxLag]
<1> DEFINE new == {t \in ts : ~initialized[t] /\ StartOK(t)}
           inits == {t \in ts : ~initialized[t] /\ ~Clash(t)}
<1>1. ASSUME NEW t \in Timers, t \in new, Configured(t)
      PROVE  Ms(Period(t)) \in 0..MaxLag /\ (Repeat[t] # None => Ms(Repeat[t]) \in 0..MaxLag)
  <2>1. StartOK(t) /\ ~initialized[t] /\ ~Clash(t) /\ Convertible(Period(t))
    BY <1>1 DEF StartOK
  <2>2. Ms(Period(t)) \in Nat
    BY <1>1, <2>1, PeriodType
  <2>3. Ms(Period(t)) \in 0..MaxLag
    BY <1>1, <2>1, <2>2, LoopAssumption DEF TimesFit, LoopAssumption
  <2>4. Repeat[t] # None => Repeat[t] = Period(t)
    BY <2>1 DEF Clash, Period
  <2> QED
    BY <2>3, <2>4
<1>2. \A t \in Timers : Repeat[t] # None => Configured(t)
  BY DEF Configured
<1>3. 0 \in 0..MaxLag
  BY LoopAssumption DEF LoopAssumption
<1>4. /\ initialized' = [t \in Timers |-> initialized[t] \/ t \in new]
      /\ active' = [t \in Timers |-> IF t \in inits THEN t \in new /\ Configured(t) ELSE active[t]]
      /\ left' = [t \in Timers |-> IF t \in new /\ Configured(t) THEN Ms(Period(t)) ELSE left[t]]
      /\ rep' = [t \in Timers |->
                   IF t \in inits
                     THEN IF t \in new /\ Repeat[t] # None THEN Ms(Repeat[t]) ELSE 0
                     ELSE rep[t]]
      /\ owed' = [t \in Timers |-> IF t \in inits THEN 0 ELSE owed[t]]
  BY DEF Started
<1> HIDE DEF new, inits
<1> QED
  BY <1>1, <1>2, <1>3, <1>4 DEF Types, TypeOK, UvTypeOK

LEMMA StoppedTypes ==
  ASSUME Types, NEW ts, Stopped(ts)
  PROVE  /\ active' \in [Timers -> BOOLEAN] /\ initialized' \in [Timers -> BOOLEAN]
         /\ left' \in [Timers -> 0..MaxLag] /\ rep' \in [Timers -> 0..MaxLag]
         /\ owed' \in [Timers -> 0..MaxLag]
<1>1. 0 \in 0..MaxLag
  BY LoopAssumption DEF LoopAssumption
<1> QED
  BY <1>1 DEF Stopped, Types, TypeOK, UvTypeOK

LEMMA PeriodsFit ==
  ASSUME TimesFit, NEW ts \in Periods, Convertible(ts)
  PROVE  Ms(ts) \in 0..MaxLag
<1>1. Ms(ts) \in Nat /\ Ms(ts) <= MaxLag
  BY MsType, EventLoopAssumption DEF EventLoopAssumption, Timespecs, TimesFit
<1> QED
  BY <1>1, LoopAssumption DEF LoopAssumption

LEMMA CallTypes ==
  ASSUME TimesFit, Types, AppCall
  PROVE  Types'
<1>0. 0 \in 0..MaxLag /\ CreateTimerFailed \in 0..255 /\ exit_code \in 0..255
      /\ stop_flag \in BOOLEAN /\ lag \in 0..MaxLag /\ UvTypeOK
  BY LoopAssumption DEF LoopAssumption, CreateTimerFailed, Types, TypeOK, UvTypeOK
<1>1. ASSUME NEW t \in Timers, NEW on \in BOOLEAN, dx_timerStateSet(t, on) PROVE Types'
  <2>1. CASE dx_timerStart(t)
    BY <1>0, <2>1, StartedTypes, TimerTypes DEF dx_timerStart
  <2>2. CASE dx_timerStop(t)
    BY <1>0, <2>2, StoppedTypes, TimerTypes DEF dx_timerStop
  <2> QED
    BY <1>1, <2>1, <2>2 DEF dx_timerStateSet
<1>2. ASSUME NEW t \in Timers, NEW ts \in Periods, dx_timerOneShotSet(t, ts) PROVE Types'
  <2>1. Ms(ts) \in 0..MaxLag
    BY <1>2, PeriodsFit DEF dx_timerOneShotSet
  <2>2. Elapsed \in [Timers -> 0..MaxLag]
    BY <1>0, ElapsedType
  <2>3. active' \in [Timers -> BOOLEAN] /\ rep' \in [Timers -> 0..MaxLag]
        /\ owed' \in [Timers -> 0..MaxLag] /\ left' \in [Timers -> 0..MaxLag]
    BY <1>0, <1>2, <2>1, <2>2 DEF dx_timerOneShotSet, Types, TypeOK, UvTypeOK
  <2> QED
    BY <1>0, <1>2, <2>3, TimerTypes DEF dx_timerOneShotSet, Types, TypeOK
<1>3. ASSUME NEW t \in Timers, NEW ts \in Periods, dx_timerChange(t, ts) PROVE Types'
  <2>1. Ms(ts) \in 0..MaxLag
    BY <1>3, PeriodsFit DEF dx_timerChange
  <2> QED
    BY <1>0, <1>3, <2>1, TimerTypes DEF dx_timerChange, Types, TypeOK, UvTypeOK
<1>4. ASSUME NEW s \in TimerSets, dx_timerSetStart(s) \/ dx_timerSetStop(s) PROVE Types'
  <2>1. CASE SetStartSucceeds(s)
    BY <1>0, <2>1, StartedTypes, TimerTypes DEF SetStartSucceeds
  <2>2. CASE SetStartFails(s)
    BY <1>0, <2>2, StoppedTypes, TimerTypes DEF SetStartFails
  <2>3. CASE dx_timerSetStop(s)
    BY <1>0, <2>3, StoppedTypes, TimerTypes DEF dx_timerSetStop
  <2> QED
    BY <1>4, <2>1, <2>2, <2>3 DEF dx_timerSetStart
<1>5. ASSUME NEW a \in Asyncs, dx_asyncInit(a) PROVE Types'
  <2> USE DEF dx_asyncInit, AsyncInitFailed, Types, TypeOK, UvTypeOK, Sending, timerVars, runVars,
          otherVars, ghostVars
  <2>1. UvTypeOK'
    BY <1>5
  <2>2. exit_code' \in 0..255 /\ data' \in [Asyncs -> 0..MaxSends]
        /\ initialized' \in [Timers -> BOOLEAN]
    BY <1>5
  <2>3. /\ UNCHANGED <<wpc, arg, sigpc, sends, seen, owed>>
        /\ asyncs \subseteq asyncs'
    BY <1>5
  <2> QED
    BY <2>1, <2>2, <2>3
<1>6. ASSUME NEW c \in Codes, dx_terminate(c) PROVE Types'
  <2>1. Clamp(c) \in 0..255
    BY DEF Clamp
  <2> QED
    BY <1>6, <2>1 DEF dx_terminate, Types, TypeOK, UvTypeOK, Sending, timerVars, asyncVars,
       runVars, otherVars, ghostVars
<1>7. CASE dx_eventLoopStop
  BY <1>7 DEF dx_eventLoopStop, Types, TypeOK, UvTypeOK, Sending, timerVars, asyncVars,
     runVars, apiVars, otherVars, ghostVars
<1>8. CASE dx_eventLoopRun
  BY <1>0, <1>8, ElapsedType DEF dx_eventLoopRun, RunBegin, uv_update_time, Types, TypeOK,
     UvTypeOK, Sending, asyncVars, LibraryVars, apiVars, otherVars, ghostVars
<1> QED
  BY <1>1, <1>2, <1>3, <1>4, <1>5, <1>6, <1>7, <1>8 DEF AppCall

LEMMA LoopTypes ==
  ASSUME Types, LoopStep \/ AppReturns \/ TimePasses
  PROVE  Types'
<1> USE DEF Types, TypeOK, UvTypeOK, Sending, timerVars, asyncVars, LibraryVars, apiVars,
        otherVars, ghostVars
<1>0. 0 \in 0..MaxLag /\ Elapsed \in [Timers -> 0..MaxLag]
  BY LoopAssumption, ElapsedType DEF LoopAssumption
<1>1. ASSUME NEW t \in Timers, TimerRuns(t) PROVE Types'
  BY <1>1 DEF TimerRuns, TimerFires
<1>2. ASSUME NEW a \in Asyncs, HandlerRuns(a) PROVE Types'
  BY <1>2 DEF HandlerRuns, AsyncFires
<1>3. CASE (NoTimerDue \/ NoAsyncPending) /\ UNCHANGED <<LibraryVars, ghostVars>>
  BY <1>3 DEF NoTimerDue, NoAsyncPending
<1>4. CASE PollStart /\ UNCHANGED <<LibraryVars, ghostVars>>
  BY <1>4, TimeoutType DEF PollStart
<1>5. CASE PollReturns /\ UNCHANGED <<LibraryVars, ghostVars>>
  BY <1>0, <1>5 DEF PollReturns, uv_update_time
<1>6. CASE RunEndsOrRepeats /\ UNCHANGED <<LibraryVars, ghostVars>>
  BY <1>0, <1>6 DEF RunEndsOrRepeats, uv_update_time
<1>7. CASE AppReturns
  BY <1>7 DEF AppReturns, CallbackReturns
<1>8. CASE TimePasses
  BY <1>0, <1>8, LoopAssumption DEF LoopAssumption, TimePasses, Tick, runVars
<1> QED
  BY <1>1, <1>2, <1>3, <1>4, <1>5, <1>6, <1>7, <1>8 DEF LoopStep

LEMMA OtherTypes ==
  ASSUME Types,
         \/ \E w \in Workers : WorkerCall(w) \/ WorkerFinishes(w)
         \/ SignalCode \/ SignalStop
  PROVE  Types'
<1> USE DEF Types, TypeOK, UvTypeOK, Sending, uvVars, timerVars, asyncVars, runVars, apiVars,
        ghostVars
<1>1. ASSUME NEW w \in Workers, NEW a \in Asyncs, AsyncData(w, a) PROVE Types'
  BY <1>1, EventLoopAssumption DEF EventLoopAssumption, AsyncData
<1>2. ASSUME NEW w \in Workers, NEW c \in Codes, TerminateCode(w, c) PROVE Types'
  <2>1. Clamp(c) \in 0..255
    BY DEF Clamp
  <2> QED
    BY <1>2, <2>1 DEF TerminateCode
<1>3. ASSUME NEW w \in Workers, AsyncSend(w) PROVE Types'
  BY <1>3 DEF AsyncSend
<1>4. ASSUME NEW w \in Workers, TerminateStop(w) PROVE Types'
  BY <1>4 DEF TerminateStop
<1>5. CASE SignalCode
  BY <1>5 DEF SignalCode, SigTerm
<1>6. CASE SignalStop
  BY <1>6 DEF SignalStop
<1> QED
  BY <1>1, <1>2, <1>3, <1>4, <1>5, <1>6 DEF WorkerCall, WorkerFinishes

\* Every variable of the loop, the bindings, the other threads and the signal
\* handler keeps its type: an exit code is one of a process, a wake-up is only
\* pending for an async that was initialised, and no time exceeds the timers'.
THEOREM EventLoopTypes ==
  ASSUME TimesFit
  PROVE  Spec => []TypeOK
<1>1. Init => Types
  <2>1. 0 \in 0..MaxLag /\ 0 \in 0..MaxSends
    BY LoopAssumption, EventLoopAssumption DEF LoopAssumption, EventLoopAssumption
  <2>2. ASSUME Init PROVE UvTypeOK
    <3>1. lag = 0 /\ timeout = 0 /\ asyncs = {} /\ pending = {} /\ stop_flag = FALSE
          /\ loop = "out" /\ running = NoHandle
      BY <2>2 DEF Init, UvInit
    <3>2. active \in [Timers -> BOOLEAN] /\ left \in [Timers -> 0..MaxLag]
          /\ rep \in [Timers -> 0..MaxLag]
      BY <2>1, <2>2 DEF Init, UvInit
    <3> QED
      BY <2>1, <3>1, <3>2 DEF UvTypeOK
  <2>3. Init => Sending
    BY DEF Init, Sending
  <2>4. Init => TypeOK
    BY <2>1, <2>2 DEF Init, TypeOK
  <2> QED
    BY <2>3, <2>4 DEF Types
<1>2. Types /\ [Next]_vars => Types'
  <2>1. Types /\ UNCHANGED vars => Types'
    BY DEF vars, uvVars, timerVars, asyncVars, runVars, apiVars, otherVars, ghostVars,
       Types, TypeOK, UvTypeOK, Sending
  <2> QED
    BY <2>1, CallTypes, LoopTypes, OtherTypes DEF Next
<1>3. Types => TypeOK
  BY DEF Types
<1> QED
  BY <1>1, <1>2, <1>3, PTL DEF Spec
=============================================================================

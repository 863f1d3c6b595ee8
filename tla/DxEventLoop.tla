---------------------------- MODULE DxEventLoop ----------------------------
(***************************************************************************)
(* dx_timer.c, dx_async.c and dx_terminate.c over one libuv loop.  The     *)
(* application's code runs on the loop's thread, before uv_run and in the  *)
(* callbacks, and makes any of the calls in any order; other threads call  *)
(* dx_asyncSend and dx_terminate; a signal can come at any time.           *)
(***************************************************************************)
EXTENDS UvLoop, Sequences

CONSTANTS
  TicksPerMs,     \* ticks of a timespec to the millisecond
  Delay, Repeat,  \* the bindings' timespecs, or None
  None,
  Periods,        \* timespecs passed to dx_timerOneShotSet and dx_timerChange
  TimerSets,      \* arrays passed to dx_timerSetStart and dx_timerSetStop
  Workers,        \* other threads
  Codes,          \* exit codes passed to dx_terminate
  Signals,        \* TRUE: a termination signal can come
  MaxSends        \* bound: calls of dx_asyncSend

Timespecs == Int
MaybeTimespec == Timespecs \cup {None}

ASSUME EventLoopAssumption ==
  /\ TicksPerMs \in Nat \ {0}
  /\ Delay \in [Timers -> MaybeTimespec] /\ Repeat \in [Timers -> MaybeTimespec]
  /\ None \notin Int
  /\ Periods \subseteq Timespecs
  /\ TimerSets \subseteq Seq(Timers \cup {None})
  /\ Codes \subseteq Int
  /\ Signals \in BOOLEAN
  /\ MaxSends \in Nat

SigTerm == 254
CreateTimerFailed == 206
AsyncInitFailed == 204

VARIABLES
  initialized,  \* DX_TIMER_BINDING
  exit_code,    \* _exitCode
  data,         \* DX_ASYNC_BINDING: async.data, as the number of the send
  wpc, arg,     \* the other threads: where they are, and with which argument
  sigpc,        \* the signal handler
  sends,        \* sends so far
  seen,         \* the newest data a handler has run with
  owed          \* dx_timerOneShotSet: time that must still pass before it fires

apiVars  == <<initialized, exit_code, data>>
otherVars == <<wpc, arg, sigpc, sends>>
ghostVars == <<seen, owed>>
vars == <<uvVars, apiVars, otherVars, ghostVars>>

TypeOK ==
  /\ UvTypeOK
  /\ initialized \in [Timers -> BOOLEAN]
  /\ exit_code \in 0..255
  /\ data \in [Asyncs -> 0..MaxSends]
  /\ wpc \in [Workers -> {"idle", "send", "stop"}]
  /\ arg \in [Workers -> Asyncs \cup {None}]
  /\ sigpc \in {"ready", "stop", "done"}
  /\ sends \in 0..MaxSends
  /\ seen \in [Asyncs -> 0..MaxSends]
  /\ owed \in [Timers -> 0..MaxLag]

Init ==
  /\ UvInit
  /\ initialized = [t \in Timers |-> FALSE]
  /\ exit_code = 0
  /\ data = [a \in Asyncs |-> 0]
  /\ wpc = [w \in Workers |-> "idle"]
  /\ arg = [w \in Workers |-> None]
  /\ sigpc = "ready"
  /\ sends = 0
  /\ seen = [a \in Asyncs |-> 0]
  /\ owed = [t \in Timers |-> 0]

\* The application's code has the loop's thread.
AppRuns == loop \in {"out", "callback", "handler"}

-----------------------------------------------------------------------------
(* dx_timer.c                                                              *)

\* timespec_to_ms, here only for what the timers tell apart: a negative time
\* is refused, and what is less than a millisecond is none.
Convertible(ts) == ts >= 0
Ms(ts) == ts \div TicksPerMs

\* dx_timerStart(t) succeeds: already started, or a delay or a repeat (not
\* both) that can be converted, or neither.
Configured(t) == Delay[t] # None \/ Repeat[t] # None
Clash(t) == Delay[t] # None /\ Repeat[t] # None
Period(t) == IF Delay[t] # None THEN Delay[t] ELSE Repeat[t]
StartOK(t) == initialized[t] \/ (~Clash(t) /\ (Configured(t) => Convertible(Period(t))))

\* What dx_timerStart leaves when it is called on each of the timers in ts.
Started(ts) ==
  LET new == {t \in ts : ~initialized[t] /\ StartOK(t)}
      inits == {t \in ts : ~initialized[t] /\ ~Clash(t)}
  IN /\ initialized' = [t \in Timers |-> initialized[t] \/ t \in new]
     /\ active' = [t \in Timers |-> IF t \in inits THEN t \in new /\ Configured(t) ELSE active[t]]
     /\ left' = [t \in Timers |-> IF t \in new /\ Configured(t) THEN Ms(Period(t)) ELSE left[t]]
     /\ rep' = [t \in Timers |->
                  IF t \in inits
                    THEN IF t \in new /\ Repeat[t] # None THEN Ms(Repeat[t]) ELSE 0
                    ELSE rep[t]]
     /\ owed' = [t \in Timers |-> IF t \in inits THEN 0 ELSE owed[t]]

\* What dx_timerStop leaves when it is called on each of the timers in ts.  The
\* times of a stopped timer mean nothing until it is initialised again.
Stopped(ts) ==
  LET stop == {t \in ts : initialized[t]}
      Without(times) == [t \in Timers |-> IF t \in stop THEN 0 ELSE times[t]]
  IN /\ initialized' = [t \in Timers |-> initialized[t] /\ t \notin stop]
     /\ active' = [t \in Timers |-> active[t] /\ t \notin stop]
     /\ left' = Without(left) /\ rep' = Without(rep) /\ owed' = Without(owed)

TimerSame == UNCHANGED <<asyncVars, runVars, data, otherVars, seen>>

dx_timerStart(t) ==
  /\ AppRuns
  /\ Started({t})
  /\ IF Clash(t) /\ ~initialized[t]
       THEN exit_code' = CreateTimerFailed /\ stop_flag' = TRUE
       ELSE UNCHANGED <<exit_code, stop_flag>>
  /\ UNCHANGED lag
  /\ TimerSame

\* Slip: the binding forgets the timer, the loop does not.
StopForgets(t) ==
  /\ AppRuns
  /\ initialized' = [initialized EXCEPT ![t] = FALSE]
  /\ UNCHANGED <<timerVars, owed, stop_flag, exit_code>>
  /\ TimerSame

dx_timerStop(t) ==
  /\ AppRuns
  /\ Stopped({t})
  /\ UNCHANGED <<lag, stop_flag, exit_code>>
  /\ TimerSame

\* The one or the other; either can be called by itself too.
dx_timerStateSet(t, state) == IF state THEN dx_timerStart(t) ELSE dx_timerStop(t)

\* The index at which dx_timerSetStart fails, or 0.
FirstFailure(s) ==
  LET bad == {i \in DOMAIN s : s[i] = None \/ ~StartOK(s[i])}
  IN IF bad = {} THEN 0 ELSE Min(bad)

Elements(s, n) == {s[i] : i \in 1..n} \ {None}

SetStartSucceeds(s) ==
  /\ AppRuns
  /\ FirstFailure(s) = 0
  /\ Started(Elements(s, Len(s)))
  /\ UNCHANGED <<lag, stop_flag, exit_code>>
  /\ TimerSame

\* Slip: the timer before the one that fails is left running.
RollBackShort(s) ==
  /\ AppRuns
  /\ LET k == FirstFailure(s) IN
       /\ k > 0
       /\ initialized' = [t \in Timers |->
            IF k > 1 /\ t = s[k - 1] THEN TRUE ELSE initialized[t] /\ t \notin Elements(s, k - 1)]
       /\ active' = [t \in Timers |->
            IF k > 1 /\ t = s[k - 1] THEN active[t] ELSE active[t] /\ t \notin Elements(s, k - 1)]
  /\ UNCHANGED <<lag, left, rep, owed, stop_flag, exit_code>>
  /\ TimerSame

\* The timers before the one that fails are stopped, those that were running
\* before the call included; the one that fails may end the application.
SetStartFails(s) ==
  /\ AppRuns
  /\ LET k == FirstFailure(s) IN
       /\ k > 0
       /\ Stopped(Elements(s, k - 1))
       /\ IF s[k] # None /\ Clash(s[k])
            THEN exit_code' = CreateTimerFailed /\ stop_flag' = TRUE
            ELSE UNCHANGED <<exit_code, stop_flag>>
  /\ UNCHANGED lag
  /\ TimerSame

dx_timerSetStart(s) == SetStartSucceeds(s) \/ SetStartFails(s)

dx_timerSetStop(s) ==
  /\ AppRuns
  /\ Stopped(Elements(s, Len(s)))
  /\ UNCHANGED <<lag, stop_flag, exit_code>>
  /\ TimerSame

\* Slip: the loop's cached time is taken for the time.
OneShotFromCachedTime(t, ts) ==
  /\ AppRuns
  /\ initialized[t] /\ Convertible(ts)
  /\ left' = [left EXCEPT ![t] = Ms(ts)]
  /\ active' = [active EXCEPT ![t] = TRUE]
  /\ rep' = [rep EXCEPT ![t] = 0]
  /\ owed' = [owed EXCEPT ![t] = Ms(ts)]
  /\ UNCHANGED <<lag, initialized, stop_flag, exit_code>>
  /\ TimerSame

\* A timer that was started gets one more shot, counted from now.
dx_timerOneShotSet(t, ts) ==
  /\ AppRuns
  /\ initialized[t] /\ Convertible(ts)
  /\ lag' = 0
  /\ left' = [Elapsed EXCEPT ![t] = Ms(ts)]
  /\ active' = [active EXCEPT ![t] = TRUE]
  /\ rep' = [rep EXCEPT ![t] = 0]
  /\ owed' = [owed EXCEPT ![t] = Ms(ts)]
  /\ UNCHANGED <<initialized, stop_flag, exit_code>>
  /\ TimerSame

\* The new period counts from the next time the timer fires; a timer that is
\* not waiting is not started.
dx_timerChange(t, ts) ==
  /\ AppRuns
  /\ initialized[t] /\ Convertible(ts)
  /\ rep' = [rep EXCEPT ![t] = Ms(ts)]
  /\ UNCHANGED <<lag, active, left, owed, initialized, stop_flag, exit_code>>
  /\ TimerSame

-----------------------------------------------------------------------------
(* dx_async.c                                                              *)

\* dx_asyncSetInit initialises the bindings one by one; when uv_async_init
\* fails, that ends the application.
dx_asyncInit(a) ==
  /\ AppRuns
  /\ a \notin asyncs
  /\ \/ asyncs' = asyncs \cup {a} /\ UNCHANGED <<stop_flag, exit_code>>
     \/ exit_code' = AsyncInitFailed /\ stop_flag' = TRUE /\ UNCHANGED asyncs
  /\ UNCHANGED <<timerVars, pending, runVars, initialized, data, otherVars, ghostVars>>

\* dx_asyncSend, from another thread: the data, then the wake-up.
AsyncData(w, a) ==
  /\ wpc[w] = "idle"
  /\ a \in asyncs
  /\ sends < MaxSends
  /\ sends' = sends + 1
  /\ data' = [data EXCEPT ![a] = sends']
  /\ arg' = [arg EXCEPT ![w] = a]
  /\ wpc' = [wpc EXCEPT ![w] = "send"]
  /\ UNCHANGED <<uvVars, initialized, exit_code, sigpc, ghostVars>>

\* Slip: the loop is not woken up while the handler runs.
SendUnlessHandled(w) ==
  /\ wpc[w] = "send"
  /\ pending' = IF running = arg[w] THEN pending ELSE pending \cup {arg[w]}
  /\ wpc' = [wpc EXCEPT ![w] = "idle"]
  /\ arg' = [arg EXCEPT ![w] = None]
  /\ UNCHANGED <<timerVars, asyncs, stop_flag, runVars, apiVars, sigpc, sends, ghostVars>>

\* uv_async_send only fails for a handle that is no async: the failure of
\* dx_asyncSend cannot happen to one that uv_async_init initialised.
AsyncSend(w) ==
  /\ wpc[w] = "send"
  /\ pending' = pending \cup {arg[w]}
  /\ wpc' = [wpc EXCEPT ![w] = "idle"]
  /\ arg' = [arg EXCEPT ![w] = None]
  /\ UNCHANGED <<timerVars, asyncs, stop_flag, runVars, apiVars, sigpc, sends, ghostVars>>

-----------------------------------------------------------------------------
(* dx_terminate.c                                                          *)

\* Slip: the range is not checked.
AnyCode(code) == code

Clamp(code) == IF code \in 0..255 THEN code ELSE 255

\* dx_terminate, from the loop's thread ...
dx_terminate(code) ==
  /\ AppRuns
  /\ exit_code' = Clamp(code)
  /\ stop_flag' = TRUE
  /\ UNCHANGED <<timerVars, asyncVars, runVars, initialized, data, otherVars, ghostVars>>

\* Slip: the loop is stopped before the code is there.
TerminateStopsFirst(w, code) ==
  /\ wpc[w] = "idle"
  /\ stop_flag' = TRUE
  /\ wpc' = [wpc EXCEPT ![w] = "stop"]
  /\ UNCHANGED <<timerVars, asyncVars, runVars, apiVars, arg, sigpc, sends, ghostVars>>

\* ... or from another: the code, then uv_stop.
TerminateCode(w, code) ==
  /\ wpc[w] = "idle"
  /\ exit_code' = Clamp(code)
  /\ wpc' = [wpc EXCEPT ![w] = "stop"]
  /\ UNCHANGED <<uvVars, initialized, data, arg, sigpc, sends, ghostVars>>

TerminateStop(w) ==
  /\ wpc[w] = "stop"
  /\ stop_flag' = TRUE
  /\ wpc' = [wpc EXCEPT ![w] = "idle"]
  /\ UNCHANGED <<timerVars, asyncVars, runVars, apiVars, arg, sigpc, sends, ghostVars>>

\* dx_eventLoopStop, from the loop's thread.
dx_eventLoopStop ==
  /\ AppRuns
  /\ stop_flag' = TRUE
  /\ UNCHANGED <<timerVars, asyncVars, runVars, apiVars, otherVars, ghostVars>>

\* dx_registerTerminationHandler: the handler is there for SIGTERM, SIGINT and
\* SIGHUP, and none of them interrupts it.
HandlerMayRun == Signals /\ sigpc = "ready"

\* dx_terminationHandler.  libuv resumes a poll that a signal interrupts.
SignalCode ==
  /\ HandlerMayRun
  /\ exit_code' = SigTerm
  /\ sigpc' = "stop"
  /\ UNCHANGED <<uvVars, initialized, data, wpc, arg, sends, ghostVars>>

\* Slip: the handler leaves its code and no more.
SignalCodeOnly ==
  /\ sigpc = "stop"
  /\ sigpc' = "done"
  /\ UNCHANGED <<uvVars, apiVars, wpc, arg, sends, ghostVars>>

SignalStop ==
  /\ sigpc = "stop"
  /\ stop_flag' = TRUE
  /\ sigpc' = "done"
  /\ UNCHANGED <<timerVars, asyncVars, runVars, apiVars, wpc, arg, sends, ghostVars>>

-----------------------------------------------------------------------------

LibraryVars == <<apiVars, otherVars>>

TimePasses ==
  /\ Tick
  /\ owed' = [t \in Timers |-> IF owed[t] > 0 THEN owed[t] - 1 ELSE 0]
  /\ UNCHANGED <<LibraryVars, seen>>

\* The handler of an async runs with the data it finds.
HandlerRuns(a) ==
  /\ AsyncFires(a)
  /\ seen' = [seen EXCEPT ![a] = data[a]]
  /\ UNCHANGED <<LibraryVars, owed>>

TimerRuns(t) ==
  /\ TimerFires(t)
  /\ UNCHANGED <<LibraryVars, ghostVars>>

\* dx_eventLoopRun.
dx_eventLoopRun == RunBegin /\ UNCHANGED <<LibraryVars, ghostVars>>

LoopStep ==
  \/ \E t \in Timers : TimerRuns(t)
  \/ \E a \in Asyncs : HandlerRuns(a)
  \/ (NoTimerDue \/ PollStart \/ PollReturns \/ NoAsyncPending \/ RunEndsOrRepeats)
     /\ UNCHANGED <<LibraryVars, ghostVars>>

AppReturns == CallbackReturns /\ UNCHANGED <<LibraryVars, ghostVars>>

AppCall ==
  \/ \E t \in Timers, on \in BOOLEAN : dx_timerStateSet(t, on)
  \/ \E t \in Timers, ts \in Periods : dx_timerOneShotSet(t, ts) \/ dx_timerChange(t, ts)
  \/ \E s \in TimerSets : dx_timerSetStart(s) \/ dx_timerSetStop(s)
  \/ \E a \in Asyncs : dx_asyncInit(a)
  \/ \E c \in Codes : dx_terminate(c)
  \/ dx_eventLoopRun \/ dx_eventLoopStop

WorkerFinishes(w) == AsyncSend(w) \/ TerminateStop(w)

WorkerCall(w) == (\E a \in Asyncs : AsyncData(w, a)) \/ \E c \in Codes : TerminateCode(w, c)

Next ==
  \/ LoopStep \/ AppReturns \/ AppCall \/ TimePasses
  \/ \E w \in Workers : WorkerCall(w) \/ WorkerFinishes(w)
  \/ SignalCode \/ SignalStop

Spec == Init /\ [][Next]_vars

\* The loop runs, callbacks return, time passes, and a call that has begun on
\* another thread, or in the signal handler, is finished.
FairSpec ==
  /\ Spec
  /\ WF_vars(LoopStep) /\ WF_vars(AppReturns) /\ WF_vars(TimePasses) /\ WF_vars(SignalStop)
  /\ \A w \in Workers : WF_vars(WorkerFinishes(w))

-----------------------------------------------------------------------------
(* Properties.                                                             *)

\* A binding that counts as stopped has no timer in the loop: dx_timerStart,
\* which initialises the handle again, never does so to one that is queued,
\* and no callback of a stopped timer comes.
StoppedIsIdle == \A t \in Timers : ~initialized[t] => ~active[t]

\* dx_timerOneShotSet never fires before its period is over, however long the
\* callback that set it had been running.
OneShotNotEarly == [][\A t \in Timers : TimerFires(t) => owed[t] = 0]_vars

\* dx_timerSetStart leaves every timer of the set started, or starts none: when
\* one of them fails no timer of the set, before it or after it, runs that did not
\* run before the call, and those before it, which it may have started, do not run.
AllOrNone ==
  [][\A s \in TimerSets : dx_timerSetStart(s) =>
       \/ \A i \in DOMAIN s : s[i] # None /\ initialized'[s[i]]
       \/ /\ \A t \in Elements(s, Len(s)) :
               (initialized'[t] => initialized[t]) /\ (active'[t] => active[t])
          /\ \E k \in DOMAIN s :
               /\ s[k] = None \/ ~StartOK(s[k])
               /\ \A t \in Elements(s, k - 1) : ~initialized'[t]]_vars

\* Whoever stops the loop to terminate the application has left an exit code
\* before: uv_run may return, and main read the code, at once.
CodeBeforeStop ==
  [][(\E w \in Workers : TerminateStop(w)) \/ SignalStop => exit_code # 0]_vars

\* Data sent reaches the handler, or newer data does, as long as the loop runs.
DataIsSeen ==
  \A a \in Asyncs, n \in 1..MaxSends :
    (data[a] = n /\ \A w \in Workers : arg[w] # a) ~> (seen[a] >= n \/ loop = "out")

Terminating == (\E w \in Workers : wpc[w] = "stop") \/ sigpc = "stop"

\* A termination, from a signal or another thread, ends the event loop as long
\* as a timer is waiting: the timer wakes the loop up.
TimerEndsTermination ==
  Terminating ~> (loop = "out" \/ \A t \in Timers : ~active[t])

\* dx_terminate and the signal handler bring "graceful application
\* termination": the event loop ends.
TerminationEndsLoop == Terminating ~> (loop = "out")

=============================================================================

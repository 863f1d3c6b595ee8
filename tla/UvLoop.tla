------------------------------- MODULE UvLoop -------------------------------
(***************************************************************************)
(* The libuv event loop under dx_timer.c, dx_async.c and dx_terminate.c,   *)
(* as far as those files use it.  Time is relative: left[t] is how long    *)
(* after the loop's cached time a timer is due, lag how far the clock is   *)
(* ahead of the cached time.  Timers overdue together fire in any order.   *)
(***************************************************************************)
EXTENDS Integers, FiniteSets, FiniteSetsExt

CONSTANTS
  Timers,
  Asyncs,
  MaxLag    \* bound: how long the loop can go without reading the clock

ASSUME LoopAssumption == MaxLag \in Nat

VARIABLES
  lag,
  active,     \* uv_timer_t: in the heap of pending timers
  left,       \* uv_timer_t: time to go
  rep,        \* uv_timer_t: repeat
  asyncs,     \* initialised uv_async_t
  pending,    \* uv_async_t with a wake-up pending
  stop_flag,  \* uv_loop_t: uv_stop was called
  timeout,    \* uv_run: how long this poll will block, from the cached time
  loop,       \* uv_run: where it is
  running     \* the timer or async whose callback runs

timerVars == <<lag, active, left, rep>>
asyncVars == <<asyncs, pending>>
runVars   == <<timeout, loop, running>>
uvVars    == <<timerVars, asyncVars, stop_flag, runVars>>

NoHandle == "none"
Never == -1

UvTypeOK ==
  /\ lag \in 0..MaxLag
  /\ active \in [Timers -> BOOLEAN]
  /\ left \in [Timers -> 0..MaxLag]
  /\ rep \in [Timers -> 0..MaxLag]
  /\ asyncs \subseteq Asyncs /\ pending \subseteq asyncs
  /\ stop_flag \in BOOLEAN
  /\ timeout \in {Never} \cup (0..MaxLag)
  /\ loop \in {"out", "timers", "callback", "poll_start", "poll", "async", "handler", "check"}
  /\ running \in Timers \cup Asyncs \cup {NoHandle}

UvInit ==
  /\ lag = 0
  /\ active = [t \in Timers |-> FALSE]
  /\ left = [t \in Timers |-> 0]
  /\ rep = [t \in Timers |-> 0]
  /\ asyncs = {} /\ pending = {}
  /\ stop_flag = FALSE /\ timeout = 0
  /\ loop = "out"
  /\ running = NoHandle

Alive == asyncs # {} \/ \E t \in Timers : active[t]

\* What is left when the cached time has been brought up to the clock.
Elapsed == [t \in Timers |-> IF left[t] > lag THEN left[t] - lag ELSE 0]

uv_update_time == left' = Elapsed /\ lag' = 0

-----------------------------------------------------------------------------
(* uv_run                                                                  *)

\* Time passes: in the loop, in a callback, or outside.
Tick ==
  /\ lag < MaxLag
  /\ lag' = lag + 1
  /\ UNCHANGED <<active, left, rep, asyncVars, stop_flag, runVars>>

RunBegin ==
  /\ loop = "out"
  /\ IF Alive /\ ~stop_flag
       THEN loop' = "timers" /\ uv_update_time /\ UNCHANGED stop_flag
       ELSE stop_flag' = FALSE /\ UNCHANGED <<loop, left, lag>>
  /\ UNCHANGED <<active, rep, asyncVars, timeout, running>>

Due(t) == active[t] /\ left[t] = 0

\* A due timer is stopped, started again if it repeats, and called.
TimerFires(t) ==
  /\ loop = "timers"
  /\ Due(t)
  /\ active' = [active EXCEPT ![t] = rep[t] > 0]
  /\ left' = [left EXCEPT ![t] = rep[t]]
  /\ loop' = "callback"
  /\ running' = t
  /\ UNCHANGED <<lag, rep, asyncVars, stop_flag, timeout>>

NoTimerDue ==
  /\ loop = "timers"
  /\ \A t \in Timers : ~Due(t)
  /\ loop' = "poll_start"
  /\ UNCHANGED <<timerVars, asyncVars, stop_flag, timeout, running>>

NextTimeout ==
  IF stop_flag \/ ~Alive THEN 0
  ELSE IF \A t \in Timers : ~active[t] THEN Never
  ELSE Min({left[t] : t \in {u \in Timers : active[u]}})

\* The time to block is computed before blocking: what another thread or a
\* signal does to the loop later, uv_async_send excepted, is not seen.
PollStart ==
  /\ loop = "poll_start"
  /\ timeout' = NextTimeout
  /\ loop' = "poll"
  /\ UNCHANGED <<timerVars, asyncVars, stop_flag, running>>

PollReturns ==
  /\ loop = "poll"
  /\ pending # {} \/ (timeout # Never /\ timeout <= lag)
  /\ loop' = "async"
  /\ timeout' = 0
  /\ uv_update_time
  /\ UNCHANGED <<active, rep, asyncVars, stop_flag, running>>

AsyncFires(a) ==
  /\ loop = "async"
  /\ a \in pending
  /\ pending' = pending \ {a}
  /\ loop' = "handler"
  /\ running' = a
  /\ UNCHANGED <<timerVars, asyncs, stop_flag, timeout>>

NoAsyncPending ==
  /\ loop = "async"
  /\ pending = {}
  /\ loop' = "check"
  /\ UNCHANGED <<timerVars, asyncVars, stop_flag, timeout, running>>

RunEndsOrRepeats ==
  /\ loop = "check"
  /\ IF Alive /\ ~stop_flag
       THEN loop' = "timers" /\ uv_update_time /\ UNCHANGED stop_flag
       ELSE loop' = "out" /\ stop_flag' = FALSE /\ UNCHANGED <<left, lag>>
  /\ UNCHANGED <<active, rep, asyncVars, timeout, running>>

\* The application's callback returns to the loop.
CallbackReturns ==
  /\ loop \in {"callback", "handler"}
  /\ loop' = IF loop = "callback" THEN "timers" ELSE "async"
  /\ running' = NoHandle
  /\ UNCHANGED <<timerVars, asyncVars, stop_flag, timeout>>

=============================================================================

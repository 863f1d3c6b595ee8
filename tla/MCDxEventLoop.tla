---------------------------- MODULE MCDxEventLoop ----------------------------
(* The instances of the event loop that TLC checks: 2 ticks to the ms.     *)
EXTENDS DxEventLoop, TLC

MCDelay  == [t \in Timers |-> CASE t = "oneshot" -> 4 [] t = "both" -> 2 [] OTHER -> None]
MCRepeat == [t \in Timers |-> CASE t \in {"periodic", "both"} -> 2 [] t = "bad" -> -1
                                [] t = "submilli" -> 1 [] OTHER -> None]
MCPeriods == {1, 2}
NoPeriods == {}
MCTimerSets == { <<"periodic", "oneshot">>, <<"oneshot", "bad">>, <<"periodic", "oneshot", "both">>,
                 <<"oneshot", None, "submilli">> }
NoTimerSets == {}
=============================================================================

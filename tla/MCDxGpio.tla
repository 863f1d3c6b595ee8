------------------------------ MODULE MCDxGpio ------------------------------
(* Three bindings on one chip, two of them on the same line, one on another *)
(* chip, and one whose chip does not exist.                                 *)
EXTENDS DxGpio, TLC

MCBindings == {"led", "relay", "button", "buzzer", "wrong"}
MCChipOf == ("led" :> 0 @@ "relay" :> 0 @@ "button" :> 0 @@ "buzzer" :> 1 @@ "wrong" :> 6)
MCLineOf == ("led" :> 1 @@ "relay" :> 1 @@ "button" :> 2 @@ "buzzer" :> 1 @@ "wrong" :> 1)
MCDirection == [b \in MCBindings |-> IF b = "button" THEN "input" ELSE "output"]
MCSets == { <<"led", "button", "buzzer">>, <<"button", "led", "relay", "buzzer">>, <<"buzzer", "wrong", "led">> }
=============================================================================

---------------------------- MODULE MCDxApplibs ----------------------------
(* An output and an inverted input pin, one without direction and one      *)
(* with a negative number, an I2C interface and two channels of one PWM    *)
(* controller.  A second is 10^6 ns and a word 2^22, so that 1 Hz at 100%  *)
(* overflows as less than 24 Hz does.                                      *)
EXTENDS DxApplibs, TLC

CONSTANTS led, button, odd, absent, bus, ch1, ch2, controller, f1, f2, f3, f4

MCDirection ==
  (led :> "output") @@ (button :> "input") @@ (odd :> "unknown") @@ (absent :> "input")
MCControllerOf == [ch \in {ch1, ch2} |-> controller]
MCSets == {<<led, odd, button>>, <<button, absent, led>>, <<ch1, ch2>>, <<bus>>}
MCDescriptors == Permutations(FDs)
MCSettings == {<<1, 100>>, <<100, 50>>, <<100, 200>>}
=============================================================================

----------------------------- MODULE DxApplibs -----------------------------
(***************************************************************************)
(* The peripherals behind the applibs interface: GPIO (rx_gpio.c), I2C     *)
(* (dx_i2c.c) and PWM (dx_pwm.c).  Each keeps a file descriptor of the one *)
(* process; PWM bindings share that of their controller.  The three are    *)
(* not part of the build.                                                  *)
(***************************************************************************)
EXTENDS Integers, Sequences

CONSTANTS
  Pins, Direction, Inverted,   \* direction of a pin; those with invertPin
  Negative,                    \* those whose pin number is negative
  Interfaces,                  \* the I2C bindings
  Channels, ControllerOf,      \* the PWM bindings
  Sets,                        \* arrays of bindings of one kind
  Settings,                    \* <<hertz, percentage>> passed to dx_pwmSetDutyCycle
  FDs, NoFd,                   \* descriptors the process can be given; a negative one
  NsecPerSec, Word             \* 1000000000, and 2^32: the range of uint32_t

Controllers == {ControllerOf[ch] : ch \in Channels}
Devices  == Pins \cup Interfaces \cup Controllers
Bindings == Pins \cup Interfaces \cup Channels

ASSUME ApplibsAssumption ==
  /\ Direction \in [Pins -> {"unknown", "input", "output"}] /\ Inverted \subseteq Pins
  /\ Negative \subseteq Pins
  /\ Pins \cap Interfaces = {} /\ Pins \cap Controllers = {} /\ Interfaces \cap Controllers = {}
  /\ Sets \subseteq Seq(Bindings)
  /\ \A s \in Settings : s[1] \in Nat \ {0} /\ s[2] \in Nat
  /\ NoFd \notin FDs
  /\ Word \in Nat /\ Word > 100000 /\ NsecPerSec \in 1..(Word - 1)

VARIABLES
  fd, opened,     \* of the bindings of pins and interfaces, and of the controllers
  initialState,   \* of the pins' bindings: high
  job,            \* a set being opened: the bindings to come
  exit_code,      \* what dx_terminate was last called with
  device,         \* the system: the device behind each open descriptor
  pwm,            \* the system: the state last applied to each channel
  refused         \* history: the descriptors dx_i2cOpen got and gave up

bindingVars == <<fd, opened, initialState>>
vars == <<bindingVars, job, exit_code, device, pwm, refused>>

OffState == [enabled |-> FALSE, period |-> 100000, duty |-> 100]

\* Exit codes passed to dx_terminate.
GpioUseCodes == {"Gpio_Not_Initialized", "Gpio_Wrong_Direction", "Gpio_Open_Output_Failed",
                 "Gpio_Open_Input_Failed", "Gpio_Open_Direction_Unknown"}
I2cOpenCodes == {"I2C_Open_Failed", "I2C_SetBusSpeed_Failed", "I2C_SetTimeout_Failed"}

TypeOK ==
  /\ fd \in [Devices -> FDs \cup {NoFd}] /\ opened \in [Devices -> BOOLEAN]
  /\ \A d \in Devices : opened[d] => fd[d] # NoFd
  /\ initialState \in [Pins -> BOOLEAN]
  /\ job \in Seq(Bindings)
  /\ exit_code \in {"none", "Gpio_Read"} \cup GpioUseCodes \cup I2cOpenCodes
  /\ DOMAIN device \subseteq FDs /\ \A f \in DOMAIN device : device[f] \in Devices
  /\ pwm \in [Channels -> [enabled : BOOLEAN, period : 0..(Word - 1), duty : 0..(Word - 1)]]
  /\ refused \subseteq FDs

Init ==
  /\ fd = [d \in Devices |-> NoFd]
  /\ opened = [d \in Devices |-> FALSE]
  /\ initialState = [p \in Pins |-> FALSE]
  /\ job = <<>>
  /\ exit_code = "none"
  /\ device = <<>>
  /\ pwm = [ch \in Channels |-> OffState]
  /\ refused = {}

-----------------------------------------------------------------------------
(* Descriptors.                                                            *)

\* The system opens d: a descriptor that is not in use, kept in d's binding.
Gets(d) ==
  \E f \in FDs \ DOMAIN device :
    /\ fd' = [fd EXCEPT ![d] = f]
    /\ device' = [g \in DOMAIN device \cup {f} |-> IF g = f THEN d ELSE device[g]]

GetsNone(d) == fd' = [fd EXCEPT ![d] = NoFd] /\ UNCHANGED device

MarkOpened(d) == opened' = [opened EXCEPT ![d] = TRUE]

\* close() of what the bindings in ds hold, whatever that is now.
Closed(ds) ==
  /\ opened' = [d \in Devices |-> opened[d] /\ d \notin ds]
  /\ device' = [f \in DOMAIN device \ {fd[d] : d \in {e \in ds : opened[e]}} |-> device[f]]

-----------------------------------------------------------------------------
(* rx_gpio.c                                                               *)

\* dx_gpioOpen returns at once; a NULL binding is left to the caller.
PinRefused(p) == p \in Negative /\ UNCHANGED <<bindingVars, exit_code, device, refused>>

\* An inverted pin inverts the initial state in its binding, before anything
\* can fail.
InvertInitialState(p) ==
  initialState' = [initialState EXCEPT ![p] = IF p \in Inverted THEN ~@ ELSE @]

PinOpens(p) ==
  /\ p \notin Negative /\ ~opened[p] /\ Direction[p] # "unknown"
  /\ InvertInitialState(p)
  /\ Gets(p)
  /\ MarkOpened(p)
  /\ UNCHANGED <<exit_code, refused>>

PinFails(p) ==
  /\ p \notin Negative /\ ~opened[p]
  /\ InvertInitialState(p)
  /\ \/ Direction[p] = "output" /\ GetsNone(p) /\ exit_code' = "Gpio_Open_Output_Failed"
     \/ Direction[p] = "input" /\ GetsNone(p) /\ exit_code' = "Gpio_Open_Input_Failed"
     \/ /\ Direction[p] = "unknown" /\ UNCHANGED <<fd, device>>
        /\ exit_code' = "Gpio_Open_Direction_Unknown"
  /\ UNCHANGED <<opened, refused>>

\* Slip: the binding counts as opened after it was closed.
PinsCloseOnly(ps) ==
  /\ device' = [f \in DOMAIN device \ {fd[p] : p \in {q \in ps : opened[q]}} |-> device[f]]
  /\ UNCHANGED <<fd, opened, initialState, exit_code, refused>>

\* dx_gpioClose on each of ps.
PinsClose(ps) ==
  /\ Closed(ps)
  /\ fd' = [d \in Devices |-> IF d \in ps THEN NoFd ELSE fd[d]]
  /\ UNCHANGED <<initialState, exit_code, refused>>

\* dx_gpioOn, dx_gpioOff and dx_gpioStateSet only touch the line.
dx_gpioStateSet(p) ==
  /\ job = <<>>
  /\ IF opened[p] THEN UNCHANGED exit_code ELSE exit_code' = "Gpio_Not_Initialized"
  /\ UNCHANGED <<bindingVars, job, device, pwm, refused>>

dx_gpioStateGet(p) ==
  /\ job = <<>>
  /\ CASE ~opened[p] -> exit_code' = "Gpio_Not_Initialized"
       [] opened[p] /\ Direction[p] # "input" -> exit_code' = "Gpio_Wrong_Direction"
       [] OTHER -> exit_code' \in {exit_code, "Gpio_Read"}
  /\ UNCHANGED <<bindingVars, job, device, pwm, refused>>

-----------------------------------------------------------------------------
(* dx_i2c.c                                                                *)

BusOpens(i) ==
  /\ ~opened[i]
  /\ Gets(i)
  /\ MarkOpened(i)
  /\ UNCHANGED <<initialState, exit_code, refused>>

\* When the speed or the timeout is refused the descriptor stays open.
BusFails(i) ==
  /\ ~opened[i]
  /\ \/ GetsNone(i) /\ exit_code' = "I2C_Open_Failed" /\ UNCHANGED refused
     \/ /\ Gets(i) /\ refused' = refused \cup {fd'[i]}
        /\ exit_code' \in I2cOpenCodes \ {"I2C_Open_Failed"}
  /\ UNCHANGED <<opened, initialState>>

\* Slip: the bindings count as closed, the descriptors stay open.
BusesForget(is) ==
  /\ opened' = [d \in Devices |-> opened[d] /\ d \notin is]
  /\ UNCHANGED <<device, fd, initialState, exit_code, refused>>

\* dx_i2cClose on each of is.
BusesClose(is) == Closed(is) /\ UNCHANGED <<fd, initialState, exit_code, refused>>

-----------------------------------------------------------------------------
(* dx_pwm.c                                                                *)

\* Slip: each binding opens the controller.
ControllerOpensAgain(c) ==
  /\ Gets(c)
  /\ MarkOpened(c)
  /\ UNCHANGED <<initialState, exit_code, refused>>

ControllerOpens(c) ==
  /\ ~opened[c]
  /\ Gets(c)
  /\ MarkOpened(c)
  /\ UNCHANGED <<initialState, exit_code, refused>>

ControllerFails(c) ==
  /\ ~opened[c]
  /\ GetsNone(c)
  /\ UNCHANGED <<opened, initialState, exit_code, refused>>

\* dx_pwmClose on each of chs: the first closes the controller for all.
ChannelsClose(chs) ==
  /\ Closed({ControllerOf[ch] : ch \in chs})
  /\ UNCHANGED <<fd, initialState, exit_code, refused>>

\* Slip: the percentage is not checked.
AnyPercentage(hertz, percentage) == hertz <= 100000

InRange(hertz, percentage) == hertz <= 100000 /\ percentage <= 100

\* PWM_Apply, through whatever descriptor the controller has.
Apply(ch, state) ==
  LET c == ControllerOf[ch]
  IN IF fd[c] \in DOMAIN device /\ device[fd[c]] = c
       THEN pwm' \in {pwm, [pwm EXCEPT ![ch] = state]} ELSE UNCHANGED pwm

\* The product of the period and the percentage is cut off at 32 bits.
dx_pwmSetDutyCycle(ch, hertz, percentage) ==
  LET period == NsecPerSec \div hertz
  IN /\ job = <<>>
     /\ opened[ControllerOf[ch]] /\ InRange(hertz, percentage)
     /\ Apply(ch, [enabled |-> TRUE, period |-> period,
                   duty |-> ((period * percentage) % Word) \div 100])
     /\ UNCHANGED <<bindingVars, job, exit_code, device, refused>>

\* What the channel is told then means nothing but that it is off.
dx_pwmStop(ch) ==
  /\ job = <<>>
  /\ opened[ControllerOf[ch]]
  /\ Apply(ch, OffState)
  /\ UNCHANGED <<bindingVars, job, exit_code, device, refused>>

-----------------------------------------------------------------------------
(* One binding of any kind, and sets of them.                              *)

IsOpen(b) == opened[IF b \in Channels THEN ControllerOf[b] ELSE b]

Opens(b) ==
  \/ b \in Pins /\ PinOpens(b)
  \/ b \in Interfaces /\ BusOpens(b)
  \/ b \in Channels /\ ControllerOpens(ControllerOf[b])
  \/ IsOpen(b) /\ UNCHANGED <<bindingVars, exit_code, device, refused>>

Fails(b) ==
  \/ b \in Pins /\ (PinRefused(b) \/ PinFails(b))
  \/ b \in Interfaces /\ BusFails(b)
  \/ b \in Channels /\ ControllerFails(ControllerOf[b])

\* dx_gpioOpen, dx_i2cOpen and dx_pwmOpen.
Open(b) == job = <<>> /\ (Opens(b) \/ Fails(b)) /\ UNCHANGED <<job, pwm>>

\* dx_gpioSetOpen, dx_i2cSetOpen and dx_pwmSetOpen: up to the first that fails.
SetOpenBegin(s) ==
  job = <<>> /\ job' = s /\ UNCHANGED <<bindingVars, exit_code, device, pwm, refused>>

SetOpenNext ==
  /\ job # <<>>
  /\ \/ Opens(Head(job)) /\ job' = Tail(job)
     \/ Fails(Head(job)) /\ job' = <<>>
  /\ UNCHANGED pwm

\* dx_gpioClose, dx_i2cClose and dx_pwmClose, and those of sets.
Close(bs) ==
  /\ job = <<>>
  /\ \/ bs \subseteq Pins /\ PinsClose(bs)
     \/ bs \subseteq Interfaces /\ BusesClose(bs)
     \/ bs \subseteq Channels /\ ChannelsClose(bs)
  /\ UNCHANGED <<job, pwm>>

Next ==
  \/ \E b \in Bindings : Open(b) \/ Close({b})
  \/ \E s \in Sets : SetOpenBegin(s) \/ Close({s[i] : i \in DOMAIN s})
  \/ SetOpenNext
  \/ \E p \in Pins : dx_gpioStateSet(p) \/ dx_gpioStateGet(p)
  \/ \E ch \in Channels : dx_pwmStop(ch) \/ \E s \in Settings : dx_pwmSetDutyCycle(ch, s[1], s[2])

Spec == Init /\ [][Next]_vars

-----------------------------------------------------------------------------

\* What counts as opened has a descriptor of its own device: it was not closed
\* by another binding, and its number was not given to another device since.
DescriptorsOwned ==
  \A d \in Devices : opened[d] => fd[d] \in DOMAIN device /\ device[fd[d]] = d

\* The open descriptors that no binding counts as its own, and that nothing will
\* close, are those dx_i2cOpen got and gave up when the speed or the timeout was
\* refused: no other failure, no second open and no close leaves one behind.
OnlyRefusedLeak ==
  refused = {f \in DOMAIN device : ~opened[device[f]] \/ fd[device[f]] # f}

\* A channel is never told to be on for longer than its period, also when the
\* product that gives the time was too large for its 32 bits.
PulseFits == \A ch \in Channels : pwm[ch].duty <= pwm[ch].period
=============================================================================

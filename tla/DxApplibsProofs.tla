-------------------------- MODULE DxApplibsProofs --------------------------
(***************************************************************************)
(* Whose descriptors are whose, for any pins, interfaces and channels, any *)
(* number of descriptors and any failures.                                 *)
(***************************************************************************)
EXTENDS DxApplibs, TLAPS

\* The functions a step updates; with it the two properties are inductive.
Shape ==
  /\ fd \in [Devices -> FDs \cup {NoFd}]
  /\ opened \in [Devices -> BOOLEAN]
  /\ \A f \in DOMAIN device : device[f] \in Devices

Owned == Shape /\ DescriptorsOwned /\ OnlyRefusedLeak

\* What the two properties say is settled by four of the variables.
LEMMA Kept ==
  Owned /\ UNCHANGED <<fd, opened, device, refused>> => Owned'
BY DEF Owned, Shape, DescriptorsOwned, OnlyRefusedLeak

\* A device that is not opened gets a descriptor and counts as opened.
LEMMA GetsKeeps ==
  ASSUME Owned, NEW d \in Devices, ~opened[d], Gets(d),
         opened' = [opened EXCEPT ![d] = TRUE], UNCHANGED refused
  PROVE  Owned'
<1>1. PICK f \in FDs \ DOMAIN device :
        /\ fd' = [fd EXCEPT ![d] = f]
        /\ device' = [g \in DOMAIN device \cup {f} |-> IF g = f THEN d ELSE device[g]]
  BY DEF Gets
<1>2. Shape'
  BY <1>1 DEF Owned, Shape
<1>3. DescriptorsOwned'
  BY <1>1 DEF Owned, Shape, DescriptorsOwned
<1>4. OnlyRefusedLeak'
  BY <1>1 DEF Owned, Shape, DescriptorsOwned, OnlyRefusedLeak
<1> QED
  BY <1>2, <1>3, <1>4 DEF Owned

\* An interface gets one, gives it up, and does not count as opened.
LEMMA LeakKeeps ==
  ASSUME Owned, NEW i \in Interfaces, ~opened[i], Gets(i), UNCHANGED opened,
         refused' = refused \cup {fd'[i]}
  PROVE  Owned'
<1>1. PICK f \in FDs \ DOMAIN device :
        /\ fd' = [fd EXCEPT ![i] = f]
        /\ device' = [g \in DOMAIN device \cup {f} |-> IF g = f THEN i ELSE device[g]]
  BY DEF Gets
<1>2. i \in Devices
  BY DEF Devices
<1>3. Shape'
  BY <1>1, <1>2 DEF Owned, Shape
<1>4. DescriptorsOwned'
  BY <1>1 DEF Owned, Shape, DescriptorsOwned
<1>5. OnlyRefusedLeak'
  <2>1. fd'[i] = f /\ ~opened'[i] /\ f \in DOMAIN device' /\ device'[f] = i
    BY <1>1, <1>2 DEF Owned, Shape
  <2>2. ASSUME NEW g \in DOMAIN device
        PROVE  /\ g # f /\ g \in DOMAIN device' /\ device'[g] = device[g]
               /\ ~opened'[device[g]] \/ fd'[device[g]] # g
                    <=> ~opened[device[g]] \/ fd[device[g]] # g
    <3>1. device[g] \in Devices
      BY DEF Owned, Shape
    <3> QED
      BY <1>1, <3>1 DEF Owned, Shape
  <2>3. DOMAIN device' = DOMAIN device \cup {f}
    BY <1>1
  <2> QED
    BY <2>1, <2>2, <2>3 DEF Owned, OnlyRefusedLeak
<1> QED
  BY <1>3, <1>4, <1>5 DEF Owned

LEMMA GetsNoneKeeps ==
  ASSUME Owned, NEW d \in Devices, ~opened[d], GetsNone(d), UNCHANGED <<opened, refused>>
  PROVE  Owned'
BY DEF Owned, Shape, DescriptorsOwned, OnlyRefusedLeak, GetsNone

\* A close takes the descriptors of the devices that count as opened, and no
\* other device's, whether or not the bindings forget them.
LEMMA ClosedKeeps ==
  ASSUME Owned, NEW ds \in SUBSET Devices, Closed(ds), UNCHANGED refused,
         fd' = fd \/ fd' = [d \in Devices |-> IF d \in ds THEN NoFd ELSE fd[d]]
  PROVE  Owned'
<1>1. Shape'
  BY DEF Owned, Shape, Closed
<1>2. DescriptorsOwned'
  <2> SUFFICES ASSUME NEW d \in Devices, opened'[d]
               PROVE  fd'[d] \in DOMAIN device' /\ device'[fd'[d]] = d
    BY DEF DescriptorsOwned
  <2>1. opened[d] /\ d \notin ds
    BY DEF Closed
  <2>2. fd'[d] = fd[d]
    BY <2>1 DEF Owned, Shape
  <2>3. fd[d] \in DOMAIN device /\ device[fd[d]] = d
    BY <2>1 DEF Owned, DescriptorsOwned
  <2>4. ASSUME NEW e \in ds, opened[e], e \in Devices
        PROVE  fd[e] # fd[d]
    BY <2>1, <2>3, <2>4 DEF Owned, DescriptorsOwned
  <2> QED
    BY <2>2, <2>3, <2>4 DEF Closed
<1>3. OnlyRefusedLeak'
  <2> DEFINE shut == {fd[d] : d \in {e \in ds : opened[e]}}
  <2>1. DOMAIN device' = DOMAIN device \ shut
        /\ \A f \in DOMAIN device' : device'[f] = device[f]
    BY DEF Closed
  <2>2. \A f \in shut : f \in DOMAIN device /\ opened[device[f]] /\ fd[device[f]] = f
    BY DEF Owned, DescriptorsOwned
  <2>3. ASSUME NEW f \in DOMAIN device'
        PROVE  ~opened'[device[f]] \/ fd'[device[f]] # f
                 <=> ~opened[device[f]] \/ fd[device[f]] # f
    <3>1. device[f] \in Devices /\ f \in DOMAIN device /\ f \notin shut
      BY <2>1 DEF Owned, Shape
    <3>2. CASE device[f] \in ds
      BY <3>1, <3>2 DEF Closed
    <3>3. CASE device[f] \notin ds
      BY <3>1, <3>3 DEF Closed, Owned, Shape
    <3> QED
      BY <3>2, <3>3
  <2> HIDE DEF shut
  <2> QED
    BY <2>1, <2>2, <2>3 DEF Owned, OnlyRefusedLeak
<1> QED
  BY <1>1, <1>2, <1>3 DEF Owned

-----------------------------------------------------------------------------

LEMMA OpenKeeps ==
  ASSUME Owned, NEW b, Opens(b) \/ Fails(b)
  PROVE  Owned'
<1>1. CASE b \in Pins /\ PinOpens(b)
  BY <1>1, GetsKeeps DEF PinOpens, MarkOpened, Devices
<1>2. CASE b \in Interfaces /\ BusOpens(b)
  BY <1>2, GetsKeeps DEF BusOpens, MarkOpened, Devices
<1>3. CASE b \in Channels /\ ControllerOpens(ControllerOf[b])
  <2>1. ControllerOf[b] \in Devices
    BY <1>3 DEF Devices, Controllers
  <2> QED
    BY <1>3, <2>1, GetsKeeps DEF ControllerOpens, MarkOpened
<1>4. CASE IsOpen(b) /\ UNCHANGED <<bindingVars, exit_code, device, refused>>
  BY <1>4, Kept DEF bindingVars
<1>8. CASE PinRefused(b)
  BY <1>8, Kept DEF PinRefused, bindingVars
<1>5. CASE b \in Pins /\ PinFails(b)
  <2>1. b \in Devices
    BY <1>5 DEF Devices
  <2>2. CASE GetsNone(b)
    BY <1>5, <2>1, <2>2, GetsNoneKeeps DEF PinFails
  <2>3. CASE UNCHANGED <<fd, device>>
    BY <1>5, <2>3, Kept DEF PinFails
  <2> QED
    BY <1>5, <2>2, <2>3 DEF PinFails
<1>6. CASE b \in Interfaces /\ BusFails(b)
  <2>1. b \in Devices
    BY <1>6 DEF Devices
  <2> QED
    BY <1>6, <2>1, GetsNoneKeeps, LeakKeeps DEF BusFails
<1>7. CASE b \in Channels /\ ControllerFails(ControllerOf[b])
  <2>1. ControllerOf[b] \in Devices
    BY <1>7 DEF Devices, Controllers
  <2> QED
    BY <1>7, <2>1, GetsNoneKeeps DEF ControllerFails
<1> QED
  BY <1>1, <1>2, <1>3, <1>4, <1>5, <1>6, <1>7, <1>8 DEF Opens, Fails

LEMMA CloseKeeps ==
  ASSUME Owned, NEW bs, Close(bs)
  PROVE  Owned'
<1>1. CASE bs \subseteq Pins /\ PinsClose(bs)
  <2>1. bs \in SUBSET Devices
    BY <1>1 DEF Devices
  <2> QED
    BY <1>1, <2>1, ClosedKeeps DEF PinsClose
<1>2. CASE bs \subseteq Interfaces /\ BusesClose(bs)
  <2>1. bs \in SUBSET Devices
    BY <1>2 DEF Devices
  <2> QED
    BY <1>2, <2>1, ClosedKeeps DEF BusesClose
<1>3. CASE bs \subseteq Channels /\ ChannelsClose(bs)
  <2> DEFINE cs == {ControllerOf[ch] : ch \in bs}
  <2>1. cs \in SUBSET Devices
    BY <1>3 DEF Devices, Controllers
  <2>2. Closed(cs) /\ fd' = fd /\ refused' = refused
    BY <1>3 DEF ChannelsClose
  <2> HIDE DEF cs
  <2> QED
    BY <2>1, <2>2, ClosedKeeps
<1> QED
  BY <1>1, <1>2, <1>3 DEF Close

LEMMA NextKeeps == Owned /\ [Next]_vars => Owned'
<1> SUFFICES ASSUME Owned, [Next]_vars PROVE Owned'
  OBVIOUS
<1>1. CASE \E b \in Bindings : Open(b) \/ Close({b})
  BY <1>1, OpenKeeps, CloseKeeps DEF Open
<1>2. CASE \E s \in Sets : SetOpenBegin(s) \/ Close({s[i] : i \in DOMAIN s})
  BY <1>2, CloseKeeps, Kept DEF SetOpenBegin, bindingVars
<1>3. CASE SetOpenNext
  BY <1>3, OpenKeeps DEF SetOpenNext
<1>4. CASE \E p \in Pins : dx_gpioStateSet(p) \/ dx_gpioStateGet(p)
  BY <1>4, Kept DEF dx_gpioStateSet, dx_gpioStateGet, bindingVars
<1>5. CASE \E ch \in Channels :
             dx_pwmStop(ch) \/ \E s \in Settings : dx_pwmSetDutyCycle(ch, s[1], s[2])
  BY <1>5, Kept DEF dx_pwmStop, dx_pwmSetDutyCycle, bindingVars
<1>6. CASE UNCHANGED vars
  BY <1>6, Kept DEF vars, bindingVars
<1> QED
  BY <1>1, <1>2, <1>3, <1>4, <1>5, <1>6 DEF Next

LEMMA InitOwned == Init => Owned
BY DEF Init, Owned, Shape, DescriptorsOwned, OnlyRefusedLeak

LEMMA AlwaysOwned == Spec => []Owned
BY InitOwned, NextKeeps, PTL DEF Spec

\* dx_gpioClose, dx_i2cClose and dx_pwmClose never close, and no call uses, a
\* descriptor that the system has given to another device since.
THEOREM OwnDescriptors == Spec => []DescriptorsOwned
<1>1. Owned => DescriptorsOwned
  BY DEF Owned
<1> QED
  BY <1>1, AlwaysOwned, PTL

\* Whatever fails, in dx_gpioOpen, dx_i2cOpen or dx_pwmOpen or in between sets,
\* and whatever is closed, the open descriptors that no binding counts as its own
\* are those that dx_i2cOpen got and gave up when the speed or the timeout was
\* refused: dx_i2cClose leaves none, and nothing closes those.
THEOREM LeaksAreRefused == Spec => []OnlyRefusedLeak
<1>1. Owned => OnlyRefusedLeak
  BY DEF Owned
<1> QED
  BY <1>1, AlwaysOwned, PTL

-----------------------------------------------------------------------------
(* What a channel is told, and the types.                                  *)

Pulses == [Channels -> [enabled : BOOLEAN, period : 0..(Word - 1), duty : 0..(Word - 1)]]

Told == pwm \in Pulses /\ PulseFits

LEMMA Remainder ==
  ASSUME NEW x \in Nat, NEW w \in Nat \ {0}
  PROVE  x % w \in Nat /\ x % w < w /\ x % w <= x
BY Z3

LEMMA Quotient ==
  ASSUME NEW x \in Nat, NEW y \in Nat \ {0}
  PROVE  x \div y \in Nat /\ x \div y <= x
BY Z3

LEMMA PartOf ==
  ASSUME NEW x \in Nat, NEW q \in Nat, q <= 100
  PROVE  x * q \in Nat /\ x * q <= 100 * x
BY Z3

LEMMA Hundredth ==
  ASSUME NEW x \in Nat, NEW y \in Nat, x <= 100 * y
  PROVE  x \div 100 \in Nat /\ x \div 100 <= y
BY Z3

\* A channel is told a state whose pulse fits, or told nothing.
LEMMA ApplyTells ==
  ASSUME Told, NEW ch \in Channels, NEW state, Apply(ch, state),
         state \in [enabled : BOOLEAN, period : 0..(Word - 1), duty : 0..(Word - 1)],
         state.duty <= state.period
  PROVE  Told'
BY DEF Told, Pulses, PulseFits, Apply

\* The remainder of a product is no more than the product, so cutting it off
\* at 32 bits shortens the pulse.
LEMMA SetDutyTells ==
  ASSUME Told, NEW ch \in Channels, NEW s \in Settings, dx_pwmSetDutyCycle(ch, s[1], s[2])
  PROVE  Told'
<1> DEFINE period == NsecPerSec \div s[1]
           cut == (period * s[2]) % Word
<1>1. s[1] \in Nat \ {0} /\ s[2] \in Nat /\ s[2] <= 100
  BY ApplibsAssumption DEF ApplibsAssumption, dx_pwmSetDutyCycle, InRange
<1>2. NsecPerSec \in Nat /\ Word \in Nat \ {0} /\ NsecPerSec < Word
  BY ApplibsAssumption DEF ApplibsAssumption
<1>3. period \in Nat /\ period <= NsecPerSec
  BY <1>1, <1>2, Quotient
<1>4. period * s[2] \in Nat /\ period * s[2] <= 100 * period
  <2> HIDE DEF period
  <2> QED
    BY <1>1, <1>3, PartOf
<1>5. cut \in Nat /\ cut <= 100 * period
  <2>1. cut \in Nat /\ cut <= period * s[2]
    <3> DEFINE product == period * s[2]
    <3>1. product \in Nat
      BY <1>4
    <3> HIDE DEF product
    <3>2. product % Word \in Nat /\ product % Word <= product
      BY <1>2, <3>1, Remainder
    <3> QED
      BY <3>2 DEF product
  <2> HIDE DEF cut, period
  <2> QED
    BY <1>3, <1>4, <2>1
<1>6. cut \div 100 \in Nat /\ cut \div 100 <= period
  <2> HIDE DEF cut, period
  <2> QED
    BY <1>3, <1>5, Hundredth
<1>7. Apply(ch, [enabled |-> TRUE, period |-> period, duty |-> cut \div 100])
  BY DEF dx_pwmSetDutyCycle
<1> HIDE DEF cut, period
<1>8. period \in 0..(Word - 1) /\ cut \div 100 \in 0..(Word - 1)
  BY <1>2, <1>3, <1>6
<1> DEFINE state == [enabled |-> TRUE, period |-> period, duty |-> cut \div 100]
<1>9. /\ state \in [enabled : BOOLEAN, period : 0..(Word - 1), duty : 0..(Word - 1)]
      /\ state.duty <= state.period
  BY <1>6, <1>8
<1>10. Apply(ch, state)
  BY <1>7
<1> HIDE DEF state
<1> QED
  BY <1>9, <1>10, ApplyTells

LEMMA NextTells == Told /\ [Next]_vars => Told'
<1> SUFFICES ASSUME Told, [Next]_vars PROVE Told'
  OBVIOUS
<1>1. CASE UNCHANGED pwm
  BY <1>1 DEF Told, Pulses, PulseFits
<1>2. ASSUME NEW ch \in Channels, dx_pwmStop(ch)
      PROVE  Told'
  <2>1. /\ OffState \in [enabled : BOOLEAN, period : 0..(Word - 1), duty : 0..(Word - 1)]
        /\ OffState.duty <= OffState.period
    BY ApplibsAssumption DEF ApplibsAssumption, OffState
  <2> QED
    BY <1>2, <2>1, ApplyTells DEF dx_pwmStop
<1>3. ASSUME NEW ch \in Channels, NEW s \in Settings, dx_pwmSetDutyCycle(ch, s[1], s[2])
      PROVE  Told'
  BY <1>3, SetDutyTells
<1> QED
  BY <1>1, <1>2, <1>3 DEF Next, Open, Close, SetOpenBegin, SetOpenNext, dx_gpioStateSet,
     dx_gpioStateGet, vars

\* For every frequency and percentage dx_pwmSetDutyCycle accepts, the time a
\* channel is on is no longer than its period: the 32-bit product can make it
\* too short, never too long.
THEOREM PulsesFit == Spec => []PulseFits
<1>1. Init => Told
  BY ApplibsAssumption DEF Init, Told, Pulses, PulseFits, OffState, ApplibsAssumption
<1>2. Told => PulseFits
  BY DEF Told
<1> QED
  BY <1>1, <1>2, NextTells, PTL DEF Spec

\* What is left of the types: the bindings to come, the exit code, the initial
\* states, and that what counts as opened has a descriptor.
Rest ==
  /\ \A d \in Devices : opened[d] => fd[d] # NoFd
  /\ initialState \in [Pins -> BOOLEAN]
  /\ job \in Seq(Bindings)
  /\ exit_code \in {"none", "Gpio_Read"} \cup GpioUseCodes \cup I2cOpenCodes
  /\ DOMAIN device \subseteq FDs
  /\ refused \subseteq FDs

LEMMA OpenRest ==
  ASSUME Owned, Rest, NEW b \in Bindings, Opens(b) \/ Fails(b), job' \in Seq(Bindings)
  PROVE  Rest'
<1>0. NoFd \notin FDs
  BY ApplibsAssumption DEF ApplibsAssumption
<1>1. CASE b \in Pins /\ PinOpens(b)
  <2>1. initialState' \in [Pins -> BOOLEAN]
    BY <1>1 DEF Rest, PinOpens, InvertInitialState
  <2>2. Gets(b) /\ MarkOpened(b) /\ UNCHANGED <<exit_code, refused>>
    BY <1>1 DEF PinOpens
  <2> QED
    BY <1>0, <2>1, <2>2 DEF Owned, Shape, Rest, Gets, MarkOpened
<1>2. CASE b \in Interfaces /\ BusOpens(b)
  BY <1>0, <1>2 DEF Owned, Shape, Rest, BusOpens, Gets, MarkOpened
<1>3. CASE b \in Channels /\ ControllerOpens(ControllerOf[b])
  BY <1>0, <1>3 DEF Owned, Shape, Rest, ControllerOpens, Gets, MarkOpened
<1>4. CASE IsOpen(b) /\ UNCHANGED <<bindingVars, exit_code, device, refused>>
  BY <1>4 DEF Rest, bindingVars
<1>8. CASE PinRefused(b)
  BY <1>8 DEF PinRefused, Rest, bindingVars
<1>5. CASE b \in Pins /\ PinFails(b)
  <2>1. initialState' \in [Pins -> BOOLEAN]
    BY <1>5 DEF Rest, PinFails, InvertInitialState
  <2>2. exit_code' \in GpioUseCodes /\ UNCHANGED <<opened, refused, device>>
    BY <1>5 DEF PinFails, GetsNone, GpioUseCodes
  <2>3. UNCHANGED fd \/ (fd' = [fd EXCEPT ![b] = NoFd] /\ ~opened[b])
    BY <1>5 DEF PinFails, GetsNone
  <2> QED
    BY <2>1, <2>2, <2>3 DEF Owned, Shape, Rest
<1>6. CASE b \in Interfaces /\ BusFails(b)
  <2>1. b \in Devices /\ ~opened[b] /\ UNCHANGED <<opened, initialState>>
    BY <1>6 DEF Devices, BusFails
  <2>2. CASE GetsNone(b) /\ exit_code' = "I2C_Open_Failed" /\ UNCHANGED refused
    BY <2>1, <2>2 DEF Owned, Shape, Rest, GetsNone, I2cOpenCodes
  <2>3. CASE /\ Gets(b) /\ refused' = refused \cup {fd'[b]}
             /\ exit_code' \in I2cOpenCodes \ {"I2C_Open_Failed"}
    BY <1>0, <2>1, <2>3 DEF Owned, Shape, Rest, Gets
  <2> QED
    BY <1>6, <2>2, <2>3 DEF BusFails
<1>7. CASE b \in Channels /\ ControllerFails(ControllerOf[b])
  BY <1>7 DEF Owned, Shape, Rest, ControllerFails, GetsNone
<1> QED
  BY <1>1, <1>2, <1>3, <1>4, <1>5, <1>6, <1>7, <1>8 DEF Opens, Fails

LEMMA CloseRest ==
  ASSUME Owned, Rest, NEW bs, Close(bs)
  PROVE  Rest'
<1>1. CASE bs \subseteq Pins /\ PinsClose(bs)
  BY <1>1 DEF Close, Owned, Shape, Rest, PinsClose, Closed
<1>2. CASE BusesClose(bs)
  BY <1>2 DEF Close, Owned, Shape, Rest, BusesClose, Closed
<1>3. CASE ChannelsClose(bs)
  BY <1>3 DEF Close, Owned, Shape, Rest, ChannelsClose, Closed
<1> QED
  BY <1>1, <1>2, <1>3 DEF Close

LEMMA NextRest == Owned /\ Rest /\ [Next]_vars => Rest'
<1> SUFFICES ASSUME Owned, Rest, [Next]_vars PROVE Rest'
  OBVIOUS
<1>1. ASSUME NEW b \in Bindings, Open(b)
      PROVE  Rest'
  BY <1>1, OpenRest DEF Open, Rest
<1>2. ASSUME NEW s \in Sets, SetOpenBegin(s)
      PROVE  Rest'
  BY <1>2, ApplibsAssumption DEF Rest, SetOpenBegin, bindingVars, ApplibsAssumption
<1>3. CASE SetOpenNext
  <2>1. Head(job) \in Bindings /\ Tail(job) \in Seq(Bindings) /\ <<>> \in Seq(Bindings)
    BY <1>3 DEF SetOpenNext, Rest
  <2> QED
    BY <1>3, <2>1, OpenRest DEF SetOpenNext
<1>4. ASSUME NEW p \in Pins, dx_gpioStateSet(p) \/ dx_gpioStateGet(p)
      PROVE  Rest'
  BY <1>4 DEF Rest, dx_gpioStateSet, dx_gpioStateGet, bindingVars, GpioUseCodes
<1>5. CASE UNCHANGED <<bindingVars, job, exit_code, device, refused>>
  BY <1>5 DEF Rest, bindingVars
<1> QED
  BY <1>1, <1>2, <1>3, <1>4, <1>5, CloseRest DEF Next, vars, dx_pwmStop, dx_pwmSetDutyCycle

\* Every variable of the bindings and of the system keeps its type: the widths
\* of what a channel is told among them.
THEOREM ApplibsTypes == Spec => []TypeOK
<1>1. Init => Rest
  BY DEF Init, Rest, Bindings
<1>2. Init => Told
  BY ApplibsAssumption DEF Init, Told, Pulses, PulseFits, OffState, ApplibsAssumption
<1>3. Owned /\ Told /\ Rest => TypeOK
  BY DEF Owned, Shape, Told, Pulses, Rest, TypeOK
<1> QED
  BY <1>1, <1>2, <1>3, AlwaysOwned, NextTells, NextRest, PTL DEF Spec
=============================================================================

------------------------------- MODULE DxGpio -------------------------------
(***************************************************************************)
(* dx_gpio.c over libgpiod v2: bindings share the handle of their chip,    *)
(* which is opened by the first and closed with the last.                  *)
(***************************************************************************)
EXTENDS Integers, FiniteSets, Sequences

CONSTANTS
  Bindings,
  Chips,            \* the entries of gpio_chips
  ChipOf, LineOf,   \* chip_number and line_number of a binding
  Direction,        \* of a binding: "unknown", "input" or "output"
  Sets,             \* arrays passed to dx_gpioSetOpen and dx_gpioSetClose
  Handles           \* struct gpiod_chip *, those gpiod_chip_open can return

NULL == 0

ASSUME GpioAssumption ==
  /\ ChipOf \in [Bindings -> Int] /\ LineOf \in [Bindings -> Int]
  /\ Direction \in [Bindings -> {"unknown", "input", "output"}]
  /\ IsFiniteSet(Bindings)
  /\ Chips \subseteq Nat
  /\ Sets \subseteq Seq(Bindings)
  /\ NULL \notin Handles

VARIABLES
  chip, count,   \* gpio_chips
  line_handle,   \* __line_handle of the bindings: the chip handle it was requested on, or NULL
  job,           \* dx_gpioSetOpen: the bindings still to be opened
  opened         \* libgpiod: chip handles that are open

vars == <<chip, count, line_handle, job, opened>>

TypeOK ==
  /\ chip \in [Chips -> Handles \cup {NULL}]
  /\ count \in [Chips -> Nat]
  /\ line_handle \in [Bindings -> Handles \cup {NULL}]
  /\ job \in Seq(Bindings)
  /\ opened \subseteq Handles

Init ==
  /\ chip = [c \in Chips |-> NULL]
  /\ count = [c \in Chips |-> 0]
  /\ line_handle = [b \in Bindings |-> NULL]
  /\ job = <<>>
  /\ opened = {}

-----------------------------------------------------------------------------

Valid(b) == Direction[b] # "unknown" /\ ChipOf[b] \in Chips /\ LineOf[b] >= 0

\* The kernel gives a line to one request at a time.
LineFree(b) ==
  \A o \in Bindings : line_handle[o] # NULL => ChipOf[o] # ChipOf[b] \/ LineOf[o] # LineOf[b]

\* gpiod_chip_open, for a chip that is not open yet.
gpiod_chip_open(c) ==
  \E h \in Handles \ opened :
    /\ opened' = opened \cup {h}
    /\ chip' = [chip EXCEPT ![c] = h]

NoOpen(b) == line_handle[b] # NULL \/ ~Valid(b)

\* Slip: an allocation or a request that failed is not cleaned up after.
RequestFailsKeepsChip(b) ==
  LET c == ChipOf[b]
  IN /\ Valid(b) /\ line_handle[b] = NULL
     /\ chip[c] = NULL
     /\ gpiod_chip_open(c)
     /\ UNCHANGED <<count, line_handle>>

\* A new handle for the chip, or the one there is, and the line requested on it.
OpenSucceeds(b) ==
  LET c == ChipOf[b]
  IN /\ Valid(b) /\ line_handle[b] = NULL
     /\ LineFree(b)
     /\ IF chip[c] = NULL THEN gpiod_chip_open(c) ELSE UNCHANGED <<chip, opened>>
     /\ line_handle' = [line_handle EXCEPT ![b] = chip'[c]]
     /\ count' = [count EXCEPT ![c] = @ + 1]

\* The chip cannot be opened.
ChipOpenFails(b) ==
  /\ Valid(b) /\ line_handle[b] = NULL
  /\ chip[ChipOf[b]] = NULL
  /\ UNCHANGED <<chip, count, line_handle, opened>>

\* An allocation or the request fails: close_chip closes the chip unless another
\* binding uses it, so one opened just before is closed again.
RequestFails(b) ==
  LET c == ChipOf[b]
  IN /\ Valid(b) /\ line_handle[b] = NULL
     /\ IF count[c] = 0
          THEN chip' = [chip EXCEPT ![c] = NULL] /\ opened' = opened \ {chip[c]}
          ELSE UNCHANGED <<chip, opened>>
     /\ UNCHANGED <<count, line_handle>>

OpenFails(b) == ChipOpenFails(b) \/ RequestFails(b)

\* Open already, or its parameters are refused.
OpenDoesNothing(b) == NoOpen(b) /\ UNCHANGED <<chip, count, line_handle, opened>>

dx_gpioOpen(b) ==
  /\ job = <<>>
  /\ OpenSucceeds(b) \/ OpenFails(b)
  /\ UNCHANGED job

\* dx_gpioSetOpen: one after the other, up to the first that fails.
SetOpenBegin(s) ==
  /\ job = <<>>
  /\ job' = s
  /\ UNCHANGED <<chip, count, line_handle, opened>>

SetOpenNext ==
  /\ job # <<>>
  /\ LET b == Head(job)
     IN \/ /\ OpenSucceeds(b) \/ (line_handle[b] # NULL /\ OpenDoesNothing(b))
           /\ job' = Tail(job)
        \/ /\ OpenFails(b) \/ (~Valid(b) /\ OpenDoesNothing(b))
           /\ job' = <<>>

\* Slip: the handle of the last line's chip is forgotten, not closed.
CloseForgetsChip(bs) ==
  LET held(c) == {b \in bs : line_handle[b] # NULL /\ ChipOf[b] = c}
  IN /\ line_handle' = [b \in Bindings |-> IF b \in bs THEN NULL ELSE line_handle[b]]
     /\ count' = [c \in Chips |-> count[c] - Cardinality(held(c))]
     /\ chip' = [c \in Chips |-> IF held(c) # {} /\ count'[c] = 0 THEN NULL ELSE chip[c]]
     /\ UNCHANGED opened

\* What dx_gpioClose leaves when it is called on each of the bindings in bs.
Close(bs) ==
  LET held(c) == {b \in bs : line_handle[b] # NULL /\ ChipOf[b] = c}
      done == {c \in Chips : held(c) # {} /\ count[c] = Cardinality(held(c))}
  IN /\ line_handle' = [b \in Bindings |-> IF b \in bs THEN NULL ELSE line_handle[b]]
     /\ count' = [c \in Chips |-> count[c] - Cardinality(held(c))]
     /\ chip' = [c \in Chips |-> IF c \in done THEN NULL ELSE chip[c]]
     /\ opened' = opened \ {chip[c] : c \in done}

dx_gpioClose(b) ==
  /\ job = <<>>
  /\ Close({b})
  /\ UNCHANGED job

dx_gpioSetClose(s) ==
  /\ job = <<>>
  /\ Close({s[i] : i \in DOMAIN s})
  /\ UNCHANGED job

Next ==
  \/ \E b \in Bindings : dx_gpioOpen(b) \/ dx_gpioClose(b)
  \/ \E s \in Sets : SetOpenBegin(s) \/ dx_gpioSetClose(s)
  \/ SetOpenNext

Spec == Init /\ [][Next]_vars

-----------------------------------------------------------------------------

Holders(c) == {b \in Bindings : line_handle[b] # NULL /\ ChipOf[b] = c}

\* A chip is counted for every line requested on it and open exactly as long as
\* there is one: no line is left on a chip that has been closed, and no chip is
\* left open, whatever failed on the way.
ChipsCounted ==
  \A c \in Chips :
    /\ count[c] = Cardinality(Holders(c))
    /\ chip[c] # NULL <=> Holders(c) # {}
    /\ \A b \in Holders(c) : line_handle[b] = chip[c]

\* The table knows every chip handle the kernel has open.
NoHandleLost == opened = {chip[c] : c \in Chips} \ {NULL}
=============================================================================

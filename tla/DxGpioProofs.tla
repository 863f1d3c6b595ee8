---------------------------- MODULE DxGpioProofs ----------------------------
(***************************************************************************)
(* The chip handles of dx_gpio.c for any bindings, chips and sets.         *)
(***************************************************************************)
EXTENDS DxGpio, FiniteSetTheorems, TLAPS

(***************************************************************************)
(* The strengthening: two chips never have the same handle, so closing one *)
(* leaves the other's open.                                                *)
(***************************************************************************)
Distinct == \A c, d \in Chips : chip[c] = chip[d] /\ chip[c] # NULL => c = d

Table == TypeOK /\ ChipsCounted /\ NoHandleLost /\ Distinct

LEMMA Finite ==
  ASSUME NEW S, S \subseteq Bindings
  PROVE  IsFiniteSet(S) /\ Cardinality(S) \in Nat
BY FS_Subset, FS_CardinalityType, GpioAssumption DEF GpioAssumption

LEMMA HoldersFinite ==
  \A c : Holders(c) \subseteq Bindings /\ IsFiniteSet(Holders(c)) /\ Cardinality(Holders(c)) \in Nat
BY Finite DEF Holders

LEMMA GpioInit == Init => Table
<1> SUFFICES ASSUME Init PROVE Table
  OBVIOUS
<1>1. TypeOK
  BY DEF Init, TypeOK
<1>2. \A c \in Chips : Holders(c) = {}
  BY DEF Init, Holders
<1>3. ChipsCounted
  BY <1>2, FS_EmptySet DEF Init, ChipsCounted
<1>4. NoHandleLost /\ Distinct
  BY DEF Init, NoHandleLost, Distinct
<1> QED
  BY <1>1, <1>3, <1>4 DEF Table

\* The binding opened is one more holder of its chip.
LEMMA OpenSucceedsStep ==
  ASSUME Table, NEW b \in Bindings, OpenSucceeds(b), job' \in Seq(Bindings)
  PROVE  Table'
<1> DEFINE c == ChipOf[b]
<1> USE GpioAssumption DEF GpioAssumption
<1>1. c \in Chips /\ line_handle[b] = NULL
  BY DEF OpenSucceeds, Valid
<1>2. /\ chip' \in [Chips -> Handles \cup {NULL}] /\ chip'[c] \in Handles
      /\ \A d \in Chips \ {c} : chip'[d] = chip[d]
      /\ chip[c] # NULL => chip' = chip /\ opened' = opened
      /\ chip[c] = NULL => chip'[c] \notin opened /\ opened' = opened \cup {chip'[c]}
  <2>1. CASE chip[c] = NULL
    <3>1. PICK h \in Handles \ opened : opened' = opened \cup {h} /\ chip' = [chip EXCEPT ![c] = h]
      BY <2>1 DEF OpenSucceeds, gpiod_chip_open
    <3> QED
      BY <1>1, <2>1, <3>1 DEF Table, TypeOK
  <2>2. CASE chip[c] # NULL
    BY <1>1, <2>2 DEF OpenSucceeds, Table, TypeOK
  <2> QED
    BY <2>1, <2>2
<1>3. /\ line_handle' = [line_handle EXCEPT ![b] = chip'[c]]
      /\ count' = [count EXCEPT ![c] = @ + 1]
  BY DEF OpenSucceeds
<1>4. Holders(c)' = Holders(c) \cup {b} /\ b \notin Holders(c)
  BY <1>1, <1>2, <1>3 DEF Holders, Table, TypeOK
<1>5. \A d \in Chips \ {c} : Holders(d)' = Holders(d)
  BY <1>1, <1>2, <1>3 DEF Holders, Table, TypeOK
<1>6. Cardinality(Holders(c)') = Cardinality(Holders(c)) + 1
  BY <1>4, HoldersFinite, FS_AddElement
<1>7. TypeOK'
  BY <1>1, <1>2, <1>3 DEF Table, TypeOK
<1>8. ASSUME NEW d \in Chips
      PROVE  /\ count'[d] = Cardinality(Holders(d)')
             /\ chip'[d] # NULL <=> Holders(d)' # {}
             /\ \A o \in Holders(d)' : line_handle'[o] = chip'[d]
  <2>1. CASE d = c
    <3>1. \A o \in Holders(c) : chip'[c] = chip[c] /\ line_handle[o] = chip[c] /\ o # b
      BY <1>1, <1>2, <1>4 DEF Table, ChipsCounted
    <3>2. \A o \in Holders(c)' : line_handle'[o] = chip'[c]
      BY <1>3, <1>4, <3>1, HoldersFinite DEF Table, TypeOK
    <3>3. count'[c] = Cardinality(Holders(c)')
      BY <1>1, <1>3, <1>6 DEF Table, TypeOK, ChipsCounted
    <3> QED
      BY <1>1, <1>2, <1>4, <2>1, <3>2, <3>3
  <2>2. CASE d # c
    <3>1. \A o \in Holders(d) : o # b
      BY <1>1 DEF Holders
    <3> QED
      BY <1>2, <1>3, <1>5, <2>2, <3>1, HoldersFinite DEF Table, TypeOK, ChipsCounted
  <2> QED
    BY <2>1, <2>2
<1>9. ChipsCounted'
  BY <1>8 DEF ChipsCounted
<1>10. NoHandleLost'
  <2>1. CASE chip[c] = NULL
    <3>1. {chip'[d] : d \in Chips} \ {NULL} = ({chip[d] : d \in Chips} \ {NULL}) \cup {chip'[c]}
      <4> DEFINE old == {chip[d] : d \in Chips} \ {NULL}
                 new == {chip'[d] : d \in Chips} \ {NULL}
      <4>1. ASSUME NEW x \in new PROVE x \in old \cup {chip'[c]}
        BY <1>1, <1>2
      <4>2. ASSUME NEW x \in old PROVE x \in new
        <5>1. PICK d \in Chips : x = chip[d]
          OBVIOUS
        <5>2. d # c
          BY <2>1, <5>1
        <5> QED
          BY <1>2, <5>1, <5>2
      <4>3. chip'[c] \in new
        BY <1>1, <1>2
      <4> QED
        BY <4>1, <4>2, <4>3
    <3> QED
      BY <1>2, <2>1, <3>1 DEF Table, NoHandleLost
  <2>2. CASE chip[c] # NULL
    BY <1>2, <2>2 DEF Table, NoHandleLost
  <2> QED
    BY <2>1, <2>2
<1>11. Distinct'
  <2>1. CASE chip[c] = NULL
    <3>1. \A d \in Chips \ {c} : chip[d] # chip'[c]
      BY <1>2, <2>1 DEF Table, NoHandleLost
    <3> QED
      BY <1>1, <1>2, <3>1 DEF Table, Distinct
  <2>2. CASE chip[c] # NULL
    BY <1>2, <2>2 DEF Table, Distinct
  <2> QED
    BY <2>1, <2>2
<1> QED
  BY <1>7, <1>9, <1>10, <1>11 DEF Table

\* Nothing changes but what is still to be opened.
LEMMA SameTable ==
  ASSUME Table, UNCHANGED <<chip, count, line_handle, opened>>, job' \in Seq(Bindings)
  PROVE  Table'
<1>1. \A c : Holders(c)' = Holders(c)
  BY DEF Holders
<1>2. TypeOK'
  BY DEF Table, TypeOK
<1>3. ChipsCounted'
  BY <1>1 DEF Table, ChipsCounted
<1>4. NoHandleLost' /\ Distinct'
  BY DEF Table, NoHandleLost, Distinct
<1> QED
  BY <1>2, <1>3, <1>4 DEF Table

\* A chip without holders is not open: what close_chip closes was opened just before.
LEMMA OpenFailsStep ==
  ASSUME Table, NEW b \in Bindings, OpenFails(b), job' \in Seq(Bindings)
  PROVE  Table'
<1>1. CASE ChipOpenFails(b)
  BY <1>1, SameTable DEF ChipOpenFails
<1>2. CASE RequestFails(b)
  <2> DEFINE c == ChipOf[b]
  <2>1. c \in Chips /\ UNCHANGED <<count, line_handle>>
    BY <1>2 DEF RequestFails, Valid
  <2>2. CASE count[c] # 0
    BY <1>2, <2>1, <2>2, SameTable DEF RequestFails
  <2>3. CASE count[c] = 0
    <3>1. Holders(c) = {}
      BY <2>1, <2>3, HoldersFinite, FS_EmptySet DEF Table, ChipsCounted
    <3>2. chip[c] = NULL
      BY <2>1, <3>1 DEF Table, ChipsCounted
    <3>3. chip' = chip
      BY <1>2, <2>1, <2>3, <3>2 DEF RequestFails, Table, TypeOK
    <3>4. opened' = opened
      BY <1>2, <2>1, <2>3, <3>2 DEF RequestFails, Table, NoHandleLost
    <3> QED
      BY <2>1, <3>3, <3>4, SameTable
  <2> QED
    BY <2>2, <2>3
<1> QED
  BY <1>1, <1>2 DEF OpenFails

\* Closing takes the bindings out of the holders, and closes the chips left
\* with none.
LEMMA CloseStep ==
  ASSUME Table, NEW bs \in SUBSET Bindings, Close(bs), job' \in Seq(Bindings)
  PROVE  Table'
<1> USE GpioAssumption DEF GpioAssumption
<1> DEFINE held(c) == {b \in bs : line_handle[b] # NULL /\ ChipOf[b] = c}
           done == {c \in Chips : held(c) # {} /\ count[c] = Cardinality(held(c))}
<1>1. /\ line_handle' = [b \in Bindings |-> IF b \in bs THEN NULL ELSE line_handle[b]]
      /\ count' = [c \in Chips |-> count[c] - Cardinality(held(c))]
      /\ chip' = [c \in Chips |-> IF c \in done THEN NULL ELSE chip[c]]
      /\ opened' = opened \ {chip[c] : c \in done}
  BY DEF Close
<1> HIDE DEF done
<1>2. \A c \in Chips : Holders(c)' = Holders(c) \ held(c) /\ held(c) \subseteq Holders(c)
  BY <1>1 DEF Holders
<1>3. ASSUME NEW c \in Chips
      PROVE  /\ Cardinality(Holders(c)') = Cardinality(Holders(c)) - Cardinality(held(c))
             /\ Cardinality(Holders(c)') \in Nat
  <2>1. Holders(c) \cap held(c) = held(c)
    BY <1>2
  <2>2. Cardinality(Holders(c) \ held(c)) = Cardinality(Holders(c)) - Cardinality(Holders(c) \cap held(c))
    BY HoldersFinite, FS_Difference
  <2>3. Cardinality(Holders(c) \ held(c)) \in Nat
    BY HoldersFinite, Finite
  <2> QED
    BY <1>2, <2>1, <2>2, <2>3
<1>4. \A c \in Chips : count'[c] = Cardinality(Holders(c)')
  BY <1>1, <1>3 DEF Table, ChipsCounted
<1>5. \A c \in Chips : c \in done <=> held(c) # {} /\ Holders(c)' = {}
  <2> SUFFICES ASSUME NEW c \in Chips PROVE c \in done <=> held(c) # {} /\ Holders(c)' = {}
    OBVIOUS
  <2>1. IsFiniteSet(Holders(c)')
    BY <1>2, HoldersFinite, FS_Subset
  <2>2. Holders(c)' = {} <=> Cardinality(Holders(c)') = 0
    BY <2>1, FS_EmptySet
  <2>3. Cardinality(held(c)) \in Nat /\ Cardinality(Holders(c)) \in Nat
    BY HoldersFinite, Finite
  <2>4. count[c] = Cardinality(Holders(c))
    BY DEF Table, ChipsCounted
  <2> QED
    BY <1>3, <2>2, <2>3, <2>4 DEF done
<1>6. TypeOK'
  <2>1. count' \in [Chips -> Nat]
    BY <1>1, <1>3, <1>4
  <2> QED
    BY <1>1, <2>1 DEF Table, TypeOK
<1>7. ASSUME NEW c \in Chips
      PROVE  /\ chip'[c] # NULL <=> Holders(c)' # {}
             /\ \A b \in Holders(c)' : line_handle'[b] = chip'[c]
  <2>1. chip[c] # NULL <=> Holders(c) # {}
    BY DEF Table, ChipsCounted
  <2>2. chip'[c] = IF c \in done THEN NULL ELSE chip[c]
    BY <1>1
  <2>3. chip'[c] # NULL <=> Holders(c)' # {}
    BY <1>2, <1>5, <2>1, <2>2
  <2>4. ASSUME NEW b \in Holders(c)' PROVE line_handle'[b] = chip'[c]
    <3>1. b \in Holders(c) /\ b \notin bs /\ b \in Bindings
      BY <1>2, <2>4 DEF Holders
    <3>2. line_handle'[b] = line_handle[b] /\ line_handle[b] = chip[c]
      BY <1>1, <3>1 DEF Table, ChipsCounted
    <3> QED
      BY <1>5, <2>2, <2>4, <3>2
  <2> QED
    BY <2>3, <2>4
<1>8. ChipsCounted'
  BY <1>4, <1>7 DEF ChipsCounted
<1>9. Distinct'
  BY <1>1 DEF Table, Distinct
<1>10. done \subseteq Chips
  BY DEF done
<1>11. NoHandleLost'
  <2>1. \A c \in Chips, d \in done : chip[c] = chip[d] /\ chip[c] # NULL => c \in done
    BY <1>10 DEF Table, Distinct
  <2>2. {chip'[c] : c \in Chips} \ {NULL} = ({chip[c] : c \in Chips} \ {NULL}) \ {chip[c] : c \in done}
    BY <1>1, <1>10, <2>1
  <2> QED
    BY <1>1, <2>2 DEF Table, NoHandleLost
<1> QED
  BY <1>6, <1>8, <1>9, <1>11 DEF Table

LEMMA GpioStep == Table /\ [Next]_vars => Table'
<1> SUFFICES ASSUME Table, [Next]_vars PROVE Table'
  OBVIOUS
<1>0. job \in Seq(Bindings)
  BY DEF Table, TypeOK
<1>1. ASSUME NEW b \in Bindings, dx_gpioOpen(b) PROVE Table'
  BY <1>0, <1>1, OpenSucceedsStep, OpenFailsStep DEF dx_gpioOpen
<1>2. ASSUME NEW b \in Bindings, dx_gpioClose(b) PROVE Table'
  BY <1>0, <1>2, CloseStep DEF dx_gpioClose
<1>3. ASSUME NEW s \in Sets, SetOpenBegin(s) PROVE Table'
  BY <1>3, SameTable, GpioAssumption DEF SetOpenBegin, GpioAssumption
<1>4. ASSUME NEW s \in Sets, dx_gpioSetClose(s) PROVE Table'
  <2>1. {s[i] : i \in DOMAIN s} \in SUBSET Bindings
    BY GpioAssumption DEF GpioAssumption
  <2> QED
    BY <1>0, <1>4, <2>1, CloseStep DEF dx_gpioSetClose
<1>5. CASE SetOpenNext
  <2>1. Head(job) \in Bindings /\ Tail(job) \in Seq(Bindings) /\ <<>> \in Seq(Bindings)
    BY <1>0, <1>5 DEF SetOpenNext
  <2>2. job' \in Seq(Bindings)
    BY <1>5, <2>1 DEF SetOpenNext
  <2>3. \/ OpenSucceeds(Head(job)) \/ OpenFails(Head(job))
        \/ UNCHANGED <<chip, count, line_handle, opened>>
    BY <1>5 DEF SetOpenNext, OpenDoesNothing
  <2> QED
    BY <2>1, <2>2, <2>3, OpenSucceedsStep, OpenFailsStep, SameTable
<1>6. CASE UNCHANGED vars
  BY <1>0, <1>6, SameTable DEF vars
<1> QED
  BY <1>1, <1>2, <1>3, <1>4, <1>5, <1>6 DEF Next

THEOREM TableInvariant == Spec => []Table
BY GpioInit, GpioStep, PTL DEF Spec

\* The reference count of every chip is the number of lines requested on it, and
\* the chip is open exactly while there is one.
THEOREM Counted == Spec => []ChipsCounted
<1>1. Table => ChipsCounted
  BY DEF Table
<1> QED
  BY <1>1, TableInvariant, PTL

\* No chip handle stays open that the table has forgotten.
THEOREM NoneLost == Spec => []NoHandleLost
<1>1. Table => NoHandleLost
  BY DEF Table
<1> QED
  BY <1>1, TableInvariant, PTL

\* Chips, counts and line handles keep their types, however opens and closes
\* of bindings and sets follow each other.
THEOREM GpioTypes == Spec => []TypeOK
<1>1. Table => TypeOK
  BY DEF Table
<1> QED
  BY <1>1, TableInvariant, PTL
=============================================================================

--------------------------- MODULE DxOpenAiProofs ---------------------------
(***************************************************************************)
(* dx_openai_functions.c, dx_jsonSerialize and the text they share: what   *)
(* is proved of DxOpenAiFunctions for all documents, texts, answers and    *)
(* triples.                                                                *)
(***************************************************************************)
EXTENDS DxOpenAiProperties, FiniteSetTheorems, SequenceTheorems, NaturalsInduction, TLAPS

-----------------------------------------------------------------------------
(* Numbers.                                                                *)

\* A set of numbers that is not empty has a least one.
LEMMA LeastOf ==
  ASSUME NEW S, S \subseteq Nat, S # {}
  PROVE  \E x \in S : \A y \in S : x <= y
<1> DEFINE R == {ss \in Nat \X Nat : ss[1] < ss[2]}
<1>1. PICK x \in S : \A y \in S : ~(<<y, x>> \in R)
  <2>1. IsWellFoundedOn(R, Nat)
    BY NatLessThanWellFounded, Zenon DEF OpToRel
  <2> HIDE DEF R
  <2> QED
    BY <2>1, WFMin
<1>2. ASSUME NEW y \in S PROVE x <= y
  <2>1. x \in Nat /\ y \in Nat /\ <<y, x>> \in Nat \X Nat
    OBVIOUS
  <2>2. ~(<<y, x>>[1] < <<y, x>>[2])
    BY <1>1, <2>1
  <2> QED
    BY <2>1, <2>2
<1> QED
  BY <1>2

\* Induction, over a set.
LEMMA Inductive ==
  ASSUME NEW n \in Nat, NEW S, 0 \in S, \A x \in 1..n : x - 1 \in S => x \in S
  PROVE  0..n \subseteq S
<1> SUFFICES ASSUME ~(0..n \subseteq S) PROVE FALSE
  OBVIOUS
<1>1. (0..n) \ S \subseteq Nat /\ (0..n) \ S # {}
  OBVIOUS
<1>2. PICK x \in (0..n) \ S : \A y \in (0..n) \ S : x <= y
  BY <1>1, LeastOf
<1>3. x \in 1..n /\ x - 1 \in 0..n
  BY <1>2
<1>4. x - 1 \in S
  BY <1>2, <1>3
<1> QED
  BY <1>2, <1>3, <1>4

\* ... and over all numbers.
LEMMA InductiveNat ==
  ASSUME NEW S, 0 \in S, \A x \in Nat : x \in S => x + 1 \in S
  PROVE  Nat \subseteq S
<1> SUFFICES ASSUME NEW n \in Nat PROVE n \in S
  OBVIOUS
<1>1. \A x \in 1..n : x - 1 \in S => x \in S
  <2> TAKE x \in 1..n
  <2>1. x - 1 \in Nat /\ (x - 1) + 1 = x
    OBVIOUS
  <2> QED
    BY <2>1
<1> QED
  BY <1>1, Inductive

\* Induction from a number on downwards, from all that are above.
LEMMA Backward ==
  ASSUME NEW n \in Nat, NEW S, \A k \in 1..n : (k + 1)..n \subseteq S => k \in S
  PROVE  1..n \subseteq S
<1> DEFINE G == {m \in Nat : \A k \in 1..n : k > n - m => k \in S}
<1>1. 0 \in G
  OBVIOUS
<1>2. ASSUME NEW x \in Nat, x \in G PROVE x + 1 \in G
  <2> SUFFICES ASSUME NEW k \in 1..n, k > n - (x + 1) PROVE k \in S
    OBVIOUS
  <2>1. (k + 1)..n \subseteq S
    BY <1>2
  <2> QED
    BY <2>1
<1>3. Nat \subseteq G
  <2> HIDE DEF G
  <2> QED
    BY <1>1, <1>2, InductiveNat
<1>4. n \in G
  <2> HIDE DEF G
  <2> QED
    BY <1>3
<1> QED
  BY <1>4

\* What Min and Max of FiniteSetsExt are.
LEMMA MinIs ==
  ASSUME NEW S, S \subseteq Nat, S # {}
  PROVE  Min(S) \in S /\ \A y \in S : Min(S) <= y
BY LeastOf DEF Min

\* A least number of a set is its Min.
LEMMA MinUnique ==
  ASSUME NEW S, S \subseteq Nat, NEW x \in S, \A y \in S : x <= y
  PROVE  Min(S) = x
<1>1. Min(S) \in S /\ \A y \in S : Min(S) <= y
  BY MinIs
<1>2. Min(S) <= x /\ x <= Min(S) /\ Min(S) \in Nat /\ x \in Nat
  BY <1>1
<1> QED
  BY <1>2

\* ... and Max of some numbers up to n.
LEMMA MaxIs ==
  ASSUME NEW n \in Nat, NEW S, S \subseteq 1..n, S # {}
  PROVE  Max(S) \in S /\ \A y \in S : Max(S) >= y
<1> DEFINE T == {n - y : y \in S}
<1>1. T \subseteq Nat
  OBVIOUS
<1>2. T # {}
  OBVIOUS
<1>3. PICK t \in T : \A y \in T : t <= y
  BY <1>2, <1>1, LeastOf
<1>4. PICK x \in S : t = n - x
  OBVIOUS
<1>5. \A y \in S : n - x <= n - y
  BY <1>3, <1>4
<1>6. \A y \in S : x >= y
  BY <1>5
<1> QED
  BY <1>6 DEF Max

-----------------------------------------------------------------------------
(* Places in a text.                                                       *)

\* The characters that the parser and the serialiser know.
LEMMA Known ==
  /\ "[" \in Symbols /\ "]" \in Symbols /\ "LBRACE" \in Symbols /\ "RBRACE" \in Symbols /\ "COMMA" \in Symbols
  /\ ":" \in Symbols /\ "QUOTE" \in Symbols /\ "\\" \in Symbols /\ "/" \in Symbols /\ "n" \in Symbols
  /\ "u" \in Symbols /\ "0000" \in Symbols /\ "-" \in Symbols /\ "0" \in Symbols
  /\ "null" \in Symbols /\ "true" \in Symbols /\ "false" \in Symbols
  /\ "LF" \in Symbols /\ "NUL" \in Symbols /\ "A" \in Symbols /\ "SMILE" \in Symbols
BY SymbolsAssumption, Zenon DEF Digits

\* A text and its places.
LEMMA TextIs ==
  ASSUME NEW s \in Strings
  PROVE  Len(s) \in Nat /\ DOMAIN s = 1..Len(s) /\ \A k \in 1..Len(s) : s[k] \in Symbols
BY DEF Strings

\* What is at a place: a character, or the end.
LEMMA AtIs ==
  ASSUME NEW s \in Strings, NEW i \in Nat
  PROVE  /\ At(s, i) \in Symbols
         /\ i \notin 1..Len(s) => At(s, i) = "NUL"
         /\ i \in 1..Len(s) => At(s, i) = s[i]
<1>1. "NUL" \in Symbols
  BY Known
<1> QED
  BY <1>1, TextIs DEF At

\* SKIP_WHITESPACES goes on to the first character that is none, or to the end.
LEMMA SkipIs ==
  ASSUME NEW s \in Strings, NEW i \in Nat
  PROVE  /\ SKIP_WHITESPACES(s, i) \in Nat /\ SKIP_WHITESPACES(s, i) >= i
         /\ At(s, SKIP_WHITESPACES(s, i)) \notin White
         /\ \A k \in i..(SKIP_WHITESPACES(s, i) - 1) : At(s, k) \in White
<1> DEFINE S == {j \in i .. i + Len(s) + 1 : At(s, j) \notin White}
<1>1. Len(s) \in Nat
  BY TextIs
<1>2. i + Len(s) + 1 \in S
  <2>1. At(s, i + Len(s) + 1) = "NUL"
    BY <1>1, AtIs
  <2> QED
    BY <1>1, <2>1 DEF White
<1>3. S \subseteq Nat /\ S # {}
  BY <1>1, <1>2
<1>4. Min(S) \in S /\ \A y \in S : Min(S) <= y
  BY <1>3, MinIs
<1> DEFINE m == Min(S)
<1>5. SKIP_WHITESPACES(s, i) = m
  BY DEF SKIP_WHITESPACES
<1>6. m \in i .. i + Len(s) + 1 /\ At(s, m) \notin White
  BY <1>4
<1>7. \A k \in i..(m - 1) : At(s, k) \in White
  <2> SUFFICES ASSUME NEW k \in i..(m - 1), At(s, k) \notin White PROVE FALSE
    OBVIOUS
  <2>1. k \in S
    BY <1>1, <1>6
  <2>2. m <= k
    BY <1>4, <2>1
  <2> QED
    BY <1>1, <1>6, <2>2
<1> HIDE DEF m
<1> QED
  BY <1>1, <1>5, <1>6, <1>7

\* ... and only that one is such a place.
LEMMA SkipUnique ==
  ASSUME NEW s \in Strings, NEW i \in Nat, NEW j \in Nat, j >= i, At(s, j) \notin White,
         \A k \in i..(j - 1) : At(s, k) \in White
  PROVE  SKIP_WHITESPACES(s, i) = j
BY SkipIs

\* A place that is not blank is not left.
LEMMA SkipNone ==
  ASSUME NEW s \in Strings, NEW i \in Nat, At(s, i) \notin White
  PROVE  SKIP_WHITESPACES(s, i) = i
BY SkipUnique

-----------------------------------------------------------------------------
(* Sequences one after the other.                                          *)

\* g[k] is the first k sequences of ss one after the other.
Glued(ss, g) ==
  /\ g[0] = <<>>
  /\ \A k \in 1..Len(ss) : g[k] = g[k - 1] \o ss[k]

\* Sequences can be put one after the other.
LEMMA GluedExists ==
  ASSUME NEW S, NEW ss \in Seq(Seq(S))
  PROVE  \E g \in [0..Len(ss) -> Seq(S)] : Glued(ss, g)
<1> DEFINE n == Len(ss)
           Upto(m, g) == g[0] = <<>> /\ \A k \in 1..m : g[k] = g[k - 1] \o ss[k]
           G == {m \in 0..n : \E g \in [0..m -> Seq(S)] : Upto(m, g)}
<1>1. n \in Nat /\ \A k \in 1..n : ss[k] \in Seq(S)
  OBVIOUS
<1>2. 0 \in G
  <2> DEFINE g == [m \in 0..0 |-> <<>>]
  <2>1. g \in [0..0 -> Seq(S)] /\ Upto(0, g)
    OBVIOUS
  <2> HIDE DEF g, Upto
  <2> QED
    BY <1>1, <2>1
<1>3. ASSUME NEW x \in 1..n, x - 1 \in G PROVE x \in G
  <2>1. PICK g \in [0..(x - 1) -> Seq(S)] : Upto(x - 1, g)
    BY <1>3
  <2> DEFINE h == [m \in 0..x |-> IF m = x THEN g[x - 1] \o ss[x] ELSE g[m]]
  <2>2. g[x - 1] \in Seq(S) /\ ss[x] \in Seq(S)
    BY <1>1
  <2>3. g[x - 1] \o ss[x] \in Seq(S)
    BY <2>2
  <2>4. h \in [0..x -> Seq(S)]
    BY <1>1, <2>3
  <2>5. Upto(x, h)
    <3>1. h[0] = <<>>
      BY <1>1, <2>1
    <3>2. ASSUME NEW k \in 1..x PROVE h[k] = h[k - 1] \o ss[k]
      <4>1. h[k - 1] = g[k - 1]
        BY <1>1
      <4>2. CASE k = x
        <5>1. k \in 0..x
          BY <1>1
        <5> HIDE DEF Upto, n
        <5>2. h[k] = g[x - 1] \o ss[x]
          BY <5>1, <4>2
        <5> HIDE DEF h
        <5> QED
          BY <4>1, <4>2, <5>2
      <4>3. CASE k # x
        <5>1. h[k] = g[k] /\ k \in 1..(x - 1)
          BY <1>1, <4>3
        <5> HIDE DEF h
        <5> QED
          BY <2>1, <4>1, <5>1
      <4> QED
        BY <4>2, <4>3
    <3> QED
      BY <3>1, <3>2
  <2> HIDE DEF h, Upto
  <2> QED
    BY <1>1, <2>4, <2>5
<1>4. 0..n \subseteq G
  <2> HIDE DEF G
  <2> QED
    BY <1>1, <1>2, <1>3, Inductive
<1>5. PICK g \in [0..n -> Seq(S)] : Upto(n, g)
  <2>1. n \in G
    <3> HIDE DEF G
    <3> QED
      BY <1>1, <1>4
  <2> HIDE DEF Upto
  <2> QED
    BY <2>1
<1> QED
  BY <1>5 DEF Glued

\* FlattenSeq is the last of the sequences that have one more at their end each.
LEMMA FlattenIs ==
  ASSUME NEW S, NEW ss \in Seq(Seq(S)), NEW g \in [0..Len(ss) -> Seq(S)], Glued(ss, g)
  PROVE  FlattenSeq(ss) = g[Len(ss)]
<1>1. Len(ss) \in Nat /\ \A k \in 1..Len(ss) : ss[k] \in Seq(S)
  OBVIOUS
<1>2. CASE Len(ss) = 0
  <2>1. ss = <<>>
    BY <1>2
  <2> QED
    BY <1>2, <2>1 DEF Glued, FlattenSeq
<1>3. CASE Len(ss) # 0
  <2> DEFINE n == Len(ss)
             flatten[i \in 1..n] == IF i = 1 THEN ss[i] ELSE flatten[i - 1] \o ss[i]
             h == [i \in 1..n |-> g[i]]
             G == {m \in 0..n : m = 0 \/ flatten[m] = g[m]}
  <2>1. FlattenSeq(ss) = flatten[n]
    BY <1>3, Zenon DEF FlattenSeq
  <2>2. h = [i \in 1..n |-> IF i = 1 THEN ss[i] ELSE h[i - 1] \o ss[i]]
    <3>1. ASSUME NEW i \in 1..n PROVE h[i] = IF i = 1 THEN ss[i] ELSE h[i - 1] \o ss[i]
      <4>1. g[i] = g[i - 1] \o ss[i]
        BY DEF Glued
      <4>2. CASE i = 1
        <5>1. g[0] = <<>> /\ ss[1] \in Seq(S)
          BY <1>1, <4>2 DEF Glued
        <5>2. <<>> \o ss[1] = ss[1]
          BY <5>1
        <5>3. h[i] = g[i] /\ i - 1 = 0
          BY <1>1, <4>2
        <5> HIDE DEF h
        <5> QED
          BY <4>1, <4>2, <5>1, <5>2, <5>3
      <4>3. CASE i # 1
        <5>1. h[i - 1] = g[i - 1]
          BY <1>1, <4>3
        <5> QED
          BY <4>1, <4>3, <5>1
      <4> QED
        BY <4>2, <4>3
    <3> QED
      BY <3>1
  <2>3. flatten = [i \in 1..n |-> IF i = 1 THEN ss[i] ELSE flatten[i - 1] \o ss[i]]
    <3> HIDE DEF h
    <3> QED
      BY <2>2
  <2>4. ASSUME NEW x \in 1..n, x - 1 \in G PROVE x \in G
    <3> HIDE DEF flatten
    <3>1. flatten[x] = IF x = 1 THEN ss[x] ELSE flatten[x - 1] \o ss[x]
      BY <2>3
    <3>2. h[x] = IF x = 1 THEN ss[x] ELSE h[x - 1] \o ss[x]
      <4> HIDE DEF h
      <4> QED
        BY <2>2
    <3>3. h[x] = g[x] /\ (x # 1 => h[x - 1] = g[x - 1])
      BY <1>1
    <3> HIDE DEF h
    <3> QED
      BY <1>1, <2>4, <3>1, <3>2, <3>3
  <2>5. 0..n \subseteq G
    <3>1. 0 \in G
      BY <1>1
    <3> HIDE DEF G
    <3> QED
      BY <1>1, <3>1, <2>4, Inductive
  <2> HIDE DEF flatten
  <2> QED
    BY <1>1, <1>3, <2>1, <2>5
<1> QED
  BY <1>2, <1>3

-----------------------------------------------------------------------------
(* A text within a text.                                                   *)

\* The text t is in s, from place i on.
Holds(s, i, t) ==
  /\ i \in Nat \ {0}
  /\ i + Len(t) - 1 <= Len(s)
  /\ \A k \in 1..Len(t) : s[i + k - 1] = t[k]

\* A text holds itself.
LEMMA HoldsWhole ==
  ASSUME NEW s \in Strings
  PROVE  Holds(s, 1, s)
BY TextIs DEF Holds

\* What a place of a text within a text is.
LEMMA HoldsAt ==
  ASSUME NEW s \in Strings, NEW i, NEW t \in Strings, Holds(s, i, t), NEW k \in 1..Len(t)
  PROVE  At(s, i + k - 1) = t[k] /\ i + k - 1 \in 1..Len(s)
<1>1. i + k - 1 \in 1..Len(s) /\ i + k - 1 \in Nat
  BY TextIs DEF Holds
<1> QED
  BY <1>1, AtIs DEF Holds

\* ... and its first one.
LEMMA HoldsFirst ==
  ASSUME NEW s \in Strings, NEW i, NEW t \in Strings, Holds(s, i, t), t # <<>>
  PROVE  At(s, i) = t[1] /\ i \in 1..Len(s)
<1>1. 1 \in 1..Len(t) /\ i + 1 - 1 = i
  BY DEF Holds, Strings
<1> QED
  BY <1>1, HoldsAt

\* Two texts one after the other are held one after the other.
LEMMA HoldsSplit ==
  ASSUME NEW s \in Strings, NEW i, NEW a \in Strings, NEW b \in Strings
  PROVE  Holds(s, i, a \o b) <=> Holds(s, i, a) /\ Holds(s, i + Len(a), b)
<1>1. /\ Len(a) \in Nat /\ Len(b) \in Nat /\ Len(s) \in Nat /\ Len(a \o b) = Len(a) + Len(b)
      /\ \A k \in 1..(Len(a) + Len(b)) : (a \o b)[k] = IF k <= Len(a) THEN a[k] ELSE b[k - Len(a)]
  BY DEF Strings
<1>2. ASSUME Holds(s, i, a \o b) PROVE Holds(s, i, a) /\ Holds(s, i + Len(a), b)
  <2>1. i \in Nat \ {0} /\ i + Len(a) + Len(b) - 1 <= Len(s)
    BY <1>1, <1>2 DEF Holds
  <2>2. ASSUME NEW k \in 1..Len(a) PROVE s[i + k - 1] = a[k]
    <3>1. k \in 1..(Len(a) + Len(b)) /\ k <= Len(a)
      BY <1>1
    <3> QED
      BY <1>1, <1>2, <3>1 DEF Holds
  <2>3. ASSUME NEW k \in 1..Len(b) PROVE s[i + Len(a) + k - 1] = b[k]
    <3>1. k + Len(a) \in 1..(Len(a) + Len(b)) /\ ~(k + Len(a) <= Len(a)) /\ k + Len(a) - Len(a) = k
      BY <1>1
    <3>2. s[i + (k + Len(a)) - 1] = b[k]
      <4>1. (a \o b)[k + Len(a)] = b[k]
        BY <1>1, <3>1
      <4>2. \A h \in 1..Len(a \o b) : s[i + h - 1] = (a \o b)[h]
        BY <1>2 DEF Holds
      <4>3. k + Len(a) \in 1..Len(a \o b)
        BY <1>1, <3>1
      <4> HIDE <1>1
      <4>4. s[i + (k + Len(a)) - 1] = (a \o b)[k + Len(a)]
        BY <4>2, <4>3
      <4> QED
        BY <4>1, <4>4
    <3>3. i + (k + Len(a)) - 1 = i + Len(a) + k - 1
      BY <1>1, <2>1
    <3> QED
      BY <3>2, <3>3
  <2> QED
    BY <1>1, <2>1, <2>2, <2>3 DEF Holds
<1>3. ASSUME Holds(s, i, a), Holds(s, i + Len(a), b) PROVE Holds(s, i, a \o b)
  <2>1. i \in Nat \ {0} /\ i + Len(a) + Len(b) - 1 <= Len(s)
    BY <1>1, <1>3 DEF Holds
  <2>2. ASSUME NEW k \in 1..(Len(a) + Len(b)) PROVE s[i + k - 1] = (a \o b)[k]
    <3>1. CASE k <= Len(a)
      <4>1. k \in 1..Len(a)
        BY <1>1, <3>1
      <4> QED
        BY <1>1, <1>3, <3>1, <4>1 DEF Holds
    <3>2. CASE ~(k <= Len(a))
      <4>1. k - Len(a) \in 1..Len(b) /\ i + Len(a) + (k - Len(a)) - 1 = i + k - 1
        BY <1>1, <2>1, <3>2
      <4>2. s[i + Len(a) + (k - Len(a)) - 1] = b[k - Len(a)]
        BY <1>3, <4>1 DEF Holds
      <4> QED
        BY <1>1, <3>2, <4>1, <4>2
    <3> QED
      BY <3>1, <3>2
  <2> QED
    BY <1>1, <2>1, <2>2, SMTT(30) DEF Holds
<1> QED
  BY <1>2, <1>3

\* One step of putting texts one after the other.
LEMMA GluedTexts ==
  ASSUME NEW ss \in Seq(Strings), NEW g \in [0..Len(ss) -> Strings], Glued(ss, g), NEW k \in 1..Len(ss)
  PROVE  g[k] = g[k - 1] \o ss[k] /\ g[k - 1] \in Strings /\ g[k] \in Strings /\ ss[k] \in Strings
         /\ Len(g[k]) = Len(g[k - 1]) + Len(ss[k]) /\ Len(g[k - 1]) \in Nat /\ Len(ss[k]) \in Nat
<1>1. k - 1 \in 0..Len(ss) /\ k \in 0..Len(ss) /\ ss[k] \in Strings
  OBVIOUS
<1>2. g[k - 1] \in Strings /\ g[k] \in Strings /\ g[k] = g[k - 1] \o ss[k]
  BY <1>1 DEF Glued
<1> QED
  BY <1>1, <1>2 DEF Strings

\* What is held as a whole is held part by part.
LEMMA HoldsParts ==
  ASSUME NEW s \in Strings, NEW i, NEW ss \in Seq(Strings), NEW g \in [0..Len(ss) -> Strings], Glued(ss, g),
         Holds(s, i, g[Len(ss)])
  PROVE  \A k \in 1..Len(ss) : Holds(s, i + Len(g[k - 1]), ss[k])
<1> DEFINE n == Len(ss)
           G == {m \in 0..n : Holds(s, i, g[n - m])}
<1>1. n \in Nat
  OBVIOUS
<1>2. 0 \in G
  BY <1>1
<1>3. ASSUME NEW x \in 1..n, x - 1 \in G PROVE x \in G
  <2> DEFINE k == n - (x - 1)
  <2>1. k \in 1..n /\ k - 1 = n - x
    BY <1>1
  <2>2. Holds(s, i, g[k])
    BY <1>3
  <2>3. g[k] = g[k - 1] \o ss[k] /\ g[k - 1] \in Strings /\ ss[k] \in Strings
    BY <2>1, GluedTexts
  <2>4. Holds(s, i, g[k - 1])
    <3> HIDE DEF k
    <3> QED
      BY <2>2, <2>3, HoldsSplit
  <2> QED
    BY <1>1, <2>1, <2>4
<1>4. 0..n \subseteq G
  <2> HIDE DEF G
  <2> QED
    BY <1>1, <1>2, <1>3, Inductive
<1> TAKE k \in 1..n
<1>5. n - k \in 0..n /\ n - (n - k) = k
  BY <1>1
<1>6. Holds(s, i, g[k])
  <2>1. n - k \in G
    <3> HIDE DEF G
    <3> QED
      BY <1>4, <1>5
  <2>2. Holds(s, i, g[n - (n - k)])
    BY <2>1
  <2> QED
    BY <1>5, <2>2
<1>7. g[k] = g[k - 1] \o ss[k] /\ g[k - 1] \in Strings /\ ss[k] \in Strings
  BY GluedTexts
<1> QED
  BY <1>6, <1>7, HoldsSplit

-----------------------------------------------------------------------------
(* Strings.                                                                *)

\* A step of skip_quotes, which goes on with f.
SkipBody(s, f, j) ==
  CASE At(s, j) = "QUOTE" -> j
    [] At(s, j) = "NUL" \/ (At(s, j) = "\\" /\ At(s, j + 1) = "NUL") -> 0
    [] OTHER -> f[IF At(s, j) = "\\" THEN j + 2 ELSE j + 1]

\* A step looks no further back than its own place.
LEMMA SkipBodyLocal ==
  ASSUME NEW s \in Strings, NEW j \in 1..(Len(s) + 1), NEW f, NEW h,
         \A k \in (j + 1)..(Len(s) + 1) : f[k] = h[k]
  PROVE  SkipBody(s, f, j) = SkipBody(s, h, j)
<1>1. Len(s) \in Nat
  BY TextIs
<1>2. At(s, j) # "NUL" => j \in 1..Len(s)
  BY <1>1, AtIs
<1>3. At(s, j + 1) # "NUL" => j + 1 \in 1..Len(s)
  BY <1>1, AtIs
<1> DEFINE next == IF At(s, j) = "\\" THEN j + 2 ELSE j + 1
<1>4. CASE At(s, j) = "QUOTE" \/ At(s, j) = "NUL" \/ (At(s, j) = "\\" /\ At(s, j + 1) = "NUL")
  BY <1>4, Zenon DEF SkipBody
<1>5. CASE ~(At(s, j) = "QUOTE" \/ At(s, j) = "NUL" \/ (At(s, j) = "\\" /\ At(s, j + 1) = "NUL"))
  <2>1. next \in (j + 1)..(Len(s) + 1)
    BY <1>1, <1>2, <1>3, <1>5
  <2>2. SkipBody(s, f, j) = f[next] /\ SkipBody(s, h, j) = h[next]
    BY <1>5 DEF SkipBody
  <2> HIDE DEF next
  <2> QED
    BY <2>1, <2>2
<1> QED
  BY <1>4, <1>5

\* So skip_quotes, which is defined from the end of a text on, is a function.
LEMMA SkipExists ==
  ASSUME NEW s \in Strings
  PROVE  \E f : f = [j \in 1..(Len(s) + 1) |-> SkipBody(s, f, j)]
<1> DEFINE n == Len(s) + 1
           Down(m, f) == f = [j \in (n - m)..n |-> SkipBody(s, f, j)]
           G == {m \in 0..(n - 1) : \E f : Down(m, f)}
<1>1. Len(s) \in Nat /\ n \in Nat /\ n - 1 \in Nat /\ n >= 1
  BY TextIs
<1>2. 0 \in G
  <2> DEFINE f == [j \in (n - 0)..n |-> 0]
  <2>1. ASSUME NEW j \in (n - 0)..n PROVE SkipBody(s, f, j) = 0
    <3>1. j \in Nat /\ j \notin 1..Len(s)
      BY <1>1
    <3>2. At(s, j) = "NUL"
      BY <3>1, AtIs
    <3> QED
      BY <3>2 DEF SkipBody
  <2>2. Down(0, f)
    BY <2>1
  <2> HIDE DEF f, Down
  <2> QED
    BY <1>1, <2>2
<1>3. ASSUME NEW x \in 1..(n - 1), x - 1 \in G PROVE x \in G
  <2>1. PICK f : Down(x - 1, f)
    BY <1>3
  <2> DEFINE h == [j \in (n - x)..n |-> IF j = n - x THEN SkipBody(s, f, j) ELSE f[j]]
  <2> HIDE DEF n
  <2>2. ASSUME NEW j \in (n - x)..n PROVE h[j] = SkipBody(s, h, j)
    <3>1. j \in 1..n /\ n = Len(s) + 1
      BY <1>1 DEF n
    <3>2. \A k \in (j + 1)..n : f[k] = h[k]
      BY <1>1
    <3> HIDE DEF h
    <3>3. SkipBody(s, f, j) = SkipBody(s, h, j)
      BY <3>1, <3>2, SkipBodyLocal
    <3>4. CASE j = n - x
      BY <3>3, <3>4 DEF h
    <3>5. CASE j # n - x
      <4>1. j \in (n - (x - 1))..n
        BY <1>1, <3>5
      <4>2. f[j] = SkipBody(s, f, j)
        BY <2>1, <4>1
      <4>3. h[j] = f[j]
        BY <3>5 DEF h
      <4> QED
        BY <3>3, <4>2, <4>3
    <3> QED
      BY <3>4, <3>5
  <2>3. Down(x, h)
    <3>1. h = [j \in (n - x)..n |-> h[j]]
      OBVIOUS
    <3> HIDE DEF h
    <3> QED
      BY <2>2, <3>1
  <2> HIDE DEF h, Down
  <2> QED
    BY <1>1, <2>3
<1>4. 0..(n - 1) \subseteq G
  <2> HIDE DEF G, n
  <2> QED
    BY <1>1, <1>2, <1>3, Inductive
<1>5. n - 1 \in G
  <2> HIDE DEF G, n
  <2> QED
    BY <1>1, <1>4
<1>6. PICK f : Down(n - 1, f)
  <2> HIDE DEF Down
  <2> QED
    BY <1>5
<1>7. n - (n - 1) = 1
  BY <1>1
<1>8. f = [j \in 1..n |-> SkipBody(s, f, j)]
  <2> HIDE DEF n
  <2> QED
    BY <1>6, <1>7
<1> QED
  BY <1>8

\* skip_quotes goes on as it says: over a character, or over two.
LEMMA SkipQuotesIs ==
  ASSUME NEW s \in Strings, NEW j \in 1..(Len(s) + 1)
  PROVE  skip_quotes(s, j) =
           CASE At(s, j) = "QUOTE" -> j
             [] At(s, j) = "NUL" \/ (At(s, j) = "\\" /\ At(s, j + 1) = "NUL") -> 0
             [] OTHER -> skip_quotes(s, IF At(s, j) = "\\" THEN j + 2 ELSE j + 1)
<1> DEFINE F == CHOOSE f : f = [k \in 1..(Len(s) + 1) |-> SkipBody(s, f, k)]
<1>1. F = [k \in 1..(Len(s) + 1) |-> SkipBody(s, F, k)]
  BY SkipExists
<1>2. \A k : skip_quotes(s, k) = F[k]
  BY Zenon DEF skip_quotes, SkipBody
<1> HIDE DEF F
<1>3. F[j] = SkipBody(s, F, j)
  BY <1>1
<1> QED
  BY <1>2, <1>3, Zenon DEF SkipBody

\* What starts at a place, and what is before it.
LEMMA SubIs ==
  ASSUME NEW s \in Strings, NEW i \in 1..(Len(s) + 1), NEW j \in 0..Len(s)
  PROVE  /\ SubSeq(s, i, j) \in Strings
         /\ Len(SubSeq(s, i, j)) = IF i <= j THEN j - i + 1 ELSE 0
         /\ \A k \in 1..(j - i + 1) : SubSeq(s, i, j)[k] = s[i + k - 1]
BY DEF Strings

\* What is at a place of the end of a text.
LEMMA SuffixAt ==
  ASSUME NEW s \in Strings, NEW i \in 1..(Len(s) + 1), NEW k \in Nat \ {0}
  PROVE  At(SubSeq(s, i, Len(s)), k) = At(s, i + k - 1)
<1>1. Len(s) \in Nat /\ Len(s) \in 0..Len(s)
  BY TextIs
<1> DEFINE t == SubSeq(s, i, Len(s))
<1>2. t \in Strings /\ Len(t) = Len(s) - i + 1 /\ \A m \in 1..(Len(s) - i + 1) : t[m] = s[i + m - 1]
  BY <1>1, SubIs
<1> HIDE DEF t
<1>3. ASSUME k \in 1..(Len(s) - i + 1) PROVE At(t, k) = At(s, i + k - 1)
  <2>1. i + k - 1 \in 1..Len(s) /\ i + k - 1 \in Nat
    BY <1>1, <1>3
  <2> QED
    BY <1>1, <1>2, <1>3, <2>1, AtIs
<1>4. ASSUME k \notin 1..(Len(s) - i + 1) PROVE At(t, k) = At(s, i + k - 1)
  <2>1. i + k - 1 \notin 1..Len(s) /\ i + k - 1 \in Nat
    BY <1>1, <1>4
  <2> QED
    BY <1>1, <1>2, <1>4, <2>1, AtIs
<1> QED
  BY <1>3, <1>4, Zenon DEF t

\* What may follow a backslash.
LEMMA EscapesIs ==
  /\ DOMAIN Escapes = {"QUOTE", "\\", "/", "n"}
  /\ Escapes["QUOTE"] = "QUOTE" /\ Escapes["\\"] = "\\" /\ Escapes["/"] = "/" /\ Escapes["n"] = "LF"
  /\ \A e \in DOMAIN Escapes : Escapes[e] \in Symbols
  /\ DOMAIN CodePoints = {"0000", "0041"}
  /\ CodePoints["0000"] = "NUL" /\ CodePoints["0041"] = "A"
  /\ \A u \in DOMAIN CodePoints : CodePoints[u] \in Symbols
BY Known DEF Escapes, CodePoints

\* A surrogate pair as it is written.
Pair == <<"\\", "u", "d83d", "\\", "u", "de00">>

\* What starts at a place, by its characters.
LEMMA PrefixAt ==
  ASSUME NEW in \in Strings, NEW i \in 1..(Len(in) + 1), NEW S, NEW t \in Seq(S), "NUL" \notin S
  PROVE  IsPrefix(t, SubSeq(in, i, Len(in))) <=> \A k \in 1..Len(t) : At(in, i + k - 1) = t[k]
<1> DEFINE u == SubSeq(in, i, Len(in))
<1>1. Len(in) \in Nat /\ Len(in) \in 0..Len(in) /\ Len(t) \in Nat /\ \A k \in 1..Len(t) : t[k] # "NUL"
  BY TextIs
<1>2. u \in Strings /\ \A k \in 1..Len(t) : At(u, k) = At(in, i + k - 1)
  <2>1. \A k \in Nat \ {0} : At(u, k) = At(in, i + k - 1)
    BY SuffixAt
  <2> HIDE DEF u
  <2> QED
    BY <1>1, <2>1, SubIs DEF u
<1> HIDE DEF u
<1>3. Len(u) \in Nat /\ \A k \in Nat : (k \in 1..Len(u) => At(u, k) = u[k]) /\ (k \notin 1..Len(u) => At(u, k) = "NUL")
  BY <1>2, AtIs, TextIs
<1>4. IsPrefix(t, u) <=> Len(t) <= Len(u) /\ SubSeq(t, 1, Len(t)) = SubSeq(u, 1, Len(t))
  BY Zenon DEF IsPrefix
<1>5. ASSUME Len(t) <= Len(u)
      PROVE  SubSeq(t, 1, Len(t)) = SubSeq(u, 1, Len(t)) <=> \A k \in 1..Len(t) : u[k] = t[k]
  BY <1>1, <1>2, <1>3, <1>5 DEF Strings
<1>6. ASSUME \A k \in 1..Len(t) : At(u, k) = t[k] PROVE Len(t) <= Len(u)
  <2> SUFFICES ASSUME Len(t) > Len(u) PROVE FALSE
    BY <1>1, <1>3
  <2>1. Len(t) \in 1..Len(t) /\ Len(t) \notin 1..Len(u)
    BY <1>1, <1>3
  <2> QED
    BY <1>1, <1>3, <1>6, <2>1
<1>7. Len(t) <= Len(u) => \A k \in 1..Len(t) : At(u, k) = u[k]
  BY <1>1, <1>3
<1> QED
  BY <1>2, <1>4, <1>5, <1>6, <1>7 DEF u

\* The character that is read at a place.
CharAt(in, i) == Character(SubSeq(in, i, Len(in)))

\* What can start with a backslash.
IsEscape(in, i) == At(in, i) = "\\" /\ At(in, i + 1) \in DOMAIN Escapes
\* ... a code point,
IsCode(in, i) == At(in, i) = "\\" /\ At(in, i + 1) = "u" /\ At(in, i + 2) \in DOMAIN CodePoints
\* ... and a pair.
IsPair(in, i) ==
  /\ At(in, i) = "\\" /\ At(in, i + 1) = "u" /\ At(in, i + 2) = "d83d"
  /\ At(in, i + 3) = "\\" /\ At(in, i + 4) = "u" /\ At(in, i + 5) = "de00"

\* A pair that starts at a place.
LEMMA PairAt ==
  ASSUME NEW in \in Strings, NEW i \in 1..(Len(in) + 1)
  PROVE  Len(Pair) = 6 /\ (IsPrefix(Pair, SubSeq(in, i, Len(in))) <=> IsPair(in, i))
<1> DEFINE S == {"\\", "u", "d83d", "de00"}
<1>1. Pair \in Seq(S) /\ Len(Pair) = 6 /\ "NUL" \notin S /\ i \in Nat
      /\ Pair[1] = "\\" /\ Pair[2] = "u" /\ Pair[3] = "d83d" /\ Pair[4] = "\\" /\ Pair[5] = "u" /\ Pair[6] = "de00"
  BY DEF Pair
<1> HIDE DEF S
<1>2. IsPrefix(Pair, SubSeq(in, i, Len(in))) <=> \A k \in 1..6 : At(in, i + k - 1) = Pair[k]
  <2>1. IsPrefix(Pair, SubSeq(in, i, Len(in))) <=> \A k \in 1..Len(Pair) : At(in, i + k - 1) = Pair[k]
    BY <1>1, PrefixAt, Zenon
  <2> QED
    BY <1>1, <2>1
<1>3. 1..6 = {1, 2, 3, 4, 5, 6} /\ i + 1 - 1 = i /\ i + 2 - 1 = i + 1 /\ i + 3 - 1 = i + 2 /\ i + 4 - 1 = i + 3
      /\ i + 5 - 1 = i + 4 /\ i + 6 - 1 = i + 5
  BY <1>1
<1> QED
  BY <1>1, <1>2, <1>3 DEF IsPair

\* What is read at a place, by the characters that are there.
LEMMA CharAtBy ==
  ASSUME NEW in \in Strings, NEW i \in 1..Len(in)
  PROVE  /\ At(in, i) \notin {"LF", "\\"} => CharAt(in, i) = [char |-> At(in, i), used |-> 1]
         /\ IsEscape(in, i) => CharAt(in, i) = [char |-> Escapes[At(in, i + 1)], used |-> 2]
         /\ IsCode(in, i) => CharAt(in, i) = [char |-> CodePoints[At(in, i + 2)], used |-> 3]
         /\ IsPair(in, i) => CharAt(in, i) = [char |-> "SMILE", used |-> 6]
         /\ At(in, i) = "LF" \/ (At(in, i) = "\\" /\ ~IsEscape(in, i) /\ ~IsCode(in, i) /\ ~IsPair(in, i)) =>
              CharAt(in, i).used = 0
<1> DEFINE t == SubSeq(in, i, Len(in))
<1>1. Len(in) \in Nat /\ Len(in) \in 0..Len(in) /\ i \in 1..(Len(in) + 1)
  BY TextIs
<1>2. t \in Strings /\ Len(t) = Len(in) - i + 1
  BY <1>1, SubIs
<1>3. At(t, 1) = At(in, i + 1 - 1) /\ At(t, 2) = At(in, i + 2 - 1) /\ At(t, 3) = At(in, i + 3 - 1)
  <2>1. \A k \in Nat \ {0} : At(t, k) = At(in, i + k - 1)
    BY <1>1, SuffixAt
  <2> HIDE DEF t
  <2> QED
    BY <2>1
<1>4. i + 1 - 1 = i /\ i + 2 - 1 = i + 1 /\ i + 3 - 1 = i + 2
  BY <1>1
<1>5. CharAt(in, i) = Character(t) /\ (IsPrefix(Pair, t) <=> IsPair(in, i))
  BY <1>1, PairAt DEF CharAt
<1> HIDE DEF t
<1>6. \A k \in Nat : (k \in 1..Len(t) => At(t, k) = t[k]) /\ (k \notin 1..Len(t) => At(t, k) = "NUL")
  BY <1>2, AtIs
<1>7. t[1] = At(in, i) /\ At(t, 2) = At(in, i + 1) /\ At(t, 3) = At(in, i + 2)
  BY <1>1, <1>2, <1>3, <1>4, <1>6
<1>8. (At(t, 2) # "NUL" => t[2] = At(in, i + 1)) /\ (At(t, 3) # "NUL" => t[3] = At(in, i + 2))
  BY <1>6, <1>7
<1> HIDE <1>6
<1>9. parse_utf16(t) =
        CASE At(t, 3) \in DOMAIN CodePoints -> [char |-> CodePoints[t[3]], used |-> 3]
          [] IsPrefix(Pair, t) -> [char |-> "SMILE", used |-> 6]
          [] OTHER -> [char |-> "NULL", used |-> 0]
  BY Zenon DEF parse_utf16, Pair
<1>10. ASSUME At(in, i) # "\\"
      PROVE  Character(t) = IF At(in, i) = "LF" THEN [char |-> "NULL", used |-> 0] ELSE [char |-> At(in, i), used |-> 1]
  BY <1>7, <1>10 DEF Character
<1>11. ASSUME At(in, i) = "\\" PROVE Character(t) = EscapeSequence(t)
  BY <1>7, <1>11 DEF Character
<1>12. ASSUME IsEscape(in, i) PROVE Character(t) = [char |-> Escapes[At(in, i + 1)], used |-> 2]
  BY <1>7, <1>8, <1>11, <1>12, EscapesIs DEF EscapeSequence, IsEscape
<1>13. ASSUME At(in, i) = "\\", At(in, i + 1) = "u" PROVE Character(t) = parse_utf16(t)
  BY <1>7, <1>11, <1>13, EscapesIs DEF EscapeSequence
<1>14. ASSUME IsCode(in, i) PROVE Character(t) = [char |-> CodePoints[At(in, i + 2)], used |-> 3]
  <2>1. ~IsPrefix(Pair, t)
    BY <1>5, <1>14, EscapesIs DEF IsCode, IsPair
  <2> QED
    BY <1>7, <1>8, <1>9, <1>13, <1>14, <2>1, EscapesIs DEF IsCode
<1>15. ASSUME IsPair(in, i) PROVE Character(t) = [char |-> "SMILE", used |-> 6]
  BY <1>5, <1>7, <1>9, <1>13, <1>15, EscapesIs DEF IsPair
<1>16. ASSUME At(in, i) = "\\", ~IsEscape(in, i), ~IsCode(in, i), ~IsPair(in, i)
       PROVE  Character(t).used = 0
  <2>1. CASE At(in, i + 1) = "u"
    BY <1>5, <1>7, <1>9, <1>13, <1>16, <2>1 DEF IsCode
  <2>2. CASE At(in, i + 1) # "u"
    BY <1>7, <1>11, <1>16, <2>2 DEF EscapeSequence, IsEscape
  <2> QED
    BY <2>1, <2>2
<1> QED
  BY <1>5, <1>10, <1>12, <1>14, <1>15, <1>16

\* A step of process_string, which goes on with f.
ReadBody(in, f, i) ==
  IF i > Len(in) THEN {<<>>}
  ELSE LET c == Character(SubSeq(in, i, Len(in)))
       IN IF c.used = 0 THEN {} ELSE {<<c.char>> \o rest : rest \in f[i + c.used]}

\* What process_string makes of a text from a place on.
Readings(in, j) ==
  LET read[i \in 1 .. Len(in) + 1] ==
        IF i > Len(in) THEN {<<>>}
        ELSE LET c == Character(SubSeq(in, i, Len(in)))
             IN IF c.used = 0 THEN {} ELSE {<<c.char>> \o rest : rest \in read[i + c.used]}
  IN read[j]

\* Reading a character goes on, and not beyond the end.
LEMMA CharAtIs ==
  ASSUME NEW in \in Strings, NEW i \in 1..Len(in)
  PROVE  /\ CharAt(in, i).used \in Nat /\ i + CharAt(in, i).used \in i..(Len(in) + 1)
         /\ CharAt(in, i).used # 0 => CharAt(in, i).char \in Symbols
<1>1. Len(in) \in Nat /\ \A k \in Nat : At(in, k) \in Symbols /\ (At(in, k) # "NUL" => k <= Len(in))
  BY TextIs, AtIs
<1>2. CASE At(in, i) \notin {"LF", "\\"}
  BY <1>1, <1>2, CharAtBy
<1>3. CASE IsEscape(in, i)
  BY <1>1, <1>3, CharAtBy, EscapesIs DEF IsEscape
<1>4. CASE IsCode(in, i)
  BY <1>1, <1>4, CharAtBy, EscapesIs DEF IsCode
<1>5. CASE IsPair(in, i)
  BY <1>1, <1>5, CharAtBy, Known DEF IsPair
<1>6. CASE CharAt(in, i).used = 0
  BY <1>1, <1>6
<1> QED
  BY <1>2, <1>3, <1>4, <1>5, <1>6, CharAtBy

\* A step looks no further back than its own place.
LEMMA ReadBodyLocal ==
  ASSUME NEW in \in Strings, NEW i \in 1..(Len(in) + 1), NEW f, NEW h,
         \A k \in (i + 1)..(Len(in) + 1) : f[k] = h[k]
  PROVE  ReadBody(in, f, i) = ReadBody(in, h, i)
<1>1. Len(in) \in Nat
  BY TextIs
<1>2. CASE i > Len(in)
  BY <1>2 DEF ReadBody
<1>3. CASE ~(i > Len(in)) /\ CharAt(in, i).used = 0
  BY <1>3 DEF ReadBody, CharAt
<1>4. CASE ~(i > Len(in)) /\ CharAt(in, i).used # 0
  <2>1. CharAt(in, i).used \in Nat /\ i + CharAt(in, i).used \in i..(Len(in) + 1)
    BY <1>1, <1>4, CharAtIs
  <2>2. f[i + CharAt(in, i).used] = h[i + CharAt(in, i).used]
    BY <1>1, <1>4, <2>1
  <2> QED
    BY <1>4, <2>2 DEF ReadBody, CharAt
<1> QED
  BY <1>2, <1>3, <1>4

\* So process_string, which is defined from the end of a text on, is a function.
LEMMA ReadExists ==
  ASSUME NEW in \in Strings
  PROVE  \E f : f = [j \in 1..(Len(in) + 1) |-> ReadBody(in, f, j)]
<1> DEFINE n == Len(in) + 1
           Down(m, f) == f = [j \in m..n |-> ReadBody(in, f, j)]
           S == {m \in 1..n : \E f : Down(m, f)}
<1>1. n \in Nat /\ n >= 1
  BY TextIs
<1>2. ASSUME NEW m \in 1..n, (m + 1)..n \subseteq S PROVE m \in S
  <2>1. \E f : \A j \in (m + 1)..n : f[j] = ReadBody(in, f, j)
    <3>1. CASE m = n
      BY <1>1, <3>1
    <3>2. CASE m # n
      <4>1. PICK f : Down(m + 1, f)
        BY <1>1, <1>2, <3>2
      <4> QED
        BY <4>1
    <3> QED
      BY <3>1, <3>2
  <2>2. PICK f : \A j \in (m + 1)..n : f[j] = ReadBody(in, f, j)
    BY <2>1
  <2> DEFINE h == [j \in m..n |-> IF j = m THEN ReadBody(in, f, j) ELSE f[j]]
  <2>3. \A j \in m..n : h[j] = IF j = m THEN ReadBody(in, f, j) ELSE f[j]
    OBVIOUS
  <2>4. h = [j \in m..n |-> h[j]]
    OBVIOUS
  <2> HIDE DEF n, h
  <2>5. ASSUME NEW j \in m..n PROVE h[j] = ReadBody(in, h, j)
    <3>1. j \in 1..(Len(in) + 1) /\ \A k \in (j + 1)..(Len(in) + 1) : f[k] = h[k]
      BY <1>1, <2>3 DEF n
    <3>2. ReadBody(in, f, j) = ReadBody(in, h, j)
      BY <3>1, ReadBodyLocal
    <3>3. j = m \/ j \in (m + 1)..n
      BY <1>1
    <3> QED
      BY <2>2, <2>3, <3>2, <3>3
  <2>6. Down(m, h)
    BY <2>4, <2>5
  <2> HIDE DEF Down
  <2> QED
    BY <2>6
<1>3. 1 \in S
  <2> HIDE DEF S, n
  <2>1. 1..n \subseteq S
    BY <1>1, <1>2, Backward
  <2> QED
    BY <1>1, <2>1
<1> QED
  BY <1>3

\* process_string goes on as it says: a character, then what the rest stands for.
LEMMA ReadingsIs ==
  ASSUME NEW in \in Strings
  PROVE  /\ process_string(in) = Readings(in, 1)
         /\ \A i \in 1..(Len(in) + 1) :
              Readings(in, i) =
                IF i > Len(in) THEN {<<>>}
                ELSE IF CharAt(in, i).used = 0 THEN {}
                ELSE {<<CharAt(in, i).char>> \o rest : rest \in Readings(in, i + CharAt(in, i).used)}
<1> DEFINE F == CHOOSE f : f = [k \in 1..(Len(in) + 1) |-> ReadBody(in, f, k)]
<1>1. F = [k \in 1..(Len(in) + 1) |-> ReadBody(in, F, k)]
  BY ReadExists
<1>2. \A k : Readings(in, k) = F[k]
  BY Zenon DEF Readings, ReadBody
<1>3. process_string(in) = F[1]
  BY Zenon DEF process_string, ReadBody
<1> HIDE DEF F
<1>4. \A i \in 1..(Len(in) + 1) : F[i] = ReadBody(in, F, i)
  BY <1>1
<1> QED
  BY <1>2, <1>3, <1>4, Zenon DEF ReadBody, CharAt

\* What Escape writes for each character.
LEMMA EscapeIs ==
  ASSUME NEW c \in Symbols
  PROVE  /\ Escape(c) \in Strings /\ Len(Escape(c)) \in 1..3
         /\ c \in {"QUOTE", "\\", "/"} => Len(Escape(c)) = 2 /\ Escape(c)[1] = "\\" /\ Escape(c)[2] = c
         /\ c = "LF" => Len(Escape(c)) = 2 /\ Escape(c)[1] = "\\" /\ Escape(c)[2] = "n"
         /\ c = "NUL" => Len(Escape(c)) = 3 /\ Escape(c)[1] = "\\" /\ Escape(c)[2] = "u" /\ Escape(c)[3] = "0000"
         /\ c \notin {"QUOTE", "\\", "/", "LF", "NUL"} => Len(Escape(c)) = 1 /\ Escape(c)[1] = c
<1>1. CASE c \in {"QUOTE", "\\", "/"}
  <2>1. Escape(c) = <<"\\", c>>
    BY <1>1 DEF Escape
  <2> QED
    BY <1>1, <2>1, Known DEF Strings
<1>2. CASE c = "LF"
  <2>1. Escape(c) = <<"\\", "n">>
    BY <1>2 DEF Escape
  <2> QED
    BY <1>2, <2>1, Known, SMTT(30) DEF Strings
<1>3. CASE c = "NUL"
  <2>1. Escape(c) = <<"\\", "u", "0000">>
    BY <1>3 DEF Escape
  <2> QED
    BY <1>3, <2>1, Known DEF Strings
<1>4. CASE c \notin {"QUOTE", "\\", "/", "LF", "NUL"}
  <2>1. Escape(c) = <<c>>
    BY <1>4 DEF Escape
  <2> QED
    BY <1>4, <2>1 DEF Strings
<1> QED
  BY <1>1, <1>2, <1>3, <1>4

\* What starts at a place, among the spellings.
Spells(in, i, p) == p \in Spellings /\ IsPrefix(p[1], SubSeq(in, i, Len(in)))

\* The spellings, one by one.
LEMMA SpellingsAre ==
  ASSUME NEW p
  PROVE  p \in Spellings <=>
           \/ \E c \in Symbols \ {"QUOTE", "\\", "LF", "NUL"} : p = <<<<c>>, c>>
           \/ \E e \in DOMAIN Escapes : p = <<<<"\\", e>>, Escapes[e]>>
           \/ \E u \in DOMAIN CodePoints : p = <<<<"\\", "u", u>>, CodePoints[u]>>
           \/ p = <<Pair, "SMILE">>
BY EscapesIs, Zenon DEF Spellings, Pair

\* What starts at a place is a spelling of what is read there.
LEMMA SpellsBy ==
  ASSUME NEW in \in Strings, NEW i \in 1..Len(in), NEW p
  PROVE  Spells(in, i, p) <=>
           \/ At(in, i) \notin {"QUOTE", "\\", "LF", "NUL"} /\ p = <<<<At(in, i)>>, At(in, i)>>
           \/ IsEscape(in, i) /\ p = <<<<"\\", At(in, i + 1)>>, Escapes[At(in, i + 1)]>>
           \/ IsCode(in, i) /\ p = <<<<"\\", "u", At(in, i + 2)>>, CodePoints[At(in, i + 2)]>>
           \/ IsPair(in, i) /\ p = <<Pair, "SMILE">>
<1>1. Len(in) \in Nat /\ i \in 1..(Len(in) + 1) /\ At(in, i) \in Symbols
      /\ i + 1 - 1 = i /\ i + 2 - 1 = i + 1 /\ i + 3 - 1 = i + 2
  BY TextIs, AtIs
<1> DEFINE u == SubSeq(in, i, Len(in))
<1>2. \A c \in Symbols \ {"QUOTE", "\\", "LF", "NUL"} : IsPrefix(<<c>>, u) <=> At(in, i) = c
  <2> TAKE c \in Symbols \ {"QUOTE", "\\", "LF", "NUL"}
  <2>1. <<c>> \in Seq({c}) /\ "NUL" \notin {c}
    OBVIOUS
  <2>2. IsPrefix(<<c>>, u) <=> \A k \in 1..Len(<<c>>) : At(in, i + k - 1) = <<c>>[k]
    BY <1>1, <2>1, PrefixAt, ZenonT(30)
  <2> QED
    BY <1>1, <2>2
<1>3. \A e \in DOMAIN Escapes : IsPrefix(<<"\\", e>>, u) <=> At(in, i) = "\\" /\ At(in, i + 1) = e
  <2> TAKE e \in DOMAIN Escapes
  <2>1. <<"\\", e>> \in Seq({"\\", e}) /\ "NUL" \notin {"\\", e}
    BY EscapesIs
  <2>2. IsPrefix(<<"\\", e>>, u) <=> \A k \in 1..Len(<<"\\", e>>) : At(in, i + k - 1) = <<"\\", e>>[k]
    BY <1>1, <2>1, PrefixAt, Zenon
  <2>3. Len(<<"\\", e>>) = 2 /\ <<"\\", e>>[1] = "\\" /\ <<"\\", e>>[2] = e /\ 1..2 = {1, 2}
    OBVIOUS
  <2> QED
    BY <1>1, <2>2, <2>3
<1>4. \A c \in DOMAIN CodePoints :
        IsPrefix(<<"\\", "u", c>>, u) <=> At(in, i) = "\\" /\ At(in, i + 1) = "u" /\ At(in, i + 2) = c
  <2> TAKE c \in DOMAIN CodePoints
  <2>1. <<"\\", "u", c>> \in Seq({"\\", "u", c}) /\ "NUL" \notin {"\\", "u", c}
    BY EscapesIs
  <2>2. IsPrefix(<<"\\", "u", c>>, u) <=> \A k \in 1..Len(<<"\\", "u", c>>) : At(in, i + k - 1) = <<"\\", "u", c>>[k]
    BY <1>1, <2>1, PrefixAt, Zenon
  <2>3. Len(<<"\\", "u", c>>) = 3 /\ <<"\\", "u", c>>[1] = "\\" /\ <<"\\", "u", c>>[2] = "u" /\ <<"\\", "u", c>>[3] = c
        /\ 1..3 = {1, 2, 3}
    OBVIOUS
  <2> QED
    BY <1>1, <2>2, <2>3
<1>5. IsPrefix(Pair, u) <=> IsPair(in, i)
  BY <1>1, PairAt
<1>6. Spells(in, i, p) <=> p \in Spellings /\ IsPrefix(p[1], u)
  BY Zenon DEF Spells
<1> HIDE DEF u
<1>7. \A a, b : <<a, b>>[1] = a
  OBVIOUS
<1> QED
  BY <1>1, <1>2, <1>3, <1>4, <1>5, <1>6, <1>7, SpellingsAre DEF IsEscape, IsCode

\* It is a spelling of what process_string reads there, and skip_quotes passes it.
LEMMA SpellsRead ==
  ASSUME NEW in \in Strings, NEW i \in 1..Len(in)
  PROVE  /\ \A p : Spells(in, i, p) =>
              /\ CharAt(in, i) = [char |-> p[2], used |-> Len(p[1])] /\ Len(p[1]) \in Nat \ {0}
              /\ At(in, i) \notin {"QUOTE", "NUL"}
         /\ CharAt(in, i).used # 0 /\ At(in, i) \notin {"QUOTE", "NUL"} => \E p : Spells(in, i, p)
<1>1. \A a, b : <<a, b>>[1] = a /\ <<a, b>>[2] = b
  OBVIOUS
<1>2. /\ \A c : Len(<<c>>) = 1
      /\ \A a, b : Len(<<a, b>>) = 2
      /\ \A d, e, f : Len(<<d, e, f>>) = 3
      /\ Len(Pair) = 6 /\ Len(Pair) \in Nat \ {0}
  BY DEF Pair
<1>3. ASSUME NEW p, Spells(in, i, p)
      PROVE  /\ CharAt(in, i) = [char |-> p[2], used |-> Len(p[1])] /\ Len(p[1]) \in Nat \ {0}
             /\ At(in, i) \notin {"QUOTE", "NUL"}
  <2>1. CASE At(in, i) \notin {"QUOTE", "\\", "LF", "NUL"} /\ p = <<<<At(in, i)>>, At(in, i)>>
    BY <1>1, <1>2, <2>1, CharAtBy
  <2>2. CASE IsEscape(in, i) /\ p = <<<<"\\", At(in, i + 1)>>, Escapes[At(in, i + 1)]>>
    BY <1>1, <1>2, <2>2, CharAtBy DEF IsEscape
  <2>3. CASE IsCode(in, i) /\ p = <<<<"\\", "u", At(in, i + 2)>>, CodePoints[At(in, i + 2)]>>
    BY <1>1, <1>2, <2>3, CharAtBy DEF IsCode
  <2>4. CASE IsPair(in, i) /\ p = <<Pair, "SMILE">>
    <3>1. p[1] = Pair /\ p[2] = "SMILE" /\ At(in, i) = "\\"
      BY <1>1, <2>4 DEF IsPair
    <3>2. CharAt(in, i) = [char |-> "SMILE", used |-> 6] /\ Len(p[1]) = 6
      BY <1>2, <2>4, <3>1, CharAtBy
    <3> QED
      BY <3>1, <3>2
  <2> QED
    BY <1>3, <2>1, <2>2, <2>3, <2>4, SpellsBy, Zenon
<1>4. ASSUME CharAt(in, i).used # 0, At(in, i) \notin {"QUOTE", "NUL"} PROVE \E p : Spells(in, i, p)
  <2>1. CASE At(in, i) \notin {"QUOTE", "\\", "LF", "NUL"}
    BY <2>1, SpellsBy, Zenon
  <2>2. CASE IsEscape(in, i)
    BY <2>2, SpellsBy, Zenon
  <2>3. CASE IsCode(in, i)
    BY <2>3, SpellsBy, Zenon
  <2>4. CASE IsPair(in, i)
    BY <2>4, SpellsBy, Zenon
  <2> QED
    BY <1>4, <2>1, <2>2, <2>3, <2>4, CharAtBy
<1> QED
  BY <1>3, <1>4

\* What Escape writes is a spelling of the character.
LEMMA EscapeSpells ==
  ASSUME NEW c \in Symbols
  PROVE  <<Escape(c), c>> \in Spellings
<1>1. CASE c \in {"QUOTE", "\\", "/"}
  BY <1>1, EscapesIs, SpellingsAre DEF Escape
<1>2. CASE c = "LF"
  BY <1>2, EscapesIs, SpellingsAre DEF Escape
<1>3. CASE c = "NUL"
  BY <1>3, EscapesIs, SpellingsAre DEF Escape
<1>4. CASE c \notin {"QUOTE", "\\", "/", "LF", "NUL"}
  BY <1>4, SpellingsAre DEF Escape
<1> QED
  BY <1>1, <1>2, <1>3, <1>4

\* The text of a string, character by character.
LEMMA EscapedIs ==
  ASSUME NEW chars \in Strings
  PROVE  LET ss == [k \in 1..Len(chars) |-> Escape(chars[k])]
         IN /\ ss \in Seq(Strings) /\ Len(ss) = Len(chars)
            /\ \E g \in [0..Len(chars) -> Strings] : Glued(ss, g) /\ Escaped(chars) = g[Len(chars)]
<1> DEFINE ss == [k \in 1..Len(chars) |-> Escape(chars[k])]
<1>1. Len(chars) \in Nat /\ DOMAIN chars = 1..Len(chars) /\ \A k \in 1..Len(chars) : Escape(chars[k]) \in Strings
  BY TextIs, EscapeIs
<1>2. ss \in Seq(Strings) /\ Len(ss) = Len(chars)
  BY <1>1
<1>3. Escaped(chars) = FlattenSeq(ss)
  BY <1>1 DEF Escaped
<1> HIDE DEF ss
<1>4. PICK g \in [0..Len(ss) -> Strings] : Glued(ss, g)
  BY <1>2, GluedExists DEF Strings
<1>5. Escaped(chars) = g[Len(ss)]
  BY <1>2, <1>3, <1>4, FlattenIs DEF Strings
<1> QED
  BY <1>2, <1>4, <1>5 DEF ss

\* The text of a string's characters is a text.
LEMMA EscapedText ==
  ASSUME NEW chars \in Strings
  PROVE  Escaped(chars) \in Strings
<1>1. PICK g \in [0..Len(chars) -> Strings] : Escaped(chars) = g[Len(chars)]
  BY EscapedIs, Zenon
<1>2. Len(chars) \in 0..Len(chars)
  BY TextIs
<1> QED
  BY <1>1, <1>2

\* skip_quotes finds a quote at or after its place, or nothing.
LEMMA SkipQuotesEnds ==
  ASSUME NEW s \in Strings, NEW j \in 1..(Len(s) + 1)
  PROVE  skip_quotes(s, j) = 0 \/ (skip_quotes(s, j) \in j..Len(s) /\ s[skip_quotes(s, j)] = "QUOTE")
<1> DEFINE n == Len(s) + 1
           P(k) == skip_quotes(s, k) = 0 \/ (skip_quotes(s, k) \in k..Len(s) /\ s[skip_quotes(s, k)] = "QUOTE")
<1>1. Len(s) \in Nat
  BY TextIs
<1>2. ASSUME NEW k \in 1..n, \A h \in (k + 1)..n : P(h) PROVE P(k)
  <2>1. CASE At(s, k) = "QUOTE"
    <3>1. k \in 1..Len(s) /\ s[k] = "QUOTE"
      BY <1>1, <2>1, AtIs
    <3>2. skip_quotes(s, k) = k
      BY <2>1, SkipQuotesIs
    <3> QED
      BY <1>1, <3>1, <3>2
  <2>2. CASE At(s, k) = "NUL" \/ (At(s, k) = "\\" /\ At(s, k + 1) = "NUL")
    <3>1. skip_quotes(s, k) = 0
      BY <2>2, SkipQuotesIs
    <3> QED
      BY <3>1
  <2>3. CASE At(s, k) # "QUOTE" /\ ~(At(s, k) = "NUL" \/ (At(s, k) = "\\" /\ At(s, k + 1) = "NUL"))
    <3> DEFINE h == IF At(s, k) = "\\" THEN k + 2 ELSE k + 1
    <3>1. At(s, k) # "NUL" => k \in 1..Len(s)
      BY <1>1, AtIs
    <3>2. At(s, k + 1) # "NUL" => k + 1 \in 1..Len(s)
      BY <1>1, AtIs
    <3>3. h \in (k + 1)..n
      BY <1>1, <2>3, <3>1, <3>2
    <3>4. skip_quotes(s, k) = skip_quotes(s, h)
      BY <2>3, SkipQuotesIs
    <3> HIDE DEF h
    <3>5. skip_quotes(s, h) = 0 \/ (skip_quotes(s, h) \in h..Len(s) /\ s[skip_quotes(s, h)] = "QUOTE")
      BY <1>2, <3>3
    <3> QED
      BY <1>1, <3>3, <3>4, <3>5
  <2> QED
    BY <2>1, <2>2, <2>3
<1> HIDE DEF P
<1>3. 1..n \subseteq {k \in 1..n : P(k)}
  <2> DEFINE S == {k \in 1..n : P(k)}
  <2>1. n \in Nat
    BY <1>1
  <2> HIDE DEF n
  <2>2. ASSUME NEW k \in 1..n, (k + 1)..n \subseteq S PROVE k \in S
    BY <1>2, <2>2
  <2> HIDE DEF S
  <2>3. 1..n \subseteq S
    BY <2>1, <2>2, Backward
  <2> QED
    BY <2>3 DEF S
<1> QED
  BY <1>3 DEF P

\* One string, if any.
OnlyOne(R) == R \subseteq Strings /\ \A x, y \in R : x = y

\* What a text between quotes stands for is one string, if any.
LEMMA ReadingsText ==
  ASSUME NEW in \in Strings
  PROVE  OnlyOne(process_string(in))
<1> DEFINE n == Len(in) + 1
           S == {k \in 1..n : OnlyOne(Readings(in, k))}
<1>1. Len(in) \in Nat /\ n \in Nat
  BY TextIs
<1>2. ASSUME NEW k \in 1..n, (k + 1)..n \subseteq S PROVE k \in S
  <2>1. CASE k > Len(in)
    <3>1. Readings(in, k) = {<<>>}
      BY <2>1, ReadingsIs
    <3>2. <<>> \in Strings
      BY DEF Strings
    <3> QED
      BY <3>1, <3>2 DEF OnlyOne
  <2>2. CASE ~(k > Len(in)) /\ CharAt(in, k).used = 0
    <3>1. Readings(in, k) = {}
      BY <2>2, ReadingsIs
    <3> QED
      BY <3>1 DEF OnlyOne
  <2>3. CASE ~(k > Len(in)) /\ CharAt(in, k).used # 0
    <3> DEFINE c == CharAt(in, k)
               h == k + c.used
    <3>1. h \in (k + 1)..n /\ c.char \in Symbols
      BY <1>1, <2>3, CharAtIs
    <3>2. Readings(in, k) = {<<c.char>> \o rest : rest \in Readings(in, h)}
      BY <2>3, ReadingsIs
    <3> HIDE DEF h, c
    <3>3. OnlyOne(Readings(in, h))
      BY <1>2, <3>1
    <3>4. \A rest \in Strings : <<c.char>> \o rest \in Strings
      BY <3>1 DEF Strings
    <3>5. OnlyOne(Readings(in, k))
      BY <3>2, <3>3, <3>4, Zenon DEF OnlyOne
    <3> QED
      BY <3>5
  <2> QED
    BY <2>1, <2>2, <2>3
<1>3. OnlyOne(Readings(in, 1))
  <2> HIDE DEF S, n
  <2>1. 1..n \subseteq S
    BY <1>1, <1>2, Backward
  <2>2. 1 \in S
    BY <1>1, <2>1 DEF n
  <2> QED
    BY <2>2 DEF S
<1> QED
  BY <1>3, ReadingsIs

\* What get_quoted_string finds: nothing, or a string before a quote.
LEMMA QuotedIs ==
  ASSUME NEW s \in Strings, NEW i \in Nat, get_quoted_string(s, i) # Nothing
  PROVE  /\ i \in 1..Len(s) /\ At(s, i) = "QUOTE"
         /\ skip_quotes(s, i + 1) \in (i + 1)..Len(s)
         /\ \E chars \in Strings :
              /\ process_string(SubSeq(s, i + 1, skip_quotes(s, i + 1) - 1)) # {}
              /\ chars = CHOOSE c \in process_string(SubSeq(s, i + 1, skip_quotes(s, i + 1) - 1)) : TRUE
              /\ get_quoted_string(s, i) = Got(String(chars), skip_quotes(s, i + 1) + 1)
<1>1. Len(s) \in Nat
  BY TextIs
<1>2. At(s, i) = "QUOTE"
  BY Zenon DEF get_quoted_string
<1>3. i \in 1..Len(s)
  BY <1>2, AtIs
<1> DEFINE end == skip_quotes(s, i + 1)
           in == SubSeq(s, i + 1, end - 1)
<1>4. get_quoted_string(s, i) = Between(s, i, end)
  BY <1>2 DEF get_quoted_string
<1> HIDE DEF end
<1>5. end # 0 /\ Between(s, i, end) = TheString(process_string(in), end + 1)
  BY <1>4 DEF Between
<1>6. i + 1 \in 1..(Len(s) + 1)
  BY <1>1, <1>3
<1>7. end \in (i + 1)..Len(s)
  BY <1>5, <1>6, SkipQuotesEnds DEF end
<1>8. in \in Strings
  <2>1. end - 1 \in 0..Len(s)
    BY <1>1, <1>3, <1>7
  <2> QED
    BY <1>6, <2>1, SubIs
<1> HIDE DEF in
<1>9. process_string(in) # {}
  BY <1>4, <1>5, Zenon DEF TheString
<1> DEFINE chars == CHOOSE c \in process_string(in) : TRUE
<1>10. chars \in Strings
  BY <1>8, <1>9, ReadingsText DEF OnlyOne
<1>11. get_quoted_string(s, i) = Got(String(chars), end + 1)
  BY <1>4, <1>5, <1>9, Zenon DEF TheString
<1> QED
  BY <1>2, <1>3, <1>7, <1>9, <1>10, <1>11 DEF end, in

-----------------------------------------------------------------------------
(* Numbers in a text.                                                      *)

\* Where the digits that start at i end.
NumberEnd(s, i) == Min({j \in i .. i + Len(s) + 1 : At(s, j) \notin Digits})

\* The digits end at the first character that is none.
LEMMA NumberEndIs ==
  ASSUME NEW s \in Strings, NEW i \in Nat
  PROVE  /\ NumberEnd(s, i) \in Nat /\ NumberEnd(s, i) >= i
         /\ At(s, NumberEnd(s, i)) \notin Digits
         /\ \A k \in i..(NumberEnd(s, i) - 1) : At(s, k) \in Digits
<1> DEFINE S == {j \in i .. i + Len(s) + 1 : At(s, j) \notin Digits}
<1>1. Len(s) \in Nat
  BY TextIs
<1>2. i + Len(s) + 1 \in S
  <2>1. At(s, i + Len(s) + 1) = "NUL"
    BY <1>1, AtIs
  <2> QED
    BY <1>1, <2>1 DEF Digits
<1>3. S \subseteq Nat /\ S # {}
  BY <1>1, <1>2
<1>4. Min(S) \in S /\ \A y \in S : Min(S) <= y
  BY <1>3, MinIs
<1> DEFINE m == Min(S)
<1>5. NumberEnd(s, i) = m
  BY DEF NumberEnd
<1>6. m \in i .. i + Len(s) + 1 /\ At(s, m) \notin Digits
  BY <1>4
<1>7. \A k \in i..(m - 1) : At(s, k) \in Digits
  <2> SUFFICES ASSUME NEW k \in i..(m - 1), At(s, k) \notin Digits PROVE FALSE
    OBVIOUS
  <2>1. k \in S
    BY <1>1, <1>6
  <2>2. m <= k
    BY <1>4, <2>1
  <2> QED
    BY <1>1, <1>6, <2>2
<1> HIDE DEF m
<1> QED
  BY <1>1, <1>5, <1>6, <1>7

\* ... and nowhere else.
LEMMA NumberEndUnique ==
  ASSUME NEW s \in Strings, NEW i \in Nat, NEW j \in Nat, j >= i, At(s, j) \notin Digits,
         \A k \in i..(j - 1) : At(s, k) \in Digits
  PROVE  NumberEnd(s, i) = j
BY NumberEndIs

\* Where the digits of a number begin: after its sign.
DigitsFrom(s, i) == IF At(s, i) = "-" THEN i + 1 ELSE i

\* parse_number_value, by where the digits begin and end.
LEMMA NumberIs ==
  ASSUME NEW s \in Strings, NEW i \in Nat
  PROVE  parse_number_value(s, i) =
           CASE At(s, DigitsFrom(s, i)) = "inf" \/ (At(s, DigitsFrom(s, i)) = "0" /\ NumberEnd(s, DigitsFrom(s, i)) > DigitsFrom(s, i) + 1) -> Nothing
             [] At(s, DigitsFrom(s, i)) \notin Digits \cup {"inf"} -> Got(Number(<<"0">>), i)
             [] OTHER -> Got(Number(Rounded(SubSeq(s, i, NumberEnd(s, DigitsFrom(s, i)) - 1))), NumberEnd(s, DigitsFrom(s, i)))
BY Zenon DEF parse_number_value, DigitsFrom, NumberEnd

\* What IsNumber says, place by place: f is where the digits begin.
LEMMA IsNumberBy ==
  ASSUME NEW t \in Strings, NEW f, t # <<>>, f = IF t[1] = "-" THEN 2 ELSE 1
  PROVE  IsNumber(t) <=>
           f <= Len(t) /\ (\A k \in f..Len(t) : t[k] \in Digits) /\ (t[f] = "0" => Len(t) = f)
<1> DEFINE digits == IF t[1] = "-" THEN Tail(t) ELSE t
<1>1. Len(t) \in Nat \ {0} /\ DOMAIN t = 1..Len(t)
  BY TextIs DEF Strings
<1>2. IsNumber(t) <=> digits # <<>> /\ ToSet(digits) \subseteq Digits /\ (digits[1] = "0" => Len(digits) = 1)
  BY DEF IsNumber
<1>3. /\ digits \in Strings /\ Len(digits) = Len(t) - f + 1
      /\ \A k \in 1..(Len(t) - f + 1) : digits[k] = t[f + k - 1]
  <2>1. CASE t[1] = "-"
    <3>1. digits = Tail(t)
      BY <2>1
    <3>2. /\ Tail(t) \in Strings /\ Len(Tail(t)) = Len(t) - 1
          /\ \A k \in 1..Len(Tail(t)) : Tail(t)[k] = t[k + 1]
      BY HeadTailProperties DEF Strings
    <3> HIDE DEF digits
    <3>3. f = 2 /\ Len(t) - f + 1 = Len(t) - 1 /\ \A k \in Nat : f + k - 1 = k + 1
      BY <1>1, <2>1
    <3>4. Len(digits) = Len(t) - f + 1 /\ digits \in Strings
      BY <3>1, <3>2, <3>3
    <3>5. ASSUME NEW k \in 1..(Len(t) - f + 1) PROVE digits[k] = t[f + k - 1]
      BY <1>1, <3>1, <3>2, <3>3
    <3> QED
      BY <3>4, <3>5
  <2>2. CASE t[1] # "-"
    <3>1. digits = t /\ f = 1
      BY <2>2
    <3> HIDE DEF digits
    <3> QED
      BY <1>1, <3>1
  <2> QED
    BY <2>1, <2>2
<1> HIDE DEF digits
<1>4. DOMAIN digits = 1..Len(digits) /\ f \in Nat
  BY <1>3, TextIs
<1>5. digits # <<>> <=> f <= Len(t)
  <2>1. digits # <<>> <=> Len(digits) # 0
    BY <1>3 DEF Strings
  <2> QED
    BY <1>1, <1>3, <1>4, <2>1
<1>6. ToSet(digits) \subseteq Digits <=> \A k \in 1..(Len(t) - f + 1) : digits[k] \in Digits
  BY <1>3, <1>4 DEF ToSet
<1>7. (\A k \in 1..(Len(t) - f + 1) : digits[k] \in Digits) <=> \A k \in f..Len(t) : t[k] \in Digits
  <2>1. ASSUME \A k \in 1..(Len(t) - f + 1) : digits[k] \in Digits, NEW k \in f..Len(t) PROVE t[k] \in Digits
    <3>1. k - f + 1 \in 1..(Len(t) - f + 1) /\ f + (k - f + 1) - 1 = k
      BY <1>1, <1>4
    <3>2. digits[k - f + 1] = t[f + (k - f + 1) - 1]
      BY <1>3, <3>1
    <3> QED
      BY <2>1, <3>1, <3>2
  <2>2. ASSUME \A k \in f..Len(t) : t[k] \in Digits, NEW k \in 1..(Len(t) - f + 1) PROVE digits[k] \in Digits
    <3>1. f + k - 1 \in f..Len(t)
      BY <1>1, <1>4
    <3> QED
      BY <1>3, <2>2, <3>1
  <2> QED
    BY <2>1, <2>2
<1>8. f <= Len(t) => (digits[1] = "0" /\ ~(Len(digits) = 1) <=> t[f] = "0" /\ ~(Len(t) = f))
  <2>1. f <= Len(t) => 1 \in 1..(Len(t) - f + 1) /\ f + 1 - 1 = f
    BY <1>1, <1>4
  <2>2. f <= Len(t) => digits[1] = t[f]
    BY <1>3, <2>1
  <2>3. Len(digits) = 1 <=> Len(t) = f
    BY <1>1, <1>3, <1>4
  <2> QED
    BY <2>2, <2>3
<1> QED
  BY <1>2, <1>5, <1>6, <1>7, <1>8

\* A text that is held is a part.
LEMMA HoldsSub ==
  ASSUME NEW s \in Strings, NEW t \in Strings, NEW i, Holds(s, i, t)
  PROVE  SubSeq(s, i, i + Len(t) - 1) = t
<1> DEFINE a == SubSeq(s, i, i + Len(t) - 1)
<1>1. /\ Len(t) \in Nat /\ Len(s) \in Nat /\ i \in Nat \ {0} /\ i + Len(t) - 1 <= Len(s)
      /\ \A k \in 1..Len(t) : s[i + k - 1] = t[k]
  BY TextIs DEF Holds
<1>2. i \in 1..(Len(s) + 1) /\ i + Len(t) - 1 \in 0..Len(s) /\ i + Len(t) - 1 - i + 1 = Len(t)
      /\ (i <= i + Len(t) - 1 <=> Len(t) # 0)
  BY <1>1
<1>3. /\ a \in Strings /\ Len(a) = IF i <= i + Len(t) - 1 THEN i + Len(t) - 1 - i + 1 ELSE 0
      /\ \A k \in 1..(i + Len(t) - 1 - i + 1) : a[k] = s[i + k - 1]
  BY <1>2, SubIs
<1> HIDE DEF a
<1>4. Len(a) = Len(t) /\ \A k \in 1..Len(t) : a[k] = t[k]
  BY <1>1, <1>2, <1>3
<1>5. a = t
  BY <1>3, <1>4, SeqEqual DEF Strings
<1> QED
  BY <1>5 DEF a

\* A double keeps no more digits of a number that has lost some.
LEMMA RoundedIs ==
  ASSUME NEW t \in Strings, IsNumber(t)
  PROVE  Rounded(t) \in Strings /\ IsDouble(Rounded(t))
<1> DEFINE f == IF t[1] = "-" THEN 2 ELSE 1
           r == Rounded(t)
           kept == Precision + (IF t[1] = "-" THEN 1 ELSE 0)
<1>1. t # <<>> /\ Len(t) \in Nat \ {0} /\ DOMAIN t = 1..Len(t) /\ kept \in Nat /\ kept >= f /\ f \in 1..2
  BY PrecisionAssumption, TextIs DEF IsNumber
<1>2. f <= Len(t) /\ (\A k \in f..Len(t) : t[k] \in Digits) /\ (t[f] = "0" => Len(t) = f)
  BY <1>1, IsNumberBy
<1>3. r = [k \in 1..Len(t) |-> IF k <= kept THEN t[k] ELSE "0"]
  BY <1>1, Zenon DEF Rounded
<1> HIDE DEF r, kept
<1>4. r \in Strings /\ Len(r) = Len(t) /\ DOMAIN r = 1..Len(r)
  <2>1. \A k \in 1..Len(t) : (IF k <= kept THEN t[k] ELSE "0") \in Symbols
    BY Known DEF Strings
  <2> QED
    BY <1>1, <1>3, <2>1 DEF Strings
<1>5. r[1] = t[1] /\ r[f] = t[f] /\ r # <<>>
  BY <1>1, <1>2, <1>3, <1>4
<1>6. \A k \in f..Len(r) : r[k] \in Digits
  BY <1>1, <1>2, <1>3, <1>4 DEF Digits
<1>7. IsNumber(r)
  <2>1. f = IF r[1] = "-" THEN 2 ELSE 1
    BY <1>5
  <2> HIDE DEF f
  <2> QED
    BY <1>2, <1>4, <1>5, <1>6, <2>1, IsNumberBy
<1>8. Rounded(r) = r
  <2>1. Rounded(r) = [k \in 1..Len(t) |-> IF k <= kept THEN r[k] ELSE "0"]
    BY <1>4, <1>5, Zenon DEF Rounded, kept
  <2>2. \A k \in 1..Len(t) : (IF k <= kept THEN r[k] ELSE "0") = IF k <= kept THEN t[k] ELSE "0"
    BY <1>3
  <2> QED
    BY <1>3, <2>1, <2>2
<1> QED
  BY <1>4, <1>7, <1>8 DEF r, IsDouble

\* A number is read to its end, as a double.
LEMMA NumberRead ==
  ASSUME NEW s \in Strings, NEW t \in Strings, NEW i, IsNumber(t), Holds(s, i, t), At(s, i + Len(t)) \notin Digits
  PROVE  /\ parse_number_value(s, i) = Got(Number(Rounded(t)), i + Len(t))
         /\ At(s, i) = t[1] /\ t[1] \in {"-"} \cup Digits
<1> DEFINE f == IF t[1] = "-" THEN 2 ELSE 1
<1>1. Len(t) \in Nat /\ Len(s) \in Nat /\ t # <<>> /\ f \in 1..2
  BY TextIs DEF IsNumber
<1>2. f <= Len(t) /\ (\A k \in f..Len(t) : t[k] \in Digits) /\ (t[f] = "0" => Len(t) = f)
  BY <1>1, IsNumberBy
<1>3. i \in Nat \ {0} /\ i + Len(t) - 1 <= Len(s)
  BY DEF Holds
<1>4. At(s, i) = t[1]
  BY <1>1, HoldsFirst
<1>5. DigitsFrom(s, i) = i + f - 1
  BY <1>3, <1>4 DEF DigitsFrom
<1> HIDE DEF f
<1> DEFINE first == i + f - 1
<1>6. first \in Nat /\ i + Len(t) \in Nat /\ i + Len(t) >= first
  BY <1>1, <1>2, <1>3
<1>7. \A k \in first..(i + Len(t) - 1) : At(s, k) \in Digits
  <2> TAKE k \in first..(i + Len(t) - 1)
  <2>1. k - i + 1 \in 1..Len(t) /\ k - i + 1 \in f..Len(t) /\ i + (k - i + 1) - 1 = k
    BY <1>1, <1>2, <1>3, <1>6
  <2>2. At(s, i + (k - i + 1) - 1) = t[k - i + 1]
    BY <2>1, HoldsAt
  <2> QED
    BY <1>2, <2>1, <2>2
<1>8. At(s, first) = t[f]
  BY <1>1, <1>2, HoldsAt
<1> HIDE DEF first
<1>9. NumberEnd(s, first) = i + Len(t)
  <2> DEFINE j == i + Len(t)
  <2>1. j \in Nat /\ j >= first /\ At(s, j) \notin Digits /\ \A k \in first..(j - 1) : At(s, k) \in Digits
    <3>1. j \in Nat /\ j >= first
      BY <1>6
    <3>2. At(s, j) \notin Digits
      OBVIOUS
    <3>3. i + Len(t) - 1 = j - 1
      BY <1>1, <1>3
    <3>4. \A k \in first..(j - 1) : At(s, k) \in Digits
      <4> HIDE DEF j
      <4> QED
        BY <1>7, <3>3
    <3> HIDE DEF j
    <3> QED
      BY <3>1, <3>2, <3>4
  <2> HIDE DEF j
  <2>2. NumberEnd(s, first) = j
    BY <1>6, <2>1, NumberEndUnique
  <2> QED
    BY <2>2 DEF j
<1>10. t[f] \in Digits /\ t[f] # "inf"
  <2>1. t[f] \in Digits
    BY <1>1, <1>2
  <2> QED
    BY <2>1 DEF Digits
<1>11. ~(At(s, first) = "0" /\ NumberEnd(s, first) > first + 1)
  <2>1. t[f] = "0" => i + Len(t) = first + 1
    BY <1>1, <1>2, <1>3 DEF first
  <2> QED
    BY <1>6, <1>8, <1>9, <2>1
<1>12. parse_number_value(s, i) = Got(Number(Rounded(SubSeq(s, i, i + Len(t) - 1))), i + Len(t))
  <2>1. DigitsFrom(s, i) = first /\ i \in Nat
    BY <1>3, <1>5 DEF first
  <2> QED
    BY <1>8, <1>9, <1>10, <1>11, <2>1, NumberIs
<1>13. SubSeq(s, i, i + Len(t) - 1) = t
  BY <1>1, <1>3, HoldsSub
<1>14. t[1] \in {"-"} \cup Digits
  BY <1>10 DEF f
<1> QED
  BY <1>4, <1>12, <1>13, <1>14

\* What parse_number_value makes is the number that is there, within the
\* text; of a sign alone it is 0, and the sign is left.
LEMMA NumberMade ==
  ASSUME NEW s \in Strings, NEW i \in 1..Len(s), At(s, i) \in {"-"} \cup Digits,
         parse_number_value(s, i) # Nothing
  PROVE  \E t \in Strings, next \in i..(Len(s) + 1) :
           /\ IsNumber(t) /\ parse_number_value(s, i) = Got(Number(Rounded(t)), next)
           /\ (next = i /\ At(s, i) = "-") \/ (next > i /\ t = SubSeq(s, i, next - 1))
<1> DEFINE first == DigitsFrom(s, i)
           end == NumberEnd(s, first)
<1>1. Len(s) \in Nat /\ i \in Nat /\ first \in Nat /\ first \in i..(i + 1) /\ "0" \in Symbols
  BY TextIs, Known DEF DigitsFrom
<1>2. CASE At(s, first) \notin Digits \cup {"inf"}
  <2>1. parse_number_value(s, i) = Got(Number(<<"0">>), i)
    <3>1. At(s, first) # "inf" /\ At(s, first) # "0"
      BY <1>2 DEF Digits
    <3> QED
      BY <1>1, <1>2, <3>1, NumberIs
  <2>2. <<"0">> \in Strings
    BY <1>1 DEF Strings
  <2>3. IsNumber(<<"0">>)
    <3> DEFINE t == <<"0">>
    <3>1. t # <<>> /\ Len(t) = 1 /\ t[1] = "0" /\ \A k \in 1..1 : t[k] = "0"
      OBVIOUS
    <3> HIDE DEF t
    <3>2. IsNumber(t) <=> 1 <= Len(t) /\ (\A k \in 1..Len(t) : t[k] \in Digits) /\ (t[1] = "0" => Len(t) = 1)
      BY <2>2, <3>1, IsNumberBy DEF t
    <3>3. \A k \in 1..Len(t) : t[k] \in Digits
      BY <3>1 DEF Digits
    <3>4. IsNumber(t)
      BY <3>1, <3>2, <3>3
    <3> QED
      BY <3>4 DEF t
  <2>4. i \in i..(Len(s) + 1)
    BY <1>1
  <2>5. At(s, i) = "-"
    BY <1>2 DEF DigitsFrom
  <2>6. Rounded(<<"0">>) = <<"0">>
    <3> DEFINE t == <<"0">>
    <3>1. DOMAIN t = {1} /\ t[1] = "0" /\ t = [k \in {1} |-> "0"]
      OBVIOUS
    <3> HIDE DEF t
    <3>2. Rounded(t) = t
      BY <3>1 DEF Rounded
    <3> QED
      BY <3>2 DEF t
  <2> QED
    BY <2>1, <2>2, <2>3, <2>4, <2>5, <2>6
<1>3. CASE At(s, first) \in Digits \cup {"inf"}
  <2>1. ~(At(s, first) = "inf" \/ (At(s, first) = "0" /\ end > first + 1))
    BY <1>1, NumberIs DEF Digits
  <2>2. parse_number_value(s, i) = Got(Number(Rounded(SubSeq(s, i, end - 1))), end)
    BY <1>1, <1>3, <2>1, NumberIs
  <2>3. end \in Nat /\ end >= first /\ At(s, end) \notin Digits /\ \A k \in first..(end - 1) : At(s, k) \in Digits
    BY <1>1, NumberEndIs
  <2>4. At(s, first) \in Digits
    BY <1>3, <2>1
  <2> HIDE DEF end
  <2>5. end > first
    <3>1. end # first
      BY <2>3, <2>4
    <3> QED
      BY <1>1, <2>3, <3>1
  <2>6. end - 1 \in 1..Len(s)
    <3>1. end - 1 \in Nat /\ end - 1 \in first..(end - 1)
      BY <1>1, <2>3, <2>5
    <3>2. At(s, end - 1) # "NUL"
      BY <2>3, <3>1 DEF Digits
    <3> QED
      BY <3>1, <3>2, AtIs
  <2> DEFINE t == SubSeq(s, i, end - 1)
             f == IF t[1] = "-" THEN 2 ELSE 1
  <2>7. t \in Strings /\ Len(t) = end - i /\ \A k \in 1..(end - i) : t[k] = s[i + k - 1]
    <3>1. i \in 1..(Len(s) + 1) /\ end - 1 \in 0..Len(s) /\ i <= end - 1 /\ end - 1 - i + 1 = end - i
      BY <1>1, <2>3, <2>5, <2>6
    <3> QED
      BY <3>1, SubIs
  <2> HIDE DEF t
  <2>8. t[1] = At(s, i) /\ t # <<>> /\ Len(t) # 0
    <3>1. s[i] = At(s, i) /\ 1 \in 1..(end - i) /\ i + 1 - 1 = i
      BY <1>1, <2>3, <2>5, AtIs
    <3>2. Len(t) # 0
      BY <1>1, <2>3, <2>5, <2>7
    <3> QED
      BY <2>7, <3>1, <3>2
  <2>9. f = first - i + 1 /\ f \in 1..2
    BY <1>1, <2>8 DEF DigitsFrom
  <2> HIDE DEF f
  <2> HIDE DEF first
  <2>10. \A k \in f..Len(t) : t[k] = At(s, i + k - 1) /\ i + k - 1 \in first..(end - 1)
    <3> TAKE k \in f..Len(t)
    <3>1. k \in 1..(end - i) /\ i + k - 1 \in first..(end - 1) /\ i + k - 1 \in 1..Len(s) /\ i + k - 1 \in Nat
      BY <1>1, <2>3, <2>6, <2>7, <2>9
    <3> QED
      BY <2>7, <3>1, AtIs
  <2>11. f <= Len(t)
    BY <1>1, <2>3, <2>5, <2>7, <2>9
  <2>12. \A k \in f..Len(t) : t[k] \in Digits
    BY <2>3, <2>10
  <2>13. t[f] = "0" => Len(t) = f
    <3>1. f \in f..Len(t) /\ i + f - 1 = first
      BY <1>1, <2>7, <2>9, <2>11
    <3>2. t[f] = At(s, first)
      BY <2>10, <3>1
    <3>3. t[f] = "0" => ~(end > first + 1)
      BY <2>1, <3>2
    <3> QED
      BY <1>1, <2>3, <2>5, <2>7, <2>9, <3>3
  <2>14. IsNumber(t)
    BY <2>7, <2>8, <2>11, <2>12, <2>13, IsNumberBy DEF f
  <2>15. end \in i..(Len(s) + 1)
    BY <1>1, <2>3, <2>5, <2>6
  <2>16. parse_number_value(s, i) = Got(Number(Rounded(t)), end)
    BY <2>2 DEF t
  <2>17. end > i /\ t = SubSeq(s, i, end - 1)
    BY <1>1, <2>3, <2>5 DEF t
  <2> QED
    BY <2>7, <2>14, <2>15, <2>16, <2>17
<1> QED
  BY <1>2, <1>3

-----------------------------------------------------------------------------
(* Levels: what is in what.                                                *)

\* The levels that the parser may go down.
Top == MAX_NESTING + 1

\* The values of a level, from those of the level below.
ValuesBody(f, n) ==
  IF n = 0 THEN {}
  ELSE Plain({"null"}, {<<>>}) \cup Plain({"boolean"}, {<<"true">>, <<"false">>})
         \cup Plain({"number"}, {t \in Strings : IsDouble(t)}) \cup Plain({"string"}, Strings)
         \cup [type : {"array"}, chars : {<<>>}, names : {<<>>}, items : Seq(f[n - 1])]
         \cup {v \in [type : {"object"}, chars : {<<>>}, names : Seq(Names), items : Seq(f[n - 1])] :
                 Len(v.names) = Len(v.items) /\ IsInjective(v.names)}

\* There are such values for every level.
LEMMA ValuesExist == \E f : f = [n \in 0..Top |-> ValuesBody(f, n)]
<1> DEFINE Upto(m, f) == f = [n \in 0..m |-> ValuesBody(f, n)]
           G == {m \in 0..Top : \E f : Upto(m, f)}
<1>1. Top \in Nat
  BY NestingAssumption DEF Top
<1>2. 0 \in G
  <2> DEFINE f == [n \in 0..0 |-> {}]
  <2>1. \A n \in 0..0 : ValuesBody(f, n) = {}
    BY DEF ValuesBody
  <2>2. Upto(0, f)
    BY <2>1
  <2> HIDE DEF f, Upto
  <2> QED
    BY <1>1, <2>2
<1>3. ASSUME NEW x \in 1..Top, x - 1 \in G PROVE x \in G
  <2>1. PICK f : Upto(x - 1, f)
    BY <1>3
  <2> DEFINE h == [n \in 0..x |-> IF n = x THEN ValuesBody(f, n) ELSE f[n]]
  <2>2. ASSUME NEW n \in 0..x PROVE h[n] = ValuesBody(h, n)
    <3>1. n # 0 => f[n - 1] = h[n - 1]
      BY <1>1
    <3> HIDE DEF h
    <3>2. ValuesBody(f, n) = ValuesBody(h, n)
      <4>1. CASE n = 0
        BY <4>1 DEF ValuesBody
      <4>2. CASE n # 0
        BY <3>1, <4>2 DEF ValuesBody
      <4> QED
        BY <4>1, <4>2
    <3>3. CASE n = x
      BY <3>2, <3>3 DEF h
    <3>4. CASE n # x
      <4>1. n \in 0..(x - 1)
        BY <1>1, <3>4
      <4>2. f[n] = ValuesBody(f, n)
        BY <2>1, <4>1
      <4>3. h[n] = f[n]
        BY <3>4 DEF h
      <4> QED
        BY <3>2, <4>2, <4>3
    <3> QED
      BY <3>3, <3>4
  <2>3. Upto(x, h)
    <3>1. h = [n \in 0..x |-> h[n]]
      OBVIOUS
    <3> HIDE DEF h
    <3> QED
      BY <2>2, <3>1
  <2> HIDE DEF h, Upto
  <2> QED
    BY <1>1, <2>3
<1>4. Top \in G
  <2> HIDE DEF G
  <2>1. 0..Top \subseteq G
    BY <1>1, <1>2, <1>3, Inductive
  <2> QED
    BY <1>1, <2>1
<1> QED
  BY <1>4

\* The values with so many levels.
LEMMA ValuesIs ==
  /\ Values[0] = {}
  /\ \A n \in 1..Top :
       Values[n] =
         Plain({"null"}, {<<>>}) \cup Plain({"boolean"}, {<<"true">>, <<"false">>})
         \cup Plain({"number"}, {t \in Strings : IsDouble(t)}) \cup Plain({"string"}, Strings)
         \cup [type : {"array"}, chars : {<<>>}, names : {<<>>}, items : Seq(Values[n - 1])]
         \cup {v \in [type : {"object"}, chars : {<<>>}, names : Seq(Names), items : Seq(Values[n - 1])] :
                 Len(v.names) = Len(v.items) /\ IsInjective(v.names)}
<1>1. Values = CHOOSE f : f = [n \in 0..Top |-> ValuesBody(f, n)]
  BY Zenon DEF Values, ValuesBody, Top
<1>2. Values = [n \in 0..Top |-> ValuesBody(Values, n)]
  BY <1>1, ValuesExist, Zenon
<1>3. Top \in Nat
  BY NestingAssumption DEF Top
<1>4. \A n \in 0..Top : Values[n] = ValuesBody(Values, n)
  BY <1>2, Zenon
<1>5. 0 \in 0..Top /\ \A n \in 1..Top : n \in 0..Top /\ n # 0
  BY <1>3
<1>6. Values[0] = {}
  BY <1>4, <1>5, Zenon DEF ValuesBody
<1>7. \A n \in 1..Top : Values[n] = ValuesBody(Values, n) /\ n # 0
  BY <1>4, <1>5, Zenon
<1> QED
  BY <1>6, <1>7, Zenon DEF ValuesBody

\* An array of values of the level below.
IsArrayOf(v, n) == \E items \in Seq(Values[n - 1]) : v = Array(items)

\* ... and an object of such values.
IsObjectIn(v, n) ==
  \E names \in Seq(Names), items \in Seq(Values[n - 1]) :
    v = Object(names, items) /\ Len(names) = Len(items) /\ IsInjective(names)

\* A value that has no other in it.
IsPlain(v) ==
  \/ v = Null \/ v = Boolean("true") \/ v = Boolean("false")
  \/ \E t \in Strings : IsDouble(t) /\ v = Number(t)
  \/ \E chars \in Strings : v = String(chars)

\* ... as the constructors make them.
LEMMA ValuesBy ==
  ASSUME NEW n \in 1..Top, NEW v
  PROVE  v \in Values[n] <=> IsPlain(v) \/ IsArrayOf(v, n) \/ IsObjectIn(v, n)
<1>1. v \in Plain({"null"}, {<<>>}) <=> v = Null
  BY DEF Plain, Null, Value
<1>2. v \in Plain({"boolean"}, {<<"true">>, <<"false">>}) <=> v = Boolean("true") \/ v = Boolean("false")
  BY DEF Plain, Boolean, Value
<1>3. v \in Plain({"number"}, {t \in Strings : IsDouble(t)}) <=> \E t \in Strings : IsDouble(t) /\ v = Number(t)
  <2>1. ASSUME v \in Plain({"number"}, {t \in Strings : IsDouble(t)})
        PROVE  \E t \in Strings : IsDouble(t) /\ v = Number(t)
    <3>1. v.chars \in Strings /\ IsDouble(v.chars)
      BY <2>1 DEF Plain
    <3>2. v = Number(v.chars)
      BY <2>1 DEF Plain, Number, Value
    <3> QED
      BY <3>1, <3>2, Zenon
  <2>2. ASSUME NEW t \in Strings, IsDouble(t), v = Number(t)
        PROVE  v \in Plain({"number"}, {u \in Strings : IsDouble(u)})
    BY <2>2 DEF Plain, Number, Value
  <2> QED
    BY <2>1, <2>2, Zenon
<1>4. v \in Plain({"string"}, Strings) <=> \E chars \in Strings : v = String(chars)
  <2>1. ASSUME v \in Plain({"string"}, Strings)
        PROVE  \E chars \in Strings : v = String(chars)
    <3>1. v.chars \in Strings /\ v = String(v.chars)
      BY <2>1 DEF Plain, String, Value
    <3> QED
      BY <3>1, Zenon
  <2>2. ASSUME NEW chars \in Strings, v = String(chars)
        PROVE  v \in Plain({"string"}, Strings)
    BY <2>2 DEF Plain, String, Value
  <2> QED
    BY <2>1, <2>2, Zenon
<1> DEFINE I == Seq(Values[n - 1])
           N == Seq(Names)
<1>5. v \in [type : {"array"}, chars : {<<>>}, names : {<<>>}, items : I] <=> \E items \in I : v = Array(items)
  <2> HIDE DEF I
  <2>1. ASSUME v \in [type : {"array"}, chars : {<<>>}, names : {<<>>}, items : I]
        PROVE  \E items \in I : v = Array(items)
    <3>1. v.items \in I /\ v = Array(v.items)
      BY <2>1 DEF Array, Value
    <3> QED
      BY <3>1, Zenon
  <2>2. ASSUME NEW items \in I, v = Array(items)
        PROVE  v \in [type : {"array"}, chars : {<<>>}, names : {<<>>}, items : I]
    BY <2>2 DEF Array, Value
  <2> QED
    BY <2>1, <2>2, Zenon
<1> DEFINE O == {o \in [type : {"object"}, chars : {<<>>}, names : N, items : I] :
                   Len(o.names) = Len(o.items) /\ IsInjective(o.names)}
<1>6. v \in O <=> \E names \in N, items \in I :
                    v = Object(names, items) /\ Len(names) = Len(items) /\ IsInjective(names)
  <2> HIDE DEF I, N
  <2>1. ASSUME v \in O
        PROVE  \E names \in N, items \in I :
                 v = Object(names, items) /\ Len(names) = Len(items) /\ IsInjective(names)
    <3>1. v.items \in I /\ v.names \in N /\ v = Object(v.names, v.items)
      BY <2>1 DEF Object, Value
    <3>2. Len(v.names) = Len(v.items) /\ IsInjective(v.names)
      BY <2>1, Zenon
    <3> QED
      BY <3>1, <3>2, Zenon
  <2>2. ASSUME NEW names \in N, NEW items \in I, v = Object(names, items), Len(names) = Len(items), IsInjective(names)
        PROVE  v \in O
    <3>1. v \in [type : {"object"}, chars : {<<>>}, names : N, items : I] /\ v.names = names /\ v.items = items
      BY <2>2 DEF Object, Value
    <3> QED
      BY <2>2, <3>1, Zenon
  <2> QED
    BY <2>1, <2>2, Zenon
<1>7. v \in Values[n] <=>
        \/ v \in Plain({"null"}, {<<>>}) \/ v \in Plain({"boolean"}, {<<"true">>, <<"false">>})
        \/ v \in Plain({"number"}, {t \in Strings : IsDouble(t)}) \/ v \in Plain({"string"}, Strings)
        \/ v \in [type : {"array"}, chars : {<<>>}, names : {<<>>}, items : I]
        \/ v \in O
  BY ValuesIs, Zenon
<1> QED
  BY <1>1, <1>2, <1>3, <1>4, <1>5, <1>6, <1>7, Zenon DEF IsPlain, IsArrayOf, IsObjectIn

\* More levels, more values.
LEMMA ValuesGrow ==
  ASSUME NEW n \in 1..Top
  PROVE  Values[n - 1] \subseteq Values[n]
<1> DEFINE G == {m \in 0..Top : m = 0 \/ Values[m - 1] \subseteq Values[m]}
<1>1. Top \in Nat
  BY NestingAssumption DEF Top
<1>2. ASSUME NEW x \in 1..Top, x - 1 \in G PROVE x \in G
  <2>1. CASE x = 1
    <3>1. Values[x - 1] = {}
      BY <2>1, ValuesIs
    <3> QED
      BY <1>1, <3>1
  <2>2. CASE x # 1
    <3> DEFINE y == x - 1
    <3>1. y \in 1..Top /\ Values[y - 1] \subseteq Values[y]
      BY <1>1, <1>2, <2>2
    <3> HIDE DEF y
    <3>2. Seq(Values[y - 1]) \subseteq Seq(Values[y])
      BY <3>1, SeqMonotonic
    <3>3. ASSUME NEW v \in Values[y] PROVE v \in Values[x]
      <4>1. IsPlain(v) \/ IsArrayOf(v, y) \/ IsObjectIn(v, y)
        BY <3>1, ValuesBy
      <4>2. IsArrayOf(v, y) => \E items \in Seq(Values[y]) : v = Array(items)
        BY <3>2, Zenon DEF IsArrayOf
      <4>3. IsObjectIn(v, y) =>
              \E names \in Seq(Names), items \in Seq(Values[y]) :
                v = Object(names, items) /\ Len(names) = Len(items) /\ IsInjective(names)
        BY <3>2, Zenon DEF IsObjectIn
      <4>4. IsPlain(v) \/ IsArrayOf(v, x) \/ IsObjectIn(v, x)
        BY <4>1, <4>2, <4>3, Zenon DEF IsArrayOf, IsObjectIn, y
      <4> QED
        BY <4>4, ValuesBy
    <3> QED
      BY <1>1, <3>3 DEF y
  <2> QED
    BY <2>1, <2>2
<1>3. 0..Top \subseteq G
  <2>1. 0 \in G
    BY <1>1
  <2> HIDE DEF G
  <2> QED
    BY <1>1, <1>2, <2>1, Inductive
<1>4. n \in G
  <2> HIDE DEF G
  <2> QED
    BY <1>1, <1>3
<1> QED
  BY <1>1, <1>4

\* ... and the more the higher.
LEMMA ValuesUpTo ==
  ASSUME NEW m \in 0..Top, NEW n \in 0..Top, m <= n
  PROVE  Values[m] \subseteq Values[n]
<1> DEFINE G == {k \in 0..n : k < m \/ Values[m] \subseteq Values[k]}
<1>1. Top \in Nat
  BY NestingAssumption DEF Top
<1>2. ASSUME NEW x \in 1..n, x - 1 \in G PROVE x \in G
  <2>1. CASE x < m
    BY <2>1
  <2>2. CASE x = m
    BY <2>2
  <2>3. CASE x > m
    <3>1. ~(x - 1 < m) /\ x \in 1..Top
      BY <1>1, <2>3
    <3>2. Values[x - 1] \subseteq Values[x]
      BY <3>1, ValuesGrow
    <3> QED
      BY <1>2, <3>1, <3>2
  <2> QED
    BY <1>1, <2>1, <2>2, <2>3
<1>3. 0 \in G
  BY <1>1
<1>4. n \in G
  <2> HIDE DEF G
  <2>1. 0..n \subseteq G
    BY <1>1, <1>2, <1>3, Inductive
  <2> QED
    BY <1>1, <2>1
<1> QED
  BY <1>1, <1>4

-----------------------------------------------------------------------------
(* The texts of values.                                                    *)

\* The text of a value of which the items' texts are given.
TextOf(text, v) ==
  LET items == [i \in DOMAIN v.items |-> text[v.items[i]]]
      names == [i \in DOMAIN v.names |-> json_serialize_string(v.names[i])]
  IN CASE v.type = "array" -> <<"[">> \o Joined(items) \o <<"]">>
       [] v.type = "object" ->
            <<"LBRACE">> \o Joined([i \in DOMAIN items |-> names[i] \o <<":">> \o items[i]]) \o <<"RBRACE">>
       [] v.type = "string" -> json_serialize_string(v.chars)
       [] v.type \in {"number", "boolean"} -> v.chars
       [] OTHER -> <<"null">>

\* The texts of a level, from those of the level below.
TextsBody(f, n) == [v \in Values[n] |-> TextOf(f[n - 1], v)]

\* There are such texts for every level.
LEMMA TextsExist == \E f : f = [n \in 0..Top |-> TextsBody(f, n)]
<1> DEFINE Upto(m, f) == f = [n \in 0..m |-> TextsBody(f, n)]
           G == {m \in 0..Top : \E f : Upto(m, f)}
<1>1. Top \in Nat
  BY NestingAssumption DEF Top
<1>2. ASSUME NEW f PROVE TextsBody(f, 0) = [v \in {} |-> {}]
  <2>1. Values[0] = {}
    BY ValuesIs
  <2>2. TextsBody(f, 0) = [v \in {} |-> TextOf(f[0 - 1], v)]
    BY <2>1, Zenon DEF TextsBody
  <2> QED
    BY <2>2
<1>3. 0 \in G
  <2> DEFINE f == [n \in 0..0 |-> [v \in {} |-> {}]]
  <2>1. \A n \in 0..0 : TextsBody(f, n) = [v \in {} |-> {}]
    <3> TAKE n \in 0..0
    <3>1. n = 0
      OBVIOUS
    <3> HIDE DEF f
    <3> QED
      BY <1>2, <3>1
  <2>2. Upto(0, f)
    BY <2>1
  <2> HIDE DEF f, Upto
  <2> QED
    BY <1>1, <2>2
<1>4. ASSUME NEW x \in 1..Top, x - 1 \in G PROVE x \in G
  <2>1. PICK f : Upto(x - 1, f)
    BY <1>4
  <2> DEFINE h == [n \in 0..x |-> IF n = x THEN TextsBody(f, n) ELSE f[n]]
  <2>2. ASSUME NEW n \in 0..x PROVE h[n] = TextsBody(h, n)
    <3>1. n # 0 => f[n - 1] = h[n - 1]
      BY <1>1
    <3> HIDE DEF h
    <3>2. TextsBody(f, n) = TextsBody(h, n)
      <4>1. CASE n = 0
        BY <1>2, <4>1
      <4>2. CASE n # 0
        BY <3>1, <4>2, Zenon DEF TextsBody
      <4> QED
        BY <4>1, <4>2
    <3>3. CASE n = x
      BY <3>2, <3>3 DEF h
    <3>4. CASE n # x
      <4>1. n \in 0..(x - 1)
        BY <1>1, <3>4
      <4>2. f[n] = TextsBody(f, n)
        BY <2>1, <4>1
      <4>3. h[n] = f[n]
        BY <3>4 DEF h
      <4> QED
        BY <3>2, <4>2, <4>3
    <3> QED
      BY <3>3, <3>4
  <2>3. Upto(x, h)
    <3>1. h = [n \in 0..x |-> h[n]]
      OBVIOUS
    <3> HIDE DEF h
    <3> QED
      BY <2>2, <3>1
  <2> HIDE DEF h, Upto
  <2> QED
    BY <1>1, <2>3
<1>5. Top \in G
  <2> HIDE DEF G
  <2>1. 0..Top \subseteq G
    BY <1>1, <1>3, <1>4, Inductive
  <2> QED
    BY <1>1, <2>1
<1> QED
  BY <1>5

\* The text of a value is made of those of its items.
LEMMA TextsIs ==
  ASSUME NEW n \in 0..Top, NEW v \in Values[n]
  PROVE  Texts[n][v] = TextOf(Texts[n - 1], v)
<1>1. Texts = CHOOSE f : f = [m \in 0..Top |-> TextsBody(f, m)]
  BY Zenon DEF Texts, TextsBody, TextOf, Top
<1>2. Texts = [m \in 0..Top |-> TextsBody(Texts, m)]
  BY <1>1, TextsExist, Zenon
<1>3. Texts[n] = TextsBody(Texts, n)
  BY <1>2, Zenon
<1> QED
  BY <1>3, Zenon DEF TextsBody

-----------------------------------------------------------------------------
(* The parser, level by level.                                             *)

\* What the parser finds at a level, from what it finds at the level below.
FoundBody(s, f, n) ==
  [i \in Nat |-> IF n = 0 THEN Nothing ELSE parse_any_value(s, SKIP_WHITESPACES(s, i), f[n - 1])]

\* There is something to be found, or nothing, for every level.
LEMMA FoundExists ==
  ASSUME NEW s
  PROVE  \E f : f = [n \in 0..Top |-> FoundBody(s, f, n)]
<1> DEFINE Upto(m, f) == f = [n \in 0..m |-> FoundBody(s, f, n)]
           G == {m \in 0..Top : \E f : Upto(m, f)}
<1>1. Top \in Nat
  BY NestingAssumption DEF Top
<1>2. ASSUME NEW f PROVE FoundBody(s, f, 0) = [i \in Nat |-> Nothing]
  BY Zenon DEF FoundBody
<1>3. 0 \in G
  <2> DEFINE f == [n \in 0..0 |-> [i \in Nat |-> Nothing]]
  <2>1. \A n \in 0..0 : FoundBody(s, f, n) = [i \in Nat |-> Nothing]
    <3> TAKE n \in 0..0
    <3>1. n = 0
      OBVIOUS
    <3> HIDE DEF f
    <3> QED
      BY <1>2, <3>1
  <2>2. Upto(0, f)
    BY <2>1
  <2> HIDE DEF f, Upto
  <2> QED
    BY <1>1, <2>2
<1>4. ASSUME NEW x \in 1..Top, x - 1 \in G PROVE x \in G
  <2>1. PICK f : Upto(x - 1, f)
    BY <1>4
  <2> DEFINE h == [n \in 0..x |-> IF n = x THEN FoundBody(s, f, n) ELSE f[n]]
  <2>2. ASSUME NEW n \in 0..x PROVE h[n] = FoundBody(s, h, n)
    <3>1. n # 0 => f[n - 1] = h[n - 1]
      BY <1>1
    <3> HIDE DEF h
    <3>2. FoundBody(s, f, n) = FoundBody(s, h, n)
      <4>1. CASE n = 0
        BY <1>2, <4>1
      <4>2. CASE n # 0
        BY <3>1, <4>2, Zenon DEF FoundBody
      <4> QED
        BY <4>1, <4>2
    <3>3. CASE n = x
      BY <3>2, <3>3 DEF h
    <3>4. CASE n # x
      <4>1. n \in 0..(x - 1)
        BY <1>1, <3>4
      <4>2. f[n] = FoundBody(s, f, n)
        BY <2>1, <4>1
      <4>3. h[n] = f[n]
        BY <3>4 DEF h
      <4> QED
        BY <3>2, <4>2, <4>3
    <3> QED
      BY <3>3, <3>4
  <2>3. Upto(x, h)
    <3>1. h = [n \in 0..x |-> h[n]]
      OBVIOUS
    <3> HIDE DEF h
    <3> QED
      BY <2>2, <3>1
  <2> HIDE DEF h, Upto
  <2> QED
    BY <1>1, <2>3
<1>5. Top \in G
  <2> HIDE DEF G
  <2>1. 0..Top \subseteq G
    BY <1>1, <1>3, <1>4, Inductive
  <2> QED
    BY <1>1, <2>1
<1> QED
  BY <1>5

\* parse_value skips blanks and calls itself one level down.
LEMMA FoundIs ==
  ASSUME NEW s, NEW i \in Nat
  PROVE  /\ Found(s)[0][i] = Nothing
         /\ \A n \in 1..Top : Found(s)[n][i] = parse_any_value(s, SKIP_WHITESPACES(s, i), Found(s)[n - 1])
<1>1. Found(s) = CHOOSE f : f = [m \in 0..Top |-> FoundBody(s, f, m)]
  BY Zenon DEF Found, FoundBody, Top
<1>2. Found(s) = [m \in 0..Top |-> FoundBody(s, Found(s), m)]
  BY <1>1, FoundExists, Zenon
<1>3. \A n \in 0..Top : Found(s)[n] = FoundBody(s, Found(s), n)
  BY <1>2, Zenon
<1>4. \A n \in 0..Top : Found(s)[n][i] = IF n = 0 THEN Nothing ELSE parse_any_value(s, SKIP_WHITESPACES(s, i), Found(s)[n - 1])
  BY <1>3, Zenon DEF FoundBody
<1>5. 0 \in 0..Top /\ \A n \in 1..Top : n \in 0..Top /\ n # 0
  BY NestingAssumption DEF Top
<1> QED
  BY <1>4, <1>5, Zenon

-----------------------------------------------------------------------------
(* The loops of the parser.                                                *)

\* There is a turn at least.
LEMMA RoundsIs ==
  ASSUME NEW s \in Strings
  PROVE  Rounds(s) \in Nat \ {0} /\ IsFiniteSet({i \in DOMAIN s : s[i] = "COMMA"})
<1> DEFINE C == {i \in DOMAIN s : s[i] = "COMMA"}
<1>1. Len(s) \in Nat /\ C \subseteq 1..Len(s)
  BY TextIs
<1>2. IsFiniteSet(1..Len(s))
  BY <1>1, FS_Interval
<1>3. IsFiniteSet(C)
  BY <1>1, <1>2, FS_Subset
<1>4. Cardinality(C) \in Nat
  BY <1>3, FS_CardinalityType
<1>5. Rounds(s) = Cardinality(C) + 1
  BY Zenon DEF Rounds
<1> QED
  BY <1>3, <1>4, <1>5

\* A turn of the loop of parse_array_value, from the turn before.
ElementBody(s, i, value, f, k) ==
  IF k = 0 THEN More(Array(<<>>), i) ELSE Element(s, value, f[k - 1])

\* There is a result for every turn.
LEMMA ElementExists ==
  ASSUME NEW s, NEW i, NEW value, NEW N \in Nat
  PROVE  \E f : f = [k \in 0..N |-> ElementBody(s, i, value, f, k)]
<1> DEFINE B(f, k) == ElementBody(s, i, value, f, k)
           Upto(m, f) == f = [k \in 0..m |-> B(f, k)]
           G == {m \in 0..N : \E f : Upto(m, f)}
<1>1. 0 \in G
  <2> DEFINE f == [k \in 0..0 |-> More(Array(<<>>), i)]
  <2>1. \A k \in 0..0 : B(f, k) = More(Array(<<>>), i)
    <3> TAKE k \in 0..0
    <3>1. k = 0
      OBVIOUS
    <3> HIDE DEF f
    <3> QED
      BY <3>1 DEF ElementBody
  <2>2. Upto(0, f)
    BY <2>1
  <2> HIDE DEF f, Upto
  <2> QED
    BY <2>2
<1>2. ASSUME NEW x \in 1..N, x - 1 \in G PROVE x \in G
  <2>1. PICK f : Upto(x - 1, f)
    BY <1>2
  <2> DEFINE h == [k \in 0..x |-> IF k = x THEN B(f, k) ELSE f[k]]
  <2>2. ASSUME NEW k \in 0..x PROVE h[k] = B(h, k)
    <3>1. k # 0 => f[k - 1] = h[k - 1]
      OBVIOUS
    <3> HIDE DEF h
    <3>2. B(f, k) = B(h, k)
      BY <3>1, Zenon DEF ElementBody
    <3>3. CASE k = x
      BY <3>2, <3>3 DEF h
    <3>4. CASE k # x
      <4>1. k \in 0..(x - 1)
        BY <3>4
      <4>2. f[k] = B(f, k)
        BY <2>1, <4>1
      <4>3. h[k] = f[k]
        BY <3>4 DEF h
      <4> QED
        BY <3>2, <4>2, <4>3
    <3> QED
      BY <3>3, <3>4
  <2>3. Upto(x, h)
    <3>1. h = [k \in 0..x |-> h[k]]
      OBVIOUS
    <3> HIDE DEF h
    <3> QED
      BY <2>2, <3>1
  <2> HIDE DEF h, Upto
  <2> QED
    BY <2>3
<1>3. N \in G
  <2> HIDE DEF G
  <2>1. 0..N \subseteq G
    BY <1>1, <1>2, Inductive
  <2> QED
    BY <2>1
<1> QED
  BY <1>3

\* The turns of a loop: where each one stands.
ElementTurns(s, i, value, turn) ==
  /\ turn[0] = More(Array(<<>>), i)
  /\ \A k \in 1..Rounds(s) : turn[k] = Element(s, value, turn[k - 1])

\* parse_array_value is its last turn.
LEMMA ElementsIs ==
  ASSUME NEW s \in Strings, NEW i, NEW value
  PROVE  \E turn : ElementTurns(s, i, value, turn) /\ Elements(s, i, value) = turn[Rounds(s)].got
<1> DEFINE N == Rounds(s)
           turn == CHOOSE f : f = [k \in 0..N |-> ElementBody(s, i, value, f, k)]
<1>1. N \in Nat
  BY RoundsIs
<1>2. turn = [k \in 0..N |-> ElementBody(s, i, value, turn, k)]
  <2> HIDE DEF N
  <2> QED
    BY <1>1, ElementExists
<1>3. Elements(s, i, value) = turn[N].got
  BY Zenon DEF Elements, ElementBody
<1> HIDE DEF turn, N
<1>4. \A k \in 0..N : turn[k] = ElementBody(s, i, value, turn, k)
  BY <1>2
<1>5. 0 \in 0..N /\ \A k \in 1..N : k \in 0..N /\ k # 0
  BY <1>1
<1>6. turn[0] = More(Array(<<>>), i) /\ \A k \in 1..N : turn[k] = Element(s, value, turn[k - 1])
  BY <1>4, <1>5, Zenon DEF ElementBody
<1> QED
  BY <1>3, <1>6, Zenon DEF ElementTurns, N

\* A turn of the loop of parse_object_value, from the turn before.
MemberBody(s, i, value, f, k) ==
  IF k = 0 THEN More(Object(<<>>, <<>>), i) ELSE Member(s, value, f[k - 1])

\* There is a result for every turn.
LEMMA MemberExists ==
  ASSUME NEW s, NEW i, NEW value, NEW N \in Nat
  PROVE  \E f : f = [k \in 0..N |-> MemberBody(s, i, value, f, k)]
<1> DEFINE B(f, k) == MemberBody(s, i, value, f, k)
           Upto(m, f) == f = [k \in 0..m |-> B(f, k)]
           G == {m \in 0..N : \E f : Upto(m, f)}
<1>1. 0 \in G
  <2> DEFINE f == [k \in 0..0 |-> More(Object(<<>>, <<>>), i)]
  <2>1. \A k \in 0..0 : B(f, k) = More(Object(<<>>, <<>>), i)
    <3> TAKE k \in 0..0
    <3>1. k = 0
      OBVIOUS
    <3> HIDE DEF f
    <3> QED
      BY <3>1 DEF MemberBody
  <2>2. Upto(0, f)
    BY <2>1
  <2> HIDE DEF f, Upto
  <2> QED
    BY <2>2
<1>2. ASSUME NEW x \in 1..N, x - 1 \in G PROVE x \in G
  <2>1. PICK f : Upto(x - 1, f)
    BY <1>2
  <2> DEFINE h == [k \in 0..x |-> IF k = x THEN B(f, k) ELSE f[k]]
  <2>2. ASSUME NEW k \in 0..x PROVE h[k] = B(h, k)
    <3>1. k # 0 => f[k - 1] = h[k - 1]
      OBVIOUS
    <3> HIDE DEF h
    <3>2. B(f, k) = B(h, k)
      BY <3>1, Zenon DEF MemberBody
    <3>3. CASE k = x
      BY <3>2, <3>3 DEF h
    <3>4. CASE k # x
      <4>1. k \in 0..(x - 1)
        BY <3>4
      <4>2. f[k] = B(f, k)
        BY <2>1, <4>1
      <4>3. h[k] = f[k]
        BY <3>4 DEF h
      <4> QED
        BY <3>2, <4>2, <4>3
    <3> QED
      BY <3>3, <3>4
  <2>3. Upto(x, h)
    <3>1. h = [k \in 0..x |-> h[k]]
      OBVIOUS
    <3> HIDE DEF h
    <3> QED
      BY <2>2, <3>1
  <2> HIDE DEF h, Upto
  <2> QED
    BY <2>3
<1>3. N \in G
  <2> HIDE DEF G
  <2>1. 0..N \subseteq G
    BY <1>1, <1>2, Inductive
  <2> QED
    BY <2>1
<1> QED
  BY <1>3

\* The turns of a loop: where each one stands.
MemberTurns(s, i, value, turn) ==
  /\ turn[0] = More(Object(<<>>, <<>>), i)
  /\ \A k \in 1..Rounds(s) : turn[k] = Member(s, value, turn[k - 1])

\* parse_object_value is its last turn.
LEMMA MembersIs ==
  ASSUME NEW s \in Strings, NEW i, NEW value
  PROVE  \E turn : MemberTurns(s, i, value, turn) /\ Members(s, i, value) = turn[Rounds(s)].got
<1> DEFINE N == Rounds(s)
           turn == CHOOSE f : f = [k \in 0..N |-> MemberBody(s, i, value, f, k)]
<1>1. N \in Nat
  BY RoundsIs
<1>2. turn = [k \in 0..N |-> MemberBody(s, i, value, turn, k)]
  <2> HIDE DEF N
  <2> QED
    BY <1>1, MemberExists
<1>3. Members(s, i, value) = turn[N].got
  BY Zenon DEF Members, MemberBody
<1> HIDE DEF turn, N
<1>4. \A k \in 0..N : turn[k] = MemberBody(s, i, value, turn, k)
  BY <1>2
<1>5. 0 \in 0..N /\ \A k \in 1..N : k \in 0..N /\ k # 0
  BY <1>1
<1>6. turn[0] = More(Object(<<>>, <<>>), i) /\ \A k \in 1..N : turn[k] = Member(s, value, turn[k - 1])
  BY <1>4, <1>5, Zenon DEF MemberBody
<1> QED
  BY <1>3, <1>6, Zenon DEF MemberTurns, N

\* What results are made of.
LEMMA Fields ==
  ASSUME NEW v, NEW j
  PROVE  /\ Got(v, j).value = v /\ Got(v, j).next = j
         /\ More(v, j).got = Got(v, j) /\ More(v, j).more = TRUE
         /\ Done(v, j).got = Got(v, j) /\ Done(v, j).more = FALSE
         /\ Fails.got = Nothing /\ Fails.more = FALSE
         /\ (Got(v, j) = Nothing <=> v = Error /\ j = 0)
         /\ \A w, i : Got(v, j) = Got(w, i) <=> v = w /\ j = i
BY DEF Got, More, Done, Fails, Nothing

\* What values are made of.
LEMMA ValueFields ==
  ASSUME NEW chars, NEW names, NEW items
  PROVE  /\ Array(items).type = "array" /\ Array(items).items = items /\ Array(items).names = <<>>
         /\ Object(names, items).type = "object" /\ Object(names, items).items = items
         /\ Object(names, items).names = names
         /\ String(chars).type = "string" /\ String(chars).chars = chars
         /\ Array(items) # Error /\ Object(names, items) # Error /\ String(chars) # Error
         /\ Number(chars) # Error /\ Boolean(chars) # Error /\ Null # Error
         /\ Number(chars).type = "number" /\ Boolean(chars).type = "boolean" /\ Null.type = "null"
         /\ Number(chars).chars = chars /\ Boolean(chars).chars = <<chars>>
         /\ String(chars).items = <<>> /\ String(chars).names = <<>>
         /\ Number(chars).items = <<>> /\ Number(chars).names = <<>>
         /\ Boolean(chars).items = <<>> /\ Boolean(chars).names = <<>>
         /\ Null.items = <<>> /\ Null.names = <<>>
         /\ Error.items = <<>> /\ Error.names = <<>> /\ Error.type = "error"
BY DEF Array, Object, String, Number, Boolean, Null, Error, Value

\* A value is no NULL pointer.
LEMMA ValuesNoError ==
  ASSUME NEW n \in 0..Top, NEW v \in Values[n]
  PROVE  v # Error /\ n \in 1..Top
<1>1. IsPlain(v) => v # Error
  BY DEF IsPlain, Null, Boolean, Number, String, Error, Value
<1>2. IsObjectIn(v, n) => v # Error
  BY DEF IsObjectIn, Object, Error, Value
<1> QED
  BY <1>1, <1>2, ValuesBy, NestingAssumption, ValuesIs DEF Top, IsArrayOf, Array, Error, Value

\* What a parser returns: nothing, or a value of so many levels.
IsResult(r, n) == r = Nothing \/ \E v \in Values[n], j \in Nat \ {0} : r = Got(v, j)

\* ... at every place.
AllResults(value, n) == \A i \in Nat \ {0} : IsResult(value[i], n)

\* Where a loop can stand that has read some items into v.
Stands(l, v, j) == j \in Nat \ {0} /\ (l = More(v, j) \/ l = Done(v, j))

\* Blanks are skipped forwards.
LEMMA SkipOn ==
  ASSUME NEW s \in Strings, NEW i \in Nat \ {0}
  PROVE  SKIP_WHITESPACES(s, i) \in Nat \ {0}
BY SkipIs

\* After an item a loop fails, goes on or ends, with all that it has read.
LEMMA ContinueIs ==
  ASSUME NEW s \in Strings, NEW i \in Nat \ {0}, NEW all, NEW bracket
  PROVE  Continue(s, i, all, bracket) = Fails \/ \E j : Stands(Continue(s, i, all, bracket), all, j)
<1>1. ASSUME NEW k \in Nat \ {0}, NEW comma
      PROVE  Onward(s, k, comma, all, bracket) = Fails \/ \E j : Stands(Onward(s, k, comma, all, bracket), all, j)
  BY DEF Stands, Onward
<1>2. SKIP_WHITESPACES(s, i + 1) \in Nat \ {0}
  BY SkipOn
<1> QED
  BY <1>1, <1>2 DEF Continue

\* Where the loop of parse_array_value can stand.
ArrayLoop(l, n) == l = Fails \/ \E items \in Seq(Values[n - 1]), j \in Nat \ {0} : Stands(l, Array(items), j)

\* An element is appended to an array.
LEMMA AppendTo ==
  ASSUME NEW items, NEW v, v # Error
  PROVE  json_array_append_value(Array(items), v) = Array(Append(items, v))
<1>1. Array(items).type = "array" /\ Array(items).items = items
  BY ValueFields
<1> QED
  BY <1>1, Zenon DEF json_array_append_value

\* A turn of it goes on to where it can stand.
LEMMA ElementTyped ==
  ASSUME NEW s \in Strings, NEW n \in 1..Top, NEW value, AllResults(value, n - 1), NEW l, ArrayLoop(l, n)
  PROVE  ArrayLoop(Element(s, value, l), n)
<1>1. CASE l.more = FALSE
  BY <1>1 DEF Element
<1>2. ASSUME NEW items \in Seq(Values[n - 1]), NEW j \in Nat \ {0}, l = More(Array(items), j)
      PROVE  ArrayLoop(Element(s, value, l), n)
  <2>1. Element(s, value, l) = AddElement(s, Array(items), value[j])
    BY <1>2 DEF Element, More, Got
  <2>2. CASE value[j] # Nothing
    <3>1. PICK v \in Values[n - 1], next \in Nat \ {0} : value[j] = Got(v, next)
      BY <2>2, Zenon DEF AllResults, IsResult
    <3> DEFINE all == Array(Append(items, v))
               k == SKIP_WHITESPACES(s, next)
    <3>2. Element(s, value, l) = Continue(s, k, all, "]")
      BY <2>1, <2>2, <3>1, AppendTo, ValuesNoError, NestingAssumption DEF AddElement, Top, Got
    <3>3. Append(items, v) \in Seq(Values[n - 1])
      BY <3>1
    <3>4. k \in Nat \ {0}
      BY SkipOn
    <3> HIDE DEF all, k
    <3>5. Element(s, value, l) = Fails \/ \E h \in Nat \ {0} : Stands(Element(s, value, l), all, h)
      <4>1. Continue(s, k, all, "]") = Fails \/ \E h : Stands(Continue(s, k, all, "]"), all, h)
        BY <3>4, ContinueIs, Zenon
      <4> QED
        BY <3>2, <4>1 DEF Stands
    <3> QED
      BY <3>3, <3>5, Zenon DEF ArrayLoop, all
  <2> QED
    BY <2>1, <2>2 DEF ArrayLoop, AddElement
<1>3. ASSUME NEW items \in Seq(Values[n - 1]), NEW j, Stands(l, Array(items), j)
      PROVE  ArrayLoop(Element(s, value, l), n)
  <2>1. CASE l = Done(Array(items), j)
    BY <1>1, <2>1, Fields
  <2> QED
    BY <1>2, <1>3, <2>1 DEF Stands
<1> QED
  BY <1>1, <1>3, Fields DEF ArrayLoop

\* All its turns do.
LEMMA ElementsStand ==
  ASSUME NEW s \in Strings, NEW n \in 1..Top, NEW value, AllResults(value, n - 1), NEW i \in Nat \ {0},
         NEW turn, ElementTurns(s, i, value, turn)
  PROVE  \A k \in 0..Rounds(s) : ArrayLoop(turn[k], n)
<1>1. Rounds(s) \in Nat
  BY RoundsIs
<1> DEFINE G == {k \in 0..Rounds(s) : ArrayLoop(turn[k], n)}
<1>2. 0 \in G
  <2>1. <<>> \in Seq(Values[n - 1])
    OBVIOUS
  <2>2. ArrayLoop(turn[0], n)
    BY <2>1, Zenon DEF ArrayLoop, Stands, ElementTurns
  <2> QED
    BY <1>1, <2>2
<1>3. ASSUME NEW x \in 1..Rounds(s), x - 1 \in G PROVE x \in G
  BY <1>1, <1>3, ElementTyped DEF ElementTurns
<1> HIDE DEF G
<1> QED
  BY <1>1, <1>2, <1>3, Inductive DEF G

\* So the loop results in an array of values, or in nothing.
LEMMA ElementsTyped ==
  ASSUME NEW s \in Strings, NEW n \in 1..Top, NEW value, AllResults(value, n - 1), NEW i \in Nat \ {0}
  PROVE  IsResult(Elements(s, i, value), n)
<1>1. Rounds(s) \in Nat
  BY RoundsIs
<1>2. PICK turn : ElementTurns(s, i, value, turn) /\ Elements(s, i, value) = turn[Rounds(s)].got
  BY ElementsIs
<1>3. ArrayLoop(turn[Rounds(s)], n)
  BY <1>1, <1>2, ElementsStand
<1>4. ASSUME NEW items \in Seq(Values[n - 1]), NEW j, Stands(turn[Rounds(s)], Array(items), j)
      PROVE  IsResult(Elements(s, i, value), n)
  <2>1. Elements(s, i, value) = Got(Array(items), j) /\ j \in Nat \ {0}
    BY <1>2, <1>4 DEF Stands, More, Done
  <2> QED
    BY <2>1, ValuesBy DEF IsResult, IsArrayOf
<1> QED
  BY <1>2, <1>3, <1>4, Fields DEF ArrayLoop, IsResult

\* Where the loop of parse_object_value can stand.
MemberLoop(l, n) ==
  l = Fails \/ \E names \in Seq(Names), items \in Seq(Values[n - 1]), j \in Nat \ {0} :
                 Len(names) = Len(items) /\ IsInjective(names) /\ Stands(l, Object(names, items), j)

\* A new name leaves the names different.
LEMMA AppendName ==
  ASSUME NEW names \in Seq(Names), IsInjective(names), NEW name \in Names, ~Contains(names, name)
  PROVE  Append(names, name) \in Seq(Names) /\ Len(Append(names, name)) = Len(names) + 1
         /\ IsInjective(Append(names, name))
<1> DEFINE more == Append(names, name)
<1>1. more \in Seq(Names) /\ Len(more) = Len(names) + 1 /\ DOMAIN more = 1..(Len(names) + 1)
  OBVIOUS
<1>2. \A k \in 1..Len(names) : more[k] = names[k]
  OBVIOUS
<1>3. more[Len(names) + 1] = name
  OBVIOUS
<1> HIDE DEF more
<1>4. ASSUME NEW a \in DOMAIN more, NEW b \in DOMAIN more, more[a] = more[b] PROVE a = b
  BY <1>1, <1>2, <1>3, <1>4 DEF Contains, IsInjective
<1> QED
  BY <1>1, <1>4 DEF more, IsInjective

\* The name of a member, if one is at a place.
LEMMA KeyIs ==
  ASSUME NEW s \in Strings, NEW j \in Nat, get_quoted_string(s, j) # Nothing
  PROVE  \E chars \in Strings, k \in Nat \ {0} :
           get_quoted_string(s, j) = Got(String(chars), k)
           /\ get_quoted_string(s, j).value.chars = chars /\ get_quoted_string(s, j).next = k
<1>1. PICK chars \in Strings : get_quoted_string(s, j) = Got(String(chars), skip_quotes(s, j + 1) + 1)
  BY QuotedIs
<1> QED
  BY <1>1, QuotedIs DEF Got, String, Value

\* What a turn does when it reads a member, and that it otherwise fails.
ReadsMember(s, value, names, items, j, loop) ==
  \E chars \in Names, k \in Nat \ {0} :
    /\ get_quoted_string(s, j) = Got(String(chars), k)
    /\ At(s, SKIP_WHITESPACES(s, k)) = ":"
    /\ value[SKIP_WHITESPACES(s, k) + 1] # Nothing
    /\ ~Contains(names, chars)
    /\ loop = Continue(s, SKIP_WHITESPACES(s, value[SKIP_WHITESPACES(s, k) + 1].next),
                       Object(Append(names, chars), Append(items, value[SKIP_WHITESPACES(s, k) + 1].value)),
                       "RBRACE")

\* A turn reads a member, or fails.
LEMMA MemberBy ==
  ASSUME NEW s \in Strings, NEW value, NEW names, NEW items, NEW j \in Nat \ {0}
  PROVE  \/ Member(s, value, More(Object(names, items), j)) = Fails
         \/ ReadsMember(s, value, names, items, j, Member(s, value, More(Object(names, items), j)))
<1> DEFINE l == More(Object(names, items), j)
           o == Object(names, items)
           key == get_quoted_string(s, j)
<1>1. l.more = TRUE /\ l.got.value = o /\ l.got.next = j
  BY DEF More, Got
<1>2. o.names = names /\ o.items = items
  BY DEF Object, Value
<1> HIDE DEF l, o, key
<1>3. Member(s, value, l) = Named(s, value, o, key)
  BY <1>1, Zenon DEF Member, key
<1>4. CASE key # Nothing
  <2>1. PICK chars \in Strings, k \in Nat \ {0} :
          key = Got(String(chars), k) /\ key.value.chars = chars /\ key.next = k
    BY <1>4, KeyIs DEF key
  <2>2. CASE ~Contains(chars, "NUL")
    <3> DEFINE i == SKIP_WHITESPACES(s, k)
    <3> HIDE DEF i
    <3>1. Member(s, value, l) = AfterName(s, value, o, chars, i)
      BY <1>3, <1>4, <2>1, <2>2, Zenon DEF Named, i
    <3>2. CASE At(s, i) = ":"
      <4>1. Member(s, value, l) = AddMember(s, o, chars, value[i + 1])
        BY <3>1, <3>2, Zenon DEF AfterName
      <4> QED
        BY <1>2, <2>1, <2>2, <3>2, <4>1 DEF AddMember, l, i, key, ReadsMember, Names
    <3> QED
      BY <3>1, <3>2 DEF AfterName, l
  <2> QED
    BY <1>3, <2>1, <2>2 DEF Named, l
<1> QED
  BY <1>3, <1>4 DEF Named, l

\* A turn goes on to where the loop can stand.
LEMMA MemberTyped ==
  ASSUME NEW s \in Strings, NEW n \in 1..Top, NEW value, AllResults(value, n - 1), NEW l, MemberLoop(l, n)
  PROVE  MemberLoop(Member(s, value, l), n)
<1>1. CASE l.more = FALSE
  BY <1>1 DEF Member
<1>2. ASSUME NEW names \in Seq(Names), NEW items \in Seq(Values[n - 1]), NEW j \in Nat \ {0},
             Len(names) = Len(items), IsInjective(names), l = More(Object(names, items), j)
      PROVE  MemberLoop(Member(s, value, l), n)
  <2>1. CASE Member(s, value, l) # Fails
    <3>1. PICK chars \in Names, k \in Nat \ {0} :
              /\ value[SKIP_WHITESPACES(s, k) + 1] # Nothing
              /\ ~Contains(names, chars)
              /\ Member(s, value, l) = Continue(s, SKIP_WHITESPACES(s, value[SKIP_WHITESPACES(s, k) + 1].next),
                              Object(Append(names, chars), Append(items, value[SKIP_WHITESPACES(s, k) + 1].value)),
                              "RBRACE")
      BY <1>2, <2>1, MemberBy DEF ReadsMember
    <3> DEFINE at == SKIP_WHITESPACES(s, k) + 1
    <3> HIDE DEF at
    <3>2. PICK v \in Values[n - 1], next \in Nat \ {0} : value[at] = Got(v, next)
      BY <3>1, SkipOn, SMTT(30) DEF AllResults, IsResult, at
    <3> DEFINE all == Object(Append(names, chars), Append(items, v))
               m == SKIP_WHITESPACES(s, next)
    <3>3. Member(s, value, l) = Continue(s, m, all, "RBRACE")
      BY <3>1, <3>2 DEF at, Got
    <3>4. m \in Nat \ {0}
      BY SkipOn
    <3>5. Append(items, v) \in Seq(Values[n - 1]) /\ Len(Append(items, v)) = Len(items) + 1
      BY <3>2
    <3> HIDE DEF m
    <3>6. Member(s, value, l) = Fails \/ \E h \in Nat \ {0} : Stands(Member(s, value, l), all, h)
      BY <3>3, <3>4, ContinueIs DEF Stands
    <3> QED
      BY <1>2, <3>1, <3>5, <3>6, AppendName DEF MemberLoop
  <2> QED
    BY <2>1 DEF MemberLoop
<1>3. ASSUME NEW names \in Seq(Names), NEW items \in Seq(Values[n - 1]), NEW j,
             Len(names) = Len(items), IsInjective(names), Stands(l, Object(names, items), j)
      PROVE  MemberLoop(Member(s, value, l), n)
  <2>1. CASE l = Done(Object(names, items), j)
    BY <1>1, <2>1, Fields
  <2> QED
    BY <1>2, <1>3, <2>1 DEF Stands
<1> QED
  BY <1>1, <1>3, Fields DEF MemberLoop

\* All its turns do.
LEMMA MembersStand ==
  ASSUME NEW s \in Strings, NEW n \in 1..Top, NEW value, AllResults(value, n - 1), NEW i \in Nat \ {0},
         NEW turn, MemberTurns(s, i, value, turn)
  PROVE  \A k \in 0..Rounds(s) : MemberLoop(turn[k], n)
<1>1. Rounds(s) \in Nat
  BY RoundsIs
<1> DEFINE G == {k \in 0..Rounds(s) : MemberLoop(turn[k], n)}
<1>2. 0 \in G
  <2>1. <<>> \in Seq(Values[n - 1]) /\ <<>> \in Seq(Names) /\ Len(<<>>) = Len(<<>>) /\ IsInjective(<<>>)
    BY DEF IsInjective
  <2>2. MemberLoop(turn[0], n)
    BY <2>1 DEF MemberLoop, Stands, MemberTurns
  <2> QED
    BY <1>1, <2>2
<1>3. ASSUME NEW x \in 1..Rounds(s), x - 1 \in G PROVE x \in G
  BY <1>1, <1>3, MemberTyped DEF MemberTurns
<1> HIDE DEF G
<1> QED
  BY <1>1, <1>2, <1>3, Inductive DEF G

\* So the loop results in an object of values with different names, or in nothing.
LEMMA MembersTyped ==
  ASSUME NEW s \in Strings, NEW n \in 1..Top, NEW value, AllResults(value, n - 1), NEW i \in Nat \ {0}
  PROVE  IsResult(Members(s, i, value), n)
<1>1. Rounds(s) \in Nat
  BY RoundsIs
<1>2. PICK turn : MemberTurns(s, i, value, turn) /\ Members(s, i, value) = turn[Rounds(s)].got
  BY MembersIs
<1>3. MemberLoop(turn[Rounds(s)], n)
  BY <1>1, <1>2, MembersStand
<1>4. turn[Rounds(s)] = Fails => Members(s, i, value) = Nothing
  BY <1>2, Fields
<1>5. ASSUME NEW names \in Seq(Names), NEW items \in Seq(Values[n - 1]), NEW j,
             Len(names) = Len(items), IsInjective(names), Stands(turn[Rounds(s)], Object(names, items), j)
      PROVE  IsResult(Members(s, i, value), n)
  <2>1. Members(s, i, value) = Got(Object(names, items), j) /\ j \in Nat \ {0}
    BY <1>2, <1>5 DEF Stands, More, Done
  <2> QED
    BY <1>5, <2>1, ValuesBy DEF IsResult, IsObjectIn
<1> QED
  BY <1>3, <1>4, <1>5, Zenon DEF MemberLoop, IsResult

\* The switch, by what is there.
LEMMA AnyIs ==
  ASSUME NEW s, NEW i, NEW value
  PROVE  /\ At(s, i) = "LBRACE" =>
              parse_any_value(s, i, value) = parse_object_value(s, SKIP_WHITESPACES(s, i + 1), value)
         /\ At(s, i) = "[" => parse_any_value(s, i, value) = parse_array_value(s, SKIP_WHITESPACES(s, i + 1), value)
         /\ At(s, i) = "QUOTE" => parse_any_value(s, i, value) = get_quoted_string(s, i)
         /\ At(s, i) \in {"true", "false"} => parse_any_value(s, i, value) = Got(Boolean(s[i]), i + 1)
         /\ At(s, i) \in {"-"} \cup Digits => parse_any_value(s, i, value) = parse_number_value(s, i)
         /\ At(s, i) = "null" => parse_any_value(s, i, value) = Got(Null, i + 1)
         /\ At(s, i) \notin {"LBRACE", "[", "QUOTE", "true", "false", "null"} /\ At(s, i) \notin {"-"} \cup Digits =>
              parse_any_value(s, i, value) = Nothing
<1> DEFINE c == At(s, i)
           d == {"-"} \cup Digits
<1> HIDE DEF c, d
<1> QED
  BY DEF c, d, Digits, parse_any_value

\* parse_value finds a value or nothing, if it does so one level down.
LEMMA AnyTyped ==
  ASSUME NEW s \in Strings, NEW n \in 1..Top, NEW value, AllResults(value, n - 1), NEW i \in Nat \ {0}
  PROVE  IsResult(parse_any_value(s, i, value), n)
<1> DEFINE r == parse_any_value(s, i, value)
<1>1. i + 1 \in Nat \ {0} /\ SKIP_WHITESPACES(s, i + 1) \in Nat \ {0}
  BY SkipOn
<1>2. CASE At(s, i) = "LBRACE"
  <2>1. r = parse_object_value(s, SKIP_WHITESPACES(s, i + 1), value)
    BY <1>2, AnyIs, Zenon
  <2>2. CASE At(s, SKIP_WHITESPACES(s, i + 1)) = "RBRACE"
    <3>1. <<>> \in Seq(Values[n - 1]) /\ <<>> \in Seq(Names) /\ Len(<<>>) = Len(<<>>) /\ IsInjective(<<>>)
      BY DEF IsInjective
    <3>2. SKIP_WHITESPACES(s, i + 1) + 1 \in Nat \ {0}
      BY <1>1
    <3> QED
      BY <2>1, <2>2, <3>1, <3>2, ValuesBy DEF IsResult, parse_object_value, IsObjectIn
  <2> QED
    BY <1>1, <2>1, <2>2, MembersTyped DEF parse_object_value
<1>3. CASE At(s, i) = "["
  <2>1. r = parse_array_value(s, SKIP_WHITESPACES(s, i + 1), value)
    BY <1>3, AnyIs, Zenon
  <2>2. CASE At(s, SKIP_WHITESPACES(s, i + 1)) = "]"
    <3>1. <<>> \in Seq(Values[n - 1])
      OBVIOUS
    <3>2. SKIP_WHITESPACES(s, i + 1) + 1 \in Nat \ {0}
      BY <1>1
    <3> QED
      BY <2>1, <2>2, <3>1, <3>2, ValuesBy DEF IsResult, parse_array_value, IsArrayOf
  <2> QED
    BY <1>1, <2>1, <2>2, ElementsTyped DEF parse_array_value
<1>4. CASE At(s, i) = "QUOTE"
  <2>1. r = get_quoted_string(s, i)
    BY <1>4, AnyIs, Zenon
  <2>2. CASE r # Nothing
    <3>1. PICK chars \in Strings, k \in Nat \ {0} : get_quoted_string(s, i) = Got(String(chars), k)
      BY <2>1, <2>2, KeyIs
    <3> QED
      BY <2>1, <3>1, ValuesBy DEF IsResult, IsPlain
  <2> QED
    BY <2>2 DEF IsResult
<1>5. CASE At(s, i) \in {"true", "false"}
  BY <1>1, <1>5, AnyIs, ValuesBy DEF IsResult, IsPlain, At
<1>6. CASE At(s, i) \in {"-"} \cup Digits
  <2>1. r = parse_number_value(s, i)
    BY <1>6, AnyIs, Zenon
  <2>2. CASE r # Nothing
    <3>1. PICK t \in Strings, next \in i..(Len(s) + 1) :
            IsNumber(t) /\ parse_number_value(s, i) = Got(Number(Rounded(t)), next)
      BY <1>6, <2>1, <2>2, NumberMade, AtIs DEF Digits
    <3>2. next \in Nat \ {0}
      BY TextIs
    <3>3. Rounded(t) \in Strings /\ IsDouble(Rounded(t))
      BY <3>1, RoundedIs
    <3> QED
      BY <2>1, <3>1, <3>2, <3>3, ValuesBy DEF IsResult, IsPlain
  <2> QED
    BY <2>2 DEF IsResult
<1>7. CASE At(s, i) = "null"
  BY <1>1, <1>7, AnyIs, ValuesBy DEF IsResult, IsPlain
<1> QED
  BY <1>2, <1>3, <1>4, <1>5, <1>6, <1>7, AnyIs DEF IsResult

\* All that the parser finds are values with as many levels as it may go down.
LEMMA FoundTyped ==
  ASSUME NEW s \in Strings
  PROVE  \A n \in 0..Top : AllResults(Found(s)[n], n)
<1> DEFINE G == {n \in 0..Top : AllResults(Found(s)[n], n)}
<1>1. Top \in Nat
  BY NestingAssumption DEF Top
<1>2. 0 \in G
  BY <1>1, FoundIs DEF AllResults, IsResult
<1>3. ASSUME NEW n \in 1..Top, n - 1 \in G PROVE n \in G
  <2>1. ASSUME NEW i \in Nat \ {0} PROVE IsResult(Found(s)[n][i], n)
    BY <1>3, AnyTyped, SkipOn, FoundIs
  <2> QED
    BY <1>1, <2>1 DEF AllResults
<1> HIDE DEF G
<1> QED
  BY <1>1, <1>2, <1>3, Inductive DEF G

\* What json_parse_string returns is a document, or nothing.
LEMMA ParsedIs ==
  ASSUME NEW s \in Strings \cup {NULL}
  PROVE  /\ json_parse_string(s) \in Documents \cup {Error}
         /\ s \in Strings => IsResult(parse_value(s, Start(s), 0), Top) /\ json_parse_string(s) = parse_value(s, Start(s), 0).value
<1>1. NULL \notin Strings
  BY SymbolsAssumption DEF NULL, Strings
<1>2. CASE s \in Strings
  <2>1. IsResult(parse_value(s, Start(s), 0), Top)
    BY <1>2, FoundTyped, NestingAssumption DEF AllResults, parse_value, Start, Top
  <2>2. json_parse_string(s) = parse_value(s, Start(s), 0).value
    BY <1>1, <1>2, Zenon DEF json_parse_string
  <2>3. ASSUME NEW v \in Values[Top], NEW j, parse_value(s, Start(s), 0) = Got(v, j)
        PROVE  json_parse_string(s) \in Documents
    BY <2>2, <2>3 DEF Got, Documents, Top
  <2> QED
    BY <2>1, <2>2, <2>3 DEF IsResult, Nothing, Got
<1> QED
  BY <1>1, <1>2 DEF json_parse_string

\* The texts of an array's items.
ItemTexts(text, items) == [k \in 1..Len(items) |-> text[items[k]]]

\* ... and of an object's members.
MemberTexts(text, names, items) ==
  [k \in 1..Len(items) |-> json_serialize_string(names[k]) \o <<":">> \o text[items[k]]]

\* The text of a value, by its constructor.
LEMMA TextOfPlain ==
  ASSUME NEW text, NEW chars
  PROVE  /\ TextOf(text, String(chars)) = json_serialize_string(chars)
         /\ TextOf(text, Number(chars)) = chars
         /\ TextOf(text, Boolean(chars)) = <<chars>>
         /\ TextOf(text, Null) = <<"null">>
<1>1. TextOf(text, String(chars)) = json_serialize_string(chars)
  <2>1. String(chars).type = "string" /\ String(chars).chars = chars
    BY ValueFields
  <2> QED
    BY <2>1 DEF TextOf
<1>2. TextOf(text, Number(chars)) = chars
  <2>1. Number(chars).type = "number" /\ Number(chars).chars = chars
    BY ValueFields
  <2> QED
    BY <2>1 DEF TextOf
<1>3. TextOf(text, Boolean(chars)) = <<chars>>
  <2>1. Boolean(chars).type = "boolean" /\ Boolean(chars).chars = <<chars>>
    BY ValueFields
  <2> QED
    BY <2>1 DEF TextOf
<1>4. TextOf(text, Null) = <<"null">>
  <2>1. Null.type = "null"
    BY ValueFields
  <2> QED
    BY <2>1 DEF TextOf
<1> QED
  BY <1>1, <1>2, <1>3, <1>4

\* ... of an array,
LEMMA TextOfArray ==
  ASSUME NEW S, NEW items \in Seq(S), NEW text
  PROVE  TextOf(text, Array(items)) = <<"[">> \o Joined(ItemTexts(text, items)) \o <<"]">>
<1>1. Array(items).type = "array" /\ Array(items).items = items
  BY ValueFields
<1>2. DOMAIN items = 1..Len(items)
  OBVIOUS
<1>3. [k \in DOMAIN items |-> text[items[k]]] = ItemTexts(text, items)
  BY <1>2, Zenon DEF ItemTexts
<1> QED
  BY <1>1, <1>3 DEF TextOf

\* ... and of an object.
LEMMA TextOfObject ==
  ASSUME NEW S, NEW items \in Seq(S), NEW names \in Seq(Names), Len(names) = Len(items), NEW text
  PROVE  TextOf(text, Object(names, items)) = <<"LBRACE">> \o Joined(MemberTexts(text, names, items)) \o <<"RBRACE">>
<1> DEFINE o == Object(names, items)
           f == [k \in DOMAIN o.items |-> text[o.items[k]]]
           h == [k \in DOMAIN o.names |-> json_serialize_string(o.names[k])]
<1>1. o.type = "object" /\ o.items = items /\ o.names = names
  BY ValueFields
<1>2. DOMAIN items = 1..Len(items) /\ DOMAIN names = 1..Len(items)
  OBVIOUS
<1>3. DOMAIN f = 1..Len(items) /\ \A k \in 1..Len(items) : f[k] = text[items[k]] /\ h[k] = json_serialize_string(names[k])
  BY <1>1, <1>2
<1> HIDE DEF f, h
<1>4. [k \in DOMAIN f |-> h[k] \o <<":">> \o f[k]] = MemberTexts(text, names, items)
  BY <1>3 DEF MemberTexts
<1>5. TextOf(text, o) = <<"LBRACE">> \o Joined([k \in DOMAIN f |-> h[k] \o <<":">> \o f[k]]) \o <<"RBRACE">>
  <2> HIDE DEF o
  <2> QED
    BY <1>1 DEF TextOf, f, h
<1> QED
  BY <1>4, <1>5

\* Texts with commas between them.
Parts(texts) == [k \in 1..Len(texts) |-> IF k = Len(texts) THEN texts[k] ELSE texts[k] \o <<"COMMA">>]

\* They are what Joined makes, one after the other.
LEMMA JoinedIs ==
  ASSUME NEW texts \in Seq(Strings)
  PROVE  /\ Parts(texts) \in Seq(Strings) /\ Len(Parts(texts)) = Len(texts)
         /\ \A k \in 1..Len(texts) :
              Parts(texts)[k] = IF k = Len(texts) THEN texts[k] ELSE texts[k] \o <<"COMMA">>
         /\ \E g \in [0..Len(texts) -> Strings] : Glued(Parts(texts), g) /\ Joined(texts) = g[Len(texts)]
<1> DEFINE ss == Parts(texts)
<1>1. <<"COMMA">> \in Strings
  BY Known DEF Strings
<1>2. \A k \in 1..Len(texts) : (IF k = Len(texts) THEN texts[k] ELSE texts[k] \o <<"COMMA">>) \in Strings
  <2>1. \A k \in 1..Len(texts) : texts[k] \in Strings
    OBVIOUS
  <2> QED
    BY <1>1, <2>1 DEF Strings
<1>3. ss \in Seq(Strings) /\ Len(ss) = Len(texts)
  <2>1. Len(texts) \in Nat
    OBVIOUS
  <2>2. ss \in [1..Len(texts) -> Strings]
    BY <1>2, Zenon DEF Parts
  <2> HIDE DEF ss
  <2> QED
    BY <2>1, <2>2
<1>4. \A k \in 1..Len(texts) : ss[k] = IF k = Len(texts) THEN texts[k] ELSE texts[k] \o <<"COMMA">>
  BY Zenon DEF Parts
<1>5. \E g \in [0..Len(texts) -> Strings] : Glued(ss, g) /\ Joined(texts) = g[Len(texts)]
  <2>1. DOMAIN texts = 1..Len(texts)
    OBVIOUS
  <2>2. Joined(texts) = FlattenSeq(ss)
    BY <2>1, Zenon DEF Joined, Parts
  <2>3. ss \in Seq(Seq(Symbols))
    BY <1>3 DEF Strings
  <2> HIDE DEF ss
  <2>4. PICK g \in [0..Len(ss) -> Seq(Symbols)] : Glued(ss, g)
    BY <2>3, GluedExists
  <2>5. FlattenSeq(ss) = g[Len(ss)]
    BY <2>3, <2>4, FlattenIs
  <2> QED
    BY <1>3, <2>2, <2>4, <2>5, Zenon DEF Strings
<1> QED
  BY <1>3, <1>4, <1>5

-----------------------------------------------------------------------------
(* How far the loops of the parser get.                                    *)

\* A turn that finds an element appends it.
LEMMA ElementRead ==
  ASSUME NEW s \in Strings, NEW value, NEW items, NEW v, v # Error, NEW j \in Nat \ {0}, NEW next \in Nat \ {0},
         value[j] = Got(v, next)
  PROVE  Element(s, value, More(Array(items), j)) =
           Continue(s, SKIP_WHITESPACES(s, next), Array(Append(items, v)), "]")
<1> DEFINE l == More(Array(items), j)
<1> HIDE DEF l
<1> QED
  BY AppendTo DEF AddElement, l, Got, Nothing, Element, More

\* A turn that finds a member appends it.
LEMMA MemberRead ==
  ASSUME NEW s \in Strings, NEW value, NEW names, NEW items, NEW v, v # Error, NEW j \in Nat \ {0},
         NEW name \in Names, ~Contains(names, name), NEW k \in Nat \ {0}, NEW next \in Nat \ {0},
         get_quoted_string(s, j) = Got(String(name), k), NEW q, q = SKIP_WHITESPACES(s, k), At(s, q) = ":",
         value[q + 1] = Got(v, next)
  PROVE  Member(s, value, More(Object(names, items), j)) =
           Continue(s, SKIP_WHITESPACES(s, next), Object(Append(names, name), Append(items, v)), "RBRACE")
<1> DEFINE l == More(Object(names, items), j)
           o == Object(names, items)
           key == get_quoted_string(s, j)
<1>1. l.more = TRUE /\ l.got.value = o /\ l.got.next = j
  BY DEF More, Got
<1>2. o.names = names /\ o.items = items
  BY DEF Object, Value
<1>3. key # Nothing /\ key.value.chars = name /\ key.next = k
  BY DEF Got, Nothing, String, Error, Value
<1> HIDE DEF l, o, key
<1>4. AddMember(s, o, name, value[q + 1]) =
         Continue(s, SKIP_WHITESPACES(s, next), Object(Append(names, name), Append(items, v)), "RBRACE")
  BY <1>2 DEF AddMember, Got, Nothing
<1> QED
  BY <1>1, <1>3, <1>4 DEF l, AfterName, Member, key, Named, Names

\* What comes after an item that ends at e, unless the loop fails.
Continues(s, e, all, bracket, r) ==
  \/ At(s, SKIP_WHITESPACES(s, e)) = bracket /\ r = Done(all, SKIP_WHITESPACES(s, e) + 1)
  \/ /\ At(s, SKIP_WHITESPACES(s, e)) = "COMMA"
     /\ \E j \in Nat :
          /\ j = SKIP_WHITESPACES(s, SKIP_WHITESPACES(s, e) + 1)
          /\ r = IF At(s, j) = bracket THEN Done(all, j + 1) ELSE More(all, j)

\* A loop that has not failed after an item has done one of these.
LEMMA ContinuesBy ==
  ASSUME NEW s \in Strings, NEW e \in Nat \ {0}, NEW all, NEW bracket \in {"]", "RBRACE"},
         Continue(s, SKIP_WHITESPACES(s, e), all, bracket) # Fails
  PROVE  Continues(s, e, all, bracket, Continue(s, SKIP_WHITESPACES(s, e), all, bracket))
<1> DEFINE q == SKIP_WHITESPACES(s, e)
           j == SKIP_WHITESPACES(s, q + 1)
<1> HIDE DEF q, j
<1> QED
  BY SkipOn DEF Continues, q, Onward, Continue, j

\* One turn: none after the last, and none backwards.
Moves(s, l, r, bracket) ==
  \/ l.more = FALSE /\ r = l
  \/ l.more = TRUE /\ r = Fails
  \/ l.more = TRUE /\ \E e \in Nat \ {0} : \E all : e >= l.got.next /\ Continues(s, e, all, bracket, r)

\* What is found is never before the place it was looked for at.
GoesOn(value) == \A i \in Nat \ {0} : value[i] # Nothing => value[i].next >= i

\* The commas before a place.
Commas(s, m) == {j \in 1..Len(s) : j < m /\ s[j] = "COMMA"}

\* There are fewer commas than turns, and one more after each.
LEMMA CommasAre ==
  ASSUME NEW s \in Strings, NEW m \in Nat
  PROVE  /\ IsFiniteSet(Commas(s, m)) /\ Cardinality(Commas(s, m)) \in Nat
         /\ Cardinality(Commas(s, m)) <= Rounds(s) - 1
         /\ \A q \in Nat, j \in Nat : m <= q /\ q < j /\ At(s, q) = "COMMA" =>
              Cardinality(Commas(s, m)) + 1 <= Cardinality(Commas(s, j))
<1> DEFINE C == {j \in DOMAIN s : s[j] = "COMMA"}
<1>1. IsFiniteSet(C)
  BY RoundsIs
<1>2. Rounds(s) = Cardinality(C) + 1
  BY Zenon DEF Rounds
<1>3. \A k \in Nat : Commas(s, k) \in SUBSET C
  BY TextIs DEF Commas
<1> HIDE DEF C
<1>4. \A k \in Nat : IsFiniteSet(Commas(s, k)) /\ Cardinality(Commas(s, k)) <= Cardinality(C)
  BY <1>1, <1>3, FS_Subset
<1>5. \A k \in Nat : Cardinality(Commas(s, k)) \in Nat
  BY <1>4, FS_CardinalityType
<1>6. ASSUME NEW q \in Nat, NEW j \in Nat, m <= q, q < j, At(s, q) = "COMMA"
      PROVE  Cardinality(Commas(s, m)) + 1 <= Cardinality(Commas(s, j))
  <2> DEFINE M == Commas(s, m)
             J == Commas(s, j)
  <2>1. q \notin M
    BY <1>6 DEF Commas
  <2>2. IsFiniteSet(M) /\ IsFiniteSet(J) /\ Cardinality(M) \in Nat
    BY <1>4, <1>5
  <2> HIDE DEF M, J
  <2>3. Cardinality(M \cup {q}) = Cardinality(M) + 1
    BY <2>1, <2>2, FS_AddElement
  <2> QED
    BY <1>6, <2>2, <2>3, FS_Subset, SMTT(30) DEF M, J, Commas, At
<1> QED
  BY <1>1, <1>2, <1>4, <1>5, <1>6, FS_CardinalityType, SMTT(30)

\* A loop that has not failed has got somewhere, and has passed a comma in every
\* turn but the last.
GotOn(s, i, l, k) ==
  \/ l = Fails
  \/ /\ l.got.next \in Nat /\ l.got.next >= i
     /\ l.more \in BOOLEAN
     /\ l.more = TRUE => k <= Cardinality(Commas(s, l.got.next))

\* A turn that does not fail has passed another comma.
LEMMA MovesOn ==
  ASSUME NEW s \in Strings, NEW bracket \in {"]", "RBRACE"}, NEW i \in Nat \ {0},
         NEW l, NEW r, Moves(s, l, r, bracket), NEW k \in Nat \ {0}, GotOn(s, i, l, k - 1)
  PROVE  GotOn(s, i, r, k)
<1>1. ASSUME l.more = TRUE, NEW e \in Nat \ {0}, NEW all, e >= l.got.next, Continues(s, e, all, bracket, r)
      PROVE  GotOn(s, i, r, k)
  <2> DEFINE q == SKIP_WHITESPACES(s, e)
             m == l.got.next
  <2>1. q \in Nat /\ q >= e
    BY SkipIs
  <2>2. m \in Nat /\ m >= i /\ k - 1 <= Cardinality(Commas(s, m))
    BY <1>1 DEF GotOn, Fails, Done
  <2> HIDE DEF q, m
  <2>3. e >= m
    BY <1>1 DEF m
  <2>4. CASE At(s, q) = bracket /\ r = Done(all, q + 1)
    BY <2>1, <2>2, <2>3, <2>4 DEF GotOn, Done, Got
  <2>5. ASSUME At(s, q) = "COMMA", NEW j \in Nat, j = SKIP_WHITESPACES(s, q + 1),
               r = IF At(s, j) = bracket THEN Done(all, j + 1) ELSE More(all, j)
        PROVE  GotOn(s, i, r, k)
    <3>1. j >= q + 1
      BY <2>1, <2>5, SkipIs
    <3>2. j >= i /\ j + 1 \in Nat /\ j + 1 >= i
      BY <2>1, <2>2, <2>3, <3>1
    <3>3. CASE At(s, j) # bracket
      <4>1. k <= Cardinality(Commas(s, j))
        BY <2>1, <2>2, <2>3, <2>5, <3>1, CommasAre
      <4> QED
        BY <2>5, <3>2, <3>3, <4>1 DEF GotOn, More, Got
    <3> QED
      BY <2>5, <3>2, <3>3 DEF GotOn, Done, Got
  <2> QED
    BY <1>1, <2>4, <2>5, Zenon DEF Continues, q
<1> QED
  BY <1>1 DEF Moves, GotOn

\* A loop ends before its turns are over.
LEMMA LoopEnds ==
  ASSUME NEW s \in Strings, NEW bracket \in {"]", "RBRACE"}, NEW i \in Nat \ {0}, NEW v, NEW turn, turn[0] = More(v, i),
         \A k \in 1..Rounds(s) : Moves(s, turn[k - 1], turn[k], bracket)
  PROVE  /\ turn[Rounds(s)].more = FALSE
         /\ turn[Rounds(s)] = Fails \/ (turn[Rounds(s)].got.next \in Nat /\ turn[Rounds(s)].got.next >= i)
<1> DEFINE N == Rounds(s)
           G == {k \in 0..N : GotOn(s, i, turn[k], k)}
<1>1. N \in Nat \ {0}
  BY RoundsIs
<1> HIDE DEF N
<1>2. 0 \in G
  <2>1. turn[0].got.next = i /\ turn[0].more = TRUE
    BY DEF More, Got
  <2>2. turn[0].got.next \in Nat /\ turn[0].got.next >= i /\ turn[0].more \in BOOLEAN
    <3>1. turn[0].more \in BOOLEAN
      BY <2>1, Zenon
    <3> QED
      BY <2>1, <3>1
  <2> QED
    BY <1>1, <2>1, <2>2, CommasAre DEF GotOn
<1>3. ASSUME NEW x \in 1..N, x - 1 \in G PROVE x \in G
  BY <1>1, <1>3, MovesOn DEF N
<1>4. GotOn(s, i, turn[N], N)
  <2>1. 0..N \subseteq G
    <3> HIDE DEF G
    <3> QED
      BY <1>1, <1>2, <1>3, Inductive
  <2> QED
    BY <1>1, <2>1
<1>5. CASE turn[N] = Fails
  BY <1>5 DEF N, Fails, Done
<1>6. CASE turn[N] # Fails
  <2> DEFINE m == turn[N].got.next
             c == Cardinality(Commas(s, m))
  <2>1. m \in Nat /\ m >= i /\ turn[N].more \in BOOLEAN /\ (turn[N].more = TRUE => N <= c)
    BY <1>4, <1>6 DEF GotOn
  <2>2. c \in Nat /\ c <= N - 1
    BY <2>1, CommasAre DEF N
  <2> HIDE DEF c
  <2>3. turn[N].more # TRUE
    <3>1. ~(N <= c)
      BY <1>1, <2>2
    <3> QED
      BY <2>1, <3>1, Zenon
  <2> QED
    BY <2>1, <2>3 DEF N
<1> QED
  BY <1>5, <1>6

\* What a turn that reads an element does.
LEMMA ElementBy ==
  ASSUME NEW s \in Strings, NEW n \in 1..Top, NEW value, AllResults(value, n - 1), NEW items, NEW j \in Nat \ {0},
         Element(s, value, More(Array(items), j)) # Fails
  PROVE  \E w \in Values[n - 1], e \in Nat \ {0} :
           /\ value[j] = Got(w, e) /\ w # Error
           /\ Element(s, value, More(Array(items), j)) =
                Continue(s, SKIP_WHITESPACES(s, e), Array(Append(items, w)), "]")
           /\ Continues(s, e, Array(Append(items, w)), "]", Element(s, value, More(Array(items), j)))
<1> DEFINE l == More(Array(items), j)
<1> HIDE DEF l
<1>1. value[j] # Nothing
  BY DEF l, AddElement, Element, More, Got
<1>2. PICK w \in Values[n - 1], e \in Nat \ {0} : value[j] = Got(w, e)
  BY <1>1, Zenon DEF AllResults, IsResult
<1> QED
  BY <1>2, ContinuesBy, ElementRead, ValuesNoError, NestingAssumption DEF l, Top

\* A turn of the loop of parse_array_value never goes back.
LEMMA ElementMoves ==
  ASSUME NEW s \in Strings, NEW n \in 1..Top, NEW value, AllResults(value, n - 1), GoesOn(value),
         NEW l, ArrayLoop(l, n)
  PROVE  Moves(s, l, Element(s, value, l), "]")
<1>1. CASE l.more = FALSE
  BY <1>1 DEF Moves, Element
<1>2. ASSUME NEW items \in Seq(Values[n - 1]), NEW j \in Nat \ {0}, l = More(Array(items), j)
      PROVE  Moves(s, l, Element(s, value, l), "]")
  <2>1. l.more = TRUE /\ l.got.next = j
    BY <1>2 DEF More, Got
  <2>2. CASE Element(s, value, l) # Fails
    <3>1. PICK w \in Values[n - 1], e \in Nat \ {0} :
            value[j] = Got(w, e) /\ w # Error /\ Continues(s, e, Array(Append(items, w)), "]", Element(s, value, l))
      BY <1>2, <2>2, ElementBy
    <3> QED
      BY <2>1, <3>1 DEF Moves, GoesOn, Got, Nothing
  <2> QED
    BY <2>1, <2>2 DEF Moves
<1>3. ASSUME NEW items \in Seq(Values[n - 1]), NEW j, Stands(l, Array(items), j)
      PROVE  Moves(s, l, Element(s, value, l), "]")
  <2>1. CASE l = Done(Array(items), j)
    BY <1>1, <2>1, Fields
  <2> QED
    BY <1>2, <1>3, <2>1 DEF Stands
<1> QED
  BY <1>1, <1>3, Fields DEF ArrayLoop

\* A string is read forwards.
LEMMA QuotedOn ==
  ASSUME NEW s \in Strings, NEW i \in Nat, get_quoted_string(s, i) # Nothing
  PROVE  /\ get_quoted_string(s, i).next \in Nat \ {0} /\ get_quoted_string(s, i).next > i
         /\ i \in 1..Len(s)
<1>1. PICK chars \in Strings : get_quoted_string(s, i) = Got(String(chars), skip_quotes(s, i + 1) + 1)
  BY QuotedIs
<1> QED
  BY <1>1, QuotedIs DEF Got

\* What a turn that reads a member does.
MemberWith(s, value, n, names, items, j, r) ==
  \E name \in Names, m \in Nat \ {0}, k \in Nat \ {0}, w \in Values[n - 1], e \in Nat \ {0} :
    /\ get_quoted_string(s, j) = Got(String(name), m) /\ m > j
    /\ At(s, SKIP_WHITESPACES(s, m)) = ":" /\ k = SKIP_WHITESPACES(s, m) + 1 /\ k >= m + 1
    /\ ~Contains(names, name)
    /\ value[k] = Got(w, e) /\ w # Error
    /\ Continues(s, e, Object(Append(names, name), Append(items, w)), "RBRACE", r)

\* A turn that does not fail has read a member, and each part of it forwards.
LEMMA MemberStep ==
  ASSUME NEW s \in Strings, NEW n \in 1..Top, NEW value, AllResults(value, n - 1), NEW names, NEW items,
         NEW j \in Nat \ {0}, NEW r, r = Member(s, value, More(Object(names, items), j)), r # Fails
  PROVE  MemberWith(s, value, n, names, items, j, r)
<1> DEFINE l == More(Object(names, items), j)
<1>1. ReadsMember(s, value, names, items, j, Member(s, value, l))
  BY MemberBy
<1> HIDE DEF l
<1>2. PICK name \in Names, m \in Nat \ {0} :
    /\ get_quoted_string(s, j) = Got(String(name), m)
    /\ At(s, SKIP_WHITESPACES(s, m)) = ":"
    /\ value[SKIP_WHITESPACES(s, m) + 1] # Nothing
    /\ ~Contains(names, name)
    /\ Member(s, value, l) = Continue(s, SKIP_WHITESPACES(s, value[SKIP_WHITESPACES(s, m) + 1].next),
                       Object(Append(names, name), Append(items, value[SKIP_WHITESPACES(s, m) + 1].value)),
                       "RBRACE")
  BY <1>1, Zenon DEF ReadsMember
<1> DEFINE k == SKIP_WHITESPACES(s, m) + 1
<1>3. k \in Nat \ {0} /\ k >= m + 1
  BY SkipIs
<1>4. m > j
  BY <1>2, QuotedOn DEF Got, Nothing
<1>5. PICK w \in Values[n - 1], e \in Nat \ {0} : value[k] = Got(w, e)
  BY <1>2, <1>3, Zenon DEF AllResults, IsResult
<1> DEFINE all == Object(Append(names, name), Append(items, w))
<1>6. Member(s, value, l) = Continue(s, SKIP_WHITESPACES(s, e), all, "RBRACE")
  BY <1>2, <1>5 DEF Got
<1>7. Continues(s, e, all, "RBRACE", Member(s, value, l))
  <2> HIDE DEF all
  <2> QED
    BY <1>6, ContinuesBy DEF l
<1> QED
  BY <1>2, <1>3, <1>4, <1>5, <1>7, ValuesNoError, NestingAssumption DEF l, MemberWith, Top

\* A turn of the loop of parse_object_value never goes back.
LEMMA MemberMoves ==
  ASSUME NEW s \in Strings, NEW n \in 1..Top, NEW value, AllResults(value, n - 1), GoesOn(value),
         NEW l, MemberLoop(l, n)
  PROVE  Moves(s, l, Member(s, value, l), "RBRACE")
<1>1. CASE l.more = FALSE
  BY <1>1 DEF Moves, Member
<1>2. ASSUME NEW names, NEW items, NEW j \in Nat \ {0}, l = More(Object(names, items), j)
      PROVE  Moves(s, l, Member(s, value, l), "RBRACE")
  <2>1. l.more = TRUE /\ l.got.next = j
    BY <1>2 DEF More, Got
  <2>2. CASE Member(s, value, l) # Fails
    <3>1. PICK name \in Names, m \in Nat \ {0}, k \in Nat \ {0}, w \in Values[n - 1], e \in Nat \ {0} :
            /\ m > j /\ k >= m + 1 /\ value[k] = Got(w, e)
            /\ Continues(s, e, Object(Append(names, name), Append(items, w)), "RBRACE", Member(s, value, l))
      <4>1. MemberWith(s, value, n, names, items, j, Member(s, value, l))
        BY <1>2, <2>2, MemberStep
      <4> QED
        BY <4>1, Zenon DEF MemberWith
    <3> QED
      BY <2>1, <3>1 DEF Moves, GoesOn, Got, Nothing
  <2> QED
    BY <2>1, <2>2 DEF Moves
<1>3. ASSUME NEW names, NEW items, NEW j, Stands(l, Object(names, items), j)
      PROVE  Moves(s, l, Member(s, value, l), "RBRACE")
  <2>1. CASE l = Done(Object(names, items), j)
    BY <1>1, <2>1, Fields
  <2> QED
    BY <1>2, <1>3, <2>1 DEF Stands
<1> QED
  BY <1>1, <1>3, Fields DEF MemberLoop

\* A parser that goes on makes a longer one that goes on.
LEMMA AnyGoesOn ==
  ASSUME NEW s \in Strings, NEW n \in 1..Top, NEW value, AllResults(value, n - 1), GoesOn(value),
         NEW i \in Nat \ {0}, parse_any_value(s, i, value) # Nothing
  PROVE  i \in 1..Len(s) /\ parse_any_value(s, i, value).next >= i
<1> DEFINE r == parse_any_value(s, i, value)
           k == SKIP_WHITESPACES(s, i + 1)
<1>1. k \in Nat \ {0} /\ k >= i + 1
  BY SkipIs, SkipOn
<1>2. i \in 1..Len(s)
  BY AtIs, AnyIs DEF Digits
<1> HIDE DEF k
<1>3. CASE At(s, i) = "LBRACE"
  <2>1. r = parse_object_value(s, k, value)
    BY <1>3, AnyIs DEF k
  <2>2. CASE At(s, k) # "RBRACE"
    <3>1. r = Members(s, k, value)
      BY <2>1, <2>2, Zenon DEF parse_object_value
    <3>2. PICK turn : MemberTurns(s, k, value, turn) /\ Members(s, k, value) = turn[Rounds(s)].got
      BY MembersIs
    <3>3. \A x \in 1..Rounds(s) : Moves(s, turn[x - 1], turn[x], "RBRACE")
      <4> SUFFICES ASSUME NEW x \in 1..Rounds(s) PROVE Moves(s, turn[x - 1], turn[x], "RBRACE")
        OBVIOUS
      <4>1. Rounds(s) \in Nat
        BY RoundsIs
      <4> QED
        BY <1>1, <3>2, <4>1, MemberMoves, MembersStand DEF MemberTurns
    <3>4. turn[Rounds(s)] = Fails \/ (turn[Rounds(s)].got.next \in Nat /\ turn[Rounds(s)].got.next >= k)
      BY <1>1, <3>2, <3>3, LoopEnds DEF MemberTurns
    <3>5. r.next \in Nat /\ r.next >= k
      BY <3>1, <3>2, <3>4, Fields
    <3> QED
      BY <1>1, <1>2, <3>5
  <2> QED
    BY <1>1, <1>2, <2>1, <2>2 DEF Got, parse_object_value
<1>4. CASE At(s, i) = "["
  <2>1. r = parse_array_value(s, k, value)
    BY <1>4, AnyIs DEF k
  <2>2. CASE At(s, k) # "]"
    <3>1. r = Elements(s, k, value)
      BY <2>1, <2>2, Zenon DEF parse_array_value
    <3>2. PICK turn : ElementTurns(s, k, value, turn) /\ Elements(s, k, value) = turn[Rounds(s)].got
      BY ElementsIs
    <3>3. \A x \in 1..Rounds(s) : Moves(s, turn[x - 1], turn[x], "]")
      <4> SUFFICES ASSUME NEW x \in 1..Rounds(s) PROVE Moves(s, turn[x - 1], turn[x], "]")
        OBVIOUS
      <4>1. Rounds(s) \in Nat
        BY RoundsIs
      <4> QED
        BY <1>1, <3>2, <4>1, ElementMoves, ElementsStand, SMTT(30) DEF ElementTurns
    <3>4. turn[Rounds(s)] = Fails \/ (turn[Rounds(s)].got.next \in Nat /\ turn[Rounds(s)].got.next >= k)
      BY <1>1, <3>2, <3>3, LoopEnds DEF ElementTurns
    <3>5. r.next \in Nat /\ r.next >= k
      BY <3>1, <3>2, <3>4, Fields
    <3> QED
      BY <1>1, <1>2, <3>5
  <2> QED
    BY <1>1, <1>2, <2>1, <2>2 DEF Got, parse_array_value
<1>5. CASE At(s, i) = "QUOTE"
  <2> HIDE DEF r
  <2> QED
    BY <1>2, <1>5, QuotedOn, AnyIs DEF r
<1>6. CASE At(s, i) \in {"-"} \cup Digits
  <2>1. r = parse_number_value(s, i)
    BY <1>6, AnyIs
  <2>2. PICK t \in Strings, next \in i..(Len(s) + 1) : parse_number_value(s, i) = Got(Number(Rounded(t)), next)
    BY <1>2, <1>6, <2>1, NumberMade
  <2> QED
    BY <1>2, <2>1, <2>2 DEF Got
<1> QED
  BY <1>2, <1>3, <1>4, <1>5, <1>6, AnyIs DEF Got

\* What is found is found before the text ends, and never before where it began.
Inside(s, value) == \A i \in Nat \ {0} : value[i] # Nothing => i \in 1..Len(s)

\* The parser never goes back, nor beyond the end.
LEMMA FoundGoesOn ==
  ASSUME NEW s \in Strings
  PROVE  \A n \in 0..Top : GoesOn(Found(s)[n]) /\ Inside(s, Found(s)[n])
<1> DEFINE G == {n \in 0..Top : GoesOn(Found(s)[n]) /\ Inside(s, Found(s)[n])}
<1>1. Top \in Nat
  BY NestingAssumption DEF Top
<1>2. 0 \in G
  BY <1>1, FoundIs DEF GoesOn, Inside
<1>3. ASSUME NEW n \in 1..Top, n - 1 \in G PROVE n \in G
  <2> DEFINE value == Found(s)[n - 1]
  <2>1. GoesOn(value) /\ n \in 0..Top /\ n - 1 \in 0..Top
    BY <1>1, <1>3
  <2>2. AllResults(value, n - 1)
    BY <2>1, FoundTyped
  <2> HIDE DEF value
  <2>3. ASSUME NEW i \in Nat \ {0}, Found(s)[n][i] # Nothing
        PROVE  i \in 1..Len(s) /\ Found(s)[n][i].next >= i
    <3> DEFINE k == SKIP_WHITESPACES(s, i)
    <3>1. Found(s)[n][i] = parse_any_value(s, k, value)
      BY FoundIs DEF value
    <3>2. k \in Nat \ {0} /\ k >= i
      BY SkipIs, SkipOn
    <3> HIDE DEF k
    <3>3. k \in 1..Len(s) /\ Found(s)[n][i].next >= k
      BY <2>1, <2>2, <2>3, <3>1, <3>2, AnyGoesOn
    <3>4. Found(s)[n][i].next \in Nat
      <4>1. PICK v \in Values[n], j \in Nat \ {0} : Found(s)[n][i] = Got(v, j)
        BY <2>1, <2>3, FoundTyped DEF AllResults, IsResult
      <4> QED
        BY <4>1 DEF Got
    <3> QED
      BY <3>2, <3>3, <3>4, TextIs
  <2> QED
    BY <2>1, <2>3 DEF GoesOn, Inside
<1> HIDE DEF G
<1> QED
  BY <1>1, <1>2, <1>3, Inductive DEF G

-----------------------------------------------------------------------------
(* Parts of a text, and what the grammar says of them.                     *)

\* The characters from i up to just before j are a part of a text.
Part(s, i, j) == SubSeq(s, i, j - 1)
\* ... if they are within it.
IsPart(s, i, j) == i \in Nat \ {0} /\ j \in Nat /\ i <= j /\ j <= Len(s) + 1

\* ... that is blank.
AllWhite(s, i, j) == \A k \in i..(j - 1) : At(s, k) \in White

\* A part by its characters.
LEMMA PartIs ==
  ASSUME NEW s \in Strings, NEW i \in Nat, NEW j \in Nat, IsPart(s, i, j)
  PROVE  /\ Part(s, i, j) \in Strings /\ Len(Part(s, i, j)) = j - i
         /\ \A k \in 1..(j - i) : Part(s, i, j)[k] = s[i + k - 1]
         /\ \A k \in 1..(j - i) : Part(s, i, j)[k] = At(s, i + k - 1)
<1>1. Len(s) \in Nat /\ i \in 1..(Len(s) + 1) /\ j - 1 \in 0..Len(s) /\ j - 1 - i + 1 = j - i /\ (i <= j - 1 \/ j - i = 0)
  BY TextIs DEF IsPart
<1>2. ASSUME NEW k \in 1..(j - i) PROVE s[i + k - 1] = At(s, i + k - 1)
  BY <1>1, AtIs
<1> QED
  BY <1>1, <1>2, SubIs DEF Part

\* A part of a part is a part.
LEMMA PartOfPart ==
  ASSUME NEW s \in Strings, NEW i \in Nat, NEW j \in Nat, IsPart(s, i, j),
         NEW a \in Nat, NEW b \in Nat, IsPart(Part(s, i, j), a, b)
  PROVE  Part(Part(s, i, j), a, b) = Part(s, i + a - 1, i + b - 1) /\ IsPart(s, i + a - 1, i + b - 1)
<1> DEFINE t == Part(s, i, j)
           x == Part(t, a, b)
           y == Part(s, i + a - 1, i + b - 1)
<1>1. t \in Strings /\ Len(t) = j - i /\ \A k \in 1..(j - i) : t[k] = s[i + k - 1]
  BY PartIs
<1>2. /\ a \in Nat \ {0} /\ b \in Nat /\ a <= b /\ b <= j - i + 1
      /\ i \in Nat \ {0} /\ j \in Nat /\ i <= j /\ j <= Len(s) + 1 /\ Len(s) \in Nat
  BY <1>1, TextIs DEF IsPart
<1>3. IsPart(s, i + a - 1, i + b - 1) /\ (i + b - 1) - (i + a - 1) = b - a /\ i + a - 1 \in Nat /\ i + b - 1 \in Nat
  BY <1>2 DEF IsPart
<1>4. x \in Strings /\ Len(x) = b - a /\ \A k \in 1..(b - a) : x[k] = t[a + k - 1]
  BY <1>1, PartIs
<1>5. y \in Strings /\ Len(y) = (i + b - 1) - (i + a - 1)
      /\ \A k \in 1..((i + b - 1) - (i + a - 1)) : y[k] = s[(i + a - 1) + k - 1]
  BY <1>3, PartIs, ZenonT(30)
<1> HIDE DEF t, x, y
<1>6. ASSUME NEW k \in 1..(b - a) PROVE x[k] = y[k]
  BY <1>1, <1>2, <1>3, <1>4, <1>5
<1> QED
  BY <1>3, <1>4, <1>5, <1>6, SeqEqual DEF x, y, t, Strings

\* All of a text is a part.
LEMMA PartWhole ==
  ASSUME NEW s \in Strings
  PROVE  IsPart(s, 1, Len(s) + 1) /\ Part(s, 1, Len(s) + 1) = s
BY TextIs DEF Part, IsPart, Strings

\* What it is for a part to be blank.
LEMMA BlankIs ==
  ASSUME NEW s \in Strings, NEW i \in Nat, NEW j \in Nat, IsPart(s, i, j)
  PROVE  Blank(Part(s, i, j)) <=> AllWhite(s, i, j)
<1> DEFINE t == Part(s, i, j)
<1>1. t \in Strings /\ Len(t) = j - i /\ \A k \in 1..(j - i) : t[k] = At(s, i + k - 1)
  BY PartIs
<1>2. i \in Nat /\ j \in Nat
  BY DEF IsPart
<1> HIDE DEF t
<1>3. ASSUME AllWhite(s, i, j) PROVE \A k \in 1..(j - i) : t[k] \in White
  <2> TAKE k \in 1..(j - i)
  <2> QED
    BY <1>1, <1>2, <1>3 DEF AllWhite
<1>4. ASSUME \A k \in 1..(j - i) : t[k] \in White PROVE AllWhite(s, i, j)
  <2> SUFFICES ASSUME NEW k \in i..(j - 1) PROVE At(s, k) \in White
    BY DEF AllWhite
  <2>1. k - i + 1 \in 1..(j - i) /\ i + (k - i + 1) - 1 = k
    BY <1>2
  <2> QED
    BY <1>1, <1>4, <2>1
<1> QED
  BY <1>1, <1>3, <1>4, TextIs DEF t, Blank, ToSet

\* What a part has between the blanks around it.
Framed(s, i, j, q, x) ==
  /\ q \in Nat \ {0} /\ x \in Nat /\ i <= q /\ q < x /\ x <= j
  /\ AllWhite(s, i, q) /\ At(s, q) \notin White
  /\ AllWhite(s, x, j) /\ At(s, x - 1) \notin White

\* A part that is not blank has something there.
LEMMA FrameExists ==
  ASSUME NEW s \in Strings, NEW i \in Nat, NEW j \in Nat, IsPart(s, i, j), ~AllWhite(s, i, j)
  PROVE  \E q, x \in Nat : Framed(s, i, j, q, x)
<1> DEFINE D == {k \in i..(j - 1) : At(s, k) \notin White}
<1>1. i \in Nat \ {0} /\ j \in Nat /\ i <= j /\ j <= Len(s) + 1
  BY DEF IsPart
<1>2. D # {} /\ D \subseteq 1..j /\ D \subseteq Nat
  BY <1>1 DEF AllWhite
<1>3. Min(D) \in D /\ (\A y \in D : Min(D) <= y) /\ Max(D) \in D /\ \A y \in D : Max(D) >= y
  <2> HIDE DEF D
  <2> QED
    BY <1>1, <1>2, MinIs, MaxIs
<1> DEFINE q == Min(D)
           x == Max(D) + 1
<1>4. q \in D /\ (\A y \in D : q <= y) /\ x - 1 \in D /\ (\A y \in D : x - 1 >= y) /\ x \in Nat
  <2>1. q = Min(D) /\ x = Max(D) + 1
    OBVIOUS
  <2> HIDE DEF D, q, x
  <2>2. q \in Nat /\ Max(D) \in Nat
    BY <1>2, <1>3, <2>1
  <2> QED
    BY <1>3, <2>1, <2>2
<1> HIDE DEF q, x
<1>5. q \in i..(j - 1) /\ At(s, q) \notin White /\ x - 1 \in i..(j - 1) /\ At(s, x - 1) \notin White /\ x \in Nat
      /\ q <= x - 1 /\ (\A y \in D : q <= y) /\ (\A y \in D : y <= x - 1)
  BY <1>1, <1>4
<1>6. AllWhite(s, i, q)
  <2> SUFFICES ASSUME NEW k \in i..(q - 1), At(s, k) \notin White PROVE FALSE
    BY DEF AllWhite
  <2> QED
    BY <1>1, <1>5
<1>7. AllWhite(s, x, j)
  <2> SUFFICES ASSUME NEW k \in x..(j - 1), At(s, k) \notin White PROVE FALSE
    BY DEF AllWhite
  <2> QED
    BY <1>1, <1>5
<1> QED
  BY <1>1, <1>5, <1>6, <1>7 DEF Framed

\* ... and that is what Trimmed leaves.
LEMMA TrimmedIs ==
  ASSUME NEW s \in Strings, NEW i \in Nat, NEW j \in Nat, IsPart(s, i, j), NEW q \in Nat, NEW x \in Nat, Framed(s, i, j, q, x)
  PROVE  Trimmed(Part(s, i, j)) = Part(s, q, x) /\ ~AllWhite(s, i, j) /\ IsPart(s, q, x)
<1> DEFINE t == Part(s, i, j)
           D == {k \in DOMAIN t : t[k] \notin White}
<1>1. t \in Strings /\ Len(t) = j - i /\ \A k \in 1..(j - i) : t[k] = At(s, i + k - 1)
  BY PartIs
<1>2. /\ i \in Nat \ {0} /\ j \in Nat /\ j <= Len(s) + 1 /\ q \in Nat \ {0} /\ x \in Nat /\ i <= q /\ q < x /\ x <= j
      /\ (\A k \in i..(q - 1) : At(s, k) \in White) /\ At(s, q) \notin White
      /\ (\A k \in x..(j - 1) : At(s, k) \in White) /\ At(s, x - 1) \notin White
  BY DEF IsPart, Framed, AllWhite
<1>3. DOMAIN t = 1..(j - i)
  BY <1>1, TextIs
<1>4. Trimmed(t) = SubSeq(t, Min(D), Max(D))
  BY DEF Trimmed
<1> HIDE DEF t
<1>5. Part(t, q - i + 1, x - i + 1) = Part(s, i + (q - i + 1) - 1, i + (x - i + 1) - 1)
  BY <1>1, <1>2, PartOfPart DEF t, IsPart
<1>6. D \subseteq 1..(j - i) /\ q - i + 1 \in D /\ x - i \in D
  BY <1>1, <1>2, <1>3
<1>7. \A k \in D : q - i + 1 <= k /\ k <= x - i
  <2> SUFFICES ASSUME NEW k \in D, ~(q - i + 1 <= k /\ k <= x - i) PROVE FALSE
    OBVIOUS
  <2> QED
    BY <1>1, <1>2, <1>3
<1> HIDE DEF D
<1>8. Min(D) = q - i + 1 /\ Max(D) = x - i
  <2>1. j - i \in Nat /\ D \subseteq Nat /\ D # {}
    BY <1>2, <1>6
  <2>2. Min(D) = q - i + 1
    BY <2>1, <1>6, <1>7, MinUnique
  <2>3. Max(D) <= x - i /\ Max(D) >= x - i /\ Max(D) \in Nat
    BY <1>2, <1>6, <1>7, <2>1, MaxIs
  <2> QED
    BY <1>2, <2>2, <2>3
<1>9. Trimmed(t) = Part(s, q, x)
  BY <1>2, <1>4, <1>8, <1>5 DEF Part
<1> QED
  BY <1>2, <1>9 DEF t, AllWhite, IsPart

\* What texts denote at a level, from what they denote at the level below.
DenotedBody(f, n) == [t \in Strings |-> IF n = 0 \/ Blank(t) THEN {} ELSE Meant(Trimmed(t), f[n - 1])]

\* Texts denote something, or nothing, for every level.
LEMMA DenotedExist == \E f : f = [n \in 0..Top |-> DenotedBody(f, n)]
<1> DEFINE Upto(m, f) == f = [n \in 0..m |-> DenotedBody(f, n)]
           G == {m \in 0..Top : \E f : Upto(m, f)}
<1>1. Top \in Nat
  BY NestingAssumption DEF Top
<1>2. ASSUME NEW f PROVE DenotedBody(f, 0) = [t \in Strings |-> {}]
  BY Zenon DEF DenotedBody
<1>3. 0 \in G
  <2> DEFINE f == [n \in 0..0 |-> [t \in Strings |-> {}]]
  <2>1. \A n \in 0..0 : DenotedBody(f, n) = [t \in Strings |-> {}]
    <3> TAKE n \in 0..0
    <3> HIDE DEF f
    <3> QED
      BY <1>2
  <2>2. Upto(0, f)
    BY <2>1
  <2> HIDE DEF f, Upto
  <2> QED
    BY <1>1, <2>2
<1>4. ASSUME NEW x \in 1..Top, x - 1 \in G PROVE x \in G
  <2>1. PICK f : Upto(x - 1, f)
    BY <1>4
  <2> DEFINE h == [n \in 0..x |-> IF n = x THEN DenotedBody(f, n) ELSE f[n]]
  <2>2. ASSUME NEW n \in 0..x PROVE h[n] = DenotedBody(h, n)
    <3>1. n # 0 => f[n - 1] = h[n - 1]
      BY <1>1
    <3> HIDE DEF h
    <3>2. DenotedBody(f, n) = DenotedBody(h, n)
      BY <1>2, <3>1 DEF DenotedBody
    <3> QED
      BY <1>1, <2>1, <3>2 DEF h
  <2>3. Upto(x, h)
    <3>1. h = [n \in 0..x |-> h[n]]
      OBVIOUS
    <3> HIDE DEF h
    <3> QED
      BY <2>2, <3>1
  <2> HIDE DEF h, Upto
  <2> QED
    BY <1>1, <2>3
<1>5. Top \in G
  <2> HIDE DEF G
  <2> QED
    BY <1>1, <1>3, <1>4, Inductive
<1> QED
  BY <1>5

\* What a text denotes, from what its parts do.
LEMMA DenotedIs ==
  ASSUME NEW t \in Strings
  PROVE  /\ Denoted[0][t] = {}
         /\ \A n \in 1..Top : Denoted[n][t] = IF Blank(t) THEN {} ELSE Meant(Trimmed(t), Denoted[n - 1])
<1>1. \A n \in 0..Top : Denoted[n] = DenotedBody(Denoted, n)
  BY DenotedExist DEF Denoted, DenotedBody, Top
<1>2. \A n \in 0..Top : Denoted[n][t] = IF n = 0 \/ Blank(t) THEN {} ELSE Meant(Trimmed(t), Denoted[n - 1])
  BY <1>1, Zenon DEF DenotedBody
<1> QED
  BY <1>2, NestingAssumption DEF Top

\* A part denotes what is meant by that which is between the blanks around it.
LEMMA DenotedBy ==
  ASSUME NEW s \in Strings, NEW i \in Nat, NEW j \in Nat, IsPart(s, i, j), NEW n \in 1..Top, NEW v
  PROVE  v \in Denoted[n][Part(s, i, j)] <=>
           \E q, x \in Nat : Framed(s, i, j, q, x) /\ v \in Meant(Part(s, q, x), Denoted[n - 1])
<1> DEFINE t == Part(s, i, j)
<1>1. t \in Strings
  BY PartIs
<1>2. v \in Denoted[n][t] <=> ~Blank(t) /\ v \in Meant(Trimmed(t), Denoted[n - 1])
  <2> HIDE DEF t
  <2> QED
    BY <1>1, DenotedIs
<1>3. Blank(t) <=> AllWhite(s, i, j)
  BY BlankIs
<1>4. ASSUME NEW q \in Nat, NEW x \in Nat, Framed(s, i, j, q, x) PROVE Trimmed(t) = Part(s, q, x) /\ ~AllWhite(s, i, j)
  BY <1>4, TrimmedIs
<1> HIDE DEF t
<1>5. ASSUME v \in Denoted[n][t] PROVE \E q, x \in Nat : Framed(s, i, j, q, x) /\ v \in Meant(Part(s, q, x), Denoted[n - 1])
  BY <1>2, <1>3, <1>4, <1>5, FrameExists
<1>6. ASSUME NEW q \in Nat, NEW x \in Nat, Framed(s, i, j, q, x), v \in Meant(Part(s, q, x), Denoted[n - 1])
      PROVE  v \in Denoted[n][t]
  BY <1>2, <1>3, <1>4, <1>6
<1> QED
  BY <1>5, <1>6 DEF t

\* The text of a number starts with its sign or a digit.
LEMMA NumberStarts ==
  ASSUME NEW t \in Strings, IsNumber(t)
  PROVE  t # <<>> /\ t[1] \in {"-"} \cup Digits /\ t[Len(t)] \in Digits
<1> DEFINE f == IF t[1] = "-" THEN 2 ELSE 1
<1> QED
  BY IsNumberBy, TextIs DEF IsNumber

\* The pairs that a text means if its values mean this.
MemberMeaning(means) == [u \in Strings |-> Pairs(u, means)]

\* Pairs that are an object's: their names are different, and have no NUL.
Distinct(l) == IsInjective([i \in DOMAIN l |-> l[i][1]]) /\ \A i \in DOMAIN l : l[i][1] \in Names

\* What a text can mean, by its first character.
LEMMA MeantIs ==
  ASSUME NEW t \in Strings, NEW means, NEW v
  PROVE  /\ t[1] = "null" => (v \in Meant(t, means) <=> t = <<"null">> /\ v = Null)
         /\ t[1] \in {"true", "false"} => (v \in Meant(t, means) <=> t = <<t[1]>> /\ v = Boolean(t[1]))
         /\ t[1] \in {"-"} \cup Digits => (v \in Meant(t, means) <=> IsNumber(t) /\ v = Number(Rounded(t)))
         /\ t[1] = "[" => (v \in Meant(t, means) <=>
              Enclosed(t, "[", "]") /\ \E l \in Lists(Inner(t), means) : v = Array(l))
         /\ t[1] = "LBRACE" => (v \in Meant(t, means) <=>
              /\ Enclosed(t, "LBRACE", "RBRACE")
              /\ \E l \in Lists(Inner(t), MemberMeaning(means)) : Distinct(l) /\ v = ObjectOf(l))
         /\ t[1] = "QUOTE" => (v \in Meant(t, means) <=>
              Enclosed(t, "QUOTE", "QUOTE") /\ \E chars \in Spelt(Inner(t)) : v = String(chars))
         /\ t[1] \notin {"null", "true", "false", "[", "LBRACE", "QUOTE", "-"} \cup Digits => v \notin Meant(t, means)
<1>1. t[1] \notin {"-"} \cup Digits => ~IsNumber(t)
  BY NumberStarts
<1>2. \A w : t = <<w>> => t[1] = w
  OBVIOUS
<1>3. \A a, b : Enclosed(t, a, b) => t[1] = a
  BY DEF Enclosed
<1> DEFINE A == {Array(l) : l \in Lists(Inner(t), means)}
           O == {ObjectOf(l) : l \in {l \in Lists(Inner(t), [u \in Strings |-> Pairs(u, means)]) :
                   IsInjective([i \in DOMAIN l |-> l[i][1]]) /\ \A i \in DOMAIN l : l[i][1] \in Names}}
           S == {String(chars) : chars \in Quoted(t)}
<1>4. Meant(t, means) =
        CASE t = <<"null">> -> {Null}
          [] t \in {<<"true">>, <<"false">>} -> {Boolean(t[1])}
          [] IsNumber(t) -> {Number(Rounded(t))}
          [] Enclosed(t, "[", "]") -> A
          [] Enclosed(t, "LBRACE", "RBRACE") -> O
          [] OTHER -> S
  BY Zenon DEF Meant
<1>5. v \in O <=> \E l \in Lists(Inner(t), MemberMeaning(means)) : Distinct(l) /\ v = ObjectOf(l)
  BY Zenon DEF MemberMeaning, Distinct
<1>6. v \in A <=> \E l \in Lists(Inner(t), means) : v = Array(l)
  BY Zenon
<1>7. v \in S <=> Enclosed(t, "QUOTE", "QUOTE") /\ \E chars \in Spelt(Inner(t)) : v = String(chars)
  <2>1. v \in S <=> \E chars \in Quoted(t) : v = String(chars)
    BY Zenon
  <2> HIDE DEF S
  <2> QED
    BY <2>1, Zenon DEF Quoted
<1> HIDE DEF A, O, S
<1>8. CASE t[1] = "null"
  BY <1>1, <1>2, <1>3, <1>4, <1>7, <1>8 DEF Digits
<1>9. CASE t[1] \in {"true", "false"}
  BY <1>1, <1>2, <1>3, <1>4, <1>7, <1>9 DEF Digits
<1>10. CASE t[1] \in {"-"} \cup Digits
  BY <1>2, <1>3, <1>4, <1>7, <1>10 DEF Digits
<1>11. CASE t[1] = "["
  BY <1>1, <1>2, <1>3, <1>4, <1>6, <1>7, <1>11 DEF Digits
<1>12. CASE t[1] = "LBRACE"
  BY <1>1, <1>2, <1>3, <1>4, <1>5, <1>7, <1>12 DEF Digits
<1>13. CASE t[1] \notin {"null", "true", "false", "[", "LBRACE", "-"} \cup Digits
  BY <1>1, <1>2, <1>3, <1>4, <1>7, <1>13 DEF Digits
<1> QED
  BY <1>8, <1>9, <1>10, <1>11, <1>12, <1>13 DEF Digits

-----------------------------------------------------------------------------
(* Strings by the grammar.                                                 *)

\* What the grammar makes of the text of a string, from a place on.
SpeltFrom(t, j) ==
  LET from[k \in 1 .. Len(t) + 1] ==
        IF k > Len(t) THEN {<<>>}
        ELSE UNION {{<<p[2]>> \o rest : rest \in from[k + Len(p[1])]} :
                      p \in {p \in Spellings : IsPrefix(p[1], SubSeq(t, k, Len(t)))}}
  IN from[j]

\* A step of it, which goes on with f.
SpeltBody(t, f, k) ==
  IF k > Len(t) THEN {<<>>}
  ELSE UNION {{<<p[2]>> \o rest : rest \in f[k + Len(p[1])]} :
                p \in {p \in Spellings : IsPrefix(p[1], SubSeq(t, k, Len(t)))}}

\* ... by its members: a spelling, then the rest.
SpeltAs(t, f, k, x) == \E p : Spells(t, k, p) /\ \E rest \in f[k + Len(p[1])] : x = <<p[2]>> \o rest

\* These are its members.
LEMMA SpeltBodyBy ==
  ASSUME NEW t \in Strings, NEW f, NEW k \in 1..Len(t), NEW x
  PROVE  x \in SpeltBody(t, f, k) <=> SpeltAs(t, f, k, x)
<1> DEFINE A == {p \in Spellings : IsPrefix(p[1], SubSeq(t, k, Len(t)))}
           R(p) == {<<p[2]>> \o rest : rest \in f[k + Len(p[1])]}
<1>1. ~(k > Len(t))
  BY TextIs
<1>2. SpeltBody(t, f, k) = UNION {R(p) : p \in A}
  BY <1>1, Zenon DEF SpeltBody
<1>3. \A p : p \in A <=> Spells(t, k, p)
  BY Zenon DEF Spells
<1>4. \A p : x \in R(p) <=> \E rest \in f[k + Len(p[1])] : x = <<p[2]>> \o rest
  OBVIOUS
<1> HIDE DEF A, R
<1>5. x \in SpeltBody(t, f, k) <=> \E p \in A : x \in R(p)
  BY <1>2
<1> QED
  BY <1>3, <1>4, <1>5, Zenon DEF SpeltAs

\* A spelling that starts at a place ends in the text.
LEMMA SpellsOn ==
  ASSUME NEW t \in Strings, NEW k \in 1..Len(t), NEW p, Spells(t, k, p)
  PROVE  k + Len(p[1]) \in (k + 1)..(Len(t) + 1)
<1>1. CharAt(t, k) = [char |-> p[2], used |-> Len(p[1])] /\ Len(p[1]) \in Nat \ {0}
  BY SpellsRead
<1>2. k + CharAt(t, k).used \in k..(Len(t) + 1) /\ CharAt(t, k).used = Len(p[1])
  BY <1>1, CharAtIs
<1> QED
  BY <1>1, <1>2, TextIs

\* A step looks no further back than its own place.
LEMMA SpeltBodyLocal ==
  ASSUME NEW t \in Strings, NEW k \in 1..(Len(t) + 1), NEW f, NEW h,
         \A m \in (k + 1)..(Len(t) + 1) : f[m] = h[m]
  PROVE  SpeltBody(t, f, k) = SpeltBody(t, h, k)
<1>1. CASE k > Len(t)
  BY <1>1 DEF SpeltBody
<1>2. CASE ~(k > Len(t))
  <2>1. k \in 1..Len(t)
    BY <1>2, TextIs
  <2>2. \A p : Spells(t, k, p) => f[k + Len(p[1])] = h[k + Len(p[1])]
    BY <2>1, SpellsOn, Zenon
  <2>3. \A x : x \in SpeltBody(t, f, k) <=> x \in SpeltBody(t, h, k)
    <3> TAKE x
    <3>1. x \in SpeltBody(t, f, k) <=> SpeltAs(t, f, k, x)
      BY <2>1, SpeltBodyBy
    <3>2. x \in SpeltBody(t, h, k) <=> SpeltAs(t, h, k, x)
      BY <2>1, SpeltBodyBy
    <3> QED
      BY <2>2, <3>1, <3>2, Zenon DEF SpeltAs
  <2> QED
    BY <2>3
<1> QED
  BY <1>1, <1>2

\* So it is a function.
LEMMA SpeltExists ==
  ASSUME NEW in \in Strings
  PROVE  \E f : f = [j \in 1..(Len(in) + 1) |-> SpeltBody(in, f, j)]
<1> DEFINE n == Len(in) + 1
           Down(m, f) == f = [j \in m..n |-> SpeltBody(in, f, j)]
           S == {m \in 1..n : \E f : Down(m, f)}
<1>1. n \in Nat /\ n >= 1
  BY TextIs
<1>2. ASSUME NEW m \in 1..n, (m + 1)..n \subseteq S PROVE m \in S
  <2>1. \E f : \A j \in (m + 1)..n : f[j] = SpeltBody(in, f, j)
    <3>1. CASE m = n
      BY <1>1, <3>1
    <3>2. CASE m # n
      <4>1. PICK f : Down(m + 1, f)
        BY <1>1, <1>2, <3>2
      <4> QED
        BY <4>1
    <3> QED
      BY <3>1, <3>2
  <2>2. PICK f : \A j \in (m + 1)..n : f[j] = SpeltBody(in, f, j)
    BY <2>1
  <2> DEFINE h == [j \in m..n |-> IF j = m THEN SpeltBody(in, f, j) ELSE f[j]]
  <2>3. \A j \in m..n : h[j] = IF j = m THEN SpeltBody(in, f, j) ELSE f[j]
    OBVIOUS
  <2>4. h = [j \in m..n |-> h[j]]
    OBVIOUS
  <2> HIDE DEF n, h
  <2>5. ASSUME NEW j \in m..n PROVE h[j] = SpeltBody(in, h, j)
    <3>1. j \in 1..(Len(in) + 1) /\ \A k \in (j + 1)..(Len(in) + 1) : f[k] = h[k]
      BY <1>1, <2>3 DEF n
    <3>2. SpeltBody(in, f, j) = SpeltBody(in, h, j)
      BY <3>1, SpeltBodyLocal
    <3>3. j = m \/ j \in (m + 1)..n
      BY <1>1
    <3> QED
      BY <2>2, <2>3, <3>2, <3>3
  <2>6. Down(m, h)
    BY <2>4, <2>5
  <2> HIDE DEF Down
  <2> QED
    BY <2>6
<1>3. 1 \in S
  <2> HIDE DEF S, n
  <2>1. 1..n \subseteq S
    BY <1>1, <1>2, Backward
  <2> QED
    BY <1>1, <2>1
<1> QED
  BY <1>3

\* A spelling, then the rest.
SpeltOn(t, k, x) == \E p : Spells(t, k, p) /\ \E rest \in SpeltFrom(t, k + Len(p[1])) : x = <<p[2]>> \o rest

\* A string's text goes on as the grammar says: a spelling, then the rest.
LEMMA SpeltIs ==
  ASSUME NEW t \in Strings
  PROVE  /\ Spelt(t) = SpeltFrom(t, 1)
         /\ SpeltFrom(t, Len(t) + 1) = {<<>>}
         /\ \A k \in 1..Len(t) : \A x : x \in SpeltFrom(t, k) <=> SpeltOn(t, k, x)
<1> DEFINE F == CHOOSE f : f = [k \in 1..(Len(t) + 1) |-> SpeltBody(t, f, k)]
<1>1. Len(t) \in Nat
  BY TextIs
<1>2. F = [k \in 1..(Len(t) + 1) |-> SpeltBody(t, F, k)]
  BY SpeltExists
<1>3. \A k : SpeltFrom(t, k) = F[k]
  BY Zenon DEF SpeltFrom, SpeltBody
<1>4. Spelt(t) = F[1]
  BY Zenon DEF Spelt, SpeltBody
<1> HIDE DEF F
<1>5. \A k \in 1..(Len(t) + 1) : F[k] = SpeltBody(t, F, k)
  BY <1>2
<1>6. F[Len(t) + 1] = {<<>>}
  <2>1. Len(t) + 1 \in 1..(Len(t) + 1) /\ Len(t) + 1 > Len(t)
    BY <1>1
  <2>2. F[Len(t) + 1] = SpeltBody(t, F, Len(t) + 1)
    BY <1>5, <2>1
  <2> QED
    BY <2>1, <2>2, Zenon DEF SpeltBody
<1>7. ASSUME NEW k \in 1..Len(t), NEW x
      PROVE  x \in SpeltFrom(t, k) <=> SpeltOn(t, k, x)
  <2>1. F[k] = SpeltBody(t, F, k)
    BY <1>1, <1>5
  <2>2. x \in SpeltBody(t, F, k) <=> SpeltAs(t, F, k, x)
    BY SpeltBodyBy
  <2> QED
    BY <1>3, <2>1, <2>2, Zenon DEF SpeltAs, SpeltOn
<1>8. Spelt(t) = SpeltFrom(t, 1) /\ SpeltFrom(t, Len(t) + 1) = {<<>>}
  BY <1>3, <1>4, <1>6
<1> QED
  BY <1>7, <1>8

\* skip_quotes passes what is no end: a character, or two if the first escapes.
LEMMA SkipOver ==
  ASSUME NEW s \in Strings, NEW j \in Nat \ {0}, At(s, j) \notin {"QUOTE", "NUL"}, At(s, j) = "\\" => At(s, j + 1) # "NUL"
  PROVE  skip_quotes(s, j) = skip_quotes(s, IF At(s, j) = "\\" THEN j + 2 ELSE j + 1)
BY SkipQuotesIs, TextIs, AtIs

\* It passes all spellings.
LEMMA SpellsPassed ==
  ASSUME NEW s \in Strings, NEW a \in Nat, NEW z \in Nat, IsPart(s, a, z), NEW k \in 1..(z - a),
         NEW p, Spells(Part(s, a, z), k, p)
  PROVE  skip_quotes(s, a + k - 1) = skip_quotes(s, a + k - 1 + Len(p[1]))
<1> DEFINE in == Part(s, a, z)
           j == a + k - 1
<1>1. in \in Strings /\ Len(in) = z - a /\ a \in Nat \ {0} /\ z \in Nat /\ k \in 1..Len(in)
  BY PartIs DEF IsPart
<1>2. ASSUME NEW m \in Nat \ {0}, At(in, m) # "NUL" PROVE At(s, a + m - 1) = At(in, m)
  <2>1. in[m] = At(s, a + m - 1) /\ At(in, m) = in[m]
    BY <1>1, <1>2, PartIs, AtIs
  <2> QED
    BY <2>1
<1> HIDE DEF in
<1>3. j \in Nat \ {0} /\ a + (k + 1) - 1 = j + 1 /\ a + (k + 2) - 1 = j + 2 /\ a + (k + 3) - 1 = j + 3
      /\ a + (k + 4) - 1 = j + 4 /\ a + (k + 5) - 1 = j + 5 /\ k + 1 \in Nat \ {0} /\ k + 2 \in Nat \ {0}
      /\ k + 3 \in Nat \ {0} /\ k + 4 \in Nat \ {0} /\ k + 5 \in Nat \ {0} /\ k \in Nat \ {0} /\ a + k - 1 = j
      /\ j + 2 \in Nat \ {0} /\ j + 3 \in Nat \ {0} /\ j + 5 \in Nat \ {0}
      /\ (j + 2) + 1 = j + 3 /\ (j + 3) + 2 = j + 5 /\ (j + 5) + 1 = j + 6 /\ (j + 3) + 1 = j + 4
  BY <1>1
<1> HIDE DEF j
<1>4. CASE IsPair(in, k) /\ Len(p[1]) = 6
  BY <1>2, <1>3, <1>4, SkipOver DEF j, IsPair
<1>5. Len(Pair) = 6 /\ \A c, d : <<c, d>>[1] = c /\ Len(<<c>>) = 1 /\ Len(<<c, d>>) = 2 /\ \A e : Len(<<c, d, e>>) = 3
  BY DEF Pair
<1>6. skip_quotes(s, j) = skip_quotes(s, j + Len(p[1]))
  <2>1. CASE At(in, k) \notin {"QUOTE", "\\", "LF", "NUL"} /\ p = <<<<At(in, k)>>, At(in, k)>>
    BY <1>2, <1>3, <1>5, <2>1, SkipOver DEF j
  <2>2. CASE IsEscape(in, k) /\ p = <<<<"\\", At(in, k + 1)>>, Escapes[At(in, k + 1)]>>
    BY <1>2, <1>3, <1>5, <2>2, SkipOver, EscapesIs DEF j, IsEscape
  <2>3. CASE IsCode(in, k) /\ p = <<<<"\\", "u", At(in, k + 2)>>, CodePoints[At(in, k + 2)]>>
    BY <1>2, <1>3, <1>5, <2>3, SkipOver, EscapesIs DEF j, IsCode
  <2>4. CASE IsPair(in, k) /\ p = <<Pair, "SMILE">>
    BY <1>4, <1>5, <2>4 DEF j
  <2> QED
    BY <1>1, <2>1, <2>2, <2>3, <2>4, SpellsBy DEF in
<1> QED
  BY <1>6 DEF j

\* The grammar makes of a text before a quote what process_string does, if that
\* is the quote that skip_quotes finds, and nothing if not.
LEMMA SpeltRead ==
  ASSUME NEW s \in Strings, NEW a \in Nat, NEW z \in Nat, IsPart(s, a, z), At(s, z) = "QUOTE"
  PROVE  \A x : x \in Spelt(Part(s, a, z)) <=> skip_quotes(s, a) = z /\ x \in process_string(Part(s, a, z))
<1> DEFINE in == Part(s, a, z)
           n == z - a + 1
           S == {k \in 1..n : \A x : x \in SpeltFrom(in, k) <=> skip_quotes(s, a + k - 1) = z /\ x \in Readings(in, k)}
<1>1. in \in Strings /\ Len(in) = z - a /\ a \in Nat \ {0} /\ z \in Nat /\ z > 0 /\ n \in Nat /\ a <= z /\ n = Len(in) + 1
      /\ \A k \in 1..(z - a) : in[k] = At(s, a + k - 1)
  <2>1. in \in Strings /\ Len(in) = z - a /\ \A k \in 1..(z - a) : in[k] = At(s, a + k - 1)
    BY PartIs
  <2> HIDE DEF in
  <2> QED
    BY <2>1 DEF IsPart
<1> HIDE DEF in, n
<1>2. ASSUME NEW k \in 1..n, (k + 1)..n \subseteq S PROVE k \in S
  <2> DEFINE j == a + k - 1
  <2>1. j \in Nat \ {0} /\ j <= z /\ j \in 1..(Len(s) + 1)
    BY <1>1, AtIs, TextIs
  <2> SUFFICES ASSUME NEW x PROVE x \in SpeltFrom(in, k) <=> skip_quotes(s, j) = z /\ x \in Readings(in, k)
    OBVIOUS
  <2>2. CASE k = n
    <3>1. j = z /\ k > Len(in) /\ k = Len(in) + 1
      BY <1>1, <2>2 DEF n
    <3> QED
      BY <1>1, <2>1, <3>1, SkipQuotesIs, SpeltIs, ReadingsIs DEF n
  <2>3. CASE k # n
    <3>1. k \in 1..Len(in) /\ k \in 1..(z - a) /\ ~(k > Len(in)) /\ At(in, k) = At(s, j) /\ j # z
      BY <1>1, <2>3, AtIs
    <3> DEFINE c == CharAt(in, k)
    <3>2. CASE At(in, k) \in {"QUOTE", "NUL"}
      <4>1. skip_quotes(s, j) # z
        BY <1>1, <2>1, <3>1, <3>2, SkipQuotesIs
      <4> QED
        BY <1>1, <3>1, <3>2, <4>1, SpeltIs, SpellsRead DEF SpeltOn
    <3>3. CASE c.used = 0
      <4>1. \A p : ~Spells(in, k, p)
        BY <1>1, <3>1, <3>3, SpellsRead
      <4> QED
        BY <1>1, <3>1, <3>3, <4>1, SpeltIs, ReadingsIs DEF SpeltOn
    <3>4. CASE c.used # 0 /\ At(in, k) \notin {"QUOTE", "NUL"}
      <4>1. PICK p : Spells(in, k, p)
        BY <1>1, <3>1, <3>4, SpellsRead
      <4> DEFINE u == Len(p[1])
      <4>2. c = [char |-> p[2], used |-> u] /\ u \in Nat \ {0}
        BY <1>1, <3>1, <4>1, SpellsRead
      <4>3. ASSUME NEW p1, Spells(in, k, p1) PROVE p1[2] = p[2] /\ Len(p1[1]) = u
        <5>1. c = [char |-> p1[2], used |-> Len(p1[1])]
          BY <1>1, <3>1, <4>3, SpellsRead
        <5> HIDE DEF c
        <5> QED
          BY <4>2, <5>1
      <4>4. k + u \in (k + 1)..n
        BY <1>1, <3>1, <4>1, SpellsOn DEF n
      <4>5. skip_quotes(s, j) = skip_quotes(s, j + u)
        BY <3>1, <4>1, SpellsPassed, ZenonT(30) DEF in
      <4> HIDE DEF u
      <4>6. x \in SpeltFrom(in, k) <=> \E rest \in SpeltFrom(in, k + u) : x = <<p[2]>> \o rest
        <5>1. x \in SpeltFrom(in, k) <=> SpeltOn(in, k, x)
          BY <1>1, <3>1, SpeltIs
        <5> QED
          BY <4>1, <4>3, <5>1, Zenon DEF u, SpeltOn
      <4>7. Readings(in, k) = {<<p[2]>> \o rest : rest \in Readings(in, k + u)}
        <5>1. Readings(in, k) = {<<c.char>> \o rest : rest \in Readings(in, k + c.used)}
          BY <1>1, <3>1, <3>4, ReadingsIs
        <5> QED
          BY <4>2, <5>1
      <4>8. \A y : y \in SpeltFrom(in, k + u) <=> skip_quotes(s, j + u) = z /\ y \in Readings(in, k + u)
        <5>1. k + u \in S /\ a + (k + u) - 1 = j + u
          BY <1>1, <1>2, <4>2, <4>4
        <5> HIDE DEF j
        <5> QED
          BY <5>1
      <4> HIDE DEF j
      <4> QED
        BY <4>5, <4>6, <4>7, <4>8
    <3> QED
      BY <3>2, <3>3, <3>4
  <2> QED
    BY <2>2, <2>3
<1>3. 1 \in S
  <2> HIDE DEF S
  <2>1. 1..n \subseteq S
    BY <1>1, <1>2, Backward
  <2> QED
    BY <1>1, <2>1
<1> QED
  BY <1>1, <1>3, SpeltIs, ReadingsIs DEF in

\* What get_quoted_string finds is a string by the grammar.
LEMMA QuotedMeans ==
  ASSUME NEW s \in Strings, NEW i \in Nat, get_quoted_string(s, i) # Nothing
  PROVE  /\ i \in 1..Len(s) /\ At(s, i) = "QUOTE"
         /\ \E chars \in Strings, z \in Nat :
              /\ IsPart(s, i + 1, z) /\ z \in 1..Len(s) /\ At(s, z) = "QUOTE" /\ chars \in Spelt(Part(s, i + 1, z))
              /\ get_quoted_string(s, i) = Got(String(chars), z + 1)
<1> DEFINE z == skip_quotes(s, i + 1)
<1>1. i \in 1..Len(s) /\ At(s, i) = "QUOTE" /\ z \in (i + 1)..Len(s)
  BY QuotedIs
<1>2. PICK chars \in Strings :
        /\ process_string(Part(s, i + 1, z)) # {}
        /\ chars = CHOOSE c \in process_string(Part(s, i + 1, z)) : TRUE
        /\ get_quoted_string(s, i) = Got(String(chars), z + 1)
  BY QuotedIs, Zenon DEF Part
<1>3. i + 1 \in 1..(Len(s) + 1) /\ i + 1 \in Nat /\ z \in Nat /\ z # 0 /\ z \in 1..Len(s) /\ Len(s) \in Nat
  BY <1>1, TextIs
<1>4. s[z] = "QUOTE" /\ IsPart(s, i + 1, z)
  BY <1>1, <1>3, SkipQuotesEnds DEF IsPart
<1>5. At(s, z) = "QUOTE"
  BY <1>3, <1>4, AtIs
<1>6. chars \in process_string(Part(s, i + 1, z)) /\ skip_quotes(s, i + 1) = z
  BY <1>2, Zenon
<1> HIDE DEF z
<1>7. chars \in Spelt(Part(s, i + 1, z))
  BY <1>3, <1>4, <1>5, <1>6, SpeltRead
<1> QED
  BY <1>1, <1>2, <1>3, <1>4, <1>5, <1>7

\* It finds all that are.
LEMMA QuotedReads ==
  ASSUME NEW s \in Strings, NEW i \in Nat, At(s, i) = "QUOTE", NEW z \in Nat, IsPart(s, i + 1, z), At(s, z) = "QUOTE",
         NEW chars \in Spelt(Part(s, i + 1, z))
  PROVE  get_quoted_string(s, i) = Got(String(chars), z + 1) /\ chars \in Strings
<1> DEFINE in == Part(s, i + 1, z)
<1>1. i + 1 \in Nat /\ z # 0 /\ in \in Strings
  BY PartIs DEF IsPart
<1>2. skip_quotes(s, i + 1) = z /\ chars \in process_string(in)
  BY <1>1, SpeltRead
<1>3. Between(s, i, z) = TheString(process_string(in), z + 1)
  BY <1>1, Zenon DEF Between, Part
<1> HIDE DEF in
<1> QED
  BY <1>1, <1>2, <1>3, ReadingsText DEF get_quoted_string, TheString, OnlyOne

\* A text that is held at a place starts there.
LEMMA HoldsPrefix ==
  ASSUME NEW s \in Strings, NEW t \in Strings, NEW i, Holds(s, i, t), t # <<>>
  PROVE  IsPrefix(t, SubSeq(s, i, Len(s)))
<1> DEFINE u == SubSeq(s, i, Len(s))
<1> HIDE DEF u
<1> QED
  BY SubIs, TextIs, HoldsFirst DEF IsPrefix, u, Strings, Holds

\* The text of a string is one by the grammar.
LEMMA SpeltEscaped ==
  ASSUME NEW chars \in Strings
  PROVE  chars \in Spelt(Escaped(chars))
<1> DEFINE n == Len(chars)
           ss == [k \in 1..n |-> Escape(chars[k])]
           in == Escaped(chars)
<1>1. n \in Nat /\ in \in Strings /\ \A k \in 1..n : chars[k] \in Symbols
  BY TextIs, EscapedText
<1>2. ss \in Seq(Strings) /\ Len(ss) = n /\ \A k \in 1..n : ss[k] = Escape(chars[k])
  BY EscapedIs
<1>3. PICK g \in [0..n -> Strings] : Glued(ss, g) /\ in = g[n]
  BY EscapedIs, Zenon
<1> HIDE DEF ss
<1> HIDE DEF in
<1>4. \A k \in 1..n : Holds(in, 1 + Len(g[k - 1]), ss[k])
  BY <1>1, <1>2, <1>3, HoldsParts, HoldsWhole
<1> DEFINE S == {k \in 1..(n + 1) : SubSeq(chars, k, n) \in SpeltFrom(in, 1 + Len(g[k - 1]))}
<1>5. ASSUME NEW k \in 1..(n + 1), (k + 1)..(n + 1) \subseteq S PROVE k \in S
  <2>1. CASE k = n + 1
    <3>1. SubSeq(chars, k, n) = <<>> /\ k - 1 = n
      BY <1>1, <2>1 DEF Strings
    <3>2. SpeltFrom(in, Len(in) + 1) = {<<>>} /\ Len(in) \in Nat
      BY <1>1, SpeltIs, TextIs
    <3>3. 1 + Len(g[n]) = Len(in) + 1
      BY <1>3, <3>2
    <3> QED
      BY <3>1, <3>2, <3>3
  <2>2. CASE k # n + 1
    <3> DEFINE c == chars[k]
               i == 1 + Len(g[k - 1])
               p == <<Escape(c), c>>
    <3>1. k \in 1..n /\ c \in Symbols /\ ss[k] = Escape(c)
      BY <1>1, <1>2, <2>2
    <3>2. p \in Spellings /\ p[1] = Escape(c) /\ p[2] = c /\ Escape(c) \in Strings /\ Len(Escape(c)) \in 1..3
      BY <3>1, EscapeSpells, EscapeIs
    <3>3. Holds(in, i, Escape(c)) /\ Escape(c) # <<>>
      <4>1. Len(Escape(c)) # 0
        <5> HIDE DEF c
        <5> QED
          BY <3>1, EscapeIs
      <4> QED
        BY <1>4, <3>1, <4>1
    <3>4. 1 + Len(g[k]) = i + Len(Escape(c))
      BY <1>2, <1>3, <3>1, GluedTexts, SMTT(30)
    <3>5. SubSeq(chars, k + 1, n) \in SpeltFrom(in, 1 + Len(g[k]))
      <4>1. k + 1 \in S /\ k + 1 - 1 = k
        BY <1>1, <1>5, <3>1
      <4> QED
        BY <4>1
    <3>6. SubSeq(chars, k, n) = <<c>> \o SubSeq(chars, k + 1, n)
      BY <1>1, <3>1, SubSeqRecursiveFirst DEF Strings
    <3> HIDE DEF c, i, p
    <3>7. SubSeq(chars, k, n) \in SpeltFrom(in, i)
      <4>1. SpeltOn(in, i, SubSeq(chars, k, n))
        BY <1>1, <3>2, <3>3, <3>4, <3>5, <3>6, HoldsPrefix DEF SpeltOn, Spells
      <4> QED
        BY <1>1, <3>2, <3>3, <4>1, SpeltIs, HoldsFirst
    <3> QED
      BY <3>7 DEF i
  <2> QED
    BY <2>1, <2>2
<1>6. 1 \in S
  <2>1. n + 1 \in Nat /\ 1 \in 1..(n + 1)
    BY <1>1
  <2> HIDE DEF S
  <2> QED
    BY <1>5, <2>1, Backward
<1>7. 1 + Len(g[0]) = 1 /\ SubSeq(chars, 1, n) = chars /\ 1 - 1 = 0
  BY <1>3 DEF Glued, Strings
<1> QED
  BY <1>1, <1>6, <1>7, SpeltIs DEF in

-----------------------------------------------------------------------------
(* Lists by the grammar.                                                   *)

\* What the grammar makes of a text with commas, from a place on.
ListsFrom(t, means, i) ==
  LET from[k \in 1 .. Len(t) + 2] ==
        (IF Blank(SubSeq(t, k, Len(t))) THEN {<<>>} ELSE {}) \cup
        UNION {{<<v>> \o l : v \in means[SubSeq(t, k, j - 1)], l \in from[j + 1]} :
                 j \in {j \in k .. Len(t) + 1 : j = Len(t) + 1 \/ t[j] = "COMMA"}}
  IN from[i]

\* A step of it, which goes on with f.
ListsBody(t, means, f, k) ==
  (IF Blank(SubSeq(t, k, Len(t))) THEN {<<>>} ELSE {}) \cup
  UNION {{<<v>> \o l : v \in means[SubSeq(t, k, j - 1)], l \in f[j + 1]} :
           j \in {j \in k .. Len(t) + 1 : j = Len(t) + 1 \/ t[j] = "COMMA"}}

\* ... by its members: nothing, or an item up to j and the rest.
ListsWith(t, means, k, j, v) == j \in k..(Len(t) + 1) /\ (j = Len(t) + 1 \/ t[j] = "COMMA") /\ v \in means[SubSeq(t, k, j - 1)]
\* What a list is from k on.
ListsAs(t, means, f, k, x) ==
  \/ x = <<>> /\ Blank(SubSeq(t, k, Len(t)))
  \/ \E j, v, l : ListsWith(t, means, k, j, v) /\ l \in f[j + 1] /\ x = <<v>> \o l

\* These are a step's members.
LEMMA ListsBodyBy ==
  ASSUME NEW t, NEW means, NEW f, NEW k, NEW x
  PROVE  x \in ListsBody(t, means, f, k) <=> ListsAs(t, means, f, k, x)
<1> DEFINE A == {j \in k .. Len(t) + 1 : j = Len(t) + 1 \/ t[j] = "COMMA"}
           R(j) == {<<v>> \o l : v \in means[SubSeq(t, k, j - 1)], l \in f[j + 1]}
           B == IF Blank(SubSeq(t, k, Len(t))) THEN {<<>>} ELSE {}
<1>1. ListsBody(t, means, f, k) = B \cup UNION {R(j) : j \in A}
  BY DEF ListsBody
<1>2. \A j, v : ListsWith(t, means, k, j, v) <=> j \in A /\ v \in means[SubSeq(t, k, j - 1)]
  BY Zenon DEF ListsWith
<1>3. \A j : x \in R(j) <=> \E v \in means[SubSeq(t, k, j - 1)], l \in f[j + 1] : x = <<v>> \o l
  OBVIOUS
<1>4. x \in B <=> x = <<>> /\ Blank(SubSeq(t, k, Len(t)))
  OBVIOUS
<1> HIDE DEF A, R, B
<1>5. x \in ListsBody(t, means, f, k) <=> x \in B \/ \E j \in A : x \in R(j)
  BY <1>1
<1> QED
  BY <1>2, <1>3, <1>4, <1>5, Zenon DEF ListsAs

\* A step looks no further back than its own place.
LEMMA ListsBodyLocal ==
  ASSUME NEW t \in Strings, NEW means, NEW k \in 1..(Len(t) + 2), NEW f, NEW h,
         \A m \in (k + 1)..(Len(t) + 2) : f[m] = h[m]
  PROVE  ListsBody(t, means, f, k) = ListsBody(t, means, h, k)
<1>1. \A j, v : ListsWith(t, means, k, j, v) => f[j + 1] = h[j + 1]
  <2> TAKE j, v
  <2> QED
    BY TextIs DEF ListsWith
<1>2. ASSUME NEW x PROVE x \in ListsBody(t, means, f, k) <=> x \in ListsBody(t, means, h, k)
  <2>1. x \in ListsBody(t, means, f, k) <=> ListsAs(t, means, f, k, x)
    BY ListsBodyBy
  <2>2. x \in ListsBody(t, means, h, k) <=> ListsAs(t, means, h, k, x)
    BY ListsBodyBy
  <2> QED
    BY <1>1, <2>1, <2>2, Zenon DEF ListsAs
<1> QED
  BY <1>2

\* So it is a function.
LEMMA ListsExists ==
  ASSUME NEW in \in Strings, NEW means
  PROVE  \E f : f = [j \in 1..(Len(in) + 2) |-> ListsBody(in, means, f, j)]
<1> DEFINE n == Len(in) + 2
           Down(m, f) == f = [j \in m..n |-> ListsBody(in, means, f, j)]
           S == {m \in 1..n : \E f : Down(m, f)}
<1>1. n \in Nat /\ n >= 1
  BY TextIs
<1>2. ASSUME NEW m \in 1..n, (m + 1)..n \subseteq S PROVE m \in S
  <2>1. \E f : \A j \in (m + 1)..n : f[j] = ListsBody(in, means, f, j)
    <3>1. CASE m # n
      <4>1. PICK f : Down(m + 1, f)
        BY <1>1, <1>2, <3>1
      <4> QED
        BY <4>1
    <3> QED
      BY <1>1, <3>1
  <2>2. PICK f : \A j \in (m + 1)..n : f[j] = ListsBody(in, means, f, j)
    BY <2>1
  <2> DEFINE h == [j \in m..n |-> IF j = m THEN ListsBody(in, means, f, j) ELSE f[j]]
  <2>3. \A j \in m..n : h[j] = IF j = m THEN ListsBody(in, means, f, j) ELSE f[j]
    OBVIOUS
  <2>4. h = [j \in m..n |-> h[j]]
    OBVIOUS
  <2> HIDE DEF n, h
  <2>5. ASSUME NEW j \in m..n PROVE h[j] = ListsBody(in, means, h, j)
    BY <1>1, <2>2, <2>3, ListsBodyLocal DEF n
  <2>6. Down(m, h)
    BY <2>4, <2>5
  <2> HIDE DEF Down
  <2> QED
    BY <2>6
<1>3. 1 \in S
  <2> HIDE DEF S, n
  <2>1. 1..n \subseteq S
    BY <1>1, <1>2, Backward
  <2> QED
    BY <1>1, <2>1
<1> QED
  BY <1>3

\* The lists of the part from a up to z, from c on.
ListsAt(s, a, z, means, c) == ListsFrom(Part(s, a, z), means, c - a + 1)

\* An item up to d, and the rest.
ItemThen(s, a, z, means, c, l) ==
  \E d, v, r :
    /\ d \in Nat /\ c <= d /\ d <= z /\ (d = z \/ At(s, d) = "COMMA") /\ v \in means[Part(s, c, d)]
    /\ r \in ListsAt(s, a, z, means, d + 1) /\ l = <<v>> \o r

\* A list goes on as the grammar says: nothing more, or an item and the rest.
LEMMA ListsIs ==
  ASSUME NEW s \in Strings, NEW a \in Nat, NEW z \in Nat, IsPart(s, a, z), NEW means
  PROVE  /\ Lists(Part(s, a, z), means) = ListsAt(s, a, z, means, a)
         /\ \A c \in a..(z + 1) : \A l : l \in ListsAt(s, a, z, means, c) <=>
              (l = <<>> /\ AllWhite(s, c, z)) \/ ItemThen(s, a, z, means, c, l)
<1> DEFINE t == Part(s, a, z)
           F == CHOOSE f : f = [k \in 1..(Len(t) + 2) |-> ListsBody(t, means, f, k)]
<1>1. t \in Strings /\ Len(t) = z - a
  BY PartIs
<1>2. \A b, e \in Nat : IsPart(t, b, e) => Part(t, b, e) = Part(s, a + b - 1, a + e - 1)
  BY PartOfPart
<1>3. \A m \in 1..(z - a) : t[m] = At(s, a + m - 1)
  BY PartIs
<1>4. F = [k \in 1..(Len(t) + 2) |-> ListsBody(t, means, F, k)]
  BY <1>1, ListsExists
<1>5. \A k : ListsFrom(t, means, k) = F[k]
  BY DEF ListsFrom, ListsBody
<1>6. Lists(t, means) = F[1]
  BY DEF Lists, ListsBody
<1>7. \A k \in 1..(Len(t) + 2) : F[k] = ListsBody(t, means, F, k)
  <2> HIDE DEF F, t
  <2> QED
    BY <1>4
<1> HIDE DEF F
<1>8. a \in Nat /\ z \in Nat /\ a - a + 1 = 1 /\ a <= z /\ z <= Len(s) + 1 /\ Len(s) \in Nat /\ a # 0
  BY TextIs DEF IsPart
<1>9. \A c : ListsAt(s, a, z, means, c) = F[c - a + 1]
  BY <1>5 DEF ListsAt
<1>10. ASSUME NEW c \in a..(z + 1), NEW l
      PROVE  l \in F[c - a + 1] <=> (l = <<>> /\ AllWhite(s, c, z)) \/ ItemThen(s, a, z, means, c, l)
  <2> DEFINE k == c - a + 1
  <2> HIDE DEF t
  <2>1. k \in 1..(Len(t) + 2) /\ c \in Nat \ {0}
    BY <1>1, <1>8
  <2>2. l \in F[k] <=> ListsAs(t, means, F, k, l)
    <3> HIDE DEF k
    <3> QED
      BY <1>7, <2>1, ListsBodyBy
  <2>3. Blank(SubSeq(t, k, Len(t))) <=> AllWhite(s, c, z)
    <3>1. CASE c = z + 1
      <4> QED
        <5>1. AllWhite(s, c, z)
          BY <1>8, <3>1 DEF AllWhite
        <5> QED
          BY <1>1, <1>8, <3>1, <5>1 DEF Blank, Strings, ToSet
    <3>2. CASE c # z + 1
      <4>1. IsPart(t, k, Len(t) + 1) /\ k \in Nat /\ Len(t) + 1 \in Nat /\ a + k - 1 = c /\ a + (Len(t) + 1) - 1 = z
            /\ Len(t) + 1 - 1 = Len(t) /\ IsPart(s, c, z)
        BY <1>1, <1>8, <2>1, <3>2 DEF IsPart
      <4> HIDE DEF k
      <4>2. SubSeq(t, k, Len(t)) = Part(t, k, Len(t) + 1)
        BY <4>1 DEF Part
      <4> QED
        BY <1>2, <2>1, <4>1, <4>2, BlankIs
    <3> QED
      BY <3>1, <3>2
  <2>4. ASSUME NEW d \in Nat, c <= d, d <= z
        PROVE  /\ SubSeq(t, k, (d - a + 1) - 1) = Part(s, c, d)
               /\ d - a + 1 \in k..(Len(t) + 1) /\ (d - a + 1 = Len(t) + 1 <=> d = z)
               /\ d < z => t[d - a + 1] = At(s, d)
    <3> DEFINE j == d - a + 1
    <3>1. IsPart(t, k, j) /\ k \in Nat /\ j \in Nat /\ a + k - 1 = c /\ a + j - 1 = d /\ j \in k..(Len(t) + 1)
          /\ (j = Len(t) + 1 <=> d = z) /\ (d < z => j \in 1..(z - a))
      BY <1>1, <1>8, <2>1, <2>4 DEF IsPart
    <3> HIDE DEF k, j
    <3>2. d < z => t[j] = At(s, d)
      BY <1>3, <3>1
    <3> QED
      BY <1>2, <3>1, <3>2 DEF Part, j
  <2>5. ASSUME ItemThen(s, a, z, means, c, l) PROVE ListsAs(t, means, F, k, l)
    <3>1. PICK d, v, r :
            /\ d \in Nat /\ c <= d /\ d <= z /\ (d = z \/ At(s, d) = "COMMA") /\ v \in means[Part(s, c, d)]
            /\ r \in ListsAt(s, a, z, means, d + 1) /\ l = <<v>> \o r
      BY <2>5, Zenon DEF ItemThen
    <3>2. ListsWith(t, means, k, d - a + 1, v)
      <4>1. d = z \/ d < z
        BY <1>8, <3>1
      <4> HIDE DEF k
      <4> QED
        BY <2>4, <3>1, <4>1 DEF ListsWith
    <3>3. r \in F[(d - a + 1) + 1]
      BY <1>8, <1>9, <3>1
    <3> QED
      BY <3>1, <3>2, <3>3, Zenon DEF ListsAs
  <2>6. ASSUME NEW j, NEW v, NEW r, ListsWith(t, means, k, j, v), r \in F[j + 1], l = <<v>> \o r
        PROVE  ItemThen(s, a, z, means, c, l)
    <3> DEFINE d == j + a - 1
    <3>1. d \in Nat /\ c <= d /\ d <= z /\ d - a + 1 = j /\ d + 1 - a + 1 = j + 1
      <4>1. j \in k..(Len(t) + 1)
        BY <2>6 DEF ListsWith
      <4> QED
        BY <1>1, <1>8, <2>1, <4>1
    <3> HIDE DEF d, k
    <3>2. (d = z \/ At(s, d) = "COMMA") /\ v \in means[Part(s, c, d)]
      <4>1. d = z \/ d < z
        BY <1>8, <3>1
      <4> QED
        BY <2>4, <2>6, <3>1, <4>1 DEF ListsWith
    <3>3. r \in ListsAt(s, a, z, means, d + 1)
      BY <1>9, <2>6, <3>1
    <3> QED
      BY <2>6, <3>1, <3>2, <3>3, Zenon DEF ItemThen
  <2> HIDE DEF k
  <2> QED
    BY <2>2, <2>3, <2>5, <2>6 DEF k, ListsAs
<1> QED
  BY <1>6, <1>8, <1>10, <1>9 DEF t

-----------------------------------------------------------------------------
(* What parts mean.                                                        *)

\* A part keeps its meanings with blanks around it.
LEMMA Padded ==
  ASSUME NEW s \in Strings, NEW i \in Nat, NEW j \in Nat, IsPart(s, i, j), NEW a \in Nat, NEW b \in Nat, IsPart(s, a, b),
         a <= i, j <= b, AllWhite(s, a, i), AllWhite(s, j, b), NEW n \in 0..Top, NEW v \in Denoted[n][Part(s, i, j)]
  PROVE  v \in Denoted[n][Part(s, a, b)]
<1>1. n # 0
  BY PartIs, DenotedIs
<1>2. n \in 1..Top
  BY <1>1
<1>3. PICK q, x \in Nat : Framed(s, i, j, q, x) /\ v \in Meant(Part(s, q, x), Denoted[n - 1])
  BY <1>2, DenotedBy
<1>4. Framed(s, a, b, q, x)
  BY <1>3 DEF Framed, AllWhite, IsPart
<1> QED
  BY <1>2, <1>3, <1>4, DenotedBy

\* ... with blanks after it.
LEMMA PaddedAfter ==
  ASSUME NEW s \in Strings, NEW i \in Nat, NEW j \in Nat, IsPart(s, i, j), NEW b \in Nat, IsPart(s, i, b),
         j <= b, AllWhite(s, j, b), NEW n \in 1..Top, NEW v \in Denoted[n - 1][Part(s, i, j)]
  PROVE  v \in Denoted[n - 1][Part(s, i, b)]
<1>1. n - 1 \in 0..Top /\ i <= i
  BY NestingAssumption DEF Top
<1>2. AllWhite(s, i, i)
  BY DEF AllWhite
<1> QED
  BY <1>1, <1>2, Padded

\* What is between brackets.
LEMMA EnclosedIs ==
  ASSUME NEW s \in Strings, NEW q \in Nat, NEW x \in Nat, IsPart(s, q, x), NEW open, NEW close
  PROVE  /\ Enclosed(Part(s, q, x), open, close) <=> x > q + 1 /\ At(s, q) = open /\ At(s, x - 1) = close
         /\ x > q + 1 => IsPart(s, q + 1, x - 1) /\ Inner(Part(s, q, x)) = Part(s, q + 1, x - 1)
<1> DEFINE t == Part(s, q, x)
<1>1. t \in Strings /\ Len(t) = x - q /\ \A k \in 1..(x - q) : t[k] = At(s, q + k - 1)
  BY PartIs
<1>2. \A b, e \in Nat : IsPart(t, b, e) => Part(t, b, e) = Part(s, q + b - 1, q + e - 1)
  BY PartOfPart
<1> HIDE DEF t
<1>3. ASSUME x > q + 1 PROVE IsPart(s, q + 1, x - 1) /\ Inner(t) = Part(s, q + 1, x - 1)
  <2>1. Inner(t) = Part(t, 2, Len(t))
    BY Zenon DEF Inner, Part
  <2> QED
    BY <1>1, <1>3, <1>2, <2>1 DEF IsPart
<1> QED
  BY <1>1, <1>3 DEF t, Enclosed

\* What is between quotes is a string's.
LEMMA QuotedPart ==
  ASSUME NEW s \in Strings, NEW q \in Nat, NEW x \in Nat, IsPart(s, q, x), NEW chars
  PROVE  chars \in Quoted(Part(s, q, x)) <=>
           x > q + 1 /\ At(s, q) = "QUOTE" /\ At(s, x - 1) = "QUOTE" /\ chars \in Spelt(Part(s, q + 1, x - 1))
<1> DEFINE t == Part(s, q, x)
<1> QED
  BY EnclosedIs DEF Quoted

\* A member's name from x up to y, a colon at q, and a value.
PairAs(s, a, d, means, q, x, y, name, v) ==
  /\ q \in Nat /\ a <= q /\ q < d /\ At(s, q) = ":" /\ Framed(s, a, q, x, y)
  /\ y > x + 1 /\ At(s, x) = "QUOTE" /\ At(s, y - 1) = "QUOTE" /\ name \in Spelt(Part(s, x + 1, y - 1))
  /\ v \in means[Part(s, q + 1, d)]

\* What a part means as a member.
LEMMA PairsBy ==
  ASSUME NEW s \in Strings, NEW a \in Nat, NEW d \in Nat, IsPart(s, a, d), NEW means, NEW p
  PROVE  p \in Pairs(Part(s, a, d), means) <=>
           \E q, x, y, name, v : PairAs(s, a, d, means, q, x, y, name, v) /\ p = <<name, v>>
<1> DEFINE t == Part(s, a, d)
           before(i) == SubSeq(t, 1, i - 1)
           N(i) == IF Blank(before(i)) THEN {} ELSE Quoted(Trimmed(before(i)))
           M(i) == means[SubSeq(t, i + 1, Len(t))]
           R(i) == {<<name, v>> : name \in N(i), v \in M(i)}
           C == {i \in DOMAIN t : t[i] = ":"}
<1>1. t \in Strings /\ Len(t) = d - a /\ DOMAIN t = 1..(d - a) /\ \A k \in 1..(d - a) : t[k] = At(s, a + k - 1)
  BY PartIs, TextIs
<1>2. \A b, e \in Nat : IsPart(t, b, e) => Part(t, b, e) = Part(s, a + b - 1, a + e - 1)
  BY PartOfPart
<1> HIDE DEF t
<1>3. a \in Nat \ {0} /\ d <= Len(s) + 1 /\ Len(s) \in Nat /\ a <= d
  BY TextIs DEF IsPart
<1>4. ASSUME NEW i \in 1..(d - a), NEW q, q = a + i - 1
      PROVE  /\ q \in Nat /\ a <= q /\ q < d /\ At(s, q) = t[i] /\ M(i) = means[Part(s, q + 1, d)]
             /\ \A name : name \in N(i) <=>
                  \E x, y \in Nat : /\ Framed(s, a, q, x, y) /\ y > x + 1 /\ At(s, x) = "QUOTE" /\ At(s, y - 1) = "QUOTE"
                                    /\ name \in Spelt(Part(s, x + 1, y - 1))
  <2>1. /\ q \in Nat /\ a <= q /\ q < d /\ IsPart(s, a, q) /\ IsPart(t, 1, i) /\ IsPart(t, i + 1, Len(t) + 1)
        /\ 1 \in Nat /\ i \in Nat /\ i + 1 \in Nat /\ Len(t) + 1 \in Nat /\ a + 1 - 1 = a /\ a + (i + 1) - 1 = q + 1
        /\ a + (Len(t) + 1) - 1 = d /\ (Len(t) + 1) - 1 = Len(t)
    BY <1>1, <1>3, <1>4 DEF IsPart
  <2>2. before(i) = Part(s, a, q)
    <3>1. before(i) = Part(t, 1, i)
      BY DEF Part
    <3> HIDE DEF before
    <3> QED
      BY <1>2, <1>4, <2>1, <3>1
  <2>3. SubSeq(t, i + 1, Len(t)) = Part(s, q + 1, d)
    BY <1>4, <1>2, <2>1 DEF Part
  <2>4. N(i) = IF AllWhite(s, a, q) THEN {} ELSE Quoted(Trimmed(Part(s, a, q)))
    BY <2>1, <2>2, BlankIs
  <2> HIDE DEF N
  <2>5. ASSUME NEW name, name \in N(i)
        PROVE  \E x, y \in Nat : /\ Framed(s, a, q, x, y) /\ y > x + 1 /\ At(s, x) = "QUOTE" /\ At(s, y - 1) = "QUOTE"
                                 /\ name \in Spelt(Part(s, x + 1, y - 1))
    <3>1. ~AllWhite(s, a, q) /\ name \in Quoted(Trimmed(Part(s, a, q)))
      BY <2>4, <2>5
    <3>2. PICK x, y \in Nat : Framed(s, a, q, x, y)
      BY <2>1, <3>1, FrameExists
    <3> QED
      BY <2>1, <3>1, <3>2, QuotedPart, TrimmedIs
  <2>6. ASSUME NEW name, NEW x \in Nat, NEW y \in Nat, Framed(s, a, q, x, y), y > x + 1, At(s, x) = "QUOTE",
               At(s, y - 1) = "QUOTE", name \in Spelt(Part(s, x + 1, y - 1))
        PROVE  name \in N(i)
    BY <2>1, <2>4, <2>6, QuotedPart, TrimmedIs
  <2> QED
    BY <1>1, <1>4, <2>1, <2>3, <2>5, <2>6
<1>5. p \in Pairs(t, means) <=> \E i \in DOMAIN t : t[i] = ":" /\ \E name \in N(i), v \in M(i) : p = <<name, v>>
  <2> HIDE DEF R, C
  <2> QED
    BY DEF Pairs
<1> HIDE DEF N, M
<1>6. ASSUME NEW i \in DOMAIN t, t[i] = ":", NEW name \in N(i), NEW v \in M(i), p = <<name, v>>
      PROVE  \E q, x, y, nm, w : PairAs(s, a, d, means, q, x, y, nm, w) /\ p = <<nm, w>>
  <2> DEFINE q == a + i - 1
  <2>1. i \in 1..(d - a)
    BY <1>1
  <2>2. q = a + i - 1
    OBVIOUS
  <2> HIDE DEF q
  <2>3. PICK x, y \in Nat : /\ Framed(s, a, q, x, y) /\ y > x + 1 /\ At(s, x) = "QUOTE" /\ At(s, y - 1) = "QUOTE"
                            /\ name \in Spelt(Part(s, x + 1, y - 1))
    BY <1>4, <1>6, <2>1, <2>2
  <2> QED
    BY <1>4, <1>6, <2>1, <2>2, <2>3 DEF PairAs
<1>7. ASSUME NEW q, NEW x, NEW y, NEW name, NEW v, PairAs(s, a, d, means, q, x, y, name, v), p = <<name, v>>
      PROVE  \E i \in DOMAIN t : t[i] = ":" /\ \E nm \in N(i), w \in M(i) : p = <<nm, w>>
  <2> DEFINE i == q - a + 1
  <2>1. i \in 1..(d - a) /\ q = a + i - 1 /\ x \in Nat /\ y \in Nat
    BY <1>3, <1>7 DEF PairAs, Framed
  <2> HIDE DEF i
  <2>2. t[i] = ":" /\ name \in N(i) /\ v \in M(i)
    BY <1>4, <1>7, <2>1 DEF PairAs
  <2> QED
    BY <1>1, <1>7, <2>1, <2>2
<1> QED
  BY <1>5, <1>6, <1>7, Zenon DEF t

-----------------------------------------------------------------------------
(* The loops of the parser, as one.                                        *)

\* What has been read, of an array or of an object,
Built(bracket, l) == IF bracket = "]" THEN Array(l) ELSE ObjectOf(l)
\* a turn,
TurnOf(s, value, bracket, loop) == IF bracket = "]" THEN Element(s, value, loop) ELSE Member(s, value, loop)
\* all turns,
TurnsOf(s, i, value, bracket, turn) ==
  turn[0] = More(Built(bracket, <<>>), i) /\ \A k \in 1..Rounds(s) : turn[k] = TurnOf(s, value, bracket, turn[k - 1])
\* and what they result in.
Loop(s, i, value, bracket) == IF bracket = "]" THEN Elements(s, i, value) ELSE Members(s, i, value)

\* Pairs as an object.
LEMMA ObjectOfIs ==
  ASSUME NEW V, NEW l \in Seq(V)
  PROVE  LET names == [k \in 1..Len(l) |-> l[k][1]]
             items == [k \in 1..Len(l) |-> l[k][2]]
         IN /\ ObjectOf(l) = Object(names, items)
            /\ Distinct(l) <=> IsInjective(names) /\ \A k \in 1..Len(l) : l[k][1] \in Names
            /\ \A v : ObjectOf(Append(l, v)) = Object(Append(names, v[1]), Append(items, v[2]))
            /\ names = <<>> <=> l = <<>>
<1> DEFINE names == [k \in 1..Len(l) |-> l[k][1]]
           items == [k \in 1..Len(l) |-> l[k][2]]
<1>1. DOMAIN l = 1..Len(l) /\ Len(l) \in Nat
  OBVIOUS
<1>2. ObjectOf(l) = Object(names, items)
  BY <1>1, Zenon DEF ObjectOf
<1>3. Distinct(l) <=> IsInjective(names) /\ \A k \in 1..Len(l) : l[k][1] \in Names
  BY <1>1, Zenon DEF Distinct
<1>4. ASSUME NEW v PROVE ObjectOf(Append(l, v)) = Object(Append(names, v[1]), Append(items, v[2]))
  <2> DEFINE m == Append(l, v)
             f == [k \in DOMAIN m |-> m[k][1]]
             g == [k \in DOMAIN m |-> m[k][2]]
  <2>1. m \in Seq(V \cup {v}) /\ Len(m) = Len(l) + 1 /\ DOMAIN m = 1..(Len(l) + 1) /\ m[Len(l) + 1] = v
        /\ \A k \in 1..Len(l) : m[k] = l[k]
    OBVIOUS
  <2> HIDE DEF m
  <2>2. f = Append(names, v[1])
    <3>1. names \in Seq({l[k][1] : k \in 1..Len(l)} \cup {v[1]}) /\ Len(names) = Len(l)
      BY <1>1
    <3>2. Append(names, v[1]) = [k \in 1..(Len(l) + 1) |-> IF k = Len(l) + 1 THEN v[1] ELSE names[k]]
      BY <1>1, <3>1
    <3> QED
      BY <1>1, <2>1, <3>2
  <2>3. g = Append(items, v[2])
    <3>1. items \in Seq({l[k][2] : k \in 1..Len(l)} \cup {v[2]}) /\ Len(items) = Len(l)
      BY <1>1
    <3>2. Append(items, v[2]) = [k \in 1..(Len(l) + 1) |-> IF k = Len(l) + 1 THEN v[2] ELSE items[k]]
      BY <1>1, <3>1
    <3> QED
      BY <1>1, <2>1, <3>2
  <2>4. ObjectOf(m) = Object(f, g)
    BY Zenon DEF ObjectOf
  <2> HIDE DEF f, g, names, items
  <2> QED
    BY <2>2, <2>3, <2>4 DEF m
<1>5. names = <<>> <=> l = <<>>
  BY <1>1
<1> HIDE DEF names, items
<1> QED
  BY <1>2, <1>3, <1>4, <1>5 DEF names, items

\* The loop is its last turn.
LEMMA TurnsAre ==
  ASSUME NEW s \in Strings, NEW i, NEW value, NEW bracket \in {"]", "RBRACE"}
  PROVE  \E turn : TurnsOf(s, i, value, bracket, turn) /\ Loop(s, i, value, bracket) = turn[Rounds(s)].got
<1>1. ObjectOf(<<>>) = Object(<<>>, <<>>)
  BY DEF ObjectOf
<1>2. CASE bracket = "]"
  <2>1. PICK turn : ElementTurns(s, i, value, turn) /\ Elements(s, i, value) = turn[Rounds(s)].got
    BY ElementsIs
  <2>2. TurnsOf(s, i, value, bracket, turn)
    BY <1>2, <2>1 DEF ElementTurns, TurnsOf, TurnOf, Built
  <2> QED
    BY <1>2, <2>1, <2>2 DEF Loop
<1>3. CASE bracket = "RBRACE"
  <2>1. PICK turn : MemberTurns(s, i, value, turn) /\ Members(s, i, value) = turn[Rounds(s)].got
    BY MembersIs
  <2>2. TurnsOf(s, i, value, bracket, turn)
    BY <1>1, <1>3, <2>1 DEF MemberTurns, TurnsOf, TurnOf, Built
  <2> QED
    BY <1>3, <2>1, <2>2 DEF Loop
<1> QED
  BY <1>2, <1>3

\* What is found one level down, and never before the place it was looked for at.
Sound(value, n) == n \in 1..Top /\ AllResults(value, n - 1) /\ GoesOn(value)

\* Where a loop has ended it stays.
Settled(turn, last) ==
  turn[last].more = FALSE /\ \A k \in 0..last : turn[k].more = FALSE => turn[last] = turn[k]

\* A turn that is the last leaves nothing to do, and there is one.
LEMMA TurnsEnd ==
  ASSUME NEW s \in Strings, NEW n, NEW value, Sound(value, n), NEW i \in Nat \ {0},
         NEW bracket \in {"]", "RBRACE"}, NEW turn, TurnsOf(s, i, value, bracket, turn)
  PROVE  Settled(turn, Rounds(s))
<1> DEFINE R == Rounds(s)
<1>1. R \in Nat \ {0} /\ n \in 1..Top /\ AllResults(value, n - 1) /\ GoesOn(value)
  BY RoundsIs DEF Sound
<1>2. \A k \in 1..R : Moves(s, turn[k - 1], turn[k], bracket)
  <2> SUFFICES ASSUME NEW k \in 1..R PROVE Moves(s, turn[k - 1], turn[k], bracket)
    OBVIOUS
  <2>1. k - 1 \in 0..R
    BY <1>1
  <2>2. CASE bracket = "]"
    <3>1. ElementTurns(s, i, value, turn)
      BY <2>2 DEF ElementTurns, TurnsOf, TurnOf, Built
    <3>2. ArrayLoop(turn[k - 1], n)
      BY <1>1, <2>1, <3>1, ElementsStand
    <3>3. Moves(s, turn[k - 1], Element(s, value, turn[k - 1]), "]")
      BY <1>1, <3>2, ElementMoves
    <3> QED
      BY <2>2, <3>1, <3>3 DEF ElementTurns
  <2>3. CASE bracket = "RBRACE"
    <3>1. ObjectOf(<<>>) = Object(<<>>, <<>>)
      BY DEF ObjectOf
    <3>2. MemberTurns(s, i, value, turn)
      BY <2>3, <3>1 DEF MemberTurns, TurnsOf, TurnOf, Built
    <3>3. MemberLoop(turn[k - 1], n)
      BY <1>1, <2>1, <3>2, MembersStand
    <3>4. Moves(s, turn[k - 1], Member(s, value, turn[k - 1]), "RBRACE")
      BY <1>1, <3>3, MemberMoves
    <3> QED
      BY <2>3, <3>2, <3>4 DEF MemberTurns
  <2> QED
    BY <2>2, <2>3
<1>3. turn[R].more = FALSE
  BY <1>2, LoopEnds DEF TurnsOf
<1> DEFINE S == {x \in 1..(R + 1) : turn[x - 1].more = FALSE => turn[R] = turn[x - 1]}
<1>4. ASSUME NEW x \in 1..(R + 1), (x + 1)..(R + 1) \subseteq S PROVE x \in S
  <2>1. CASE x = R + 1
    BY <1>1, <2>1
  <2>2. CASE x # R + 1
    <3>1. x \in 1..R /\ x + 1 \in S /\ (x + 1) - 1 = x
      BY <1>1, <1>4, <2>2
    <3>2. turn[x] = TurnOf(s, value, bracket, turn[x - 1])
      BY <3>1 DEF TurnsOf
    <3>3. turn[x - 1].more = FALSE => turn[x] = turn[x - 1]
      BY <3>2 DEF TurnOf, Element, Member
    <3> QED
      BY <3>1, <3>3
  <2> QED
    BY <2>1, <2>2
<1>5. 1..(R + 1) \subseteq S
  <2>1. R + 1 \in Nat
    BY <1>1
  <2> HIDE DEF S, R
  <2> QED
    BY <1>4, <2>1, Backward
<1>6. ASSUME NEW k \in 0..R, turn[k].more = FALSE PROVE turn[R] = turn[k]
  <2>1. k + 1 \in S /\ (k + 1) - 1 = k
    BY <1>1, <1>5
  <2> QED
    BY <1>6, <2>1
<1> QED
  BY <1>3, <1>6 DEF Settled

\* What is after an opening bracket, by the parser.
Bracketed(s, i, value, bracket) ==
  IF At(s, i) = bracket THEN Got(Built(bracket, <<>>), i + 1) ELSE Loop(s, i, value, bracket)

\* A list that the bracket allows.
Lawful(bracket, l) == bracket = "]" \/ Distinct(l)

\* An item between two lists belongs to either.
LEMMA AppendThen ==
  ASSUME NEW V, NEW l \in Seq(V), NEW v \in V, NEW r \in Seq(V)
  PROVE  /\ Append(l, v) \in Seq(V) /\ <<v>> \o r \in Seq(V)
         /\ l \o (<<v>> \o r) = Append(l, v) \o r /\ Append(l, v) \o <<>> = Append(l, v)
<1>1. Append(l, v) = l \o <<v>>
  BY AppendIsConcat
<1> QED
  BY <1>1, ConcatAssociative, ConcatProperties, ConcatEmptySeq

\* The first pairs of an object's are an object's.
LEMMA LawfulFirst ==
  ASSUME NEW V, NEW l \in Seq(V), NEW r \in Seq(V), NEW bracket, Lawful(bracket, l \o r)
  PROVE  Lawful(bracket, l)
<1>1. ASSUME Distinct(l \o r) PROVE Distinct(l)
  <2> DEFINE m == l \o r
             f == [k \in DOMAIN m |-> m[k][1]]
             g == [k \in DOMAIN l |-> l[k][1]]
  <2>1. Len(l) \in Nat /\ DOMAIN l = 1..Len(l) /\ DOMAIN m = 1..(Len(l) + Len(r)) /\ Len(r) \in Nat
        /\ \A k \in 1..Len(l) : m[k] = l[k]
    OBVIOUS
  <2> HIDE DEF m
  <2>2. DOMAIN l \subseteq DOMAIN m /\ \A k \in DOMAIN l : m[k] = l[k]
    BY <2>1
  <2>3. IsInjective(f) /\ \A k \in DOMAIN m : m[k][1] \in Names
    BY <1>1, Zenon DEF Distinct, m
  <2>4. \A x, y \in DOMAIN g : g[x] = g[y] => x = y
    BY <2>2, <2>3 DEF IsInjective
  <2>5. IsInjective(g)
    <3> HIDE DEF g
    <3> QED
      BY <2>4 DEF IsInjective
  <2> QED
    BY <2>2, <2>3, <2>5, Zenon DEF Distinct
<1> QED
  BY <1>1 DEF Lawful

\* A turn reads the item v, which is from c up to d.
ItemRead(s, value, bracket, V, c, d, v) ==
  /\ v \in V /\ At(s, SKIP_WHITESPACES(s, c)) # bracket
  /\ \A l \in Seq(V) : Lawful(bracket, Append(l, v)) =>
       TurnOf(s, value, bracket, More(Built(bracket, l), SKIP_WHITESPACES(s, c))) =
         Continue(s, d, Built(bracket, Append(l, v)), bracket)

\* It does so with all items by the grammar.
TurnReads(s, a, z, value, bracket, means, V) ==
  \A c, d \in Nat : a <= c /\ c <= d /\ d <= z /\ (d = z \/ At(s, d) = "COMMA") =>
    \A v \in means[Part(s, c, d)] : ItemRead(s, value, bracket, V, c, d, v)

\* Then the loop reads lists as the grammar says: all that is between brackets.
LEMMA ListRead ==
  ASSUME NEW s \in Strings, NEW a \in Nat, NEW z \in Nat, IsPart(s, a, z), NEW bracket \in {"]", "RBRACE"},
         At(s, z) = bracket, NEW n, NEW value, Sound(value, n), NEW means, NEW V,
         TurnReads(s, a, z, value, bracket, means, V), NEW l \in Lists(Part(s, a, z), means), Lawful(bracket, l)
  PROVE  /\ l \in Seq(V)
         /\ Bracketed(s, SKIP_WHITESPACES(s, a), value, bracket) = Got(Built(bracket, l), z + 1)
<1> DEFINE R == Rounds(s)
           i == SKIP_WHITESPACES(s, a)
<1>1. R \in Nat \ {0} /\ a \in Nat \ {0} /\ a <= z /\ i \in Nat \ {0} /\ bracket # "COMMA"
  BY RoundsIs, SkipOn DEF IsPart
<1> HIDE DEF i
<1>2. PICK turn : TurnsOf(s, i, value, bracket, turn) /\ Loop(s, i, value, bracket) = turn[R].got
  BY TurnsAre
<1>3. /\ turn[R].more = FALSE
      /\ \A k \in 0..R : turn[k].more = FALSE => turn[R] = turn[k]
  <2>1. Settled(turn, R)
    BY <1>1, <1>2, TurnsEnd
  <2> QED
    BY <2>1 DEF Settled
<1> HIDE DEF R
<1> DEFINE Reads(c, r) ==
             \A m \in 0..R, pre \in Seq(V) :
               Lawful(bracket, pre \o r) /\ turn[m] = More(Built(bracket, pre), SKIP_WHITESPACES(s, c)) =>
                 turn[R].got = Got(Built(bracket, pre \o r), z + 1)
           Claim(c, r) == /\ r \in Seq(V)
                          /\ \/ SKIP_WHITESPACES(s, c) = z /\ r = <<>>
                             \/ At(s, SKIP_WHITESPACES(s, c)) # bracket /\ Reads(c, r)
           S == {c \in 1..z : c >= a => \A r \in ListsAt(s, a, z, means, c) : Claim(c, r)}
<1>4. \A c \in a..(z + 1) : \A r : r \in ListsAt(s, a, z, means, c) <=>
        (r = <<>> /\ AllWhite(s, c, z)) \/ ItemThen(s, a, z, means, c, r)
  BY ListsIs
<1>5. ASSUME NEW c \in a..z, \A x \in (c + 1)..z : \A r \in ListsAt(s, a, z, means, x) : Claim(x, r),
             NEW r, ItemThen(s, a, z, means, c, r)
      PROVE  Claim(c, r)
  <2>1. PICK d, v, rest :
          /\ d \in Nat /\ c <= d /\ d <= z /\ (d = z \/ At(s, d) = "COMMA") /\ v \in means[Part(s, c, d)]
          /\ rest \in ListsAt(s, a, z, means, d + 1) /\ r = <<v>> \o rest
    BY <1>5, Zenon DEF ItemThen
  <2>2. c \in Nat /\ a <= c
    BY <1>1
  <2>3. /\ v \in V /\ At(s, SKIP_WHITESPACES(s, c)) # bracket
        /\ \A p \in Seq(V) : Lawful(bracket, Append(p, v)) =>
             TurnOf(s, value, bracket, More(Built(bracket, p), SKIP_WHITESPACES(s, c))) =
               Continue(s, d, Built(bracket, Append(p, v)), bracket)
    BY <2>1, <2>2 DEF ItemRead, TurnReads
  <2> DEFINE w == SKIP_WHITESPACES(s, d + 1)
  <2>4. \/ d = z /\ rest = <<>>
        \/ d # z /\ At(s, d) = "COMMA" /\ d + 1 \in (c + 1)..z /\ Claim(d + 1, rest)
    <3>1. CASE d = z
      <4>1. ~ItemThen(s, a, z, means, z + 1, rest)
        <5> SUFFICES ASSUME NEW e \in Nat, z + 1 <= e, e <= z PROVE FALSE
          BY DEF ItemThen
        <5> QED
          OBVIOUS
      <4> QED
        BY <1>1, <1>4, <2>1, <3>1, <4>1, SMTT(30)
    <3>2. CASE d # z
      <4> HIDE DEF Claim
      <4> QED
        BY <1>1, <1>5, <2>1, <2>2, <3>2
    <3> QED
      BY <3>1, <3>2
  <2>5. rest \in Seq(V)
    <3>1. <<>> \in Seq(V)
      OBVIOUS
    <3>2. Claim(d + 1, rest) => rest \in Seq(V)
      OBVIOUS
    <3> HIDE DEF Claim
    <3> QED
      BY <2>4, <3>1, <3>2
  <2>6. r \in Seq(V)
    BY <2>1, <2>3, <2>5
  <2>7. ASSUME NEW m \in 0..R, NEW pre \in Seq(V), Lawful(bracket, pre \o r),
               turn[m] = More(Built(bracket, pre), SKIP_WHITESPACES(s, c))
        PROVE  turn[R].got = Got(Built(bracket, pre \o r), z + 1)
    <3> DEFINE more == Append(pre, v)
    <3>1. more \in Seq(V) /\ pre \o r = more \o rest /\ (rest = <<>> => pre \o r = more)
      <4>1. /\ Append(pre, v) \in Seq(V) /\ pre \o (<<v>> \o rest) = Append(pre, v) \o rest
            /\ Append(pre, v) \o <<>> = Append(pre, v)
        BY <2>3, <2>5, AppendThen
      <4> QED
        BY <2>1, <4>1
    <3> HIDE DEF more
    <3>2. m + 1 \in 1..R /\ m + 1 - 1 = m /\ m + 1 \in 0..R
      BY <1>1, <1>3, <2>7 DEF More
    <3>3. turn[m + 1] = Continue(s, d, Built(bracket, more), bracket)
      <4>1. turn[m + 1] = TurnOf(s, value, bracket, turn[m])
        BY <1>2, <3>2 DEF TurnsOf, R
      <4> QED
        BY <2>3, <2>5, <2>7, <3>1, <4>1, LawfulFirst DEF more
    <3>4. ASSUME turn[m + 1] = Done(Built(bracket, more), z + 1), rest = <<>>
          PROVE  turn[R].got = Got(Built(bracket, pre \o r), z + 1)
      BY <1>3, <3>1, <3>2, <3>4 DEF Done
    <3>5. CASE d # z
      <4>1. Continue(s, d, Built(bracket, more), bracket) =
              IF At(s, w) = bracket THEN Done(Built(bracket, more), w + 1) ELSE More(Built(bracket, more), w)
        BY <2>4, <3>5 DEF Continue, Onward
      <4> HIDE DEF w
      <4>2. CASE At(s, w) # bracket /\ Reads(d + 1, rest)
        BY <2>7, <3>1, <3>2, <3>3, <4>1, <4>2 DEF w
      <4> QED
        BY <2>4, <3>3, <3>4, <3>5, <4>1, <4>2 DEF w
    <3> QED
      BY <1>1, <2>4, <3>3, <3>4, <3>5 DEF Continue, Onward
  <2> QED
    BY <2>3, <2>6, <2>7
<1>6. ASSUME NEW c \in a..z, NEW r, r = <<>>, AllWhite(s, c, z) PROVE Claim(c, r)
  BY <1>1, <1>6, SkipUnique DEF White, AllWhite
<1> HIDE DEF Claim
<1>7. ASSUME NEW c \in 1..z, (c + 1)..z \subseteq S PROVE c \in S
  <2> SUFFICES ASSUME c >= a, NEW r \in ListsAt(s, a, z, means, c) PROVE Claim(c, r)
    OBVIOUS
  <2>1. c \in a..z /\ c \in a..(z + 1)
    BY <1>1
  <2>2. \A x \in (c + 1)..z : \A y \in ListsAt(s, a, z, means, x) : Claim(x, y)
    BY <1>1, <1>7, <2>1
  <2> HIDE DEF S
  <2> QED
    BY <1>4, <1>5, <1>6, <2>1, <2>2
<1>8. 1..z \subseteq S
  <2> HIDE DEF S
  <2> QED
    BY <1>1, <1>7, Backward
<1>9. Claim(a, l)
  BY <1>1, <1>8, ListsIs
<1>10. CASE At(s, i) # bracket /\ Reads(a, l)
  <2>1. 0 \in 0..R /\ <<>> \in Seq(V) /\ <<>> \o l = l
    BY <1>1, <1>9 DEF Claim
  <2> QED
    BY <1>2, <1>9, <1>10, <2>1 DEF Bracketed, i, Claim, TurnsOf
<1> QED
  BY <1>9, <1>10 DEF Claim, i, Bracketed

\* An item v from j up to e, as the grammar says, and what comes after it.
ItemMeans(s, l, j, bracket, means, V, r, v, e) ==
  /\ v \in V /\ e \in Nat \ {0} /\ j <= e /\ Continues(s, e, Built(bracket, Append(l, v)), bracket, r)
  /\ \A a, d \in Nat : IsPart(s, a, d) /\ a <= j /\ e <= d /\ AllWhite(s, a, j) /\ AllWhite(s, e, d) =>
       v \in means[Part(s, a, d)]

\* A turn that does not fail reads one.
TurnMeans(s, value, bracket, means, V) ==
  \A l \in Seq(V), j \in Nat \ {0} :
    TurnOf(s, value, bracket, More(Built(bracket, l), j)) # Fails =>
      \E v, e : ItemMeans(s, l, j, bracket, means, V, TurnOf(s, value, bracket, More(Built(bracket, l), j)), v, e)

\* An item before a list makes a list.
LEMMA ItemPut ==
  ASSUME NEW s \in Strings, NEW b \in Nat, NEW z \in Nat, IsPart(s, b, z), NEW c \in Nat, b <= c, NEW means,
         NEW q \in Nat, c <= q, q <= z, q = z \/ At(s, q) = "COMMA", NEW v \in means[Part(s, c, q)],
         NEW r \in ListsAt(s, b, z, means, q + 1)
  PROVE  <<v>> \o r \in ListsAt(s, b, z, means, c)
<1>1. c \in b..(z + 1)
  BY DEF IsPart
<1> QED
  BY <1>1, ListsIs DEF ItemThen

\* The empty list is one of blanks.
LEMMA ListNone ==
  ASSUME NEW s \in Strings, NEW b \in Nat, NEW z \in Nat, IsPart(s, b, z), NEW c \in b..(z + 1), NEW means, AllWhite(s, c, z)
  PROVE  <<>> \in ListsAt(s, b, z, means, c)
BY ListsIs

\* What has still been read when the loop ends at z: a list, wherever the part begins.
Rest(s, j, bracket, means, V, z, r) ==
  /\ z \in Nat /\ r \in Seq(V) /\ j <= z /\ z <= Len(s) /\ At(s, z) = bracket
  /\ \A b, c \in Nat : IsPart(s, b, z) /\ b <= c /\ c <= j /\ AllWhite(s, c, j) => r \in ListsAt(s, b, z, means, c)

\* After an item a loop ends, or goes on with the rest.
LEMMA RestPut ==
  ASSUME NEW s \in Strings, NEW bracket, NEW means, NEW V, NEW j \in Nat \ {0}, NEW v \in V, NEW e \in Nat \ {0}, j <= e,
         \A a, d \in Nat : IsPart(s, a, d) /\ a <= j /\ e <= d /\ AllWhite(s, a, j) /\ AllWhite(s, e, d) =>
           v \in means[Part(s, a, d)],
         NEW q, q = SKIP_WHITESPACES(s, e), NEW z \in Nat, z <= Len(s), At(s, z) = bracket, NEW r \in Seq(V), q <= z,
         q = z \/ At(s, q) = "COMMA",
         \A b \in Nat : IsPart(s, b, z) /\ b <= q => r \in ListsAt(s, b, z, means, q + 1)
  PROVE  Rest(s, j, bracket, means, V, z, <<v>> \o r)
<1>1. q \in Nat /\ e <= q /\ AllWhite(s, e, q) /\ Len(s) \in Nat
  BY SkipIs, TextIs DEF AllWhite
<1>2. ASSUME NEW b \in Nat, NEW c \in Nat, IsPart(s, b, z), b <= c, c <= j, AllWhite(s, c, j)
      PROVE  <<v>> \o r \in ListsAt(s, b, z, means, c)
  BY <1>1, <1>2, ItemPut DEF IsPart
<1> QED
  BY <1>1, <1>2 DEF Rest

\* Then what the loop reads between brackets is a list as the grammar says.
LEMMA ListMeans ==
  ASSUME NEW s \in Strings, NEW a \in Nat \ {0}, NEW bracket \in {"]", "RBRACE"},
         NEW n, NEW value, Sound(value, n), NEW means, NEW V, TurnMeans(s, value, bracket, means, V),
         Bracketed(s, SKIP_WHITESPACES(s, a), value, bracket) # Nothing
  PROVE  \E z \in Nat, l \in Seq(V) :
           /\ IsPart(s, a, z) /\ z \in 1..Len(s) /\ At(s, z) = bracket /\ l \in Lists(Part(s, a, z), means)
           /\ Bracketed(s, SKIP_WHITESPACES(s, a), value, bracket) = Got(Built(bracket, l), z + 1)
<1> DEFINE R == Rounds(s)
           i == SKIP_WHITESPACES(s, a)
<1>1. /\ R \in Nat \ {0} /\ i \in Nat \ {0} /\ a <= i /\ AllWhite(s, a, i) /\ Len(s) \in Nat
      /\ bracket # "COMMA" /\ bracket # "NUL"
  <2>1. i \in Nat /\ a <= i /\ \A k \in a..(i - 1) : At(s, k) \in White
    BY SkipIs
  <2>2. R \in Nat \ {0} /\ Len(s) \in Nat
    BY RoundsIs, TextIs
  <2> HIDE DEF i, R
  <2> QED
    BY <2>1, <2>2 DEF AllWhite
<1> HIDE DEF R, i
<1>2. ASSUME NEW z \in Nat, NEW l \in Seq(V), Rest(s, i, bracket, means, V, z, l),
             Bracketed(s, i, value, bracket) = Got(Built(bracket, l), z + 1)
      PROVE  \E x \in Nat, m \in Seq(V) :
               /\ IsPart(s, a, x) /\ x \in 1..Len(s) /\ At(s, x) = bracket /\ m \in Lists(Part(s, a, x), means)
               /\ Bracketed(s, i, value, bracket) = Got(Built(bracket, m), x + 1)
  BY <1>1, <1>2, ListsIs DEF Rest, IsPart
<1>3. CASE At(s, i) = bracket
  <2>1. ASSUME NEW b \in Nat, NEW c \in Nat, IsPart(s, b, i), b <= c, c <= i, AllWhite(s, c, i)
        PROVE  <<>> \in ListsAt(s, b, i, means, c)
    BY <1>1, <2>1, ListNone
  <2>2. Rest(s, i, bracket, means, V, i, <<>>)
    BY <1>1, <1>3, <2>1, AtIs DEF Rest
  <2>3. Bracketed(s, i, value, bracket) = Got(Built(bracket, <<>>), i + 1) /\ i \in Nat /\ <<>> \in Seq(V)
    BY <1>1, <1>3 DEF Bracketed
  <2> QED
    BY <1>2, <2>2, <2>3 DEF i
<1>4. CASE At(s, i) # bracket
  <2>1. PICK turn : TurnsOf(s, i, value, bracket, turn) /\ Loop(s, i, value, bracket) = turn[R].got
    BY TurnsAre DEF R
  <2>2. Settled(turn, R)
    BY <1>1, <2>1, TurnsEnd DEF R
  <2>3. /\ turn[0] = More(Built(bracket, <<>>), i)
        /\ \A k \in 0..(R - 1) : turn[k + 1] = TurnOf(s, value, bracket, turn[k])
    BY <1>1, <2>1 DEF TurnsOf, R
  <2>4. Bracketed(s, i, value, bracket) = turn[R].got /\ turn[R] # Fails
    <3>1. Bracketed(s, i, value, bracket) = turn[R].got
      BY <1>4, <2>1 DEF Bracketed
    <3> QED
      BY <3>1, Fields DEF i
  <2> DEFINE Ends(l, j) == \E z, r : Rest(s, j, bracket, means, V, z, r) /\ turn[R] = Done(Built(bracket, l \o r), z + 1)
             S == {x \in 1..(R + 1) : \A l \in Seq(V), j \in Nat \ {0} : turn[x - 1] = More(Built(bracket, l), j) => Ends(l, j)}
  <2>5. ASSUME NEW x \in 1..(R + 1), (x + 1)..(R + 1) \subseteq S PROVE x \in S
    <3> SUFFICES ASSUME NEW l \in Seq(V), NEW j \in Nat \ {0}, turn[x - 1] = More(Built(bracket, l), j) PROVE Ends(l, j)
      OBVIOUS
    <3>1. x \in 1..R /\ x - 1 \in 0..(R - 1) /\ (x - 1) + 1 = x /\ x \in 0..R
      BY <1>1, <2>2 DEF Settled, More
    <3>2. turn[x] # Fails
      <4>1. turn[x].more = FALSE => turn[R] = turn[x]
        BY <2>2, <3>1 DEF Settled
      <4> QED
        BY <2>4, <4>1, Fields
    <3>3. PICK v, e : ItemMeans(s, l, j, bracket, means, V, turn[x], v, e)
      BY <2>3, <3>1, <3>2 DEF TurnMeans
    <3> DEFINE q == SKIP_WHITESPACES(s, e)
               w == SKIP_WHITESPACES(s, q + 1)
               all == Append(l, v)
    <3>4. /\ v \in V /\ e \in Nat \ {0} /\ j <= e /\ Continues(s, e, Built(bracket, all), bracket, turn[x])
          /\ \A b, d \in Nat : IsPart(s, b, d) /\ b <= j /\ e <= d /\ AllWhite(s, b, j) /\ AllWhite(s, e, d) =>
               v \in means[Part(s, b, d)]
      BY <3>3, Zenon DEF ItemMeans
    <3>5. q \in Nat \ {0} /\ e <= q /\ w \in Nat \ {0} /\ q < w /\ AllWhite(s, q + 1, w)
      <4>1. q \in Nat /\ e <= q
        BY <3>4, SkipIs
      <4>2. q + 1 \in Nat
        BY <4>1
      <4> HIDE DEF q
      <4>3. w \in Nat /\ q + 1 <= w /\ \A k \in (q + 1)..(w - 1) : At(s, k) \in White
        BY <4>2, SkipIs
      <4> HIDE DEF w
      <4> QED
        BY <3>4, <4>1, <4>3 DEF AllWhite
    <3>6. /\ all \in Seq(V) /\ l \o (<<v>> \o <<>>) = all
          /\ \A r \in Seq(V) : l \o (<<v>> \o r) = all \o r
      <4>1. <<>> \in Seq(V)
        OBVIOUS
      <4> QED
        BY <3>4, <4>1, AppendThen, SMTT(30)
    <3> HIDE DEF q, w, all
    <3>7. ASSUME NEW z \in Nat, NEW r \in Seq(V), At(s, z) = bracket, z <= Len(s), q <= z, q = z \/ At(s, q) = "COMMA",
                 \A b \in Nat : IsPart(s, b, z) /\ b <= q => r \in ListsAt(s, b, z, means, q + 1),
                 turn[R] = Done(Built(bracket, all \o r), z + 1)
          PROVE  Ends(l, j)
      BY <3>4, <3>6, <3>7, RestPut DEF q
    <3>8. ASSUME NEW z \in Nat \ {0}, At(s, z) = bracket, q <= z, q = z \/ At(s, q) = "COMMA", AllWhite(s, q + 1, z),
                 turn[x] = Done(Built(bracket, all), z + 1)
          PROVE  Ends(l, j)
      <4>1. z <= Len(s) /\ <<>> \in Seq(V) /\ all \o <<>> = all
        BY <1>1, <3>6, <3>8, AtIs
      <4>2. turn[R] = turn[x]
        BY <2>2, <3>1, <3>8 DEF Settled, Done
      <4>3. ASSUME NEW b \in Nat, IsPart(s, b, z), b <= q PROVE <<>> \in ListsAt(s, b, z, means, q + 1)
        BY <3>5, <3>8, <4>3, ListNone
      <4> HIDE DEF Ends
      <4> QED
        BY <3>7, <3>8, <4>1, <4>2, <4>3
    <3>9. CASE At(s, q) = bracket /\ turn[x] = Done(Built(bracket, all), q + 1)
      <4> HIDE DEF Ends
      <4> QED
        BY <3>5, <3>8, <3>9 DEF AllWhite
    <3>10. CASE At(s, q) = "COMMA" /\ At(s, w) = bracket /\ turn[x] = Done(Built(bracket, all), w + 1)
      <4> HIDE DEF Ends
      <4> QED
        BY <3>5, <3>8, <3>10
    <3>11. CASE At(s, q) = "COMMA" /\ turn[x] = More(Built(bracket, all), w)
      <4>1. x + 1 \in S /\ (x + 1) - 1 = x
        <5> HIDE DEF S
        <5> QED
          BY <1>1, <2>5, <3>1
      <4>2. PICK z, r : Rest(s, w, bracket, means, V, z, r) /\ turn[R] = Done(Built(bracket, all \o r), z + 1)
        BY <3>5, <3>6, <3>11, <4>1
      <4>3. ASSUME NEW b \in Nat, IsPart(s, b, z), b <= q PROVE r \in ListsAt(s, b, z, means, q + 1)
        BY <3>5, <4>2, <4>3 DEF Rest
      <4> HIDE DEF Ends, S
      <4> QED
        BY <3>5, <3>7, <3>11, <4>2, <4>3 DEF Rest
    <3> HIDE DEF Ends, S
    <3> QED
      BY <3>4, <3>9, <3>10, <3>11 DEF Continues, q, w
  <2>6. 1..(R + 1) \subseteq S
    <3>1. R + 1 \in Nat
      BY <1>1
    <3> HIDE DEF S
    <3> QED
      BY <2>5, <3>1, Backward
  <2>7. Ends(<<>>, i)
    <3>1. 1 \in S /\ 1 - 1 = 0 /\ <<>> \in Seq(V)
      BY <1>1, <2>6
    <3> HIDE DEF Ends
    <3> QED
      BY <1>1, <2>3, <3>1
  <2>8. PICK z, r : Rest(s, i, bracket, means, V, z, r) /\ turn[R] = Done(Built(bracket, <<>> \o r), z + 1)
    BY <2>7
  <2> QED
    BY <1>2, <2>4, <2>8 DEF i, Done, Rest
<1> QED
  BY <1>3, <1>4

-----------------------------------------------------------------------------
(* What a level finds, and what the level below does.                      *)

\* The value v is found from c on, up to the blanks before d.
ValueRead(s, value, c, d, v) ==
  /\ At(s, SKIP_WHITESPACES(s, c)) \notin {"]", "RBRACE"}
  /\ \E e \in Nat : value[c] = Got(v, e) /\ c <= e /\ e <= d /\ AllWhite(s, e, d)

\* All values by the grammar are found, a number where no digit follows, and it does not matter where blanks begin.
ValueReads(s, value, n) ==
  /\ \A c \in Nat \ {0} : value[SKIP_WHITESPACES(s, c)] = value[c]
  /\ \A c, d \in Nat : IsPart(s, c, d) => \A v \in Denoted[n][Part(s, c, d)] :
       (v.type = "number" => At(s, d) \notin Digits) => ValueRead(s, value, c, d, v)

\* What is found from c up to e is a value by the grammar, or a number whose sign is left.
ValueMean(s, n, c, v, e) == (v.type = "number" /\ At(s, e) = "-") \/ (e <= Len(s) + 1 /\ v \in Denoted[n][Part(s, c, e)])
\* So are all that are found.
ValueMeans(s, value, n) ==
  \A c \in Nat \ {0} : \A v, e : value[c] = Got(v, e) /\ v # Error => ValueMean(s, n, c, v, e)

\* What it is to be sound.
LEMMA SoundIs ==
  ASSUME NEW n, NEW value, Sound(value, n)
  PROVE  n \in 1..Top /\ n - 1 \in 0..Top /\ AllResults(value, n - 1) /\ GoesOn(value)
BY NestingAssumption DEF Sound, Top

\* A value that is found is one of its level.
LEMMA ReadTyped ==
  ASSUME NEW n, NEW value, Sound(value, n), NEW c \in Nat \ {0}, NEW v, NEW e \in Nat, c <= e, value[c] = Got(v, e)
  PROVE  v \in Values[n - 1] /\ v # Error
<1>1. n \in 1..Top /\ IsResult(value[c], n - 1) /\ n - 1 \in 0..Top
  BY SoundIs DEF AllResults
<1>2. value[c] # Nothing
  BY DEF Got, Nothing
<1>3. PICK w \in Values[n - 1], j \in Nat \ {0} : value[c] = Got(w, j)
  BY <1>1, <1>2 DEF IsResult
<1>4. v = w
  BY <1>3 DEF Got
<1> QED
  BY <1>1, <1>4, ValuesNoError

\* Where a value ends that has blanks after it.
LEMMA ReadEnd ==
  ASSUME NEW s \in Strings, NEW e \in Nat, NEW d \in Nat, e <= d, AllWhite(s, e, d), At(s, d) \notin White
  PROVE  SKIP_WHITESPACES(s, e) = d
BY SkipUnique, Zenon DEF AllWhite

\* Elements are read as the grammar says,
LEMMA ElementReads ==
  ASSUME NEW s \in Strings, NEW n, NEW value, Sound(value, n), ValueReads(s, value, n - 1), NEW a \in Nat, NEW z \in Nat,
         IsPart(s, a, z), At(s, z) = "]"
  PROVE  TurnReads(s, a, z, value, "]", Denoted[n - 1], Values[n - 1])
<1> SUFFICES ASSUME NEW c \in Nat, NEW d \in Nat, a <= c, c <= d, d <= z, d = z \/ At(s, d) = "COMMA",
                    NEW v \in Denoted[n - 1][Part(s, c, d)]
             PROVE  ItemRead(s, value, "]", Values[n - 1], c, d, v)
  BY Zenon DEF TurnReads
<1>1. c \in Nat \ {0} /\ IsPart(s, c, d) /\ At(s, d) \in {"]", "COMMA"}
  BY DEF IsPart
<1>2. At(s, d) \notin Digits /\ At(s, d) \notin White
  BY <1>1 DEF Digits, White
<1>3. ValueRead(s, value, c, d, v) /\ value[SKIP_WHITESPACES(s, c)] = value[c]
  BY <1>1, <1>2 DEF ValueReads
<1>4. PICK e \in Nat : value[c] = Got(v, e) /\ c <= e /\ e <= d /\ AllWhite(s, e, d)
  BY <1>3, Zenon DEF ValueRead
<1>5. v \in Values[n - 1] /\ v # Error
  BY <1>1, <1>4, ReadTyped
<1>6. SKIP_WHITESPACES(s, e) = d /\ e \in Nat \ {0}
  BY <1>1, <1>2, <1>4, ReadEnd
<1>7. SKIP_WHITESPACES(s, c) \in Nat \ {0} /\ At(s, SKIP_WHITESPACES(s, c)) # "]"
  BY <1>1, <1>3, SkipOn DEF ValueRead
<1>8. ASSUME NEW l \in Seq(Values[n - 1])
      PROVE  TurnOf(s, value, "]", More(Built("]", l), SKIP_WHITESPACES(s, c))) = Continue(s, d, Built("]", Append(l, v)), "]")
  <2> DEFINE j == SKIP_WHITESPACES(s, c)
  <2>1. value[j] = Got(v, e) /\ j \in Nat \ {0}
    BY <1>3, <1>4, <1>7
  <2> HIDE DEF j
  <2>2. Element(s, value, More(Array(l), j)) = Continue(s, SKIP_WHITESPACES(s, e), Array(Append(l, v)), "]")
    BY <1>5, <1>6, <2>1, ElementRead
  <2> QED
    BY <1>6, <2>2 DEF TurnOf, Built, j
<1> QED
  BY <1>5, <1>7, <1>8, Zenon DEF ItemRead

\* and all that is read is an element.
LEMMA ElementMeans ==
  ASSUME NEW s \in Strings, NEW n, NEW value, Sound(value, n), ValueMeans(s, value, n - 1)
  PROVE  TurnMeans(s, value, "]", Denoted[n - 1], Values[n - 1])
<1> SUFFICES ASSUME NEW l \in Seq(Values[n - 1]), NEW j \in Nat \ {0}, NEW r,
                    r = TurnOf(s, value, "]", More(Built("]", l), j)), r # Fails
             PROVE  \E v, e : ItemMeans(s, l, j, "]", Denoted[n - 1], Values[n - 1], r, v, e)
  BY Zenon DEF TurnMeans
<1>1. n \in 1..Top /\ AllResults(value, n - 1) /\ GoesOn(value) /\ n - 1 \in 0..Top
  BY SoundIs
<1>2. r = Element(s, value, More(Array(l), j))
  BY DEF TurnOf, Built
<1>3. PICK v \in Values[n - 1], e \in Nat \ {0} :
        value[j] = Got(v, e) /\ v # Error /\ Continues(s, e, Array(Append(l, v)), "]", r)
  BY <1>1, <1>2, ElementBy
<1>4. j <= e
  BY <1>1, <1>3 DEF GoesOn, Got, Nothing
<1>5. At(s, SKIP_WHITESPACES(s, e)) \in {"]", "COMMA"}
  BY <1>3 DEF Continues
<1>6. At(s, e) # "-"
  <2>1. At(s, e) = "-" => At(s, e) \notin White
    BY DEF White
  <2> QED
    BY <1>5, <2>1, SkipNone
<1>7. e <= Len(s) + 1 /\ v \in Denoted[n - 1][Part(s, j, e)]
  BY <1>3, <1>6 DEF ValueMeans, ValueMean
<1>8. ASSUME NEW a \in Nat, NEW d \in Nat, IsPart(s, a, d), a <= j, e <= d, AllWhite(s, a, j), AllWhite(s, e, d)
      PROVE  v \in Denoted[n - 1][Part(s, a, d)]
  <2>1. IsPart(s, j, e)
    BY <1>4, <1>7 DEF IsPart
  <2> QED
    BY <1>1, <1>7, <1>8, <2>1, Padded
<1>9. Continues(s, e, Built("]", Append(l, v)), "]", r)
  BY <1>3 DEF Built
<1>10. ItemMeans(s, l, j, "]", Denoted[n - 1], Values[n - 1], r, v, e)
  BY <1>3, <1>4, <1>8, <1>9 DEF ItemMeans
<1> QED
  BY <1>10

\* The name that is appended is new, and one that a name can be.
LEMMA DistinctLast ==
  ASSUME NEW V, NEW l \in Seq(V), NEW v, Distinct(Append(l, v))
  PROVE  v[1] \in Names /\ ~Contains([k \in 1..Len(l) |-> l[k][1]], v[1])
<1> DEFINE m == Append(l, v)
           f == [k \in DOMAIN m |-> m[k][1]]
           g == [k \in 1..Len(l) |-> l[k][1]]
<1>1. Len(l) \in Nat /\ DOMAIN m = 1..(Len(l) + 1) /\ m[Len(l) + 1] = v /\ \A k \in 1..Len(l) : m[k] = l[k]
  OBVIOUS
<1> HIDE DEF m
<1>2. IsInjective(f) /\ \A k \in DOMAIN m : m[k][1] \in Names
  BY Zenon DEF Distinct, m
<1>3. ASSUME Contains(g, v[1]) PROVE FALSE
  <2>1. PICK k \in 1..Len(l) : g[k] = v[1]
    BY <1>3 DEF Contains
  <2>2. f[k] = f[Len(l) + 1] /\ k \in DOMAIN f /\ Len(l) + 1 \in DOMAIN f
    BY <1>1, <2>1
  <2>3. k = Len(l) + 1
    <3> HIDE DEF f
    <3> QED
      BY <1>2, <2>2 DEF IsInjective
  <2> QED
    BY <1>1, <2>3
<1> QED
  BY <1>1, <1>2, <1>3

\* Members are read as the grammar says,
LEMMA MemberReads ==
  ASSUME NEW s \in Strings, NEW n, NEW value, Sound(value, n), ValueReads(s, value, n - 1), NEW a \in Nat, NEW z \in Nat,
         IsPart(s, a, z), At(s, z) = "RBRACE"
  PROVE  TurnReads(s, a, z, value, "RBRACE", MemberMeaning(Denoted[n - 1]), Strings \X Values[n - 1])
<1> DEFINE V == Strings \X Values[n - 1]
<1> SUFFICES ASSUME NEW c \in Nat, NEW d \in Nat, a <= c, c <= d, d <= z, d = z \/ At(s, d) = "COMMA",
                    NEW p \in MemberMeaning(Denoted[n - 1])[Part(s, c, d)]
             PROVE  ItemRead(s, value, "RBRACE", V, c, d, p)
  BY Zenon DEF TurnReads
<1>1. c \in Nat \ {0} /\ IsPart(s, c, d) /\ At(s, d) \in {"RBRACE", "COMMA"}
  BY DEF IsPart
<1>2. At(s, d) \notin Digits /\ At(s, d) \notin White
  BY <1>1 DEF Digits, White
<1>3. PICK q, x, y, name, v : PairAs(s, c, d, Denoted[n - 1], q, x, y, name, v) /\ p = <<name, v>>
  BY <1>1, PairsBy, PartIs DEF MemberMeaning
<1>4. /\ q \in Nat /\ c <= q /\ q < d /\ At(s, q) = ":" /\ Framed(s, c, q, x, y)
      /\ y > x + 1 /\ At(s, x) = "QUOTE" /\ At(s, y - 1) = "QUOTE" /\ name \in Spelt(Part(s, x + 1, y - 1))
      /\ v \in Denoted[n - 1][Part(s, q + 1, d)]
  BY <1>3, Zenon DEF PairAs
<1>5. /\ x \in Nat \ {0} /\ y \in Nat \ {0} /\ c <= x /\ x < y /\ y <= q /\ AllWhite(s, c, x) /\ AllWhite(s, y, q)
      /\ y - 1 \in Nat /\ (y - 1) + 1 = y /\ IsPart(s, x + 1, y - 1) /\ IsPart(s, q + 1, d) /\ q + 1 \in Nat
  BY <1>1, <1>4 DEF Framed, IsPart
<1>6. SKIP_WHITESPACES(s, c) = x /\ SKIP_WHITESPACES(s, y) = q
  BY <1>4, <1>5, ReadEnd DEF White
<1>7. get_quoted_string(s, x) = Got(String(name), y) /\ name \in Strings
  BY <1>4, <1>5, QuotedReads
<1>8. PICK e \in Nat : value[q + 1] = Got(v, e) /\ q + 1 <= e /\ e <= d /\ AllWhite(s, e, d)
  BY <1>2, <1>4, <1>5 DEF ValueRead, ValueReads
<1>9. v \in Values[n - 1] /\ v # Error
  BY <1>4, <1>8, ReadTyped
<1>10. SKIP_WHITESPACES(s, e) = d /\ e \in Nat \ {0}
  BY <1>2, <1>4, <1>8, ReadEnd
<1>11. p \in V /\ p[1] = name /\ p[2] = v
  BY <1>3, <1>7, <1>9
<1>12. ASSUME NEW l \in Seq(V), Lawful("RBRACE", Append(l, p))
       PROVE  TurnOf(s, value, "RBRACE", More(Built("RBRACE", l), SKIP_WHITESPACES(s, c))) =
                Continue(s, d, Built("RBRACE", Append(l, p)), "RBRACE")
  <2> DEFINE names == [k \in 1..Len(l) |-> l[k][1]]
             items == [k \in 1..Len(l) |-> l[k][2]]
  <2> HIDE DEF V
  <2>1. name \in Names /\ ~Contains(names, name)
    BY <1>11, <1>12, DistinctLast DEF Lawful
  <2>2. ObjectOf(l) = Object(names, items) /\ ObjectOf(Append(l, p)) = Object(Append(names, name), Append(items, v))
    <3>1. ObjectOf(l) = Object(names, items)
      BY ObjectOfIs
    <3>2. ObjectOf(Append(l, p)) = Object(Append(names, p[1]), Append(items, p[2]))
      BY <1>11, ObjectOfIs
    <3> HIDE DEF names, items
    <3> QED
      BY <1>11, <3>1, <3>2
  <2> HIDE DEF names, items
  <2>3. Member(s, value, More(Object(names, items), x)) =
          Continue(s, SKIP_WHITESPACES(s, e), Object(Append(names, name), Append(items, v)), "RBRACE")
    <3>1. x \in Nat \ {0} /\ y \in Nat \ {0} /\ q = SKIP_WHITESPACES(s, y) /\ At(s, q) = ":"
      BY <1>4, <1>5, <1>6
    <3>2. value[q + 1] = Got(v, e) /\ v # Error /\ e \in Nat \ {0}
      BY <1>8, <1>9, <1>10
    <3> QED
      BY <1>7, <2>1, <3>1, <3>2, MemberRead
  <2> QED
    BY <1>6, <1>10, <2>2, <2>3 DEF TurnOf, Built
<1> HIDE DEF V
<1> QED
  BY <1>4, <1>6, <1>11, <1>12 DEF ItemRead

\* and all that is read is a member.
LEMMA MemberMeans ==
  ASSUME NEW s \in Strings, NEW n, NEW value, Sound(value, n), ValueMeans(s, value, n - 1)
  PROVE  TurnMeans(s, value, "RBRACE", MemberMeaning(Denoted[n - 1]), Strings \X Values[n - 1])
<1> DEFINE V == Strings \X Values[n - 1]
           means == MemberMeaning(Denoted[n - 1])
<1> SUFFICES ASSUME NEW l \in Seq(V), NEW j \in Nat \ {0}, NEW r,
                    r = TurnOf(s, value, "RBRACE", More(Built("RBRACE", l), j)), r # Fails
             PROVE  \E p, e : ItemMeans(s, l, j, "RBRACE", means, V, r, p, e)
  BY Zenon DEF TurnMeans
<1> DEFINE names == [k \in 1..Len(l) |-> l[k][1]]
           items == [k \in 1..Len(l) |-> l[k][2]]
<1>1. n \in 1..Top /\ AllResults(value, n - 1) /\ GoesOn(value) /\ n - 1 \in 0..Top
  BY SoundIs
<1>2. /\ ObjectOf(l) = Object(names, items)
      /\ \A p : ObjectOf(Append(l, p)) = Object(Append(names, p[1]), Append(items, p[2]))
  <2> HIDE DEF V
  <2> QED
    BY ObjectOfIs
<1> HIDE DEF names, items
<1>3. PICK name \in Names, m \in Nat \ {0}, k \in Nat \ {0}, v \in Values[n - 1], e \in Nat \ {0} :
        /\ get_quoted_string(s, j) = Got(String(name), m) /\ m > j
        /\ At(s, SKIP_WHITESPACES(s, m)) = ":" /\ k = SKIP_WHITESPACES(s, m) + 1 /\ k >= m + 1
        /\ ~Contains(names, name)
        /\ value[k] = Got(v, e) /\ v # Error
        /\ Continues(s, e, Object(Append(names, name), Append(items, v)), "RBRACE", r)
  <2>1. MemberWith(s, value, n, names, items, j, r)
    BY <1>1, <1>2, MemberStep DEF TurnOf, Built
  <2> QED
    BY <2>1, Zenon DEF MemberWith
<1> DEFINE p == <<name, v>>
           q == SKIP_WHITESPACES(s, m)
<1>4. k <= e
  BY <1>1, <1>3 DEF GoesOn, Got, Nothing
<1>5. e <= Len(s) + 1 /\ v \in Denoted[n - 1][Part(s, k, e)]
  BY <1>3, SkipNone DEF ValueMeans, ValueMean, Continues, White
<1>6. /\ IsPart(s, j + 1, m - 1) /\ m - 1 \in Nat /\ At(s, j) = "QUOTE" /\ At(s, m - 1) = "QUOTE"
      /\ name \in Spelt(Part(s, j + 1, m - 1))
  <2>1. get_quoted_string(s, j) # Nothing /\ String(name).chars = name
    BY <1>3 DEF Got, Nothing, String, Error, Value
  <2>2. PICK chars \in Strings, z \in Nat :
          /\ IsPart(s, j + 1, z) /\ z \in 1..Len(s) /\ At(s, z) = "QUOTE" /\ chars \in Spelt(Part(s, j + 1, z))
          /\ get_quoted_string(s, j) = Got(String(chars), z + 1)
    BY <2>1, QuotedMeans
  <2> QED
    BY <1>3, <2>1, <2>2, QuotedMeans DEF String, Value, Got
<1>7. q \in Nat /\ m <= q /\ AllWhite(s, m, q) /\ k = q + 1 /\ At(s, q) = ":"
  BY <1>3, SkipIs DEF AllWhite
<1> HIDE DEF q
<1>8. ASSUME NEW a \in Nat, NEW d \in Nat, IsPart(s, a, d), a <= j, e <= d, AllWhite(s, a, j), AllWhite(s, e, d)
       PROVE  p \in means[Part(s, a, d)]
  <2>1. IsPart(s, k, e) /\ IsPart(s, k, d) /\ AllWhite(s, k, k) /\ q < d /\ a <= q
    BY <1>3, <1>4, <1>5, <1>7, <1>8 DEF IsPart, AllWhite
  <2>2. v \in Denoted[n - 1][Part(s, k, d)]
    <3>1. e \in Nat /\ k \in Nat
      OBVIOUS
    <3>2. IsPart(s, k, e) /\ IsPart(s, k, d) /\ e <= d /\ AllWhite(s, e, d)
      BY <1>8, <2>1
    <3> QED
      BY <1>1, <1>5, <3>1, <3>2, PaddedAfter
  <2>3. m > j + 1
    BY <1>3, <1>6 DEF IsPart
  <2>4. PairAs(s, a, d, Denoted[n - 1], q, j, m, name, v)
    BY <1>3, <1>6, <1>7, <1>8, <2>1, <2>2, <2>3 DEF PairAs, Framed, White
  <2>5. p \in Pairs(Part(s, a, d), Denoted[n - 1])
    BY <1>8, <2>4, PairsBy
  <2> HIDE DEF p
  <2> QED
    BY <1>8, <2>5, PartIs DEF MemberMeaning
<1>9. Continues(s, e, Built("RBRACE", Append(l, p)), "RBRACE", r)
  <2>1. p[1] = name /\ p[2] = v
    OBVIOUS
  <2> HIDE DEF p
  <2> QED
    BY <1>2, <1>3, <2>1 DEF Built
<1>10. p \in V
  BY <1>3 DEF Names
<1> HIDE DEF p, means, V
<1> QED
  BY <1>3, <1>4, <1>8, <1>9, <1>10 DEF ItemMeans

\* parse_array_value and parse_object_value are what is after a bracket.
LEMMA BracketedIs ==
  ASSUME NEW s, NEW i, NEW value
  PROVE  /\ parse_array_value(s, i, value) = Bracketed(s, i, value, "]")
         /\ parse_object_value(s, i, value) = Bracketed(s, i, value, "RBRACE")
<1>1. ObjectOf(<<>>) = Object(<<>>, <<>>)
  BY DEF ObjectOf
<1> QED
  BY <1>1 DEF parse_array_value, parse_object_value, Bracketed, Built, Loop

\* Where a part begins.
LEMMA PartFirst ==
  ASSUME NEW s \in Strings, NEW i \in Nat, NEW x \in Nat, IsPart(s, i, x), i < x
  PROVE  Part(s, i, x) \in Strings /\ Part(s, i, x)[1] = At(s, i) /\ Len(Part(s, i, x)) = x - i /\ Holds(s, i, Part(s, i, x))
         /\ At(s, i) = s[i] /\ i \in 1..Len(s)
<1> DEFINE t == Part(s, i, x)
<1>1. t \in Strings /\ Len(t) = x - i /\ \A k \in 1..(x - i) : t[k] = s[i + k - 1] /\ t[k] = At(s, i + k - 1)
  BY PartIs
<1>2. i \in Nat \ {0} /\ x <= Len(s) + 1 /\ Len(s) \in Nat
  BY TextIs DEF IsPart
<1> HIDE DEF t
<1>3. t[1] = At(s, i)
  <2>1. 1 \in 1..(x - i) /\ i + 1 - 1 = i
    OBVIOUS
  <2> QED
    BY <1>1, <2>1
<1>4. Holds(s, i, t)
  <2>1. i + Len(t) - 1 <= Len(s)
    BY <1>1, <1>2
  <2> QED
    BY <1>1, <1>2, <2>1 DEF Holds
<1>5. i \in 1..Len(s)
  BY <1>2
<1> QED
  BY <1>1, <1>3, <1>4, <1>5, AtIs DEF t

\* What a text means is found, to its end.
LEMMA AnyReads ==
  ASSUME NEW s \in Strings, NEW n, NEW value, Sound(value, n), ValueReads(s, value, n - 1), NEW q \in Nat, NEW x \in Nat,
         IsPart(s, q, x), q < x, NEW v \in Meant(Part(s, q, x), Denoted[n - 1]), v.type = "number" => At(s, x) \notin Digits
  PROVE  parse_any_value(s, q, value) = Got(v, x) /\ At(s, q) \notin {"]", "RBRACE"}
<1> DEFINE t == Part(s, q, x)
           means == Denoted[n - 1]
<1>1. t \in Strings /\ t[1] = At(s, q) /\ Len(t) = x - q /\ Holds(s, q, t) /\ At(s, q) = s[q]
  BY PartFirst
<1>2. /\ \A open, close : Enclosed(t, open, close) <=> x > q + 1 /\ At(s, q) = open /\ At(s, x - 1) = close
      /\ x > q + 1 => IsPart(s, q + 1, x - 1) /\ Inner(t) = Part(s, q + 1, x - 1)
  BY EnclosedIs
<1>3. q + 1 \in Nat /\ x - 1 \in Nat /\ (x - 1) + 1 = x
  OBVIOUS
<1>4. v \in Meant(t, means)
  OBVIOUS
<1> HIDE DEF t, means
<1>5. ASSUME NEW c, t = <<c>> PROVE x = q + 1
  BY <1>1, <1>5
<1>6. CASE At(s, q) = "null"
  <2>1. t = <<"null">> /\ v = Null
    BY <1>1, <1>4, <1>6, MeantIs
  <2> QED
    BY <1>5, <1>6, <2>1, AnyIs
<1>7. CASE At(s, q) \in {"true", "false"}
  <2>1. t = <<t[1]>> /\ v = Boolean(t[1])
    BY <1>1, <1>4, <1>7, MeantIs
  <2> QED
    BY <1>1, <1>5, <1>7, <2>1, AnyIs
<1>8. CASE At(s, q) \in {"-"} \cup Digits
  <2>1. IsNumber(t) /\ v = Number(Rounded(t))
    BY <1>1, <1>4, <1>8, MeantIs
  <2>2. q + Len(t) = x
    BY <1>1
  <2>3. v.type = "number"
    BY <2>1, ValueFields
  <2>4. parse_number_value(s, q) = Got(Number(Rounded(t)), x)
    BY <1>1, <2>1, <2>2, <2>3, NumberRead
  <2> QED
    BY <1>8, <2>1, <2>4, AnyIs DEF Digits
<1>9. CASE At(s, q) = "QUOTE"
  <2>1. Enclosed(t, "QUOTE", "QUOTE") /\ \E chars \in Spelt(Inner(t)) : v = String(chars)
    BY <1>1, <1>4, <1>9, MeantIs
  <2>2. PICK chars \in Spelt(Part(s, q + 1, x - 1)) : v = String(chars)
    BY <1>2, <2>1
  <2>3. At(s, x - 1) = "QUOTE" /\ IsPart(s, q + 1, x - 1)
    BY <1>2, <2>1
  <2>4. get_quoted_string(s, q) = Got(String(chars), x)
    BY <1>3, <1>9, <2>3, QuotedReads
  <2> QED
    BY <1>9, <2>2, <2>4, AnyIs
<1>10. CASE At(s, q) = "["
  <2>1. Enclosed(t, "[", "]") /\ \E l \in Lists(Inner(t), means) : v = Array(l)
    BY <1>1, <1>4, <1>10, MeantIs
  <2>2. At(s, x - 1) = "]" /\ IsPart(s, q + 1, x - 1) /\ Inner(t) = Part(s, q + 1, x - 1)
    BY <1>2, <2>1
  <2>3. PICK l \in Lists(Part(s, q + 1, x - 1), means) : v = Array(l)
    BY <2>1, <2>2
  <2>4. TurnReads(s, q + 1, x - 1, value, "]", means, Values[n - 1])
    BY <1>3, <2>2, ElementReads DEF means
  <2>5. Lawful("]", l)
    BY DEF Lawful
  <2>6. Bracketed(s, SKIP_WHITESPACES(s, q + 1), value, "]") = Got(Built("]", l), (x - 1) + 1)
    BY <1>3, <2>2, <2>4, <2>5, ListRead
  <2> QED
    BY <1>3, <1>10, <2>3, <2>6, AnyIs, BracketedIs DEF Built
<1>11. CASE At(s, q) = "LBRACE"
  <2>1. Enclosed(t, "LBRACE", "RBRACE") /\ \E l \in Lists(Inner(t), MemberMeaning(means)) : Distinct(l) /\ v = ObjectOf(l)
    BY <1>1, <1>4, <1>11, MeantIs
  <2>2. At(s, x - 1) = "RBRACE" /\ IsPart(s, q + 1, x - 1) /\ Inner(t) = Part(s, q + 1, x - 1)
    BY <1>2, <2>1
  <2>3. PICK l \in Lists(Part(s, q + 1, x - 1), MemberMeaning(means)) : Distinct(l) /\ v = ObjectOf(l)
    BY <2>1, <2>2
  <2>4. TurnReads(s, q + 1, x - 1, value, "RBRACE", MemberMeaning(means), Strings \X Values[n - 1])
    BY <1>3, <2>2, MemberReads DEF means
  <2>5. Lawful("RBRACE", l)
    BY <2>3 DEF Lawful
  <2>6. Bracketed(s, SKIP_WHITESPACES(s, q + 1), value, "RBRACE") = Got(Built("RBRACE", l), (x - 1) + 1)
    BY <1>3, <2>2, <2>4, <2>5, ListRead
  <2> QED
    BY <1>3, <1>11, <2>3, <2>6, AnyIs, BracketedIs DEF Built
<1>12. At(s, q) \in {"null", "true", "false", "[", "LBRACE", "QUOTE", "-"} \cup Digits
  BY <1>1, <1>4, MeantIs
<1> QED
  BY <1>6, <1>7, <1>8, <1>9, <1>10, <1>11, <1>12

\* The pairs of an object that the parser makes are those of one.
LEMMA ObjectDistinct ==
  ASSUME NEW n \in 1..Top, NEW V, NEW l \in Seq(V), ObjectOf(l) \in Values[n]
  PROVE  Distinct(l)
<1> DEFINE names == [k \in 1..Len(l) |-> l[k][1]]
           items == [k \in 1..Len(l) |-> l[k][2]]
<1>1. ObjectOf(l) = Object(names, items)
  BY ObjectOfIs
<1>2. Distinct(l) <=> IsInjective(names) /\ \A k \in 1..Len(l) : l[k][1] \in Names
  BY ObjectOfIs
<1>3. \A k \in 1..Len(l) : names[k] = l[k][1]
  OBVIOUS
<1>4. DOMAIN names = 1..Len(l) /\ Len(l) \in Nat
  OBVIOUS
<1> HIDE DEF names, items
<1>5. Object(names, items).type = "object" /\ Object(names, items).names = names
  BY ValueFields
<1>6. PICK m \in Seq(Names), w \in Seq(Values[n - 1]) : Object(names, items) = Object(m, w) /\ IsInjective(m)
  <2>1. ~IsPlain(Object(names, items)) /\ ~IsArrayOf(Object(names, items), n)
    BY <1>5, ValueFields DEF IsPlain, IsArrayOf, Null, Boolean, Number, String, Array, Value
  <2>2. IsObjectIn(Object(names, items), n)
    BY <1>1, <2>1, ValuesBy
  <2> QED
    BY <2>2 DEF IsObjectIn
<1>7. names = m
  BY <1>6 DEF Object, Value
<1>8. \A k \in 1..Len(l) : names[k] \in Names
  BY <1>4, <1>7
<1> QED
  BY <1>2, <1>3, <1>6, <1>7, <1>8

\* A text from i up to e, without blanks around it, that means v.
Means(s, n, i, v, e) ==
  /\ e \in Nat /\ e <= Len(s) + 1 /\ i < e /\ At(s, i) \notin White /\ At(s, e - 1) \notin White
  /\ v \in Meant(Part(s, i, e), Denoted[n - 1])

\* What is found between brackets means what the grammar says.
LEMMA BracketMeans ==
  ASSUME NEW s \in Strings, NEW n, NEW value, Sound(value, n), ValueMeans(s, value, n - 1), NEW i \in Nat \ {0},
         NEW open, NEW bracket \in {"]", "RBRACE"}, open = IF bracket = "]" THEN "[" ELSE "LBRACE",
         At(s, i) = open, parse_any_value(s, i, value) # Nothing
  PROVE  \E v, e : parse_any_value(s, i, value) = Got(v, e) /\ Means(s, n, i, v, e)
<1> DEFINE b == Bracketed(s, SKIP_WHITESPACES(s, i + 1), value, bracket)
           V == IF bracket = "]" THEN Values[n - 1] ELSE Strings \X Values[n - 1]
           means == IF bracket = "]" THEN Denoted[n - 1] ELSE MemberMeaning(Denoted[n - 1])
<1>1. n \in 1..Top /\ AllResults(value, n - 1) /\ i + 1 \in Nat \ {0} /\ i \in Nat
  BY SoundIs
<1>2. parse_any_value(s, i, value) = b
  BY AnyIs, BracketedIs
<1>3. TurnMeans(s, value, bracket, means, V)
  BY ElementMeans, MemberMeans
<1> HIDE DEF V, means
<1>4. PICK z \in Nat, l \in Seq(V) :
        /\ IsPart(s, i + 1, z) /\ z \in 1..Len(s) /\ At(s, z) = bracket /\ l \in Lists(Part(s, i + 1, z), means)
        /\ b = Got(Built(bracket, l), z + 1)
  BY <1>1, <1>2, <1>3, ListMeans
<1> HIDE DEF b
<1> DEFINE v == Built(bracket, l)
           e == z + 1
           t == Part(s, i, e)
<1>5. /\ e \in Nat /\ e <= Len(s) + 1 /\ i < e /\ e > i + 1 /\ e - 1 = z /\ IsPart(s, i, e)
      /\ At(s, i) \notin White /\ At(s, e - 1) \notin White
  BY <1>1, <1>4, TextIs DEF IsPart, White
<1> HIDE DEF e
<1>6. t \in Strings /\ t[1] = open
  BY <1>1, <1>5, PartFirst
<1>7. Enclosed(t, open, bracket) /\ Inner(t) = Part(s, i + 1, z)
  BY <1>1, <1>4, <1>5, EnclosedIs
<1> HIDE DEF t
<1>8. v \in Meant(t, Denoted[n - 1])
  <2>1. CASE bracket = "RBRACE"
    <3>1. v = ObjectOf(l)
      BY <2>1 DEF Built
    <3>2. ObjectOf(l) \in Values[n]
      <4>1. PICK w \in Values[n], j \in Nat \ {0} : Got(v, e) = Got(w, j)
        BY <1>1, <1>2, <1>4, <1>5, AnyTyped, SMTT(30) DEF IsResult, e, Got, Nothing
      <4> QED
        BY <3>1, <4>1 DEF Got
    <3>3. Distinct(l)
      BY <1>1, <3>2, ObjectDistinct
    <3> QED
      BY <1>4, <1>6, <1>7, <2>1, <3>1, <3>3, MeantIs DEF means
  <2> QED
    BY <1>4, <1>6, <1>7, <2>1, MeantIs DEF Built, means
<1> QED
  BY <1>2, <1>4, <1>5, <1>8 DEF e, Means, t

\* All that parse_value finds means what the grammar says, but for a sign.
LEMMA AnyMeans ==
  ASSUME NEW s \in Strings, NEW n, NEW value, Sound(value, n), ValueMeans(s, value, n - 1), NEW i \in Nat \ {0},
         parse_any_value(s, i, value) # Nothing
  PROVE  \E v, e : parse_any_value(s, i, value) = Got(v, e) /\ ((v.type = "number" /\ At(s, e) = "-") \/ Means(s, n, i, v, e))
<1> DEFINE means == Denoted[n - 1]
<1>1. i \in Nat /\ i + 1 \in Nat /\ (i + 1) - 1 = i /\ Len(s) \in Nat /\ (i + 1) - i = 1
  BY TextIs
<1>2. At(s, i) # "NUL" => i \in 1..Len(s) /\ At(s, i) = s[i]
  BY <1>1, AtIs
<1> HIDE DEF means
<1>3. ASSUME NEW v, At(s, i) \in {"null", "true", "false"}, v = IF At(s, i) = "null" THEN Null ELSE Boolean(At(s, i))
      PROVE  Means(s, n, i, v, i + 1)
  <2>1. At(s, i) \notin White /\ i \in 1..Len(s) /\ IsPart(s, i, i + 1) /\ i + 1 <= Len(s) + 1 /\ i < i + 1
    BY <1>1, <1>3, <1>2 DEF IsPart, White
  <2> DEFINE t == Part(s, i, i + 1)
  <2>2. t \in Strings /\ t[1] = At(s, i) /\ Len(t) = 1
    BY <1>1, <2>1, PartFirst
  <2> HIDE DEF t
  <2>3. v \in Meant(t, means)
    BY <1>3, <2>2, MeantIs DEF Strings
  <2> QED
    BY <1>1, <2>1, <2>3 DEF Means, t, means
<1>4. CASE At(s, i) \in {"true", "false"}
  BY <1>3, <1>4, <1>2, AnyIs
<1>5. CASE At(s, i) \in {"-"} \cup Digits
  <2>1. parse_any_value(s, i, value) = parse_number_value(s, i) /\ i \in 1..Len(s)
    BY <1>5, <1>2, AnyIs DEF Digits
  <2>2. PICK t \in Strings, e \in i..(Len(s) + 1) :
          /\ IsNumber(t) /\ parse_number_value(s, i) = Got(Number(Rounded(t)), e)
          /\ (e = i /\ At(s, i) = "-") \/ (e > i /\ t = SubSeq(s, i, e - 1))
    BY <1>5, <2>1, NumberMade
  <2>3. CASE e = i /\ At(s, i) = "-"
    <3>1. Number(Rounded(t)).type = "number"
      BY ValueFields
    <3> QED
      BY <2>1, <2>2, <2>3, <3>1
  <2>4. CASE e > i /\ t = SubSeq(s, i, e - 1)
    <3>1. IsPart(s, i, e) /\ e \in Nat /\ e <= Len(s) + 1 /\ i < e /\ t = Part(s, i, e) /\ At(s, i) \notin White
          /\ e - i \in 1..(e - i) /\ i + (e - i) - 1 = e - 1
      BY <1>1, <1>5, <2>2, <2>4 DEF IsPart, Part, Digits, White
    <3>2. t[1] = At(s, i) /\ Len(t) = e - i /\ t[e - i] = At(s, e - 1)
      <4>1. Part(s, i, e)[1] = At(s, i) /\ Len(Part(s, i, e)) = e - i
        BY <1>1, <3>1, PartFirst, ZenonT(30)
      <4>2. \A k \in 1..(e - i) : Part(s, i, e)[k] = At(s, i + k - 1)
        BY <1>1, <3>1, PartIs
      <4> QED
        BY <3>1, <4>1, <4>2
    <3>3. Means(s, n, i, Number(Rounded(t)), e)
      BY <1>5, <2>2, <3>1, <3>2, MeantIs, NumberStarts DEF Means, means, Digits, White
    <3> QED
      BY <2>1, <2>2, <3>3
  <2> QED
    BY <2>2, <2>3, <2>4
<1>6. CASE At(s, i) = "QUOTE"
  <2>1. parse_any_value(s, i, value) = get_quoted_string(s, i)
    BY <1>6, AnyIs
  <2>2. PICK chars \in Strings, z \in Nat :
          /\ IsPart(s, i + 1, z) /\ z \in 1..Len(s) /\ At(s, z) = "QUOTE" /\ chars \in Spelt(Part(s, i + 1, z))
          /\ get_quoted_string(s, i) = Got(String(chars), z + 1)
    BY <1>1, <2>1, QuotedMeans
  <2> DEFINE e == z + 1
             t == Part(s, i, e)
  <2>3. /\ e \in Nat /\ e <= Len(s) + 1 /\ i < e /\ e > i + 1 /\ e - 1 = z /\ IsPart(s, i, e)
        /\ At(s, i) \notin White /\ At(s, e - 1) \notin White
    BY <1>1, <1>6, <2>2 DEF IsPart, White
  <2> HIDE DEF e
  <2>4. t \in Strings /\ t[1] = "QUOTE"
    BY <1>1, <1>6, <2>3, PartFirst
  <2>5. Enclosed(t, "QUOTE", "QUOTE") /\ Inner(t) = Part(s, i + 1, z)
    BY <1>1, <1>6, <2>2, <2>3, EnclosedIs
  <2> HIDE DEF t
  <2> QED
    BY <2>1, <2>2, <2>3, <2>4, <2>5, MeantIs DEF e, Means, t, means
<1>7. At(s, i) \in {"LBRACE", "[", "QUOTE", "true", "false", "null"} \cup ({"-"} \cup Digits)
  BY AnyIs
<1> QED
  BY <1>3, <1>4, <1>5, <1>6, <1>7, BracketMeans, AnyIs

\* At every level the parser finds all that the grammar has, and nothing else.
LEMMA FoundAsWritten ==
  ASSUME NEW s \in Strings
  PROVE  \A n \in 0..Top : ValueReads(s, Found(s)[n], n) /\ ValueMeans(s, Found(s)[n], n)
<1> DEFINE G == {n \in 0..Top : ValueReads(s, Found(s)[n], n) /\ ValueMeans(s, Found(s)[n], n)}
<1>1. Top \in Nat /\ 0 \in 0..Top
  BY NestingAssumption DEF Top
<1>2. \A c \in Nat \ {0} : /\ c \in Nat /\ SKIP_WHITESPACES(s, c) \in Nat \ {0} /\ c <= SKIP_WHITESPACES(s, c)
                           /\ At(s, SKIP_WHITESPACES(s, c)) \notin White /\ AllWhite(s, c, SKIP_WHITESPACES(s, c))
                           /\ SKIP_WHITESPACES(s, SKIP_WHITESPACES(s, c)) = SKIP_WHITESPACES(s, c)
  <2> TAKE c \in Nat \ {0}
  <2>1. /\ SKIP_WHITESPACES(s, c) \in Nat /\ c <= SKIP_WHITESPACES(s, c) /\ At(s, SKIP_WHITESPACES(s, c)) \notin White
        /\ AllWhite(s, c, SKIP_WHITESPACES(s, c))
    BY SkipIs DEF AllWhite
  <2>2. SKIP_WHITESPACES(s, SKIP_WHITESPACES(s, c)) = SKIP_WHITESPACES(s, c)
    BY <2>1, SkipNone
  <2> QED
    BY <2>1, <2>2
<1>3. 0 \in G
  <2>1. \A i \in Nat : Found(s)[0][i] = Nothing
    BY FoundIs
  <2>2. \A c, d \in Nat : IsPart(s, c, d) => Denoted[0][Part(s, c, d)] = {}
    BY PartIs, DenotedIs
  <2>3. ValueReads(s, Found(s)[0], 0)
    BY <1>2, <2>1, <2>2 DEF ValueReads
  <2>4. ValueMeans(s, Found(s)[0], 0)
    BY <2>1 DEF ValueMeans, Nothing, Got
  <2> QED
    BY <1>1, <2>3, <2>4
<1>4. ASSUME NEW n \in 1..Top, n - 1 \in G PROVE n \in G
  <2> DEFINE value == Found(s)[n - 1]
             any(i) == parse_any_value(s, i, value)
  <2>1. ValueReads(s, value, n - 1) /\ ValueMeans(s, value, n - 1) /\ n \in 0..Top /\ n - 1 \in 0..Top
    BY <1>1, <1>4
  <2>2. Sound(value, n)
    BY <2>1, FoundTyped, FoundGoesOn DEF Sound
  <2>3. \A i \in Nat : Found(s)[n][i] = any(SKIP_WHITESPACES(s, i))
    BY FoundIs
  <2> HIDE DEF value
  <2>4. ASSUME NEW c \in Nat, NEW d \in Nat, IsPart(s, c, d), NEW v \in Denoted[n][Part(s, c, d)], v.type = "number" => At(s, d) \notin Digits
        PROVE  ValueRead(s, Found(s)[n], c, d, v)
    <3>1. PICK q, x \in Nat : Framed(s, c, d, q, x) /\ v \in Meant(Part(s, q, x), Denoted[n - 1])
      BY <2>4, DenotedBy
    <3>2. /\ q < x /\ x <= d /\ AllWhite(s, x, d) /\ At(s, q) \notin White /\ c <= q /\ AllWhite(s, c, q) /\ c <= x
          /\ IsPart(s, q, x) /\ (v.type = "number" => At(s, x) \notin Digits) /\ c \in Nat \ {0}
      BY <2>4, <3>1 DEF Framed, IsPart, AllWhite, White, Digits
    <3>3. any(q) = Got(v, x) /\ At(s, q) \notin {"]", "RBRACE"}
      BY <2>1, <2>2, <3>1, <3>2, AnyReads
    <3>4. SKIP_WHITESPACES(s, c) = q
      BY <3>2, ReadEnd
    <3>5. Found(s)[n][c] = Got(v, x)
      BY <2>3, <3>3, <3>4
    <3> QED
      BY <3>2, <3>3, <3>4, <3>5 DEF ValueRead
  <2>5. ASSUME NEW c \in Nat \ {0}, NEW v, NEW e, Found(s)[n][c] = Got(v, e), v # Error
        PROVE  ValueMean(s, n, c, v, e)
    <3> DEFINE i == SKIP_WHITESPACES(s, c)
    <3>1. c \in Nat /\ i \in Nat \ {0} /\ c <= i /\ AllWhite(s, c, i)
      BY <1>2
    <3> HIDE DEF i
    <3>2. any(i) = Got(v, e) /\ any(i) # Nothing
      BY <2>3, <2>5, <3>1 DEF i, Got, Nothing
    <3>3. PICK w, f : any(i) = Got(w, f) /\ ((w.type = "number" /\ At(s, f) = "-") \/ Means(s, n, i, w, f))
      BY <2>1, <2>2, <3>1, <3>2, AnyMeans
    <3>4. w = v /\ f = e
      BY <3>2, <3>3 DEF Got
    <3>5. CASE Means(s, n, i, v, e)
      <4>1. /\ e \in Nat /\ e <= Len(s) + 1 /\ i < e /\ At(s, i) \notin White /\ At(s, e - 1) \notin White
            /\ v \in Meant(Part(s, i, e), Denoted[n - 1])
        BY <3>5, Zenon DEF Means
      <4>2. IsPart(s, c, e) /\ Framed(s, c, e, i, e)
        BY <3>1, <4>1 DEF IsPart, Framed, AllWhite
      <4>3. v \in Denoted[n][Part(s, c, e)]
        BY <3>1, <4>1, <4>2, DenotedBy
      <4> QED
        BY <4>1, <4>3 DEF ValueMean
    <3> QED
      BY <3>3, <3>4, <3>5 DEF ValueMean
  <2>6. \A c \in Nat \ {0} : Found(s)[n][SKIP_WHITESPACES(s, c)] = Found(s)[n][c]
    BY <1>2, <2>3
  <2>7. ValueReads(s, Found(s)[n], n) /\ ValueMeans(s, Found(s)[n], n)
    BY <2>4, <2>5, <2>6, Zenon DEF ValueReads, ValueMeans
  <2> QED
    BY <2>1, <2>7
<1> HIDE DEF G
<1>5. 0..Top \subseteq G
  BY <1>1, <1>3, <1>4, Inductive
<1> QED
  BY <1>5 DEF G

\* parse_value reads a text to its end exactly when the text is one of the
\* language, and then as the one value that the grammar gives it: for every text,
\* of every length and depth.
THEOREM ReadsAsWritten ==
  ASSUME NEW t \in Strings
  PROVE  ReadAsWritten(t)
<1> DEFINE read == parse_value(t, 1, 0)
           end == Len(t) + 1
           D == Denoted[Top][t]
           whole == read # Nothing /\ Blank(SubSeq(t, read.next, Len(t)))
<1>1. Top \in 1..Top /\ Top \in 0..Top /\ Top = MAX_NESTING + 1 - 0 /\ Top = MAX_NESTING + 1
  BY NestingAssumption DEF Top
<1>2. /\ IsPart(t, 1, end) /\ Part(t, 1, end) = t /\ end \in Nat /\ end - 1 = Len(t) /\ Len(t) \in Nat
      /\ At(t, end) \notin Digits /\ At(t, end) = "NUL"
  <2>1. end \in Nat /\ end - 1 = Len(t) /\ Len(t) \in Nat /\ end \notin 1..Len(t)
    BY TextIs
  <2> QED
    BY <2>1, PartWhole, AtIs DEF Digits
<1>3. read = Found(t)[Top][1]
  BY <1>1, Zenon DEF parse_value
<1>4. IsResult(read, Top)
  BY <1>1, <1>3, FoundTyped DEF AllResults
<1>5. ValueReads(t, Found(t)[Top], Top) /\ ValueMeans(t, Found(t)[Top], Top)
  BY <1>1, FoundAsWritten
<1>6. \A e \in Nat : IsPart(t, e, end) => (Blank(SubSeq(t, e, Len(t))) <=> AllWhite(t, e, end))
  BY <1>2, BlankIs DEF Part
<1> HIDE DEF read, end
<1>7. ASSUME NEW v \in D PROVE whole /\ v = read.value
  <2>1. ValueRead(t, Found(t)[Top], 1, end, v)
    BY <1>2, <1>5 DEF ValueReads
  <2>2. PICK e \in Nat : read = Got(v, e) /\ 1 <= e /\ e <= end /\ AllWhite(t, e, end)
    BY <1>3, <2>1 DEF ValueRead
  <2>3. IsPart(t, e, end)
    BY <1>2, <2>2 DEF IsPart
  <2>4. read # Nothing /\ read.next = e /\ read.value = v
    BY <2>2 DEF Got, Nothing
  <2> QED
    BY <1>6, <2>2, <2>3, <2>4
<1>8. ASSUME whole PROVE read.value \in D
  <2>1. PICK v \in Values[Top], e \in Nat \ {0} : read = Got(v, e)
    BY <1>4, <1>8 DEF IsResult
  <2>2. v # Error /\ read.value = v /\ read.next = e
    BY <1>1, <2>1, ValuesNoError DEF Got
  <2>3. ValueMean(t, Top, 1, v, e)
    <3>1. Found(t)[Top][1] = Got(v, e) /\ v # Error /\ 1 \in Nat \ {0}
      BY <1>3, <2>1, <2>2
    <3> QED
      BY <1>5, <3>1, Zenon DEF ValueMeans
  <2>4. e <= end => IsPart(t, e, end) /\ AllWhite(t, e, end) /\ IsPart(t, 1, e)
    BY <1>2, <1>6, <1>8, <2>2 DEF IsPart
  <2>5. At(t, e) # "-"
    <3>1. SUFFICES ASSUME At(t, e) = "-" PROVE FALSE
      OBVIOUS
    <3>2. e \in 1..Len(t)
      BY <3>1, AtIs
    <3>3. e \in e..(end - 1) /\ e <= end
      BY <1>2, <3>2
    <3> QED
      BY <2>4, <3>1, <3>3 DEF AllWhite, White
  <2>6. e <= end /\ v \in Denoted[Top][Part(t, 1, e)]
    BY <2>3, <2>5 DEF ValueMean, end
  <2>7. AllWhite(t, 1, 1) /\ 1 \in Nat
    BY DEF AllWhite
  <2> QED
    BY <1>1, <1>2, <2>2, <2>4, <2>6, <2>7, Padded
<1>9. D = IF whole THEN {read.value} ELSE {}
  <2> HIDE DEF D, whole
  <2> QED
    BY <1>7, <1>8
<1> QED
  BY <1>1, <1>9 DEF ReadAsWritten, read

\* p is the beginning of s.
Starts(p, s) == Len(p) <= Len(s) /\ \A k \in 1..Len(p) : p[k] = s[k]

\* A text of which the beginning is a value is that value, unless it is a number.
THEOREM ReadEarly ==
  ASSUME NEW p \in Strings, NEW s \in Strings, Starts(p, s),
         json_parse_string(p).type \notin {"error", "number"}
  PROVE  json_parse_string(s) = json_parse_string(p)
<1> DEFINE q == Start(p)
<1>1. Top \in 0..Top /\ Top = MAX_NESTING + 1 - 0 /\ q \in Nat \ {0}
  BY NestingAssumption DEF Top, Start
<1>2. \A t \in Strings : /\ json_parse_string(t) = Found(t)[Top][Start(t)].value
                         /\ IsResult(Found(t)[Top][Start(t)], Top)
  BY <1>1, ParsedIs, Zenon DEF parse_value
<1>3. PICK v \in Values[Top], e \in Nat \ {0} : Found(p)[Top][q] = Got(v, e)
  <2>1. Found(p)[Top][q] # Nothing
    BY <1>2 DEF Nothing, Got, Error, Value
  <2> QED
    BY <1>2, <2>1, Zenon DEF IsResult
<1>4. v # Error /\ json_parse_string(p) = v
  BY <1>1, <1>2, <1>3, ValuesNoError DEF Got
<1> HIDE DEF q
<1>5. e <= Len(p) + 1 /\ v \in Denoted[Top][Part(p, q, e)]
  <2>1. ValueMean(p, Top, q, v, e)
    BY <1>1, <1>3, <1>4, FoundAsWritten, Zenon DEF ValueMeans
  <2> QED
    BY <1>4, <2>1, Zenon DEF ValueMean
<1>6. q \in 1..Len(p) /\ q <= e
  BY <1>1, <1>3, <1>4, FoundGoesOn DEF GoesOn, Inside, Nothing, Got
<1>7. Part(p, q, e) = Part(s, q, e) /\ IsPart(s, q, e)
  <2>1. Len(p) \in Nat /\ Len(s) \in Nat /\ e - 1 \in 0..Len(p) /\ e - 1 \in 0..Len(s)
        /\ q \in 1..(Len(p) + 1) /\ q \in 1..(Len(s) + 1) /\ q + (e - 1 - q + 1) - 1 = e - 1
    BY <1>1, <1>5, <1>6, TextIs DEF Starts
  <2>2. \A k \in 1..(e - 1 - q + 1) : q + k - 1 \in 1..Len(p)
    BY <2>1
  <2>3. \A k \in 1..(e - 1 - q + 1) : SubSeq(p, q, e - 1)[k] = SubSeq(s, q, e - 1)[k]
    BY <2>1, <2>2, SubIs DEF Starts
  <2> DEFINE x == SubSeq(p, q, e - 1)
             y == SubSeq(s, q, e - 1)
  <2>4. Len(x) = e - 1 - q + 1 \/ (Len(x) = 0 /\ e - 1 - q + 1 = 0)
    BY <1>1, <1>6, <2>1, SubIs
  <2>5. x \in Strings /\ y \in Strings /\ Len(x) = Len(y) /\ \A k \in 1..Len(x) : x[k] = y[k]
    <3>1. x \in Strings /\ y \in Strings /\ Len(x) = Len(y)
      BY <2>1, SubIs
    <3>2. \A k \in 1..Len(x) : k \in 1..(e - 1 - q + 1)
      BY <1>1, <2>4
    <3> QED
      BY <2>3, <3>1, <3>2
  <2> HIDE DEF x, y
  <2>6. x = y
    BY <2>5, SeqEqual DEF Strings
  <2> QED
    BY <1>1, <1>6, <2>1, <2>6 DEF Part, IsPart, x, y
<1>8. ValueRead(s, Found(s)[Top], q, e, v)
  <2>1. ValueReads(s, Found(s)[Top], Top)
    BY <1>1, FoundAsWritten
  <2> QED
    BY <1>1, <1>4, <1>5, <1>7, <2>1 DEF ValueReads
<1>9. Start(s) = q
  BY <1>6, TextIs DEF q, Start, At, Starts
<1> QED
  BY <1>2, <1>4, <1>8, <1>9 DEF ValueRead, Got

-----------------------------------------------------------------------------
(* The text that is written for a value is one that the grammar gives it.  *)

\* A text that is held is a part.
LEMMA HoldsPart ==
  ASSUME NEW s \in Strings, NEW i, NEW t \in Strings, Holds(s, i, t)
  PROVE  Part(s, i, i + Len(t)) = t /\ IsPart(s, i, i + Len(t)) /\ Len(t) \in Nat
<1>1. i \in Nat \ {0} /\ Len(t) \in Nat /\ i + Len(t) - 1 <= Len(s) /\ \A k \in 1..Len(t) : s[i + k - 1] = t[k]
  BY TextIs DEF Holds
<1>2. IsPart(s, i, i + Len(t)) /\ i + Len(t) \in Nat /\ (i + Len(t)) - i = Len(t)
  BY <1>1, TextIs DEF IsPart
<1>3. /\ Part(s, i, i + Len(t)) \in Strings /\ Len(Part(s, i, i + Len(t))) = Len(t)
      /\ \A k \in 1..Len(t) : Part(s, i, i + Len(t))[k] = s[i + k - 1]
  BY <1>1, <1>2, PartIs
<1>4. Part(s, i, i + Len(t)) = t
  <2> DEFINE part == Part(s, i, i + Len(t))
  <2>1. part \in Seq(Symbols) /\ t \in Seq(Symbols) /\ Len(part) = Len(t)
    BY <1>3 DEF Strings
  <2>2. \A k \in 1..Len(t) : part[k] = t[k]
    BY <1>1, <1>3
  <2> HIDE DEF part
  <2>3. part = t
    BY <2>1, <2>2
  <2> QED
    BY <2>3 DEF part
<1> QED
  BY <1>1, <1>2, <1>4

\* The text s is three texts, one after the other.
Three(s, a, b, c) ==
  /\ s \in Strings /\ Len(s) = Len(a) + Len(b) + Len(c) /\ Len(a) \in Nat /\ Len(b) \in Nat /\ Len(c) \in Nat
  /\ Holds(s, 1, a) /\ Holds(s, 1 + Len(a), b) /\ Holds(s, 1 + Len(a) + Len(b), c)

\* Texts that are put one after the other are.
LEMMA ThreeHeld ==
  ASSUME NEW a \in Strings, NEW b \in Strings, NEW c \in Strings
  PROVE  Three(a \o b \o c, a, b, c)
<1> DEFINE s == a \o b \o c
<1>1. a \o b \in Strings /\ Len(a \o b) = Len(a) + Len(b) /\ Len(a) \in Nat /\ Len(b) \in Nat /\ Len(c) \in Nat
  BY DEF Strings
<1>2. s \in Strings /\ Len(s) = Len(a) + Len(b) + Len(c)
  BY <1>1 DEF Strings
<1> HIDE DEF s
<1>3. 1 + Len(a \o b) = 1 + Len(a) + Len(b)
  BY <1>1
<1> QED
  BY <1>1, <1>2, <1>3, HoldsSplit, HoldsWhole DEF Three, s

\* A text that neither begins nor ends with a blank.
Tight(t) == t \in Strings /\ t # <<>> /\ t[1] \notin White /\ t[Len(t)] \notin White

\* What such a text means it denotes.
LEMMA TightDenotes ==
  ASSUME NEW t, Tight(t), NEW n \in 1..Top, NEW v \in Meant(t, Denoted[n - 1])
  PROVE  v \in Denoted[n][t]
<1> DEFINE z == Len(t) + 1
<1> HIDE DEF z
<1> QED
  BY DenotedBy, PartWhole, AtIs DEF Framed, AllWhite, Tight, Strings

\* A text between brackets.
Bracket(s, a, t, b) == Tight(s) /\ s[1] = a /\ Enclosed(s, a, b) /\ Inner(s) = t

\* Brackets around a text make it one.
LEMMA BracketTight ==
  ASSUME NEW t \in Strings, NEW a \in Symbols \ White, NEW b \in Symbols \ White
  PROVE  Bracket(<<a>> \o t \o <<b>>, a, t, b)
<1> DEFINE s == <<a>> \o t \o <<b>>
<1>1. <<a>> \in Strings /\ <<b>> \in Strings /\ Len(<<a>>) = 1 /\ Len(<<b>>) = 1 /\ <<a>>[1] = a /\ <<b>>[1] = b
      /\ <<a>> # <<>> /\ <<b>> # <<>> /\ Len(t) \in Nat
  BY DEF Strings
<1>2. /\ s \in Strings /\ Len(s) = 1 + Len(t) + 1 /\ Len(t) \in Nat
      /\ Holds(s, 1, <<a>>) /\ Holds(s, 1 + 1, t) /\ Holds(s, 1 + 1 + Len(t), <<b>>)
  <2> DEFINE x == <<a>>
             y == <<b>>
  <2>1. x \in Strings /\ y \in Strings /\ s = x \o t \o y /\ Len(x) = 1 /\ Len(y) = 1
    BY <1>1
  <2> HIDE DEF x, y, s
  <2> QED
    BY <1>1, <2>1, ThreeHeld DEF x, y, Three
<1> HIDE DEF s
<1>3. Len(s) = Len(t) + 2 /\ 1 + 1 + Len(t) = Len(s) /\ 1 + 1 = 2 /\ Len(s) - 1 = 2 + Len(t) - 1 /\ 1 \in 1..Len(s)
      /\ Len(s) \in 1..Len(s) /\ Len(s) > 1
  BY <1>2
<1>4. Part(s, 2, 2 + Len(t)) = t
  BY <1>2, <1>3, HoldsPart
<1> QED
  BY <1>1, <1>2, <1>3, <1>4, AtIs, HoldsFirst DEF Bracket, Tight, Enclosed, s, Inner, Part

\* What is written for a list, with commas between the items, is a list by the grammar.
LEMMA JoinedLists ==
  ASSUME NEW texts \in Seq(Strings), NEW means, NEW V, NEW l \in Seq(V), Len(l) = Len(texts),
         \A k \in 1..Len(l) : l[k] \in means[texts[k]]
  PROVE  Joined(texts) \in Strings /\ l \in Lists(Joined(texts), means)
<1> DEFINE n == Len(texts)
           ss == Parts(texts)
           s == Joined(texts)
           z == Len(s) + 1
<1>1. n \in Nat /\ n = Len(l) /\ 0 \in 0..n /\ \A k \in 1..n : k - 1 \in 0..n /\ k \in 0..n /\ texts[k] \in Strings
  OBVIOUS
<1>2. /\ ss \in Seq(Strings) /\ Len(ss) = n
      /\ \A k \in 1..n : ss[k] = IF k = n THEN texts[k] ELSE texts[k] \o <<"COMMA">>
  BY JoinedIs
<1>3. PICK g \in [0..n -> Strings] : Glued(ss, g) /\ s = g[n]
  BY JoinedIs
<1> HIDE DEF n, ss, s
<1>4. s \in Strings /\ IsPart(s, 1, z) /\ Part(s, 1, z) = s /\ z \in Nat \ {0} /\ g[0] = <<>>
  BY <1>1, <1>3, PartWhole, TextIs DEF Glued
<1> DEFINE c == [k \in 1..(n + 1) |-> 1 + Len(g[k - 1])]
           d == [k \in 1..n |-> c[k] + Len(texts[k])]
<1>5. \A k \in 1..n : c[k] = 1 + Len(g[k - 1]) /\ d[k] = c[k] + Len(texts[k])
  BY <1>1
<1>6. c[1] = 1 /\ \A k \in 1..n : c[k + 1] = 1 + Len(g[k])
  BY <1>1, <1>4
<1> HIDE DEF z, c, d
<1>7. ASSUME NEW k \in 1..n
      PROVE  /\ c[k] \in Nat /\ d[k] \in Nat /\ 1 <= c[k] /\ c[k] <= d[k] /\ d[k] <= z /\ Part(s, c[k], d[k]) = texts[k]
             /\ k = n => d[k] = z
             /\ k # n => At(s, d[k]) = "COMMA" /\ d[k] + 1 = c[k + 1]
  <2>1. c[k] = 1 + Len(g[k - 1]) /\ d[k] = c[k] + Len(texts[k]) /\ z = Len(s) + 1
    BY <1>5 DEF z
  <2>2. Holds(s, 1 + Len(g[k - 1]), ss[k])
    BY <1>2, <1>3, <1>4, HoldsParts, HoldsWhole
  <2>3. /\ ss[k] \in Strings /\ Len(g[k]) = Len(g[k - 1]) + Len(ss[k]) /\ Len(g[k - 1]) \in Nat /\ Len(ss[k]) \in Nat
        /\ Holds(s, c[k], ss[k])
    BY <1>2, <1>3, <1>4, <2>1, <2>2, GluedTexts, HoldsWhole
  <2>4. texts[k] \in Strings /\ Len(texts[k]) \in Nat /\ <<"COMMA">> \in Strings /\ <<"COMMA">>[1] = "COMMA" /\ <<"COMMA">> # <<>>
        /\ Len(<<"COMMA">>) = 1
    BY <1>1, Known DEF Strings
  <2> DEFINE x == Len(g[k - 1])
             y == Len(texts[k])
             m == Len(s)
  <2>5. x \in Nat /\ y \in Nat /\ c[k] = 1 + x /\ d[k] = c[k] + y /\ m \in Nat /\ z = m + 1
    BY <1>4, <2>3, <2>4, <2>1, TextIs
  <2>6. CASE k = n
    <3>1. Holds(s, c[k], texts[k]) /\ Len(s) = Len(g[k - 1]) + Len(texts[k])
      BY <1>2, <1>3, <2>3, <2>6
    <3>2. Part(s, c[k], d[k]) = texts[k]
      <4>1. Part(s, c[k], c[k] + Len(texts[k])) = texts[k]
        BY <1>4, <2>4, <3>1, HoldsPart
      <4> QED
        BY <2>1, <4>1
    <3>3. m = x + y
      BY <3>1
    <3> HIDE DEF x, y, m
    <3> QED
      BY <2>6, <2>5, <3>2, <3>3
  <2>7. CASE k # n
    <3>1. ss[k] = texts[k] \o <<"COMMA">> /\ Len(ss[k]) = Len(texts[k]) + 1
      BY <1>2, <2>4, <2>7 DEF Strings
    <3>2. Holds(s, c[k], texts[k]) /\ Holds(s, d[k], <<"COMMA">>)
      <4>1. Holds(s, c[k], texts[k]) /\ Holds(s, c[k] + Len(texts[k]), <<"COMMA">>)
        BY <1>4, <2>3, <2>4, <3>1, HoldsSplit
      <4> QED
        BY <2>1, <4>1
    <3>3. At(s, d[k]) = "COMMA" /\ d[k] \in 1..Len(s)
      BY <1>4, <2>4, <3>2, HoldsFirst
    <3>4. Part(s, c[k], d[k]) = texts[k]
      <4>1. Part(s, c[k], c[k] + Len(texts[k])) = texts[k]
        BY <1>4, <2>4, <3>2, HoldsPart
      <4> QED
        BY <2>1, <4>1
    <3>5. c[k + 1] = 1 + (x + (y + 1)) /\ d[k] \in 1..m
      BY <1>6, <2>3, <3>1, <3>3
    <3> HIDE DEF x, y, m
    <3> QED
      BY <2>7, <2>5, <3>3, <3>4, <3>5
  <2> QED
    BY <2>6, <2>7
<1>8. \A k \in 1..(z + 1) : \A r : r \in ListsAt(s, 1, z, means, k) <=>
        (r = <<>> /\ AllWhite(s, k, z)) \/ ItemThen(s, 1, z, means, k, r)
  BY <1>4, ListsIs
<1> DEFINE S == {k \in 1..n : SubSeq(l, k, n) \in ListsAt(s, 1, z, means, c[k])}
<1>9. ASSUME NEW k \in 1..n, (k + 1)..n \subseteq S PROVE k \in S
  <2>1. /\ c[k] \in 1..(z + 1) /\ c[k] \in Nat /\ d[k] \in Nat /\ c[k] <= d[k] /\ d[k] <= z
        /\ l[k] \in means[Part(s, c[k], d[k])] /\ (d[k] = z \/ At(s, d[k]) = "COMMA")
    <3>1. /\ c[k] \in Nat /\ d[k] \in Nat /\ 1 <= c[k] /\ c[k] <= d[k] /\ d[k] <= z /\ Part(s, c[k], d[k]) = texts[k]
          /\ (d[k] = z \/ At(s, d[k]) = "COMMA")
      BY <1>7
    <3>2. c[k] \in 1..(z + 1)
      BY <1>4, <3>1
    <3> QED
      BY <1>1, <3>1, <3>2
  <2>2. SubSeq(l, k, n) = <<l[k]>> \o SubSeq(l, k + 1, n)
    BY <1>1
  <2>3. SubSeq(l, k + 1, n) \in ListsAt(s, 1, z, means, d[k] + 1)
    <3>1. CASE k = n
      <4>1. SubSeq(l, k + 1, n) = <<>> /\ d[k] + 1 = z + 1 /\ z + 1 \in 1..(z + 1) /\ AllWhite(s, z + 1, z)
        BY <1>1, <1>4, <1>7, <3>1 DEF AllWhite
      <4> QED
        BY <1>8, <4>1
    <3>2. CASE k # n
      <4>1. k + 1 \in S /\ d[k] + 1 = c[k + 1]
        BY <1>1, <1>7, <1>9, <3>2
      <4> QED
        BY <4>1
    <3> QED
      BY <3>1, <3>2
  <2> QED
    BY <1>8, <2>1, <2>2, <2>3 DEF ItemThen
<1> HIDE DEF S
<1>10. 1..n \subseteq S
  BY <1>1, <1>9, Backward
<1>11. l \in ListsAt(s, 1, z, means, 1)
  <2>1. CASE n = 0
    <3>1. l = <<>> /\ s = <<>>
      BY <1>1, <1>3, <1>4, <2>1
    <3> QED
      BY <1>4, <1>8, <3>1 DEF AllWhite, z
  <2>2. CASE n # 0
    <3>1. 1 \in S /\ c[1] = 1 /\ SubSeq(l, 1, n) = l
      BY <1>1, <1>6, <1>10, <2>2
    <3> QED
      BY <3>1 DEF S
  <2> QED
    BY <2>1, <2>2
<1> QED
  BY <1>4, <1>11, ListsIs DEF s

\* A string's text has its characters' between its quotes.
LEMMA StringTight ==
  ASSUME NEW chars \in Strings
  PROVE  /\ Bracket(json_serialize_string(chars), "QUOTE", Escaped(chars), "QUOTE")
         /\ chars \in Spelt(Escaped(chars))
BY BracketTight, EscapedText, SpeltEscaped, Known DEF json_serialize_string, White

\* A member's text means its name and what its value's text means.
LEMMA MemberPair ==
  ASSUME NEW name \in Strings, NEW t \in Strings, NEW means, NEW v \in means[t]
  PROVE  /\ json_serialize_string(name) \o <<":">> \o t \in Strings
         /\ <<name, v>> \in Pairs(json_serialize_string(name) \o <<":">> \o t, means)
<1> DEFINE j == json_serialize_string(name)
           u == j \o <<":">> \o t
           q == 1 + Len(j)
           d == 1 + Len(u)
<1>1. j \in Strings /\ Enclosed(j, "QUOTE", "QUOTE") /\ name \in Spelt(Inner(j))
  BY StringTight DEF Bracket, Tight
<1>2. <<":">> \in Strings /\ Len(<<":">>) = 1 /\ <<":">>[1] = ":" /\ <<":">> # <<>>
  BY Known DEF Strings
<1> HIDE DEF j
<1>3. Three(u, j, <<":">>, t)
  BY <1>1, <1>2, ThreeHeld
<1> HIDE DEF u
<1>4. /\ u \in Strings /\ Len(u) = Len(j) + 1 + Len(t) /\ Len(j) \in Nat /\ Len(t) \in Nat
      /\ Holds(u, 1, j) /\ Holds(u, q, <<":">>) /\ Holds(u, q + 1, t)
  BY <1>2, <1>3 DEF Three
<1>5. q \in Nat /\ d \in Nat /\ d = (q + 1) + Len(t) /\ q < d /\ 1 <= q
  BY <1>4
<1>6. Part(u, 1, q) = j /\ IsPart(u, 1, q) /\ Part(u, q + 1, d) = t
  BY <1>1, <1>4, <1>5, HoldsPart
<1>7. IsPart(u, 1, d) /\ Part(u, 1, d) = u
  BY <1>4, <1>5, PartWhole
<1> HIDE DEF q, d
<1>8. PairAs(u, 1, d, means, q, 1, q, name, v)
  <2>1. At(u, q) = ":" /\ At(u, q) \notin White
    BY <1>2, <1>4, HoldsFirst DEF White
  <2>2. /\ q > 1 + 1 /\ At(u, 1) = "QUOTE" /\ At(u, q - 1) = "QUOTE" /\ IsPart(u, 2, q - 1)
        /\ Inner(j) = Part(u, 2, q - 1)
    <3>1. u \in Strings /\ q \in Nat /\ 1 \in Nat /\ 1 + 1 = 2 /\ IsPart(u, 1, q)
      BY <1>4, <1>5, <1>6
    <3>2. Enclosed(Part(u, 1, q), "QUOTE", "QUOTE") /\ Part(u, 1, q) = j
      BY <1>1, <1>6
    <3> QED
      BY <3>1, <3>2, EnclosedIs
  <2>3. Framed(u, 1, q, 1, q)
    BY <1>5, <2>2 DEF Framed, AllWhite, White
  <2>4. name \in Spelt(Part(u, 1 + 1, q - 1)) /\ v \in means[Part(u, q + 1, d)]
    BY <1>1, <1>6, <2>2
  <2> QED
    BY <1>5, <2>1, <2>2, <2>3, <2>4 DEF PairAs
<1> QED
  BY <1>4, <1>5, <1>7, <1>8, PairsBy DEF u, j

\* The texts of the values of a level mean them.
AllWritten(text, n) == \A v \in Values[n] : Tight(text[v]) /\ v \in Denoted[n][text[v]]

\* An array's text means it,
LEMMA ArrayWritten ==
  ASSUME NEW n \in 1..Top, NEW text, AllWritten(text, n - 1), NEW items \in Seq(Values[n - 1])
  PROVE  LET t == TextOf(text, Array(items)) IN Tight(t) /\ Array(items) \in Meant(t, Denoted[n - 1])
<1> DEFINE texts == ItemTexts(text, items)
<1>1. Len(items) \in Nat /\ \A k \in 1..Len(items) : items[k] \in Values[n - 1]
  OBVIOUS
<1>2. \A k \in 1..Len(items) : text[items[k]] \in Strings /\ items[k] \in Denoted[n - 1][text[items[k]]]
  BY <1>1, Zenon DEF AllWritten, Tight
<1>3. texts \in [1..Len(items) -> Strings] /\ \A k \in 1..Len(items) : texts[k] = text[items[k]]
  BY <1>2, Zenon DEF ItemTexts
<1> HIDE DEF texts
<1>4. texts \in Seq(Strings) /\ Len(texts) = Len(items)
  BY <1>1, <1>3
<1>5. Joined(texts) \in Strings /\ items \in Lists(Joined(texts), Denoted[n - 1])
  BY <1>2, <1>3, <1>4, JoinedLists
<1> DEFINE t == <<"[">> \o Joined(texts) \o <<"]">>
<1>6. Tight(t) /\ t[1] = "[" /\ Enclosed(t, "[", "]") /\ Inner(t) = Joined(texts)
  BY <1>5, BracketTight, Known DEF Bracket, White
<1>7. TextOf(text, Array(items)) = t
  BY TextOfArray DEF texts
<1> HIDE DEF t
<1> QED
  BY <1>5, <1>6, <1>7, MeantIs DEF Tight

\* and an object's.
LEMMA ObjectWritten ==
  ASSUME NEW n \in 1..Top, NEW text, AllWritten(text, n - 1), NEW items \in Seq(Values[n - 1]),
         NEW names \in Seq(Names), Len(names) = Len(items), IsInjective(names)
  PROVE  LET t == TextOf(text, Object(names, items)) IN Tight(t) /\ Object(names, items) \in Meant(t, Denoted[n - 1])
<1> DEFINE texts == MemberTexts(text, names, items)
           V == Strings \X Values[n - 1]
           l == [k \in 1..Len(items) |-> <<names[k], items[k]>>]
           means == MemberMeaning(Denoted[n - 1])
<1>1. Len(items) \in Nat /\ \A k \in 1..Len(items) : items[k] \in Values[n - 1] /\ names[k] \in Names /\ names[k] \in Strings
  BY DEF Names
<1>2. \A k \in 1..Len(items) : l[k] = <<names[k], items[k]>> /\ l[k][1] = names[k] /\ l[k][2] = items[k]
  OBVIOUS
<1>3. l \in Seq(V) /\ Len(l) = Len(items) /\ DOMAIN names = 1..Len(l) /\ DOMAIN items = 1..Len(l)
  BY <1>1
<1>4. \A k \in 1..Len(items) : texts[k] \in Strings /\ l[k] \in means[texts[k]]
  <2> TAKE k \in 1..Len(items)
  <2> HIDE DEF l
  <2>1. texts[k] \in Strings /\ l[k] \in Pairs(texts[k], Denoted[n - 1])
    <3>1. l[k] = <<names[k], items[k]>> /\ texts[k] = json_serialize_string(names[k]) \o <<":">> \o text[items[k]]
      BY <1>2 DEF MemberTexts
    <3> HIDE DEF texts
    <3> QED
      BY <1>1, <3>1, MemberPair DEF AllWritten, Tight
  <2> HIDE DEF texts
  <2> QED
    BY <2>1 DEF MemberMeaning
<1> HIDE DEF l, V, means
<1>5. texts \in Seq(Strings) /\ Len(texts) = Len(items)
  <2>1. texts = [k \in 1..Len(items) |-> texts[k]]
    BY Zenon DEF MemberTexts
  <2> HIDE DEF texts
  <2> QED
    BY <1>1, <1>4, <2>1
<1> HIDE DEF texts
<1>6. Joined(texts) \in Strings /\ l \in Lists(Joined(texts), means)
  BY <1>3, <1>4, <1>5, JoinedLists
<1>7. ObjectOf(l) = Object(names, items) /\ Distinct(l)
  <2>1. [k \in 1..Len(l) |-> l[k][1]] = names /\ [k \in 1..Len(l) |-> l[k][2]] = items
    BY <1>2, <1>3
  <2> QED
    BY <1>1, <1>2, <1>3, <2>1, ObjectOfIs
<1> DEFINE t == <<"LBRACE">> \o Joined(texts) \o <<"RBRACE">>
<1>8. Tight(t) /\ t[1] = "LBRACE" /\ Enclosed(t, "LBRACE", "RBRACE") /\ Inner(t) = Joined(texts)
  BY <1>6, BracketTight, Known DEF Bracket, White
<1>9. TextOf(text, Object(names, items)) = t
  BY TextOfObject DEF texts
<1> HIDE DEF t
<1> QED
  BY <1>6, <1>7, <1>8, <1>9, MeantIs DEF Tight, means

\* The text of every value means it.
LEMMA ValueWritten ==
  ASSUME NEW n \in 1..Top, NEW text, AllWritten(text, n - 1), NEW v \in Values[n]
  PROVE  Tight(TextOf(text, v)) /\ v \in Meant(TextOf(text, v), Denoted[n - 1])
<1>1. ASSUME NEW w \in {"null", "true", "false"}
      PROVE  Tight(<<w>>) /\ (v = (IF w = "null" THEN Null ELSE Boolean(w)) => v \in Meant(<<w>>, Denoted[n - 1]))
  <2>1. <<w>> \in Strings /\ Len(<<w>>) = 1 /\ <<w>>[1] = w /\ w \notin White
    BY Known DEF Strings, White
  <2> QED
    BY <2>1, MeantIs DEF Tight
<1>2. ASSUME NEW t \in Strings, IsDouble(t), v = Number(t)
      PROVE  Tight(TextOf(text, v)) /\ v \in Meant(TextOf(text, v), Denoted[n - 1])
  <2>1. t # <<>> /\ t[1] \in {"-"} \cup Digits /\ t[Len(t)] \in Digits
    BY <1>2, NumberStarts DEF IsDouble
  <2> QED
    BY <1>2, <2>1, MeantIs, TextOfPlain DEF IsDouble, Tight, White, Digits
<1>3. ASSUME NEW chars \in Strings, v = String(chars)
      PROVE  Tight(TextOf(text, v)) /\ v \in Meant(TextOf(text, v), Denoted[n - 1])
  <2> DEFINE j == json_serialize_string(chars)
  <2> HIDE DEF j
  <2> QED
    BY <1>3, MeantIs, StringTight, TextOfPlain DEF Tight, Bracket
<1>4. IsObjectIn(v, n) => Tight(TextOf(text, v)) /\ v \in Meant(TextOf(text, v), Denoted[n - 1])
  BY ObjectWritten, Zenon DEF IsObjectIn
<1> QED
  BY <1>1, <1>2, <1>3, <1>4, ValuesBy, TextOfPlain, ArrayWritten DEF IsPlain, IsArrayOf

\* ... on every level.
LEMMA TextsWritten == \A n \in 0..Top : AllWritten(Texts[n], n)
<1> DEFINE G == {n \in 0..Top : AllWritten(Texts[n], n)}
<1>1. Top \in Nat
  BY NestingAssumption DEF Top
<1>2. 0 \in G
  BY <1>1, ValuesIs DEF AllWritten
<1>3. ASSUME NEW n \in 1..Top, n - 1 \in G PROVE n \in G
  <2>1. AllWritten(Texts[n - 1], n - 1) /\ n \in 0..Top
    BY <1>1, <1>3
  <2>2. ASSUME NEW v \in Values[n] PROVE Tight(Texts[n][v]) /\ v \in Denoted[n][Texts[n][v]]
    BY <2>1, TightDenotes, TextsIs, ValueWritten
  <2> QED
    BY <2>1, <2>2 DEF AllWritten
<1> HIDE DEF G
<1> QED
  BY <1>1, <1>2, <1>3, Inductive DEF G

\* The mark of a byte order is no value.
LEMMA FoundNoMark ==
  ASSUME NEW s \in Strings, Found(s)[Top][1] # Nothing
  PROVE  Start(s) = 1
<1> SUFFICES ASSUME At(s, 1) = "BOM" PROVE FALSE
  BY DEF Start
<1> DEFINE J == {j \in 1..(1 + Len(s) + 1) : At(s, j) \notin White}
           f == Found(s)[Top - 1]
<1>1. Len(s) \in Nat
  BY TextIs
<1>2. SKIP_WHITESPACES(s, 1) = 1
  <2>1. 1 \in J /\ J \subseteq Nat /\ \A y \in J : 1 <= y
    BY <1>1 DEF White
  <2>2. SKIP_WHITESPACES(s, 1) = Min(J)
    BY DEF SKIP_WHITESPACES
  <2> HIDE DEF J
  <2> QED
    BY <2>1, <2>2, MinUnique
<1>3. parse_any_value(s, 1, f) = Nothing
  BY Zenon DEF parse_any_value, Digits
<1> QED
  BY <1>2, <1>3, FoundIs, NestingAssumption DEF Top

\* The text of every document, of all the shapes and depths there are, is read as
\* the document, to its end: what json_serialize_to_string writes is what
\* parse_value reads.
THEOREM RoundTrip ==
  ASSUME NEW v \in Documents
  PROVE  /\ json_serialize_to_string(v) \in Strings
         /\ json_parse_string(json_serialize_to_string(v)) = v
         /\ parse_value(json_serialize_to_string(v), 1, 0) = Got(v, Len(json_serialize_to_string(v)) + 1)
<1> DEFINE s == Texts[Top][v]
           end == Len(s) + 1
<1>1. Top \in 0..Top /\ Top = MAX_NESTING + 1 /\ Top = MAX_NESTING + 1 - 0 /\ v \in Values[Top]
  BY NestingAssumption DEF Top, Documents
<1>2. json_serialize_to_string(v) = s /\ Tight(s) /\ v \in Denoted[Top][s]
  BY <1>1, ValuesNoError, TextsWritten, Zenon DEF json_serialize_to_string, AllWritten
<1> HIDE DEF s
<1>3. s \in Strings /\ Len(s) \in 1..Len(s) /\ end - 1 = Len(s) /\ end \in Nat /\ end \notin 1..Len(s)
  BY <1>2 DEF Tight, Strings
<1>4. IsPart(s, 1, end) /\ Part(s, 1, end) = s /\ At(s, end) \notin Digits /\ At(s, Len(s)) \notin White /\ 1 \in Nat
  BY <1>2, <1>3, PartWhole, AtIs DEF Tight, Digits
<1>5. PICK e \in Nat : Found(s)[Top][1] = Got(v, e) /\ e <= end /\ AllWhite(s, e, end)
  BY <1>1, <1>2, <1>3, <1>4, FoundAsWritten DEF ValueRead, ValueReads
<1>6. Start(s) = 1
  BY <1>1, <1>3, <1>5, ValuesNoError, FoundNoMark DEF Got, Nothing
<1> QED
  BY <1>1, <1>2, <1>3, <1>4, <1>5, <1>6, ParsedIs DEF Got, parse_value, AllWhite

-----------------------------------------------------------------------------
(* Values in use.                                                          *)

\* What a value is made of.
LEMMA ValueIs ==
  ASSUME NEW n \in 1..Top, NEW v \in Values[n]
  PROVE  /\ v.items \in Seq(Values[n - 1]) /\ v.names \in Seq(Names) /\ IsInjective(v.names)
         /\ v.type = "string" => v.chars \in Strings
         /\ v.type = "array" => v = Array(v.items)
         /\ v.type = "object" => v = Object(v.names, v.items) /\ Len(v.names) = Len(v.items)
         /\ v.type # "object" => v.names = <<>>
         /\ v.type # "object" /\ v.type # "array" => v.items = <<>>
         /\ v.type # "error" /\ v # Error
<1>1. <<>> \in Seq(Values[n - 1]) /\ <<>> \in Seq(Names) /\ IsInjective(<<>>)
  <2>1. IsInjective(<<>>)
    BY DEF IsInjective
  <2> QED
    BY <2>1
<1>2. CASE IsArrayOf(v, n)
  <2>1. PICK items \in Seq(Values[n - 1]) : v = Array(items)
    BY <1>2 DEF IsArrayOf
  <2>2. v.type = "array" /\ v.items = items /\ v.names = <<>> /\ v # Error
    BY <2>1 DEF Array, Error, Value
  <2> QED
    BY <1>1, <2>1, <2>2
<1>3. CASE IsObjectIn(v, n)
  <2>1. PICK names \in Seq(Names), items \in Seq(Values[n - 1]) :
          v = Object(names, items) /\ Len(names) = Len(items) /\ IsInjective(names)
    BY <1>3, Zenon DEF IsObjectIn
  <2>2. v.type = "object" /\ v.items = items /\ v.names = names /\ v # Error
    BY <2>1 DEF Object, Error, Value
  <2> QED
    BY <2>1, <2>2
<1>4. CASE IsPlain(v)
  <2>1. /\ v.items = <<>> /\ v.names = <<>> /\ v # Error
        /\ v.type \in {"null", "boolean", "number", "string"}
        /\ v.type = "string" => v.chars \in Strings
    <3>1. CASE v = Null
      BY <3>1 DEF Null, Error, Value
    <3>2. CASE v = Boolean("true") \/ v = Boolean("false")
      BY <3>2 DEF Boolean, Error, Value
    <3>3. ASSUME NEW t \in Strings, v = Number(t)
          PROVE  /\ v.items = <<>> /\ v.names = <<>> /\ v # Error
                 /\ v.type \in {"null", "boolean", "number", "string"}
                 /\ v.type = "string" => v.chars \in Strings
      BY <3>3 DEF Number, Error, Value
    <3>4. ASSUME NEW t \in Strings, v = String(t)
          PROVE  /\ v.items = <<>> /\ v.names = <<>> /\ v # Error
                 /\ v.type \in {"null", "boolean", "number", "string"}
                 /\ v.type = "string" => v.chars \in Strings
      BY <3>4 DEF String, Error, Value
    <3> QED
      BY <1>4, <3>1, <3>2, <3>3, <3>4 DEF IsPlain
  <2> QED
    BY <1>1, <2>1
<1> QED
  BY <1>2, <1>3, <1>4, ValuesBy

\* The first of some things that is x, 0 if there is none.
FirstOf(seq, x) ==
  LET I == {i \in 1..Len(seq) : seq[i] = x} IN IF I # {} THEN Min(I) ELSE 0

\* It is the first one, or there is none.
LEMMA FirstIs ==
  ASSUME NEW S, NEW seq \in Seq(S), NEW x
  PROVE  /\ FirstOf(seq, x) \in 0..Len(seq)
         /\ FirstOf(seq, x) = 0 => \A i \in 1..Len(seq) : seq[i] # x
         /\ FirstOf(seq, x) # 0 =>
              seq[FirstOf(seq, x)] = x /\ \A i \in 1..Len(seq) : seq[i] = x => FirstOf(seq, x) <= i
<1> DEFINE I == {i \in 1..Len(seq) : seq[i] = x}
<1>1. FirstOf(seq, x) = IF I # {} THEN Min(I) ELSE 0
  BY Zenon DEF FirstOf
<1>2. CASE I = {}
  BY <1>1, <1>2
<1>3. CASE I # {}
  <2>1. I \subseteq Nat
    OBVIOUS
  <2>2. Min(I) \in I /\ \A y \in I : Min(I) <= y
    BY <1>3, <2>1, MinIs
  <2> QED
    BY <1>1, <1>3, <2>2
<1> QED
  BY <1>2, <1>3

\* A string of C ends before its first NUL.
LEMMA CStringIs ==
  ASSUME NEW chars \in Strings
  PROVE  CString(chars) \in Names /\ (~Contains(chars, "NUL") => CString(chars) = chars)
<1> DEFINE end == FirstOf(chars, "NUL")
<1>1. chars \in Seq(Symbols) /\ Len(chars) \in Nat
  BY DEF Strings
<1>2. /\ end \in 0..Len(chars)
      /\ end = 0 => \A i \in 1..Len(chars) : chars[i] # "NUL"
      /\ end # 0 => chars[end] = "NUL" /\ \A i \in 1..Len(chars) : chars[i] = "NUL" => end <= i
  BY <1>1, FirstIs
<1>3. CString(chars) = IF end = 0 THEN chars ELSE SubSeq(chars, 1, end - 1)
  BY Zenon DEF CString, SelectInSeq, FirstOf
<1> HIDE DEF end
<1>4. CASE end = 0
  BY <1>2, <1>3, <1>4 DEF Names, Contains
<1>5. CASE end # 0
  <2>1. Contains(chars, "NUL")
    BY <1>2, <1>5 DEF Contains
  <2>2. SubSeq(chars, 1, end - 1) \in Strings /\ Len(SubSeq(chars, 1, end - 1)) = end - 1
        /\ \A i \in 1..(end - 1) : SubSeq(chars, 1, end - 1)[i] = chars[i]
    BY <1>1, <1>2, <1>5 DEF Strings
  <2>3. ~Contains(SubSeq(chars, 1, end - 1), "NUL")
    <3> SUFFICES ASSUME NEW i \in 1..(end - 1), chars[i] = "NUL" PROVE FALSE
      BY <2>2 DEF Contains
    <3> QED
      BY <1>2, <1>5
  <2> QED
    BY <1>3, <1>5, <2>1, <2>2, <2>3 DEF Names
<1> QED
  BY <1>4, <1>5

\* The string of a value is one of C, or NULL.
LEMMA GetStringIs ==
  ASSUME NEW n \in 1..Top, NEW v \in Values[n] \cup {Error}
  PROVE  json_value_get_string(v) \in Names \cup {NULL}
<1>1. CASE v = Error
  BY <1>1, ValueFields DEF json_value_get_string
<1>2. CASE v \in Values[n] /\ v.type = "string"
  <2>1. v.chars \in Strings
    BY <1>2, ValueIs
  <2> QED
    BY <1>2, <2>1, CStringIs DEF json_value_get_string
<1>3. CASE v.type # "string"
  BY <1>3 DEF json_value_get_string
<1> QED
  BY <1>1, <1>2, <1>3

\* What is an object's under a name is the item with that name.
LEMMA GetIs ==
  ASSUME NEW n \in 1..Top, NEW v \in Values[n], NEW name
  PROVE  /\ (\A i \in 1..Len(v.names) : v.names[i] # name) => json_object_get_value(v, name) = Error
         /\ \A i \in 1..Len(v.names) : v.names[i] = name =>
              json_object_get_value(v, name) = v.items[i] /\ v.items[i] \in Values[n - 1]
         /\ json_object_get_value(v, name) \in Values[n - 1] \cup {Error}
<1> DEFINE at == FirstOf(v.names, name)
<1>1. v.names \in Seq(Names) /\ Len(v.names) \in Nat /\ IsInjective(v.names) /\ v.items \in Seq(Values[n - 1])
      /\ DOMAIN v.names = 1..Len(v.names)
  <2>1. v.names \in Seq(Names) /\ IsInjective(v.names) /\ v.items \in Seq(Values[n - 1])
    BY ValueIs
  <2> QED
    BY <2>1
<1>2. /\ at \in 0..Len(v.names)
      /\ at = 0 => \A i \in 1..Len(v.names) : v.names[i] # name
      /\ at # 0 => v.names[at] = name
  BY <1>1, FirstIs
<1>3. json_object_get_value(v, name) = IF at = 0 THEN Error ELSE v.items[at]
  BY Zenon DEF json_object_get_value, SelectInSeq, FirstOf
<1> HIDE DEF at
<1>4. \A i \in 1..Len(v.names) : v.names[i] = name => at = i
  BY <1>1, <1>2 DEF IsInjective
<1>5. Len(v.names) = Len(v.items) \/ Len(v.names) = 0
  BY ValueIs
<1>6. \A i \in 1..Len(v.names) : v.items[i] \in Values[n - 1]
  BY <1>1, <1>5
<1> QED
  BY <1>2, <1>3, <1>4, <1>6

\* What has no names has no item.
LEMMA GetOfError ==
  ASSUME NEW v, v.names = <<>>, NEW name
  PROVE  json_object_get_value(v, name) = Error
<1>1. 1..Len(v.names) = {}
  OBVIOUS
<1>2. {i \in 1..Len(v.names) : v.names[i] = name} = {}
  BY <1>1
<1> QED
  BY <1>2, Zenon DEF json_object_get_value, SelectInSeq

\* A string of the model is no NULL pointer.
LEMMA NoNull == NULL \notin Strings
<1>1. ASSUME NULL \in Strings PROVE FALSE
  <2>1. 1 \in 1..Len(NULL) /\ NULL[1] = "NULL"
    BY DEF NULL
  <2>2. NULL[1] \in Symbols
    BY <1>1, <2>1, TextIs
  <2> QED
    BY <2>1, <2>2, SymbolsAssumption
<1> QED
  BY <1>1

\* An object with a name's item set.
LEMMA SetBy ==
  ASSUME NEW n \in 1..Top, NEW v \in Values[n], v.type = "object", NEW name \in Names, NEW item, item # Error
  PROVE  LET at == FirstOf(v.names, name)
         IN json_object_set_value(v, name, item) =
              IF at = 0 THEN Object(Append(v.names, name), Append(v.items, item))
              ELSE Object(v.names, [v.items EXCEPT ![at] = item])
<1>1. name # NULL
  BY NoNull DEF Names
<1> QED
  BY <1>1, Zenon DEF json_object_set_value, SelectInSeq, FirstOf

\* A sequence and one more.
LEMMA AppendIs ==
  ASSUME NEW S, NEW seq \in Seq(S), NEW x \in S
  PROVE  /\ Append(seq, x) \in Seq(S) /\ Len(Append(seq, x)) = Len(seq) + 1 /\ Len(seq) \in Nat
         /\ \A i \in 1..Len(seq) : Append(seq, x)[i] = seq[i]
         /\ Append(seq, x)[Len(seq) + 1] = x
OBVIOUS

\* A prefix, place by place.
LEMMA PrefixOf ==
  ASSUME NEW S, NEW a \in Seq(S), NEW b \in Seq(S)
  PROVE  IsPrefix(a, b) <=> Len(a) <= Len(b) /\ \A i \in 1..Len(a) : a[i] = b[i]
<1>1. CASE Len(a) <= Len(b)
  <2>1. /\ SubSeq(a, 1, Len(a)) \in Seq(S) /\ Len(SubSeq(a, 1, Len(a))) = Len(a)
        /\ \A i \in 1..Len(a) : SubSeq(a, 1, Len(a))[i] = a[i]
    OBVIOUS
  <2>2. /\ SubSeq(b, 1, Len(a)) \in Seq(S) /\ Len(SubSeq(b, 1, Len(a))) = Len(a)
        /\ \A i \in 1..Len(a) : SubSeq(b, 1, Len(a))[i] = b[i]
    BY <1>1
  <2>3. SubSeq(a, 1, Len(a)) = SubSeq(b, 1, Len(a)) <=> \A i \in 1..Len(a) : a[i] = b[i]
    <3>1. ASSUME SubSeq(a, 1, Len(a)) = SubSeq(b, 1, Len(a)) PROVE \A i \in 1..Len(a) : a[i] = b[i]
      BY <2>1, <2>2, <3>1
    <3>2. ASSUME \A i \in 1..Len(a) : a[i] = b[i] PROVE SubSeq(a, 1, Len(a)) = SubSeq(b, 1, Len(a))
      <4> DEFINE x == SubSeq(a, 1, Len(a))
                 y == SubSeq(b, 1, Len(a))
      <4>1. x \in Seq(S) /\ y \in Seq(S) /\ Len(x) = Len(y) /\ \A i \in 1..Len(x) : x[i] = y[i]
        BY <2>1, <2>2, <3>2
      <4> HIDE DEF x, y
      <4>2. x = y
        BY <4>1, SeqEqual
      <4> QED
        BY <4>2 DEF x, y
    <3> QED
      BY <3>1, <3>2
  <2> QED
    BY <1>1, <2>3 DEF IsPrefix
<1>2. CASE ~(Len(a) <= Len(b))
  BY <1>2 DEF IsPrefix
<1> QED
  BY <1>1, <1>2

\* What a prefix of a list of names shares with it.
LEMMA PrefixNames ==
  ASSUME NEW a \in Seq(Names), NEW b \in Seq(Names), IsPrefix(a, b)
  PROVE  /\ Len(a) \in Nat /\ Len(b) \in Nat /\ Len(a) <= Len(b)
         /\ DOMAIN b = 1..Len(b) /\ DOMAIN a = 1..Len(a)
         /\ \A i \in 1..Len(a) : b[i] = a[i]
BY PrefixOf

\* What an object is after the item of a name has been set: r is it.
IsSet(r, v, name, item, n) ==
  /\ r \in Values[n] /\ r.type = "object"
  /\ IsPrefix(v.names, r.names)
  /\ ToSet(r.names) = ToSet(v.names) \cup {name}
  /\ \A x : json_object_get_value(r, x) = IF x = name THEN item ELSE json_object_get_value(v, x)

\* json_object_set_value sets the item of the name, and nothing else.
LEMMA SetIs ==
  ASSUME NEW n \in 1..Top, NEW v \in Values[n], v.type = "object", NEW name \in Names, NEW item \in Values[n - 1]
  PROVE  IsSet(json_object_set_value(v, name, item), v, name, item, n)
<1> DEFINE r == json_object_set_value(v, name, item)
           at == FirstOf(v.names, name)
<1>1. item # Error
  <2>1. n - 1 \in 0..Top
    BY NestingAssumption DEF Top
  <2> QED
    BY <2>1, ValuesNoError
<1>2. /\ v.items \in Seq(Values[n - 1]) /\ v.names \in Seq(Names) /\ IsInjective(v.names)
      /\ Len(v.names) = Len(v.items) /\ Len(v.names) \in Nat /\ DOMAIN v.names = 1..Len(v.names)
  <2>1. v.items \in Seq(Values[n - 1]) /\ v.names \in Seq(Names) /\ IsInjective(v.names)
        /\ Len(v.names) = Len(v.items)
    BY ValueIs
  <2> QED
    BY <2>1
<1>3. /\ at \in 0..Len(v.names)
      /\ at = 0 => \A i \in 1..Len(v.names) : v.names[i] # name
      /\ at # 0 => v.names[at] = name
  BY <1>2, FirstIs
<1>4. r = IF at = 0 THEN Object(Append(v.names, name), Append(v.items, item))
          ELSE Object(v.names, [v.items EXCEPT ![at] = item])
  BY <1>1, SetBy
<1> HIDE DEF at, r
<1> SUFFICES /\ r \in Values[n] /\ r.type = "object"
             /\ IsPrefix(v.names, r.names)
             /\ ToSet(r.names) = ToSet(v.names) \cup {name}
             /\ \A x : json_object_get_value(r, x) = IF x = name THEN item ELSE json_object_get_value(v, x)
  BY Zenon DEF IsSet, r
<1>5. PICK names \in Seq(Names), items \in Seq(Values[n - 1]) :
        /\ r = Object(names, items) /\ Len(names) = Len(items) /\ IsInjective(names)
        /\ Len(v.names) <= Len(names) /\ \A i \in 1..Len(v.names) : v.names[i] = names[i]
        /\ \A i \in 1..Len(names) : IF i \in 1..Len(v.names) /\ i # at THEN items[i] = v.items[i]
                                    ELSE names[i] = name /\ items[i] = item
        /\ \E i \in 1..Len(names) : names[i] = name
  <2>1. CASE at = 0
    <3>1. ~Contains(v.names, name)
      BY <1>3, <2>1 DEF Contains
    <3>2. /\ Append(v.names, name) \in Seq(Names) /\ Len(Append(v.names, name)) = Len(v.names) + 1
          /\ IsInjective(Append(v.names, name))
      BY <1>2, <3>1, AppendName
    <3>3. /\ Append(v.names, name) \in Seq(Names) /\ Len(v.names) \in Nat
          /\ \A i \in 1..Len(v.names) : Append(v.names, name)[i] = v.names[i]
          /\ Append(v.names, name)[Len(v.names) + 1] = name
      BY <1>2, AppendIs
    <3>4. /\ Append(v.items, item) \in Seq(Values[n - 1]) /\ Len(Append(v.items, item)) = Len(v.items) + 1
          /\ \A i \in 1..Len(v.items) : Append(v.items, item)[i] = v.items[i]
          /\ Append(v.items, item)[Len(v.items) + 1] = item
      <4> DEFINE T == Values[n - 1]
                 list == v.items
      <4>1. list \in Seq(T) /\ item \in T
        BY <1>2
      <4> HIDE DEF T, list
      <4>2. /\ Append(list, item) \in Seq(T) /\ Len(Append(list, item)) = Len(list) + 1
            /\ \A i \in 1..Len(list) : Append(list, item)[i] = list[i]
            /\ Append(list, item)[Len(list) + 1] = item
        BY <4>1, AppendIs
      <4> QED
        BY <4>2 DEF T, list
    <3>5. /\ Append(v.items, item) \in Seq(Values[n - 1]) /\ Len(Append(v.items, item)) = Len(v.names) + 1
          /\ \A i \in 1..Len(v.names) : Append(v.items, item)[i] = v.items[i] /\ Append(v.names, name)[i] = v.names[i]
          /\ Append(v.items, item)[Len(v.names) + 1] = item /\ Append(v.names, name)[Len(v.names) + 1] = name
      BY <1>2, <3>3, <3>4
    <3> DEFINE names == Append(v.names, name)
               items == Append(v.items, item)
    <3>6. r = Object(names, items)
      BY <1>4, <2>1
    <3> HIDE DEF names, items
    <3>7. /\ names \in Seq(Names) /\ items \in Seq(Values[n - 1]) /\ Len(names) = Len(v.names) + 1 /\ Len(items) = Len(v.names) + 1
          /\ IsInjective(names)
          /\ \A i \in 1..Len(v.names) : items[i] = v.items[i] /\ names[i] = v.names[i]
          /\ items[Len(v.names) + 1] = item /\ names[Len(v.names) + 1] = name
      BY <3>2, <3>5 DEF names, items
    <3>8. \A i \in 1..Len(names) : IF i \in 1..Len(v.names) /\ i # at THEN items[i] = v.items[i]
                                    ELSE names[i] = name /\ items[i] = item
      <4> SUFFICES ASSUME NEW i \in 1..Len(names)
                   PROVE  IF i \in 1..Len(v.names) /\ i # at THEN items[i] = v.items[i]
                          ELSE names[i] = name /\ items[i] = item
        OBVIOUS
      <4>1. CASE i \in 1..Len(v.names)
        <5>1. i # at
          BY <2>1, <4>1
        <5> QED
          BY <3>7, <4>1, <5>1
      <4>2. CASE i \notin 1..Len(v.names)
        <5>1. i = Len(v.names) + 1
          BY <1>2, <3>7, <4>2
        <5>2. names[i] = name /\ items[i] = item
          BY <3>7, <5>1, Zenon
        <5> QED
          BY <4>2, <5>2, Zenon
      <4> QED
        BY <4>1, <4>2
    <3>9. Len(v.names) <= Len(names) /\ Len(v.names) + 1 \in 1..Len(names)
      BY <1>2, <3>7
    <3> QED
      BY <3>6, <3>7, <3>8, <3>9
  <2>2. CASE at # 0
    <3>1. at \in 1..Len(v.names) /\ v.names[at] = name
      BY <1>3, <2>2
    <3>2. [v.items EXCEPT ![at] = item] \in Seq(Values[n - 1]) /\ Len([v.items EXCEPT ![at] = item]) = Len(v.names)
      BY <1>2, <3>1, SMTT(30)
    <3>3. \A i \in 1..Len(v.names) : [v.items EXCEPT ![at] = item][i] = IF i = at THEN item ELSE v.items[i]
      BY <1>2, <3>1
    <3> QED
      BY <1>2, <1>4, <2>2, <3>1, <3>2, <3>3
  <2> QED
    BY <2>1, <2>2
<1>6. r.names = names /\ r.items = items /\ r.type = "object"
  BY <1>5, ValueFields
<1>7. IsObjectIn(r, n)
  BY <1>5, Zenon DEF IsObjectIn
<1>8. r \in Values[n]
  BY <1>7, ValuesBy
<1>9. IsPrefix(v.names, r.names)
  BY <1>2, <1>5, <1>6, PrefixOf
<1>10. ToSet(r.names) = ToSet(v.names) \cup {name}
  <2>1. DOMAIN names = 1..Len(names) /\ Len(names) \in Nat
    BY <1>5
  <2>2. ToSet(r.names) = {names[i] : i \in 1..Len(names)} /\ ToSet(v.names) = {v.names[i] : i \in 1..Len(v.names)}
    BY <1>2, <1>6, <2>1 DEF ToSet
  <2>3. \A i \in 1..Len(v.names) : i \in 1..Len(names) /\ v.names[i] = names[i]
    BY <1>2, <1>5, <2>1
  <2>4. \A i \in 1..Len(names) : names[i] = name \/ (i \in 1..Len(v.names) /\ names[i] = v.names[i])
    BY <1>5, <2>3
  <2>5. name \in ToSet(r.names)
    BY <1>5, <2>2
  <2> QED
    BY <2>2, <2>3, <2>4, <2>5
<1>11. ASSUME NEW x PROVE json_object_get_value(r, x) = IF x = name THEN item ELSE json_object_get_value(v, x)
  <2>1. Len(names) \in Nat
    BY <1>5
  <2>2. CASE x = name
    <3>1. PICK i \in 1..Len(names) : names[i] = name
      BY <1>5
    <3>2. items[i] = item
      <4>1. i # at => i \notin 1..Len(v.names)
        BY <1>2, <1>3, <1>5, <3>1, SMTT(30) DEF IsInjective
      <4> QED
        BY <1>5, <4>1
    <3>3. json_object_get_value(r, x) = r.items[i]
      BY <1>6, <1>8, <2>2, <3>1, GetIs
    <3> QED
      BY <1>6, <2>2, <3>2, <3>3
  <2>3. CASE x # name /\ \E i \in 1..Len(v.names) : v.names[i] = x
    <3>1. PICK i \in 1..Len(v.names) : v.names[i] = x
      BY <2>3
    <3>2. i \in 1..Len(names) /\ names[i] = x
      BY <1>2, <1>5, <2>1, <3>1
    <3>3. items[i] = v.items[i]
      BY <1>5, <2>3, <3>1, <3>2
    <3>4. json_object_get_value(v, x) = v.items[i]
      BY <3>1, GetIs
    <3>5. json_object_get_value(r, x) = r.items[i]
      BY <1>6, <1>8, <3>2, GetIs
    <3> QED
      BY <1>6, <2>3, <3>3, <3>4, <3>5
  <2>4. CASE x # name /\ \A i \in 1..Len(v.names) : v.names[i] # x
    <3>1. \A i \in 1..Len(names) : names[i] # x
      BY <1>5, <2>4
    <3>2. json_object_get_value(v, x) = Error
      BY <2>4, GetIs
    <3>3. json_object_get_value(r, x) = Error
      BY <1>6, <1>8, <3>1, GetIs
    <3> QED
      BY <2>4, <3>2, <3>3
  <2> QED
    BY <2>2, <2>3, <2>4
<1> QED
  BY <1>6, <1>8, <1>9, <1>10, <1>11

\* A call that is refused.
LEMMA SetRefused ==
  ASSUME NEW v, NEW name, NEW item, v.type # "object" \/ name = NULL \/ item = Error
  PROVE  json_object_set_value(v, name, item) = v
BY Zenon DEF json_object_set_value

\* An array without one of its items.
LEMMA RemoveIs ==
  ASSUME NEW S, NEW items \in Seq(S), NEW at \in 0..Len(items)
  PROVE  /\ json_array_remove(Array(items), at) = Array(IF at = 0 THEN items ELSE RemoveAt(items, at))
         /\ at # 0 => RemoveAt(items, at) \in Seq(S)
<1>1. Array(items).items = items /\ DOMAIN items = 1..Len(items) /\ Len(items) \in Nat
  <2>1. Array(items).items = items
    BY DEF Array, Value
  <2> QED
    BY <2>1
<1>2. at # 0 => RemoveAt(items, at) \in Seq(S)
  BY <1>1 DEF RemoveAt
<1>3. at = 0 => at \notin DOMAIN items
  BY <1>1
<1>4. at # 0 => at \in DOMAIN items
  BY <1>1
<1> QED
  BY <1>1, <1>2, <1>3, <1>4, Zenon DEF json_array_remove

-----------------------------------------------------------------------------
(* Messages.                                                               *)

\* What del_existing_msgs is called with.
Roles == {<<"user">>, <<"assistant">>}

\* The names the requests use are names, and different.
LEMMA WordsAre ==
  /\ \A w \in {"messages", "role", "content", "user", "assistant", "temperature", "max_tokens"} : <<w>> \in Names
  /\ \A role \in Roles : role \in Names /\ ~Contains(role, "BAD") /\ role # NULL
  /\ <<"role">> # <<"content">> /\ <<"temperature">> # <<"max_tokens">>
  /\ <<"temperature">> # <<"messages">> /\ <<"max_tokens">> # <<"messages">> /\ <<"user">> # <<"assistant">>
<1>1. ASSUME NEW w \in {"messages", "role", "content", "user", "assistant", "temperature", "max_tokens"}
      PROVE  <<w>> \in Names /\ ~Contains(<<w>>, "BAD")
  <2>1. w \in Symbols /\ w # "NUL" /\ w # "BAD"
    BY OpenAiAssumption
  <2>2. <<w>> \in Strings /\ Len(<<w>>) = 1 /\ <<w>>[1] = w
    BY <2>1 DEF Strings
  <2>3. \A i \in 1..1 : i = 1
    OBVIOUS
  <2> QED
    BY <2>1, <2>2, <2>3 DEF Names, Contains
<1>2. <<"user">> \in Names /\ <<"assistant">> \in Names
      /\ ~Contains(<<"user">>, "BAD") /\ ~Contains(<<"assistant">>, "BAD")
  BY <1>1
<1>3. \A role \in Roles : role \in Names /\ ~Contains(role, "BAD") /\ role # NULL
  BY <1>2, NoNull DEF Roles, Names
<1>4. \A a, b : <<a>> = <<b>> => a = b
  OBVIOUS
<1>5. "role" # "content" /\ "temperature" # "max_tokens" /\ "temperature" # "messages"
      /\ "max_tokens" # "messages" /\ "user" # "assistant"
  OBVIOUS
<1> QED
  BY <1>1, <1>3, <1>4, <1>5, Zenon

\* A prompt's messages, and what is in them, are as deep as documents may be.
LEMMA Levels ==
  /\ Top \in Nat /\ Top - 1 \in 1..Top /\ Top - 2 \in 1..Top /\ Top \in 1..Top /\ 1 \in 1..Top /\ 2 \in 1..Top
  /\ Top - 1 - 1 = Top - 2 /\ 2 <= Top - 2 /\ 2 - 1 = 1 /\ 1 - 1 = 0
  /\ Documents = Values[Top]
BY NestingAssumption DEF Top, Documents

\* What json_value_init_string makes of a text,
LEMMA InitString ==
  ASSUME NEW text \in Strings \cup {NULL}, NEW n \in 1..Top
  PROVE  /\ json_value_init_string(text) = IF text = NULL \/ Contains(text, "BAD") THEN Error ELSE String(text)
         /\ json_value_init_string(text) \in Values[n] \cup {Error}
         /\ text \in Strings => String(text) \in Values[n]
<1>1. json_value_init_string(text) = IF text = NULL \/ Contains(text, "BAD") THEN Error ELSE String(text)
  BY Zenon DEF json_value_init_string
<1>2. text \in Strings => String(text) \in Values[n]
  BY ValuesBy, Zenon DEF IsPlain
<1> QED
  BY <1>1, <1>2

\* and json_value_init_number of a number.
LEMMA InitNumber ==
  ASSUME NEW t \in Strings, NEW n \in 1..Top
  PROVE  /\ IsDouble(t) => json_value_init_number(t) = Number(t) /\ Number(t) \in Values[n] /\ ~Contains(t, "inf")
         /\ Contains(t, "inf") => json_value_init_number(t) = Error
<1>1. ASSUME IsDouble(t) PROVE ~Contains(t, "inf") /\ Number(t) \in Values[n]
  <2> DEFINE f == IF t[1] = "-" THEN 2 ELSE 1
  <2>1. IsNumber(t) /\ t # <<>>
    BY <1>1 DEF IsDouble, IsNumber
  <2>2. f <= Len(t) /\ \A k \in f..Len(t) : t[k] \in Digits
    BY <2>1, IsNumberBy
  <2>3. Len(t) \in Nat
    BY TextIs
  <2>4. \A k \in 1..Len(t) : t[k] # "inf"
    <3> SUFFICES ASSUME NEW k \in 1..Len(t) PROVE t[k] # "inf"
      OBVIOUS
    <3>1. CASE k < f
      <4>1. k = 1 /\ t[1] = "-"
        BY <2>3, <3>1
      <4> QED
        BY <4>1
    <3>2. CASE k >= f
      BY <2>2, <2>3, <3>2 DEF Digits
    <3> QED
      BY <2>3, <3>1, <3>2
  <2>5. Number(t) \in Values[n]
    BY <1>1, ValuesBy, Zenon DEF IsPlain
  <2> QED
    BY <2>4, <2>5 DEF Contains
<1> QED
  BY <1>1, Zenon DEF json_value_init_number

\* Objects of one name, and of two.
LEMMA Singles ==
  ASSUME NEW x, NEW y
  PROVE  /\ FirstOf(<<>>, y) = 0
         /\ FirstOf(<<x>>, y) = IF x = y THEN 1 ELSE 0
         /\ Append(<<>>, x) = <<x>> /\ Append(<<x>>, y) = <<x, y>>
<1>1. /\ <<>> \in Seq({x}) /\ Len(<<>>) = 0 /\ <<x>> \in Seq({x}) /\ Len(<<x>>) = 1 /\ <<x>>[1] = x
  OBVIOUS
<1>2. FirstOf(<<>>, y) = 0
  <2>1. FirstOf(<<>>, y) \in 0..Len(<<>>)
    BY <1>1, FirstIs
  <2> QED
    BY <1>1, <2>1
<1>3. FirstOf(<<x>>, y) = IF x = y THEN 1 ELSE 0
  <2> DEFINE list == <<x>>
  <2>1. list \in Seq({x}) /\ Len(list) = 1 /\ list[1] = x
    BY <1>1
  <2> HIDE DEF list
  <2>2. /\ FirstOf(list, y) \in 0..Len(list)
        /\ FirstOf(list, y) = 0 => \A i \in 1..Len(list) : list[i] # y
        /\ FirstOf(list, y) # 0 => list[FirstOf(list, y)] = y
    BY <2>1, FirstIs
  <2>3. FirstOf(list, y) = IF x = y THEN 1 ELSE 0
    BY <2>1, <2>2
  <2> QED
    BY <2>3 DEF list
<1>4. Append(<<>>, x) = <<x>>
  OBVIOUS
<1>5. Append(<<x>>, y) = <<x, y>>
  <2> DEFINE S == {x, y}
             a == Append(<<x>>, y)
             b == <<x, y>>
  <2>1. <<x>> \in Seq(S) /\ Len(<<x>>) = 1 /\ <<x>>[1] = x /\ y \in S
    OBVIOUS
  <2>2. a \in Seq(S) /\ Len(a) = 2 /\ a[1] = x /\ a[2] = y
    <3> DEFINE list == <<x>>
    <3> HIDE DEF S, list
    <3>1. /\ Append(list, y) \in Seq(S) /\ Len(Append(list, y)) = Len(list) + 1
          /\ \A i \in 1..Len(list) : Append(list, y)[i] = list[i]
          /\ Append(list, y)[Len(list) + 1] = y
      BY <2>1, AppendIs DEF list
    <3>2. Len(list) = 1 /\ list[1] = x
      BY <2>1 DEF list
    <3>3. Append(list, y) \in Seq(S) /\ Len(Append(list, y)) = 2 /\ Append(list, y)[1] = x /\ Append(list, y)[2] = y
      BY <3>1, <3>2
    <3> QED
      BY <3>3 DEF list
  <2>3. b \in Seq(S) /\ Len(b) = 2 /\ b[1] = x /\ b[2] = y
    OBVIOUS
  <2>4. \A i \in 1..2 : i = 1 \/ i = 2
    OBVIOUS
  <2> HIDE DEF a, b, S
  <2>5. \A i \in 1..Len(a) : a[i] = b[i]
    BY <2>2, <2>3, <2>4
  <2>6. a = b
    BY <2>2, <2>3, <2>5, SeqEqual
  <2> QED
    BY <2>6 DEF a, b
<1> QED
  BY <1>2, <1>3, <1>4, <1>5

\* An object without members.
LEMMA NoMembers ==
  ASSUME NEW n \in 1..Top
  PROVE  Object(<<>>, <<>>) \in Values[n]
<1>1. <<>> \in Seq(Names) /\ <<>> \in Seq(Values[n - 1]) /\ Len(<<>>) = Len(<<>>)
  OBVIOUS
<1>2. IsInjective(<<>>)
  BY DEF IsInjective
<1>3. IsObjectIn(Object(<<>>, <<>>), n)
  BY <1>1, <1>2, Zenon DEF IsObjectIn
<1> QED
  BY <1>3, ValuesBy

\* The message that is made for a text is the one that is expected.
LEMMA NewMessageIs ==
  ASSUME NEW role \in Roles, NEW text \in Strings
  PROVE  /\ NewMessage(role, text) \in Values[2]
         /\ Role(NewMessage(role, text)) = role
         /\ Message(role, text) = <<NewMessage(role, text)>>
<1> DEFINE m == json_object_set_value(Object(<<>>, <<>>), <<"role">>, json_value_init_string(role))
           r == NewMessage(role, text)
<1>1. role \in Strings /\ role # NULL /\ ~Contains(role, "BAD") /\ text # NULL /\ ~Contains(role, "NUL")
  BY WordsAre, NoNull DEF Names
<1>2. json_value_init_string(role) = String(role) /\ String(role) \in Values[1] /\ String(role) # Error
  <2>1. String(role) # Error
    BY ValueFields
  <2>2. 1 \in 1..Top
    BY Levels
  <2> QED
    BY <1>1, <2>1, <2>2, InitString
<1>3. m = Object(<<<<"role">>>>, <<String(role)>>)
  <2>1. Object(<<>>, <<>>) \in Values[2] /\ 2 \in 1..Top
    BY Levels, NoMembers
  <2>2. Object(<<>>, <<>>).type = "object" /\ Object(<<>>, <<>>).names = <<>> /\ Object(<<>>, <<>>).items = <<>>
    BY ValueFields
  <2>3. <<"role">> \in Names
    BY WordsAre
  <2>4. m = IF FirstOf(<<>>, <<"role">>) = 0 THEN Object(Append(<<>>, <<"role">>), Append(<<>>, String(role)))
            ELSE Object(<<>>, [<<>> EXCEPT ![FirstOf(<<>>, <<"role">>)] = String(role)])
    BY <1>2, <2>1, <2>2, <2>3, SetBy, ZenonT(30)
  <2> QED
    BY <2>4, Singles
<1>4. m \in Values[2] /\ m.type = "object" /\ json_object_get_value(m, <<"role">>) = String(role)
  <2>1. Object(<<>>, <<>>) \in Values[2] /\ 2 \in 1..Top /\ <<"role">> \in Names /\ Object(<<>>, <<>>).type = "object"
    BY Levels, NoMembers, WordsAre, ValueFields
  <2>2. String(role) \in Values[2 - 1]
    BY <1>2, Levels
  <2>3. IsSet(m, Object(<<>>, <<>>), <<"role">>, String(role), 2)
    BY <1>2, <2>1, <2>2, SetIs
  <2> QED
    BY <2>3, Zenon DEF IsSet
<1>5. r = json_object_set_value(m, <<"content">>, json_value_init_string(text))
  BY Zenon DEF NewMessage
<1>6. json_value_get_string(String(role)) = role
  <2>1. String(role).type = "string" /\ String(role).chars = role
    BY ValueFields
  <2>2. CString(role) = role
    BY <1>1, CStringIs
  <2> QED
    BY <2>1, <2>2, Zenon DEF json_value_get_string
<1> HIDE DEF m, r
<1>7. CASE Contains(text, "BAD")
  <2>1. json_value_init_string(text) = Error
    BY <1>7, Zenon DEF json_value_init_string
  <2>2. r = m
    BY <1>5, <2>1, SetRefused
  <2>3. Message(role, text) = <<r>>
    BY <1>1, <1>3, <1>7, <2>2 DEF Message
  <2>4. Role(r) = role
    BY <1>4, <1>6, <2>2 DEF Role
  <2> QED
    BY <1>4, <2>2, <2>3, <2>4 DEF r
<1>8. CASE ~Contains(text, "BAD")
  <2>1. json_value_init_string(text) = String(text) /\ String(text) \in Values[2 - 1] /\ String(text) # Error
    <3>1. String(text) # Error
      BY ValueFields
    <3>2. 1 \in 1..Top /\ 2 - 1 = 1
      BY Levels
    <3> QED
      BY <1>1, <1>8, <3>1, <3>2, InitString
  <2>2. IsSet(r, m, <<"content">>, String(text), 2)
    <3>1. 2 \in 1..Top /\ <<"content">> \in Names
      BY Levels, WordsAre
    <3> QED
      BY <1>4, <1>5, <2>1, <3>1, SetIs
  <2>3. json_object_get_value(r, <<"role">>) = String(role) /\ r \in Values[2]
    BY <1>4, <2>2, WordsAre, Zenon DEF IsSet
  <2>4. r = Object(<<<<"role">>, <<"content">>>>, <<String(role), String(text)>>)
    <3>1. m.names = <<<<"role">>>> /\ m.items = <<String(role)>>
      BY <1>3, ValueFields
    <3>2. 2 \in 1..Top /\ <<"content">> \in Names
      BY Levels, WordsAre
    <3>3. r = IF FirstOf(m.names, <<"content">>) = 0 THEN Object(Append(m.names, <<"content">>), Append(m.items, String(text)))
              ELSE Object(m.names, [m.items EXCEPT ![FirstOf(m.names, <<"content">>)] = String(text)])
      BY <1>4, <1>5, <2>1, <3>2, SetBy
    <3>4. FirstOf(m.names, <<"content">>) = 0
      BY <3>1, Singles, WordsAre
    <3>5. Append(m.names, <<"content">>) = <<<<"role">>, <<"content">>>> /\ Append(m.items, String(text)) = <<String(role), String(text)>>
      BY <3>1, Singles
    <3> QED
      BY <3>3, <3>4, <3>5
  <2>5. Message(role, text) = <<r>>
    BY <1>1, <1>8, <2>4 DEF Message
  <2>6. Role(r) = role
    BY <1>6, <2>3 DEF Role
  <2> QED
    BY <2>3, <2>5, <2>6 DEF r
<1> QED
  BY <1>7, <1>8

\* The messages without those of a role, from the first messages without them.
WithoutBody(messages, role, f, n) ==
  IF n = 0 THEN <<>>
  ELSE f[n - 1] \o IF Role(messages[n]) = role THEN <<>> ELSE <<messages[n]>>

\* There is such a sequence for every number of messages.
LEMMA WithoutExists ==
  ASSUME NEW messages, NEW role, NEW N \in Nat
  PROVE  \E f : f = [k \in 0..N |-> WithoutBody(messages, role, f, k)]
<1> DEFINE B(f, k) == WithoutBody(messages, role, f, k)
           Upto(m, f) == f = [k \in 0..m |-> B(f, k)]
           G == {m \in 0..N : \E f : Upto(m, f)}
<1>1. 0 \in G
  <2> DEFINE f == [k \in 0..0 |-> <<>>]
  <2>1. \A k \in 0..0 : B(f, k) = <<>>
    <3> TAKE k \in 0..0
    <3>1. k = 0
      OBVIOUS
    <3> HIDE DEF f
    <3> QED
      BY <3>1 DEF WithoutBody
  <2>2. Upto(0, f)
    BY <2>1
  <2> HIDE DEF f, Upto
  <2> QED
    BY <2>2
<1>2. ASSUME NEW x \in 1..N, x - 1 \in G PROVE x \in G
  <2>1. PICK f : Upto(x - 1, f)
    BY <1>2
  <2> DEFINE h == [k \in 0..x |-> IF k = x THEN B(f, k) ELSE f[k]]
  <2>2. ASSUME NEW k \in 0..x PROVE h[k] = B(h, k)
    <3>1. k # 0 => f[k - 1] = h[k - 1]
      OBVIOUS
    <3> HIDE DEF h
    <3>2. B(f, k) = B(h, k)
      BY <3>1, Zenon DEF WithoutBody
    <3>3. CASE k = x
      BY <3>2, <3>3 DEF h
    <3>4. CASE k # x
      <4>1. k \in 0..(x - 1)
        BY <3>4
      <4>2. f[k] = B(f, k)
        BY <2>1, <4>1
      <4>3. h[k] = f[k]
        BY <3>4 DEF h
      <4> QED
        BY <3>2, <4>2, <4>3
    <3> QED
      BY <3>3, <3>4
  <2>3. Upto(x, h)
    <3>1. h = [k \in 0..x |-> h[k]]
      OBVIOUS
    <3> HIDE DEF h
    <3> QED
      BY <2>2, <3>1
  <2> HIDE DEF h, Upto
  <2> QED
    BY <2>3
<1>3. N \in G
  <2> HIDE DEF G
  <2>1. 0..N \subseteq G
    BY <1>1, <1>2, Inductive
  <2> QED
    BY <2>1
<1> QED
  BY <1>3

\* f[n] is the first n messages without those of a role.
LeavesOut(f, messages, role) ==
  /\ f[0] = <<>>
  /\ \A n \in 1..Len(messages) :
       f[n] = f[n - 1] \o IF Role(messages[n]) = role THEN <<>> ELSE <<messages[n]>>

\* Without is the last one.
LEMMA WithoutIs ==
  ASSUME NEW S, NEW messages \in Seq(S), NEW role
  PROVE  \E f : LeavesOut(f, messages, role) /\ Without(messages, role) = f[Len(messages)]
<1> DEFINE N == Len(messages)
           others == CHOOSE f : f = [k \in 0..N |-> WithoutBody(messages, role, f, k)]
<1>1. N \in Nat
  OBVIOUS
<1>2. others = [k \in 0..N |-> WithoutBody(messages, role, others, k)]
  <2> HIDE DEF N
  <2> QED
    BY <1>1, WithoutExists
<1>3. Without(messages, role) = others[N]
  BY Zenon DEF Without, WithoutBody
<1> HIDE DEF others, N
<1>4. \A k \in 0..N : others[k] = WithoutBody(messages, role, others, k)
  BY <1>2
<1>5. 0 \in 0..N /\ \A k \in 1..N : k \in 0..N /\ k # 0
  BY <1>1
<1>6. others[0] = <<>> /\ \A n \in 1..N :
        others[n] = others[n - 1] \o IF Role(messages[n]) = role THEN <<>> ELSE <<messages[n]>>
  BY <1>4, <1>5, Zenon DEF WithoutBody
<1> QED
  BY <1>3, <1>6, Zenon DEF N, LeavesOut

\* The beginning of a sequence, up to n, but for the place h.
Skips(w, messages, S, n, h) ==
  /\ w \in Seq(S)
  /\ Len(w) = IF n < h THEN n ELSE n - 1
  /\ \A k \in 1..Len(w) : w[k] = messages[IF k < h THEN k ELSE k + 1]

\* There is one sequence that is another but for one place.
LEMMA SkipsUnique ==
  ASSUME NEW S, NEW messages \in Seq(S), NEW n \in Nat, NEW h \in 1..(Len(messages) + 1), NEW a, NEW b,
         Skips(a, messages, S, n, h), Skips(b, messages, S, n, h)
  PROVE  a = b
<1>1. a \in Seq(S) /\ b \in Seq(S) /\ Len(a) = Len(b) /\ \A k \in 1..Len(a) : a[k] = b[k]
  BY DEF Skips
<1> QED
  BY <1>1, SeqEqual

\* There is no other message with the role than the one at h, if that is one at all.
Only(messages, role, h) ==
  /\ h \in 1..(Len(messages) + 1)
  /\ \A i \in 1..Len(messages) : Role(messages[i]) = role <=> i = h

\* What is left without a role that one message has.
LEMMA WithoutSkips ==
  ASSUME NEW S, NEW messages \in Seq(S), NEW role, NEW h, Only(messages, role, h)
  PROVE  Skips(Without(messages, role), messages, S, Len(messages), h)
<1> DEFINE N == Len(messages)
<1>1. PICK f : LeavesOut(f, messages, role) /\ Without(messages, role) = f[N]
  BY WithoutIs
<1>2. /\ Without(messages, role) = f[N] /\ f[0] = <<>>
      /\ \A n \in 1..N : f[n] = f[n - 1] \o IF Role(messages[n]) = role THEN <<>> ELSE <<messages[n]>>
  BY <1>1, Zenon DEF LeavesOut
<1> DEFINE G == {n \in 0..N : Skips(f[n], messages, S, n, h)}
<1>3. N \in Nat /\ h \in 1..(N + 1) /\ \A i \in 1..N : messages[i] \in S
  BY DEF Only
<1>4. 0 \in G
  <2>1. f[0] \in Seq(S) /\ Len(f[0]) = 0
    BY <1>2
  <2>2. 0 < h /\ 0 \in 0..N
    BY <1>3
  <2>3. \A k \in 1..0 : FALSE
    OBVIOUS
  <2> QED
    BY <2>1, <2>2, <2>3 DEF Skips
<1>5. ASSUME NEW n \in 1..N, n - 1 \in G PROVE n \in G
  <2> DEFINE w == f[n - 1]
             m == messages[n]
  <2>1. /\ w \in Seq(S) /\ Len(w) = IF n - 1 < h THEN n - 1 ELSE n - 1 - 1
        /\ \A k \in 1..Len(w) : w[k] = messages[IF k < h THEN k ELSE k + 1]
    BY <1>5 DEF Skips
  <2>2. m \in S
    BY <1>3
  <2>3. n \in 0..N
    BY <1>3
  <2>4. Role(m) = role <=> n = h
    BY DEF Only
  <2>5. f[n] = w \o IF Role(m) = role THEN <<>> ELSE <<m>>
    BY <1>2
  <2> HIDE DEF w, m
  <2>6. CASE n = h
    <3>1. f[n] = w
      BY <2>1, <2>4, <2>5, <2>6
    <3>2. Len(w) = n - 1 /\ ~(n < h)
      BY <1>3, <2>1, <2>6
    <3> QED
      BY <2>1, <2>3, <3>1, <3>2 DEF Skips
  <2>7. CASE n # h
    <3>1. f[n] = w \o <<m>>
      BY <2>4, <2>5, <2>7
    <3>2. f[n] \in Seq(S) /\ Len(f[n]) = Len(w) + 1 /\ f[n][Len(w) + 1] = m /\ \A k \in 1..Len(w) : f[n][k] = w[k]
      BY <2>1, <2>2, <3>1, SMTT(30)
    <3>3. Len(f[n]) = IF n < h THEN n ELSE n - 1
      BY <1>3, <2>1, <2>7, <3>2
    <3>4. ASSUME NEW k \in 1..Len(f[n]) PROVE f[n][k] = messages[IF k < h THEN k ELSE k + 1]
      <4>1. CASE k \in 1..Len(w)
        BY <2>1, <3>2, <4>1
      <4>2. CASE k \notin 1..Len(w)
        <5>1. k = Len(w) + 1
          BY <2>1, <3>2, <4>2
        <5>2. n = IF k < h THEN k ELSE k + 1
          BY <1>3, <2>1, <2>7, <5>1
        <5>3. f[n][k] = m
          BY <3>2, <5>1, Zenon
        <5> QED
          BY <5>2, <5>3, Zenon DEF m
      <4> QED
        BY <4>1, <4>2
    <3> QED
      BY <2>3, <3>2, <3>3, <3>4 DEF Skips
  <2> QED
    BY <2>6, <2>7
<1>6. N \in G
  <2> HIDE DEF G, N
  <2>1. 0..N \subseteq G
    BY <1>3, <1>4, <1>5, Inductive
  <2> QED
    BY <1>3, <2>1
<1> QED
  BY <1>2, <1>6

\* What is left after one message has been removed, and what of none.
LEMMA RemoveSkips ==
  ASSUME NEW S, NEW messages \in Seq(S), NEW h \in 1..Len(messages)
  PROVE  Skips(RemoveAt(messages, h), messages, S, Len(messages), h)
<1> DEFINE N == Len(messages)
           a == SubSeq(messages, 1, h - 1)
           b == SubSeq(messages, h + 1, N)
<1>1. N \in Nat /\ h \in 1..N
  OBVIOUS
<1>2. a \in Seq(S) /\ Len(a) = h - 1 /\ \A k \in 1..(h - 1) : a[k] = messages[k]
  BY <1>1
<1>3. b \in Seq(S) /\ Len(b) = N - h /\ \A k \in 1..(N - h) : b[k] = messages[h + k]
  <2>1. b \in Seq(S) /\ Len(b) = (IF h + 1 <= N THEN N - (h + 1) + 1 ELSE 0)
    BY <1>1
  <2>2. \A k \in 1..(N - h) : b[k] = messages[h + 1 + k - 1]
    BY <1>1
  <2>3. \A k \in 1..(N - h) : h + 1 + k - 1 = h + k
    BY <1>1
  <2>4. (IF h + 1 <= N THEN N - (h + 1) + 1 ELSE 0) = N - h
    BY <1>1
  <2> QED
    BY <2>1, <2>2, <2>3, <2>4
<1>4. RemoveAt(messages, h) = a \o b
  BY DEF RemoveAt
<1> DEFINE w == a \o b
<1> HIDE DEF a, b
<1>5. w \in Seq(S) /\ Len(w) = Len(a) + Len(b)
      /\ \A k \in 1..Len(w) : w[k] = IF k <= Len(a) THEN a[k] ELSE b[k - Len(a)]
  <2>1. a \in Seq(S) /\ b \in Seq(S)
    BY <1>2, <1>3
  <2> HIDE DEF N
  <2> QED
    BY <2>1
<1> HIDE DEF w, N
<1>6. Len(w) = N - 1
  BY <1>1, <1>2, <1>3, <1>5
<1>7. ASSUME NEW k \in 1..Len(w) PROVE w[k] = messages[IF k < h THEN k ELSE k + 1]
  <2>1. CASE k < h
    <3>1. k \in 1..(h - 1)
      BY <1>1, <2>1
    <3>2. k <= Len(a)
      BY <1>1, <1>2, <3>1
    <3> QED
      BY <1>2, <1>5, <2>1, <3>1, <3>2
  <2>2. CASE ~(k < h)
    <3>1. ~(k <= Len(a)) /\ k - Len(a) \in 1..(N - h) /\ h + (k - Len(a)) = k + 1
      BY <1>1, <1>2, <1>6, <2>2
    <3>2. w[k] = b[k - Len(a)]
      BY <1>5, <3>1
    <3>3. b[k - Len(a)] = messages[h + (k - Len(a))]
      BY <1>3, <3>1
    <3>4. w[k] = messages[k + 1]
      BY <3>1, <3>2, <3>3
    <3> QED
      BY <2>2, <3>4
  <2> QED
    BY <2>1, <2>2
<1>8. ~(N < h)
  BY <1>1
<1> QED
  BY <1>4, <1>5, <1>6, <1>7, <1>8 DEF Skips, w, N

\* ... and what if none has it.
LEMMA NoneSkips ==
  ASSUME NEW S, NEW messages \in Seq(S)
  PROVE  Skips(messages, messages, S, Len(messages), Len(messages) + 1)
<1>1. Len(messages) \in Nat /\ Len(messages) < Len(messages) + 1
  OBVIOUS
<1>2. \A k \in 1..Len(messages) : k < Len(messages) + 1
  BY <1>1
<1> QED
  BY <1>1, <1>2 DEF Skips

\* What del_existing_msgs makes of some messages.
FirstWith(messages, role) ==
  LET I == {i \in 1..Len(messages) : Role(messages[i]) = role} IN IF I # {} THEN Min(I) ELSE 0

\* The messages that are left.
Del(messages, role) ==
  IF FirstWith(messages, role) = 0 THEN messages ELSE RemoveAt(messages, FirstWith(messages, role))

\* No message has the role.
NoneOf(messages, role) == \A i \in 1..Len(messages) : Role(messages[i]) # role

\* It is the first one with the role, or none has it.
LEMMA FirstWithIs ==
  ASSUME NEW S, NEW messages \in Seq(S), NEW role
  PROVE  /\ FirstWith(messages, role) \in 0..Len(messages)
         /\ FirstWith(messages, role) = 0 => NoneOf(messages, role)
         /\ FirstWith(messages, role) # 0 =>
              /\ Role(messages[FirstWith(messages, role)]) = role
              /\ \A i \in 1..Len(messages) : Role(messages[i]) = role => FirstWith(messages, role) <= i
<1> DEFINE I == {i \in 1..Len(messages) : Role(messages[i]) = role}
<1>1. FirstWith(messages, role) = IF I # {} THEN Min(I) ELSE 0
  BY Zenon DEF FirstWith
<1>2. CASE I = {}
  BY <1>1, <1>2 DEF NoneOf
<1>3. CASE I # {}
  <2>1. I \subseteq Nat
    OBVIOUS
  <2>2. Min(I) \in I /\ \A y \in I : Min(I) <= y
    BY <1>3, <2>1, MinIs
  <2> QED
    BY <1>1, <1>3, <2>2
<1> QED
  BY <1>2, <1>3

\* del_existing_msgs removes it.
LEMMA DelIs ==
  ASSUME NEW S, NEW messages \in Seq(S), NEW role
  PROVE  del_existing_msgs(Array(messages), role) = Array(Del(messages, role)) /\ Del(messages, role) \in Seq(S)
<1>1. del_existing_msgs(Array(messages), role) = json_array_remove(Array(messages), FirstWith(messages, role))
  BY DEF del_existing_msgs, SelectInSeq, FirstWith, Role, Array, Value
<1> QED
  BY <1>1, RemoveIs, FirstWithIs DEF Del

\* All but the first message with the role are left.
LEMMA DelFirst ==
  ASSUME NEW S, NEW messages \in Seq(S), NEW role
  PROVE  /\ NoneOf(messages, role) => Del(messages, role) = messages
         /\ \A h \in 1..Len(messages) :
              Role(messages[h]) = role /\ (\A i \in 1..(h - 1) : Role(messages[i]) # role) =>
                Skips(Del(messages, role), messages, S, Len(messages), h)
<1> DEFINE f == FirstWith(messages, role)
<1>1. /\ f \in 0..Len(messages)
      /\ f = 0 => NoneOf(messages, role)
      /\ f # 0 => Role(messages[f]) = role /\ \A i \in 1..Len(messages) : Role(messages[i]) = role => f <= i
  BY FirstWithIs
<1>2. Del(messages, role) = IF f = 0 THEN messages ELSE RemoveAt(messages, f)
  BY Zenon DEF Del
<1> HIDE DEF f
<1>3. Len(messages) \in Nat
  OBVIOUS
<1>4. ASSUME NoneOf(messages, role) PROVE Del(messages, role) = messages
  BY <1>1, <1>2, <1>3, <1>4 DEF NoneOf
<1>5. ASSUME NEW h \in 1..Len(messages), Role(messages[h]) = role, \A i \in 1..(h - 1) : Role(messages[i]) # role
      PROVE  Skips(Del(messages, role), messages, S, Len(messages), h)
  BY <1>1, <1>2, <1>3, <1>5, RemoveSkips DEF NoneOf
<1> QED
  BY <1>4, <1>5

\* With one message of a role at the most, the first is all there are.
LEMMA DelOnly ==
  ASSUME NEW S, NEW messages \in Seq(S), NEW role, AtMostOne(messages, role)
  PROVE  /\ Del(messages, role) = Without(messages, role) /\ Without(messages, role) \in Seq(S)
         /\ NoneOf(Without(messages, role), role)
         /\ \A other : NoneOf(messages, other) => NoneOf(Without(messages, role), other)
         /\ \A other : AtMostOne(messages, other) => AtMostOne(Without(messages, role), other)
<1>1. Len(messages) \in Nat /\ DOMAIN messages = 1..Len(messages)
  OBVIOUS
<1>2. PICK h : Only(messages, role, h)
  <2>1. CASE NoneOf(messages, role)
    <3>1. Only(messages, role, Len(messages) + 1)
      BY <1>1, <2>1 DEF Only, NoneOf
    <3> QED
      BY <3>1
  <2>2. CASE ~NoneOf(messages, role)
    <3>1. PICK h \in 1..Len(messages) : Role(messages[h]) = role
      BY <2>2 DEF NoneOf
    <3>2. Only(messages, role, h)
      BY <1>1, <3>1 DEF Only, AtMostOne
    <3> QED
      BY <3>2
  <2> QED
    BY <2>1, <2>2
<1>3. h \in 1..(Len(messages) + 1) /\ \A i \in 1..Len(messages) : Role(messages[i]) = role <=> i = h
  BY <1>2 DEF Only
<1> DEFINE w == Without(messages, role)
<1>4. Skips(w, messages, S, Len(messages), h)
  BY <1>2, WithoutSkips
<1>5. Del(messages, role) = w
  BY <1>1, <1>3, <1>4, DelFirst, SkipsUnique, NoneSkips DEF NoneOf
<1> HIDE DEF w
<1>6. /\ w \in Seq(S) /\ Len(w) = IF Len(messages) < h THEN Len(messages) ELSE Len(messages) - 1
      /\ \A k \in 1..Len(w) : w[k] = messages[IF k < h THEN k ELSE k + 1]
  BY <1>4 DEF Skips
<1>7. DOMAIN w = 1..Len(w) /\ Len(w) \in Nat
  BY <1>6
<1>8. \A k \in 1..Len(w) : (IF k < h THEN k ELSE k + 1) \in 1..Len(messages) /\ (IF k < h THEN k ELSE k + 1) # h
  <2> SUFFICES ASSUME NEW k \in 1..Len(w)
               PROVE  (IF k < h THEN k ELSE k + 1) \in 1..Len(messages) /\ (IF k < h THEN k ELSE k + 1) # h
    OBVIOUS
  <2> DEFINE M == Len(messages)
             L == Len(w)
  <2>1. k \in 1..L /\ L \in Nat /\ M \in Nat /\ h \in 1..(M + 1) /\ L = IF M < h THEN M ELSE M - 1
    BY <1>1, <1>3, <1>6, <1>7
  <2> HIDE DEF M, L
  <2> QED
    BY <2>1 DEF M
<1>9. ASSUME NEW other, NoneOf(messages, other) PROVE NoneOf(w, other)
  BY <1>6, <1>8, <1>9 DEF NoneOf
<1>10. ASSUME NEW other, AtMostOne(messages, other) PROVE AtMostOne(w, other)
  <2> SUFFICES ASSUME NEW i \in 1..Len(w), NEW j \in 1..Len(w), Role(w[i]) = other, Role(w[j]) = other PROVE i = j
    BY <1>7 DEF AtMostOne
  <2> DEFINE a == IF i < h THEN i ELSE i + 1
             b == IF j < h THEN j ELSE j + 1
  <2>1. a \in 1..Len(messages) /\ b \in 1..Len(messages) /\ w[i] = messages[a] /\ w[j] = messages[b]
    BY <1>6, <1>8
  <2>2. a = b
    <3> HIDE DEF a, b
    <3> QED
      BY <1>1, <1>10, <2>1 DEF AtMostOne
  <2> QED
    BY <1>3, <1>7, <2>2
<1> QED
  BY <1>3, <1>5, <1>6, <1>8, <1>9, <1>10 DEF w, NoneOf

\* The prompt's own messages are what is left when a question and an answer have
\* been removed.
LEMMA OwnIs ==
  ASSUME NEW S, NEW messages \in Seq(S), AtMostOne(messages, <<"user">>), AtMostOne(messages, <<"assistant">>),
         NEW own, own = Without(Without(messages, <<"user">>), <<"assistant">>)
  PROVE  /\ own \in Seq(S) /\ NoneOf(own, <<"user">>) /\ NoneOf(own, <<"assistant">>)
         /\ Del(Del(messages, <<"user">>), <<"assistant">>) = own
<1> DEFINE w == Without(messages, <<"user">>)
<1> HIDE DEF w
<1> QED
  BY DelOnly DEF w

\* A message between those that have another role is removed.
LEMMA DelMiddle ==
  ASSUME NEW S, NEW a \in Seq(S), NEW x \in S, NEW b \in Seq(S), NEW role, NoneOf(a, role), Role(x) = role
  PROVE  Del(a \o <<x>> \o b, role) = a \o b
<1> DEFINE m == a \o <<x>> \o b
           h == Len(a) + 1
           w == a \o b
<1>1. /\ w \in Seq(S) /\ Len(w) = Len(a) + Len(b) /\ Len(a) \in Nat /\ Len(b) \in Nat
      /\ \A k \in 1..Len(a) : w[k] = a[k]
      /\ \A k \in 1..Len(b) : w[Len(a) + k] = b[k]
  OBVIOUS
<1>2. /\ m \in Seq(S) /\ Len(m) = Len(a) + 1 + Len(b)
      /\ \A k \in 1..Len(a) : m[k] = a[k]
      /\ m[Len(a) + 1] = x
      /\ \A k \in 1..Len(b) : m[Len(a) + 1 + k] = b[k]
  <2> DEFINE c == a \o <<x>>
  <2> HIDE DEF c
  <2> QED
    BY <1>1 DEF c
<1> HIDE DEF m, w
<1>3. h \in 1..Len(m) /\ Role(m[h]) = role
  BY <1>1, <1>2
<1>4. \A i \in 1..(h - 1) : Role(m[i]) # role
  <2> SUFFICES ASSUME NEW i \in 1..(h - 1) PROVE Role(m[i]) # role
    OBVIOUS
  <2> QED
    BY <1>1, <1>2 DEF NoneOf
<1>5. Skips(Del(m, role), m, S, Len(m), h)
  BY <1>2, <1>3, <1>4, DelFirst
<1>6. ASSUME NEW k \in 1..Len(w) PROVE w[k] = m[IF k < h THEN k ELSE k + 1]
  <2>1. CASE k < h
    BY <1>1, <1>2, <2>1
  <2>2. CASE ~(k < h)
    <3>1. PICK j \in 1..Len(b) : k = Len(a) + j
      <4>1. k - Len(a) \in 1..Len(b) /\ k = Len(a) + (k - Len(a))
        BY <1>1, <2>2
      <4> QED
        BY <4>1
    <3> QED
      BY <1>1, <1>2, <2>2, <3>1
  <2> QED
    BY <2>1, <2>2
<1>7. Skips(w, m, S, Len(m), h)
  BY <1>1, <1>2, <1>6 DEF Skips
<1>8. Del(m, role) = w
  BY <1>2, <1>3, <1>5, <1>7, SkipsUnique
<1> QED
  BY <1>8 DEF m, w

\* The question and the answer of the request before are taken out again.
LEMMA DelAppended ==
  ASSUME NEW n \in 2..Top, NEW own \in Seq(Values[n]), NoneOf(own, <<"user">>), NoneOf(own, <<"assistant">>),
         NEW user \in Strings \cup {NULL}, NEW assistant \in Strings \cup {NULL}
  PROVE  /\ own \o Message(<<"user">>, user) \o Message(<<"assistant">>, assistant) \in Seq(Values[n])
         /\ Del(Del(own \o Message(<<"user">>, user) \o Message(<<"assistant">>, assistant), <<"user">>), <<"assistant">>) = own
<1> DEFINE S == Values[n]
           mu == Message(<<"user">>, user)
           ma == Message(<<"assistant">>, assistant)
<1>1. \A role \in Roles, text \in Strings \cup {NULL} :
        Message(role, text) = <<>> \/ \E m \in S : Message(role, text) = <<m>> /\ Role(m) = role
  <2> SUFFICES ASSUME NEW role \in Roles, NEW text \in Strings \cup {NULL}
               PROVE  Message(role, text) = <<>> \/ \E m \in S : Message(role, text) = <<m>> /\ Role(m) = role
    OBVIOUS
  <2> QED
    BY NewMessageIs, ValuesUpTo, Levels DEF Message, Contains, NULL
<1>2. <<"user">> \in Roles /\ <<"assistant">> \in Roles /\ <<"user">> # <<"assistant">>
  BY WordsAre DEF Roles
<1>3. mu = <<>> \/ \E m \in S : mu = <<m>> /\ Role(m) = <<"user">>
  BY <1>1, <1>2
<1>4. ma = <<>> \/ \E m \in S : ma = <<m>> /\ Role(m) = <<"assistant">>
  BY <1>1, <1>2
<1> HIDE DEF mu, ma, S
<1>5. mu \in Seq(S) /\ ma \in Seq(S) /\ own \in Seq(S) /\ own \o mu \in Seq(S) /\ own \o mu \o ma \in Seq(S) /\ own \o ma \in Seq(S)
  <2>1. mu \in Seq(S) /\ ma \in Seq(S)
    <3>1. \A m \in S : <<m>> \in Seq(S)
      OBVIOUS
    <3>2. <<>> \in Seq(S)
      OBVIOUS
    <3> QED
      BY <1>3, <1>4, <3>1, <3>2
  <2> QED
    BY <2>1 DEF S
<1>6. NoneOf(own \o ma, <<"user">>)
  <2> SUFFICES ASSUME NEW i \in 1..Len(own \o ma) PROVE Role((own \o ma)[i]) # <<"user">>
    BY DEF NoneOf
  <2>1. /\ Len(own \o ma) = Len(own) + Len(ma) /\ Len(own) \in Nat /\ Len(ma) \in Nat
        /\ (own \o ma)[i] = IF i <= Len(own) THEN own[i] ELSE ma[i - Len(own)]
    BY <1>5
  <2>2. CASE ~(i <= Len(own))
    <3>1. \A k \in 1..Len(ma) : Role(ma[k]) = <<"assistant">>
      <4>1. ASSUME NEW m \in S, ma = <<m>>, Role(m) = <<"assistant">> PROVE \A k \in 1..Len(ma) : Role(ma[k]) = <<"assistant">>
        BY <4>1
      <4> QED
        BY <1>4, <4>1
    <3> QED
      BY <1>2, <2>1, <2>2, <3>1
  <2> QED
    BY <2>1, <2>2 DEF NoneOf
<1>7. Del(own \o mu \o ma, <<"user">>) = own \o ma
  <2>1. CASE mu = <<>>
    <3>1. Del(own \o ma, <<"user">>) = own \o ma
      BY <1>5, <1>6, DelFirst
    <3> QED
      BY <1>5, <2>1, <3>1
  <2>2. ASSUME NEW m \in S, mu = <<m>>, Role(m) = <<"user">> PROVE Del(own \o mu \o ma, <<"user">>) = own \o ma
    BY <1>5, <2>2, DelMiddle
  <2> QED
    BY <1>3, <2>1, <2>2
<1>8. Del(own \o ma, <<"assistant">>) = own
  <2>1. CASE ma = <<>>
    BY <1>5, <2>1, DelFirst
  <2>2. ASSUME NEW m \in S, ma = <<m>>, Role(m) = <<"assistant">> PROVE Del(own \o ma, <<"assistant">>) = own
    <3>1. own \o ma \o <<>> = own \o ma /\ own \o <<>> = own /\ <<>> \in Seq(S)
      BY <1>5
    <3>2. \A b \in Seq(S) : Del(own \o <<m>> \o b, <<"assistant">>) = own \o b
      BY <1>5, <2>2, DelMiddle
    <3> QED
      BY <2>2, <3>1, <3>2
  <2> QED
    BY <1>4, <2>1, <2>2
<1> QED
  BY <1>5, <1>7, <1>8 DEF mu, ma, S

\* A question or an answer is appended if there is one.
LEMMA GivenIs ==
  ASSUME NEW n \in 2..Top, NEW messages \in Seq(Values[n]), NEW role \in Roles, NEW text \in Strings \cup {NULL}
  PROVE  /\ Given(Array(messages), role, text) = Array(messages \o Message(role, text))
         /\ messages \o Message(role, text) \in Seq(Values[n])
<1>1. CASE text = NULL
  <2>1. Message(role, text) = <<>>
    BY <1>1 DEF Message, Contains, NULL
  <2> QED
    BY <1>1, <2>1 DEF Given
<1>2. CASE text \in Strings
  <2> DEFINE m == NewMessage(role, text)
  <2>1. m \in Values[2] /\ Message(role, text) = <<m>>
    BY <1>2, NewMessageIs
  <2>2. m \in Values[n] /\ m # Error
    BY <2>1, ValuesNoError, ValuesUpTo, Levels
  <2>3. Given(Array(messages), role, text) = json_array_append_value(Array(messages), m)
    BY <1>2, NoNull DEF Given
  <2> HIDE DEF m
  <2>4. Append(messages, m) = messages \o <<m>> /\ messages \o <<m>> \in Seq(Values[n])
    <3> DEFINE S == Values[n]
               a == Append(messages, m)
               b == messages \o <<m>>
    <3>1. messages \in Seq(S) /\ m \in S
      BY <2>2
    <3> HIDE DEF S
    <3>2. b \in Seq(S) /\ Len(b) = Len(messages) + 1 /\ b[Len(messages) + 1] = m /\ \A i \in 1..Len(messages) : b[i] = messages[i]
      BY <3>1
    <3> HIDE DEF a, b
    <3> QED
      BY <3>1, <3>2, SeqEqual, AppendIs DEF a, b, S
  <2> QED
    BY <2>1, <2>2, <2>3, <2>4, AppendTo
<1> QED
  BY <1>1, <1>2

\* What becomes of the messages.
Renewed(messages, user, assistant) ==
  Del(Del(messages, <<"user">>), <<"assistant">>)
    \o Message(<<"user">>, user) \o Message(<<"assistant">>, assistant)

\* The messages of a request are what is left of the old ones, and its own.
LEMMA ConversationIs ==
  ASSUME NEW n \in 2..Top, NEW messages \in Seq(Values[n]),
         NEW user \in Strings \cup {NULL}, NEW assistant \in Strings \cup {NULL}
  PROVE  /\ Conversation(Array(messages), user, assistant) = Array(Renewed(messages, user, assistant))
         /\ Renewed(messages, user, assistant) \in Seq(Values[n])
<1> DEFINE S == Values[n]
           a == Del(messages, <<"user">>)
           b == Del(a, <<"assistant">>)
           c == b \o Message(<<"user">>, user)
<1>1. <<"user">> \in Roles /\ <<"assistant">> \in Roles
  BY DEF Roles
<1>2. del_existing_msgs(Array(messages), <<"user">>) = Array(a) /\ a \in Seq(S)
  BY DelIs
<1> HIDE DEF a
<1>3. del_existing_msgs(Array(a), <<"assistant">>) = Array(b) /\ b \in Seq(S)
  BY <1>2, DelIs
<1> HIDE DEF b
<1>4. Given(Array(b), <<"user">>, user) = Array(c) /\ c \in Seq(S)
  BY <1>1, <1>3, GivenIs
<1> HIDE DEF c
<1>5. Given(Array(c), <<"assistant">>, assistant) = Array(c \o Message(<<"assistant">>, assistant))
      /\ c \o Message(<<"assistant">>, assistant) \in Seq(S)
  BY <1>1, <1>4, GivenIs
<1> QED
  BY <1>2, <1>3, <1>4, <1>5 DEF Conversation, Renewed, a, b, c

\* The array of messages, if a document has one.
LEMMA MessagesIs ==
  ASSUME NEW v \in Documents, NEW name
  PROVE  /\ json_object_get_array(v, name) = Error \/
              \E messages \in Seq(Values[Top - 2]) :
                json_object_get_array(v, name) = Array(messages) /\ json_object_get_value(v, name) = Array(messages)
         /\ json_object_get_array(v, name) # Error => json_object_get_array(v, name) = json_object_get_value(v, name)
<1> DEFINE a == json_object_get_value(v, name)
<1> HIDE DEF a
<1> QED
  BY Levels, ValueIs, GetIs, ValueFields DEF a, json_object_get_array

\* What a document under a name has after it has been prepared.
PreparedItem(v, x, user, assistant) ==
  CASE x = <<"temperature">> -> Number(Temperature)
    [] x = <<"max_tokens">> -> Number(MaxTokens)
    [] x = <<"messages">> /\ json_object_get_array(v, <<"messages">>) # Error ->
         Array(Renewed(json_object_get_array(v, <<"messages">>).items, user, assistant))
    [] OTHER -> json_object_get_value(v, x)

\* r is v as a request has prepared it: nothing else has been changed.
IsPrepared(r, v, user, assistant) ==
  /\ r \in Documents /\ r.type = "object"
  /\ IsPrefix(v.names, r.names)
  /\ ToSet(r.names) = ToSet(v.names) \cup {<<"temperature">>, <<"max_tokens">>}
  /\ \A x : json_object_get_value(r, x) = PreparedItem(v, x, user, assistant)

\* A prefix of a prefix.
LEMMA PrefixTwice ==
  ASSUME NEW a \in Seq(Names), NEW b \in Seq(Names), NEW c \in Seq(Names), IsPrefix(a, b), IsPrefix(b, c)
  PROVE  IsPrefix(a, c)
BY PrefixOf

\* A request prepares an object, and leaves what is none as it is.
LEMMA PreparedIs ==
  ASSUME NEW v \in Documents, NEW user \in Strings \cup {NULL}, NEW assistant \in Strings \cup {NULL}
  PROVE  /\ v.type # "object" => Prepared(v, user, assistant) = v
         /\ v.type = "object" => IsPrepared(Prepared(v, user, assistant), v, user, assistant)
         /\ Prepared(v, user, assistant) \in Documents
<1> DEFINE first == json_object_set_value(v, <<"temperature">>, json_value_init_number(Temperature))
           numbered == json_object_set_value(first, <<"max_tokens">>, json_value_init_number(MaxTokens))
           messages == json_object_get_array(numbered, <<"messages">>)
           new == Conversation(messages, user, assistant)
           r == IF messages = Error THEN numbered ELSE json_object_set_value(numbered, <<"messages">>, new)
<1>1. Prepared(v, user, assistant) = r
  BY Zenon DEF Prepared
<1>2. CASE v.type # "object"
  <2>1. numbered = v
    BY <1>2, SetRefused
  <2>2. messages = Error
    BY <1>2, <2>1, ValueFields, GetOfError, Levels, ValueIs DEF json_object_get_array
  <2> HIDE DEF first, numbered, messages, new
  <2> QED
    BY <1>1, <1>2, <2>1, <2>2
<1>3. CASE v.type = "object"
  <2>1. /\ json_value_init_number(Temperature) = Number(Temperature) /\ Number(Temperature) \in Values[Top - 1]
        /\ json_value_init_number(MaxTokens) = Number(MaxTokens) /\ Number(MaxTokens) \in Values[Top - 1]
    BY OpenAiAssumption, Levels, InitNumber
  <2>2. Top \in 1..Top /\ Documents = Values[Top] /\ <<"temperature">> \in Names /\ <<"max_tokens">> \in Names /\ <<"messages">> \in Names
    BY Levels, WordsAre
  <2>3. IsSet(first, v, <<"temperature">>, Number(Temperature), Top)
    BY <1>3, <2>1, <2>2, SetIs
  <2> HIDE DEF first
  <2>4. first \in Values[Top] /\ first.type = "object"
    BY <2>3 DEF IsSet
  <2>5. IsSet(numbered, first, <<"max_tokens">>, Number(MaxTokens), Top)
    BY <2>1, <2>2, <2>4, SetIs
  <2> HIDE DEF numbered
  <2>6. numbered \in Values[Top] /\ numbered.type = "object"
    BY <2>5 DEF IsSet
  <2>7. v.names \in Seq(Names) /\ first.names \in Seq(Names) /\ numbered.names \in Seq(Names)
    BY <2>2, <2>4, <2>6, ValueIs
  <2>8. IsPrefix(v.names, numbered.names)
    BY <2>3, <2>5, <2>7, PrefixTwice DEF IsSet
  <2>9. ToSet(numbered.names) = ToSet(v.names) \cup {<<"temperature">>, <<"max_tokens">>}
    BY <2>3, <2>5 DEF IsSet
  <2>10. \A x : json_object_get_value(numbered, x) =
                  IF x = <<"max_tokens">> THEN Number(MaxTokens)
                  ELSE IF x = <<"temperature">> THEN Number(Temperature) ELSE json_object_get_value(v, x)
    BY <2>3, <2>5 DEF IsSet
  <2>11. messages = json_object_get_array(v, <<"messages">>)
    BY <2>10, WordsAre DEF json_object_get_array
  <2>12. <<"temperature">> # <<"max_tokens">> /\ <<"temperature">> # <<"messages">> /\ <<"max_tokens">> # <<"messages">>
    BY WordsAre
  <2> HIDE DEF messages, new
  <2>13. CASE messages = Error
    <3>1. r = numbered
      BY <2>13
    <3>2. ASSUME NEW x PROVE json_object_get_value(r, x) = PreparedItem(v, x, user, assistant)
      BY <2>10, <2>11, <2>12, <2>13, <3>1 DEF PreparedItem
    <3>3. IsPrepared(r, v, user, assistant)
      BY <2>2, <2>6, <2>8, <2>9, <3>1, <3>2, Zenon DEF IsPrepared
    <3> QED
      BY <1>1, <1>3, <2>2, <2>6, <3>1, <3>3
  <2>14. CASE messages # Error
    <3>1. PICK old \in Seq(Values[Top - 2]) : messages = Array(old) /\ json_object_get_value(v, <<"messages">>) = Array(old)
      BY <2>11, <2>14, MessagesIs
    <3> DEFINE list == Renewed(old, user, assistant)
    <3>2. new = Array(list) /\ list \in Seq(Values[Top - 2])
      <4>1. Top - 2 \in 2..Top
        BY Levels
      <4>2. /\ Conversation(Array(old), user, assistant) = Array(list)
            /\ list \in Seq(Values[Top - 2])
        BY <3>1, <4>1, ConversationIs, Zenon
      <4> QED
        BY <3>1, <4>2 DEF new
    <3> HIDE DEF list
    <3>3. IsSet(r, numbered, <<"messages">>, Array(list), Top)
      BY <2>2, <2>6, <2>14, <3>2, SetIs, ValuesBy, Levels DEF IsArrayOf
    <3> HIDE DEF r
    <3>4. r \in Values[Top] /\ r.type = "object" /\ IsPrefix(numbered.names, r.names)
          /\ ToSet(r.names) = ToSet(numbered.names) \cup {<<"messages">>}
      BY <3>3 DEF IsSet
    <3>5. IsPrefix(v.names, r.names)
      BY <2>2, <2>7, <2>8, <3>4, PrefixTwice, ValueIs
    <3>6. <<"messages">> \in ToSet(v.names)
      <4>1. json_object_get_value(v, <<"messages">>) # Error
        BY <3>1 DEF Array, Error, Value
      <4>2. DOMAIN v.names = 1..Len(v.names)
        BY <2>7
      <4> QED
        BY <2>2, <4>1, <4>2, GetIs DEF ToSet
    <3>7. messages.items = old
      BY <3>1, ValueFields
    <3>8. ASSUME NEW x PROVE json_object_get_value(r, x) = PreparedItem(v, x, user, assistant)
      BY <2>10, <2>11, <2>12, <2>14, <3>3, <3>7 DEF PreparedItem, list, IsSet
    <3>9. IsPrepared(r, v, user, assistant)
      BY <2>2, <2>9, <3>4, <3>5, <3>6, <3>8 DEF IsPrepared
    <3> QED
      BY <1>1, <1>3, <2>2, <3>4, <3>9
  <2> QED
    BY <2>13, <2>14
<1> QED
  BY <1>2, <1>3

-----------------------------------------------------------------------------
(* dx_jsonSerialize.                                                       *)

\* The object of the first n triples, from that of the triples before.
ObjectBody(list, f, n) ==
  IF n = 0 THEN Object(<<>>, <<>>) ELSE SetTriple(f[n - 1], list[n])

\* There is such an object for every number of triples.
LEMMA SerializedExists ==
  ASSUME NEW list, NEW N \in Nat
  PROVE  \E f : f = [k \in 0..N |-> ObjectBody(list, f, k)]
<1> DEFINE B(f, k) == ObjectBody(list, f, k)
           Upto(m, f) == f = [k \in 0..m |-> B(f, k)]
           G == {m \in 0..N : \E f : Upto(m, f)}
<1>1. 0 \in G
  <2> DEFINE f == [k \in 0..0 |-> Object(<<>>, <<>>)]
  <2>1. \A k \in 0..0 : B(f, k) = Object(<<>>, <<>>)
    <3> TAKE k \in 0..0
    <3> HIDE DEF f
    <3> QED
      BY DEF ObjectBody
  <2>2. Upto(0, f)
    BY <2>1
  <2> HIDE DEF f, Upto
  <2> QED
    BY <2>2
<1>2. ASSUME NEW x \in 1..N, x - 1 \in G PROVE x \in G
  <2>1. PICK f : Upto(x - 1, f)
    BY <1>2
  <2> DEFINE h == [k \in 0..x |-> IF k = x THEN B(f, k) ELSE f[k]]
  <2>2. ASSUME NEW k \in 0..x PROVE h[k] = B(h, k)
    <3> HIDE DEF h
    <3> QED
      BY <2>1 DEF h, ObjectBody
  <2>3. Upto(x, h)
    <3>1. h = [k \in 0..x |-> h[k]]
      OBVIOUS
    <3> HIDE DEF h
    <3> QED
      BY <2>2, <3>1
  <2> HIDE DEF h, Upto
  <2> QED
    BY <2>3
<1>3. N \in G
  <2> HIDE DEF G
  <2> QED
    BY <1>1, <1>2, Inductive
<1> QED
  BY <1>3

\* The object, triple by triple.
Grows(f, list) ==
  /\ f[0] = Object(<<>>, <<>>)
  /\ \A n \in 1..Len(list) : f[n] = SetTriple(f[n - 1], list[n])

\* dx_jsonSerialize writes the last one.
LEMMA SerializedIs ==
  ASSUME NEW S, NEW list \in Seq(S)
  PROVE  \E f : Grows(f, list) /\ Serialized(list) = json_serialize_to_string(f[Len(list)])
<1> DEFINE N == Len(list)
           object == CHOOSE f : f = [k \in 0..N |-> ObjectBody(list, f, k)]
<1>1. N \in Nat
  OBVIOUS
<1>2. object = [k \in 0..N |-> ObjectBody(list, object, k)]
  <2> HIDE DEF N
  <2> QED
    BY <1>1, SerializedExists
<1>3. Serialized(list) = json_serialize_to_string(object[N])
  BY Zenon DEF Serialized, ObjectBody
<1> HIDE DEF object, N
<1> QED
  BY <1>1, <1>2, <1>3 DEF N, Grows, ObjectBody

\* The value of a triple, if it has one, and that it is set then.
LEMMA ItemIs ==
  ASSUME NEW t, IsTriple(t)
  PROVE  /\ t.key \in Names \cup {NULL}
         /\ Item(t) \in Values[1] \cup {Error}
         /\ Lasting(t) <=> t.key # NULL /\ Item(t) # Error
<1>1. t.key \in Names \cup {NULL}
  BY DEF Names, IsTriple
<1>2. 1 \in 1..Top
  BY Levels
<1>3. CASE t.type = "DX_JSON_STRING"
  <2>1. Item(t) = (IF t.value = NULL \/ Contains(t.value, "BAD") THEN Error ELSE String(t.value))
        /\ Item(t) \in Values[1] \cup {Error}
    BY <1>2, <1>3, InitString DEF IsTriple, Item, Numeric
  <2> QED
    BY <1>1, <1>3, <2>1 DEF Lasting, Numeric, String, Error, Value
<1>4. CASE t.type = "DX_JSON_BOOL"
  <2>1. Item(t) \in Values[1] /\ Item(t) # Error
    BY <1>2, <1>4, ValuesBy DEF IsPlain, IsTriple, Numeric, Boolean, Error, Value, Item
  <2> QED
    BY <1>1, <1>4, <2>1 DEF Lasting, Numeric
<1>5. CASE t.type \in Numeric
  <2>1. Item(t) = json_value_init_number(t.value)
    BY <1>5 DEF Item, Numeric
  <2>2. Lasting(t) <=> t.key # NULL /\ ~Contains(t.value, "inf")
    BY <1>5 DEF Lasting, Numeric
  <2>3. CASE t.value \in Strings /\ IsDouble(t.value)
    <3>1. Number(t.value) # Error
      BY DEF Number, Error, Value
    <3> QED
      BY <1>1, <1>2, <2>1, <2>2, <2>3, <3>1, InitNumber
  <2> QED
    BY <1>1, <1>5, <2>1, <2>2, <2>3 DEF IsTriple, Numeric, json_value_init_number, Contains
<1>6. CASE t.type \notin {"DX_JSON_STRING", "DX_JSON_BOOL"} \cup Numeric
  BY <1>1, <1>6 DEF Item, Lasting
<1> QED
  BY <1>3, <1>4, <1>5, <1>6

\* A name and its item, place by place, after it has been set.
LEMMA SetPlaces ==
  ASSUME NEW n \in 1..Top, NEW v \in Values[n], v.type = "object", NEW name \in Names, NEW item \in Values[n - 1],
         NEW r, r = json_object_set_value(v, name, item)
  PROVE  /\ r \in Values[n] /\ r.type = "object"
         /\ Len(v.names) \in Nat /\ Len(r.names) \in Nat /\ Len(v.names) <= Len(r.names) /\ IsInjective(r.names)
         /\ DOMAIN r.names = 1..Len(r.names)
         /\ \A i \in 1..Len(v.names) : r.names[i] = v.names[i]
         /\ \A i \in 1..Len(r.names) :
              \/ r.names[i] = name /\ r.items[i] = item
              \/ r.names[i] # name /\ i \in 1..Len(v.names) /\ r.items[i] = v.items[i]
         /\ \E i \in 1..Len(r.names) : r.names[i] = name
<1>1. IsSet(r, v, name, item, n)
  BY SetIs
<1>2. r \in Values[n] /\ r.type = "object" /\ IsPrefix(v.names, r.names) /\ ToSet(r.names) = ToSet(v.names) \cup {name}
  BY <1>1 DEF IsSet
<1>3. \A x : json_object_get_value(r, x) = IF x = name THEN item ELSE json_object_get_value(v, x)
  BY <1>1, Zenon DEF IsSet
<1>4. r.names \in Seq(Names) /\ v.names \in Seq(Names) /\ IsInjective(r.names)
  BY <1>2, ValueIs
<1>5. /\ Len(v.names) \in Nat /\ Len(r.names) \in Nat /\ Len(v.names) <= Len(r.names)
      /\ DOMAIN r.names = 1..Len(r.names) /\ DOMAIN v.names = 1..Len(v.names)
      /\ \A i \in 1..Len(v.names) : r.names[i] = v.names[i]
  BY <1>2, <1>4, PrefixNames, Zenon
<1>6. \E i \in 1..Len(r.names) : r.names[i] = name
  <2>1. name \in ToSet(r.names)
    BY <1>2
  <2> QED
    BY <1>5, <2>1, Zenon DEF ToSet
<1>7. ASSUME NEW i \in 1..Len(r.names)
      PROVE  \/ r.names[i] = name /\ r.items[i] = item
             \/ r.names[i] # name /\ i \in 1..Len(v.names) /\ r.items[i] = v.items[i]
  <2>1. json_object_get_value(r, r.names[i]) = r.items[i]
    BY <1>2, GetIs
  <2>2. CASE r.names[i] # name
    <3>1. r.names[i] \in ToSet(v.names)
      BY <1>2, <1>5, <2>2 DEF ToSet
    <3>2. PICK j \in 1..Len(v.names) : r.names[i] = v.names[j]
      BY <1>5, <3>1 DEF ToSet
    <3>3. j \in 1..Len(r.names) /\ r.names[j] = r.names[i]
      BY <1>5, <3>2
    <3>4. i = j
      BY <1>4, <1>5, <3>3 DEF IsInjective
    <3> QED
      BY <1>3, <2>1, <2>2, <3>2, <3>4, GetIs
  <2> QED
    BY <1>3, <2>1, <2>2
<1> QED
  BY <1>2, <1>4, <1>5, <1>6, <1>7

\* The triple at i sets a name.
Sets(list, i, name) == Lasting(list[i]) /\ list[i].key = name

\* An object of the first n triples.
ObjectUpTo(v, list, n) ==
  /\ v \in Values[2] /\ v.type = "object"
  /\ \A i \in 1..n : Lasting(list[i]) => \E k \in 1..Len(v.names) : v.names[k] = list[i].key
  /\ \A k \in 1..Len(v.names) :
       \E i \in 1..n : /\ Sets(list, i, v.names[k]) /\ v.items[k] = Item(list[i])
                       /\ \A later \in 1..n : Sets(list, later, v.names[k]) => later <= i
  /\ \A j, k \in 1..Len(v.names) : j < k =>
       \A i \in 1..n : Sets(list, i, v.names[k]) => \E earlier \in 1..n : earlier < i /\ Sets(list, earlier, v.names[j])

\* One more triple.
LEMMA ObjectStep ==
  ASSUME NEW list, NEW n \in Nat \ {0}, NEW v, ObjectUpTo(v, list, n - 1), IsTriple(list[n])
  PROVE  ObjectUpTo(SetTriple(v, list[n]), list, n)
<1> DEFINE t == list[n]
           r == SetTriple(v, t)
<1>1. v \in Values[2] /\ v.type = "object" /\ 2 \in 1..Top /\ 2 - 1 = 1
  BY Levels DEF ObjectUpTo
<1>2. \A i \in 1..(n - 1) : Lasting(list[i]) => \E k \in 1..Len(v.names) : v.names[k] = list[i].key
  BY Zenon DEF ObjectUpTo
<1>3. \A k \in 1..Len(v.names) :
       \E i \in 1..(n - 1) : /\ Sets(list, i, v.names[k]) /\ v.items[k] = Item(list[i])
                             /\ \A later \in 1..(n - 1) : Sets(list, later, v.names[k]) => later <= i
  BY Zenon DEF ObjectUpTo
<1>4. \A j, k \in 1..Len(v.names) : j < k =>
       \A i \in 1..(n - 1) : Sets(list, i, v.names[k]) => \E earlier \in 1..(n - 1) : earlier < i /\ Sets(list, earlier, v.names[j])
  BY Zenon DEF ObjectUpTo
<1>5. /\ t.key \in Names \cup {NULL}
      /\ Item(t) \in Values[1] \cup {Error}
      /\ Lasting(t) <=> t.key # NULL /\ Item(t) # Error
  BY ItemIs
<1>6. r = json_object_set_value(v, t.key, Item(t))
  BY DEF SetTriple
<1>7. n \in 1..n /\ \A i \in 1..n : i \in 1..(n - 1) \/ i = n
  OBVIOUS
<1>8. \A i \in 1..(n - 1) : i \in 1..n /\ i < n /\ i <= n
  OBVIOUS
<1>9. CASE ~Lasting(t)
  <2>1. \A name : ~Sets(list, n, name)
    BY <1>9 DEF Sets
  <2>2. ASSUME NEW k \in 1..Len(v.names)
        PROVE  \E i \in 1..n : /\ Sets(list, i, v.names[k]) /\ v.items[k] = Item(list[i])
                               /\ \A later \in 1..n : Sets(list, later, v.names[k]) => later <= i
    <3>1. PICK i \in 1..(n - 1) : /\ Sets(list, i, v.names[k]) /\ v.items[k] = Item(list[i])
                                  /\ \A later \in 1..(n - 1) : Sets(list, later, v.names[k]) => later <= i
      BY <1>3
    <3> QED
      BY <1>7, <1>8, <2>1, <3>1
  <2>3. \A j, k \in 1..Len(v.names) : j < k =>
         \A i \in 1..n : Sets(list, i, v.names[k]) => \E earlier \in 1..n : earlier < i /\ Sets(list, earlier, v.names[j])
    BY <1>4, <1>7, <1>8, <2>1
  <2>4. ObjectUpTo(v, list, n)
    BY <1>1, <1>2, <1>7, <1>9, <2>2, <2>3 DEF ObjectUpTo
  <2> QED
    BY <1>5, <1>6, <1>9, <2>4, SetRefused
<1>10. CASE Lasting(t)
  <2>1. t.key \in Names /\ Item(t) \in Values[2 - 1]
    BY <1>1, <1>5, <1>10
  <2> DEFINE name == t.key
             item == Item(t)
  <2>2. /\ r \in Values[2] /\ r.type = "object"
        /\ Len(v.names) \in Nat /\ Len(r.names) \in Nat /\ Len(v.names) <= Len(r.names) /\ IsInjective(r.names)
        /\ DOMAIN r.names = 1..Len(r.names)
        /\ \A i \in 1..Len(v.names) : r.names[i] = v.names[i]
        /\ \A i \in 1..Len(r.names) :
             \/ r.names[i] = name /\ r.items[i] = item
             \/ r.names[i] # name /\ i \in 1..Len(v.names) /\ r.items[i] = v.items[i]
        /\ \E i \in 1..Len(r.names) : r.names[i] = name
    BY <1>1, <1>6, <2>1, SetPlaces, SMTT(30)
  <2>3. \A x : Sets(list, n, x) <=> x = name
    BY <1>10 DEF Sets
  <2>4. item = Item(list[n]) /\ name = list[n].key
    OBVIOUS
  <2> HIDE DEF r, name, item, t
  <2>5. \A i \in 1..n : Lasting(list[i]) => \E k \in 1..Len(r.names) : r.names[k] = list[i].key
    <3> SUFFICES ASSUME NEW i \in 1..n, Lasting(list[i]) PROVE \E k \in 1..Len(r.names) : r.names[k] = list[i].key
      OBVIOUS
    <3>1. CASE i # n
      <4>1. PICK k \in 1..Len(v.names) : v.names[k] = list[i].key
        BY <1>2, <1>7, <3>1
      <4> QED
        BY <2>2, <4>1
    <3> QED
      BY <2>2, <2>4, <3>1
  <2>6. ASSUME NEW k \in 1..Len(r.names)
        PROVE  \E i \in 1..n : /\ Sets(list, i, r.names[k]) /\ r.items[k] = Item(list[i])
                               /\ \A later \in 1..n : Sets(list, later, r.names[k]) => later <= i
    <3>1. CASE r.names[k] # name
      <4>1. k \in 1..Len(v.names) /\ r.items[k] = v.items[k] /\ r.names[k] = v.names[k]
        BY <2>2, <3>1
      <4>2. PICK i \in 1..(n - 1) : /\ Sets(list, i, v.names[k]) /\ v.items[k] = Item(list[i])
                                    /\ \A later \in 1..(n - 1) : Sets(list, later, v.names[k]) => later <= i
        BY <1>3, <4>1
      <4>3. ~Sets(list, n, r.names[k])
        BY <2>3, <3>1
      <4> QED
        BY <1>7, <1>8, <4>1, <4>2, <4>3
    <3> QED
      BY <1>7, <2>2, <2>3, <2>4, <3>1
  <2>7. ASSUME NEW j \in 1..Len(r.names), NEW k \in 1..Len(r.names), j < k, NEW i \in 1..n, Sets(list, i, r.names[k])
        PROVE  \E earlier \in 1..n : earlier < i /\ Sets(list, earlier, r.names[j])
    <3>1. CASE k \in 1..Len(v.names)
      <4>1. j \in 1..Len(v.names) /\ r.names[j] = v.names[j] /\ r.names[k] = v.names[k]
        BY <2>2, <2>7, <3>1
      <4>2. CASE i = n
        <5>1. PICK i0 \in 1..(n - 1) : Sets(list, i0, v.names[k])
          BY <1>3, <3>1
        <5>2. PICK earlier \in 1..(n - 1) : earlier < i0 /\ Sets(list, earlier, v.names[j])
          BY <1>4, <2>7, <3>1, <4>1, <5>1
        <5> QED
          BY <1>8, <4>1, <4>2, <5>2
      <4>3. CASE i # n
        <5>1. PICK earlier \in 1..(n - 1) : earlier < i /\ Sets(list, earlier, v.names[j])
          BY <1>4, <1>7, <2>7, <3>1, <4>1, <4>3
        <5> QED
          BY <1>8, <4>1, <5>1
      <4> QED
        BY <4>2, <4>3
    <3>2. CASE k \notin 1..Len(v.names)
      <4>1. r.names[k] = name
        BY <2>2, <3>2
      <4>2. r.names[j] # name
        <5>1. j # k
          BY <2>2, <2>7
        <5> QED
          BY <2>2, <4>1, <5>1 DEF IsInjective
      <4>3. j \in 1..Len(v.names) /\ r.names[j] = v.names[j]
        BY <2>2, <4>2
      <4>4. PICK earlier \in 1..(n - 1) : Sets(list, earlier, v.names[j])
        BY <1>3, <4>3
      <4>5. i = n
        <5> SUFFICES ASSUME i # n PROVE FALSE
          OBVIOUS
        <5>1. PICK m \in 1..Len(v.names) : v.names[m] = name
          BY <1>2, <1>7, <2>7, <4>1 DEF Sets
        <5>2. m \in 1..Len(r.names) /\ r.names[m] = r.names[k] /\ m # k
          BY <2>2, <3>2, <4>1, <5>1, SMTT(30)
        <5> QED
          BY <2>2, <5>2 DEF IsInjective
      <4> QED
        BY <1>8, <4>3, <4>4, <4>5
    <3> QED
      BY <3>1, <3>2
  <2> QED
    BY <2>2, <2>5, <2>6, <2>7 DEF r, t, ObjectUpTo
<1> QED
  BY <1>9, <1>10

\* The text of some triples is that of an object with the last value of each name.
LEMMA SerializedObject ==
  ASSUME NEW list \in Calls
  PROVE  \E v \in Values[2] : Serialized(list) = json_serialize_to_string(v) /\ IsObjectOf(v, list)
<1> DEFINE N == Len(list)
<1>1. list \in Seq(ToSet(list)) /\ \A i \in DOMAIN list : IsTriple(list[i])
  BY OpenAiAssumption
<1>2. N \in Nat /\ DOMAIN list = 1..N
  BY <1>1
<1>3. PICK f : Grows(f, list) /\ Serialized(list) = json_serialize_to_string(f[N])
  BY <1>1, SerializedIs
<1>4. f[0] = Object(<<>>, <<>>) /\ \A n \in 1..N : f[n] = SetTriple(f[n - 1], list[n])
  BY <1>3, Zenon DEF Grows
<1> HIDE DEF N
<1> DEFINE G == {n \in 0..N : ObjectUpTo(f[n], list, n)}
<1>5. 0 \in G
  BY <1>2, <1>4, Levels, NoMembers, ValueFields DEF ObjectUpTo
<1>6. ASSUME NEW n \in 1..N, n - 1 \in G PROVE n \in G
  BY <1>1, <1>2, <1>4, <1>6, ObjectStep
<1>7. ObjectUpTo(f[N], list, N)
  <2> HIDE DEF G
  <2>1. 0..N \subseteq G
    BY <1>2, <1>5, <1>6, Inductive
  <2> QED
    BY <1>2, <2>1 DEF G
<1> DEFINE v == f[N]
           lasting == {i \in DOMAIN list : Lasting(list[i])}
           Of(name) == {i \in lasting : list[i].key = name}
<1>8. v \in Values[2] /\ v.type = "object"
  BY <1>7 DEF ObjectUpTo
<1> HIDE DEF v
<1>9. \A k \in 1..Len(v.names) :
       \E i \in 1..N : /\ Sets(list, i, v.names[k]) /\ v.items[k] = Item(list[i])
                       /\ \A later \in 1..N : Sets(list, later, v.names[k]) => later <= i
  BY <1>7, Zenon DEF ObjectUpTo, v
<1>10. DOMAIN v.names = 1..Len(v.names)
  BY <1>8, Levels, ValueIs
<1>11. \A name, i : i \in Of(name) <=> i \in 1..N /\ Sets(list, i, name)
  BY <1>2 DEF Sets
<1>12. ToSet(v.names) = {list[i].key : i \in lasting}
  <2>1. ToSet(v.names) = {v.names[k] : k \in 1..Len(v.names)}
    BY <1>10, Zenon DEF ToSet
  <2>2. \A i : i \in lasting <=> i \in 1..N /\ Lasting(list[i])
    BY <1>2
  <2>3. ASSUME NEW k \in 1..Len(v.names) PROVE \E i \in lasting : list[i].key = v.names[k]
    BY <1>9, <2>2 DEF Sets
  <2>4. ASSUME NEW i \in lasting PROVE \E k \in 1..Len(v.names) : v.names[k] = list[i].key
    BY <1>7, <2>2 DEF ObjectUpTo, v
  <2> HIDE DEF lasting
  <2> QED
    BY <2>1, <2>3, <2>4, SMTT(30)
<1> HIDE DEF Of
<1>13. \A k \in 1..Len(v.names) : Of(v.names[k]) \subseteq 1..N /\ Of(v.names[k]) # {}
  BY <1>9, <1>11
<1>14. ASSUME NEW j \in DOMAIN v.names, NEW k \in DOMAIN v.names, j < k
       PROVE  Min(Of(v.names[j])) < Min(Of(v.names[k]))
  <2> DEFINE A == Of(v.names[j])
             B == Of(v.names[k])
  <2>1. A \subseteq Nat /\ A # {} /\ B \subseteq Nat /\ B # {}
    <3>1. A \subseteq 1..N /\ A # {} /\ B \subseteq 1..N /\ B # {}
      BY <1>10, <1>13
    <3> HIDE DEF A, B
    <3> QED
      BY <1>2, <3>1
  <2>2. \A i \in B : \E earlier \in A : earlier < i
    BY <1>7, <1>10, <1>11, <1>14 DEF ObjectUpTo, v
  <2> HIDE DEF A, B
  <2>3. Min(B) \in B /\ Min(A) \in A /\ \A y \in A : Min(A) <= y
    BY <2>1, MinIs
  <2>4. PICK e \in A : e < Min(B)
    BY <2>2, <2>3
  <2>5. Min(A) < Min(B)
    <3> DEFINE a == Min(A)
               b == Min(B)
    <3>1. a \in Nat /\ b \in Nat /\ e \in Nat /\ a <= e /\ e < b
      BY <2>1, <2>3, <2>4
    <3> HIDE DEF a, b
    <3> QED
      BY <3>1 DEF a, b
  <2> QED
    BY <2>5 DEF A, B
<1>15. ASSUME NEW k \in DOMAIN v.names PROVE v.items[k] = Item(list[Max(Of(v.names[k]))])
  <2> DEFINE A == Of(v.names[k])
  <2>1. A \subseteq 1..N /\ A # {}
    BY <1>10, <1>13
  <2>2. PICK i \in 1..N : /\ Sets(list, i, v.names[k]) /\ v.items[k] = Item(list[i])
                          /\ \A later \in 1..N : Sets(list, later, v.names[k]) => later <= i
    BY <1>9, <1>10
  <2>3. i \in A /\ \A later \in A : later <= i
    BY <1>11, <2>2
  <2> HIDE DEF A
  <2>4. Max(A) = i
    <3> DEFINE a == Max(A)
    <3>1. a \in 1..N /\ i \in 1..N /\ a <= i /\ i <= a
      BY <1>2, <2>1, <2>3, MaxIs
    <3> HIDE DEF a
    <3> QED
      BY <1>2, <3>1 DEF a
  <2> QED
    BY <2>2, <2>4 DEF A
<1> QED
  BY <1>3, <1>8, <1>12, <1>14, <1>15 DEF v, IsObjectOf, Of

-----------------------------------------------------------------------------
(* What is found in an answer.                                             *)

\* What is at the end of a path, step by step.
DotBody(v, path, f, n) == IF n = 0 THEN v ELSE json_object_get_value(f[n - 1], path[n])

\* There is such a value for every step.
LEMMA DotExists ==
  ASSUME NEW v, NEW path, NEW N \in Nat
  PROVE  \E f : f = [k \in 0..N |-> DotBody(v, path, f, k)]
<1> DEFINE B(f, k) == DotBody(v, path, f, k)
           Upto(m, f) == f = [k \in 0..m |-> B(f, k)]
           G == {m \in 0..N : \E f : Upto(m, f)}
<1>1. 0 \in G
  <2> DEFINE f == [k \in 0..0 |-> v]
  <2>1. \A k \in 0..0 : B(f, k) = v
    <3> TAKE k \in 0..0
    <3> HIDE DEF f
    <3> QED
      BY DEF DotBody
  <2>2. Upto(0, f)
    BY <2>1
  <2> HIDE DEF f, Upto
  <2> QED
    BY <2>2
<1>2. ASSUME NEW x \in 1..N, x - 1 \in G PROVE x \in G
  <2>1. PICK f : Upto(x - 1, f)
    BY <1>2
  <2> DEFINE h == [k \in 0..x |-> IF k = x THEN B(f, k) ELSE f[k]]
  <2>2. ASSUME NEW k \in 0..x PROVE h[k] = B(h, k)
    <3> HIDE DEF h
    <3> QED
      BY <2>1 DEF h, DotBody
  <2>3. Upto(x, h)
    <3>1. h = [k \in 0..x |-> h[k]]
      OBVIOUS
    <3> HIDE DEF h
    <3> QED
      BY <2>2, <3>1
  <2> HIDE DEF h, Upto
  <2> QED
    BY <2>3
<1>3. N \in G
  <2> HIDE DEF G
  <2> QED
    BY <1>1, <1>2, Inductive
<1> QED
  BY <1>3

\* f[n] is what is found after n steps.
Goes(f, v, path) ==
  /\ f[0] = v
  /\ \A n \in 1..Len(path) : f[n] = json_object_get_value(f[n - 1], path[n])

\* json_object_dotget_value finds the last one.
LEMMA DotIs ==
  ASSUME NEW S, NEW path \in Seq(S), NEW v
  PROVE  \E f : Goes(f, v, path) /\ json_object_dotget_value(v, path) = f[Len(path)]
<1> DEFINE N == Len(path)
           get == CHOOSE f : f = [k \in 0..N |-> DotBody(v, path, f, k)]
<1>1. N \in Nat
  OBVIOUS
<1>2. get = [k \in 0..N |-> DotBody(v, path, get, k)]
  <2> HIDE DEF N
  <2> QED
    BY <1>1, DotExists
<1>3. json_object_dotget_value(v, path) = get[N]
  BY Zenon DEF json_object_dotget_value, DotBody
<1> HIDE DEF get, N
<1> QED
  BY <1>1, <1>2, <1>3 DEF N, Goes, DotBody

\* A path leads to a value or to nothing, and from nothing to nothing.
LEMMA DotTyped ==
  ASSUME NEW S, NEW path \in Seq(S), NEW v \in Documents \cup {Error}
  PROVE  /\ json_object_dotget_value(v, path) \in Documents \cup {Error}
         /\ v = Error => json_object_dotget_value(v, path) = Error
<1> DEFINE N == Len(path)
<1>1. N \in Nat
  OBVIOUS
<1>2. PICK f : Goes(f, v, path) /\ json_object_dotget_value(v, path) = f[N]
  BY DotIs
<1> DEFINE Fine(w) == w \in Documents \cup {Error} /\ (v = Error => w = Error)
           G == {n \in 0..N : Fine(f[n])}
<1>3. f[0] = v /\ \A n \in 1..N : f[n] = json_object_get_value(f[n - 1], path[n])
  BY <1>2, Zenon DEF Goes
<1> HIDE DEF N
<1>4. 0 \in G
  BY <1>1, <1>3
<1>5. ASSUME NEW n \in 1..N, n - 1 \in G PROVE n \in G
  <2> DEFINE w == f[n - 1]
             r == json_object_get_value(w, path[n])
  <2>1. Fine(w) /\ f[n] = r
    BY <1>3, <1>5
  <2>2. Fine(r)
    BY <2>1, Levels, GetIs, GetOfError, ValuesGrow DEF Error, Value
  <2> HIDE DEF w, r, Fine
  <2> QED
    BY <1>1, <2>1, <2>2
<1>6. Fine(f[N])
  <2> HIDE DEF G
  <2>1. 0..N \subseteq G
    BY <1>1, <1>4, <1>5, Inductive
  <2> QED
    BY <1>1, <2>1 DEF G
<1> QED
  BY <1>2, <1>6

\* So what is read of it is a string, or NULL.
LEMMA TextInIs ==
  ASSUME NEW S, NEW path \in Seq(S), NEW choice \in Documents \cup {Error}
  PROVE  /\ TextIn(choice, path) \in Strings \cup {NULL}
         /\ choice = Error => TextIn(choice, path) = NULL
BY Levels, GetStringIs, DotTyped DEF TextIn, json_value_get_string, Error, Value, Names

\* What an answer can say.
LEMMA SilenceIs == DOMAIN Silence = {"content", "finish_reason", "name", "arguments"}
  BY DEF Silence

\* Nothing is found in nothing.
LEMMA FoundInIs ==
  ASSUME NEW choice \in Documents \cup {Error}
  PROVE  /\ FoundIn(choice) \in [DOMAIN Silence -> Strings \cup {NULL}]
         /\ choice = Error => FoundIn(choice) = Silence
<1> DEFINE message == <<"message">>
           call == <<"function_call">>
           W == {message, call, <<"content">>, <<"finish_reason">>, <<"name">>, <<"arguments">>}
           a == <<message, <<"content">>>>
           b == <<<<"finish_reason">>>>
           c == <<message, call, <<"name">>>>
           d == <<message, call, <<"arguments">>>>
<1>1. ASSUME NEW x \in W, NEW y \in W, NEW z \in W PROVE <<z>> \in Seq(W) /\ <<x, z>> \in Seq(W) /\ <<x, y, z>> \in Seq(W)
  <2> HIDE DEF W
  <2> QED
    OBVIOUS
<1>2. a \in Seq(W) /\ b \in Seq(W) /\ c \in Seq(W) /\ d \in Seq(W)
  <2>1. message \in W /\ call \in W /\ <<"content">> \in W /\ <<"finish_reason">> \in W /\ <<"name">> \in W /\ <<"arguments">> \in W
    OBVIOUS
  <2> HIDE DEF W, message, call
  <2> QED
    BY <1>1, <2>1, Zenon
<1>3. FoundIn(choice) = [content |-> TextIn(choice, a), finish_reason |-> TextIn(choice, b),
                         name |-> TextIn(choice, c), arguments |-> TextIn(choice, d)]
  BY Zenon DEF FoundIn
<1> HIDE DEF a, b, c, d, W
<1>4. /\ TextIn(choice, a) \in Strings \cup {NULL} /\ (choice = Error => TextIn(choice, a) = NULL)
      /\ TextIn(choice, b) \in Strings \cup {NULL} /\ (choice = Error => TextIn(choice, b) = NULL)
      /\ TextIn(choice, c) \in Strings \cup {NULL} /\ (choice = Error => TextIn(choice, c) = NULL)
      /\ TextIn(choice, d) \in Strings \cup {NULL} /\ (choice = Error => TextIn(choice, d) = NULL)
  BY <1>2, TextInIs
<1> DEFINE A == TextIn(choice, a)
           B == TextIn(choice, b)
           C == TextIn(choice, c)
           D == TextIn(choice, d)
<1>5. FoundIn(choice) = [content |-> A, finish_reason |-> B, name |-> C, arguments |-> D]
  BY <1>3
<1>6. A \in Strings \cup {NULL} /\ B \in Strings \cup {NULL} /\ C \in Strings \cup {NULL} /\ D \in Strings \cup {NULL}
  BY <1>4
<1>7. choice = Error => A = NULL /\ B = NULL /\ C = NULL /\ D = NULL
  BY <1>4
<1> HIDE DEF A, B, C, D
<1> QED
  BY <1>5, <1>6, <1>7, SilenceIs DEF Silence

\* The object at a place of an array, if there is one there.
LEMMA GetObjectIs ==
  ASSUME NEW v \in Documents \cup {Error}, NEW at \in Nat
  PROVE  /\ json_array_get_object(v, at) \in Documents \cup {Error}
         /\ v = Error => json_array_get_object(v, at) = Error
<1>1. CASE v # Error
  <2> DEFINE items == v.items
  <2>1. at \in DOMAIN v.items => v.items[at] \in Documents
    <3> HIDE DEF items
    <3> QED
      BY <1>1, Levels, ValuesGrow, ValueIs DEF items
  <2> QED
    BY <1>1, <2>1, Zenon DEF json_array_get_object
<1> QED
  BY <1>1 DEF json_array_get_object, Error, Value

\* What is found in a document.
FoundInDocument(v) == FoundIn(json_array_get_object(json_object_get_array(v, <<"choices">>), 1))

\* What is found are strings, or nothing is when there is no object.
LEMMA FoundInDocumentIs ==
  ASSUME NEW v \in Documents \cup {Error}
  PROVE  /\ FoundInDocument(v) \in [DOMAIN Silence -> Strings \cup {NULL}]
         /\ v.type # "object" => FoundInDocument(v) = Silence
<1> DEFINE w == json_object_get_value(v, <<"choices">>)
           a == json_object_get_array(v, <<"choices">>)
<1>1. a = IF w.type = "array" THEN w ELSE Error
  BY Zenon DEF json_object_get_array
<1>2. v = Error => v.names = <<>>
  BY DEF Error, Value
<1>3. v.names = <<>> => w = Error
  BY GetOfError
<1>4. w \in Documents \cup {Error}
  BY <1>2, <1>3, Levels, GetIs, ValuesGrow
<1> HIDE DEF w
<1>5. a \in Documents \cup {Error} /\ (w = Error => a = Error)
  BY <1>1, <1>4
<1> HIDE DEF a
<1> QED
  BY <1>2, <1>3, <1>5, FoundInIs, GetObjectIs, Levels, ValueIs DEF FoundInDocument, a

\* What is found in a text; nothing in one that is no object.
LEMMA FindingsAre ==
  ASSUME NEW s \in Strings \cup {NULL}
  PROVE  /\ Findings(s) = FoundInDocument(json_parse_string(s))
         /\ Findings(s) \in [DOMAIN Silence -> Strings \cup {NULL}]
         /\ json_parse_string(s).type # "object" => Findings(s) = Silence
BY FoundInDocumentIs, ParsedIs DEF Findings, FoundInDocument

\* An answer that never came, or is empty, says nothing.
LEMMA NothingSaid ==
  /\ Findings(NULL) = Silence
  /\ Findings(<<>>) = Silence
<1>1. Error.type # "object" /\ Error.type = "error" /\ Nothing.value = Error
  BY DEF Error, Value, Nothing, Got
<1>2. Findings(<<>>) = Silence
  <2>1. <<>> \in Strings /\ <<>> # NULL /\ Len(<<>>) = 0
    BY DEF Strings, NULL
  <2> QED
    BY <1>1, <2>1, FindingsAre, FoundGoesOn, Levels, NestingAssumption DEF json_parse_string, parse_value, Inside, Start, Top
<1> QED
  BY <1>1, <1>2, FindingsAre DEF json_parse_string

\* All that is found in the beginning of a text is found in the text, or nothing is.
LEMMA FoundEarly ==
  ASSUME NEW p \in Strings, NEW s \in Strings, Starts(p, s)
  PROVE  Findings(p) \in {Silence, Findings(s)}
BY FindingsAre, ReadEarly

-----------------------------------------------------------------------------
(* Frames and pieces.                                                      *)

\* Requests in each other: only the innermost one waits for its answer.
IsStack(fs) == fs \in Seq({"http", "handler"}) /\ \A i \in 2..Len(fs) : fs[i] = "handler"
\* Who runs: the application, or the request that was made last.
Innermost(fs) == IF fs = <<>> THEN "application" ELSE Head(fs)

\* A request from the application, or from a handler, is the innermost one.
LEMMA Pushed ==
  ASSUME NEW fs, IsStack(fs), Innermost(fs) # "http"
  PROVE  IsStack(<<"http">> \o fs) /\ Innermost(<<"http">> \o fs) = "http" /\ Len(<<"http">> \o fs) = Len(fs) + 1
<1> DEFINE gs == <<"http">> \o fs
<1>1. fs \in Seq({"http", "handler"}) /\ Len(fs) \in Nat /\ \A i \in 2..Len(fs) : fs[i] = "handler"
  BY DEF IsStack
<1>2. fs # <<>> => fs[1] = "handler"
  BY <1>1 DEF Innermost
<1>3. gs \in Seq({"http", "handler"}) /\ Len(gs) = Len(fs) + 1 /\ gs[1] = "http" /\ gs # <<>>
      /\ \A i \in 2..Len(gs) : gs[i] = fs[i - 1]
  BY <1>1
<1>4. ASSUME NEW i \in 2..Len(gs) PROVE gs[i] = "handler"
  <2>1. CASE i = 2
    <3>1. fs # <<>>
      BY <1>1, <1>3, <2>1
    <3> QED
      BY <1>2, <1>3, <2>1, <3>1
  <2>2. CASE i # 2
    <3>1. i - 1 \in 2..Len(fs)
      BY <1>1, <1>3, <2>2
    <3> QED
      BY <1>1, <1>3, <3>1
  <2> QED
    BY <2>1, <2>2
<1> HIDE DEF gs
<1>5. IsStack(gs) /\ Innermost(gs) = "http"
  BY <1>3, <1>4 DEF IsStack, Innermost
<1> QED
  BY <1>3, <1>5 DEF gs

\* A handler takes the place of its request; then the one around it goes on.
LEMMA Popped ==
  ASSUME NEW fs, IsStack(fs), fs # <<>>
  PROVE  /\ IsStack(Tail(fs)) /\ Innermost(Tail(fs)) # "http" /\ Len(Tail(fs)) = Len(fs) - 1 /\ Len(fs) \in Nat
         /\ IsStack(<<"handler">> \o Tail(fs)) /\ Innermost(<<"handler">> \o Tail(fs)) = "handler"
         /\ Len(<<"handler">> \o Tail(fs)) = Len(fs)
<1> DEFINE ts == Tail(fs)
           hs == <<"handler">> \o ts
<1>1. fs \in Seq({"http", "handler"}) /\ Len(fs) \in Nat /\ \A i \in 2..Len(fs) : fs[i] = "handler"
  BY DEF IsStack
<1>2. ts \in Seq({"http", "handler"}) /\ Len(ts) = Len(fs) - 1 /\ \A i \in 1..Len(ts) : ts[i] = fs[i + 1]
  BY <1>1
<1>3. \A i \in 1..Len(ts) : ts[i] = "handler"
  <2> TAKE i \in 1..Len(ts)
  <2>1. i + 1 \in 2..Len(fs)
    BY <1>1, <1>2
  <2> QED
    BY <1>1, <1>2, <2>1
<1> HIDE DEF ts
<1>4. hs \in Seq({"http", "handler"}) /\ Len(hs) = Len(ts) + 1 /\ hs[1] = "handler" /\ hs # <<>>
      /\ \A i \in 2..Len(hs) : hs[i] = ts[i - 1] /\ i - 1 \in 1..Len(ts)
  BY <1>2
<1> HIDE DEF hs
<1>5. IsStack(ts) /\ Innermost(ts) # "http"
  <2>1. \A i \in 2..Len(ts) : ts[i] = "handler"
    BY <1>2, <1>3
  <2>2. ts # <<>> => Head(ts) = "handler"
    BY <1>2, <1>3
  <2> QED
    BY <1>2, <2>1, <2>2 DEF IsStack, Innermost
<1>6. IsStack(hs) /\ Innermost(hs) = "handler"
  BY <1>3, <1>4 DEF IsStack, Innermost
<1>7. Len(hs) = Len(fs) /\ Len(ts) = Len(fs) - 1
  BY <1>1, <1>2, <1>4
<1> QED
  BY <1>1, <1>5, <1>6, <1>7, Zenon DEF hs, ts

\* A sequence in two.
LEMMA CutIs ==
  ASSUME NEW S, NEW s \in Seq(S), NEW n \in 1..Len(s)
  PROVE  /\ SubSeq(s, 1, n) \in Seq(S) /\ Len(SubSeq(s, 1, n)) = n
         /\ SubSeq(s, n + 1, Len(s)) \in Seq(S) /\ Len(SubSeq(s, n + 1, Len(s))) = Len(s) - n
         /\ \A i \in 1..n : SubSeq(s, 1, n)[i] = s[i]
         /\ \A i \in 1..(Len(s) - n) : SubSeq(s, n + 1, Len(s))[i] = s[n + i]
<1>1. Len(s) \in Nat /\ n \in Nat /\ n >= 1 /\ n <= Len(s)
  OBVIOUS
<1>2. \A i \in 1..Len(s) : s[i] \in S
  OBVIOUS
<1>3. SubSeq(s, 1, n) = [i \in 1..n |-> s[i]]
  BY <1>1
<1>4. SubSeq(s, n + 1, Len(s)) = [i \in 1..(Len(s) - n) |-> s[n + i]]
  BY <1>1
<1>5. [i \in 1..n |-> s[i]] \in Seq(S) /\ Len([i \in 1..n |-> s[i]]) = n
  BY <1>1, <1>2
<1>6. [i \in 1..(Len(s) - n) |-> s[n + i]] \in Seq(S) /\ Len([i \in 1..(Len(s) - n) |-> s[n + i]]) = Len(s) - n
  BY <1>1, <1>2
<1> QED
  BY <1>3, <1>4, <1>5, <1>6

\* A piece is taken off the rest of an answer.
LEMMA PieceIs ==
  ASSUME NEW rest \in Strings, rest # <<>>, NEW size \in Nat \ {0}, NEW n, n = Min({size, Len(rest)})
  PROVE  /\ SubSeq(rest, 1, n) \in Strings /\ SubSeq(rest, n + 1, Len(rest)) \in Strings
         /\ SubSeq(rest, 1, n) \o SubSeq(rest, n + 1, Len(rest)) = rest
<1> DEFINE L == Len(rest)
           a == SubSeq(rest, 1, n)
           b == SubSeq(rest, n + 1, L)
<1>1. rest \in Seq(Symbols) /\ L \in Nat \ {0}
  BY DEF Strings
<1>2. n \in 1..L
  <2> DEFINE S == {size, L}
  <2>1. S \subseteq Nat /\ S # {} /\ \A x \in S : x >= 1
    BY <1>1
  <2>2. n = Min(S)
    OBVIOUS
  <2>3. L \in S
    OBVIOUS
  <2> HIDE DEF S, L
  <2>4. n \in S /\ \A y \in S : n <= y
    BY <2>1, <2>2, MinIs
  <2>5. n \in Nat /\ n >= 1 /\ n <= L
    BY <2>1, <2>3, <2>4
  <2> QED
    BY <1>1, <2>5
<1> HIDE DEF L
<1>3. a \in Seq(Symbols) /\ b \in Seq(Symbols) /\ Len(a) = n /\ Len(b) = L - n
      /\ (\A i \in 1..n : a[i] = rest[i]) /\ \A i \in 1..(L - n) : b[i] = rest[n + i]
  <2>1. rest \in Seq(Symbols) /\ L = Len(rest) /\ n \in 1..Len(rest)
    BY <1>1, <1>2 DEF L
  <2>2. a = SubSeq(rest, 1, n) /\ b = SubSeq(rest, n + 1, Len(rest))
    BY <2>1
  <2> HIDE DEF a, b
  <2> QED
    BY <2>1, <2>2, CutIs, ZenonT(30)
<1> HIDE DEF a, b
<1>4. a \o b = rest
  <2> DEFINE c == a \o b
  <2>1. c \in Seq(Symbols) /\ Len(c) = L
    BY <1>1, <1>2, <1>3, SMTT(30)
  <2>2. ASSUME NEW i \in 1..L PROVE c[i] = rest[i]
    <3>1. CASE i \in 1..n
      <4>1. c[i] = a[i]
        BY <1>3, <3>1
      <4> QED
        BY <1>3, <3>1, <4>1
    <3>2. CASE i \notin 1..n
      <4>1. i - n \in 1..(L - n) /\ n + (i - n) = i
        BY <1>1, <1>2, <3>2
      <4>2. c[i] = b[i - n]
        BY <1>1, <1>2, <1>3, <3>2
      <4> QED
        BY <1>3, <4>1, <4>2
    <3> QED
      BY <3>1, <3>2
  <2> HIDE DEF c
  <2>3. c = rest
    BY <1>1, <2>1, <2>2 DEF L
  <2> QED
    BY <2>3 DEF c
<1> QED
  BY <1>3, <1>4 DEF a, b, L, Strings

\* Three texts one after the other.
LEMMA ThreeParts ==
  ASSUME NEW a \in Strings, NEW b \in Strings, NEW c \in Strings
  PROVE  (a \o b) \o c = a \o (b \o c) /\ a \o b \in Strings
  BY DEF Strings

\* The first of two texts is the beginning of both.
LEMMA PartStarts ==
  ASSUME NEW a \in Strings, NEW b \in Strings
  PROVE  Starts(a, a \o b) /\ a \o b \in Strings /\ (b = <<>> => a \o b = a)
  BY DEF Strings, Starts

-----------------------------------------------------------------------------
(* Where a request is.                                                     *)

\* The requests.
RequestType ==
  [user : Strings \cup {NULL}, assistant : Strings \cup {NULL}, posted : Strings,
   answer : Answers \cup {NoAnswer}, rest : Strings, memory : Strings \cup {NULL, Unwritten},
   heard : [DOMAIN Silence -> Strings \cup {NULL}]]

\* What has been collected of the answer, and what is still to come, are the answer.
Collects(r) ==
  \/ r.memory = Unwritten /\ r.rest = r.answer.text
  \/ r.memory \in Strings /\ r.memory \o r.rest = r.answer.text

\* What the handler has heard, if anything came.
Heard(r) ==
  r.memory # Unwritten =>
    /\ r.heard \in {Silence, r.answer.says}
    /\ r.memory # NULL /\ r.rest = <<>> => r.heard = r.answer.says

\* Every answer says what is found in it.
LEMMA AnswerIs ==
  ASSUME NEW a \in Answers \cup {NoAnswer}
  PROVE  a.text \in Strings /\ a.says = Findings(a.text)
<1>1. CASE a \in Answers
  BY <1>1, OpenAiAssumption, AnswersAssumption
<1>2. CASE a = NoAnswer
  <2>1. a.text = <<>> /\ a.says = Silence
    BY <1>2 DEF NoAnswer
  <2> QED
    BY <2>1, NothingSaid DEF Strings
<1> QED
  BY <1>1, <1>2

\* No request has heard nothing.
LEMMA NoRequestIs == NoRequest \in RequestType /\ Heard(NoRequest)
<1>1. <<>> \in Strings
  BY DEF Strings
<1>2. Silence \in [DOMAIN Silence -> Strings \cup {NULL}]
  BY <1>1, NothingSaid, FindingsAre
<1> HIDE DEF Silence
<1>3. NoRequest \in RequestType
  BY <1>1, <1>2 DEF NoRequest, RequestType
<1>4. NoRequest.heard = Silence /\ NoRequest.memory = NULL
  BY DEF NoRequest
<1> QED
  BY <1>3, <1>4 DEF Heard

\* A piece comes.
LEMMA ReceiveIs ==
  ASSUME NEW r \in RequestType, Collects(r), r.rest # <<>>, NEW size \in PieceSizes,
         NEW n, n = Min({size, Len(r.rest)}),
         NEW q, q = [r EXCEPT !.memory = WriteMemoryCallback(@, SubSeq(r.rest, 1, n)),
                              !.rest = SubSeq(@, n + 1, Len(@))]
  PROVE  q \in RequestType /\ Collects(q)
<1> DEFINE a == SubSeq(r.rest, 1, n)
           b == SubSeq(r.rest, n + 1, Len(r.rest))
           m == WriteMemoryCallback(r.memory, a)
<1>1. r.rest \in Strings /\ r.memory \in Strings \cup {NULL, Unwritten}
  BY DEF RequestType
<1>2. size \in Nat \ {0}
  BY OpenAiAssumption
<1>3. a \in Strings /\ b \in Strings /\ a \o b = r.rest
  BY <1>1, <1>2, PieceIs
<1>4. q = [r EXCEPT !.memory = m, !.rest = b]
  OBVIOUS
<1>5. m = IF r.memory = Unwritten THEN a ELSE r.memory \o a
  BY DEF WriteMemoryCallback
<1> HIDE DEF a, b, m
<1>6. Unwritten \notin Strings
  <2> SUFFICES ASSUME Unwritten \in Strings PROVE FALSE
    OBVIOUS
  <2>1. Unwritten[1] = "?" /\ 1 \in 1..Len(Unwritten)
    BY DEF Unwritten
  <2>2. Unwritten[1] \in Symbols
    BY <2>1, TextIs
  <2> QED
    BY <2>1, <2>2, OpenAiAssumption
<1>7. m \in Strings /\ m \o b = r.answer.text
  <2>1. CASE r.memory = Unwritten
    BY <1>3, <1>5, <1>6, <2>1 DEF Collects
  <2>2. CASE r.memory # Unwritten
    <3>1. r.memory \in Strings /\ r.memory \o r.rest = r.answer.text
      BY <2>2 DEF Collects
    <3>2. (r.memory \o a) \o b = r.memory \o (a \o b) /\ r.memory \o a \in Strings
      BY <1>3, <3>1, ThreeParts
    <3> QED
      BY <1>3, <1>5, <2>2, <3>1, <3>2
  <2> QED
    BY <2>1, <2>2
<1>8. q.memory = m /\ q.rest = b /\ q.answer = r.answer
  BY <1>4 DEF RequestType
<1>9. q \in RequestType
  BY <1>3, <1>4, <1>7 DEF RequestType
<1> QED
  BY <1>7, <1>8, <1>9 DEF Collects

\* The handler is called.
LEMMA HandledIs ==
  ASSUME NEW r \in RequestType, Collects(r), NEW response \in {r.memory, NULL},
         NEW text \in IF response = Unwritten THEN Leftovers ELSE {response},
         NEW q, q = [r EXCEPT !.memory = response, !.heard = Findings(text)]
  PROVE  q \in RequestType /\ Heard(q)
<1> DEFINE F == Findings(text)
<1>1. r.rest \in Strings /\ r.memory \in Strings \cup {NULL, Unwritten} /\ r.answer \in Answers \cup {NoAnswer}
  BY DEF RequestType
<1>2. r.answer.text \in Strings /\ r.answer.says = Findings(r.answer.text)
  BY <1>1, AnswerIs
<1>3. q = [r EXCEPT !.memory = response, !.heard = F]
  OBVIOUS
<1>4. F \in [DOMAIN Silence -> Strings \cup {NULL}]
  <2>1. text \in Strings \cup {NULL}
    BY <1>1, OpenAiAssumption
  <2> QED
    BY <2>1, FindingsAre
<1>5. response # Unwritten =>
        F \in {Silence, r.answer.says} /\ (response # NULL /\ r.rest = <<>> => F = r.answer.says)
  <2> SUFFICES ASSUME response # Unwritten
               PROVE  F \in {Silence, r.answer.says} /\ (response # NULL /\ r.rest = <<>> => F = r.answer.says)
    OBVIOUS
  <2>1. CASE response = NULL
    BY <2>1, NothingSaid
  <2>2. CASE response # NULL /\ r.memory \in Strings /\ r.memory \o r.rest = r.answer.text
    <3>1. response = r.memory
      BY <2>2
    <3>2. Starts(r.memory, r.answer.text) /\ (r.rest = <<>> => r.answer.text = r.memory)
      BY <1>1, <2>2, PartStarts
    <3>3. Findings(r.memory) \in {Silence, Findings(r.answer.text)}
      BY <1>2, <2>2, <3>2, FoundEarly
    <3> QED
      BY <1>2, <3>1, <3>2, <3>3
  <2> QED
    BY <2>1, <2>2 DEF Collects
<1> HIDE DEF F
<1>6. q.memory = response /\ q.heard = F /\ q.rest = r.rest /\ q.answer = r.answer
  BY <1>3 DEF RequestType
<1>7. q \in RequestType
  BY <1>1, <1>3, <1>4 DEF RequestType
<1> QED
  BY <1>5, <1>6, <1>7 DEF Heard

\* What dx_jsonSerialize leaves in a buffer.
LEMMA ComposedIs ==
  ASSUME NEW list \in Calls, NEW b \in Strings, Len(b) < BufferSize,
         NEW made, made = dx_jsonSerialize(b, BufferSize, list)
  PROVE  /\ made.buffer \in Strings /\ Len(made.buffer) < BufferSize
         /\ made.result => made.buffer = Serialized(list)
         /\ ~made.result => made.buffer = b
<1> DEFINE t == Serialized(list)
           L == Len(t)
<1>1. t \in Strings
  <2>1. PICK v \in Values[2] : t = json_serialize_to_string(v)
    BY SerializedObject
  <2>2. v \in Documents
    BY Levels, ValuesUpTo
  <2> QED
    BY <2>1, <2>2, RoundTrip
<1>2. BufferSize \in Nat \ {0}
  BY OpenAiAssumption
<1> HIDE DEF t
<1>3. L \in Nat /\ (L < BufferSize => SubSeq(t, 1, L) = t)
  BY <1>1 DEF Strings
<1>4. made = [result |-> L < BufferSize,
              buffer |-> IF L < BufferSize THEN DX_SAFE_STRING_COPY(t, BufferSize) ELSE b]
  BY Zenon DEF dx_jsonSerialize, t
<1>5. L < BufferSize => DX_SAFE_STRING_COPY(t, BufferSize) = t
  BY <1>3, Zenon DEF DX_SAFE_STRING_COPY
<1>6. CASE L < BufferSize
  <2>1. (L < BufferSize) = TRUE
    BY <1>6, Zenon
  <2>2. made = [result |-> TRUE, buffer |-> t]
    BY <1>4, <1>5, <1>6, <2>1, Zenon
  <2>3. made.buffer = t /\ made.result
    BY <2>2
  <2> QED
    BY <1>1, <1>6, <2>3 DEF t
<1>7. CASE ~(L < BufferSize)
  <2>1. (L < BufferSize) = FALSE
    BY <1>7
  <2>2. made = [result |-> FALSE, buffer |-> b]
    BY <1>4, <1>7, <2>1, Zenon
  <2>3. made.buffer = b
    BY <2>2
  <2>4. ~made.result
    BY <2>2
  <2> QED
    BY <2>3, <2>4
<1> QED
  BY <1>6, <1>7

-----------------------------------------------------------------------------
(* The state while requests are made.                                      *)

\* Requests in each other wait for one answer at a time, and what has come of it
\* is its beginning.
RequestInv ==
  /\ IsStack(frames)
  /\ Where = "http" => Collects(request)
  /\ Where = "handler" => Heard(request)

\* The type invariant with its parts by name.
LEMMA TypeIs ==
  TypeOK <=>
    /\ file \in Files
    /\ json_root \in Documents \cup {Error}
    /\ headers \in BOOLEAN
    /\ frames \in Seq({"http", "handler"}) /\ Len(frames) <= MaxDepth + 1
    /\ request \in RequestType
    /\ buffer \in Strings /\ Len(buffer) < BufferSize /\ triples \in Calls \cup {<<>>}
  BY Zenon DEF TypeOK, RequestType

\* An empty text fits in.
LEMMA EmptyText == <<>> \in Strings /\ Len(<<>>) = 0 /\ Len(<<>>) < BufferSize
  BY OpenAiAssumption DEF Strings

\* It holds before the first request.
LEMMA RequestInit == Init => TypeOK /\ RequestInv
<1> SUFFICES ASSUME Init PROVE TypeOK /\ RequestInv
  OBVIOUS
<1>1. frames \in Seq({"http", "handler"}) /\ Len(frames) = 0 /\ frames = <<>> /\ MaxDepth \in Nat
  BY OpenAiAssumption DEF Init
<1>2. TypeOK
  <2>1. file \in Files /\ json_root = Error /\ headers = FALSE /\ request = NoRequest /\ buffer = <<>> /\ triples = <<>>
    BY DEF Init
  <2>2. Len(frames) <= MaxDepth + 1
    BY <1>1
  <2>3. request \in RequestType /\ buffer \in Strings /\ Len(buffer) < BufferSize
    BY <2>1, EmptyText, NoRequestIs
  <2> QED
    BY <1>1, <2>1, <2>2, <2>3, TypeIs
<1>3. IsStack(frames)
  BY <1>1 DEF IsStack
<1>4. Where = "application"
  BY <1>1 DEF Where
<1> QED
  BY <1>2, <1>3, <1>4 DEF RequestInv

\* Steps that leave the requests alone.
LEMMA RequestKept ==
  ASSUME RequestInv, UNCHANGED <<frames, request>>
  PROVE  RequestInv'
<1>1. Where' = Where
  BY DEF Where
<1> QED
  BY <1>1 DEF RequestInv

\* Every step keeps it.
LEMMA RequestNext ==
  ASSUME TypeOK, RequestInv, [Next]_vars
  PROVE  TypeOK' /\ RequestInv'
<1>1. /\ file \in Files
      /\ json_root \in Documents \cup {Error}
      /\ headers \in BOOLEAN
      /\ frames \in Seq({"http", "handler"}) /\ Len(frames) <= MaxDepth + 1
      /\ request \in RequestType
      /\ buffer \in Strings /\ Len(buffer) < BufferSize /\ triples \in Calls \cup {<<>>}
  BY TypeIs
<1> DEFINE T == /\ file' \in Files
                /\ json_root' \in Documents \cup {Error}
                /\ headers' \in BOOLEAN
                /\ frames' \in Seq({"http", "handler"}) /\ Len(frames') <= MaxDepth + 1
                /\ request' \in RequestType
                /\ buffer' \in Strings /\ Len(buffer') < BufferSize /\ triples' \in Calls \cup {<<>>}
<1>2. T => TypeOK'
  BY Zenon DEF TypeOK, RequestType
<1>3. Where = Innermost(frames) /\ Where' = Innermost(frames')
  BY DEF Where, Innermost
<1>4. IsStack(frames) /\ (Innermost(frames) = "http" => Collects(request)) /\ Len(frames) \in Nat /\ MaxDepth \in Nat
  BY <1>1, <1>3, OpenAiAssumption DEF RequestInv
<1>5. CASE dx_openai_function_init
  <2>1. json_parse_file(file) \in Documents \cup {Error}
    <3>1. file \in Strings
      BY <1>1, OpenAiAssumption
    <3>2. json_parse_string(file) \in Documents \cup {Error}
      BY <3>1, ParsedIs
    <3> QED
      BY <3>2 DEF json_parse_file
  <2>2. json_root' \in Documents \cup {Error}
    BY <1>1, <1>5, <2>1 DEF dx_openai_function_init
  <2>3. headers' \in BOOLEAN
    <3>1. PICK key \in BOOLEAN : headers' = (headers \/ key)
      BY <1>5 DEF dx_openai_function_init
    <3> QED
      BY <3>1, Zenon
  <2>4. UNCHANGED <<file, frames, request, buffer, triples>>
    BY <1>5 DEF dx_openai_function_init, bufferVars
  <2>5. T
    BY <1>1, <2>2, <2>3, <2>4
  <2> QED
    BY <1>2, <2>4, <2>5, RequestKept
<1>6. CASE dx_openai_function_free
  <2>1. UNCHANGED <<file, frames, request, buffer, triples>> /\ json_root' = Error /\ headers' = FALSE
    BY <1>6 DEF dx_openai_function_free, bufferVars
  <2>2. T
    BY <1>1, <2>1
  <2> QED
    BY <1>2, <2>1, <2>2, RequestKept
<1>7. CASE Compose
  <2>1. UNCHANGED <<file, json_root, headers, frames, request>>
    BY <1>7 DEF Compose, contextVars
  <2>2. PICK list \in Calls :
          /\ buffer' = dx_jsonSerialize(buffer, BufferSize, list).buffer
          /\ triples' = IF dx_jsonSerialize(buffer, BufferSize, list).result THEN list ELSE triples
    BY <1>7, Zenon DEF Compose
  <2>3. buffer' \in Strings /\ Len(buffer') < BufferSize
    BY <1>1, <2>2, ComposedIs
  <2>4. triples' \in Calls \cup {<<>>}
    BY <1>1, <2>2
  <2>5. T
    BY <1>1, <2>1, <2>3, <2>4
  <2> QED
    BY <1>2, <2>1, <2>5, RequestKept
<1>8. CASE PostRequest
  <2>1. /\ Where # "http" /\ Len(frames) <= MaxDepth /\ json_root # Error
        /\ frames' = <<"http">> \o frames /\ buffer' = <<>> /\ triples' = <<>> /\ UNCHANGED <<file, headers>>
    BY <1>8 DEF PostRequest, AppRuns
  <2>2. PICK turn \in Turns \cup {<<buffer, NULL>>}, answer \in Answers :
          /\ json_root' = Prepared(json_root, turn[1], turn[2])
          /\ request' = [user |-> turn[1], assistant |-> turn[2],
                         posted |-> json_serialize_to_string(json_root'),
                         answer |-> answer, rest |-> answer.text,
                         memory |-> Unwritten, heard |-> Silence]
    BY <1>8, Zenon DEF PostRequest
  <2>3. turn[1] \in Strings \cup {NULL} /\ turn[2] \in Strings \cup {NULL}
    BY <1>1, OpenAiAssumption
  <2>4. json_root' \in Documents
    BY <1>1, <2>1, <2>2, <2>3, PreparedIs
  <2>5. json_serialize_to_string(json_root') \in Strings
    BY <2>4, RoundTrip
  <2>6. answer.text \in Strings
    BY AnswerIs
  <2>7. Silence \in [DOMAIN Silence -> Strings \cup {NULL}]
    BY NothingSaid, FindingsAre
  <2> HIDE DEF Silence
  <2>8. request' \in RequestType /\ Collects(request')
    BY <2>2, <2>3, <2>5, <2>6, <2>7 DEF RequestType, Collects
  <2>9. IsStack(frames') /\ Innermost(frames') = "http" /\ Len(frames') = Len(frames) + 1
    BY <1>3, <1>4, <2>1, Pushed
  <2>10. T
    BY <1>1, <1>4, <2>1, <2>4, <2>8, <2>9, EmptyText DEF IsStack
  <2>11. RequestInv'
    BY <1>3, <2>8, <2>9 DEF RequestInv
  <2> QED
    BY <1>2, <2>10, <2>11
<1>9. CASE Receive
  <2>1. Where = "http" /\ request.rest # <<>> /\ UNCHANGED <<file, json_root, headers, frames, buffer, triples>>
    BY <1>9 DEF Receive, contextVars, bufferVars
  <2>2. PICK size \in PieceSizes :
          \E n : /\ n = Min({size, Len(request.rest)})
                 /\ request' = [request EXCEPT !.memory = WriteMemoryCallback(@, SubSeq(request.rest, 1, n)),
                                               !.rest = SubSeq(@, n + 1, Len(@))]
    BY <1>9, Zenon DEF Receive
  <2>3. request' \in RequestType /\ Collects(request')
    BY <1>1, <1>3, <1>4, <2>1, <2>2, ReceiveIs
  <2>4. T
    BY <1>1, <2>1, <2>3
  <2>5. RequestInv'
    BY <1>3, <1>4, <2>1, <2>3 DEF RequestInv
  <2> QED
    BY <1>2, <2>4, <2>5
<1>10. CASE ResponseHandled
  <2>1. Where = "http" /\ frames' = <<"handler">> \o Tail(frames)
        /\ UNCHANGED <<file, json_root, headers, buffer, triples>>
    BY <1>10 DEF ResponseHandled, contextVars, bufferVars
  <2>2. PICK response \in {request.memory, NULL} : \E text \in IF response = Unwritten THEN Leftovers ELSE {response} :
          request' = [request EXCEPT !.memory = response, !.heard = Findings(text)]
    BY <1>10, Zenon DEF ResponseHandled
  <2>3. request' \in RequestType /\ Heard(request')
    <3>1. PICK text \in IF response = Unwritten THEN Leftovers ELSE {response} :
            request' = [request EXCEPT !.memory = response, !.heard = Findings(text)]
      BY <2>2, Zenon
    <3> QED
      BY <1>1, <1>3, <1>4, <2>1, <3>1, HandledIs
  <2>4. frames # <<>>
    BY <1>3, <2>1 DEF Innermost
  <2>5. IsStack(frames') /\ Innermost(frames') = "handler" /\ Len(frames') = Len(frames)
    BY <1>4, <2>1, <2>4, Popped
  <2>6. T
    BY <1>1, <2>1, <2>3, <2>5 DEF IsStack
  <2>7. RequestInv'
    BY <1>3, <2>3, <2>5 DEF RequestInv
  <2> QED
    BY <1>2, <2>6, <2>7
<1>11. CASE RequestReturns
  <2>1. Where = "handler" /\ frames' = Tail(frames) /\ request' = NoRequest
        /\ UNCHANGED <<file, json_root, headers, buffer, triples>>
    BY <1>11 DEF RequestReturns, contextVars, bufferVars
  <2>2. request' \in RequestType /\ Heard(request')
    BY <2>1, NoRequestIs
  <2>3. frames # <<>>
    BY <1>3, <2>1 DEF Innermost
  <2>4. IsStack(frames') /\ Innermost(frames') # "http" /\ Len(frames') = Len(frames) - 1
    BY <1>4, <2>1, <2>3, Popped
  <2>5. T
    BY <1>1, <1>4, <2>1, <2>2, <2>4 DEF IsStack
  <2>6. RequestInv'
    BY <1>3, <2>2, <2>4 DEF RequestInv
  <2> QED
    BY <1>2, <2>5, <2>6
<1>12. CASE UNCHANGED vars
  <2>1. UNCHANGED <<file, json_root, headers, frames, request, buffer, triples>>
    BY <1>12 DEF vars, contextVars, bufferVars
  <2>2. T
    BY <1>1, <2>1
  <2> QED
    BY <1>2, <2>1, <2>2, RequestKept
<1> QED
  BY <1>5, <1>6, <1>7, <1>8, <1>9, <1>10, <1>11, <1>12 DEF Next

\* The context, the request in progress and the buffer are what the code takes them
\* for: a parsed document or none, an answer of which the beginning has come, a text
\* that fits in.
THEOREM TypeCorrect == Spec => []TypeOK
<1>1. Init => TypeOK /\ RequestInv
  BY RequestInit
<1>2. TypeOK /\ RequestInv /\ [Next]_vars => TypeOK' /\ RequestInv'
  BY RequestNext
<1> QED
  BY <1>1, <1>2, PTL DEF Spec

\* In whatever pieces an answer comes, the handler hears all that it says when all
\* of it has come, and all or nothing when it ends early: the beginning of an
\* answer never says something else than the answer does.
THEOREM HearsAnswer == Spec => []HearsTheAnswer
<1>1. Init => TypeOK /\ RequestInv
  BY RequestInit
<1>2. TypeOK /\ RequestInv /\ [Next]_vars => TypeOK' /\ RequestInv'
  BY RequestNext
<1>3. RequestInv => HearsTheAnswer
  BY Zenon DEF RequestInv, HearsTheAnswer, Heard
<1> QED
  BY <1>1, <1>2, <1>3, PTL DEF Spec

\* What is in the buffer is the text of the last triples that fitted in.
BufferInv == triples # <<>> => triples \in Calls /\ buffer = Serialized(triples)

\* Every step keeps it.
LEMMA BufferNext ==
  ASSUME TypeOK, BufferInv, [Next]_vars
  PROVE  BufferInv'
<1>1. CASE UNCHANGED <<buffer, triples>>
  BY <1>1 DEF BufferInv
<1>2. CASE Compose
  <2>1. PICK list \in Calls :
          /\ buffer' = dx_jsonSerialize(buffer, BufferSize, list).buffer
          /\ triples' = IF dx_jsonSerialize(buffer, BufferSize, list).result THEN list ELSE triples
    BY <1>2, Zenon DEF Compose
  <2> DEFINE made == dx_jsonSerialize(buffer, BufferSize, list)
  <2>2. buffer' = made.buffer /\ triples' = IF made.result THEN list ELSE triples
    BY <2>1
  <2>3. /\ made.result => made.buffer = Serialized(list)
        /\ ~made.result => made.buffer = buffer
    BY ComposedIs, TypeIs
  <2> HIDE DEF made
  <2> QED
    BY <2>2, <2>3 DEF BufferInv
<1>3. CASE PostRequest
  BY <1>3 DEF BufferInv, PostRequest
<1> QED
  BY <1>1, <1>2, <1>3
     DEF Next, vars, bufferVars, dx_openai_function_init, dx_openai_function_free, Receive, ResponseHandled, RequestReturns

\* The text of an object of triples is read to its end.
LEMMA ReadToItsEnd ==
  ASSUME NEW v \in Values[2]
  PROVE  LET read == parse_value(json_serialize_to_string(v), 1, 0)
         IN read # Nothing /\ read.next = Len(json_serialize_to_string(v)) + 1 /\ read.value = v
<1> DEFINE t == json_serialize_to_string(v)
<1> QED
  BY RoundTrip, Levels, ValueIs, ValuesUpTo DEF Got, Nothing

\* Whatever triples a message is made of, what is in the buffer is read back to its
\* end as an object that has every name at the place of its first value, with its
\* last; what did not fit has left the text before it whole.
THEOREM SerializesLast == Spec => []SerializesLastValues
<1>1. Init => BufferInv
  BY DEF Init, BufferInv
<1>2. BufferInv => SerializesLastValues
  <2> SUFFICES ASSUME BufferInv, triples # <<>> PROVE IsTextOf(parse_value(buffer, 1, 0), triples)
    BY DEF SerializesLastValues
  <2>1. triples \in Calls /\ buffer = Serialized(triples)
    BY DEF BufferInv
  <2>2. PICK v \in Values[2] : Serialized(triples) = json_serialize_to_string(v) /\ IsObjectOf(v, triples)
    BY <2>1, SerializedObject
  <2>3. /\ parse_value(buffer, 1, 0) # Nothing /\ parse_value(buffer, 1, 0).next = Len(buffer) + 1
        /\ parse_value(buffer, 1, 0).value = v
    <3> DEFINE t == json_serialize_to_string(v)
    <3> QED
      BY <2>1, <2>2, ReadToItsEnd
  <2> QED
    BY <2>2, <2>3, Zenon DEF IsTextOf
<1> QED
  BY <1>1, <1>2, PTL, TypeCorrect, BufferNext DEF Spec

-----------------------------------------------------------------------------
(* What the context's document is in all the requests.                     *)

\* The prompt's own messages.
Own(D) == Without(Without(json_object_get_array(D, <<"messages">>).items, <<"user">>), <<"assistant">>)

\* The prompt has one question and one answer at the most.
Single(D) ==
  LET messages == json_object_get_array(D, <<"messages">>)
  IN AtMostOne(messages.items, <<"user">>) /\ AtMostOne(messages.items, <<"assistant">>)

\* The prompt's document, as some requests have left it.
Keeps(D, v) ==
  /\ v \in Documents /\ v.type = "object"
  /\ IsPrefix(D.names, v.names)
  /\ ToSet(v.names) \subseteq ToSet(D.names) \cup {<<"temperature">>, <<"max_tokens">>}
  /\ \A x : x \notin {<<"temperature">>, <<"max_tokens">>, <<"messages">>} =>
       json_object_get_value(v, x) = json_object_get_value(D, x)
  /\ json_object_get_array(D, <<"messages">>) = Error =>
       json_object_get_value(v, <<"messages">>) = json_object_get_value(D, <<"messages">>)
  /\ json_object_get_array(D, <<"messages">>) # Error =>
       \E messages \in Seq(Values[Top - 2]) :
         /\ json_object_get_value(v, <<"messages">>) = Array(messages)
         /\ Del(Del(messages, <<"user">>), <<"assistant">>) = Own(D)

\* Taking out a question and an answer leaves the prompt's own messages.
LEMMA OwnTyped ==
  ASSUME NEW D \in Documents, json_object_get_array(D, <<"messages">>) # Error, Single(D)
  PROVE  \E messages \in Seq(Values[Top - 2]) :
           /\ json_object_get_value(D, <<"messages">>) = Array(messages)
           /\ Del(Del(messages, <<"user">>), <<"assistant">>) = Own(D)
           /\ Own(D) \in Seq(Values[Top - 2]) /\ NoneOf(Own(D), <<"user">>) /\ NoneOf(Own(D), <<"assistant">>)
<1>1. PICK messages \in Seq(Values[Top - 2]) :
        json_object_get_array(D, <<"messages">>) = Array(messages) /\ json_object_get_value(D, <<"messages">>) = Array(messages)
  BY MessagesIs
<1> QED
  BY <1>1, OwnIs DEF Single, Own, Array, Value

\* The prompt's document has been kept.
LEMMA KeepsItself ==
  ASSUME NEW D \in Documents, D.type = "object", Single(D)
  PROVE  Keeps(D, D)
BY OwnTyped, PrefixOf, Levels, ValueIs DEF Keeps

\* A request keeps it, and makes of it what it has to post.
LEMMA KeepsPrepared ==
  ASSUME NEW D \in Documents, D.type = "object", Single(D), NEW v, Keeps(D, v),
         NEW user \in Strings \cup {NULL}, NEW assistant \in Strings \cup {NULL},
         NEW r, r = Prepared(v, user, assistant)
  PROVE  /\ Keeps(D, r)
         /\ Extends(D, json_object_get_array(D, <<"messages">>), r, user, assistant)
<1> DEFINE old == json_object_get_array(D, <<"messages">>)
           t == <<"temperature">>
           m == <<"max_tokens">>
           g == <<"messages">>
<1>1. /\ v \in Documents /\ v.type = "object"
      /\ IsPrefix(D.names, v.names)
      /\ ToSet(v.names) \subseteq ToSet(D.names) \cup {t, m}
      /\ \A x : x \notin {t, m, g} => json_object_get_value(v, x) = json_object_get_value(D, x)
      /\ old = Error => json_object_get_value(v, g) = json_object_get_value(D, g)
  BY Zenon DEF Keeps
<1>2. old # Error =>
       \E messages \in Seq(Values[Top - 2]) :
         /\ json_object_get_value(v, g) = Array(messages)
         /\ Del(Del(messages, <<"user">>), <<"assistant">>) = Own(D)
  BY Zenon DEF Keeps
<1>3. IsPrepared(r, v, user, assistant)
  BY <1>1, PreparedIs
<1>4. /\ r \in Documents /\ r.type = "object"
      /\ IsPrefix(v.names, r.names)
      /\ ToSet(r.names) = ToSet(v.names) \cup {t, m}
      /\ \A x : json_object_get_value(r, x) = PreparedItem(v, x, user, assistant)
  BY <1>3, Zenon DEF IsPrepared
<1>5. D.names \in Seq(Names) /\ v.names \in Seq(Names) /\ r.names \in Seq(Names) /\ Len(r.names) = Len(r.items)
  BY <1>1, <1>4, Levels, ValueIs
<1>6. IsPrefix(D.names, r.names)
  BY <1>1, <1>4, <1>5, PrefixTwice
<1>7. ToSet(D.names) \subseteq ToSet(v.names)
  <2> DEFINE a == D.names
             b == v.names
  <2>1. a \in Seq(Names) /\ b \in Seq(Names) /\ IsPrefix(a, b)
    BY <1>1, <1>5
  <2> HIDE DEF a, b
  <2> QED
    BY <2>1, PrefixOf DEF a, b, ToSet
<1>8. ToSet(r.names) = ToSet(D.names) \cup {t, m}
  BY <1>1, <1>4, <1>7
<1>9. t # m /\ t # g /\ m # g
  BY WordsAre
<1> HIDE DEF t, m, g
<1>10. /\ PreparedItem(v, t, user, assistant) = Number(Temperature)
       /\ PreparedItem(v, m, user, assistant) = Number(MaxTokens)
       /\ \A x : x \notin {t, m, g} => PreparedItem(v, x, user, assistant) = json_object_get_value(v, x)
       /\ json_object_get_array(v, g) = Error => PreparedItem(v, g, user, assistant) = json_object_get_value(v, g)
       /\ json_object_get_array(v, g) # Error =>
            PreparedItem(v, g, user, assistant) = Array(Renewed(json_object_get_array(v, g).items, user, assistant))
  BY <1>9 DEF PreparedItem, t, m, g
<1>11. old = Error => json_object_get_value(r, g) = json_object_get_value(D, g)
  <2> SUFFICES ASSUME old = Error PROVE json_object_get_value(r, g) = json_object_get_value(D, g)
    OBVIOUS
  <2> QED
    BY <1>1, <1>4, <1>10 DEF json_object_get_array, g
<1>12. old # Error =>
         /\ json_object_get_value(r, g) = Array(Expected(old.items, user, assistant))
         /\ Expected(old.items, user, assistant) \in Seq(Values[Top - 2])
         /\ Del(Del(Expected(old.items, user, assistant), <<"user">>), <<"assistant">>) = Own(D)
  <2> SUFFICES ASSUME old # Error
               PROVE  /\ json_object_get_value(r, g) = Array(Expected(old.items, user, assistant))
                      /\ Expected(old.items, user, assistant) \in Seq(Values[Top - 2])
                      /\ Del(Del(Expected(old.items, user, assistant), <<"user">>), <<"assistant">>) = Own(D)
    OBVIOUS
  <2>1. PICK messages \in Seq(Values[Top - 2]) :
         /\ json_object_get_value(v, g) = Array(messages)
         /\ Del(Del(messages, <<"user">>), <<"assistant">>) = Own(D)
    BY <1>2
  <2>2. PreparedItem(v, g, user, assistant) = Array(Renewed(messages, user, assistant))
    BY <1>10, <2>1 DEF json_object_get_array, Array, Value, Error
  <2>3. /\ Own(D) \o Message(<<"user">>, user) \o Message(<<"assistant">>, assistant) \in Seq(Values[Top - 2])
        /\ Del(Del(Own(D) \o Message(<<"user">>, user) \o Message(<<"assistant">>, assistant), <<"user">>), <<"assistant">>) = Own(D)
    BY DelAppended, OwnTyped, Levels
  <2> QED
    BY <1>4, <2>1, <2>2, <2>3 DEF Renewed, Expected, Own
<1>13. \A x : x \notin {t, m, g} => json_object_get_value(r, x) = json_object_get_value(D, x)
  BY <1>1, <1>4, <1>10 DEF t, m, g
<1>14. ASSUME NEW i \in DOMAIN r.names
       PROVE  r.items[i] =
                CASE r.names[i] = t -> Number(Temperature)
                  [] r.names[i] = m -> Number(MaxTokens)
                  [] r.names[i] = g /\ old # Error -> Array(Expected(old.items, user, assistant))
                  [] OTHER -> json_object_get_value(D, r.names[i])
  <2> DEFINE x == r.names[i]
  <2>1. r.items[i] = json_object_get_value(r, x)
    BY <1>4, <1>5, Levels, GetIs
  <2> HIDE DEF x, old
  <2> QED
    BY <1>4, <1>9, <1>10, <1>11, <1>12, <1>13, <2>1 DEF x
<1> QED
  BY <1>4, <1>6, <1>8, <1>11, <1>12, <1>13, <1>14 DEF Keeps, t, m, g, Extends

\* The context's document is the prompt's, as the requests until now have left it.
PromptInv ==
  json_root # Error =>
    LET D == json_parse_file(file)
    IN /\ D \in Documents
       /\ D.type # "object" => json_root = D
       /\ D.type = "object" /\ Single(D) => Keeps(D, json_root)

\* What the prompt file holds is a document, or nothing.
LEMMA ParseFileIs ==
  ASSUME TypeOK
  PROVE  json_parse_file(file) \in Documents \cup {Error}
BY ParsedIs, OpenAiAssumption, TypeIs DEF json_parse_file

\* A request is made of what the requests before it have left.
LEMMA PostedIs ==
  ASSUME NEW D \in Documents, NEW v \in Documents,
         D.type # "object" => v = D,
         D.type = "object" /\ Single(D) => Keeps(D, v),
         NEW user \in Strings \cup {NULL}, NEW assistant \in Strings \cup {NULL},
         NEW r, r = Prepared(v, user, assistant)
  PROVE  /\ r \in Documents
         /\ D.type # "object" => r = D
         /\ D.type = "object" /\ Single(D) => Keeps(D, r)
         /\ Extends(D, json_object_get_array(D, <<"messages">>), r, user, assistant)
<1>1. r \in Documents
  BY PreparedIs
<1>2. CASE D.type # "object"
  BY <1>1, <1>2, PreparedIs DEF Extends
<1>3. CASE D.type = "object" /\ ~Single(D)
  BY <1>1, <1>3, Zenon DEF Extends, Single
<1> QED
  BY <1>1, <1>2, <1>3, KeepsPrepared

\* Every step keeps it.
LEMMA PromptNext ==
  ASSUME TypeOK, RequestInv, PromptInv, PostsThisConversation, [Next]_vars
  PROVE  PromptInv' /\ PostsThisConversation'
<1> DEFINE D == json_parse_file(file)
<1>1. D \in Documents \cup {Error} /\ json_root \in Documents \cup {Error}
  BY ParseFileIs, TypeIs
<1>2. json_root # Error =>
        /\ D \in Documents
        /\ D.type # "object" => json_root = D
        /\ D.type = "object" /\ Single(D) => Keeps(D, json_root)
  BY Zenon DEF PromptInv
<1>3. Where = Innermost(frames) /\ Where' = Innermost(frames') /\ IsStack(frames)
  BY DEF Where, Innermost, RequestInv
<1>4. ASSUME Where' # "http" PROVE PostsThisConversation'
  BY <1>4 DEF PostsThisConversation
<1>5. ASSUME UNCHANGED <<file, json_root>> PROVE PromptInv'
  BY <1>5 DEF PromptInv
<1>6. ASSUME UNCHANGED <<file, frames>>, request'.posted = request.posted, request'.user = request.user,
             request'.assistant = request.assistant
      PROVE  PostsThisConversation'
  BY <1>3, <1>6 DEF PostsThisConversation, ExtendsPrompt
<1>7. CASE dx_openai_function_init
  BY <1>1, <1>2, <1>3, <1>4, <1>7, KeepsItself DEF PromptInv, dx_openai_function_init, AppRuns
<1>8. CASE dx_openai_function_free
  BY <1>3, <1>4, <1>8 DEF PromptInv, dx_openai_function_free, AppRuns
<1>9. CASE Compose
  BY <1>5, <1>6, <1>9 DEF Compose, contextVars
<1>10. CASE PostRequest
  <2>1. json_root # Error /\ UNCHANGED file
    BY <1>10 DEF PostRequest
  <2>2. PICK turn \in Turns \cup {<<buffer, NULL>>}, answer \in Answers :
          /\ json_root' = Prepared(json_root, turn[1], turn[2])
          /\ request' = [user |-> turn[1], assistant |-> turn[2],
                         posted |-> json_serialize_to_string(json_root'),
                         answer |-> answer, rest |-> answer.text,
                         memory |-> Unwritten, heard |-> Silence]
    BY <1>10, Zenon DEF PostRequest
  <2> DEFINE user == turn[1]
             assistant == turn[2]
  <2>3. request'.user = user /\ request'.assistant = assistant /\ request'.posted = json_serialize_to_string(json_root')
    BY <2>2
  <2>4. json_root' = Prepared(json_root, user, assistant) /\ user \in Strings \cup {NULL} /\ assistant \in Strings \cup {NULL}
    BY <2>2, OpenAiAssumption, TypeIs
  <2> HIDE DEF user, assistant, D
  <2>5. /\ json_root' \in Documents
        /\ D.type # "object" => json_root' = D
        /\ D.type = "object" /\ Single(D) => Keeps(D, json_root')
        /\ Extends(D, json_object_get_array(D, <<"messages">>), json_root', user, assistant)
    BY <1>1, <1>2, <2>1, <2>4, PostedIs
  <2>6. D' = D
    BY <2>1 DEF D
  <2> QED
    BY <1>2, <2>1, <2>3, <2>5, <2>6, RoundTrip DEF PromptInv, D, PostsThisConversation, ExtendsPrompt
<1>11. CASE Receive
  BY <1>5, <1>6, <1>11, TypeIs DEF Receive, contextVars, RequestType
<1>12. CASE ResponseHandled
  BY <1>3, <1>4, <1>5, <1>12, Popped DEF Innermost, ResponseHandled, contextVars
<1>13. CASE RequestReturns
  BY <1>3, <1>4, <1>5, <1>13, Popped DEF Innermost, RequestReturns, contextVars
<1>14. CASE UNCHANGED vars
  BY <1>5, <1>6, <1>14 DEF vars, contextVars
<1> QED
  BY <1>7, <1>8, <1>9, <1>10, <1>11, <1>12, <1>13, <1>14 DEF Next

\* When the prompt has one question and one answer at the most: whatever questions and
\* answers there are, after any number of requests, in each other or not, a request
\* posts a text that is read as the prompt's document with its own question and answer
\* and no other's.
THEOREM PostsConversation == Spec => []PostsThisConversation
<1>1. Init => PromptInv /\ PostsThisConversation
  <2> SUFFICES ASSUME Init PROVE PromptInv /\ PostsThisConversation
    OBVIOUS
  <2> QED
    BY DEF PromptInv, PostsThisConversation, Where, Init
<1> QED
  BY <1>1, PTL, RequestInit, RequestNext, PromptNext DEF Spec

\* Every sample, and whatever the buffer holds, is read by the parser exactly as the
\* grammar says.
THEOREM ReadsWritten == Spec => []ReadsWhatIsWritten
<1>1. TypeOK => ReadsWhatIsWritten
  BY ReadsAsWritten, SamplesAssumption DEF TypeOK, ReadsWhatIsWritten, Misread
<1> QED
  BY <1>1, TypeCorrect, PTL
=============================================================================

-------------------------- MODULE JsonObjectProofs --------------------------
(***************************************************************************)
(* The hash table of parson.c is a map, for every function that hashes the *)
(* names and every size of table: open addressing with linear probing,     *)
(* growth by rehashing, and removal that moves items back.                 *)
(***************************************************************************)
EXTENDS JsonObject, FiniteSetTheorems, NaturalsInduction, TLAPS

-----------------------------------------------------------------------------
(* Numbers.                                                                *)

\* The remainder is the one number below N that leaves a multiple of N.
LEMMA ModUnique ==
  ASSUME NEW a \in Int, NEW N \in Nat \ {0}, NEW q \in Int, NEW r \in 0..(N - 1), a = N * q + r
  PROVE  a % N = r
<1>1. a % N \in 0..(N - 1) /\ a = N * (a \div N) + (a % N)
  BY Z3
<1>2. N * (q - (a \div N)) = (a % N) - r
  <2>1. N * (q - (a \div N)) = N * q - N * (a \div N)
    BY Z3
  <2> QED
    BY <1>1, <2>1
<1>3. q - (a \div N) = 0
  <2> DEFINE k == q - (a \div N)
  <2>1. k \in Int
    OBVIOUS
  <2>2. ASSUME k >= 1 PROVE FALSE
    <3>1. N * k >= N
      BY <2>1, <2>2, Z3
    <3> QED
      BY <1>1, <1>2, <3>1
  <2>3. ASSUME k <= -1 PROVE FALSE
    <3>1. N * k <= -N
      BY <2>1, <2>3, Z3
    <3> QED
      BY <1>1, <1>2, <3>1
  <2> QED
    BY <2>1, <2>2, <2>3
<1>4. N * (q - (a \div N)) = 0
  BY <1>3
<1> QED
  BY <1>1, <1>2, <1>4

\* The x-th place after the place p of a ring of N.
Shift(N, p, x) == IF p + x < N THEN p + x ELSE p + x - N

\* A key's home plus x, as json_object_get_cell_ix probes it, is a place of the ring.
LEMMA ModShift ==
  ASSUME NEW h \in Nat, NEW N \in Nat \ {0}, NEW x \in 0..(N - 1)
  PROVE  h % N \in 0..(N - 1) /\ (h + x) % N = Shift(N, h % N, x)
<1>1. h % N \in 0..(N - 1) /\ h = N * (h \div N) + (h % N) /\ h \div N \in Nat
  BY Z3
<1>2. CASE (h % N) + x < N
  <2>1. h + x \in Int /\ h \div N \in Int /\ h + x = N * (h \div N) + ((h % N) + x) /\ (h % N) + x \in 0..(N - 1)
    BY <1>1, <1>2
  <2>2. (h + x) % N = (h % N) + x
    BY <2>1, ModUnique, Zenon
  <2> QED
    BY <1>1, <1>2, <2>2 DEF Shift
<1>3. CASE (h % N) + x >= N
  <2>1. h + x = N * ((h \div N) + 1) + ((h % N) + x - N)
    <3>1. N * ((h \div N) + 1) = N * (h \div N) + N
      BY <1>1, Z3
    <3> QED
      BY <1>1, <3>1
  <2>2. (h % N) + x - N \in 0..(N - 1)
    BY <1>1, <1>3
  <2>3. h + x \in Int /\ (h \div N) + 1 \in Int
    BY <1>1
  <2>4. (h + x) % N = (h % N) + x - N
    BY <2>1, <2>2, <2>3, ModUnique, Zenon
  <2> QED
    BY <1>1, <1>3, <2>4 DEF Shift
<1> QED
  BY <1>1, <1>2, <1>3

\* How far a cell is from the emptied one is read back from its place.
LEMMA ModBack ==
  ASSUME NEW N \in Nat \ {0}, NEW p \in 0..(N - 1), NEW x \in 1..(N - 1)
  PROVE  (Shift(N, p, x) - p - 1) % N = x - 1
<1>1. CASE p + x < N
  <2>1. Shift(N, p, x) - p - 1 = N * 0 + (x - 1)
    BY <1>1 DEF Shift
  <2> QED
    BY <1>1, <2>1, ModUnique DEF Shift
<1>2. CASE p + x >= N
  <2>1. Shift(N, p, x) - p - 1 = N * (-1) + (x - 1)
    BY <1>2 DEF Shift
  <2> QED
    BY <1>2, <2>1, ModUnique DEF Shift
<1> QED
  BY <1>1, <1>2

\* A set of numbers that is not empty has a least one.
LEMMA LeastOf ==
  ASSUME NEW S, S \subseteq Nat, S # {}
  PROVE  \E x \in S : \A y \in S : x <= y
<1> DEFINE R == {ss \in Nat \X Nat : ss[1] < ss[2]}
<1>1. PICK x \in S : \A y \in S : ~(<<y, x>> \in R)
  <2>1. IsWellFoundedOn(R, Nat)
    BY NatLessThanWellFounded, Zenon DEF OpToRel
  <2> HIDE DEF R
  <2> QED
    BY <2>1, WFMin
<1>2. ASSUME NEW y \in S PROVE x <= y
  <2>1. x \in Nat /\ y \in Nat /\ <<y, x>> \in Nat \X Nat
    OBVIOUS
  <2>2. ~(<<y, x>>[1] < <<y, x>>[2])
    BY <1>1, <2>1
  <2> QED
    BY <2>1, <2>2
<1> QED
  BY <1>2

\* Induction, over a set.
LEMMA Inductive ==
  ASSUME NEW n \in Nat, NEW S, 0 \in S, \A x \in 1..n : x - 1 \in S => x \in S
  PROVE  0..n \subseteq S
<1> SUFFICES ASSUME ~(0..n \subseteq S) PROVE FALSE
  OBVIOUS
<1>1. (0..n) \ S \subseteq Nat /\ (0..n) \ S # {}
  OBVIOUS
<1>2. PICK x \in (0..n) \ S : \A y \in (0..n) \ S : x <= y
  BY <1>1, LeastOf
<1>3. x \in 1..n /\ x - 1 \in 0..n
  BY <1>2
<1>4. x - 1 \in S
  BY <1>2, <1>3
<1> QED
  BY <1>2, <1>3, <1>4

-----------------------------------------------------------------------------
(* What a table is, between calls.  N is its number of cells.              *)

Entries(N) == [name : Keys, value : Values, hash : Hashes, cell : 0..(N - 1)]

\* Going up from h, and around, p comes before c.
Between(h, p, c) == IF h <= c THEN h <= p /\ p < c ELSE p >= h \/ p < c

Table(o, N) ==
  /\ N \in Nat
  /\ o = [cells |-> o.cells, items |-> o.items]
  /\ o.cells \in [0..(N - 1) -> Nat]
  /\ o.items \in Seq(Entries(N))

Matched(o, N) ==
  /\ \A n \in DOMAIN o.items : o.cells[o.items[n].cell] = n
  /\ \A c \in 0..(N - 1) :
       o.cells[c] # Invalid => o.cells[c] \in DOMAIN o.items /\ o.items[o.cells[c]].cell = c

Named(o) ==
  /\ \A n \in DOMAIN o.items : o.items[n].hash = hash_string[o.items[n].name]
  /\ \A m, n \in DOMAIN o.items : o.items[m].name = o.items[n].name => m = n

\* No cell from an item's home to its own is empty: looking for it does not stop early.
Reached(o, N) ==
  \A n \in DOMAIN o.items : \A p \in 0..(N - 1) :
    Between(o.items[n].hash % N, p, o.items[n].cell) => o.cells[p] # Invalid

Well(o, N) == Table(o, N) /\ Matched(o, N) /\ Named(o) /\ Reached(o, N)

HashOK == hash_string \in [Keys -> Hashes]

Names(o) == {o.items[n].name : n \in DOMAIN o.items}

\* The number of cells is the capacity.
LEMMA Capacity ==
  ASSUME NEW o, NEW N, Table(o, N)
  PROVE  CellCapacity(o) = N
<1>1. DOMAIN o.cells = 0..(N - 1) /\ N \in Nat
  BY DEF Table
<1>2. Cardinality(0..(N - 1)) = N
  BY <1>1, FS_Interval
<1> QED
  BY <1>1, <1>2 DEF CellCapacity

\* What an item of a table has.
LEMMA EntryAt ==
  ASSUME NEW o, NEW N, Table(o, N), NEW n \in DOMAIN o.items
  PROVE  /\ o.items[n] \in Entries(N) /\ o.items[n].name \in Keys /\ o.items[n].value \in Values
         /\ o.items[n].hash \in Nat /\ o.items[n].hash \in Hashes /\ o.items[n].cell \in 0..(N - 1)
         /\ n \in Nat /\ n # 0 /\ DOMAIN o.items = 1..Len(o.items) /\ Len(o.items) \in Nat
<1>1. o.items[n] \in Entries(N) /\ DOMAIN o.items = 1..Len(o.items) /\ Len(o.items) \in Nat
  BY DEF Table
<1>2. n \in 1..Len(o.items)
  BY <1>1
<1>3. /\ o.items[n].name \in Keys /\ o.items[n].value \in Values
      /\ o.items[n].hash \in Hashes /\ o.items[n].cell \in 0..(N - 1)
  BY <1>1 DEF Entries
<1>4. o.items[n].hash \in Nat
  BY <1>3, ObjectAssumption DEF ObjectAssumption
<1>5. n \in Nat /\ n # 0
  BY <1>1, <1>2
<1> QED
  BY <1>1, <1>3, <1>4, <1>5, Zenon

\* The places of a ring, counted from h, and where p is among them.
RingAt(N, h, p) ==
  /\ \E i \in 0..(N - 1) : p = Shift(N, h, i)
  /\ \A i \in 0..(N - 1) : Shift(N, h, i) \in 0..(N - 1)
  /\ \A i, j \in 0..(N - 1) : Shift(N, h, i) = Shift(N, h, j) => i = j
  /\ \A i \in 0..(N - 1) : Between(h, p, Shift(N, h, i)) => \E j \in 0..(i - 1) : p = Shift(N, h, j)
  /\ \A i \in 0..(N - 1) : \A j \in 0..(i - 1) : Between(h, Shift(N, h, j), Shift(N, h, i))

\* The places of a ring, counted from any of them.
LEMMA Around ==
  ASSUME NEW N \in Nat \ {0}, NEW h \in 0..(N - 1), NEW p \in 0..(N - 1)
  PROVE  RingAt(N, h, p)
<1> DEFINE d == IF p >= h THEN p - h ELSE p - h + N
<1>1. d \in 0..(N - 1) /\ p = Shift(N, h, d)
  BY DEF Shift
<1>2. ASSUME NEW i \in 0..(N - 1), Between(h, p, Shift(N, h, i)) PROVE d \in 0..(i - 1)
  BY <1>2 DEF Shift, Between
<1>3. \A i \in 0..(N - 1) : Shift(N, h, i) \in 0..(N - 1)
  BY DEF Shift
<1>4. \A i, j \in 0..(N - 1) : Shift(N, h, i) = Shift(N, h, j) => i = j
  BY DEF Shift
<1>5. \A i \in 0..(N - 1) : \A j \in 0..(i - 1) : Between(h, Shift(N, h, j), Shift(N, h, i))
  BY DEF Shift, Between
<1> HIDE DEF d
<1> QED
  BY <1>1, <1>2, <1>3, <1>4, <1>5 DEF RingAt

\* Where looking for k stops.
LEMMA ProbeStops ==
  ASSUME HashOK, NEW o, NEW N, Table(o, N), N > 0, NEW k \in Keys
  PROVE  LET c == json_object_get_cell_ix(o, k)
             h == hash_string[k] % N
             Stops(i) == o.cells[Shift(N, h, i)] = Invalid \/ Holds(o, Shift(N, h, i), k)
         IN /\ h \in 0..(N - 1)
            /\ \/ /\ c = NoCell
                  /\ \A i \in 0..(N - 1) : ~Stops(i)
               \/ \E i \in 0..(N - 1) :
                    c = Shift(N, h, i) /\ Stops(i) /\ \A j \in 0..(i - 1) : ~Stops(j)
<1> DEFINE capacity == CellCapacity(o)
           h == hash_string[k] % N
           Probed(i) == (hash_string[k] + i) % capacity
           Stops(i) == o.cells[Probed(i)] = Invalid \/ Holds(o, Probed(i), k)
           Least(i) == Stops(i) /\ \A j \in 0..(i - 1) : ~Stops(j)
           c == json_object_get_cell_ix(o, k)
           S == {i \in 0..(N - 1) : Stops(i)}
           m == CHOOSE i \in 0..(N - 1) : Least(i)
<1>1. hash_string[k] \in Nat /\ N \in Nat \ {0} /\ 0 \in 0..(N - 1)
  BY ObjectAssumption DEF HashOK, ObjectAssumption, Table
<1>2. capacity = N
  BY Capacity
<1>3. h \in 0..(N - 1)
  BY <1>1, ModShift, Zenon
<1>4. ASSUME NEW i \in 0..(N - 1) PROVE Probed(i) = Shift(N, h, i)
  BY <1>1, <1>2, ModShift, Zenon
<1>5. c = IF \E i \in 0..(capacity - 1) : Stops(i)
            THEN Probed(CHOOSE i \in 0..(capacity - 1) : Least(i)) ELSE NoCell
  BY Zenon DEF json_object_get_cell_ix
<1>6. c = IF \E i \in 0..(N - 1) : Stops(i) THEN Probed(m) ELSE NoCell
  BY <1>2, <1>5, Zenon
<1> HIDE DEF c, h, capacity
<1>7. CASE \A i \in 0..(N - 1) : ~Stops(i)
  <2>1. c = NoCell
    BY <1>6, <1>7, Zenon
  <2> DEFINE Halts(i) == o.cells[Shift(N, h, i)] = Invalid \/ Holds(o, Shift(N, h, i), k)
  <2>2. \A i \in 0..(N - 1) : ~Halts(i)
    BY <1>4, <1>7
  <2> QED
    BY <1>3, <2>1, <2>2 DEF h, c
<1>8. CASE \E i \in 0..(N - 1) : Stops(i)
  <2>1. S \subseteq Nat /\ S # {}
    BY <1>8
  <2>2. PICK i \in S : \A j \in S : i <= j
    BY <2>1, LeastOf
  <2>3. i \in 0..(N - 1) /\ Stops(i)
    BY <2>2
  <2>4. ASSUME NEW j \in 0..(i - 1) PROVE ~Stops(j)
    <3>1. j \in 0..(N - 1) /\ ~(i <= j)
      BY <1>1, <2>3
    <3> QED
      BY <2>2, <3>1
  <2>5. Least(i)
    BY <2>3, <2>4
  <2>6. m \in 0..(N - 1) /\ Least(m)
    BY <2>3, <2>5
  <2>7. c = Probed(m)
    BY <1>6, <1>8
  <2> HIDE DEF m
  <2>8. c = Shift(N, h, m)
    BY <1>4, <2>6, <2>7
  <2>9. \A j \in 0..m : j \in 0..(N - 1)
    BY <1>1, <2>6
  <2>10. \A j \in 0..(m - 1) : ~Stops(j) /\ j \in 0..(N - 1)
    BY <1>1, <2>6
  <2> HIDE DEF Least
  <2>11. Stops(m)
    BY <2>6 DEF Least
  <2> DEFINE Halts(q) == o.cells[Shift(N, h, q)] = Invalid \/ Holds(o, Shift(N, h, q), k)
  <2>12. Halts(m) /\ \A j \in 0..(m - 1) : ~Halts(j)
    BY <1>4, <2>6, <2>10, <2>11
  <2> QED
    BY <1>3, <2>6, <2>8, <2>12 DEF h, c
<1> QED
  BY <1>7, <1>8 DEF c, h
-----------------------------------------------------------------------------
(* What is found.                                                          *)

\* json_object_get_cell_ix finds the cell of every item, under its name.
LEMMA ProbeFinds ==
  ASSUME HashOK, NEW o, NEW N, Well(o, N), NEW n \in DOMAIN o.items
  PROVE  json_object_get_cell_ix(o, o.items[n].name) = o.items[n].cell
<1> DEFINE k == o.items[n].name
           cell == o.items[n].cell
           h == hash_string[k] % N
           c == json_object_get_cell_ix(o, k)
           Stops(i) == o.cells[Shift(N, h, i)] = Invalid \/ Holds(o, Shift(N, h, i), k)
<1>1. /\ Table(o, N) /\ k \in Keys /\ cell \in 0..(N - 1) /\ N \in Nat
      /\ o.items[n].hash = hash_string[k] /\ o.cells[cell] = n /\ n # 0
  BY EntryAt DEF Well, Table, Matched, Named
<1>2. N > 0 /\ N \in Nat \ {0}
  BY <1>1
<1>3. /\ h \in 0..(N - 1)
      /\ \/ c = NoCell /\ \A i \in 0..(N - 1) : ~Stops(i)
         \/ \E i \in 0..(N - 1) : c = Shift(N, h, i) /\ Stops(i) /\ \A j \in 0..(i - 1) : ~Stops(j)
  BY <1>1, <1>2, ProbeStops
<1> HIDE DEF h, c
<1>4. RingAt(N, h, cell)
  BY <1>1, <1>2, <1>3, Around, Zenon
<1>5. PICK d \in 0..(N - 1) : cell = Shift(N, h, d)
  BY <1>4 DEF RingAt
<1>6. Stops(d)
  BY <1>1, <1>5 DEF Holds, Invalid
<1>7. PICK i \in 0..(N - 1) : c = Shift(N, h, i) /\ Stops(i) /\ \A j \in 0..(i - 1) : ~Stops(j)
  BY <1>3, <1>6
<1>8. CASE i = d
  BY <1>5, <1>7, <1>8 DEF c
<1>9. CASE i < d
  <2> DEFINE p == Shift(N, h, i)
  <2>1. i \in 0..(d - 1) /\ p \in 0..(N - 1)
    BY <1>2, <1>9, <1>4 DEF RingAt
  <2>2. Between(h, p, cell)
    <3>1. \A e \in 0..(N - 1) : \A j \in 0..(e - 1) : Between(h, Shift(N, h, j), Shift(N, h, e))
      BY <1>4, Zenon DEF RingAt
    <3> QED
      BY <1>5, <2>1, <3>1, Zenon
  <2> HIDE DEF p
  <2>3. o.cells[p] # Invalid
    BY <1>1, <2>1, <2>2 DEF Well, Reached, h
  <2>4. o.cells[p] \in DOMAIN o.items /\ o.items[o.cells[p]].cell = p
    BY <2>1, <2>3 DEF Well, Matched
  <2>5. o.items[o.cells[p]].name = k
    BY <1>7, <2>3 DEF p, Holds
  <2>6. o.cells[p] = n
    BY <2>4, <2>5 DEF Well, Named
  <2>7. p = cell
    BY <2>4, <2>6
  <2>8. i = d
    BY <1>5, <2>7, <1>4 DEF RingAt, p
  <2> QED
    BY <1>9, <2>8
<1>10. CASE i > d
  <2>1. d \in 0..(i - 1)
    BY <1>2, <1>10
  <2> QED
    BY <1>6, <1>7, <2>1
<1> QED
  BY <1>2, <1>8, <1>9, <1>10

\* For a name that no item has, it finds the first empty cell on its way, or
\* none when no cell is empty.
LEMMA ProbeFree ==
  ASSUME HashOK, NEW o, NEW N, Well(o, N), N > 0, NEW k \in Keys, k \notin Names(o)
  PROVE  LET c == json_object_get_cell_ix(o, k)
         IN \/ c = NoCell /\ \A p \in 0..(N - 1) : o.cells[p] # Invalid
            \/ /\ c \in 0..(N - 1) /\ o.cells[c] = Invalid
               /\ \A p \in 0..(N - 1) : Between(hash_string[k] % N, p, c) => o.cells[p] # Invalid
<1> DEFINE h == hash_string[k] % N
           c == json_object_get_cell_ix(o, k)
           Stops(i) == o.cells[Shift(N, h, i)] = Invalid \/ Holds(o, Shift(N, h, i), k)
<1>1. Table(o, N) /\ N \in Nat \ {0}
  BY DEF Well, Table
<1>2. /\ h \in 0..(N - 1)
      /\ \/ c = NoCell /\ \A i \in 0..(N - 1) : ~Stops(i)
         \/ \E i \in 0..(N - 1) : c = Shift(N, h, i) /\ Stops(i) /\ \A j \in 0..(i - 1) : ~Stops(j)
  BY <1>1, ProbeStops
<1> HIDE DEF h, c
<1>3. ASSUME NEW p \in 0..(N - 1), Holds(o, p, k) PROVE FALSE
  <2>1. o.cells[p] \in DOMAIN o.items /\ o.items[o.cells[p]].name = k
    BY <1>3 DEF Holds, Well, Matched
  <2> QED
    BY <2>1 DEF Names
<1>4. CASE c = NoCell /\ \A i \in 0..(N - 1) : ~Stops(i)
  <2>1. ASSUME NEW p \in 0..(N - 1) PROVE o.cells[p] # Invalid
    <3>1. RingAt(N, h, p)
      BY <1>1, <1>2, Around, Zenon
    <3>2. PICK i \in 0..(N - 1) : p = Shift(N, h, i)
      BY <3>1 DEF RingAt
    <3> QED
      BY <1>4, <3>2
  <2> QED
    BY <1>4, <2>1 DEF c
<1>5. ASSUME NEW i \in 0..(N - 1), c = Shift(N, h, i), Stops(i), \A j \in 0..(i - 1) : ~Stops(j)
      PROVE  /\ c \in 0..(N - 1) /\ o.cells[c] = Invalid
             /\ \A p \in 0..(N - 1) : Between(h, p, c) => o.cells[p] # Invalid
  <2>1. c \in 0..(N - 1)
    BY <1>1, <1>2, <1>5 DEF Shift
  <2>2. o.cells[c] = Invalid
    BY <1>3, <1>5, <2>1
  <2>3. ASSUME NEW p \in 0..(N - 1), Between(h, p, c) PROVE o.cells[p] # Invalid
    <3>1. RingAt(N, h, p)
      BY <1>1, <1>2, Around, Zenon
    <3>2. PICK j \in 0..(i - 1) : p = Shift(N, h, j)
      BY <1>5, <2>3, <3>1 DEF RingAt
    <3> QED
      BY <1>5, <3>2
  <2> QED
    BY <2>1, <2>2, <2>3
<1> QED
  BY <1>2, <1>4, <1>5 DEF c, h

\* What json_object_get_value finds.
LEMMA Lookup ==
  ASSUME HashOK, NEW o, NEW N, Well(o, N)
  PROVE  /\ \A n \in DOMAIN o.items :
              /\ Found(o, o.items[n].name)
              /\ o.cells[json_object_get_cell_ix(o, o.items[n].name)] = n
              /\ json_object_getn_value(o, o.items[n].name) = o.items[n].value
         /\ \A k \in Keys \ Names(o) : ~Found(o, k) /\ json_object_getn_value(o, k) = NULL
<1>1. Table(o, N)
  BY DEF Well
<1>2. ASSUME NEW n \in DOMAIN o.items
      PROVE  /\ Found(o, o.items[n].name)
             /\ o.cells[json_object_get_cell_ix(o, o.items[n].name)] = n
             /\ json_object_getn_value(o, o.items[n].name) = o.items[n].value
  <2> DEFINE c == json_object_get_cell_ix(o, o.items[n].name)
  <2>1. c = o.items[n].cell
    BY ProbeFinds
  <2>2. c \in 0..(N - 1) /\ o.cells[c] = n /\ n # 0 /\ o.items[n].hash = hash_string[o.items[n].name]
    BY <1>1, <2>1, EntryAt DEF Well, Matched, Named
  <2> HIDE DEF c
  <2>3. HoldsAt(o, c, o.items[n].name)
    BY <2>2 DEF HoldsAt, Holds, NoCell, Invalid
  <2> QED
    BY <2>2, <2>3 DEF Found, json_object_getn_value, c
<1>3. ASSUME NEW k \in Keys \ Names(o)
      PROVE  ~Found(o, k) /\ json_object_getn_value(o, k) = NULL
  <2> DEFINE c == json_object_get_cell_ix(o, k)
  <2>1. c = NoCell \/ o.cells[c] = Invalid
    <3>1. CASE N > 0
      BY <3>1, ProbeFree
    <3>2. CASE ~(N > 0)
      <4>1. 0..(CellCapacity(o) - 1) = {}
        BY <1>1, <3>2, Capacity DEF Table
      <4> QED
        BY <4>1 DEF json_object_get_cell_ix
    <3> QED
      BY <3>1, <3>2
  <2> HIDE DEF c
  <2>2. ~HoldsAt(o, c, k)
    BY <2>1 DEF HoldsAt, Holds
  <2> QED
    BY <2>2 DEF Found, json_object_getn_value, c
<1> QED
  BY <1>2, <1>3


-----------------------------------------------------------------------------
(* What is added.                                                          *)

\* While there are fewer items than cells, a cell is empty.
LEMMA RoomLeft ==
  ASSUME NEW o, NEW N, Table(o, N), Matched(o, N), Count(o) < N
  PROVE  \E c \in 0..(N - 1) : o.cells[c] = Invalid
<1> SUFFICES ASSUME \A c \in 0..(N - 1) : o.cells[c] # Invalid PROVE FALSE
  OBVIOUS
<1> DEFINE S == 0..(N - 1)
           T == 1..Count(o)
<1>1. N \in Nat /\ Count(o) \in Nat /\ DOMAIN o.items = T /\ o.cells \in [S -> Nat]
  BY DEF Table, Count
<1>2. o.cells \in Injection(S, T)
  <2>1. \A c \in S : o.cells[c] \in T /\ o.items[o.cells[c]].cell = c
    BY <1>1 DEF Matched
  <2>2. o.cells \in [S -> T]
    BY <1>1, <2>1
  <2>3. \A a, b \in S : o.cells[a] = o.cells[b] => a = b
    BY <2>1
  <2> QED
    BY <2>2, <2>3, Zenon DEF Injection, IsInjective
<1>3. IsFiniteSet(T) /\ Cardinality(T) = Count(o) /\ Cardinality(S) = N
  <2>1. /\ IsFiniteSet(T)
        /\ Cardinality(T) = IF 1 > Count(o) THEN 0 ELSE Count(o) - 1 + 1
    <3>1. 1 \in Int /\ Count(o) \in Int
      BY <1>1
    <3> QED
      BY <3>1, FS_Interval, Zenon
  <2>2. Cardinality(S) = IF 0 > N - 1 THEN 0 ELSE N - 1 - 0 + 1
    BY <1>1, FS_Interval
  <2> QED
    BY <1>1, <2>1, <2>2
<1> HIDE DEF S, T
<1>4. Cardinality(S) <= Cardinality(T)
  BY <1>2, <1>3, FS_Injection
<1> QED
  BY <1>1, <1>3, <1>4

\* o, with one more item, last.
Appended(o, a, k, v) ==
  /\ Len(a.items) = Len(o.items) + 1
  /\ \A n \in DOMAIN o.items : a.items[n] = o.items[n]
  /\ a.items[Len(o.items) + 1].name = k /\ a.items[Len(o.items) + 1].value = v

\* json_object_add, with room for one more, leaves a table in which every item
\* is reached.
LEMMA AddsWell ==
  ASSUME HashOK, NEW o, NEW N, Well(o, N), Count(o) < N,
         NEW k \in Keys, k \notin Names(o), NEW v \in Values
  PROVE  Well(Added(o, k, v), N) /\ Appended(o, Added(o, k, v), k, v)
<1> DEFINE c == json_object_get_cell_ix(o, k)
           h == hash_string[k] % N
           item == [name |-> k, value |-> v, hash |-> hash_string[k], cell |-> c]
           last == Count(o) + 1
           a == Added(o, k, v)
<1>1. /\ Table(o, N) /\ Matched(o, N) /\ Named(o) /\ Reached(o, N)
      /\ N \in Nat \ {0} /\ Count(o) \in Nat /\ DOMAIN o.items = 1..Count(o)
      /\ hash_string[k] \in Hashes
  BY DEF Well, Table, Count, HashOK
<1>2. /\ c \in 0..(N - 1) /\ o.cells[c] = Invalid
      /\ \A p \in 0..(N - 1) : Between(h, p, c) => o.cells[p] # Invalid
  BY <1>1, ProbeFree, RoomLeft
<1> HIDE DEF c
<1>3. a.cells = [o.cells EXCEPT ![c] = last] /\ a.items = Append(o.items, item)
      /\ a = [cells |-> a.cells, items |-> a.items]
  BY DEF Added, AddAt, c
<1> HIDE DEF a
<1>4. item \in Entries(N) /\ o.items \in Seq(Entries(N)) /\ o.cells \in [0..(N - 1) -> Nat]
  BY <1>1, <1>2 DEF Entries, Table
<1>5. /\ a.items \in Seq(Entries(N)) /\ DOMAIN a.items = 1..last /\ Len(a.items) = last
      /\ \A n \in 1..Count(o) : a.items[n] = o.items[n]
      /\ a.items[last] = item
  BY <1>1, <1>3, <1>4 DEF Count
<1>6. /\ a.cells \in [0..(N - 1) -> Nat] /\ a.cells[c] = last
      /\ \A p \in 0..(N - 1) : p # c => a.cells[p] = o.cells[p]
  BY <1>1, <1>2, <1>3, <1>4
<1>7. /\ item.name = k /\ item.value = v /\ item.hash = hash_string[k] /\ item.cell = c
      /\ last # Invalid /\ last \notin 1..Count(o) /\ 1..last = (1..Count(o)) \cup {last}
  BY <1>1 DEF Invalid
<1> HIDE DEF item, last
<1>8. Table(a, N)
  BY <1>1, <1>3, <1>5, <1>6 DEF Table
<1>9. Matched(a, N)
  <2>1. ASSUME NEW n \in 1..last PROVE a.cells[a.items[n].cell] = n
    <3>1. CASE n = last
      BY <1>5, <1>6, <1>7, <3>1
    <3>2. CASE n \in 1..Count(o)
      <4>1. o.items[n].cell \in 0..(N - 1) /\ o.cells[o.items[n].cell] = n /\ n # Invalid
        BY <1>1, <3>2, EntryAt DEF Matched, Invalid
      <4> QED
        BY <1>2, <1>5, <1>6, <3>2, <4>1
    <3> QED
      BY <1>7, <3>1, <3>2
  <2>2. ASSUME NEW p \in 0..(N - 1), a.cells[p] # Invalid
        PROVE  a.cells[p] \in 1..last /\ a.items[a.cells[p]].cell = p
    <3>1. CASE p = c
      BY <1>5, <1>6, <1>7, <3>1
    <3>2. CASE p # c
      <4>1. a.cells[p] = o.cells[p]
        BY <1>6, <3>2
      <4>2. o.cells[p] \in 1..Count(o) /\ o.items[o.cells[p]].cell = p
        BY <1>1, <2>2, <4>1 DEF Matched
      <4>3. a.items[o.cells[p]] = o.items[o.cells[p]]
        BY <1>5, <4>2
      <4> QED
        BY <1>7, <4>1, <4>2, <4>3
    <3> QED
      BY <3>1, <3>2
  <2> QED
    BY <1>5, <2>1, <2>2 DEF Matched
<1>10. Named(a)
  <2>1. \A n \in 1..last : a.items[n].hash = hash_string[a.items[n].name]
    BY <1>1, <1>5, <1>7 DEF Named
  <2>2. \A n \in 1..Count(o) : a.items[n].name # k
    BY <1>1, <1>5 DEF Names
  <2>3. \A m, n \in 1..last : a.items[m].name = a.items[n].name => m = n
    <3>1. \A m, n \in 1..Count(o) : o.items[m].name = o.items[n].name => m = n
      BY <1>1, Zenon DEF Named
    <3> QED
      BY <1>5, <1>7, <2>2, <3>1
  <2> QED
    BY <1>5, <2>1, <2>3 DEF Named
<1>11. Reached(a, N)
  <2>1. \A p \in 0..(N - 1) : o.cells[p] # Invalid => a.cells[p] # Invalid
    BY <1>6, <1>7
  <2>2. ASSUME NEW n \in 1..last, NEW p \in 0..(N - 1),
               Between(a.items[n].hash % N, p, a.items[n].cell)
        PROVE  o.cells[p] # Invalid
    <3>1. CASE n = last
      <4>1. a.items[n].hash % N = h /\ a.items[n].cell = c
        BY <1>5, <1>7, <3>1
      <4> QED
        BY <1>2, <2>2, <4>1
    <3>2. CASE n \in 1..Count(o)
      BY <1>1, <1>5, <2>2, <3>2 DEF Reached
    <3> QED
      BY <1>7, <3>1, <3>2
  <2> QED
    BY <1>5, <2>1, <2>2 DEF Reached
<1>12. Appended(o, a, k, v)
  BY <1>1, <1>5, <1>7 DEF Appended, last, Count
<1> QED
  BY <1>8, <1>9, <1>10, <1>11, <1>12 DEF Well, a

-----------------------------------------------------------------------------
(* A larger table.                                                         *)

\* The items of o, from the first to the n-th, have been added to f[n].
Refills(o, N, n, f) ==
  f = [m \in 0..n |->
         IF m = 0 THEN json_object_init(N)
         ELSE Added(f[m - 1], o.items[m].name, o.items[m].value)]

\* Items can be added again one by one: the recursive function is defined.
LEMMA RefillExists ==
  ASSUME NEW o, NEW N, NEW n \in Nat
  PROVE  \E f : Refills(o, N, n, f)
<1> DEFINE S == {m \in 0..n : \E f : Refills(o, N, m, f)}
<1>1. 0 \in S
  <2> DEFINE f == [m \in 0..0 |-> json_object_init(N)]
  <2>1. f = [m \in 0..0 |->
               IF m = 0 THEN json_object_init(N)
               ELSE Added(f[m - 1], o.items[m].name, o.items[m].value)]
    OBVIOUS
  <2> HIDE DEF f
  <2>2. Refills(o, N, 0, f)
    BY <2>1, Zenon DEF Refills
  <2> QED
    BY <2>2
<1>2. ASSUME NEW x \in 1..n, x - 1 \in S PROVE x \in S
  <2>1. PICK f : Refills(o, N, x - 1, f)
    BY <1>2
  <2> DEFINE g == [m \in 0..x |->
                     IF m = x THEN Added(f[x - 1], o.items[x].name, o.items[x].value) ELSE f[m]]
             FromG(m) == Added(g[m - 1], o.items[m].name, o.items[m].value)
             FromF(m) == Added(f[m - 1], o.items[m].name, o.items[m].value)
  <2>2. \A m \in 0..(x - 1) : f[m] = IF m = 0 THEN json_object_init(N) ELSE FromF(m)
    BY <2>1, Zenon DEF Refills
  <2>3. ASSUME NEW m \in 0..x PROVE g[m] = IF m = 0 THEN json_object_init(N) ELSE FromG(m)
    <3>1. CASE m = x
      <4>1. g[m] = FromF(m) /\ g[m - 1] = f[m - 1] /\ m # 0
        BY <3>1
      <4> QED
        BY <4>1, Zenon
    <3>2. CASE m # x /\ m # 0
      <4>1. g[m] = f[m] /\ g[m - 1] = f[m - 1] /\ m \in 0..(x - 1)
        BY <3>2
      <4> QED
        BY <2>2, <3>2, <4>1, Zenon
    <3>3. CASE m # x /\ m = 0
      <4>1. g[m] = f[m] /\ m \in 0..(x - 1)
        BY <3>3
      <4> QED
        BY <2>2, <3>3, <4>1, Zenon
    <3> QED
      BY <3>1, <3>2, <3>3
  <2>4. g = [m \in 0..x |-> g[m]]
    OBVIOUS
  <2> HIDE DEF g
  <2>5. g = [m \in 0..x |-> IF m = 0 THEN json_object_init(N) ELSE FromG(m)]
    BY <2>3, <2>4, Zenon
  <2>6. Refills(o, N, x, g)
    BY <2>5, Zenon DEF Refills
  <2>7. x \in 0..n
    OBVIOUS
  <2> QED
    BY <2>6, <2>7, Zenon
<1> HIDE DEF S
<1>3. 0..n \subseteq S
  BY <1>1, <1>2, Inductive, Zenon
<1> QED
  BY <1>3 DEF S

\* json_object_grow_and_rehash adds them so.
LEMMA RehashedIs ==
  ASSUME NEW o, NEW N, Count(o) \in Nat
  PROVE  \E f : Refills(o, N, Count(o), f) /\ Rehashed(o, N) = f[Count(o)]
<1> DEFINE f == CHOOSE g : Refills(o, N, Count(o), g)
<1>1. Refills(o, N, Count(o), f)
  BY RefillExists, Zenon
<1>2. Rehashed(o, N) = f[Count(o)]
  BY Zenon DEF Rehashed, Refills
<1> QED
  BY <1>1, <1>2, Zenon

\* A table without items.
LEMMA EmptyWell ==
  ASSUME NEW N \in Nat
  PROVE  Well(json_object_init(N), N) /\ json_object_init(N).items = <<>>
<1> DEFINE o == json_object_init(N)
<1>1. o = [cells |-> [c \in 0..(N - 1) |-> Invalid], items |-> <<>>]
  BY DEF json_object_init
<1>2. /\ o.cells = [c \in 0..(N - 1) |-> 0] /\ o.items = <<>> /\ DOMAIN o.items = {}
      /\ o = [cells |-> o.cells, items |-> o.items]
  BY <1>1 DEF Invalid
<1> HIDE DEF o
<1>3. Table(o, N)
  BY <1>2 DEF Table
<1>4. Matched(o, N) /\ Named(o) /\ Reached(o, N)
  BY <1>2 DEF Matched, Named, Reached, Invalid
<1> QED
  BY <1>2, <1>3, <1>4 DEF Well, o

\* The first m items have the same names and values.
SameItems(a, b, m) ==
  \A n \in 1..m : a.items[n].name = b.items[n].name /\ a.items[n].value = b.items[n].value

\* A table that has grown has the same items, and each is reached.
LEMMA RehashWell ==
  ASSUME HashOK, NEW o, NEW M, Well(o, M), NEW N \in Nat, Count(o) < N
  PROVE  /\ Well(Rehashed(o, N), N) /\ Count(Rehashed(o, N)) = Count(o)
         /\ SameItems(Rehashed(o, N), o, Count(o))
<1> DEFINE L == Count(o)
           Good(a, m) == Well(a, N) /\ Count(a) = m /\ SameItems(a, o, m)
<1>1. Table(o, M) /\ Named(o) /\ L \in Nat /\ DOMAIN o.items = 1..L
  BY DEF Well, Table, Count
<1>2. PICK f : Refills(o, N, L, f) /\ Rehashed(o, N) = f[L]
  BY <1>1, RehashedIs, Zenon
<1> DEFINE S == {m \in 0..L : Good(f[m], m)}
           e(m) == o.items[m]
<1>3. \A m \in 0..L : f[m] = IF m = 0 THEN json_object_init(N) ELSE Added(f[m - 1], e(m).name, e(m).value)
  BY <1>2, Zenon DEF Refills
<1> HIDE DEF L
<1>4. 0 \in S
  <2>1. f[0] = json_object_init(N) /\ 0 \in 0..L /\ 1..0 = {}
    BY <1>1, <1>3
  <2>2. Well(f[0], N) /\ f[0].items = <<>>
    BY <2>1, EmptyWell, Zenon
  <2>3. Count(f[0]) = 0
    BY <2>2 DEF Count
  <2>4. SameItems(f[0], o, 0)
    BY <2>1 DEF SameItems
  <2> QED
    BY <2>1, <2>2, <2>3, <2>4
<1>5. ASSUME NEW m \in 1..L, m - 1 \in S PROVE m \in S
  <2> DEFINE b == f[m - 1]
             a == f[m]
  <2>1. Well(b, N) /\ Count(b) = m - 1 /\ SameItems(b, o, m - 1) /\ m - 1 \in Nat /\ m \in 0..L /\ m # 0
    BY <1>1, <1>5
  <2>2. a = Added(b, e(m).name, e(m).value)
    BY <1>3, <2>1, Zenon
  <2> HIDE DEF a, b
  <2>3. DOMAIN b.items = 1..(m - 1) /\ Len(b.items) = m - 1 /\ Count(b) < N
    BY <1>1, <2>1 DEF Well, Table, Count, L
  <2>4. e(m).name \in Keys /\ e(m).value \in Values
    BY <1>1, EntryAt
  <2>5. e(m).name \notin Names(b)
    <3>1. ASSUME NEW n \in 1..(m - 1) PROVE b.items[n].name # o.items[m].name
      <4>1. n \in 1..L /\ n # m /\ b.items[n].name = o.items[n].name
        BY <1>1, <2>1 DEF SameItems
      <4> QED
        BY <1>1, <4>1 DEF Named
    <3> QED
      BY <2>3, <3>1 DEF Names
  <2>6. Well(a, N) /\ Appended(b, a, e(m).name, e(m).value)
    BY <2>1, <2>2, <2>3, <2>4, <2>5, AddsWell
  <2>7. Count(a) = m
    BY <2>1, <2>3, <2>6 DEF Appended, Count
  <2>8. SameItems(a, o, m)
    <3>1. ASSUME NEW n \in 1..m
          PROVE  a.items[n].name = o.items[n].name /\ a.items[n].value = o.items[n].value
      <4>1. CASE n = m
        <5>1. a.items[m].name = e(m).name /\ a.items[m].value = e(m).value
          BY <2>1, <2>3, <2>6 DEF Appended
        <5> QED
          BY <4>1, <5>1
      <4>2. CASE n # m
        <5>1. n \in 1..(m - 1)
          BY <2>1, <4>2
        <5>2. a.items[n] = b.items[n]
          BY <2>3, <2>6, <5>1 DEF Appended
        <5> QED
          BY <2>1, <5>1, <5>2 DEF SameItems
      <4> QED
        BY <4>1, <4>2
    <3> QED
      BY <3>1 DEF SameItems
  <2> QED
    BY <2>1, <2>6, <2>7, <2>8 DEF a
<1> HIDE DEF S
<1>6. 0..L \subseteq S
  BY <1>1, <1>4, <1>5, Inductive, Zenon
<1>7. L \in 0..L
  BY <1>1
<1>8. L \in S
  BY <1>6, <1>7
<1>9. Good(f[L], L)
  BY <1>8, Zenon DEF S
<1> QED
  BY <1>2, <1>9, Zenon DEF L

-----------------------------------------------------------------------------
(* The empty cell that a removal leaves, and where it goes.  Cells are     *)
(* counted from the one that was emptied.                                  *)

\* e[x] is where it is when x cells have been visited.
Trail(N, moved, e) ==
  /\ moved \subseteq 1..(N - 1)
  /\ e[0] = 0
  /\ \A x \in 1..(N - 1) : e[x] = IF x \in moved THEN x ELSE e[x - 1]

\* The empty cell is one of those that were visited and whose item moved.
LEMMA TrailBehind ==
  ASSUME NEW N \in Nat \ {0}, NEW moved, NEW e, Trail(N, moved, e)
  PROVE  \A x \in 0..(N - 1) : e[x] \in 0..x /\ (e[x] = 0 \/ e[x] \in moved)
<1> DEFINE S == {x \in 0..(N - 1) : e[x] \in 0..x /\ (e[x] = 0 \/ e[x] \in moved)}
<1>1. 0 \in S
  BY DEF Trail
<1>2. ASSUME NEW x \in 1..(N - 1), x - 1 \in S PROVE x \in S
  BY <1>2 DEF Trail
<1> HIDE DEF S
<1>3. N - 1 \in Nat
  OBVIOUS
<1>4. 0..(N - 1) \subseteq S
  BY <1>1, <1>2, <1>3, Inductive, Zenon
<1> QED
  BY <1>4 DEF S

\* The empty cell only goes on.
LEMMA TrailAhead ==
  ASSUME NEW N \in Nat \ {0}, NEW moved, NEW e, Trail(N, moved, e),
         NEW a \in 0..(N - 1)
  PROVE  \A b \in a..(N - 1) : e[b] = e[a] \/ e[b] > a
<1> DEFINE S == {b \in 0..(N - 1) : b >= a => (e[b] = e[a] \/ e[b] > a)}
<1>1. 0 \in S
  OBVIOUS
<1>2. ASSUME NEW x \in 1..(N - 1), x - 1 \in S PROVE x \in S
  <2>1. CASE x > a
    BY <1>2, <2>1 DEF Trail
  <2>2. CASE x <= a
    BY <2>2
  <2> QED
    BY <2>1, <2>2
<1> HIDE DEF S
<1>3. N - 1 \in Nat
  OBVIOUS
<1>4. 0..(N - 1) \subseteq S
  BY <1>1, <1>2, <1>3, Inductive, Zenon
<1> QED
  BY <1>4 DEF S

\* Every cell that it leaves is filled, and with one item.
Filled(N, moved, e) ==
  /\ \A m \in moved \cup {0} : m = e[N - 1] \/ \E x \in moved : e[x - 1] = m
  /\ \A x, y \in moved : e[x - 1] = e[y - 1] => x = y
  /\ \A x \in moved : e[x - 1] # e[N - 1]

\* Every cell of a trail but the last is left to one item.
LEMMA TrailFilled ==
  ASSUME NEW N \in Nat \ {0}, NEW moved, NEW e, Trail(N, moved, e)
  PROVE  Filled(N, moved, e)
<1>1. \A x \in 0..(N - 1) : e[x] \in 0..x /\ (e[x] = 0 \/ e[x] \in moved)
  BY TrailBehind
<1>2. \A a \in 0..(N - 1) : \A b \in a..(N - 1) : e[b] = e[a] \/ e[b] > a
  BY TrailAhead
<1>3. moved \subseteq 1..(N - 1) /\ \A x \in moved : e[x] = x
  BY DEF Trail
<1>4. ASSUME NEW m \in moved \cup {0}, m # e[N - 1] PROVE \E x \in moved : e[x - 1] = m
  <2> DEFINE R == {x \in m..(N - 1) : e[x] # m}
  <2>1. m \in 0..(N - 1) /\ e[m] = m
    BY <1>3 DEF Trail
  <2>2. R \subseteq Nat /\ N - 1 \in R
    BY <1>4, <2>1
  <2>3. PICK x \in R : \A y \in R : x <= y
    BY <2>2, LeastOf
  <2>4. x \in (m + 1)..(N - 1) /\ x \in 1..(N - 1) /\ e[x] # m /\ x - 1 \in m..(N - 1)
    BY <2>1, <2>3
  <2>5. e[x - 1] = m
    BY <2>1, <2>3, <2>4
  <2>6. x \in moved
    BY <2>4, <2>5 DEF Trail
  <2> QED
    BY <2>5, <2>6
<1>5. ASSUME NEW x \in moved, NEW y \in x..(N - 1) PROVE e[y] # e[x - 1]
  <2>1. x \in 0..(N - 1) /\ x - 1 \in 0..(N - 1) /\ e[x] = x
    BY <1>3
  <2>2. e[x - 1] \in 0..(x - 1)
    BY <1>1, <2>1
  <2>3. e[y] = e[x] \/ e[y] > x
    BY <1>2, <2>1
  <2> QED
    BY <2>1, <2>2, <2>3
<1>6. ASSUME NEW x \in moved, NEW y \in moved, e[x - 1] = e[y - 1] PROVE x = y
  <2>1. x \in 1..(N - 1) /\ y \in 1..(N - 1)
    BY <1>3
  <2>2. CASE x < y
    <3>1. y - 1 \in x..(N - 1)
      BY <2>1, <2>2
    <3> QED
      BY <1>5, <1>6, <3>1
  <2>3. CASE y < x
    <3>1. x - 1 \in y..(N - 1)
      BY <2>1, <2>3
    <3> QED
      BY <1>5, <1>6, <3>1
  <2> QED
    BY <2>1, <2>2, <2>3
<1>7. ASSUME NEW x \in moved PROVE e[x - 1] # e[N - 1]
  <2>1. N - 1 \in x..(N - 1)
    BY <1>3
  <2> QED
    BY <1>5, <2>1
<1> QED
  BY <1>4, <1>6, <1>7, Zenon DEF Filled

\* Between is the same from wherever the ring is counted.
LEMMA Turned ==
  ASSUME NEW N \in Nat \ {0}, NEW p \in 0..(N - 1),
         NEW a \in 0..(N - 1), NEW b \in 0..(N - 1), NEW d \in 0..(N - 1)
  PROVE  Between(Shift(N, p, a), Shift(N, p, b), Shift(N, p, d)) <=> Between(a, b, d)
BY DEF Shift, Between

\* MayMove asks whether the empty cell is between the item's home and its cell.
LEMMA MayMoveIs ==
  ASSUME NEW i \in Nat, NEW j \in Nat, NEW h \in Nat, i # j
  PROVE  MayMove(h, i, j) <=> Between(h, i, j)
BY DEF MayMove, Between

\* An item's way from its home, h, to its cell, at x, has no empty cell; L
\* is empty.  When all the visits are over, its way to y, its cell then, does
\* not pass the cell at z that is now empty.
LEMMA WayKept ==
  ASSUME NEW N \in Nat \ {0}, NEW moved, NEW e, Trail(N, moved, e),
         NEW L \in 1..(N - 1), NEW h \in 0..(N - 1), NEW x \in 1..(N - 1), x # L,
         \A m \in moved : m < L,
         x < L => (x \in moved <=> Between(h, e[x - 1], x)),
         ~Between(h, L, x)
  PROVE  LET y == IF x \in moved THEN e[x - 1] ELSE x
         IN \A p \in 0..(N - 1) : Between(h, p, y) => Between(h, p, x) /\ p # e[N - 1]
<1> DEFINE i == e[x - 1]
           z == e[N - 1]
<1>1. /\ x - 1 \in 0..(N - 1) /\ x \in 0..(N - 1) /\ N - 1 \in x..(N - 1) /\ N - 1 \in (x - 1)..(N - 1)
      /\ N - 1 \in 0..(N - 1)
  OBVIOUS
<1>2. i \in 0..(x - 1) /\ z \in 0..(N - 1) /\ (z = 0 \/ z \in moved)
  BY <1>1, TrailBehind
<1>3. z < L
  BY <1>2
<1>4. z = e[x] \/ z > x
  BY <1>1, TrailAhead
<1>5. e[x] = IF x \in moved THEN x ELSE i
  BY DEF Trail
<1> HIDE DEF i, z
<1>6. CASE x \in moved
  <2>1. Between(h, i, x) /\ x < L /\ z >= x /\ z \in Nat
    BY <1>2, <1>4, <1>5, <1>6 DEF i
  <2>2. \A p \in 0..(N - 1) : Between(h, p, i) => Between(h, p, x) /\ p # z
    BY <1>2, <1>3, <2>1 DEF Between
  <2> QED
    BY <1>6, <2>2 DEF i, z
<1>7. CASE x \notin moved /\ x < L
  <2>1. ~Between(h, i, x) /\ (z = i \/ z > x)
    BY <1>4, <1>5, <1>7 DEF i
  <2>2. \A p \in 0..(N - 1) : Between(h, p, x) => p # z
    BY <1>2, <1>3, <1>7, <2>1 DEF Between
  <2> QED
    BY <1>7, <2>2 DEF z
<1>8. CASE x > L
  <2>1. x \notin moved
    BY <1>8
  <2>2. \A p \in 0..(N - 1) : Between(h, p, x) => p # z
    BY <1>2, <1>3, <1>8 DEF Between
  <2> QED
    BY <2>1, <2>2 DEF z
<1> QED
  BY <1>6, <1>7, <1>8

-----------------------------------------------------------------------------
(* What is removed.                                                        *)

At(o, c, x) == (c + x) % CellCapacity(o)

\* The cells that are visited when c was emptied, counted from c.
Run(o, c) == {x \in 1..(CellCapacity(o) - 1) : \A y \in 1..x : o.cells[At(o, c, y)] # Invalid}

Moves(o, c, i, x) ==
  x \in Run(o, c) /\ MayMove(Home(o, o.items[o.cells[At(o, c, x)]].hash), i, At(o, c, x))

\* f[x] is the empty cell after x visits.
Empties(o, c, n, f) ==
  f = [x \in 0..n |->
         IF x = 0 THEN c ELSE IF Moves(o, c, f[x - 1], x) THEN At(o, c, x) ELSE f[x - 1]]

Moved(o, c, f) == {x \in Run(o, c) : Moves(o, c, f[x - 1], x)}

Target(o, c, f) ==
  [d \in {At(o, c, x) : x \in Moved(o, c, f)} |-> f[(d - c - 1) % CellCapacity(o)]]

From(target) ==
  [b \in {target[d] : d \in DOMAIN target} |-> CHOOSE d \in DOMAIN target : target[d] = b]

Emptied(o, c, f) ==
  LET target == Target(o, c, f)
      from == From(target)
  IN [cells |-> [b \in DOMAIN o.cells |->
                   CASE b \in DOMAIN from -> o.cells[from[b]]
                     [] b = f[CellCapacity(o) - 1] -> Invalid
                     [] OTHER -> o.cells[b]],
      items |-> Told(o.items, target)]

\* The cells are visited one by one: the recursive function is defined.
LEMMA EmptiesExist ==
  ASSUME NEW o, NEW c, NEW n \in Nat
  PROVE  \E f : Empties(o, c, n, f)
<1> DEFINE S == {m \in 0..n : \E f : Empties(o, c, m, f)}
<1>1. 0 \in S
  <2> DEFINE f == [x \in 0..0 |-> c]
  <2>1. f = [x \in 0..0 |->
               IF x = 0 THEN c ELSE IF Moves(o, c, f[x - 1], x) THEN At(o, c, x) ELSE f[x - 1]]
    OBVIOUS
  <2> HIDE DEF f
  <2>2. Empties(o, c, 0, f)
    BY <2>1, Zenon DEF Empties
  <2> QED
    BY <2>2
<1>2. ASSUME NEW x \in 1..n, x - 1 \in S PROVE x \in S
  <2>1. PICK f : Empties(o, c, x - 1, f)
    BY <1>2
  <2> DEFINE After(i, m) == IF Moves(o, c, i, m) THEN At(o, c, m) ELSE i
             g == [m \in 0..x |-> IF m = x THEN After(f[x - 1], x) ELSE f[m]]
  <2>2. \A m \in 0..(x - 1) : f[m] = IF m = 0 THEN c ELSE After(f[m - 1], m)
    BY <2>1, Zenon DEF Empties
  <2> HIDE DEF After
  <2>3. ASSUME NEW m \in 0..x PROVE g[m] = IF m = 0 THEN c ELSE After(g[m - 1], m)
    <3>1. CASE m = x
      <4>1. g[m] = After(f[m - 1], m) /\ g[m - 1] = f[m - 1] /\ m # 0
        BY <3>1
      <4> QED
        BY <4>1, Zenon
    <3>2. CASE m # x /\ m # 0
      <4>1. g[m] = f[m] /\ g[m - 1] = f[m - 1] /\ m \in 0..(x - 1)
        BY <3>2
      <4> QED
        BY <2>2, <3>2, <4>1, Zenon
    <3>3. CASE m # x /\ m = 0
      <4>1. g[m] = f[m] /\ m \in 0..(x - 1)
        BY <3>3
      <4> QED
        BY <2>2, <3>3, <4>1, Zenon
    <3> QED
      BY <3>1, <3>2, <3>3
  <2>4. g = [m \in 0..x |-> g[m]]
    OBVIOUS
  <2> HIDE DEF g
  <2>5. g = [m \in 0..x |-> IF m = 0 THEN c ELSE After(g[m - 1], m)]
    BY <2>3, <2>4, Zenon
  <2>6. Empties(o, c, x, g)
    BY <2>5, Zenon DEF Empties, After
  <2>7. x \in 0..n
    OBVIOUS
  <2> QED
    BY <2>6, <2>7, Zenon
<1> HIDE DEF S
<1>3. 0..n \subseteq S
  BY <1>1, <1>2, Inductive, Zenon
<1> QED
  BY <1>3 DEF S

\* The end of json_object_remove_internal empties the cell so.
LEMMA EmptiedIs ==
  ASSUME NEW o, NEW c, CellCapacity(o) - 1 \in Nat
  PROVE  \E f : Empties(o, c, CellCapacity(o) - 1, f) /\ CellEmptied(o, c) = Emptied(o, c, f)
<1> DEFINE f == CHOOSE g : Empties(o, c, CellCapacity(o) - 1, g)
<1>1. Empties(o, c, CellCapacity(o) - 1, f)
  BY EmptiesExist, Zenon
<1>2. CellEmptied(o, c) = Emptied(o, c, f)
  BY Zenon DEF CellEmptied, Emptied, Empties, Moves, Run, At, Moved, Target, From
<1> QED
  BY <1>1, <1>2, Zenon

\* A table from which an item has gone, when its cell, c, has still to be emptied.
Holed(o, N, c) ==
  /\ Table(o, N) /\ Named(o) /\ Reached(o, N)
  /\ c \in 0..(N - 1) /\ o.cells[c] # Invalid
  /\ \A n \in DOMAIN o.items : o.items[n].cell # c /\ o.cells[o.items[n].cell] = n
  /\ \A p \in 0..(N - 1) :
       p # c /\ o.cells[p] # Invalid
         => o.cells[p] \in DOMAIN o.items /\ o.items[o.cells[p]].cell = p
  /\ \E p \in 0..(N - 1) : o.cells[p] = Invalid

\* What the visits do: up to L, the first cell that was empty, the empty cell
\* goes the way of e.
Visited(o, N, c, f, L, e) ==
  /\ L \in 1..(N - 1) /\ o.cells[Shift(N, c, L)] = Invalid
  /\ \A x \in 1..(L - 1) : o.cells[Shift(N, c, x)] # Invalid
  /\ \A x \in 0..(N - 1) : f[x] = Shift(N, c, e[x]) /\ e[x] \in 0..(N - 1)
  /\ Trail(N, Moved(o, c, f), e)
  /\ \A x \in Moved(o, c, f) : x < L
  /\ \A x \in 1..(L - 1) :
       x \in Moved(o, c, f)
         <=> MayMove(o.items[o.cells[Shift(N, c, x)]].hash % N, f[x - 1], Shift(N, c, x))

\* The cells, counted from c.
CellsFrom(o, N, c) ==
  /\ \A x \in 0..(N - 1) : At(o, c, x) = Shift(N, c, x) /\ Shift(N, c, x) \in 0..(N - 1)
  /\ Shift(N, c, 0) = c
  /\ \A p \in 0..(N - 1) : \E x \in 0..(N - 1) : p = Shift(N, c, x)
  /\ \A x, y \in 0..(N - 1) : Shift(N, c, x) = Shift(N, c, y) => x = y

\* Cells, counted from c.
LEMMA CellAt ==
  ASSUME NEW o, NEW N, Table(o, N), NEW c \in 0..(N - 1)
  PROVE  CellsFrom(o, N, c)
<1>1. N \in Nat \ {0} /\ CellCapacity(o) = N
  BY Capacity DEF Table
<1>2. c % N = c
  <2>1. c = N * 0 + c /\ c \in Int /\ 0 \in Int
    BY <1>1
  <2> QED
    BY <1>1, <2>1, ModUnique, Zenon
<1>3. ASSUME NEW x \in 0..(N - 1) PROVE At(o, c, x) = Shift(N, c, x) /\ Shift(N, c, x) \in 0..(N - 1)
  <2>1. c \in Nat
    BY <1>1
  <2>2. (c + x) % N = Shift(N, c % N, x)
    BY <1>1, <2>1, ModShift, Zenon
  <2>3. Shift(N, c, x) \in 0..(N - 1)
    BY <1>1 DEF Shift
  <2> QED
    BY <1>1, <1>2, <2>2, <2>3, Zenon DEF At
<1>4. RingAt(N, c, c) /\ \A p \in 0..(N - 1) : RingAt(N, c, p)
  BY <1>1, Around, Zenon
<1>5. /\ \A p \in 0..(N - 1) : \E x \in 0..(N - 1) : p = Shift(N, c, x)
      /\ \A x, y \in 0..(N - 1) : Shift(N, c, x) = Shift(N, c, y) => x = y
  BY <1>4, Zenon DEF RingAt
<1>6. Shift(N, c, 0) = c
  BY <1>1 DEF Shift
<1> QED
  BY <1>3, <1>5, <1>6, Zenon DEF CellsFrom

\* The visits stop at the first cell that was empty, and follow a trail.
LEMMA Visits ==
  ASSUME NEW o, NEW N, NEW c, Holed(o, N, c), NEW f, Empties(o, c, N - 1, f)
  PROVE  \E L, e : Visited(o, N, c, f, L, e)
<1> DEFINE P(x) == Shift(N, c, x)
           moved == Moved(o, c, f)
           home(x) == o.items[o.cells[P(x)]].hash % N
<1>1. /\ Table(o, N) /\ N \in Nat \ {0} /\ c \in 0..(N - 1) /\ CellCapacity(o) = N
      /\ N - 1 \in Nat
  <2>1. Table(o, N) /\ c \in 0..(N - 1)
    BY Zenon DEF Holed
  <2>2. CellCapacity(o) = N /\ N \in Nat
    BY <2>1, Capacity DEF Table
  <2> QED
    BY <2>1, <2>2
<1>2. /\ \A x \in 0..(N - 1) : At(o, c, x) = P(x) /\ P(x) \in 0..(N - 1)
      /\ P(0) = c
      /\ \A p \in 0..(N - 1) : \E x \in 0..(N - 1) : p = P(x)
      /\ \A x, y \in 0..(N - 1) : P(x) = P(y) => x = y
  <2>1. CellsFrom(o, N, c)
    BY <1>1, CellAt, Zenon
  <2> QED
    BY <2>1, Zenon DEF CellsFrom
<1> HIDE DEF P
<1>3. PICK L \in 1..(N - 1) : o.cells[P(L)] = Invalid /\ \A x \in 1..(L - 1) : o.cells[P(x)] # Invalid
  <2> DEFINE R == {x \in 1..(N - 1) : o.cells[P(x)] = Invalid}
  <2>1. PICK p \in 0..(N - 1) : o.cells[p] = Invalid
    BY DEF Holed
  <2>2. PICK x \in 0..(N - 1) : p = P(x)
    BY <1>2
  <2>3. x # 0
    BY <1>2, <2>1, <2>2 DEF Holed
  <2>4. R \subseteq Nat /\ x \in R
    BY <2>1, <2>2, <2>3
  <2>5. PICK y \in R : \A w \in R : y <= w
    BY <2>4, LeastOf
  <2>6. \A w \in 1..(y - 1) : w \in 1..(N - 1) /\ ~(y <= w)
    BY <1>1, <2>5
  <2> QED
    BY <2>5, <2>6
<1>4. Run(o, c) = 1..(L - 1)
  <2>1. \A y \in 1..(N - 1) : At(o, c, y) = P(y)
    BY <1>2
  <2>2. ASSUME NEW x \in 1..(N - 1), \A y \in 1..x : o.cells[At(o, c, y)] # Invalid PROVE x < L
    BY <1>3, <2>1, <2>2
  <2>3. ASSUME NEW x \in 1..(L - 1) PROVE x \in 1..(N - 1) /\ \A y \in 1..x : o.cells[At(o, c, y)] # Invalid
    BY <1>1, <1>3, <2>1
  <2>4. Run(o, c) = {x \in 1..(N - 1) : \A y \in 1..x : o.cells[At(o, c, y)] # Invalid}
    BY <1>1, Zenon DEF Run
  <2> QED
    BY <1>3, <2>2, <2>3, <2>4
<1>5. /\ f[0] = c
      /\ \A x \in 1..(N - 1) : f[x] = IF x \in moved THEN P(x) ELSE f[x - 1]
  <2>1. \A x \in 0..(N - 1) :
          f[x] = IF x = 0 THEN c ELSE IF Moves(o, c, f[x - 1], x) THEN At(o, c, x) ELSE f[x - 1]
    BY <1>1, Zenon DEF Empties
  <2>2. \A x : Moves(o, c, f[x - 1], x) <=> x \in moved
    BY Zenon DEF Moved, Moves
  <2>3. 0 \in 0..(N - 1) /\ \A x \in 1..(N - 1) : x \in 0..(N - 1) /\ x # 0
    BY <1>1
  <2> HIDE DEF moved
  <2> QED
    BY <1>2, <2>1, <2>2, <2>3, Zenon
<1>6. ASSUME NEW x \in 1..(L - 1) PROVE x \in moved <=> MayMove(home(x), f[x - 1], P(x))
  <2>1. x \in Run(o, c) /\ At(o, c, x) = P(x)
    BY <1>1, <1>2, <1>3, <1>4
  <2> QED
    BY <1>1, <2>1, Zenon DEF Moved, Moves, Home
<1>7. moved \subseteq 1..(L - 1)
  BY <1>4 DEF Moved
<1> HIDE DEF moved
<1>8. \A x \in 0..(N - 1) : f[x] \in 0..(N - 1)
  <2> DEFINE S == {x \in 0..(N - 1) : f[x] \in 0..(N - 1)}
  <2>1. 0 \in S
    BY <1>1, <1>5
  <2>2. ASSUME NEW x \in 1..(N - 1), x - 1 \in S PROVE x \in S
    BY <1>2, <1>5, <2>2
  <2> HIDE DEF S
  <2>3. 0..(N - 1) \subseteq S
    BY <1>1, <2>1, <2>2, Inductive, Zenon
  <2> QED
    BY <2>3 DEF S
<1> DEFINE e == [x \in 0..(N - 1) |-> CHOOSE a \in 0..(N - 1) : f[x] = P(a)]
<1>9. \A x \in 0..(N - 1) : f[x] = P(e[x]) /\ e[x] \in 0..(N - 1)
  BY <1>2, <1>8
<1> HIDE DEF e
<1>10. Trail(N, moved, e)
  <2>1. moved \subseteq 1..(N - 1)
    BY <1>1, <1>3, <1>7
  <2>2. e[0] = 0
    <3>1. 0 \in 0..(N - 1)
      BY <1>1
    <3> QED
      BY <1>2, <1>5, <1>9, <3>1
  <2>3. ASSUME NEW x \in 1..(N - 1) PROVE e[x] = IF x \in moved THEN x ELSE e[x - 1]
    <3>1. x \in 0..(N - 1) /\ x - 1 \in 0..(N - 1)
      BY <1>1
    <3>2. CASE x \in moved
      BY <1>2, <1>5, <1>9, <3>1, <3>2
    <3>3. CASE x \notin moved
      <4>1. P(e[x]) = P(e[x - 1])
        BY <1>5, <1>9, <3>1, <3>3
      <4> QED
        BY <1>2, <1>9, <3>1, <3>3, <4>1
    <3> QED
      BY <3>2, <3>3
  <2> QED
    BY <2>1, <2>2, <2>3 DEF Trail
<1>11. \A x \in moved : x < L
  BY <1>3, <1>7
<1>12. Visited(o, N, c, f, L, e)
  BY <1>3, <1>6, <1>9, <1>10, <1>11 DEF Visited, P, moved
<1> QED
  BY <1>12

\* r is o when the items at the cells in moved have gone one cell back, each
\* to the one that the item before has left.
Refilled(o, N, c, r, moved, e) ==
  /\ r = [cells |-> r.cells, items |-> r.items]
  /\ r.cells \in [0..(N - 1) -> Nat]
  /\ \A x \in moved : r.cells[Shift(N, c, e[x - 1])] = o.cells[Shift(N, c, x)]
  /\ r.cells[Shift(N, c, e[N - 1])] = Invalid
  /\ \A x \in 0..(N - 1) : x \notin moved \cup {0} => r.cells[Shift(N, c, x)] = o.cells[Shift(N, c, x)]
  /\ r.items \in Seq(Entries(N)) /\ Len(r.items) = Len(o.items)
  /\ \A n \in DOMAIN o.items : \A x \in moved :
       o.items[n].cell = Shift(N, c, x)
         => r.items[n] = [o.items[n] EXCEPT !.cell = Shift(N, c, e[x - 1])]
  /\ \A n \in DOMAIN o.items :
       (\A x \in moved : o.items[n].cell # Shift(N, c, x)) => r.items[n] = o.items[n]

\* The cells and the items after the visits.
LEMMA EmptiedRefills ==
  ASSUME NEW o, NEW N, NEW c, Holed(o, N, c), NEW f, NEW L, NEW e, Visited(o, N, c, f, L, e)
  PROVE  Refilled(o, N, c, Emptied(o, c, f), Moved(o, c, f), e)
<1> DEFINE P(x) == Shift(N, c, x)
           moved == Moved(o, c, f)
           target == Target(o, c, f)
           from == From(target)
           z == e[N - 1]
           r == Emptied(o, c, f)
<1>1. /\ Table(o, N) /\ N \in Nat \ {0} /\ c \in 0..(N - 1) /\ CellCapacity(o) = N
      /\ N - 1 \in 0..(N - 1) /\ DOMAIN o.cells = 0..(N - 1) /\ o.cells \in [0..(N - 1) -> Nat]
      /\ o.items \in Seq(Entries(N))
  <2>1. Table(o, N) /\ c \in 0..(N - 1)
    BY Zenon DEF Holed
  <2>2. CellCapacity(o) = N
    BY <2>1, Capacity
  <2>3. N \in Nat /\ o.cells \in [0..(N - 1) -> Nat] /\ o.items \in Seq(Entries(N))
    BY <2>1, Zenon DEF Table
  <2> QED
    BY <2>1, <2>2, <2>3
<1>2. CellsFrom(o, N, c)
  BY <1>1, CellAt, Zenon
<1>3. /\ \A x \in 0..(N - 1) : At(o, c, x) = P(x) /\ P(x) \in 0..(N - 1)
      /\ \A x, y \in 0..(N - 1) : P(x) = P(y) => x = y
  BY <1>2, Zenon DEF CellsFrom
<1>4. /\ moved \subseteq 1..(N - 1) /\ Trail(N, moved, e)
      /\ \A x \in 0..(N - 1) : f[x] = P(e[x]) /\ e[x] \in 0..(N - 1)
  BY Zenon DEF Visited, Trail
<1>5. /\ \A x \in 0..(N - 1) : e[x] = 0 \/ e[x] \in moved
      /\ \A x, y \in moved : e[x - 1] = e[y - 1] => x = y
      /\ \A x \in moved : e[x - 1] # z
  <2>1. \A x \in 0..(N - 1) : e[x] \in 0..x /\ (e[x] = 0 \/ e[x] \in moved)
    BY <1>1, <1>4, TrailBehind, Zenon
  <2>2. Filled(N, moved, e)
    BY <1>1, <1>4, TrailFilled, Zenon
  <2> QED
    BY <2>1, <2>2, Zenon DEF Filled
<1>6. \A x \in moved : x \in 0..(N - 1) /\ x \in 1..(N - 1) /\ x - 1 \in 0..(N - 1)
  BY <1>1, <1>4
<1>7. \A x \in moved : (P(x) - c - 1) % N = x - 1
  BY <1>1, <1>4, ModBack
<1>8. r = [cells |-> [b \in DOMAIN o.cells |->
                   CASE b \in DOMAIN from -> o.cells[from[b]]
                     [] b = f[CellCapacity(o) - 1] -> Invalid
                     [] OTHER -> o.cells[b]],
            items |-> Told(o.items, target)]
  BY Zenon DEF Emptied
<1> HIDE DEF moved, P
<1>9. /\ DOMAIN target = {P(x) : x \in moved}
      /\ \A x \in moved : target[P(x)] = P(e[x - 1])
  <2>1. {At(o, c, x) : x \in moved} = {P(x) : x \in moved}
    BY <1>3, <1>6
  <2>2. target = [d \in {P(x) : x \in moved} |-> f[(d - c - 1) % N]]
    BY <1>1, <2>1, Zenon DEF Target, moved
  <2>3. ASSUME NEW x \in moved PROVE target[P(x)] = P(e[x - 1])
    <3>1. target[P(x)] = f[(P(x) - c - 1) % N]
      BY <2>2
    <3> QED
      BY <1>4, <1>6, <1>7, <3>1
  <2> QED
    BY <2>2, <2>3
<1> HIDE DEF target
<1>10. /\ DOMAIN from = {P(e[x - 1]) : x \in moved}
      /\ \A x \in moved : from[P(e[x - 1])] = P(x)
  <2>1. {target[d] : d \in DOMAIN target} = {P(e[x - 1]) : x \in moved}
    BY <1>9
  <2>2. from = [b \in {P(e[x - 1]) : x \in moved} |-> CHOOSE d \in DOMAIN target : target[d] = b]
    BY <2>1, Zenon DEF From
  <2>3. ASSUME NEW x \in moved PROVE from[P(e[x - 1])] = P(x)
    <3> DEFINE d0 == CHOOSE d \in DOMAIN target : target[d] = P(e[x - 1])
    <3>1. from[P(e[x - 1])] = d0
      BY <2>2
    <3>2. d0 \in DOMAIN target /\ target[d0] = P(e[x - 1])
      <4>1. P(x) \in DOMAIN target /\ target[P(x)] = P(e[x - 1])
        BY <1>9
      <4> QED
        BY <4>1, Zenon
    <3>3. PICK y \in moved : d0 = P(y)
      BY <1>9, <3>2
    <3>4. P(e[y - 1]) = P(e[x - 1])
      BY <1>9, <3>2, <3>3
    <3>5. e[y - 1] = e[x - 1]
      BY <1>3, <1>4, <1>6, <3>4
    <3>6. x = y
      BY <1>5, <3>5
    <3> QED
      BY <3>1, <3>3, <3>6
  <2> QED
    BY <2>2, <2>3
<1> HIDE DEF from, r
<1>11. /\ r = [cells |-> r.cells, items |-> r.items]
       /\ r.items = Told(o.items, target)
       /\ r.cells = [b \in 0..(N - 1) |->
                   CASE b \in DOMAIN from -> o.cells[from[b]]
                     [] b = f[N - 1] -> Invalid
                     [] OTHER -> o.cells[b]]
  BY <1>1, <1>8
<1>12. \A b \in DOMAIN from : b # f[N - 1]
  <2>1. \A x \in moved : P(e[x - 1]) # P(z)
    BY <1>1, <1>3, <1>4, <1>5, <1>6
  <2>2. f[N - 1] = P(z)
    BY <1>1, <1>4
  <2> QED
    BY <1>10, <2>1, <2>2
<1>13. \A b \in 0..(N - 1) : b \in DOMAIN from => r.cells[b] = o.cells[from[b]]
  BY <1>11, <1>12
<1>14. ASSUME NEW x \in moved PROVE r.cells[P(e[x - 1])] = o.cells[P(x)]
  <2>1. P(e[x - 1]) \in 0..(N - 1) /\ P(e[x - 1]) \in DOMAIN from
    BY <1>3, <1>4, <1>6, <1>10
  <2>2. r.cells[P(e[x - 1])] = o.cells[from[P(e[x - 1])]]
    BY <1>13, <2>1
  <2> QED
    BY <1>10, <2>2
<1>15. r.cells[P(z)] = Invalid
  <2>1. \A x \in moved : P(e[x - 1]) # P(z)
    BY <1>1, <1>3, <1>4, <1>5, <1>6
  <2>2. P(z) \notin DOMAIN from
    BY <1>10, <2>1
  <2>3. P(z) \in 0..(N - 1) /\ P(z) = f[N - 1]
    BY <1>1, <1>3, <1>4
  <2> HIDE DEF z
  <2> QED
    BY <1>11, <2>2, <2>3
<1>16. ASSUME NEW x \in 0..(N - 1), x \notin moved \cup {0} PROVE r.cells[P(x)] = o.cells[P(x)]
  <2>1. \A y \in 0..(N - 1) : e[y] # x
    BY <1>5, <1>16
  <2>2. P(x) \notin DOMAIN from
    BY <1>3, <1>4, <1>6, <1>10, <2>1
  <2>3. P(x) # f[N - 1]
    BY <1>1, <1>3, <1>4, <2>1
  <2>4. P(x) \in 0..(N - 1)
    BY <1>3
  <2> QED
    BY <1>11, <2>2, <2>3, <2>4
<1>17. r.cells \in [0..(N - 1) -> Nat]
  <2>1. \A b \in DOMAIN from : from[b] \in 0..(N - 1)
    BY <1>3, <1>6, <1>10
  <2>2. ASSUME NEW b \in 0..(N - 1)
        PROVE  (CASE b \in DOMAIN from -> o.cells[from[b]]
                  [] b = f[N - 1] -> Invalid
                  [] OTHER -> o.cells[b]) \in Nat
    BY <1>1, <2>1 DEF Invalid
  <2> QED
    BY <1>11, <2>2
<1>18. /\ r.items = [n \in DOMAIN o.items |->
             IF o.items[n].cell \in DOMAIN target
               THEN [o.items[n] EXCEPT !.cell = target[o.items[n].cell]] ELSE o.items[n]]
  BY <1>11 DEF Told
<1>19. ASSUME NEW n \in DOMAIN o.items, NEW x \in moved, o.items[n].cell = P(x)
       PROVE  r.items[n] = [o.items[n] EXCEPT !.cell = P(e[x - 1])]
  BY <1>9, <1>18, <1>19
<1>20. ASSUME NEW n \in DOMAIN o.items, \A x \in moved : o.items[n].cell # P(x)
       PROVE  r.items[n] = o.items[n]
  BY <1>9, <1>18, <1>20
<1>21. r.items \in Seq(Entries(N)) /\ Len(r.items) = Len(o.items)
  <2>1. \A d \in DOMAIN target : target[d] \in 0..(N - 1)
    BY <1>3, <1>4, <1>6, <1>9
  <2>2. ASSUME NEW n \in 1..Len(o.items)
        PROVE  (IF o.items[n].cell \in DOMAIN target
               THEN [o.items[n] EXCEPT !.cell = target[o.items[n].cell]] ELSE o.items[n]) \in Entries(N)
    <3>1. o.items[n] \in Entries(N)
      BY <1>1
    <3> QED
      BY <2>1, <3>1 DEF Entries
  <2>3. DOMAIN o.items = 1..Len(o.items) /\ Len(o.items) \in Nat
    BY <1>1
  <2>4. r.items \in [1..Len(o.items) -> Entries(N)]
    BY <1>18, <2>2, <2>3
  <2> QED
    BY <2>3, <2>4
<1> QED
  BY <1>11, <1>14, <1>15, <1>16, <1>17, <1>19, <1>20, <1>21 DEF Refilled, P, r, moved, z

\* When the cell of an item that has gone is emptied, every item that is left
\* is reached, and the items are the same.
LEMMA EmptiesWell ==
  ASSUME NEW o, NEW N, NEW c, Holed(o, N, c)
  PROVE  /\ Well(CellEmptied(o, c), N) /\ Count(CellEmptied(o, c)) = Count(o)
         /\ SameItems(CellEmptied(o, c), o, Count(o))
<1> DEFINE P(x) == Shift(N, c, x)
           r == CellEmptied(o, c)
           All == DOMAIN o.items
<1>1. /\ Table(o, N) /\ N \in Nat \ {0} /\ c \in 0..(N - 1) /\ CellCapacity(o) = N
      /\ N - 1 \in 0..(N - 1) /\ N - 1 \in Nat /\ All = 1..Count(o) /\ Count(o) \in Nat
  BY Capacity DEF Holed, Table, Count
<1>2. PICK f : Empties(o, c, N - 1, f) /\ r = Emptied(o, c, f)
  BY <1>1, EmptiedIs, Zenon
<1>3. PICK L, e : Visited(o, N, c, f, L, e)
  BY <1>2, Visits, Zenon
<1> DEFINE moved == Moved(o, c, f)
           z == e[N - 1]
           y(x) == IF x \in moved THEN e[x - 1] ELSE x
<1>4. Refilled(o, N, c, r, moved, e)
  BY <1>2, <1>3, EmptiedRefills, Zenon
<1>5. CellsFrom(o, N, c)
  BY <1>1, CellAt, Zenon
<1>6. /\ \A x \in 0..(N - 1) : P(x) \in 0..(N - 1)
      /\ P(0) = c
      /\ \A p \in 0..(N - 1) : \E x \in 0..(N - 1) : p = P(x)
      /\ \A a, b \in 0..(N - 1) : P(a) = P(b) => a = b
  BY <1>5, Zenon DEF CellsFrom
<1>7. /\ L \in 1..(N - 1) /\ o.cells[P(L)] = Invalid
      /\ \A x \in 1..(L - 1) : o.cells[P(x)] # Invalid
      /\ \A x \in 0..(N - 1) : f[x] = P(e[x]) /\ e[x] \in 0..(N - 1)
      /\ Trail(N, moved, e)
      /\ \A x \in moved : x < L
      /\ \A x \in 1..(L - 1) : x \in moved <=> MayMove(o.items[o.cells[P(x)]].hash % N, f[x - 1], P(x))
  BY <1>3, Zenon DEF Visited
<1>8. moved \subseteq 1..(N - 1)
  BY <1>7, Zenon DEF Trail
<1>9. Filled(N, moved, e)
  BY <1>1, <1>7, TrailFilled, Zenon
<1>10. \A x \in moved : x \in 1..(L - 1) /\ x \in 1..(N - 1) /\ x \in 0..(N - 1) /\ x - 1 \in 0..(N - 1)
  BY <1>1, <1>7, <1>8
<1>11. \A x \in moved : P(x) # c /\ o.cells[P(x)] # Invalid
  <2>1. 0 \in 0..(N - 1)
    BY <1>1
  <2>2. \A x \in moved : x # 0
    BY <1>8
  <2> QED
    BY <1>6, <1>7, <1>10, <2>1, <2>2
<1> HIDE DEF moved, P, r
<1>12. /\ r = [cells |-> r.cells, items |-> r.items]
       /\ r.cells \in [0..(N - 1) -> Nat]
       /\ \A x \in moved : r.cells[P(e[x - 1])] = o.cells[P(x)]
       /\ r.cells[P(z)] = Invalid
       /\ \A x \in 0..(N - 1) : x \notin moved \cup {0} => r.cells[P(x)] = o.cells[P(x)]
       /\ r.items \in Seq(Entries(N)) /\ Len(r.items) = Len(o.items)
       /\ \A n \in All : \A x \in moved :
            o.items[n].cell = P(x) => r.items[n] = [o.items[n] EXCEPT !.cell = P(e[x - 1])]
       /\ \A n \in All : (\A x \in moved : o.items[n].cell # P(x)) => r.items[n] = o.items[n]
  BY <1>4, Zenon DEF Refilled, P
<1>13. Table(r, N) /\ DOMAIN r.items = All /\ Count(r) = Count(o)
  BY <1>1, <1>12 DEF Table, Count
\* What becomes of the item n, whose cell is at x.
<1>14. ASSUME NEW n \in All
       PROVE  \E x \in 1..(N - 1) :
                /\ x # L /\ o.items[n].cell = P(x) /\ o.cells[P(x)] = n
                /\ r.items[n].cell = P(y(x)) /\ r.cells[P(y(x))] = n /\ y(x) \in 0..(N - 1)
                /\ r.items[n].name = o.items[n].name /\ r.items[n].value = o.items[n].value
                /\ r.items[n].hash = o.items[n].hash
  <2>1. /\ o.items[n].cell \in 0..(N - 1) /\ o.items[n].cell # c /\ o.cells[o.items[n].cell] = n
        /\ n # Invalid /\ o.items[n] \in Entries(N)
    BY <1>1, EntryAt DEF Holed, Invalid
  <2>2. PICK x \in 0..(N - 1) : o.items[n].cell = P(x)
    BY <1>6, <2>1
  <2>3. x # 0 /\ x # L
    BY <1>6, <1>7, <2>1, <2>2
  <2>4. x \in 1..(N - 1)
    BY <1>1, <2>3
  <2>5. CASE x \in moved
    <3>1. r.items[n] = [o.items[n] EXCEPT !.cell = P(e[x - 1])]
      BY <1>12, <2>2, <2>5
    <3>2. y(x) = e[x - 1] /\ e[x - 1] \in 0..(N - 1) /\ r.cells[P(e[x - 1])] = n
      BY <1>7, <1>10, <1>12, <2>1, <2>2, <2>5
    <3>3. /\ r.items[n].cell = P(e[x - 1]) /\ r.items[n].name = o.items[n].name
          /\ r.items[n].value = o.items[n].value /\ r.items[n].hash = o.items[n].hash
      BY <2>1, <3>1 DEF Entries
    <3> QED
      BY <2>1, <2>2, <2>3, <2>4, <3>2, <3>3
  <2>6. CASE x \notin moved
    <3>1. \A w \in moved : o.items[n].cell # P(w)
      BY <1>6, <1>10, <2>2, <2>6
    <3>2. r.items[n] = o.items[n]
      BY <1>12, <3>1
    <3>3. y(x) = x /\ r.cells[P(x)] = n
      BY <1>12, <2>1, <2>2, <2>3, <2>6
    <3> QED
      BY <2>1, <2>2, <2>3, <2>4, <3>2, <3>3
  <2> QED
    BY <2>5, <2>6
<1>15. ASSUME NEW a \in 0..(N - 1), a # z
       PROVE  \/ \E x \in moved : a = e[x - 1] /\ r.cells[P(a)] = o.cells[P(x)]
              \/ a \notin moved /\ a # 0 /\ r.cells[P(a)] = o.cells[P(a)]
  BY <1>9, <1>12, <1>15 DEF Filled
<1>16. Matched(r, N)
  <2>1. ASSUME NEW n \in All PROVE r.cells[r.items[n].cell] = n
    BY <1>14
  <2>2. ASSUME NEW p \in 0..(N - 1), r.cells[p] # Invalid
        PROVE  r.cells[p] \in All /\ r.items[r.cells[p]].cell = p
    <3>1. PICK a \in 0..(N - 1) : p = P(a)
      BY <1>6
    <3>2. a # z
      BY <1>12, <2>2, <3>1
    <3>3. ASSUME NEW x \in moved, a = e[x - 1], r.cells[p] = o.cells[P(x)]
          PROVE  r.cells[p] \in All /\ r.items[r.cells[p]].cell = p
      <4> DEFINE n == o.cells[P(x)]
      <4>1. n \in All /\ o.items[n].cell = P(x)
        BY <1>6, <1>10, <1>11 DEF Holed
      <4>2. r.items[n] = [o.items[n] EXCEPT !.cell = P(e[x - 1])] /\ o.items[n] \in Entries(N)
        BY <1>1, <1>12, <4>1, EntryAt
      <4> QED
        BY <3>1, <3>3, <4>1, <4>2 DEF Entries
    <3>4. CASE a \notin moved /\ a # 0 /\ r.cells[p] = o.cells[p]
      <4>1. p # c
        BY <1>1, <1>6, <3>1, <3>4
      <4>2. o.cells[p] \in All /\ o.items[o.cells[p]].cell = p
        BY <2>2, <3>4, <4>1 DEF Holed
      <4>3. \A x \in moved : p # P(x)
        BY <1>6, <1>10, <3>1, <3>4
      <4>4. r.items[o.cells[p]] = o.items[o.cells[p]]
        BY <1>12, <4>2, <4>3
      <4> QED
        BY <3>4, <4>2, <4>4
    <3> QED
      BY <1>15, <3>1, <3>2, <3>3, <3>4
  <2> QED
    BY <1>13, <2>1, <2>2 DEF Matched
<1>17. Named(r)
  <2>1. \A n \in All : r.items[n].name = o.items[n].name /\ r.items[n].hash = o.items[n].hash
    BY <1>14
  <2> QED
    BY <1>13, <2>1 DEF Named, Holed
<1>18. Reached(r, N)
  <2> SUFFICES ASSUME NEW n \in All, NEW p \in 0..(N - 1),
                      Between(r.items[n].hash % N, p, r.items[n].cell)
               PROVE  r.cells[p] # Invalid
    BY <1>13 DEF Reached
  <2>1. PICK x \in 1..(N - 1) :
          /\ x # L /\ o.items[n].cell = P(x) /\ o.cells[P(x)] = n
          /\ r.items[n].cell = P(y(x)) /\ y(x) \in 0..(N - 1)
          /\ r.items[n].hash = o.items[n].hash
    BY <1>14, Zenon
  <2> DEFINE home == o.items[n].hash % N
  <2>2. home \in 0..(N - 1)
    <3>1. o.items[n].hash \in Nat /\ 0 \in 0..(N - 1)
      BY <1>1, EntryAt
    <3> QED
      BY <1>1, <3>1, ModShift, Zenon
  <2>3. PICK h \in 0..(N - 1) : home = P(h)
    BY <1>6, <2>2
  <2>4. PICK a \in 0..(N - 1) : p = P(a)
    BY <1>6
  <2>5. \A b, d \in 0..(N - 1) : Between(P(h), P(b), P(d)) <=> Between(h, b, d)
    BY <1>1, Turned, Zenon DEF P
  <2>6. \A b \in 0..(N - 1) : Between(h, b, x) => o.cells[P(b)] # Invalid
    <3>1. \A q \in 0..(N - 1) : Between(home, q, P(x)) => o.cells[q] # Invalid
      BY <2>1, Zenon DEF Holed, Reached
    <3>2. x \in 0..(N - 1)
      BY <1>1, <2>1
    <3>3. ASSUME NEW b \in 0..(N - 1), Between(h, b, x) PROVE o.cells[P(b)] # Invalid
      <4>1. Between(home, P(b), P(x))
        BY <2>3, <2>5, <3>2, <3>3, Zenon
      <4> QED
        BY <1>6, <3>1, <4>1, Zenon
    <3> QED
      BY <3>3, Zenon
  <2> HIDE DEF home
  <2>7. ~Between(h, L, x)
    BY <1>1, <1>7, <2>6
  <2>8. x < L => (x \in moved <=> Between(h, e[x - 1], x))
    <3> SUFFICES ASSUME x < L PROVE x \in moved <=> Between(h, e[x - 1], x)
      OBVIOUS
    <3>1. x \in 1..(L - 1) /\ x - 1 \in 0..(N - 1) /\ x \in 0..(N - 1)
      BY <1>1, <1>7, <2>1
    <3>2. x \in moved <=> MayMove(home, P(e[x - 1]), P(x))
      BY <1>7, <2>1, <3>1, Zenon DEF home
    <3>3. e[x - 1] \in 0..(N - 1) /\ e[x - 1] # x
      <4>1. e[x - 1] \in 0..(x - 1)
        BY <1>1, <1>7, <3>1, TrailBehind
      <4>2. x \in 1..(N - 1)
        BY <2>1
      <4> QED
        BY <1>1, <3>1, <4>1, <4>2
    <3>4. P(e[x - 1]) \in Nat /\ P(x) \in Nat /\ home \in Nat /\ P(e[x - 1]) # P(x)
      <4>1. P(e[x - 1]) \in 0..(N - 1) /\ P(x) \in 0..(N - 1) /\ P(e[x - 1]) # P(x)
        BY <1>6, <3>1, <3>3, Zenon
      <4> QED
        BY <1>1, <2>2, <4>1
    <3>5. MayMove(home, P(e[x - 1]), P(x)) <=> Between(home, P(e[x - 1]), P(x))
      BY <3>4, MayMoveIs, Zenon
    <3> QED
      BY <2>3, <2>5, <3>1, <3>2, <3>3, <3>5, Zenon
  <2>9. \A b \in 0..(N - 1) : Between(h, b, y(x)) => Between(h, b, x) /\ b # z
    BY <1>1, <1>7, <2>1, <2>7, <2>8, WayKept, Zenon
  <2>10. Between(h, a, y(x))
    BY <2>1, <2>3, <2>4, <2>5, Zenon DEF home
  <2>11. o.cells[P(a)] # Invalid /\ a # z
    BY <2>6, <2>9, <2>10, Zenon
  <2> QED
    BY <1>11, <1>15, <2>4, <2>11
<1>19. SameItems(r, o, Count(o))
  BY <1>1, <1>14 DEF SameItems
<1> QED
  BY <1>13, <1>16, <1>17, <1>18, <1>19 DEF Well, r

\* d has the items of o but the n-th; the last takes its place.
Dropped(o, d, n) ==
  /\ Count(d) = Count(o) - 1
  /\ \A m \in 1..(Count(o) - 1) :
       LET from == IF m = n THEN Count(o) ELSE m
       IN d.items[m].name = o.items[from].name /\ d.items[m].value = o.items[from].value

\* The last item takes the place of the one that goes.
LEMMA DropsItem ==
  ASSUME NEW o, NEW N, Well(o, N), Count(o) < N, NEW n \in DOMAIN o.items
  PROVE  LET d == ItemDropped(o, o.items[n].cell)
         IN Holed(d, N, o.items[n].cell) /\ Dropped(o, d, n)
<1> DEFINE c == o.items[n].cell
           last == Count(o)
           tail == o.items[last].cell
           rest == SubSeq(o.items, 1, last - 1)
           d == ItemDropped(o, c)
           from(m) == IF m = n THEN last ELSE m
<1>1. /\ Table(o, N) /\ Matched(o, N) /\ Named(o) /\ Reached(o, N)
      /\ last \in Nat /\ N \in Nat /\ DOMAIN o.items = 1..last /\ n \in 1..last /\ last \in 1..last
      /\ o.items \in Seq(Entries(N)) /\ o.cells \in [0..(N - 1) -> Nat] /\ Len(o.items) = last
  BY DEF Well, Table, Count
<1>2. \A m \in 1..last :
        /\ o.items[m] \in Entries(N) /\ o.items[m].cell \in 0..(N - 1)
        /\ o.cells[o.items[m].cell] = m /\ m # Invalid
  BY <1>1, EntryAt DEF Matched, Invalid
<1>3. /\ c \in 0..(N - 1) /\ o.cells[c] = n /\ tail \in 0..(N - 1) /\ o.cells[tail] = last
      /\ n \in Nat /\ n # Invalid
  BY <1>1, <1>2
<1>4. /\ rest \in Seq(Entries(N)) /\ Len(rest) = last - 1 /\ DOMAIN rest = 1..(last - 1)
      /\ \A m \in 1..(last - 1) : rest[m] = o.items[m]
  <2>1. o.items \in Seq(Entries(N)) /\ Len(o.items) = last /\ last \in Nat /\ last >= 1
    BY <1>1
  <2> HIDE DEF last
  <2> QED
    BY <2>1
<1>5. d = IF n < last
            THEN [cells |-> [o.cells EXCEPT ![tail] = n], items |-> [rest EXCEPT ![n] = o.items[last]]]
            ELSE [o EXCEPT !.items = rest]
  BY <1>3, Zenon DEF ItemDropped
<1> HIDE DEF c, last, tail, rest, d
<1>6. /\ d = [cells |-> d.cells, items |-> d.items]
      /\ d.cells = IF n < last THEN [o.cells EXCEPT ![tail] = n] ELSE o.cells
      /\ d.items = IF n < last THEN [rest EXCEPT ![n] = o.items[last]] ELSE rest
  <2>1. o = [cells |-> o.cells, items |-> o.items]
    BY <1>1 DEF Table
  <2>2. CASE n < last
    BY <1>5, <2>2
  <2>3. CASE ~(n < last)
    <3>1. d = [o EXCEPT !.items = rest]
      BY <1>5, <2>3
    <3> QED
      BY <2>1, <2>3, <3>1
  <2> QED
    BY <2>2, <2>3
<1>7. /\ d.cells \in [0..(N - 1) -> Nat]
      /\ \A p \in 0..(N - 1) : d.cells[p] = IF n < last /\ p = tail THEN n ELSE o.cells[p]
  BY <1>1, <1>3, <1>6
<1>8. last \in Nat /\ n \in 1..last /\ n \in Nat /\ n # Invalid
  BY <1>1, <1>3
<1>9. \A p \in 0..(N - 1) : n < last /\ p = tail => d.cells[p] = n
  BY <1>7, Zenon
<1>10. \A p \in 0..(N - 1) : ~(n < last /\ p = tail) => d.cells[p] = o.cells[p]
  BY <1>7, Zenon
<1>11. /\ d.items \in Seq(Entries(N)) /\ DOMAIN d.items = 1..(last - 1) /\ Len(d.items) = last - 1
      /\ \A m \in 1..(last - 1) : d.items[m] = o.items[from(m)] /\ from(m) \in 1..last /\ from(m) # n
  <2>1. CASE n < last
    <3>1. n \in 1..(last - 1) /\ o.items[last] \in Entries(N)
      BY <1>1, <1>2, <2>1
    <3>2. d.items = [rest EXCEPT ![n] = o.items[last]]
      BY <1>6, <2>1
    <3>3. /\ d.items \in Seq(Entries(N)) /\ DOMAIN d.items = 1..(last - 1) /\ Len(d.items) = last - 1
      BY <1>4, <3>1, <3>2
    <3>4. ASSUME NEW m \in 1..(last - 1)
          PROVE  d.items[m] = o.items[from(m)] /\ from(m) \in 1..last /\ from(m) # n
      BY <1>1, <1>4, <2>1, <3>2
    <3> QED
      BY <3>3, <3>4
  <2>2. CASE ~(n < last)
    <3>1. n = last
      BY <1>1, <2>2
    <3> QED
      BY <1>1, <1>4, <1>6, <3>1
  <2> QED
    BY <2>1, <2>2
<1>12. Table(d, N)
  BY <1>1, <1>6, <1>7, <1>11 DEF Table
<1>13. Named(d)
  <2>1. \A m \in 1..(last - 1) : d.items[m].hash = hash_string[d.items[m].name]
    <3>1. \A m \in 1..last : o.items[m].hash = hash_string[o.items[m].name]
      BY <1>1, Zenon DEF Named
    <3> QED
      BY <1>11, <3>1
  <2>2. ASSUME NEW l \in 1..(last - 1), NEW m \in 1..(last - 1), d.items[l].name = d.items[m].name
        PROVE  l = m
    <3>1. \A i, j \in 1..last : o.items[i].name = o.items[j].name => i = j
      BY <1>1, Zenon DEF Named
    <3>2. from(l) = from(m)
      <4>1. /\ from(l) \in 1..last /\ from(m) \in 1..last
            /\ d.items[l] = o.items[from(l)] /\ d.items[m] = o.items[from(m)]
        BY <1>11, Zenon
      <4> HIDE DEF from
      <4> QED
        BY <2>2, <3>1, <4>1
    <3> QED
      BY <1>8, <3>2
  <2> QED
    BY <1>11, <2>1, <2>2 DEF Named
<1>14. \A p \in 0..(N - 1) : d.cells[p] = Invalid <=> o.cells[p] = Invalid
  <2>1. o.cells[tail] # Invalid
    BY <1>2, <1>1, <1>3
  <2> QED
    BY <1>8, <1>9, <1>10, <2>1
<1>15. Reached(d, N)
  BY <1>1, <1>11, <1>14 DEF Reached
<1>16. ASSUME NEW m \in 1..(last - 1) PROVE d.items[m].cell # c /\ d.cells[d.items[m].cell] = m
  <2>1. d.items[m].cell \in 0..(N - 1) /\ o.cells[d.items[m].cell] = from(m)
    BY <1>2, <1>11
  <2>2. d.items[m].cell # c
    BY <1>3, <1>11, <2>1
  <2>3. CASE m = n
    <3>1. d.items[m].cell = tail /\ n < last
      BY <1>11, <1>8, <2>3 DEF tail
    <3> QED
      BY <1>3, <1>9, <2>2, <2>3, <3>1
  <2>4. CASE m # n
    <3>1. d.items[m].cell # tail
      BY <1>3, <1>8, <2>1, <2>4
    <3>2. d.cells[d.items[m].cell] = o.cells[d.items[m].cell]
      BY <1>10, <2>1, <3>1
    <3> QED
      BY <2>1, <2>2, <2>4, <3>2
  <2> QED
    BY <2>2, <2>3, <2>4
<1>17. ASSUME NEW p \in 0..(N - 1), p # c, d.cells[p] # Invalid
       PROVE  d.cells[p] \in 1..(last - 1) /\ d.items[d.cells[p]].cell = p
  <2>1. CASE n < last /\ p = tail
    <3>1. d.cells[p] = n /\ n \in 1..(last - 1)
      BY <1>8, <1>9, <2>1
    <3>2. d.items[n] = o.items[last]
      BY <1>11, <3>1
    <3> QED
      BY <2>1, <3>1, <3>2 DEF tail
  <2>2. CASE ~(n < last /\ p = tail)
    <3> DEFINE q == o.cells[p]
    <3>1. d.cells[p] = q
      BY <1>10, <2>2
    <3>2. q \in 1..last /\ o.items[q].cell = p
      BY <1>1, <1>17, <3>1 DEF Matched
    <3>3. q # n
      BY <1>17, <3>2 DEF c
    <3>4. q # last
      BY <1>1, <2>2, <3>2, <3>3 DEF tail
    <3>5. q \in 1..(last - 1)
      BY <1>1, <3>2, <3>4
    <3>6. d.items[q] = o.items[q]
      BY <1>11, <3>3, <3>5
    <3> QED
      BY <3>1, <3>2, <3>5, <3>6
  <2> QED
    BY <2>1, <2>2
<1>18. \E p \in 0..(N - 1) : d.cells[p] = Invalid
  BY <1>1, <1>14, RoomLeft DEF last
<1>19. Holed(d, N, c)
  BY <1>3, <1>11, <1>12, <1>13, <1>14, <1>15, <1>16, <1>17, <1>18 DEF Holed
<1>20. Dropped(o, d, n)
  BY <1>1, <1>11 DEF Dropped, Count, last
<1> QED
  BY <1>19, <1>20 DEF d, c

\* What json_object_remove leaves.
LEMMA RemovesWell ==
  ASSUME HashOK, NEW o, NEW N, Well(o, N), Count(o) < N, NEW n \in DOMAIN o.items
  PROVE  Well(Removed(o, o.items[n].name), N) /\ Dropped(o, Removed(o, o.items[n].name), n)
<1> DEFINE c == o.items[n].cell
           d == ItemDropped(o, c)
           r == CellEmptied(d, c)
<1>1. Removed(o, o.items[n].name) = r
  BY ProbeFinds, Zenon DEF Removed
<1>2. Holed(d, N, c) /\ Dropped(o, d, n)
  BY DropsItem, Zenon
<1> HIDE DEF d, c
<1>3. Well(r, N) /\ Count(r) = Count(d) /\ SameItems(r, d, Count(d))
  BY <1>2, EmptiesWell
<1> HIDE DEF r
<1>4. Dropped(o, r, n)
  BY <1>2, <1>3 DEF Dropped, SameItems
<1> QED
  BY <1>1, <1>3, <1>4

-----------------------------------------------------------------------------
(* What an object holds.                                                   *)

Held(o) == {o.items[n].value : n \in DOMAIN o.items}

\* o has the values in p, each once.
Holding(o, p) ==
  /\ Held(o) = p
  /\ \A m, n \in DOMAIN o.items : o.items[m].value = o.items[n].value => m = n

MapOf(o) == [k \in Keys |-> json_object_getn_value(o, k)]

\* The map that json_object_get_value shows is that of the items.
LEMMA MapIs ==
  ASSUME HashOK, NEW o, NEW N, Well(o, N)
  PROVE  /\ \A n \in DOMAIN o.items :
              o.items[n].name \in Keys /\ MapOf(o)[o.items[n].name] = o.items[n].value
         /\ \A k \in Keys \ Names(o) : MapOf(o)[k] = NULL
         /\ \A k \in Keys : MapOf(o)[k] = NULL \/ MapOf(o)[k] \in Held(o)
         /\ Held(o) \subseteq Values
         /\ DOMAIN o.items = 1..Count(o) /\ Count(o) \in Nat
         /\ MapOf(o) = [k \in Keys |-> MapOf(o)[k]]
<1>1. Table(o, N)
  BY DEF Well
<1>2. \A n \in DOMAIN o.items : o.items[n].name \in Keys /\ o.items[n].value \in Values
  BY <1>1, EntryAt
<1>3. \A k \in Keys : MapOf(o)[k] = json_object_getn_value(o, k)
  BY DEF MapOf
<1>4. MapOf(o) = [k \in Keys |-> MapOf(o)[k]]
  BY DEF MapOf
<1>5. \A n \in DOMAIN o.items : MapOf(o)[o.items[n].name] = o.items[n].value
  BY <1>2, <1>3, Lookup
<1>6. \A k \in Keys \ Names(o) : MapOf(o)[k] = NULL
  BY <1>3, Lookup
<1>7. \A k \in Keys : MapOf(o)[k] = NULL \/ MapOf(o)[k] \in Held(o)
  BY <1>5, <1>6 DEF Names, Held
<1>8. Held(o) \subseteq Values
  BY <1>2 DEF Held
<1>9. DOMAIN o.items = 1..Count(o) /\ Count(o) \in Nat
  BY <1>1 DEF Table, Count
<1> QED
  BY <1>2, <1>4, <1>5, <1>6, <1>7, <1>8, <1>9

\* With the same items, in tables of any size, it is the same map.
LEMMA SameMap ==
  ASSUME HashOK, NEW a, NEW N, Well(a, N), NEW o, NEW M, Well(o, M),
         Count(a) = Count(o), SameItems(a, o, Count(o)), NEW p, Holding(o, p)
  PROVE  Holding(a, p) /\ Names(a) = Names(o) /\ MapOf(a) = MapOf(o)
<1>1. /\ DOMAIN a.items = 1..Count(o) /\ DOMAIN o.items = 1..Count(o)
      /\ \A n \in 1..Count(o) : a.items[n].name = o.items[n].name /\ a.items[n].value = o.items[n].value
  BY MapIs DEF SameItems
<1>2. Holding(a, p) /\ Names(a) = Names(o)
  BY <1>1 DEF Holding, Held, Names
<1>3. ASSUME NEW k \in Keys PROVE MapOf(a)[k] = MapOf(o)[k]
  <2>1. CASE k \in Names(o)
    <3>1. PICK n \in 1..Count(o) : o.items[n].name = k
      BY <1>1, <2>1 DEF Names
    <3>2. MapOf(o)[k] = o.items[n].value
      BY <1>1, <3>1, MapIs
    <3>3. MapOf(a)[k] = a.items[n].value
      BY <1>1, <3>1, MapIs
    <3> QED
      BY <1>1, <3>2, <3>3
  <2>2. CASE k \notin Names(o)
    BY <1>2, <2>2, MapIs
  <2> QED
    BY <2>1, <2>2
<1>4. MapOf(a) = MapOf(o)
  BY <1>3 DEF MapOf
<1> QED
  BY <1>2, <1>4

\* One more item puts its value under its name.
LEMMA AppendedMap ==
  ASSUME HashOK, NEW a, NEW N, Well(a, N), NEW o, NEW M, Well(o, M),
         NEW k \in Keys, NEW v \in Values, Appended(o, a, k, v), k \notin Names(o),
         NEW p, Holding(o, p), v \notin p
  PROVE  Holding(a, p \cup {v}) /\ Count(a) = Count(o) + 1 /\ MapOf(a) = [MapOf(o) EXCEPT ![k] = v]
<1> DEFINE last == Count(o) + 1
<1>1. /\ DOMAIN a.items = 1..Count(a) /\ DOMAIN o.items = 1..Count(o) /\ Count(o) \in Nat
  BY MapIs
<1>2. Count(a) = last
  BY DEF Appended, Count
<1>3. 1..last = 1..Count(o) \cup {last} /\ last \notin 1..Count(o)
  BY <1>1
<1>4. /\ \A n \in 1..Count(o) : a.items[n] = o.items[n]
      /\ a.items[last].name = k /\ a.items[last].value = v
  BY <1>1 DEF Appended, Count
<1> HIDE DEF last
<1>5. Holding(a, p \cup {v})
  <2>1. Held(a) = p \cup {v}
    BY <1>1, <1>2, <1>3, <1>4 DEF Held, Holding
  <2>2. \A n \in 1..Count(o) : o.items[n].value # v
    BY <1>1 DEF Held, Holding
  <2>3. \A m, n \in 1..last : a.items[m].value = a.items[n].value => m = n
    BY <1>1, <1>3, <1>4, <2>2 DEF Holding
  <2> QED
    BY <1>1, <1>2, <2>1, <2>3 DEF Holding
<1>6. ASSUME NEW j \in Keys PROVE MapOf(a)[j] = IF j = k THEN v ELSE MapOf(o)[j]
  <2>1. CASE j = k
    BY <1>1, <1>2, <1>3, <1>4, <2>1, MapIs
  <2>2. CASE j # k /\ j \in Names(o)
    <3>1. PICK n \in 1..Count(o) : o.items[n].name = j
      BY <1>1, <2>2 DEF Names
    <3>2. MapOf(o)[j] = o.items[n].value
      BY <1>1, <3>1, MapIs
    <3>3. MapOf(a)[j] = o.items[n].value
      <4>1. n \in DOMAIN a.items /\ a.items[n] = o.items[n]
        BY <1>1, <1>2, <1>3, <1>4
      <4> QED
        BY <3>1, <4>1, MapIs
    <3> QED
      BY <2>2, <3>2, <3>3
  <2>3. CASE j # k /\ j \notin Names(o)
    <3>1. j \notin Names(a)
      BY <1>1, <1>2, <1>3, <1>4, <2>3 DEF Names
    <3> QED
      BY <2>3, <3>1, MapIs
  <2> QED
    BY <2>1, <2>2, <2>3
<1>7. MapOf(a) = [MapOf(o) EXCEPT ![k] = v]
  BY <1>6 DEF MapOf
<1> QED
  BY <1>2, <1>5, <1>7 DEF last

DroppedFrom(o, r, n, p) ==
  /\ Holding(r, p \ {o.items[n].value})
  /\ o.items[n].name \in Keys /\ MapOf(o)[o.items[n].name] # NULL
  /\ MapOf(r) = [MapOf(o) EXCEPT ![o.items[n].name] = NULL]

\* One item less takes its value from its name.
LEMMA DroppedMap ==
  ASSUME HashOK, NEW r, NEW N, Well(r, N), NEW o, NEW M, Well(o, M),
         NEW n \in DOMAIN o.items, Dropped(o, r, n), NEW p, Holding(o, p)
  PROVE  DroppedFrom(o, r, n, p)
<1> DEFINE last == Count(o)
           k == o.items[n].name
           v == o.items[n].value
           from(m) == IF m = n THEN last ELSE m
<1>1. /\ DOMAIN r.items = 1..Count(r) /\ DOMAIN o.items = 1..last /\ last \in Nat
      /\ n \in 1..last
  BY MapIs
<1>2. DOMAIN r.items = 1..(last - 1)
  BY <1>1 DEF Dropped
<1>3. \A m \in 1..(last - 1) :
        /\ r.items[m].name = o.items[from(m)].name /\ r.items[m].value = o.items[from(m)].value
        /\ from(m) \in 1..last /\ from(m) # n
  BY <1>1 DEF Dropped
<1>4. \A m \in 1..last : m # n => \E l \in 1..(last - 1) : from(l) = m
  <2>1. ASSUME NEW m \in 1..last, m # n PROVE \E l \in 1..(last - 1) : from(l) = m
    <3>1. CASE m = last
      <4>1. n \in 1..(last - 1) /\ from(n) = m
        BY <1>1, <2>1, <3>1
      <4> QED
        BY <4>1
    <3>2. CASE m # last
      <4>1. m \in 1..(last - 1) /\ from(m) = m
        BY <1>1, <2>1, <3>2
      <4> QED
        BY <4>1
    <3> QED
      BY <3>1, <3>2
  <2> QED
    BY <2>1
<1>5. \A l, m \in 1..(last - 1) : from(l) = from(m) => l = m
  BY <1>1
<1>6. /\ \A m \in 1..last : o.items[m].name = k => m = n
      /\ \A m \in 1..last : o.items[m].value = v => m = n
      /\ \A l, m \in 1..last : o.items[l].value = o.items[m].value => l = m
      /\ Held(o) = p
  BY <1>1 DEF Well, Named, Holding
<1>7. k \in Keys /\ MapOf(o)[k] = v /\ v # NULL
  BY MapIs, ObjectAssumption DEF ObjectAssumption, Held
<1> HIDE DEF from, k, v, last
<1>8. Holding(r, p \ {v})
  <2>1. Held(r) = p \ {v}
    <3>1. \A m \in 1..(last - 1) : r.items[m].value \in p \ {v}
      BY <1>1, <1>3, <1>6 DEF Held
    <3>2. ASSUME NEW w \in p \ {v} PROVE w \in Held(r)
      <4>1. PICK m \in 1..last : o.items[m].value = w
        BY <1>1, <1>6 DEF Held
      <4>2. m # n
        BY <4>1 DEF v
      <4>3. PICK l \in 1..(last - 1) : from(l) = m
        BY <1>4, <4>2
      <4> QED
        BY <1>2, <1>3, <4>1, <4>3 DEF Held
    <3> QED
      BY <1>2, <3>1, <3>2 DEF Held
  <2>2. ASSUME NEW l \in 1..(last - 1), NEW m \in 1..(last - 1), r.items[l].value = r.items[m].value
        PROVE  l = m
    <3>1. from(l) = from(m)
      BY <1>3, <1>6, <2>2
    <3> QED
      BY <1>5, <3>1
  <2> QED
    BY <1>2, <2>1, <2>2 DEF Holding
<1>9. ASSUME NEW j \in Keys PROVE MapOf(r)[j] = IF j = k THEN NULL ELSE MapOf(o)[j]
  <2>1. CASE j # k /\ j \in Names(o)
    <3>1. PICK m \in 1..last : o.items[m].name = j
      BY <1>1, <2>1 DEF Names
    <3>2. m # n
      BY <2>1, <3>1 DEF k
    <3>3. PICK l \in 1..(last - 1) : from(l) = m
      BY <1>4, <3>2
    <3>4. l \in DOMAIN r.items /\ r.items[l].name = j /\ r.items[l].value = o.items[m].value
      BY <1>2, <1>3, <3>1, <3>3
    <3>5. MapOf(r)[j] = r.items[l].value
      BY <3>4, MapIs
    <3>6. MapOf(o)[j] = o.items[m].value
      BY <1>1, <3>1, MapIs
    <3> QED
      BY <2>1, <3>4, <3>5, <3>6
  <2>2. CASE j = k \/ j \notin Names(o)
    <3>1. \A m \in 1..(last - 1) : r.items[m].name # j
      <4> SUFFICES ASSUME NEW m \in 1..(last - 1) PROVE r.items[m].name # j
        OBVIOUS
      <4>1. from(m) \in 1..last /\ from(m) # n /\ r.items[m].name = o.items[from(m)].name
        BY <1>3, Zenon
      <4>2. CASE j = k
        BY <1>6, <4>1, <4>2
      <4>3. CASE j \notin Names(o)
        BY <1>1, <4>1, <4>3 DEF Names
      <4> QED
        BY <2>2, <4>2, <4>3
    <3>2. j \notin Names(r)
      BY <1>2, <3>1 DEF Names
    <3>3. MapOf(r)[j] = NULL /\ (j \notin Names(o) => MapOf(o)[j] = NULL)
      BY <3>2, MapIs
    <3> QED
      BY <2>2, <3>3
  <2> QED
    BY <2>1, <2>2
<1>10. MapOf(r) = [MapOf(o) EXCEPT ![k] = NULL]
  BY <1>9 DEF MapOf
<1> QED
  BY <1>7, <1>8, <1>10 DEF DroppedFrom, k, v

\* a is o with the value v in the n-th item.
ReplacedIn(o, a, N, n, v, p) ==
  /\ Well(a, N) /\ Count(a) = Count(o)
  /\ Holding(a, (p \ {o.items[n].value}) \cup {v})
  /\ MapOf(a) = [MapOf(o) EXCEPT ![o.items[n].name] = v]

\* A value takes another's place, and nothing else changes.
LEMMA ReplacesWell ==
  ASSUME HashOK, NEW o, NEW N, Well(o, N), NEW n \in DOMAIN o.items, NEW v \in Values,
         NEW p, Holding(o, p), v \notin p
  PROVE  ReplacedIn(o, [o EXCEPT !.items[n].value = v], N, n, v, p)
<1> DEFINE a == [o EXCEPT !.items[n].value = v]
           k == o.items[n].name
           old == o.items[n].value
           All == DOMAIN o.items
<1>1. /\ Table(o, N) /\ Matched(o, N) /\ Named(o) /\ Reached(o, N)
      /\ o = [cells |-> o.cells, items |-> o.items] /\ o.items \in Seq(Entries(N))
      /\ All = 1..Count(o) /\ Count(o) \in Nat /\ Len(o.items) = Count(o)
  BY MapIs DEF Well, Table, Count
<1> DEFINE item == [o.items[n] EXCEPT !.value = v]
<1>2. /\ a.cells = o.cells /\ a.items = [o.items EXCEPT ![n] = item]
      /\ a = [cells |-> a.cells, items |-> a.items]
  <2>1. a = [cells |-> o.cells, items |-> [o.items EXCEPT ![n] = item]]
    <3>1. o = [cells |-> o.cells, items |-> o.items]
      BY <1>1
    <3> QED
      BY <3>1
  <2> HIDE DEF a
  <2> QED
    BY <2>1
<1> HIDE DEF a
<1>3. \A m \in All : o.items[m] \in Entries(N)
  BY <1>1
<1>4. /\ DOMAIN a.items = All /\ a.items \in Seq(Entries(N)) /\ Len(a.items) = Len(o.items)
  <2>1. item \in Entries(N)
    BY <1>3 DEF Entries
  <2> HIDE DEF item
  <2> QED
    BY <1>1, <1>2, <2>1
<1>5. /\ \A m \in All : /\ a.items[m].name = o.items[m].name /\ a.items[m].hash = o.items[m].hash
                        /\ a.items[m].cell = o.items[m].cell
      /\ \A m \in All : a.items[m].value = IF m = n THEN v ELSE o.items[m].value
  BY <1>2, <1>3 DEF Entries
<1>6. Well(a, N)
  <2>1. Table(a, N)
    BY <1>1, <1>2, <1>4 DEF Table
  <2>2. Matched(a, N)
    <3>1. \A m \in All : a.cells[a.items[m].cell] = m
      BY <1>1, <1>2, <1>5 DEF Matched
    <3>2. \A c \in 0..(N - 1) :
            a.cells[c] # Invalid => a.cells[c] \in All /\ a.items[a.cells[c]].cell = c
      <4>1. \A c \in 0..(N - 1) :
              o.cells[c] # Invalid => o.cells[c] \in All /\ o.items[o.cells[c]].cell = c
        BY <1>1, Zenon DEF Matched
      <4> QED
        BY <1>2, <1>5, <4>1
    <3> QED
      BY <1>4, <3>1, <3>2 DEF Matched
  <2>3. Named(a)
    BY <1>1, <1>4, <1>5 DEF Named
  <2>4. Reached(a, N)
    BY <1>1, <1>2, <1>4, <1>5 DEF Reached
  <2> QED
    BY <2>1, <2>2, <2>3, <2>4 DEF Well
<1>7. Count(a) = Count(o)
  BY <1>4 DEF Count
<1>8. Holding(a, (p \ {old}) \cup {v})
  <2>1. /\ \A l, m \in All : o.items[l].value = o.items[m].value => l = m
        /\ \A m \in All : o.items[m].value \in p /\ o.items[m].value # v
        /\ \A w \in p : \E m \in All : o.items[m].value = w
    BY DEF Holding, Held
  <2>2. \A l, m \in All : a.items[l].value = a.items[m].value => l = m
    BY <1>5, <2>1
  <2>3. \A m \in All : a.items[m].value \in (p \ {old}) \cup {v}
    BY <1>5, <2>1
  <2>4. ASSUME NEW w \in (p \ {old}) \cup {v} PROVE \E m \in All : a.items[m].value = w
    <3>1. CASE w = v
      BY <1>5, <3>1
    <3>2. CASE w # v
      <4>1. PICK m \in All : o.items[m].value = w
        BY <2>1, <2>4, <3>2
      <4>2. m # n
        BY <2>4, <3>2, <4>1
      <4> QED
        BY <1>5, <4>1, <4>2
    <3> QED
      BY <3>1, <3>2
  <2> QED
    BY <1>4, <2>2, <2>3, <2>4 DEF Holding, Held
<1>9. Names(a) = Names(o) /\ k \in Keys
  BY <1>4, <1>5, MapIs DEF Names
<1>10. ASSUME NEW j \in Keys PROVE MapOf(a)[j] = IF j = k THEN v ELSE MapOf(o)[j]
  <2>1. CASE j \in Names(o)
    <3>1. PICK m \in All : o.items[m].name = j
      BY <2>1 DEF Names
    <3>2. MapOf(o)[j] = o.items[m].value
      BY <3>1, MapIs
    <3>3. MapOf(a)[j] = a.items[m].value
      BY <1>4, <1>5, <1>6, <3>1, MapIs
    <3>4. j = k <=> m = n
      BY <1>1, <3>1 DEF Named
    <3> QED
      BY <1>5, <3>2, <3>3, <3>4
  <2>2. CASE j \notin Names(o)
    <3>1. j # k
      BY <2>2 DEF Names
    <3> QED
      BY <1>6, <1>9, <2>2, <3>1, MapIs
  <2> QED
    BY <2>1, <2>2
<1>11. MapOf(a) = [MapOf(o) EXCEPT ![k] = v]
  BY <1>10 DEF MapOf
<1> QED
  BY <1>6, <1>7, <1>8, <1>11 DEF ReplacedIn, a

-----------------------------------------------------------------------------
(* The invariant, and what each call does to the map.                      *)

Kept(o, p) ==
  \E N \in Nat : Well(o, N) /\ Count(o) <= (N * 7) \div 10 /\ Holding(o, p)

ObjectInv == HashOK /\ Kept(object, parented)

MapSteps(a, b) ==
  \/ \E k \in Keys : /\ b[k] \in Values \ {a[other] : other \in Keys}
                     /\ b = [a EXCEPT ![k] = b[k]]
  \/ \E k \in Keys : a[k] # NULL /\ b = [a EXCEPT ![k] = NULL]
  \/ b = [k \in Keys |-> NULL]
  \/ b = a

\* What a call does.
Keeps ==
  /\ hash_string' = hash_string
  /\ Kept(object', parented')
  /\ MapSteps(MapOf(object), MapOf(object'))

\* A value that no name had, under one name, is a step of the map.
LEMMA PutSteps ==
  ASSUME HashOK, NEW o, NEW N, Well(o, N), NEW p, Holding(o, p),
         NEW k \in Keys, NEW v \in Values, v \notin p, NEW b, b = [MapOf(o) EXCEPT ![k] = v]
  PROVE  MapSteps(MapOf(o), b)
<1>1. b[k] = v
  BY MapIs
<1>2. \A other \in Keys : MapOf(o)[other] # v
  BY MapIs, ObjectAssumption DEF Holding, ObjectAssumption
<1> QED
  BY <1>1, <1>2 DEF MapSteps

\* Room for one more.
LEMMA RoomMade ==
  ASSUME ObjectInv
  PROVE  \E N \in Nat :
           /\ Well(WithRoom, N) /\ Count(WithRoom) + 1 <= (N * 7) \div 10 /\ Count(WithRoom) < N
           /\ Count(WithRoom) = Count(object) /\ Holding(WithRoom, parented)
           /\ Names(WithRoom) = Names(object) /\ MapOf(WithRoom) = MapOf(object)
<1>1. PICK M \in Nat : Well(object, M) /\ Count(object) <= (M * 7) \div 10 /\ Holding(object, parented)
  BY DEF ObjectInv, Kept
<1>2. HashOK /\ CellCapacity(object) = M /\ Count(object) \in Nat
  BY <1>1, Capacity, MapIs DEF ObjectInv, Well
<1>3. CASE ~Full
  <2>1. WithRoom = object
    BY <1>3 DEF WithRoom
  <2>2. Count(object) + 1 <= (M * 7) \div 10
    BY <1>1, <1>2, <1>3 DEF Full, ItemCapacity
  <2>3. Count(object) < M
    BY <1>2, <2>2
  <2> QED
    BY <1>1, <2>1, <2>2, <2>3
<1>4. CASE Full
  <2> DEFINE N == GrownCapacity
             r == Rehashed(object, N)
  <2>1. WithRoom = r
    BY <1>4 DEF WithRoom
  <2>2. N \in Nat /\ N >= 2 /\ N >= 2 * M
    BY <1>2, ObjectAssumption DEF GrownCapacity, ObjectAssumption
  <2> HIDE DEF N
  <2>3. Count(object) + 1 <= (N * 7) \div 10 /\ Count(object) < N
    <3>1. (M * 7) \div 10 + 1 <= (N * 7) \div 10
      BY <2>2
    <3>2. (N * 7) \div 10 <= N
      BY <2>2
    <3> QED
      BY <1>1, <1>2, <2>2, <3>1, <3>2
  <2>4. Well(r, N) /\ Count(r) = Count(object) /\ SameItems(r, object, Count(object))
    BY <1>1, <1>2, <2>2, <2>3, RehashWell, Zenon
  <2> HIDE DEF r
  <2>5. Holding(r, parented) /\ Names(r) = Names(object) /\ MapOf(r) = MapOf(object)
    BY <1>1, <1>2, <2>4, SameMap, Zenon
  <2> QED
    BY <2>1, <2>2, <2>3, <2>4, <2>5
<1> QED
  BY <1>3, <1>4

\* A name is found when an item has it.
LEMMA NotFound ==
  ASSUME ObjectInv, NEW k \in Keys
  PROVE  Found(object, k) <=> k \in Names(object)
<1>1. PICK N \in Nat : Well(object, N)
  BY DEF ObjectInv, Kept
<1>2. HashOK
  BY DEF ObjectInv
<1> QED
  BY <1>1, <1>2, Lookup DEF Names

\* The calls, one by one: the end of json_object_set_value and of json_object_add.
LEMMA InsertKeeps ==
  ASSUME ObjectInv, NEW k \in Keys, NEW v \in Values, v \notin parented,
         Insert(k, v), hash_string' = hash_string
  PROVE  Keeps
<1> DEFINE o == WithRoom
           a == Added(o, k, v)
<1>1. PICK N \in Nat :
        /\ Well(o, N) /\ Count(o) + 1 <= (N * 7) \div 10 /\ Count(o) < N
        /\ Holding(o, parented) /\ Names(o) = Names(object) /\ MapOf(o) = MapOf(object)
  BY RoomMade, Zenon
<1>2. HashOK /\ k \notin Names(o)
  BY <1>1, NotFound DEF Insert, ObjectInv
<1>3. object' = a /\ parented' = parented \cup {v}
  BY DEF Insert
<1> HIDE DEF o
<1>4. Well(a, N) /\ Appended(o, a, k, v)
  BY <1>1, <1>2, AddsWell
<1> HIDE DEF a
<1>5. Holding(a, parented \cup {v}) /\ Count(a) = Count(o) + 1 /\ MapOf(a) = [MapOf(o) EXCEPT ![k] = v]
  BY <1>1, <1>2, <1>4, AppendedMap
<1>6. MapSteps(MapOf(o), MapOf(a))
  BY <1>1, <1>2, <1>5, PutSteps, Zenon
<1>7. Kept(a, parented \cup {v})
  BY <1>1, <1>4, <1>5, Zenon DEF Kept
<1> QED
  BY <1>1, <1>3, <1>6, <1>7 DEF Keeps

\* json_object_set_value, of a name that the object has.
LEMMA ReplaceKeeps ==
  ASSUME ObjectInv, NEW k \in Keys, NEW v \in Values, v \notin parented,
         Replace(k, v), hash_string' = hash_string
  PROVE  Keeps
<1>1. HashOK /\ k \in Names(object)
  BY NotFound DEF Replace, ObjectInv
<1>2. PICK N \in Nat : Well(object, N) /\ Count(object) <= (N * 7) \div 10 /\ Holding(object, parented)
  BY DEF ObjectInv, Kept
<1>3. PICK n \in DOMAIN object.items : object.items[n].name = k
  BY <1>1 DEF Names
<1>4. object.cells[json_object_get_cell_ix(object, k)] = n
  BY <1>1, <1>2, <1>3, Lookup
<1> DEFINE a == [object EXCEPT !.items[n].value = v]
           p == (parented \ {object.items[n].value}) \cup {v}
<1>5. object' = a /\ parented' = p
  BY <1>4 DEF Replace
<1>6. /\ Well(a, N) /\ Count(a) = Count(object) /\ Holding(a, p)
      /\ MapOf(a) = [MapOf(object) EXCEPT ![object.items[n].name] = v]
  <2>1. ReplacedIn(object, a, N, n, v, parented)
    BY <1>1, <1>2, ReplacesWell, Zenon
  <2> QED
    BY <2>1, Zenon DEF ReplacedIn
<1> HIDE DEF a, p
<1>7. MapSteps(MapOf(object), MapOf(a))
  BY <1>1, <1>2, <1>3, <1>6, PutSteps
<1>8. Kept(a, p)
  BY <1>2, <1>6 DEF Kept
<1> QED
  BY <1>5, <1>7, <1>8 DEF Keeps

\* Calls that change nothing.
LEMMA StaysKept ==
  ASSUME ObjectInv, hash_string' = hash_string, object' = object, parented' = parented
  PROVE  Keeps
BY Zenon DEF Keeps, ObjectInv, MapSteps

\* A call that fails, when the table has grown or not.
LEMMA InsertFailsKeeps ==
  ASSUME ObjectInv, NEW k \in Keys, InsertFails(k), hash_string' = hash_string
  PROVE  Keeps
<1>1. parented' = parented /\ (object' = object \/ object' = WithRoom)
  BY DEF InsertFails
<1>2. CASE object' = WithRoom
  <2> DEFINE o == WithRoom
  <2>1. PICK N \in Nat :
        /\ Well(o, N) /\ Count(o) + 1 <= (N * 7) \div 10 /\ Count(o) < N
        /\ Count(o) = Count(object) /\ Holding(o, parented) /\ MapOf(o) = MapOf(object)
    BY RoomMade, Zenon
  <2>2. Count(o) \in Nat
    BY <2>1, MapIs DEF ObjectInv
  <2> HIDE DEF o
  <2>3. Count(o) <= (N * 7) \div 10
    BY <2>1, <2>2
  <2>4. Kept(o, parented)
    BY <2>1, <2>3, Zenon DEF Kept
  <2>5. MapSteps(MapOf(object), MapOf(o))
    BY <2>1, Zenon DEF MapSteps
  <2>6. object' = o
    BY <1>2 DEF o
  <2> QED
    BY <1>1, <2>4, <2>5, <2>6 DEF Keeps
<1> QED
  BY <1>1, <1>2, StaysKept

\* json_object_remove.
LEMMA RemoveKeeps ==
  ASSUME ObjectInv, NEW k \in Keys, json_object_remove(k)
  PROVE  Keeps
<1>1. HashOK /\ k \in Names(object)
  BY NotFound DEF json_object_remove, ObjectInv
<1>2. PICK N \in Nat : Well(object, N) /\ Count(object) <= (N * 7) \div 10 /\ Holding(object, parented)
  BY DEF ObjectInv, Kept
<1>3. PICK n \in DOMAIN object.items : object.items[n].name = k
  BY <1>1 DEF Names
<1> DEFINE r == Removed(object, k)
           p == parented \ {object.items[n].value}
<1>4. Count(object) \in Nat /\ Count(object) # 0
  BY <1>1, <1>2, MapIs
<1>5. Count(object) < N
  BY <1>2, <1>4
<1>6. Well(r, N) /\ Dropped(object, r, n)
  BY <1>1, <1>2, <1>3, <1>5, RemovesWell
<1>7. json_object_getn_value(object, k) = object.items[n].value
  BY <1>1, <1>2, <1>3, Lookup
<1>8. hash_string' = hash_string /\ object' = r /\ parented' = p
  BY <1>7 DEF json_object_remove
<1> HIDE DEF r, p
<1>9. /\ Holding(r, p) /\ MapOf(object)[k] # NULL
      /\ MapOf(r) = [MapOf(object) EXCEPT ![k] = NULL]
  <2>1. DroppedFrom(object, r, n, parented)
    BY <1>1, <1>2, <1>6, DroppedMap, Zenon
  <2> QED
    BY <1>3, <2>1 DEF DroppedFrom, p
<1>10. Count(r) <= (N * 7) \div 10
  BY <1>2, <1>4, <1>6 DEF Dropped
<1>11. Kept(r, p)
  BY <1>6, <1>9, <1>10, Zenon DEF Kept
<1>12. MapSteps(MapOf(object), MapOf(r))
  BY <1>9 DEF MapSteps
<1> QED
  BY <1>8, <1>11, <1>12 DEF Keeps

\* An object without items.
LEMMA EmptyKept ==
  ASSUME HashOK, NEW N \in Nat
  PROVE  Kept(json_object_init(N), {}) /\ MapOf(json_object_init(N)) = [k \in Keys |-> NULL]
<1> DEFINE o == json_object_init(N)
<1>1. Well(o, N) /\ o.items = <<>>
  BY EmptyWell
<1> HIDE DEF o
<1>2. DOMAIN o.items = {} /\ Count(o) = 0 /\ Names(o) = {}
  BY <1>1 DEF Count, Names
<1>3. Holding(o, {})
  BY <1>2 DEF Holding, Held
<1>4. 0 <= (N * 7) \div 10
  OBVIOUS
<1>5. \A k \in Keys : MapOf(o)[k] = NULL
  BY <1>1, <1>2, MapIs
<1>6. MapOf(o) = [k \in Keys |-> NULL]
  BY <1>5 DEF MapOf
<1> QED
  BY <1>1, <1>2, <1>3, <1>4, <1>6 DEF Kept, o

\* json_object_clear.
LEMMA ClearKeeps ==
  ASSUME ObjectInv, json_object_clear
  PROVE  Keeps
<1>1. PICK N \in Nat : Well(object, N) /\ Holding(object, parented)
  BY DEF ObjectInv, Kept
<1>2. CellCapacity(object) = N /\ HashOK
  BY <1>1, Capacity DEF Well, ObjectInv
<1> DEFINE o == json_object_init(N)
<1>3. HeldValues = parented
  BY <1>1 DEF HeldValues, Holding, Held
<1>4. hash_string' = hash_string /\ object' = o /\ parented' = {}
  BY <1>2, <1>3 DEF json_object_clear
<1> HIDE DEF o
<1>5. Kept(o, {}) /\ MapOf(o) = [k \in Keys |-> NULL]
  BY <1>2, EmptyKept DEF o
<1>6. MapSteps(MapOf(object), MapOf(o))
  BY <1>5 DEF MapSteps
<1> QED
  BY <1>4, <1>5, <1>6 DEF Keeps

\* Every call.
LEMMA StepKeeps ==
  ASSUME ObjectInv, [Next]_vars
  PROVE  Keeps
<1>1. ASSUME NEW k \in Keys, NEW v \in Offered[k], json_object_set_value(k, v) PROVE Keeps
  <2>1. v \in Values /\ v \notin parented /\ hash_string' = hash_string
    BY <1>1, ObjectAssumption DEF ObjectAssumption, json_object_set_value
  <2> QED
    BY <1>1, <2>1, InsertKeeps, ReplaceKeeps, InsertFailsKeeps DEF json_object_set_value
<1>2. ASSUME NEW k \in Keys, NEW v \in Offered[k], json_object_add(k, v) PROVE Keeps
  <2>1. v \in Values /\ v \notin parented /\ hash_string' = hash_string
    BY <1>2, ObjectAssumption DEF ObjectAssumption, json_object_add
  <2> QED
    BY <1>2, <2>1, InsertKeeps, StaysKept DEF json_object_add
<1>3. ASSUME NEW v \in Values, SetRefused(v) PROVE Keeps
  BY <1>3, StaysKept DEF SetRefused, vars
<1>4. CASE UNCHANGED vars
  BY <1>4, StaysKept DEF vars
<1> QED
  BY <1>1, <1>2, <1>3, <1>4, RemoveKeeps, ClearKeeps DEF Next

-----------------------------------------------------------------------------
(* The theorems.                                                           *)

\* The invariant holds of a new object.
LEMMA InitKept == Init => ObjectInv
<1> SUFFICES ASSUME Init PROVE ObjectInv
  OBVIOUS
<1>1. HashOK /\ object = json_object_init(0) /\ parented = {}
  BY DEF Init, HashOK
<1>2. Kept(json_object_init(0), {})
  BY <1>1, EmptyKept
<1> QED
  BY <1>1, <1>2 DEF ObjectInv

\* Every call keeps the invariant.
LEMMA NextKept == ObjectInv /\ [Next]_vars => ObjectInv'
<1> SUFFICES ASSUME ObjectInv, [Next]_vars PROVE ObjectInv'
  OBVIOUS
<1>1. hash_string' = hash_string /\ Kept(object', parented')
  BY StepKeeps DEF Keeps
<1>2. HashOK'
  BY <1>1 DEF ObjectInv, HashOK
<1>3. Kept(object, parented)'
  <2>1. PICK N \in Nat :
          Well(object', N) /\ Count(object') <= (N * 7) \div 10 /\ Holding(object', parented')
    BY <1>1 DEF Kept
  <2>2. Well(object, N)'
    <3>1. /\ Table(object', N) /\ Matched(object', N) /\ Named(object') /\ Reached(object', N)
      BY <2>1 DEF Well
    <3>2. Named(object)'
      BY <1>1, <3>1 DEF Named
    <3>3. Table(object, N)' /\ Matched(object, N)' /\ Reached(object, N)'
      BY <3>1 DEF Table, Matched, Reached, Entries
    <3> QED
      BY <3>2, <3>3 DEF Well
  <2>3. Count(object)' <= (N * 7) \div 10 /\ Holding(object, parented)'
    BY <2>1 DEF Count, Holding, Held
  <2> QED
    BY <2>2, <2>3, Zenon DEF Kept
<1> QED
  BY <1>2, <1>3 DEF ObjectInv

\* In every run, every item is reached from its key's home, room is left in the
\* table, and the object has the values that have a parent.
THEOREM AlwaysKept == Spec => []ObjectInv
<1>1. ObjectInv /\ [Next]_vars => ObjectInv'
  BY NextKept
<1> QED
  BY <1>1, InitKept, PTL DEF Spec

\* What the invariant says of types.
LEMMA KeptTyped == ObjectInv => TypeOK
<1> SUFFICES ASSUME ObjectInv PROVE TypeOK
  OBVIOUS
<1>1. PICK N \in Nat : Well(object, N) /\ Holding(object, parented)
  BY DEF ObjectInv, Kept
<1>2. /\ HashOK /\ Table(object, N) /\ Matched(object, N) /\ CellCapacity(object) = N
      /\ DOMAIN object.items = 1..Count(object) /\ Count(object) \in Nat
      /\ parented \subseteq Values /\ DOMAIN object.cells = 0..(N - 1)
      /\ object.cells \in [0..(N - 1) -> Nat]
  BY <1>1, Capacity, MapIs DEF ObjectInv, Well, Holding, Table
<1>3. \A c \in 0..(N - 1) : object.cells[c] \in 0..Count(object)
  <2>1. \A c \in 0..(N - 1) : object.cells[c] # Invalid => object.cells[c] \in 1..Count(object)
    BY <1>2 DEF Matched
  <2> QED
    BY <1>2, <2>1 DEF Invalid
<1>4. object.cells \in [0..(N - 1) -> 0..Count(object)]
  BY <1>2, <1>3
<1>5. \A n \in DOMAIN object.items : object.items[n] \in Entries(N)
  BY <1>2, EntryAt
<1> QED
  BY <1>2, <1>4, <1>5 DEF TypeOK, HashOK, Entries

\* Cells and items.
LEMMA KeptMatched == ObjectInv => CellsMatchItems
<1> SUFFICES ASSUME ObjectInv PROVE CellsMatchItems
  OBVIOUS
<1>1. PICK N \in Nat :
        Well(object, N) /\ Count(object) <= (N * 7) \div 10 /\ Holding(object, parented)
  BY DEF ObjectInv, Kept
<1>2. /\ HashOK /\ Table(object, N) /\ Matched(object, N) /\ CellCapacity(object) = N
      /\ Count(object) \in Nat /\ DOMAIN object.cells = 0..(N - 1)
  BY <1>1, Capacity, MapIs DEF ObjectInv, Well, Table
<1>3. ASSUME NEW k \in Keys, ~Full, ~Found(object, k)
      PROVE  json_object_get_cell_ix(object, k) # NoCell
  <2>1. k \notin Names(object)
    BY <1>3, NotFound
  <2>2. Count(object) < N /\ N > 0
    BY <1>1, <1>2, <1>3 DEF Full, ItemCapacity
  <2>3. \E p \in 0..(N - 1) : object.cells[p] = Invalid
    BY <1>2, <2>2, RoomLeft
  <2> DEFINE c == json_object_get_cell_ix(object, k)
  <2>4. \/ c = NoCell /\ \A p \in 0..(N - 1) : object.cells[p] # Invalid
        \/ c \in 0..(N - 1)
    BY <1>1, <1>2, <2>1, <2>2, ProbeFree
  <2> HIDE DEF c
  <2>5. c # NoCell
    BY <2>3, <2>4 DEF NoCell
  <2> QED
    BY <2>5 DEF c
<1> QED
  BY <1>2, <1>3 DEF CellsMatchItems, Matched

\* Enumeration.
LEMMA KeptEnumerates == ObjectInv => EnumeratesWhatIsFound
<1> SUFFICES ASSUME ObjectInv PROVE EnumeratesWhatIsFound
  OBVIOUS
<1>1. PICK N \in Nat : Well(object, N)
  BY DEF ObjectInv, Kept
<1>2. HashOK /\ Named(object)
  BY <1>1 DEF ObjectInv, Well
<1> QED
  BY <1>1, <1>2, Lookup DEF EnumeratesWhatIsFound, Named

\* Values.
LEMMA KeptHolds == ObjectInv => HoldsItsValues
BY DEF ObjectInv, Kept, Holding, Held, HoldsItsValues, HeldValues

\* The object is well formed: each cell is empty or the place of an item.
THEOREM ObjectTypes == Spec => []TypeOK
BY AlwaysKept, KeptTyped, PTL

\* Cells and items name each other, and a new name has a cell while there is
\* room, however the names hash.
THEOREM CellsAndItems == Spec => []CellsMatchItems
BY AlwaysKept, KeptMatched, PTL

\* What is enumerated is what is found.
THEOREM EnumeratedIsFound == Spec => []EnumeratesWhatIsFound
BY AlwaysKept, KeptEnumerates, PTL

\* The object has the values that have a parent, each once.
THEOREM ValuesHeldOnce == Spec => []HoldsItsValues
BY AlwaysKept, KeptHolds, PTL

\* The hash table is a map.
THEOREM TableIsMap == Spec => ImplementsMap
<1>1. Init => Map!Init
  <2> SUFFICES ASSUME Init PROVE Map!Init
    OBVIOUS
  <2>1. HashOK /\ object = json_object_init(0)
    BY DEF Init, HashOK
  <2>2. MapOf(object) = [k \in Keys |-> NULL]
    BY <2>1, EmptyKept
  <2> QED
    BY <2>2 DEF Map!Init, MapOf
<1>2. ASSUME ObjectInv, [Next]_vars PROVE [Map!Next]_([k \in Keys |-> json_object_getn_value(object, k)])
  <2> DEFINE a == MapOf(object)
             b == MapOf(object')
  <2>1. hash_string' = hash_string /\ MapSteps(a, b)
    BY <1>2, StepKeeps DEF Keeps
  <2>2. ASSUME NEW k \in Keys PROVE json_object_getn_value(object, k)' = json_object_getn_value(object', k)
    BY <2>1 DEF json_object_getn_value, HoldsAt, Holds, json_object_get_cell_ix, CellCapacity
  <2>3. [k \in Keys |-> json_object_getn_value(object, k)]' = b
    BY <2>2 DEF MapOf
  <2>4. [k \in Keys |-> json_object_getn_value(object, k)] = a
    BY DEF MapOf
  <2> HIDE DEF a, b
  <2>5. [Map!Next]_([k \in Keys |-> json_object_getn_value(object, k)])
    <3>1. CASE b = a
      BY <2>3, <2>4, <3>1, Zenon
    <3>2. ASSUME NEW k \in Keys, b[k] \in Values \ {a[other] : other \in Keys}, b = [a EXCEPT ![k] = b[k]]
          PROVE  Map!Next
      <4>1. Map!Put(k)
        BY <2>3, <2>4, <3>2 DEF Map!Put
      <4> QED
        BY <4>1 DEF Map!Next
    <3>3. ASSUME NEW k \in Keys, a[k] # NULL, b = [a EXCEPT ![k] = NULL]
          PROVE  Map!Next
      <4>1. Map!Remove(k)
        BY <2>3, <2>4, <3>3 DEF Map!Remove
      <4> QED
        BY <4>1 DEF Map!Next
    <3>4. CASE b = [k \in Keys |-> NULL]
      BY <2>3, <3>4 DEF Map!Next, Map!Clear
    <3> QED
      BY <2>1, <3>1, <3>2, <3>3, <3>4 DEF MapSteps
  <2> QED
    BY <2>5
<1> QED
  BY <1>1, <1>2, AlwaysKept, PTL DEF Spec, ImplementsMap, Map!Spec
=============================================================================

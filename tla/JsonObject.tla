----------------------------- MODULE JsonObject -----------------------------
(***************************************************************************)
(* The objects of parson.c, on which dx_json_serializer.c and              *)
(* dx_openai_functions.c build what they send: a hash table with open      *)
(* addressing.  Items are kept in arrays, in the order they were added;    *)
(* the cells of the table hold the places of items.  Places count from 1,  *)
(* and OBJECT_INVALID_IX is 0.                                             *)
(***************************************************************************)
EXTENDS Integers, Sequences, FiniteSets

CONSTANTS
  Keys, Values, NULL,
  Hashes,              \* what hash_string can return for the keys
  Offered,             \* the values the application sets under each key
  STARTING_CAPACITY

ASSUME ObjectAssumption ==
  /\ NULL \notin Values
  /\ Hashes \subseteq Nat
  /\ Offered \in [Keys -> SUBSET Values]
  /\ STARTING_CAPACITY \in Nat /\ STARTING_CAPACITY >= 2

Invalid == 0
NoCell == -1   \* json_object_get_cell_ix has found none

VARIABLES
  hash_string,  \* any function: it never changes
  object,       \* its cells, and its items
  parented      \* the values that have a parent

vars == <<hash_string, object, parented>>

-----------------------------------------------------------------------------
(* The table.                                                              *)

CellCapacity(o) == Cardinality(DOMAIN o.cells)
Count(o) == Len(o.items)

json_object_init(capacity) ==
  [cells |-> [c \in 0..(capacity - 1) |-> Invalid], items |-> <<>>]

ItemCapacity(o) == (CellCapacity(o) * 7) \div 10

\* hash & (cell_capacity - 1): capacities are powers of two.
Home(o, hash) == hash % CellCapacity(o)

Holds(o, c, k) ==
  /\ o.cells[c] # Invalid
  /\ o.items[o.cells[c]].hash = hash_string[k]
  /\ o.items[o.cells[c]].name = k

\* The first cell, from the key's home on, that is empty or holds the key.
json_object_get_cell_ix(o, k) ==
  LET capacity == CellCapacity(o)
      Probed(i) == (hash_string[k] + i) % capacity
      Stops(i) == o.cells[Probed(i)] = Invalid \/ Holds(o, Probed(i), k)
  IN IF \E i \in 0..(capacity - 1) : Stops(i)
       THEN Probed(CHOOSE i \in 0..(capacity - 1) : Stops(i) /\ \A j \in 0..(i - 1) : ~Stops(j))
       ELSE NoCell

HoldsAt(o, c, k) == c # NoCell /\ Holds(o, c, k)
Found(o, k) == HoldsAt(o, json_object_get_cell_ix(o, k), k)

json_object_getn_value(o, k) ==
  LET c == json_object_get_cell_ix(o, k)
  IN IF HoldsAt(o, c, k) THEN o.items[o.cells[c]].value ELSE NULL

\* The end of json_object_set_value and json_object_add: a new item, at cell c.
AddAt(o, c, k, v) ==
  [cells |-> [o.cells EXCEPT ![c] = Count(o) + 1],
   items |-> Append(o.items, [name |-> k, value |-> v, hash |-> hash_string[k], cell |-> c])]

Added(o, k, v) == AddAt(o, json_object_get_cell_ix(o, k), k, v)

\* Items are added again, in their order, to a larger table.
Rehashed(o, capacity) ==
  LET upTo[n \in 0..Count(o)] ==
        IF n = 0 THEN json_object_init(capacity)
        ELSE Added(upTo[n - 1], o.items[n].name, o.items[n].value)
  IN upTo[Count(o)]

GrownCapacity ==
  IF 2 * CellCapacity(object) > STARTING_CAPACITY
    THEN 2 * CellCapacity(object) ELSE STARTING_CAPACITY

\* The last item takes the place of the one that goes.
ItemDropped(o, c) ==
  LET ix == o.cells[c]
      last == Count(o)
      rest == SubSeq(o.items, 1, last - 1)
  IN IF ix < last
       THEN [cells |-> [o.cells EXCEPT ![o.items[last].cell] = ix],
             items |-> [rest EXCEPT ![ix] = o.items[last]]]
       ELSE [o EXCEPT !.items = rest]

\* Slip: no wrap-around.
MayMoveUnwrapped(home, i, j) == home <= i

\* An item at cell j, met after an empty cell i, is out of reach of its key
\* unless its home lies cyclically in (i, j].
MayMove(home, i, j) ==
  \/ j > i /\ (home <= i \/ home > j)
  \/ j < i /\ (home <= i /\ home > j)

\* Slip: the items that move are not told their cells.
NoneTold(items, target) == items

\* Items at the cells where target is defined are told their new ones.
Told(items, target) ==
  [n \in DOMAIN items |->
     IF items[n].cell \in DOMAIN target
       THEN [items[n] EXCEPT !.cell = target[items[n].cell]] ELSE items[n]]

\* The cells after the one that was emptied, up to the next empty one, are
\* visited: an item that its key would no longer reach moves back, and leaves
\* its own cell empty.
CellEmptied(o, cell) ==
  LET capacity == CellCapacity(o)
      At(x) == (cell + x) % capacity
      run == {x \in 1..(capacity - 1) : \A y \in 1..x : o.cells[At(y)] # Invalid}
      Moves(i, x) ==
        x \in run /\ MayMove(Home(o, o.items[o.cells[At(x)]].hash), i, At(x))
      \* Where the empty cell is after x visits.
      empty[x \in 0..(capacity - 1)] ==
        IF x = 0 THEN cell ELSE IF Moves(empty[x - 1], x) THEN At(x) ELSE empty[x - 1]
      moved == {x \in run : Moves(empty[x - 1], x)}
      target == [c \in {At(x) : x \in moved} |-> empty[(c - cell - 1) % capacity]]
      from == [c \in {target[d] : d \in DOMAIN target} |->
                 CHOOSE d \in DOMAIN target : target[d] = c]
  IN [cells |-> [c \in DOMAIN o.cells |->
                   CASE c \in DOMAIN from -> o.cells[from[c]]
                     [] c = empty[capacity - 1] -> Invalid
                     [] OTHER -> o.cells[c]],
      items |-> Told(o.items, target)]

Removed(o, k) ==
  LET c == json_object_get_cell_ix(o, k) IN CellEmptied(ItemDropped(o, c), c)

-----------------------------------------------------------------------------
(* The calls.  A value gets its parent when an object takes it over, and    *)
(* loses it only by being freed.                                           *)

Init ==
  /\ hash_string \in [Keys -> Hashes]
  /\ object = json_object_init(0)
  /\ parented = {}

\* Slip: room is asked for one item late.
FullTooLate == Count(object) > ItemCapacity(object)

Full == Count(object) >= ItemCapacity(object)
WithRoom == IF Full THEN Rehashed(object, GrownCapacity) ELSE object

\* Slip: the value that is replaced is not freed.
ReplaceAndKeep(k, v) ==
  /\ Found(object, k)
  /\ LET ix == object.cells[json_object_get_cell_ix(object, k)]
     IN object' = [object EXCEPT !.items[ix].value = v]
  /\ parented' = parented \cup {v}

Replace(k, v) ==
  /\ Found(object, k)
  /\ LET ix == object.cells[json_object_get_cell_ix(object, k)]
     IN /\ object' = [object EXCEPT !.items[ix].value = v]
        /\ parented' = (parented \ {object.items[ix].value}) \cup {v}

\* Slip: the cell that was found before the table grew is used after.
InsertAtOldCell(k, v) ==
  /\ ~Found(object, k)
  /\ LET c == json_object_get_cell_ix(object, k)
     IN object' = IF c = NoCell THEN Added(WithRoom, k, v) ELSE AddAt(WithRoom, c, k, v)
  /\ parented' = parented \cup {v}

\* The table may grow first; the cell is looked for again.
Insert(k, v) ==
  /\ ~Found(object, k)
  /\ object' = Added(WithRoom, k, v)
  /\ parented' = parented \cup {v}

\* No memory for a larger table, or for the copy of the name, when the table
\* has already grown.  The value stays with the caller.
InsertFails(k) ==
  /\ ~Found(object, k)
  /\ \/ Full /\ object' = object
     \/ object' = WithRoom
  /\ UNCHANGED parented

json_object_set_value(k, v) ==
  /\ v \notin parented
  /\ Replace(k, v) \/ Insert(k, v) \/ InsertFails(k)
  /\ UNCHANGED hash_string

\* A value that has a parent is refused.
SetRefused(v) == v \in parented /\ UNCHANGED vars

\* json_object_add, of the parser, takes the name as it is, and refuses one
\* that the object has.
json_object_add(k, v) ==
  /\ v \notin parented
  /\ \/ Insert(k, v)
     \/ Found(object, k) /\ UNCHANGED <<object, parented>>
     \/ ~Found(object, k) /\ Full /\ UNCHANGED <<object, parented>>
  /\ UNCHANGED hash_string

json_object_remove(k) ==
  /\ Found(object, k)
  /\ object' = Removed(object, k)
  /\ parented' = parented \ {json_object_getn_value(object, k)}
  /\ UNCHANGED hash_string

\* The values in the object.
HeldValues == {object.items[n].value : n \in DOMAIN object.items}

\* Slip: the cells are left as they are.
ClearItems ==
  /\ object' = [object EXCEPT !.items = <<>>]
  /\ parented' = parented \ HeldValues
  /\ UNCHANGED hash_string

json_object_clear ==
  /\ object' = json_object_init(CellCapacity(object))
  /\ parented' = parented \ HeldValues
  /\ UNCHANGED hash_string

Next ==
  \/ \E k \in Keys : \E v \in Offered[k] : json_object_set_value(k, v) \/ json_object_add(k, v)
  \/ \E v \in Values : SetRefused(v)
  \/ \E k \in Keys : json_object_remove(k)
  \/ json_object_clear

Spec == Init /\ [][Next]_vars

-----------------------------------------------------------------------------

TypeOK ==
  /\ hash_string \in [Keys -> Hashes]
  /\ object.cells \in [0..(CellCapacity(object) - 1) -> 0..Count(object)]
  /\ \A n \in DOMAIN object.items :
       object.items[n] \in
         [name : Keys, value : Values, hash : Hashes, cell : DOMAIN object.cells]
  /\ parented \subseteq Values

\* The cells and the items say the same: each item's cell_ix is the one cell
\* that holds it, so no cell names an item that is gone.  A name that is not
\* there, and for which there is room, has a cell to go to: nothing is ever
\* written through OBJECT_INVALID_IX.
CellsMatchItems ==
  /\ \A n \in DOMAIN object.items : object.cells[object.items[n].cell] = n
  /\ \A c \in DOMAIN object.cells :
       object.cells[c] # Invalid => object.items[object.cells[c]].cell = c
  /\ \A k \in Keys : ~Full /\ ~Found(object, k) => json_object_get_cell_ix(object, k) # NoCell

\* What json_object_get_name and json_object_get_value_at enumerate, as
\* json_serialize does, is what json_object_get_value finds, each name once.
EnumeratesWhatIsFound ==
  /\ \A n \in DOMAIN object.items :
       json_object_getn_value(object, object.items[n].name) = object.items[n].value
  /\ \A m, n \in DOMAIN object.items : object.items[m].name = object.items[n].name => m = n

\* The object holds each value that has a parent once, and no other: what was
\* replaced or removed was freed, and will not be freed again.
HoldsItsValues ==
  /\ HeldValues = parented
  /\ \A m, n \in DOMAIN object.items : object.items[m].value = object.items[n].value => m = n

Map == INSTANCE JsonMap WITH
  map <- [k \in Keys |-> json_object_getn_value(object, k)]

\* The table is a map, however its keys collide, grow and are removed.
ImplementsMap == Map!Spec
=============================================================================

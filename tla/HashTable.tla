----------------------------- MODULE HashTable -----------------------------
(***************************************************************************)
(* The open-addressing hash table of table.c: the algorithms, as operators *)
(* from a table to a table.                                                *)
(*                                                                         *)
(* A key is a heap object; its characters can change under the table, so   *)
(* every operator that hashes or compares takes "chars", the function from *)
(* a key to its present characters.  Two keys are valEqual exactly when    *)
(* their characters are equal: the 32-bit string hash, which the code      *)
(* compares in place of the characters when both hashes are known, is      *)
(* taken to be collision free, but the table index it is masked to is not. *)
(***************************************************************************)
EXTENDS Integers, FiniteSets

CONSTANTS Hash,         \* valHash of each string of characters
          MinCapacity,  \* the 8 of GROW_CAPACITY
          NoEntry       \* a slot whose key is UNDEF

ASSUME MinCapacityAssumption == MinCapacity \in Nat /\ MinCapacity >= 2
ASSUME HashAssumption == \A c \in DOMAIN Hash : Hash[c] \in Nat

\* initTableWithCapa; initTable is capacity 0, with no entry array
Fresh(n) == [count |-> 0, cap |-> n, slots |-> [i \in 0..n-1 |-> NoEntry]]

Indexes(t) == 0..t.cap-1
Occupied(t) == {i \in Indexes(t) : t.slots[i] # NoEntry}
KeysOf(t) == {t.slots[i].key : i \in Occupied(t)}

(***************************************************************************)
(* findEntry: the first slot from the key's home on, round the table, that *)
(* is empty or holds an equal key.  The code relies on there being one.    *)
(***************************************************************************)
Home(t, c) == Hash[c] % t.cap
Slot(t, c, d) == (Home(t, c) + d) % t.cap

StopsAt(t, chars, c, i) ==
  t.slots[i] = NoEntry \/ chars[t.slots[i].key] = c

ProbesBefore(t, chars, c, d) == \A e \in 0..d-1 : ~StopsAt(t, chars, c, Slot(t, c, e))

FindEntry(t, chars, c) ==
  Slot(t, c, CHOOSE d \in Indexes(t) : /\ StopsAt(t, chars, c, Slot(t, c, d))
                                       /\ ProbesBefore(t, chars, c, d))

GrowCapacity(n) == IF n < MinCapacity THEN MinCapacity ELSE 2 * n

\* resize: every entry is found a place in a new array, and counted, even when
\* the place it is given already holds an equal key.
Move(t, chars, new, i) ==
  IF t.slots[i] = NoEntry THEN new
  ELSE [new EXCEPT !.slots[FindEntry(new, chars, chars[t.slots[i].key])] = t.slots[i],
                   !.count = @ + 1]

\* The new table after each of the old one's slots.
ResizeSteps(t, chars, n) ==
  LET new[i \in 0..t.cap] ==
        IF i = 0 THEN Fresh(n) ELSE Move(t, chars, new[i - 1], i - 1)
  IN new

Resize(t, chars, n) == ResizeSteps(t, chars, n)[t.cap]

OverLoadedFull(t) == t.count + 1 > t.cap
OverLoaded(t) == 4 * (t.count + 1) > 3 * t.cap

WithRoom(t, chars) ==
  IF OverLoaded(t) THEN Resize(t, chars, GrowCapacity(t.cap)) ELSE t

PlaceCountsAlways(t, chars, k, v) ==
  [t EXCEPT !.slots[FindEntry(t, chars, chars[k])] = [key |-> k, val |-> v],
            !.count = @ + 1]
Place(t, chars, k, v) ==
  LET i == FindEntry(t, chars, chars[k])
  IN [t EXCEPT !.slots[i] = [key |-> k, val |-> v],
               !.count = IF t.slots[i] = NoEntry THEN @ + 1 ELSE @]

TableSet(t, chars, k, v) == Place(WithRoom(t, chars), chars, k, v)

\* tableGet: the slot of an equal key, or none
Has(t, chars, c) == t.cap > 0 /\ t.slots[FindEntry(t, chars, c)] # NoEntry
TableGet(t, chars, c) == t.slots[FindEntry(t, chars, c)].val

Vacate(t, i) == [t EXCEPT !.slots[i] = NoEntry, !.count = @ - 1]

(***************************************************************************)
(* tableDelete empties the slot, then takes out and sets again each entry  *)
(* that follows it, up to the first empty slot.                            *)
(***************************************************************************)
Reinsert(t, chars, i) ==
  TableSet(Vacate(t, i), chars, t.slots[i].key, t.slots[i].val)

Visit(acc, chars, i) ==
  IF acc.done THEN acc
  ELSE IF acc.tbl.slots[i] = NoEntry THEN [acc EXCEPT !.done = TRUE]
  ELSE [acc EXCEPT !.tbl = Reinsert(@, chars, i)]

ShiftSteps(t, chars, hole) ==
  LET after[d \in 0..t.cap] ==
        IF d = 0 THEN [tbl |-> t, done |-> FALSE]
        ELSE Visit(after[d - 1], chars, (hole + d) % t.cap)
  IN after

ShiftUpNothing(t, chars, hole) == t
ShiftUp(t, chars, hole) == ShiftSteps(t, chars, hole)[t.cap].tbl

TableDeleteAnyway(t, chars, c) ==
  IF t.cap = 0 THEN t
  ELSE LET i == FindEntry(t, chars, c) IN ShiftUp(Vacate(t, i), chars, i)
TableDelete(t, chars, c) ==
  IF t.count = 0 \/ ~Has(t, chars, c) THEN t
  ELSE LET i == FindEntry(t, chars, c) IN ShiftUp(Vacate(t, i), chars, i)

\* TABLE_FOREACH with tableSet in its body: Map#dup, #mergeWith, #rehash
Add(from, to, chars, i) ==
  IF from.slots[i] = NoEntry THEN to
  ELSE TableSet(to, chars, from.slots[i].key, from.slots[i].val)

AddSteps(from, to, chars) ==
  LET sum[i \in 0..from.cap] ==
        IF i = 0 THEN to ELSE Add(from, sum[i - 1], chars, i - 1)
  IN sum

AddAllButLast(from, to, chars) ==
  IF from.cap = 0 THEN to ELSE AddSteps(from, to, chars)[from.cap - 1]
AddAll(from, to, chars) == AddSteps(from, to, chars)[from.cap]

\* Map#rehash builds a table of the same capacity anew.
RehashedByResize(t, chars) ==
  IF t.cap = 0 THEN t ELSE Resize(t, chars, t.cap)
Rehashed(t, chars) == AddAll(t, Fresh(t.cap), chars)

\* tableNthEntry: the n-th occupied slot, counting from 0
HasNth(t, n) == n < Cardinality(Occupied(t))
NthEntryFromOne(t, n) ==
  t.slots[CHOOSE i \in Occupied(t) :
            Cardinality({j \in Occupied(t) : j <= i}) = IF n = 0 THEN 1 ELSE n]
NthEntry(t, n) ==
  t.slots[CHOOSE i \in Occupied(t) : Cardinality({j \in Occupied(t) : j < i}) = n]

\* mapEquals
SameEntries(t, u, chars) ==
  /\ t.count = u.count
  /\ \A i \in Occupied(t) :
        LET c == chars[t.slots[i].key]
        IN Has(u, chars, c) /\ TableGet(u, chars, c) = t.slots[i].val

\* tableFindString, the lookup loop of the intern table, answers as findEntry does.
FindsString(t, chars, c) ==
  /\ t.cap > 0
  /\ \E d \in Indexes(t) :
       /\ t.slots[Slot(t, c, d)] # NoEntry
       /\ chars[t.slots[Slot(t, c, d)].key] = c
       /\ \A e \in 0..d-1 : t.slots[Slot(t, c, e)] # NoEntry
=============================================================================

----------------------------- MODULE TableProofs -----------------------------
(***************************************************************************)
(* What the operations of table.c do to a table.  The first part asks of a *)
(* table only what holds although the keys may change under it (Loose):    *)
(* its counters, and that a quarter of its slots is empty.  The second     *)
(* asks that every probe finds its key (Tight), which Map#rehash restores  *)
(* and every operation keeps while no key changes.                         *)
(***************************************************************************)
EXTENDS LoxMap, NatLemmas, FiniteSetTheorems, TLAPS

Tables == UNION {[count : Int, cap : {n}, slots : [0..n-1 -> Slots]] : n \in Nat}
TablesWith(n) == [count : Int, cap : {n}, slots : [0..n-1 -> Slots]]

(* A Table is a record of its three fields, with one slot for each index. *)
LEMMA TableFields ==
  ASSUME NEW t \in Tables
  PROVE  /\ t.cap \in Nat /\ t.count \in Int
         /\ t.slots \in [Indexes(t) -> Slots]
         /\ t = [count |-> t.count, cap |-> t.cap, slots |-> t.slots]
         /\ t \in TablesWith(t.cap)
<1>1. PICK n \in Nat : t \in [count : Int, cap : {n}, slots : [0..n-1 -> Slots]]
  BY DEF Tables
<1>2. QED
  BY <1>1 DEF Indexes, TablesWith

(* A record of the three fields is a Table. *)
LEMMA TablesOfTyped ==
  ASSUME NEW n \in Nat, NEW t \in TablesWith(n)
  PROVE  t \in Tables /\ t.cap = n
BY DEF Tables, TablesWith

(* An entry is not the mark of an empty slot. *)
LEMMA EntryIsEntry ==
  ASSUME NEW k \in Keys, NEW v \in Values
  PROVE  [key |-> k, val |-> v] \in Slots /\ [key |-> k, val |-> v] # NoEntry
BY MapAssumption DEF Slots

(* An occupied slot holds an entry of the program's. *)
LEMMA OccupiedEntry ==
  ASSUME NEW t \in Tables, NEW i \in Occupied(t)
  PROVE  /\ i \in Indexes(t) /\ t.slots[i] # NoEntry
         /\ t.slots[i] \in [key : Keys, val : Values]
         /\ t.slots[i].key \in Keys /\ t.slots[i].val \in Values
         /\ t.slots[i] = [key |-> t.slots[i].key, val |-> t.slots[i].val]
<1>1. i \in Indexes(t) /\ t.slots[i] # NoEntry
  BY DEF Occupied
<1>2. t.slots[i] \in Slots
  BY <1>1, TableFields
<1>3. t.slots[i] \in [key : Keys, val : Values]
  BY <1>1, <1>2 DEF Slots
<1>4. QED
  BY <1>1, <1>3

(* A table has finitely many slots. *)
LEMMA OccupiedFinite ==
  ASSUME NEW t \in Tables
  PROVE  /\ IsFiniteSet(Indexes(t)) /\ Cardinality(Indexes(t)) = t.cap
         /\ IsFiniteSet(Occupied(t)) /\ Cardinality(Occupied(t)) \in Nat
         /\ Cardinality(Occupied(t)) <= t.cap
<1>1. t.cap \in Nat
  BY TableFields
<1>2. IsFiniteSet(0..t.cap-1)
  BY <1>1, FS_Interval
<1>3. Cardinality(0..t.cap-1) = IF 0 > t.cap-1 THEN 0 ELSE (t.cap-1) - 0 + 1
  <2>1. 0 \in Int /\ t.cap - 1 \in Int
    BY <1>1
  <2>2. QED
    BY <2>1, FS_Interval
<1>4. Occupied(t) \subseteq Indexes(t)
  BY DEF Occupied
<1>5. IsFiniteSet(Indexes(t)) /\ Cardinality(Indexes(t)) = t.cap
  BY <1>1, <1>2, <1>3 DEF Indexes
<1>6. QED
  BY <1>4, <1>5, FS_Subset, FS_CardinalityType

-----------------------------------------------------------------------------
(***************************************************************************)
(* Writing one slot.                                                       *)
(***************************************************************************)
Written(t, i, e, n) == [t EXCEPT !.slots[i] = e, !.count = n]

(* What a write leaves alone. *)
LEMMA WrittenTyped ==
  ASSUME NEW t \in Tables, NEW i, NEW e \in Slots, NEW n \in Int
  PROVE  /\ Written(t, i, e, n) \in Tables
         /\ Written(t, i, e, n).cap = t.cap
         /\ Written(t, i, e, n).count = n
         /\ Indexes(Written(t, i, e, n)) = Indexes(t)
<1>1. t.cap \in Nat /\ t \in TablesWith(t.cap) /\ t.slots \in [Indexes(t) -> Slots]
  BY TableFields
<1> DEFINE w == Written(t, i, e, n)
<1>2. w \in TablesWith(t.cap) /\ w.cap = t.cap /\ w.count = n
  BY <1>1 DEF Written, TablesWith
<1>3. w \in Tables
  BY <1>1, <1>2, TablesOfTyped
<1>4. QED
  BY <1>1, <1>2, <1>3 DEF Indexes

(* The slots after a write. *)
LEMMA WrittenSlot ==
  ASSUME NEW t \in Tables, NEW i, NEW e \in Slots, NEW n \in Int, NEW j \in Indexes(t)
  PROVE  Written(t, i, e, n).slots[j] = IF j = i THEN e ELSE t.slots[j]
<1>1. t.slots \in [Indexes(t) -> Slots]
  BY TableFields
<1>2. Written(t, i, e, n).slots = [t.slots EXCEPT ![i] = e]
  BY TableFields DEF Written, TablesWith
<1>3. QED
  BY <1>1, <1>2

(* The occupied slots after a write. *)
LEMMA WrittenOccupied ==
  ASSUME NEW t \in Tables, NEW i, NEW e \in Slots, NEW n \in Int
  PROVE  /\ i \notin Indexes(t) => Occupied(Written(t, i, e, n)) = Occupied(t)
         /\ i \in Indexes(t) /\ e # NoEntry => Occupied(Written(t, i, e, n)) = Occupied(t) \cup {i}
         /\ e = NoEntry => Occupied(Written(t, i, e, n)) = Occupied(t) \ {i}
<1> DEFINE w == Written(t, i, e, n)
<1>1. Indexes(w) = Indexes(t) /\ \A j \in Indexes(t) : w.slots[j] = IF j = i THEN e ELSE t.slots[j]
  BY WrittenTyped, WrittenSlot
<1> HIDE DEF w
<1>2. /\ i \notin Indexes(t) => Occupied(w) = Occupied(t)
      /\ i \in Indexes(t) /\ e # NoEntry => Occupied(w) = Occupied(t) \cup {i}
      /\ e = NoEntry => Occupied(w) = Occupied(t) \ {i}
  BY <1>1 DEF Occupied
<1>3. QED
  BY <1>2 DEF w

(* An entry written raises the number of entries by one or, over another   *)
(* entry (or beside the array), leaves it. *)
LEMMA WrittenCard ==
  ASSUME NEW t \in Tables, NEW i, NEW e \in Slots, NEW n \in Int
  PROVE  /\ e # NoEntry /\ i \in Indexes(t) /\ t.slots[i] = NoEntry =>
              Cardinality(Occupied(Written(t, i, e, n))) = Cardinality(Occupied(t)) + 1
         /\ e # NoEntry /\ (i \notin Indexes(t) \/ t.slots[i] # NoEntry) =>
              Cardinality(Occupied(Written(t, i, e, n))) = Cardinality(Occupied(t))
         /\ e = NoEntry /\ i \in Occupied(t) =>
              Cardinality(Occupied(Written(t, i, e, n))) = Cardinality(Occupied(t)) - 1
<1>1. IsFiniteSet(Occupied(t))
  BY OccupiedFinite
<1>2. ASSUME e # NoEntry, i \in Indexes(t), t.slots[i] = NoEntry
      PROVE  Cardinality(Occupied(Written(t, i, e, n))) = Cardinality(Occupied(t)) + 1
  <2>1. Occupied(Written(t, i, e, n)) = Occupied(t) \cup {i} /\ i \notin Occupied(t)
    BY <1>2, WrittenOccupied DEF Occupied
  <2>2. QED
    BY <1>1, <2>1, FS_AddElement
<1>3. ASSUME e # NoEntry, i \notin Indexes(t) \/ t.slots[i] # NoEntry
      PROVE  Cardinality(Occupied(Written(t, i, e, n))) = Cardinality(Occupied(t))
  <2>1. Occupied(Written(t, i, e, n)) = Occupied(t)
    BY <1>3, WrittenOccupied DEF Occupied
  <2>2. QED
    BY <2>1
<1>4. ASSUME e = NoEntry, i \in Occupied(t)
      PROVE  Cardinality(Occupied(Written(t, i, e, n))) = Cardinality(Occupied(t)) - 1
  <2>1. Occupied(Written(t, i, e, n)) = Occupied(t) \ {i}
    BY <1>4, WrittenOccupied
  <2>2. QED
    BY <1>1, <1>4, <2>1, FS_RemoveElement
<1>5. QED
  BY <1>2, <1>3, <1>4

-----------------------------------------------------------------------------
(***************************************************************************)
(* Probing.  Round(n, a, b) is how far b is from a, going up and round a   *)
(* table of n slots; the probe of a key meets the slots in the order of    *)
(* their distance from the key's home.                                     *)
(***************************************************************************)
Round(n, a, b) == IF b >= a THEN b - a ELSE b - a + n
Dist(t, c, i) == Round(t.cap, Home(t, c), i)

FirstStop(t, ch, c, i) ==
  /\ i \in Indexes(t)
  /\ StopsAt(t, ch, c, i)
  /\ \A j \in Indexes(t) : Dist(t, c, j) < Dist(t, c, i) => ~StopsAt(t, ch, c, j)

(* The home of a key is a slot. *)
LEMMA HomeIsIndex ==
  ASSUME NEW t \in Tables, t.cap > 0, NEW c \in Chars
  PROVE  Home(t, c) \in Indexes(t)
<1>1. t.cap \in Nat /\ Hash[c] \in Nat
  BY TableFields, HashAssumption DEF Chars
<1>2. QED
  BY <1>1 DEF Home, Indexes

(* Remainders of numbers below twice the divisor. *)
LEMMA ModSmall ==
  ASSUME NEW n \in Nat, n > 0, NEW a \in Nat
  PROVE  /\ a < n => a % n = a
         /\ n <= a /\ a < 2 * n => a % n = a - n
<1>1. CASE a < n
  BY <1>1
<1>2. CASE n <= a /\ a < 2 * n
  <2>1. a - n \in 0..n-1 /\ a = n * 1 + (a - n)
    BY <1>2
  <2>2. QED
    BY <1>2, <2>1
<1>3. QED
  BY <1>1, <1>2

(* The d-th slot of a probe, without the remainder. *)
LEMMA SlotIs ==
  ASSUME NEW t \in Tables, NEW c \in Chars, NEW d \in Indexes(t)
  PROVE  Slot(t, c, d) = IF Home(t, c) + d < t.cap THEN Home(t, c) + d
                         ELSE Home(t, c) + d - t.cap
<1>1. t.cap \in Nat /\ t.cap > 0 /\ d \in 0..t.cap-1
  BY TableFields DEF Indexes
<1>2. Home(t, c) \in 0..t.cap-1
  BY <1>1, HomeIsIndex DEF Indexes
<1> DEFINE a == Home(t, c) + d
<1>3. a \in Nat /\ a < 2 * t.cap
  BY <1>1, <1>2
<1> HIDE DEF a
<1>4. a % t.cap = IF a < t.cap THEN a ELSE a - t.cap
  <2>1. CASE a < t.cap
    BY <1>1, <1>3, <2>1, ModSmall
  <2>2. CASE ~(a < t.cap)
    <3>1. t.cap <= a
      BY <1>1, <1>3, <2>2
    <3>2. QED
      BY <1>1, <1>3, <2>2, <3>1, ModSmall
  <2>3. QED
    BY <2>1, <2>2
<1>5. Slot(t, c, d) = a % t.cap
  BY Zenon DEF a, Slot
<1>6. Slot(t, c, d) = IF a < t.cap THEN a ELSE a - t.cap
  BY <1>4, <1>5, Zenon
<1>7. QED
  BY <1>1, <1>2, <1>6 DEF a

(* The d-th slot of a probe is the one at distance d. *)
LEMMA SlotOfDist ==
  ASSUME NEW t \in Tables, NEW c \in Chars, NEW i \in Indexes(t)
  PROVE  /\ Dist(t, c, i) \in Indexes(t) /\ Slot(t, c, Dist(t, c, i)) = i
         /\ Slot(t, c, i) \in Indexes(t) /\ Dist(t, c, Slot(t, c, i)) = i
<1>1. t.cap \in Nat /\ t.cap > 0 /\ i \in 0..t.cap-1
  BY TableFields DEF Indexes
<1>2. Home(t, c) \in 0..t.cap-1
  BY <1>1, HomeIsIndex DEF Indexes
<1> DEFINE n == t.cap
           h == Home(t, c)
<1>3. Dist(t, c, i) = (IF i >= h THEN i - h ELSE i - h + n)
  BY DEF Dist, Round
<1>4. Slot(t, c, i) = (IF h + i < n THEN h + i ELSE h + i - n)
  BY SlotIs
<1>5. Dist(t, c, i) \in 0..n-1 /\ Slot(t, c, i) \in 0..n-1
  BY <1>1, <1>2, <1>3, <1>4
<1>6. Slot(t, c, Dist(t, c, i)) = i
  <2>1. Slot(t, c, Dist(t, c, i)) = (IF h + Dist(t, c, i) < n THEN h + Dist(t, c, i)
                                      ELSE h + Dist(t, c, i) - n)
    BY <1>5, SlotIs DEF Indexes
  <2>2. QED
    BY <1>1, <1>2, <1>3, <2>1
<1>7. Dist(t, c, Slot(t, c, i)) = i
  <2>1. Dist(t, c, Slot(t, c, i)) = (IF Slot(t, c, i) >= h THEN Slot(t, c, i) - h
                                      ELSE Slot(t, c, i) - h + n)
    BY DEF Dist, Round
  <2>2. QED
    BY <1>1, <1>2, <1>4, <2>1
<1>8. QED
  BY <1>5, <1>6, <1>7 DEF Indexes

(* Two slots at the same distance are one. *)
LEMMA DistInjective ==
  ASSUME NEW t \in Tables, NEW c \in Chars, NEW i \in Indexes(t), NEW j \in Indexes(t),
         Dist(t, c, i) = Dist(t, c, j)
  PROVE  i = j
BY SlotOfDist

(* The probe of c stops at slot i after d steps, as findEntry's loop does. *)
LEMMA FirstStopProbes ==
  ASSUME NEW t \in Tables, NEW ch, NEW c \in Chars, NEW i \in Indexes(t)
  PROVE  FirstStop(t, ch, c, i) <=>
           /\ StopsAt(t, ch, c, Slot(t, c, Dist(t, c, i)))
           /\ ProbesBefore(t, ch, c, Dist(t, c, i))
<1>1. Slot(t, c, Dist(t, c, i)) = i /\ Dist(t, c, i) \in Indexes(t)
  BY SlotOfDist
<1>2. t.cap \in Nat
  BY TableFields
<1>3. ASSUME FirstStop(t, ch, c, i) PROVE ProbesBefore(t, ch, c, Dist(t, c, i))
  <2>1. ASSUME NEW e \in 0..Dist(t, c, i)-1 PROVE ~StopsAt(t, ch, c, Slot(t, c, e))
    <3>1. e \in Indexes(t) /\ e < Dist(t, c, i)
      BY <1>1, <1>2 DEF Indexes
    <3>2. Slot(t, c, e) \in Indexes(t) /\ Dist(t, c, Slot(t, c, e)) = e
      BY <3>1, SlotOfDist
    <3>3. QED
      BY <1>3, <3>1, <3>2 DEF FirstStop
  <2>2. QED
    BY <2>1 DEF ProbesBefore
<1>4. ASSUME ProbesBefore(t, ch, c, Dist(t, c, i)), NEW j \in Indexes(t),
             Dist(t, c, j) < Dist(t, c, i)
      PROVE  ~StopsAt(t, ch, c, j)
  <2>1. Slot(t, c, Dist(t, c, j)) = j /\ Dist(t, c, j) \in Indexes(t)
    BY SlotOfDist
  <2>2. Dist(t, c, j) \in 0..Dist(t, c, i)-1
    BY <1>1, <1>2, <1>4, <2>1 DEF Indexes
  <2>3. QED
    BY <1>4, <2>1, <2>2 DEF ProbesBefore
<1>5. QED
  BY <1>1, <1>3, <1>4 DEF FirstStop

(* A slot that the probe meets first is what findEntry answers. *)
LEMMA FindEntryIs ==
  ASSUME NEW t \in Tables, NEW ch, NEW c \in Chars, NEW i, FirstStop(t, ch, c, i)
  PROVE  FindEntry(t, ch, c) = i
<1>0. i \in Indexes(t) /\ t.cap \in Nat
  BY TableFields DEF FirstStop
<1> DEFINE P(d) == StopsAt(t, ch, c, Slot(t, c, d)) /\ ProbesBefore(t, ch, c, d)
           D == CHOOSE d \in Indexes(t) : P(d)
<1>1. Dist(t, c, i) \in Indexes(t) /\ P(Dist(t, c, i)) /\ Slot(t, c, Dist(t, c, i)) = i
  BY <1>0, SlotOfDist, FirstStopProbes
<1>2. ASSUME NEW d \in Indexes(t), NEW e \in Indexes(t), P(d), P(e) PROVE d = e
  <2>1. ~(d < e)
    BY <1>0, <1>2 DEF ProbesBefore, Indexes
  <2>2. ~(e < d)
    BY <1>0, <1>2 DEF ProbesBefore, Indexes
  <2>3. QED
    BY <1>0, <2>1, <2>2 DEF Indexes
<1>3. D \in Indexes(t) /\ P(D)
  BY <1>1
<1>4. D = Dist(t, c, i)
  <2> HIDE DEF D, P
  <2>1. QED
    BY <1>1, <1>2, <1>3
<1>5. FindEntry(t, ch, c) = Slot(t, c, D)
  BY DEF FindEntry
<1>6. QED
  BY <1>1, <1>4, <1>5

(* When some slot can stop it, the probe ends, at the first such slot. *)
LEMMA FindEntryStops ==
  ASSUME NEW t \in Tables, NEW ch, NEW c \in Chars,
         NEW s \in Indexes(t), StopsAt(t, ch, c, s)
  PROVE  FirstStop(t, ch, c, FindEntry(t, ch, c))
<1> DEFINE S == {d \in Indexes(t) : StopsAt(t, ch, c, Slot(t, c, d))}
<1>0. t.cap \in Nat
  BY TableFields
<1>1. Dist(t, c, s) \in S
  BY SlotOfDist
<1>2. S \in SUBSET Nat
  BY <1>0 DEF Indexes
<1>3. PICK d \in S : \A e \in S : d <= e
  <2> HIDE DEF S
  <2>1. QED
    BY <1>1, <1>2, LeastMember
<1>4. d \in Indexes(t) /\ StopsAt(t, ch, c, Slot(t, c, d))
  OBVIOUS
<1>5. Slot(t, c, d) \in Indexes(t) /\ Dist(t, c, Slot(t, c, d)) = d
  BY <1>4, SlotOfDist
<1>6. ASSUME NEW j \in Indexes(t), Dist(t, c, j) < d PROVE ~StopsAt(t, ch, c, j)
  <2>1. Dist(t, c, j) \in Indexes(t) /\ Slot(t, c, Dist(t, c, j)) = j
    BY SlotOfDist
  <2>2. Dist(t, c, j) \notin S
    BY <1>0, <1>3, <1>4, <1>6, <2>1 DEF Indexes
  <2>3. QED
    BY <2>1, <2>2
<1>7. FirstStop(t, ch, c, Slot(t, c, d))
  BY <1>4, <1>5, <1>6 DEF FirstStop
<1>8. FindEntry(t, ch, c) = Slot(t, c, d)
  BY <1>7, FindEntryIs
<1>9. QED
  BY <1>7, <1>8

-----------------------------------------------------------------------------
(***************************************************************************)
(* The counters.                                                           *)
(***************************************************************************)
Counted(t) ==
  /\ t \in Tables
  /\ t.count \in Nat
  /\ Cardinality(Occupied(t)) <= t.count

\* A table as the program keeps it, whatever happens to its keys.
Loose(t) ==
  /\ Counted(t)
  /\ t.cap = 0 \/ t.cap >= MinCapacity
  /\ 4 * t.count <= 3 * t.cap

(* A new table is empty. *)
LEMMA FreshIsEmpty ==
  ASSUME NEW n \in Nat
  PROVE  /\ Fresh(n) \in Tables /\ Fresh(n).cap = n /\ Fresh(n).count = 0
         /\ Occupied(Fresh(n)) = {} /\ Counted(Fresh(n))
<1>1. Fresh(n) \in TablesWith(n)
  BY DEF Fresh, TablesWith, Slots
<1>2. Fresh(n) \in Tables /\ Fresh(n).cap = n /\ Fresh(n).count = 0
  BY <1>1, TablesOfTyped DEF Fresh
<1>3. Occupied(Fresh(n)) = {}
  BY DEF Occupied, Indexes, Fresh
<1>4. QED
  BY <1>2, <1>3, FS_EmptySet DEF Counted

(* Fewer entries than slots leave a slot for a probe to stop at. *)
LEMMA RoomStops ==
  ASSUME NEW t \in Tables, Cardinality(Occupied(t)) < t.cap
  PROVE  \E s \in Indexes(t) : t.slots[s] = NoEntry
<1>1. Cardinality(Indexes(t)) = t.cap
  BY OccupiedFinite
<1>2. SUFFICES ASSUME Occupied(t) = Indexes(t) PROVE FALSE
  BY DEF Occupied
<1>3. t.cap \in Nat
  BY TableFields
<1>4. QED
  BY <1>1, <1>2, <1>3

(* A loose table with an entry array has an empty slot. *)
LEMMA LooseRoom ==
  ASSUME NEW t, Loose(t), t.cap > 0
  PROVE  /\ Cardinality(Occupied(t)) < t.cap
         /\ \E s \in Indexes(t) : t.slots[s] = NoEntry
<1>1. t \in Tables /\ t.count \in Nat /\ Cardinality(Occupied(t)) <= t.count
  BY DEF Loose, Counted
<1>2. Cardinality(Occupied(t)) \in Nat /\ t.cap \in Nat
  BY <1>1, OccupiedFinite, TableFields
<1>3. Cardinality(Occupied(t)) < t.cap
  BY <1>1, <1>2 DEF Loose
<1>4. QED
  BY <1>1, <1>3, RoomStops

(* An entry written, with the count raised when findEntry's slot looked    *)
(* empty, or always (resize): the entries stay at most the count. *)
LEMMA WrittenCounted ==
  ASSUME NEW t, Counted(t), NEW i, NEW k \in Keys, NEW v \in Values, NEW n \in Nat,
         n = t.count + 1 \/ (n = t.count /\ t.slots[i] # NoEntry)
  PROVE  Counted(Written(t, i, [key |-> k, val |-> v], n))
<1> DEFINE e == [key |-> k, val |-> v]
           w == Written(t, i, e, n)
<1>1. t \in Tables /\ t.count \in Nat /\ Cardinality(Occupied(t)) <= t.count
      /\ Cardinality(Occupied(t)) \in Nat
  BY OccupiedFinite DEF Counted
<1>2. e \in Slots /\ e # NoEntry /\ n \in Int
  BY EntryIsEntry
<1> HIDE DEF e
<1>3. w \in Tables /\ w.count = n
  BY <1>1, <1>2, WrittenTyped
<1>4. ASSUME i \in Indexes(t), t.slots[i] = NoEntry PROVE Counted(w)
  <2>1. Cardinality(Occupied(w)) = Cardinality(Occupied(t)) + 1
    BY <1>1, <1>2, <1>4, WrittenCard
  <2>2. QED
    BY <1>1, <1>3, <1>4, <2>1 DEF Counted
<1>5. ASSUME ~(i \in Indexes(t) /\ t.slots[i] = NoEntry) PROVE Counted(w)
  <2>1. Cardinality(Occupied(w)) = Cardinality(Occupied(t))
    BY <1>1, <1>2, <1>5, WrittenCard
  <2>2. QED
    BY <1>1, <1>3, <2>1 DEF Counted
<1>6. Counted(w)
  BY <1>4, <1>5
<1>7. QED
  BY <1>6 DEF e

(* Place is a write. *)
LEMMA PlaceIsWrite ==
  ASSUME NEW t \in Tables, NEW ch, NEW k, NEW v
  PROVE  LET i == FindEntry(t, ch, ch[k])
         IN Place(t, ch, k, v) = Written(t, i, [key |-> k, val |-> v],
                                         IF t.slots[i] = NoEntry THEN t.count + 1 ELSE t.count)
<1> DEFINE i == FindEntry(t, ch, ch[k])
<1>1. t = [count |-> t.count, cap |-> t.cap, slots |-> t.slots]
  BY TableFields
<1>2. Place(t, ch, k, v) = [t EXCEPT !.slots[i] = [key |-> k, val |-> v],
               !.count = IF t.slots[i] = NoEntry THEN @ + 1 ELSE @]
  BY DEF Place
<1> HIDE DEF i
<1>3. [t EXCEPT !.slots[i] = [key |-> k, val |-> v],
               !.count = IF t.slots[i] = NoEntry THEN @ + 1 ELSE @]
      = Written(t, i, [key |-> k, val |-> v],
                                         IF t.slots[i] = NoEntry THEN t.count + 1 ELSE t.count)
  BY <1>1 DEF Written
<1>4. QED
  BY <1>2, <1>3 DEF i

(* Placing an entry counts it, or replaces one. *)
LEMMA PlaceCounted ==
  ASSUME NEW t, Counted(t), NEW ch, NEW k \in Keys, NEW v \in Values
  PROVE  /\ Counted(Place(t, ch, k, v))
         /\ Place(t, ch, k, v).cap = t.cap
         /\ Place(t, ch, k, v).count <= t.count + 1
<1> DEFINE i == FindEntry(t, ch, ch[k])
           e == [key |-> k, val |-> v]
           n == IF t.slots[i] = NoEntry THEN t.count + 1 ELSE t.count
<1>1. t \in Tables /\ t.count \in Nat
  BY DEF Counted
<1>2. Place(t, ch, k, v) = Written(t, i, e, n)
  BY <1>1, PlaceIsWrite
<1>3. n \in Nat /\ n \in Int /\ n <= t.count + 1
      /\ (n = t.count + 1 \/ (n = t.count /\ t.slots[i] # NoEntry))
  BY <1>1
<1>4. e \in Slots
  BY EntryIsEntry
<1> HIDE DEF i, n
<1>5. Counted(Written(t, i, e, n))
  BY <1>3, WrittenCounted
<1>6. Written(t, i, e, n).cap = t.cap /\ Written(t, i, e, n).count = n
  BY <1>1, <1>3, <1>4, WrittenTyped
<1>7. QED
  BY <1>2, <1>3, <1>5, <1>6

-----------------------------------------------------------------------------
(***************************************************************************)
(* resize: the loop over the slots of the old table.                       *)
(***************************************************************************)
KeyChars == [Keys -> Chars]

(* resize's loop body yields a table of the new size. *)
LEMMA MoveTyped ==
  ASSUME NEW t \in Tables, NEW ch, NEW n \in Nat, NEW u \in TablesWith(n), NEW i \in Indexes(t)
  PROVE  Move(t, ch, u, i) \in TablesWith(n)
<1> DEFINE j == FindEntry(u, ch, ch[t.slots[i].key])
<1>1. CASE t.slots[i] = NoEntry
  BY <1>1 DEF Move
<1>2. CASE t.slots[i] # NoEntry
  <2>1. t.slots[i] \in Slots
    BY TableFields
  <2>2. u \in Tables /\ u.cap = n /\ u.count + 1 \in Int
    BY TablesOfTyped, TableFields
  <2>3. u = [count |-> u.count, cap |-> u.cap, slots |-> u.slots]
    BY <2>2, TableFields
  <2>4. Move(t, ch, u, i) = [u EXCEPT !.slots[j] = t.slots[i], !.count = @ + 1]
    BY <1>2 DEF Move
  <2> HIDE DEF j
  <2>5. Move(t, ch, u, i) = Written(u, j, t.slots[i], u.count + 1)
    BY <2>3, <2>4 DEF Written
  <2>6. Move(t, ch, u, i) \in Tables /\ Move(t, ch, u, i).cap = n
    BY <2>1, <2>2, <2>5, WrittenTyped
  <2>7. QED
    BY <2>6, TableFields
<1>3. QED
  BY <1>1, <1>2

(* The new array after each slot of the old one. *)
LEMMA ResizeByStep ==
  ASSUME NEW t \in Tables, NEW ch, NEW n \in Nat
  PROVE  /\ ResizeSteps(t, ch, n) \in [0..t.cap -> TablesWith(n)]
         /\ ResizeSteps(t, ch, n)[0] = Fresh(n)
         /\ \A i \in Indexes(t) :
              ResizeSteps(t, ch, n)[i + 1] = Move(t, ch, ResizeSteps(t, ch, n)[i], i)
<1>0. t.cap \in Nat /\ Indexes(t) = 0..t.cap-1
  BY TableFields DEF Indexes
<1>1. Fresh(n) \in TablesWith(n)
  BY DEF Fresh, TablesWith, Slots
<1> DEFINE Eqs(f) == f = [i \in 0..t.cap |->
                           IF i = 0 THEN Fresh(n) ELSE Move(t, ch, f[i - 1], i - 1)]
           step == [p \in TablesWith(n) \X (0..t.cap-1) |-> Move(t, ch, p[1], p[2])]
<1>2. step \in [TablesWith(n) \X (0..t.cap-1) -> TablesWith(n)]
  BY <1>0, MoveTyped
<1>3. \A u \in TablesWith(n), i \in 0..t.cap-1 : step[<<u, i>>] = Move(t, ch, u, i)
  OBVIOUS
<1> HIDE DEF step
<1>4. PICK f \in [0..t.cap -> TablesWith(n)] :
             f[0] = Fresh(n) /\ \A i \in 0..t.cap-1 : f[i + 1] = step[<<f[i], i>>]
  <2> DEFINE N == t.cap
             S == TablesWith(n)
             base == Fresh(n)
  <2>1. N \in Nat /\ base \in S /\ step \in [S \X (0..N-1) -> S]
    BY <1>0, <1>1, <1>2
  <2> HIDE DEF N, S, base
  <2>2. PICK f : Iterates(f, N, S, base, step)
    BY <2>1, Recursion
  <2>3. QED
    BY <2>2 DEF N, S, base, Iterates
<1>5. Eqs(f)
  <2>1. ASSUME NEW i \in 0..t.cap-1 PROVE f[i + 1] = Move(t, ch, f[i], i)
    <3>1. f[i] \in TablesWith(n)
      BY <1>0
    <3>2. QED
      BY <1>3, <1>4, <3>1
  <2>2. ASSUME NEW i \in 0..t.cap
        PROVE  f[i] = IF i = 0 THEN Fresh(n) ELSE Move(t, ch, f[i - 1], i - 1)
    <3>1. CASE i = 0
      BY <1>4, <3>1
    <3>2. CASE i # 0
      <4>1. i - 1 \in 0..t.cap-1 /\ (i - 1) + 1 = i
        BY <1>0, <3>2
      <4>2. f[(i - 1) + 1] = Move(t, ch, f[i - 1], i - 1)
        BY <2>1, <4>1
      <4>3. QED
        BY <3>2, <4>1, <4>2
    <3>3. QED
      BY <3>1, <3>2
  <2>3. QED
    BY <2>2, Zenon
<1> DEFINE r == ResizeSteps(t, ch, n)
<1>6. r = CHOOSE g : Eqs(g)
  BY DEF ResizeSteps
<1>7. Eqs(r)
  <2> HIDE DEF r, Eqs
  <2>1. QED
    BY <1>5, <1>6
<1> HIDE DEF r
<1>8. r[0] = Fresh(n) /\ \A i \in 0..t.cap-1 : r[i + 1] = Move(t, ch, r[i], i)
  <2>1. r[0] = Fresh(n)
    BY <1>0, <1>7
  <2>2. ASSUME NEW i \in 0..t.cap-1 PROVE r[i + 1] = Move(t, ch, r[i], i)
    <3>1. i + 1 \in 0..t.cap /\ i + 1 # 0 /\ (i + 1) - 1 = i
      BY <1>0
    <3>2. r[i + 1] = Move(t, ch, r[(i + 1) - 1], (i + 1) - 1)
      BY <1>7, <3>1
    <3>3. QED
      BY <3>1, <3>2
  <2>3. QED
    BY <2>1, <2>2
<1>9. r \in [0..t.cap -> TablesWith(n)]
  <2> DEFINE G == {i \in 0..t.cap : r[i] \in TablesWith(n)}
  <2>1. 0 \in G
    BY <1>0, <1>1, <1>8
  <2>2. ASSUME NEW i \in 0..t.cap-1, i \in G PROVE i + 1 \in G
    BY <1>0, <1>8, <2>2, MoveTyped
  <2>3. \A i \in 0..t.cap : i \in G
    <3> HIDE DEF G
    <3>1. QED
      BY <1>0, <2>1, <2>2, CountingUp
  <2>4. QED
    BY <1>7, <2>3
<1>10. QED
  BY <1>0, <1>8, <1>9 DEF r

(* An entry moved is written and counted. *)
LEMMA MoveIsWrite ==
  ASSUME NEW u \in Tables, NEW t, NEW ch, NEW i, t.slots[i] # NoEntry
  PROVE  Move(t, ch, u, i) =
           Written(u, FindEntry(u, ch, ch[t.slots[i].key]), t.slots[i], u.count + 1)
<1> DEFINE j == FindEntry(u, ch, ch[t.slots[i].key])
<1>1. u = [count |-> u.count, cap |-> u.cap, slots |-> u.slots]
  BY TableFields
<1>2. Move(t, ch, u, i) = [u EXCEPT !.slots[j] = t.slots[i], !.count = @ + 1]
  BY DEF Move
<1> HIDE DEF j
<1>3. [u EXCEPT !.slots[j] = t.slots[i], !.count = @ + 1] = Written(u, j, t.slots[i], u.count + 1)
  BY <1>1 DEF Written
<1>4. QED
  BY <1>2, <1>3 DEF j

(* resize counts each entry it moves, even onto an equal key. *)
LEMMA MoveCounted ==
  ASSUME NEW t \in Tables, NEW ch, NEW u, Counted(u), NEW i \in Indexes(t)
  PROVE  /\ Counted(Move(t, ch, u, i))
         /\ Move(t, ch, u, i).cap = u.cap
         /\ Move(t, ch, u, i).count = IF i \in Occupied(t) THEN u.count + 1 ELSE u.count
<1>1. u \in Tables /\ u.count \in Nat
  BY DEF Counted
<1>2. CASE t.slots[i] = NoEntry
  BY <1>2 DEF Move, Occupied
<1>3. CASE t.slots[i] # NoEntry
  <2> DEFINE j == FindEntry(u, ch, ch[t.slots[i].key])
             k == t.slots[i].key
             v == t.slots[i].val
             n == u.count + 1
  <2>1. i \in Occupied(t)
    BY <1>3 DEF Occupied
  <2>2. k \in Keys /\ v \in Values /\ t.slots[i] = [key |-> k, val |-> v] /\ t.slots[i] \in Slots
    BY <2>1, OccupiedEntry DEF Slots
  <2>3. Move(t, ch, u, i) = Written(u, j, t.slots[i], n)
    BY <1>1, <1>3, MoveIsWrite
  <2>4. n \in Nat /\ n \in Int
    BY <1>1
  <2> HIDE DEF j, k, v
  <2>5. Counted(Written(u, j, [key |-> k, val |-> v], n))
    BY <2>2, <2>4, WrittenCounted
  <2> HIDE DEF n
  <2>6. Written(u, j, t.slots[i], n).cap = u.cap /\ Written(u, j, t.slots[i], n).count = n
    BY <1>1, <2>2, <2>4, WrittenTyped
  <2>7. QED
    BY <2>1, <2>2, <2>3, <2>5, <2>6 DEF n
<1>4. QED
  BY <1>2, <1>3

(* A resized table counts the entries there were. *)
LEMMA ResizeCounted ==
  ASSUME NEW t \in Tables, NEW ch, NEW n \in Nat
  PROVE  /\ Counted(Resize(t, ch, n)) /\ Resize(t, ch, n).cap = n
         /\ Resize(t, ch, n).count = Cardinality(Occupied(t))
<1> DEFINE r == ResizeSteps(t, ch, n)
           Before(i) == {j \in Occupied(t) : j < i}
           Good(i) == /\ Counted(r[i]) /\ r[i].cap = n
                      /\ r[i].count = Cardinality(Before(i))
           G == {i \in 0..t.cap : Good(i)}
<1>0. t.cap \in Nat /\ Indexes(t) = 0..t.cap-1 /\ Occupied(t) \subseteq 0..t.cap-1
      /\ IsFiniteSet(Occupied(t))
  BY TableFields, OccupiedFinite DEF Indexes, Occupied
<1>1. r[0] = Fresh(n) /\ \A i \in Indexes(t) : r[i + 1] = Move(t, ch, r[i], i)
  BY ResizeByStep
<1> HIDE DEF r
<1>2. 0 \in G
  <2>1. Before(0) = {}
    BY <1>0
  <2>2. QED
    <3> HIDE DEF Before
    <3>1. Good(0)
      BY <1>1, <2>1, FreshIsEmpty, FS_EmptySet
    <3>2. QED
      BY <1>0, <3>1
<1>3. ASSUME NEW i \in 0..t.cap-1, i \in G PROVE i + 1 \in G
  <2>1. r[i + 1] = Move(t, ch, r[i], i) /\ Good(i) /\ i \in Indexes(t)
    BY <1>0, <1>1, <1>3
  <2>2. /\ Counted(r[i + 1]) /\ r[i + 1].cap = n
        /\ r[i + 1].count = IF i \in Occupied(t) THEN r[i].count + 1 ELSE r[i].count
    BY <2>1, MoveCounted
  <2>3. IsFiniteSet(Before(i))
    BY <1>0, FS_Subset
  <2>4. CASE i \in Occupied(t)
    <3>1. Before(i + 1) = Before(i) \cup {i} /\ i \notin Before(i)
      BY <1>0, <2>4
    <3>2. Cardinality(Before(i + 1)) = Cardinality(Before(i)) + 1
      <4> HIDE DEF Before
      <4>1. QED
        BY <2>3, <3>1, FS_AddElement
    <3>3. QED
      BY <1>0, <2>1, <2>2, <2>4, <3>2
  <2>5. CASE i \notin Occupied(t)
    <3>1. Before(i + 1) = Before(i)
      BY <1>0, <2>5
    <3>2. Good(i + 1)
      <4> HIDE DEF Before
      <4>1. QED
        BY <2>1, <2>2, <2>5, <3>1
    <3>3. QED
      BY <1>0, <3>2
  <2>6. QED
    BY <2>4, <2>5
<1>4. t.cap \in G
  <2> HIDE DEF G
  <2>1. \A i \in 0..t.cap : i \in G
    BY <1>0, <1>2, <1>3, CountingUp
  <2>2. QED
    BY <1>0, <2>1
<1>5. Before(t.cap) = Occupied(t)
  BY <1>0
<1>6. QED
  BY <1>4, <1>5 DEF r, Resize

-----------------------------------------------------------------------------
(***************************************************************************)
(* The operations keep a table loose: a quarter of it stays empty, and so  *)
(* every probe ends, whatever happens to the keys.                         *)
(***************************************************************************)
LEMMA LooseIsTable ==
  ASSUME NEW t, Loose(t)
  PROVE  /\ t \in Tables /\ t.cap \in Nat /\ t.count \in Nat /\ t.count \in Int
         /\ Cardinality(Occupied(t)) \in Nat /\ IsFiniteSet(Occupied(t))
         /\ Cardinality(Occupied(t)) <= t.count
         /\ t.cap = 0 \/ t.cap >= MinCapacity
         /\ 4 * t.count <= 3 * t.cap
<1>1. t \in Tables /\ t.count \in Nat /\ Cardinality(Occupied(t)) <= t.count
  BY DEF Loose, Counted
<1>2. t.cap \in Nat /\ Cardinality(Occupied(t)) \in Nat /\ IsFiniteSet(Occupied(t))
  BY <1>1, TableFields, OccupiedFinite
<1>3. QED
  BY <1>1, <1>2 DEF Loose

(* A new table of an ordinary capacity is loose. *)
LEMMA FreshIsLoose ==
  ASSUME NEW n \in Nat, n = 0 \/ n >= MinCapacity
  PROVE  Loose(Fresh(n))
<1>1. Counted(Fresh(n)) /\ Fresh(n).cap = n /\ Fresh(n).count = 0
  BY FreshIsEmpty
<1>2. QED
  BY <1>1 DEF Loose

(* The probe of any key ends in a table that has slots. *)
LEMMA LooseStops ==
  ASSUME NEW t, Loose(t), t.cap > 0, NEW ch, NEW c \in Chars
  PROVE  FirstStop(t, ch, c, FindEntry(t, ch, c))
<1>1. PICK s \in Indexes(t) : t.slots[s] = NoEntry
  BY LooseRoom
<1>2. StopsAt(t, ch, c, s)
  BY <1>1 DEF StopsAt
<1>3. QED
  BY <1>2, LooseIsTable, FindEntryStops

(* Growth leaves room for one more entry. *)
LEMMA WithRoomLoose ==
  ASSUME NEW t, Loose(t), NEW ch
  PROVE  /\ Loose(WithRoom(t, ch)) /\ WithRoom(t, ch).cap > 0
         /\ WithRoom(t, ch).count <= t.count
         /\ 4 * (WithRoom(t, ch).count + 1) <= 3 * WithRoom(t, ch).cap
<1>1. /\ t \in Tables /\ t.cap \in Nat /\ t.count \in Nat
      /\ Cardinality(Occupied(t)) \in Nat /\ Cardinality(Occupied(t)) <= t.count
      /\ t.cap = 0 \/ t.cap >= MinCapacity
      /\ 4 * t.count <= 3 * t.cap
  BY LooseIsTable
<1>2. CASE ~OverLoaded(t)
  <2>1. WithRoom(t, ch) = t
    BY <1>2 DEF WithRoom
  <2>2. 4 * (t.count + 1) <= 3 * t.cap
    BY <1>1, <1>2 DEF OverLoaded
  <2>3. t.cap > 0
    BY <1>1, <2>2
  <2>4. QED
    BY <1>1, <2>1, <2>2, <2>3
<1>3. CASE OverLoaded(t)
  <2> DEFINE n == GrowCapacity(t.cap)
             r == Resize(t, ch, n)
  <2>1. n \in Nat /\ n >= MinCapacity /\ n > 0 /\ 4 * (t.count + 1) <= 3 * n
    BY <1>1, MinCapacityAssumption DEF GrowCapacity
  <2>2. WithRoom(t, ch) = r
    BY <1>3 DEF WithRoom
  <2> HIDE DEF n
  <2>3. Counted(r) /\ r.cap = n /\ r.count = Cardinality(Occupied(t))
    BY <1>1, <2>1, ResizeCounted
  <2> HIDE DEF r
  <2>4. r.count \in Nat /\ r.count <= t.count /\ 4 * (r.count + 1) <= 3 * r.cap
    BY <1>1, <2>1, <2>3
  <2>5. Loose(r)
    BY <2>1, <2>3, <2>4 DEF Loose
  <2>6. QED
    BY <2>1, <2>2, <2>3, <2>4, <2>5
<1>4. QED
  BY <1>2, <1>3

(* tableSet keeps a table loose, and has a slot for every key after it. *)
LEMMA TableSetLoose ==
  ASSUME NEW t, Loose(t), NEW ch, NEW k \in Keys, NEW v \in Values
  PROVE  /\ Loose(TableSet(t, ch, k, v))
         /\ TableSet(t, ch, k, v).cap = WithRoom(t, ch).cap
<1> DEFINE w == WithRoom(t, ch)
           p == Place(w, ch, k, v)
<1>1. Loose(w) /\ w.cap > 0 /\ 4 * (w.count + 1) <= 3 * w.cap
  BY WithRoomLoose
<1>2. Counted(w) /\ (w.cap = 0 \/ w.cap >= MinCapacity)
  BY <1>1 DEF Loose
<1> HIDE DEF w
<1>3. Counted(p) /\ p.cap = w.cap /\ p.count <= w.count + 1
  BY <1>2, PlaceCounted
<1> HIDE DEF p
<1>4. p.count \in Nat /\ w.count \in Nat /\ w.cap \in Nat
  BY <1>1, <1>3, LooseIsTable DEF Counted
<1>5. Loose(p)
  BY <1>1, <1>2, <1>3, <1>4 DEF Loose
<1>6. QED
  BY <1>3, <1>5 DEF p, w, TableSet

(* Emptying an occupied slot. *)
LEMMA VacateIsWrite ==
  ASSUME NEW t \in Tables, NEW i
  PROVE  Vacate(t, i) = Written(t, i, NoEntry, t.count - 1)
<1>1. t = [count |-> t.count, cap |-> t.cap, slots |-> t.slots]
  BY TableFields
<1>2. QED
  BY <1>1 DEF Vacate, Written

(* Taking an entry out of a loose table leaves a loose table. *)
LEMMA VacateLoose ==
  ASSUME NEW t, Loose(t), NEW i \in Occupied(t)
  PROVE  /\ Loose(Vacate(t, i)) /\ Vacate(t, i).cap = t.cap
         /\ Vacate(t, i).count = t.count - 1
         /\ Cardinality(Occupied(Vacate(t, i))) = Cardinality(Occupied(t)) - 1
<1> DEFINE u == Vacate(t, i)
           n == t.count - 1
<1>1. /\ t \in Tables /\ t.cap \in Nat /\ t.count \in Nat
      /\ Cardinality(Occupied(t)) \in Nat /\ Cardinality(Occupied(t)) <= t.count
      /\ t.cap = 0 \/ t.cap >= MinCapacity
      /\ 4 * t.count <= 3 * t.cap /\ IsFiniteSet(Occupied(t))
  BY LooseIsTable
<1>2. u = Written(t, i, NoEntry, n) /\ n \in Int /\ NoEntry \in Slots
  BY <1>1, VacateIsWrite DEF Slots
<1>3. Cardinality(Occupied(t)) # 0
  BY <1>1, FS_EmptySet
<1>4. n \in Nat
  BY <1>1, <1>3
<1>5. u \in Tables /\ u.cap = t.cap /\ u.count = n
  <2> HIDE DEF n
  <2>1. QED
    BY <1>1, <1>2, WrittenTyped
<1>6. Cardinality(Occupied(u)) = Cardinality(Occupied(t)) - 1
  <2> DEFINE e == NoEntry
  <2>1. e = NoEntry /\ e \in Slots
    BY <1>2
  <2> HIDE DEF n, e
  <2>2. Cardinality(Occupied(Written(t, i, e, n))) = Cardinality(Occupied(t)) - 1
    BY <1>1, <1>2, <2>1, WrittenCard
  <2>3. QED
    BY <1>2, <2>1, <2>2
<1> HIDE DEF u
<1>7. Loose(u)
  BY <1>1, <1>4, <1>5, <1>6 DEF Loose, Counted
<1>8. QED
  BY <1>5, <1>6, <1>7 DEF u

(* An entry that tableDelete sets again fits without growth. *)
LEMMA ReinsertLoose ==
  ASSUME NEW t, Loose(t), NEW ch, NEW i \in Occupied(t)
  PROVE  /\ Loose(Reinsert(t, ch, i)) /\ Reinsert(t, ch, i).cap = t.cap
         /\ Reinsert(t, ch, i) = Place(Vacate(t, i), ch, t.slots[i].key, t.slots[i].val)
<1> DEFINE u == Vacate(t, i)
           k == t.slots[i].key
           v == t.slots[i].val
<1>1. t \in Tables /\ t.cap \in Nat /\ t.count \in Nat /\ 4 * t.count <= 3 * t.cap
  BY LooseIsTable
<1>2. Loose(u) /\ u.cap = t.cap /\ u.count = t.count - 1
  BY VacateLoose
<1>3. k \in Keys /\ v \in Values
  BY <1>1, OccupiedEntry
<1>4. Reinsert(t, ch, i) = TableSet(u, ch, k, v)
  BY DEF Reinsert
<1> HIDE DEF u, k, v
<1>5. WithRoom(u, ch) = u
  <2>1. ~OverLoaded(u)
    BY <1>1, <1>2 DEF OverLoaded
  <2>2. QED
    BY <2>1 DEF WithRoom
<1>6. TableSet(u, ch, k, v) = Place(u, ch, k, v)
  BY <1>5 DEF TableSet
<1>7. Loose(TableSet(u, ch, k, v)) /\ TableSet(u, ch, k, v).cap = u.cap
  BY <1>2, <1>3, <1>5, TableSetLoose
<1>8. QED
  BY <1>2, <1>4, <1>6, <1>7 DEF u, k, v

-----------------------------------------------------------------------------
(***************************************************************************)
(* tableAddAll and the shift of tableDelete, step by step.                 *)
(***************************************************************************)
LooseTables == {t \in Tables : Loose(t)}

(* Setting one entry of another table leaves a loose table. *)
LEMMA AddLoose ==
  ASSUME NEW from \in Tables, NEW to \in LooseTables, NEW ch, NEW i \in Indexes(from)
  PROVE  Add(from, to, ch, i) \in LooseTables
<1>1. CASE from.slots[i] = NoEntry
  BY <1>1 DEF Add
<1>2. CASE from.slots[i] # NoEntry
  <2> DEFINE k == from.slots[i].key
             v == from.slots[i].val
  <2>1. k \in Keys /\ v \in Values
    BY <1>2, OccupiedEntry DEF Occupied
  <2>2. Add(from, to, ch, i) = TableSet(to, ch, k, v)
    BY <1>2 DEF Add
  <2> HIDE DEF k, v
  <2>3. Loose(TableSet(to, ch, k, v))
    BY <2>1, TableSetLoose DEF LooseTables
  <2>4. QED
    BY <2>2, <2>3, LooseIsTable DEF LooseTables
<1>3. QED
  BY <1>1, <1>2

(* The target after each slot of the source. *)
LEMMA AddByStep ==
  ASSUME NEW from \in Tables, NEW to \in LooseTables, NEW ch
  PROVE  /\ AddSteps(from, to, ch) \in [0..from.cap -> LooseTables]
         /\ AddSteps(from, to, ch)[0] = to
         /\ \A i \in Indexes(from) :
              AddSteps(from, to, ch)[i + 1] = Add(from, AddSteps(from, to, ch)[i], ch, i)
<1>0. from.cap \in Nat /\ Indexes(from) = 0..from.cap-1
  BY TableFields DEF Indexes
<1> DEFINE Eqs(f) == f = [i \in 0..from.cap |->
                           IF i = 0 THEN to ELSE Add(from, f[i - 1], ch, i - 1)]
           step == [p \in LooseTables \X (0..from.cap-1) |-> Add(from, p[1], ch, p[2])]
<1>1. step \in [LooseTables \X (0..from.cap-1) -> LooseTables]
  BY <1>0, AddLoose
<1>2. \A u \in LooseTables, i \in 0..from.cap-1 : step[<<u, i>>] = Add(from, u, ch, i)
  OBVIOUS
<1> HIDE DEF step
<1>3. PICK f : /\ f \in [0..from.cap -> LooseTables] /\ f[0] = to
               /\ \A i \in 0..from.cap-1 : f[i + 1] = step[<<f[i], i>>]
  <2> DEFINE N == from.cap
  <2>1. N \in Nat /\ to \in LooseTables /\ step \in [LooseTables \X (0..N-1) -> LooseTables]
    BY <1>0, <1>1
  <2> HIDE DEF N
  <2>2. PICK f : Iterates(f, N, LooseTables, to, step)
    BY <2>1, Recursion
  <2>3. QED
    BY <2>2 DEF N, Iterates
<1>4. Eqs(f)
  <2>1. ASSUME NEW i \in 0..from.cap-1 PROVE f[i + 1] = Add(from, f[i], ch, i)
    <3>1. f[i] \in LooseTables
      BY <1>0, <1>3
    <3>2. QED
      BY <1>2, <1>3, <3>1
  <2>2. ASSUME NEW i \in 0..from.cap
        PROVE  f[i] = IF i = 0 THEN to ELSE Add(from, f[i - 1], ch, i - 1)
    <3>1. CASE i = 0
      BY <1>3, <3>1
    <3>2. CASE i # 0
      <4>1. i - 1 \in 0..from.cap-1 /\ (i - 1) + 1 = i
        BY <1>0, <3>2
      <4>2. f[(i - 1) + 1] = Add(from, f[i - 1], ch, i - 1)
        BY <2>1, <4>1
      <4>3. QED
        BY <3>2, <4>1, <4>2
    <3>3. QED
      BY <3>1, <3>2
  <2>3. QED
    BY <1>3, <2>2, Zenon
<1> DEFINE r == AddSteps(from, to, ch)
<1>5. r = CHOOSE g : Eqs(g)
  BY DEF AddSteps
<1>6. Eqs(r)
  <2> HIDE DEF r, Eqs
  <2>1. QED
    BY <1>4, <1>5
<1> HIDE DEF r
<1>7. r[0] = to
  BY <1>0, <1>6
<1>8. ASSUME NEW i \in 0..from.cap-1 PROVE r[i + 1] = Add(from, r[i], ch, i)
  <2>1. i + 1 \in 0..from.cap /\ i + 1 # 0 /\ (i + 1) - 1 = i
    BY <1>0
  <2>2. r[i + 1] = Add(from, r[(i + 1) - 1], ch, (i + 1) - 1)
    BY <1>6, <2>1
  <2>3. QED
    BY <2>1, <2>2
<1>9. r \in [0..from.cap -> LooseTables]
  <2> DEFINE G == {i \in 0..from.cap : r[i] \in LooseTables}
  <2>1. 0 \in G
    BY <1>0, <1>7
  <2>2. ASSUME NEW i \in 0..from.cap-1, i \in G PROVE i + 1 \in G
    BY <1>0, <1>8, <2>2, AddLoose
  <2>3. \A i \in 0..from.cap : i \in G
    <3> HIDE DEF G
    <3>1. QED
      BY <1>0, <2>1, <2>2, CountingUp
  <2>4. QED
    BY <1>6, <2>3
<1>10. QED
  BY <1>0, <1>7, <1>8, <1>9 DEF r

(* dup, mergeWith and rehash end in a loose table. *)
LEMMA AddAllLoose ==
  ASSUME NEW from \in Tables, NEW to, Loose(to), NEW ch
  PROVE  Loose(AddAll(from, to, ch))
<1>1. to \in LooseTables
  BY LooseIsTable DEF LooseTables
<1>2. from.cap \in 0..from.cap
  BY TableFields
<1>3. AddSteps(from, to, ch) \in [0..from.cap -> LooseTables]
  BY <1>1, AddByStep
<1>4. QED
  BY <1>2, <1>3 DEF AddAll, LooseTables

-----------------------------------------------------------------------------
\* The slot d after a hole, round the table.
After(n, hole, d) == (hole + d) % n

(* The slots after a hole go once round the table. *)
LEMMA AfterHole ==
  ASSUME NEW n \in Nat, NEW hole \in 0..n-1, NEW d \in 1..n
  PROVE  /\ After(n, hole, d) \in 0..n-1
         /\ d < n => Round(n, hole, After(n, hole, d)) = d
         /\ d = n => After(n, hole, d) = hole
<1> DEFINE a == hole + d
<1>1. a \in Nat /\ a < 2 * n /\ n > 0
  OBVIOUS
<1> HIDE DEF a
<1>2. a % n = IF a < n THEN a ELSE a - n
  <2>1. CASE a < n
    BY <1>1, <2>1, ModSmall
  <2>2. CASE ~(a < n)
    <3>1. n <= a
      BY <1>1, <2>2
    <3>2. QED
      BY <1>1, <2>2, <3>1, ModSmall
  <2>3. QED
    BY <2>1, <2>2
<1>3. After(n, hole, d) = a % n
  BY Zenon DEF a, After
<1>4. After(n, hole, d) = IF a < n THEN a ELSE a - n
  BY <1>2, <1>3, Zenon
<1>5. QED
  BY <1>1, <1>4 DEF a, Round

\* The states of tableDelete's loop over a table of n slots.
ShiftStates(n) == [tbl : {u \in LooseTables : u.cap = n}, done : BOOLEAN]

(* One round of tableDelete's loop leaves a state of that loop. *)
LEMMA VisitTyped ==
  ASSUME NEW n \in Nat, NEW acc \in ShiftStates(n), NEW ch, NEW i \in 0..n-1
  PROVE  Visit(acc, ch, i) \in ShiftStates(n)
<1> DEFINE t == acc.tbl
<1>1. t \in Tables /\ Loose(t) /\ t.cap = n /\ acc.done \in BOOLEAN
      /\ acc = [tbl |-> t, done |-> acc.done]
  BY DEF ShiftStates, LooseTables
<1>2. CASE acc.done
  BY <1>2 DEF Visit
<1>3. CASE ~acc.done /\ t.slots[i] = NoEntry
  <2>1. Visit(acc, ch, i) = [acc EXCEPT !.done = TRUE]
    BY <1>3 DEF Visit
  <2>2. QED
    BY <2>1 DEF ShiftStates
<1>4. CASE ~acc.done /\ t.slots[i] # NoEntry
  <2>1. Visit(acc, ch, i) = [acc EXCEPT !.tbl = Reinsert(@, ch, i)]
    BY <1>4 DEF Visit
  <2>2. i \in Occupied(t)
    BY <1>1, <1>4 DEF Occupied, Indexes
  <2>3. Loose(Reinsert(t, ch, i)) /\ Reinsert(t, ch, i).cap = n
    BY <1>1, <2>2, ReinsertLoose
  <2>4. Reinsert(t, ch, i) \in {u \in LooseTables : u.cap = n}
    BY <2>3, LooseIsTable DEF LooseTables
  <2>5. QED
    BY <1>1, <2>1, <2>4 DEF ShiftStates
<1>5. QED
  BY <1>2, <1>3, <1>4

(* tableDelete's table after each slot that follows the hole. *)
LEMMA ShiftByStep ==
  ASSUME NEW t, Loose(t), NEW ch, NEW hole \in Indexes(t)
  PROVE  /\ ShiftSteps(t, ch, hole) \in [0..t.cap -> ShiftStates(t.cap)]
         /\ ShiftSteps(t, ch, hole)[0] = [tbl |-> t, done |-> FALSE]
         /\ \A d \in 0..t.cap-1 :
              ShiftSteps(t, ch, hole)[d + 1] =
                Visit(ShiftSteps(t, ch, hole)[d], ch, After(t.cap, hole, d + 1))
<1> DEFINE base == [tbl |-> t, done |-> FALSE]
           S == ShiftStates(t.cap)
           Go(u, d) == Visit(u, ch, (hole + (d + 1)) % t.cap)
<1>0. t.cap \in Nat /\ t.cap > 0 /\ hole \in 0..t.cap-1 /\ t \in Tables
  BY LooseIsTable DEF Indexes
<1>1. base \in S
  BY <1>0 DEF ShiftStates, LooseTables
<1>2. ASSUME NEW u \in S, NEW d \in 0..t.cap-1 PROVE Go(u, d) \in S
  <2> DEFINE a == After(t.cap, hole, d + 1)
  <2>1. d + 1 \in 1..t.cap
    BY <1>0
  <2>2. a \in 0..t.cap-1
    BY <1>0, <2>1, AfterHole
  <2>3. Go(u, d) = Visit(u, ch, a)
    BY DEF After
  <2> HIDE DEF a
  <2>4. QED
    BY <1>0, <2>2, <2>3, VisitTyped
<1> DEFINE Eqs(f) == f = [d \in 0..t.cap |->
                           IF d = 0 THEN base ELSE Visit(f[d - 1], ch, (hole + d) % t.cap)]
           step == [p \in S \X (0..t.cap-1) |-> Go(p[1], p[2])]
<1>3. step \in [S \X (0..t.cap-1) -> S] /\ \A u \in S, d \in 0..t.cap-1 : step[<<u, d>>] = Go(u, d)
  <2> HIDE DEF Go, S
  <2>1. QED
    BY <1>2
<1> HIDE DEF step
<1>4. PICK f : /\ f \in [0..t.cap -> S] /\ f[0] = base
               /\ \A d \in 0..t.cap-1 : f[d + 1] = step[<<f[d], d>>]
  <2> DEFINE N == t.cap
  <2>1. N \in Nat /\ base \in S /\ step \in [S \X (0..N-1) -> S]
    BY <1>0, <1>1, <1>3
  <2> HIDE DEF N, S, base
  <2>2. PICK f : Iterates(f, N, S, base, step)
    BY <2>1, Recursion
  <2>3. QED
    BY <2>2 DEF N, Iterates
<1> HIDE DEF S, base
<1>5. Eqs(f)
  <2>1. ASSUME NEW d \in 0..t.cap-1 PROVE f[d + 1] = Go(f[d], d)
    <3> HIDE DEF Go
    <3>1. f[d] \in S
      BY <1>0, <1>4
    <3>2. QED
      BY <1>3, <1>4, <3>1
  <2>2. ASSUME NEW d \in 0..t.cap
        PROVE  f[d] = IF d = 0 THEN base ELSE Visit(f[d - 1], ch, (hole + d) % t.cap)
    <3>1. CASE d = 0
      BY <1>4, <3>1
    <3>2. CASE d # 0
      <4>1. d - 1 \in 0..t.cap-1 /\ (d - 1) + 1 = d
        BY <1>0, <3>2
      <4>2. f[(d - 1) + 1] = Visit(f[d - 1], ch, (hole + ((d - 1) + 1)) % t.cap)
        BY <2>1, <4>1
      <4>3. QED
        BY <3>2, <4>1, <4>2
    <3>3. QED
      BY <3>1, <3>2
  <2>3. QED
    BY <1>4, <2>2, Zenon
<1> DEFINE r == ShiftSteps(t, ch, hole)
<1>6. r = CHOOSE g : Eqs(g)
  BY DEF ShiftSteps, base
<1>7. Eqs(r)
  <2> HIDE DEF r, Eqs
  <2>1. QED
    BY <1>5, <1>6
<1> HIDE DEF r
<1>8. r[0] = base
  BY <1>0, <1>7
<1>9. ASSUME NEW d \in 0..t.cap-1 PROVE r[d + 1] = Go(r[d], d)
  <2>1. d + 1 \in 0..t.cap /\ d + 1 # 0 /\ (d + 1) - 1 = d
    BY <1>0
  <2>2. r[d + 1] = Visit(r[(d + 1) - 1], ch, (hole + (d + 1)) % t.cap)
    BY <1>7, <2>1
  <2>3. QED
    BY <2>1, <2>2
<1>10. r \in [0..t.cap -> S]
  <2> DEFINE G == {d \in 0..t.cap : r[d] \in S}
  <2>1. 0 \in G
    BY <1>0, <1>1, <1>8
  <2>2. ASSUME NEW d \in 0..t.cap-1, d \in G PROVE d + 1 \in G
    <3> HIDE DEF Go
    <3>1. QED
      BY <1>0, <1>2, <1>9, <2>2
  <2>3. \A d \in 0..t.cap : d \in G
    <3> HIDE DEF G
    <3>1. QED
      BY <1>0, <2>1, <2>2, CountingUp
  <2>4. QED
    BY <1>7, <2>3
<1>11. QED
  BY <1>8, <1>9, <1>10 DEF r, base, S, After

(* tableDelete's loop leaves a loose table of the same capacity. *)
LEMMA ShiftUpLoose ==
  ASSUME NEW t, Loose(t), NEW ch, NEW hole \in Indexes(t)
  PROVE  Loose(ShiftUp(t, ch, hole)) /\ ShiftUp(t, ch, hole).cap = t.cap
<1>1. ShiftSteps(t, ch, hole) \in [0..t.cap -> ShiftStates(t.cap)]
  BY ShiftByStep
<1>2. t.cap \in 0..t.cap
  BY LooseIsTable
<1>3. ShiftSteps(t, ch, hole)[t.cap] \in ShiftStates(t.cap)
  BY <1>1, <1>2
<1>4. QED
  BY <1>3 DEF ShiftUp, ShiftStates, LooseTables

(* tableDelete keeps a table loose, and its capacity. *)
LEMMA TableDeleteLoose ==
  ASSUME NEW t, Loose(t), NEW ch, NEW c \in Chars
  PROVE  Loose(TableDelete(t, ch, c)) /\ TableDelete(t, ch, c).cap = t.cap
<1>1. CASE t.count = 0 \/ ~Has(t, ch, c)
  BY <1>1 DEF TableDelete
<1>2. CASE ~(t.count = 0 \/ ~Has(t, ch, c))
  <2> DEFINE i == FindEntry(t, ch, c)
  <2>1. t.cap > 0 /\ t.slots[i] # NoEntry
    BY <1>2 DEF Has
  <2>2. i \in Occupied(t)
    BY <2>1, LooseStops DEF FirstStop, Occupied
  <2>3. TableDelete(t, ch, c) = ShiftUp(Vacate(t, i), ch, i)
    BY <1>2 DEF TableDelete
  <2> HIDE DEF i
  <2>4. Loose(Vacate(t, i)) /\ Vacate(t, i).cap = t.cap /\ i \in Indexes(Vacate(t, i))
    BY <2>2, VacateLoose DEF Occupied, Indexes
  <2>5. QED
    BY <2>3, <2>4, ShiftUpLoose
<1>3. QED
  BY <1>1, <1>2

-----------------------------------------------------------------------------
(***************************************************************************)
(* The n-th entry, which tableNthEntry finds.                              *)
(***************************************************************************)
Below(t, i) == {j \in Occupied(t) : j < i}

(* The number of entries below a slot grows by one at each entry. *)
LEMMA BelowCounts ==
  ASSUME NEW t \in Tables
  PROVE  /\ Cardinality(Below(t, 0)) = 0
         /\ Below(t, t.cap) = Occupied(t)
         /\ \A i \in 0..t.cap : Cardinality(Below(t, i)) \in Nat
         /\ \A i \in Occupied(t) : Cardinality(Below(t, i + 1)) = Cardinality(Below(t, i)) + 1
         /\ \A i \in Indexes(t) \ Occupied(t) : Below(t, i + 1) = Below(t, i)
<1>0. t.cap \in Nat /\ Indexes(t) = 0..t.cap-1 /\ Occupied(t) \subseteq 0..t.cap-1
      /\ IsFiniteSet(Occupied(t))
  BY TableFields, OccupiedFinite DEF Indexes, Occupied
<1>1. Cardinality(Below(t, 0)) = 0
  <2>1. Below(t, 0) = {}
    BY <1>0 DEF Below
  <2>2. QED
    BY <2>1, FS_EmptySet
<1>2. Below(t, t.cap) = Occupied(t)
  BY <1>0 DEF Below
<1>3. \A i : IsFiniteSet(Below(t, i)) /\ Cardinality(Below(t, i)) \in Nat
  BY <1>0, FS_Subset, FS_CardinalityType DEF Below
<1>4. ASSUME NEW i \in Occupied(t)
      PROVE  Cardinality(Below(t, i + 1)) = Cardinality(Below(t, i)) + 1
  <2>1. Below(t, i + 1) = Below(t, i) \cup {i} /\ i \notin Below(t, i)
    BY <1>0 DEF Below
  <2>2. QED
    BY <1>3, <2>1, FS_AddElement
<1>5. \A i \in Indexes(t) \ Occupied(t) : Below(t, i + 1) = Below(t, i)
  BY <1>0 DEF Below
<1>6. QED
  BY <1>1, <1>2, <1>3, <1>4, <1>5

(* Below each number of entries there is one slot that has so many before it. *)
LEMMA NthExists ==
  ASSUME NEW t \in Tables, NEW n \in Nat, HasNth(t, n)
  PROVE  \E i \in Occupied(t) : Cardinality(Below(t, i)) = n
<1> SUFFICES ASSUME \A i \in Occupied(t) : Cardinality(Below(t, i)) # n PROVE FALSE
  OBVIOUS
<1> DEFINE C(i) == Cardinality(Below(t, i))
           G == {i \in 0..t.cap : C(i) <= n}
<1>0. t.cap \in Nat /\ Indexes(t) = 0..t.cap-1 /\ Occupied(t) \subseteq 0..t.cap-1
  BY TableFields DEF Indexes, Occupied
<1>1. C(0) = 0 /\ C(t.cap) = Cardinality(Occupied(t)) /\ \A i \in 0..t.cap : C(i) \in Nat
  BY BelowCounts
<1>2. \A i \in Occupied(t) : C(i + 1) = C(i) + 1
  BY BelowCounts
<1>3. \A i \in Indexes(t) \ Occupied(t) : C(i + 1) = C(i)
  BY BelowCounts
<1>4. \A i \in Occupied(t) : C(i) # n
  OBVIOUS
<1> HIDE DEF C
<1>5. 0 \in G
  BY <1>0, <1>1
<1>6. ASSUME NEW i \in 0..t.cap-1, i \in G PROVE i + 1 \in G
  <2>1. C(i) \in Nat /\ C(i) <= n /\ i + 1 \in 0..t.cap /\ i \in 0..t.cap
    BY <1>0, <1>1, <1>6
  <2>2. C(i + 1) <= n
    <3>1. CASE i \in Occupied(t)
      BY <1>2, <1>4, <2>1, <3>1
    <3>2. CASE i \notin Occupied(t)
      BY <1>0, <1>3, <2>1, <3>2
    <3>3. QED
      BY <3>1, <3>2
  <2>3. QED
    BY <2>1, <2>2
<1>7. t.cap \in G
  <2> HIDE DEF G
  <2>1. \A i \in 0..t.cap : i \in G
    BY <1>0, <1>5, <1>6, CountingUp
  <2>2. QED
    BY <1>0, <2>1
<1>8. n < Cardinality(Occupied(t)) /\ Cardinality(Occupied(t)) <= n
  BY <1>1, <1>7 DEF HasNth
<1>9. QED
  BY <1>1, <1>8, OccupiedFinite

(* Two occupied slots have different numbers of entries before them. *)
LEMMA NthUnique ==
  ASSUME NEW t \in Tables, NEW i \in Occupied(t), NEW j \in Occupied(t),
         Cardinality(Below(t, i)) = Cardinality(Below(t, j))
  PROVE  i = j
<1>0. t.cap \in Nat /\ Occupied(t) \subseteq 0..t.cap-1 /\ IsFiniteSet(Occupied(t))
  BY TableFields, OccupiedFinite DEF Indexes, Occupied
<1>1. ASSUME NEW a \in Occupied(t), NEW b \in Occupied(t), a < b
      PROVE  Cardinality(Below(t, a)) # Cardinality(Below(t, b))
  <2>1. Below(t, a) \cup {a} \subseteq Below(t, b) /\ a \notin Below(t, a)
    BY <1>0, <1>1 DEF Below
  <2>2. IsFiniteSet(Below(t, a)) /\ IsFiniteSet(Below(t, b))
    BY <1>0, FS_Subset DEF Below
  <2>3. Below(t, b) # Below(t, a) /\ Below(t, a) \in SUBSET Below(t, b)
    BY <2>1
  <2>4. QED
    BY <2>2, <2>3, FS_Subset
<1>2. QED
  BY <1>0, <1>1

(* The n-th entry is an entry. *)
LEMMA NthEntryIs ==
  ASSUME NEW t \in Tables, NEW n \in Nat, HasNth(t, n)
  PROVE  \E i \in Occupied(t) : Cardinality(Below(t, i)) = n /\ NthEntry(t, n) = t.slots[i]
<1> DEFINE i == CHOOSE j \in Occupied(t) : Cardinality(Below(t, j)) = n
<1>1. i \in Occupied(t) /\ Cardinality(Below(t, i)) = n
  BY NthExists
<1>2. NthEntry(t, n) = t.slots[i]
  BY DEF NthEntry, Below
<1>3. QED
  BY <1>1, <1>2

-----------------------------------------------------------------------------
(***************************************************************************)
(* Tables whose probes find every entry and whose count is exact.          *)
(***************************************************************************)
CharsAt(t, ch, i) == ch[t.slots[i].key]
EntriesOf(t) == {t.slots[i] : i \in Occupied(t)}

Reached(t, ch) == \A i \in Occupied(t) : FirstStop(t, ch, CharsAt(t, ch, i), i)

Sound(t, ch) ==
  /\ t \in Tables
  /\ t.count = Cardinality(Occupied(t))
  /\ Reached(t, ch)

Tight(t, ch) == Loose(t) /\ Sound(t, ch)

(* Distances depend on the capacity alone. *)
LEMMA SameDist ==
  ASSUME NEW t, NEW u, t.cap = u.cap
  PROVE  \A c, i : Dist(t, c, i) = Dist(u, c, i)
BY DEF Dist, Home

(* The key of an entry has characters. *)
LEMMA CharsAtTyped ==
  ASSUME NEW t \in Tables, NEW ch \in KeyChars, NEW i \in Occupied(t)
  PROVE  CharsAt(t, ch, i) \in Chars
BY OccupiedEntry DEF CharsAt, KeyChars

(* Two first stops of one probe are one slot. *)
LEMMA FirstStopUnique ==
  ASSUME NEW t \in Tables, NEW ch, NEW c \in Chars, NEW i, NEW j,
         FirstStop(t, ch, c, i), FirstStop(t, ch, c, j)
  PROVE  i = j
<1>1. FindEntry(t, ch, c) = i
  BY FindEntryIs
<1>2. FindEntry(t, ch, c) = j
  BY FindEntryIs
<1>3. QED
  BY <1>1, <1>2

(* No two entries have the same characters. *)
LEMMA SoundUnique ==
  ASSUME NEW ch \in KeyChars, NEW t, Sound(t, ch), NEW i \in Occupied(t), NEW j \in Occupied(t),
         CharsAt(t, ch, i) = CharsAt(t, ch, j)
  PROVE  i = j
<1>1. t \in Tables /\ FirstStop(t, ch, CharsAt(t, ch, i), i) /\ FirstStop(t, ch, CharsAt(t, ch, j), j)
  BY DEF Sound, Reached
<1>2. CharsAt(t, ch, i) \in Chars
  BY <1>1, CharsAtTyped
<1>3. QED
  BY <1>1, <1>2, FirstStopUnique

(* The probe for an entry's characters finds the entry. *)
LEMMA SoundFinds ==
  ASSUME NEW ch \in KeyChars, NEW t, Sound(t, ch), NEW i \in Occupied(t)
  PROVE  FindEntry(t, ch, CharsAt(t, ch, i)) = i
BY CharsAtTyped, FindEntryIs DEF Sound, Reached

(* A new table is sound. *)
LEMMA FreshIsSound ==
  ASSUME NEW n \in Nat, NEW ch
  PROVE  Sound(Fresh(n), ch) /\ EntriesOf(Fresh(n)) = {}
<1>1. Fresh(n) \in Tables /\ Fresh(n).count = 0 /\ Occupied(Fresh(n)) = {}
  BY FreshIsEmpty
<1>2. QED
  BY <1>1, FS_EmptySet DEF Sound, Reached, EntriesOf

(* Where a probe first stops, an entry with the sought characters lies, or *)
(* there is none. *)
LEMMA StopsAtOnly ==
  ASSUME NEW ch \in KeyChars, NEW t, Sound(t, ch), NEW c \in Chars, NEW i, FirstStop(t, ch, c, i),
         NEW j \in Occupied(t), CharsAt(t, ch, j) = c
  PROVE  i = j
<1>1. t \in Tables /\ FirstStop(t, ch, c, j)
  BY DEF Sound, Reached
<1>2. QED
  BY <1>1, FirstStopUnique

(* Writing an entry where the probe for its characters first stops keeps   *)
(* every other entry within reach. *)
LEMMA WriteReached ==
  ASSUME NEW ch \in KeyChars, NEW t, Sound(t, ch), NEW k \in Keys, NEW v \in Values, NEW i,
         FirstStop(t, ch, ch[k], i), NEW n \in Int
  PROVE  Reached(Written(t, i, [key |-> k, val |-> v], n), ch)
<1> DEFINE e == [key |-> k, val |-> v]
           w == Written(t, i, e, n)
           c == ch[k]
<1>1. t \in Tables /\ e \in Slots /\ e # NoEntry /\ e.key = k /\ c \in Chars /\ i \in Indexes(t)
  BY EntryIsEntry DEF Sound, FirstStop, KeyChars
<1> HIDE DEF e
<1>2. w \in Tables /\ w.cap = t.cap /\ Indexes(w) = Indexes(t)
  BY <1>1, WrittenTyped
<1>3. \A j \in Indexes(t) : w.slots[j] = IF j = i THEN e ELSE t.slots[j]
  BY <1>1, WrittenSlot
<1>4. Occupied(w) = Occupied(t) \cup {i}
  BY <1>1, WrittenOccupied
<1> HIDE DEF w, c
<1>5. \A d, j : Dist(w, d, j) = Dist(t, d, j)
  BY <1>2, SameDist
<1>6. FirstStop(w, ch, CharsAt(w, ch, i), i)
  <2>1. CharsAt(w, ch, i) = c
    BY <1>1, <1>3 DEF CharsAt, c
  <2>2. StopsAt(w, ch, c, i)
    BY <1>1, <1>3 DEF StopsAt, c
  <2>3. ASSUME NEW j \in Indexes(t), Dist(w, c, j) < Dist(w, c, i) PROVE ~StopsAt(w, ch, c, j)
    <3>1. ~StopsAt(t, ch, c, j)
      BY <1>5, <2>3 DEF FirstStop, c
    <3>2. Dist(t, c, i) \in Indexes(t) /\ t.cap \in Nat
      BY <1>1, SlotOfDist, TableFields
    <3>3. j # i
      BY <1>5, <2>3, <3>2 DEF Indexes
    <3>4. w.slots[j] = t.slots[j]
      BY <1>3, <3>3
    <3>5. QED
      BY <3>1, <3>4 DEF StopsAt
  <2>4. QED
    BY <1>1, <1>2, <2>1, <2>2, <2>3 DEF FirstStop
<1>7. ASSUME NEW j \in Occupied(t), j # i PROVE FirstStop(w, ch, CharsAt(w, ch, j), j)
  <2> DEFINE b == CharsAt(t, ch, j)
  <2>1. j \in Indexes(t) /\ t.slots[j] # NoEntry /\ FirstStop(t, ch, b, j) /\ b \in Chars
    BY <1>1, CharsAtTyped DEF Sound, Reached, Occupied
  <2>2. w.slots[j] = t.slots[j] /\ CharsAt(w, ch, j) = b
    BY <1>3, <1>7, <2>1 DEF CharsAt
  <2>3. b # c
    BY <1>1, <1>7, StopsAtOnly DEF c
  <2> HIDE DEF b
  <2>4. StopsAt(w, ch, b, j)
    BY <2>1, <2>2 DEF StopsAt, FirstStop
  <2>5. ASSUME NEW l \in Indexes(t), Dist(w, b, l) < Dist(w, b, j) PROVE ~StopsAt(w, ch, b, l)
    <3>1. ~StopsAt(t, ch, b, l)
      BY <1>5, <2>1, <2>5 DEF FirstStop
    <3>2. CASE l = i
      BY <1>1, <1>3, <2>3, <3>2 DEF StopsAt, c
    <3>3. CASE l # i
      BY <1>3, <3>1, <3>3 DEF StopsAt
    <3>4. QED
      BY <3>2, <3>3
  <2>6. QED
    BY <1>2, <2>1, <2>2, <2>4, <2>5 DEF FirstStop
<1>8. Reached(w, ch)
  BY <1>4, <1>6, <1>7 DEF Reached
<1>9. QED
  BY <1>8 DEF w, e

\* The entries whose key has other characters than c.
Others(t, ch, c) == {e \in EntriesOf(t) : ch[e.key] # c}

(* tableSet on a table with room: the entry takes the place of one with    *)
(* equal characters, or is counted. *)
LEMMA PlaceSound ==
  ASSUME NEW ch \in KeyChars, NEW t, Sound(t, ch), NEW k \in Keys, NEW v \in Values,
         NEW s \in Indexes(t), t.slots[s] = NoEntry
  PROVE  /\ Sound(Place(t, ch, k, v), ch)
         /\ EntriesOf(Place(t, ch, k, v)) = Others(t, ch, ch[k]) \cup {[key |-> k, val |-> v]}
         /\ Place(t, ch, k, v).cap = t.cap
         /\ Place(t, ch, k, v).count =
              IF \E j \in Occupied(t) : CharsAt(t, ch, j) = ch[k] THEN t.count ELSE t.count + 1
<1> DEFINE c == ch[k]
           i == FindEntry(t, ch, c)
           e == [key |-> k, val |-> v]
           n == IF t.slots[i] = NoEntry THEN t.count + 1 ELSE t.count
           w == Written(t, i, e, n)
<1>1. t \in Tables /\ e \in Slots /\ e # NoEntry /\ e.key = k /\ c \in Chars
  BY EntryIsEntry DEF Sound, KeyChars
<1>2. t.count = Cardinality(Occupied(t)) /\ t.count \in Int /\ n \in Int
  BY <1>1, TableFields DEF Sound
<1>3. FirstStop(t, ch, c, i)
  <2>1. StopsAt(t, ch, c, s)
    BY DEF StopsAt
  <2>2. QED
    BY <1>1, <2>1, FindEntryStops
<1>4. i \in Indexes(t)
  BY <1>3 DEF FirstStop
<1>5. Place(t, ch, k, v) = w
  BY <1>1, PlaceIsWrite
<1>6. Reached(w, ch)
  <2> HIDE DEF i, n
  <2>1. QED
    BY <1>2, <1>3, WriteReached
<1> HIDE DEF i, e
<1>7. w \in Tables /\ w.cap = t.cap /\ w.count = n /\ Indexes(w) = Indexes(t)
  <2> HIDE DEF n
  <2>1. QED
    BY <1>1, <1>2, WrittenTyped
<1>8. w.count = Cardinality(Occupied(w))
  <2>1. CASE t.slots[i] = NoEntry
    <3>1. n = t.count + 1
      BY <2>1
    <3> HIDE DEF n
    <3>2. Cardinality(Occupied(w)) = Cardinality(Occupied(t)) + 1
      BY <1>1, <1>2, <1>4, <2>1, WrittenCard
    <3>3. QED
      BY <1>2, <1>7, <3>1, <3>2
  <2>2. CASE t.slots[i] # NoEntry
    <3>1. n = t.count
      BY <2>2
    <3> HIDE DEF n
    <3>2. Cardinality(Occupied(w)) = Cardinality(Occupied(t))
      BY <1>1, <1>2, <2>2, WrittenCard
    <3>3. QED
      BY <1>2, <1>7, <3>1, <3>2
  <2>3. QED
    BY <2>1, <2>2
<1>9. \A j \in Occupied(t) : CharsAt(t, ch, j) = c <=> j = i
  <2>1. \A j \in Occupied(t) : CharsAt(t, ch, j) = c => j = i
    BY <1>1, <1>3, StopsAtOnly
  <2>2. i \in Occupied(t) => CharsAt(t, ch, i) = c
    BY <1>3 DEF FirstStop, StopsAt, CharsAt, Occupied
  <2>3. QED
    BY <2>1, <2>2
<1>10. Occupied(w) = Occupied(t) \cup {i}
  <2> HIDE DEF n
  <2>1. QED
    BY <1>1, <1>2, <1>4, WrittenOccupied
<1>11. \A j \in Indexes(t) : w.slots[j] = IF j = i THEN e ELSE t.slots[j]
  <2> HIDE DEF n
  <2>1. QED
    BY <1>1, <1>2, WrittenSlot
<1>12. EntriesOf(w) = Others(t, ch, c) \cup {e}
  <2> HIDE DEF w, c
  <2>1. Occupied(t) \subseteq Indexes(t)
    BY DEF Occupied
  <2>2. EntriesOf(w) = {w.slots[j] : j \in Occupied(t) \ {i}} \cup {w.slots[i]}
    BY <1>10 DEF EntriesOf
  <2>3. {w.slots[j] : j \in Occupied(t) \ {i}} = {t.slots[j] : j \in Occupied(t) \ {i}}
    BY <1>11, <2>1
  <2>4. {t.slots[j] : j \in Occupied(t) \ {i}} = Others(t, ch, c)
    BY <1>9 DEF Others, EntriesOf, CharsAt
  <2>5. QED
    BY <1>4, <1>11, <2>2, <2>3, <2>4
<1>13. n = IF \E j \in Occupied(t) : CharsAt(t, ch, j) = c THEN t.count ELSE t.count + 1
  BY <1>4, <1>9 DEF Occupied
<1>14. Sound(w, ch)
  BY <1>6, <1>7, <1>8 DEF Sound
<1>15. QED
  BY <1>5, <1>7, <1>12, <1>13, <1>14 DEF e

EntriesBelow(t, i) == {t.slots[j] : j \in Below(t, i)}

(* resize's loop body, which counts without looking, on an entry that is   *)
(* not yet in the new table. *)
LEMMA MoveSound ==
  ASSUME NEW ch \in KeyChars, NEW t, Sound(t, ch), NEW i \in Occupied(t),
         NEW u, Sound(u, ch), EntriesOf(u) = EntriesBelow(t, i),
         NEW s \in Indexes(u), u.slots[s] = NoEntry
  PROVE  /\ Sound(Move(t, ch, u, i), ch)
         /\ Move(t, ch, u, i).cap = u.cap
         /\ Move(t, ch, u, i).count = u.count + 1
         /\ EntriesOf(Move(t, ch, u, i)) = EntriesBelow(t, i + 1)
<1> DEFINE k == t.slots[i].key
           v == t.slots[i].val
           c == ch[k]
           f == FindEntry(u, ch, c)
           p == Place(u, ch, k, v)
<1>1. /\ t \in Tables /\ u \in Tables /\ t.cap \in Nat /\ i \in 0..t.cap-1
      /\ Occupied(t) \subseteq 0..t.cap-1 /\ t.slots[i] # NoEntry
      /\ k \in Keys /\ v \in Values /\ t.slots[i] = [key |-> k, val |-> v]
      /\ c \in Chars
  BY OccupiedEntry, TableFields DEF Sound, Occupied, Indexes, KeyChars
<1>2. \A e \in EntriesOf(u) : ch[e.key] # c
  <2>1. ASSUME NEW j \in Below(t, i) PROVE ch[t.slots[j].key] # c
    <3>1. j \in Occupied(t) /\ j # i
      BY <1>1 DEF Below
    <3>2. CharsAt(t, ch, j) # CharsAt(t, ch, i)
      BY <3>1, SoundUnique
    <3>3. QED
      BY <3>2 DEF CharsAt
  <2>2. QED
    BY <2>1 DEF EntriesBelow
<1>3. \A j \in Occupied(u) : CharsAt(u, ch, j) # c
  BY <1>2 DEF EntriesOf, CharsAt
<1>4. u.slots[f] = NoEntry
  <2>1. StopsAt(u, ch, c, s)
    BY DEF StopsAt
  <2>2. FirstStop(u, ch, c, f)
    BY <1>1, <2>1, FindEntryStops
  <2> HIDE DEF f, c
  <2>3. QED
    BY <1>3, <2>2 DEF FirstStop, StopsAt, Occupied, CharsAt
<1>5. Move(t, ch, u, i) = p
  <2>1. p = Written(u, f, [key |-> k, val |-> v], IF u.slots[f] = NoEntry THEN u.count + 1 ELSE u.count)
    BY <1>1, PlaceIsWrite
  <2>2. Move(t, ch, u, i) = Written(u, f, t.slots[i], u.count + 1)
    BY <1>1, MoveIsWrite
  <2> HIDE DEF p, f, k, v
  <2>3. QED
    BY <1>1, <1>4, <2>1, <2>2
<1> HIDE DEF k, v
<1>6. /\ Sound(p, ch) /\ p.cap = u.cap
      /\ EntriesOf(p) = Others(u, ch, c) \cup {[key |-> k, val |-> v]}
      /\ p.count = IF \E j \in Occupied(u) : CharsAt(u, ch, j) = c THEN u.count ELSE u.count + 1
  BY <1>1, PlaceSound
<1> HIDE DEF p, c
<1>7. Others(u, ch, c) = EntriesOf(u)
  BY <1>2 DEF Others
<1>8. Below(t, i + 1) = Below(t, i) \cup {i}
  BY <1>1 DEF Below
<1>9. EntriesBelow(t, i + 1) = EntriesBelow(t, i) \cup {t.slots[i]}
  BY <1>8 DEF EntriesBelow
<1>10. QED
  BY <1>1, <1>3, <1>5, <1>6, <1>7, <1>9

(* resize keeps the entries, and every one within reach. *)
LEMMA ResizeSound ==
  ASSUME NEW ch \in KeyChars, NEW t, Sound(t, ch), NEW n \in Nat, Cardinality(Occupied(t)) <= n
  PROVE  /\ Sound(Resize(t, ch, n), ch)
         /\ EntriesOf(Resize(t, ch, n)) = EntriesOf(t)
<1> DEFINE r == ResizeSteps(t, ch, n)
           Good(i) == /\ Sound(r[i], ch) /\ r[i].cap = n
                      /\ r[i].count = Cardinality(Below(t, i))
                      /\ EntriesOf(r[i]) = EntriesBelow(t, i)
           G == {i \in 0..t.cap : Good(i)}
<1>0. t \in Tables /\ t.cap \in Nat /\ Indexes(t) = 0..t.cap-1 /\ Occupied(t) \subseteq 0..t.cap-1
      /\ IsFiniteSet(Occupied(t)) /\ Cardinality(Occupied(t)) \in Nat
  BY TableFields, OccupiedFinite DEF Indexes, Occupied, Sound
<1>1. r[0] = Fresh(n) /\ \A i \in Indexes(t) : r[i + 1] = Move(t, ch, r[i], i)
  BY <1>0, ResizeByStep
<1> HIDE DEF r
<1>2. 0 \in G
  <2>1. Below(t, 0) = {} /\ EntriesBelow(t, 0) = {}
    BY <1>0 DEF Below, EntriesBelow
  <2>2. Good(0)
    BY <1>1, <2>1, FreshIsEmpty, FreshIsSound, FS_EmptySet
  <2>3. QED
    BY <1>0, <2>2
<1>3. ASSUME NEW i \in 0..t.cap-1, i \in G PROVE i + 1 \in G
  <2>1. r[i + 1] = Move(t, ch, r[i], i) /\ Good(i) /\ i \in Indexes(t) /\ i + 1 \in 0..t.cap
    BY <1>0, <1>1, <1>3
  <2>2. CASE i \in Occupied(t)
    <3>1. Below(t, i) \in SUBSET Occupied(t) /\ Below(t, i) # Occupied(t)
      BY <1>0, <2>2 DEF Below
    <3>2. Cardinality(Below(t, i)) < Cardinality(Occupied(t))
      BY <1>0, <3>1, FS_Subset, FS_CardinalityType
    <3>3. Cardinality(Occupied(r[i])) < r[i].cap /\ r[i] \in Tables
      <4>1. Cardinality(Occupied(r[i])) = Cardinality(Below(t, i))
        BY <2>1 DEF Sound
      <4>2. Cardinality(Below(t, i)) \in Nat
        BY <1>0, <3>1, FS_Subset, FS_CardinalityType
      <4>3. QED
        BY <1>0, <2>1, <3>2, <4>1, <4>2 DEF Sound
    <3>4. PICK s \in Indexes(r[i]) : r[i].slots[s] = NoEntry
      BY <3>3, RoomStops
    <3>5. /\ Sound(r[i + 1], ch) /\ r[i + 1].cap = n /\ r[i + 1].count = r[i].count + 1
          /\ EntriesOf(r[i + 1]) = EntriesBelow(t, i + 1)
      <4> DEFINE u == r[i]
      <4>1. Sound(u, ch) /\ EntriesOf(u) = EntriesBelow(t, i) /\ u.cap = n
            /\ s \in Indexes(u) /\ u.slots[s] = NoEntry
        BY <2>1, <3>4
      <4>2. r[i + 1] = Move(t, ch, u, i)
        BY <2>1
      <4> HIDE DEF u
      <4>3. /\ Sound(Move(t, ch, u, i), ch) /\ Move(t, ch, u, i).cap = u.cap
            /\ Move(t, ch, u, i).count = u.count + 1
            /\ EntriesOf(Move(t, ch, u, i)) = EntriesBelow(t, i + 1)
        BY <2>2, <4>1, MoveSound
      <4>4. QED
        BY <4>1, <4>2, <4>3 DEF u
    <3>6. Cardinality(Below(t, i + 1)) = Cardinality(Below(t, i)) + 1
      BY <1>0, <2>2, BelowCounts
    <3>7. QED
      BY <2>1, <3>5, <3>6
  <2>3. CASE i \notin Occupied(t)
    <3>1. r[i + 1] = r[i]
      BY <2>1, <2>3 DEF Move, Occupied
    <3>2. Below(t, i + 1) = Below(t, i)
      BY <1>0, <2>1, <2>3, BelowCounts
    <3>3. QED
      BY <2>1, <3>1, <3>2 DEF EntriesBelow
  <2>4. QED
    BY <2>2, <2>3
<1>4. t.cap \in G
  <2> HIDE DEF G
  <2>1. \A i \in 0..t.cap : i \in G
    BY <1>0, <1>2, <1>3, CountingUp
  <2>2. QED
    BY <1>0, <2>1
<1>5. EntriesBelow(t, t.cap) = EntriesOf(t)
  BY <1>0, BelowCounts DEF EntriesBelow, EntriesOf
<1>6. QED
  BY <1>4, <1>5 DEF r, Resize

(* tableSet on a tight table: the entry is there, with every entry of other *)
(* characters, and the table is tight. *)
LEMMA WithRoomTight ==
  ASSUME NEW ch \in KeyChars, NEW t, Tight(t, ch)
  PROVE  Tight(WithRoom(t, ch), ch) /\ EntriesOf(WithRoom(t, ch)) = EntriesOf(t)
<1>1. Loose(WithRoom(t, ch))
  BY WithRoomLoose DEF Tight
<1>2. CASE ~OverLoaded(t)
  BY <1>2 DEF WithRoom, Tight
<1>3. CASE OverLoaded(t)
  <2> DEFINE n == GrowCapacity(t.cap)
  <2>1. /\ t.cap \in Nat /\ t.count \in Nat /\ 4 * t.count <= 3 * t.cap
        /\ Cardinality(Occupied(t)) \in Nat /\ Cardinality(Occupied(t)) <= t.count
    BY LooseIsTable DEF Tight
  <2>2. n \in Nat /\ Cardinality(Occupied(t)) <= n
    BY <2>1, MinCapacityAssumption DEF GrowCapacity
  <2>3. WithRoom(t, ch) = Resize(t, ch, n)
    BY <1>3 DEF WithRoom
  <2> HIDE DEF n
  <2>4. QED
    BY <1>1, <2>2, <2>3, ResizeSound DEF Tight
<1>4. QED
  BY <1>2, <1>3

(* tableSet keeps a table tight and replaces the entry of an equal key. *)
LEMMA TableSetTight ==
  ASSUME NEW ch \in KeyChars, NEW t, Tight(t, ch), NEW k \in Keys, NEW v \in Values
  PROVE  /\ Tight(TableSet(t, ch, k, v), ch)
         /\ EntriesOf(TableSet(t, ch, k, v)) = Others(t, ch, ch[k]) \cup {[key |-> k, val |-> v]}
<1> DEFINE w == WithRoom(t, ch)
<1>1. Tight(w, ch) /\ EntriesOf(w) = EntriesOf(t) /\ Loose(w) /\ w.cap > 0
  BY WithRoomTight, WithRoomLoose DEF Tight
<1>2. PICK s \in Indexes(w) : w.slots[s] = NoEntry
  BY <1>1, LooseRoom
<1>3. TableSet(t, ch, k, v) = Place(w, ch, k, v)
  BY DEF TableSet
<1>4. Loose(TableSet(t, ch, k, v))
  BY TableSetLoose DEF Tight
<1> HIDE DEF w
<1>5. /\ Sound(Place(w, ch, k, v), ch)
      /\ EntriesOf(Place(w, ch, k, v)) = Others(w, ch, ch[k]) \cup {[key |-> k, val |-> v]}
  BY <1>1, <1>2, PlaceSound DEF Tight
<1>6. QED
  BY <1>1, <1>3, <1>4, <1>5 DEF Tight, Others

-----------------------------------------------------------------------------
(***************************************************************************)
(* dup, mergeWith and rehash: tableSet of each entry of one table into     *)
(* another.                                                                *)
(***************************************************************************)
(* Adding one occupied slot is a tableSet of its entry. *)
LEMMA AddIsSet ==
  ASSUME NEW ch \in KeyChars, NEW from \in Tables, NEW to, Tight(to, ch), NEW i \in Occupied(from)
  PROVE  /\ Tight(Add(from, to, ch, i), ch)
         /\ EntriesOf(Add(from, to, ch, i)) =
              Others(to, ch, CharsAt(from, ch, i)) \cup {from.slots[i]}
<1> DEFINE k == from.slots[i].key
           v == from.slots[i].val
<1>1. k \in Keys /\ v \in Values /\ from.slots[i] = [key |-> k, val |-> v] /\ from.slots[i] # NoEntry
  BY OccupiedEntry
<1>2. Add(from, to, ch, i) = TableSet(to, ch, k, v)
  BY <1>1 DEF Add
<1>3. CharsAt(from, ch, i) = ch[k]
  BY DEF CharsAt
<1> HIDE DEF k, v
<1>4. /\ Tight(TableSet(to, ch, k, v), ch)
      /\ EntriesOf(TableSet(to, ch, k, v)) = Others(to, ch, ch[k]) \cup {[key |-> k, val |-> v]}
  BY <1>1, TableSetTight
<1>5. QED
  BY <1>1, <1>2, <1>3, <1>4

(* Whatever table is added, even one whose keys were changed under it, the *)
(* result is tight and has the characters of every entry added. *)
LEMMA AddAllTight ==
  ASSUME NEW ch \in KeyChars, NEW from \in Tables, NEW to, Tight(to, ch)
  PROVE  /\ Tight(AddAll(from, to, ch), ch)
         /\ \A i \in Occupied(from) : \E e \in EntriesOf(AddAll(from, to, ch)) :
               ch[e.key] = CharsAt(from, ch, i)
<1> DEFINE r == AddSteps(from, to, ch)
           Good(i) == /\ Tight(r[i], ch)
                      /\ \A j \in Below(from, i) : \E e \in EntriesOf(r[i]) :
                            ch[e.key] = CharsAt(from, ch, j)
           G == {i \in 0..from.cap : Good(i)}
<1>0. from.cap \in Nat /\ Indexes(from) = 0..from.cap-1 /\ Occupied(from) \subseteq 0..from.cap-1
  BY TableFields DEF Indexes, Occupied
<1>1. r[0] = to /\ \A i \in Indexes(from) : r[i + 1] = Add(from, r[i], ch, i)
  <2>1. to \in LooseTables
    BY LooseIsTable DEF LooseTables, Tight
  <2>2. QED
    BY <2>1, AddByStep
<1> HIDE DEF r
<1>2. 0 \in G
  <2>1. Below(from, 0) = {}
    BY <1>0 DEF Below
  <2>2. QED
    BY <1>0, <1>1, <2>1
<1>3. ASSUME NEW i \in 0..from.cap-1, i \in G PROVE i + 1 \in G
  <2>1. r[i + 1] = Add(from, r[i], ch, i) /\ Good(i) /\ i \in Indexes(from) /\ i + 1 \in 0..from.cap
    BY <1>0, <1>1, <1>3
  <2>2. CASE i \in Occupied(from)
    <3> DEFINE u == r[i]
               c == CharsAt(from, ch, i)
    <3>1. Tight(u, ch) /\ r[i + 1] = Add(from, u, ch, i)
          /\ \A j \in Below(from, i) : \E e \in EntriesOf(u) : ch[e.key] = CharsAt(from, ch, j)
      BY <2>1
    <3>2. Below(from, i + 1) = Below(from, i) \cup {i}
      BY <1>0, <2>2 DEF Below
    <3> HIDE DEF u, c
    <3>3. Tight(Add(from, u, ch, i), ch) /\ EntriesOf(Add(from, u, ch, i)) = Others(u, ch, c) \cup {from.slots[i]}
      BY <2>2, <3>1, AddIsSet DEF c
    <3>4. ASSUME NEW j \in Below(from, i + 1)
          PROVE  \E e \in EntriesOf(r[i + 1]) : ch[e.key] = CharsAt(from, ch, j)
      <4>1. CASE CharsAt(from, ch, j) = c
        <5>1. from.slots[i] \in EntriesOf(r[i + 1]) /\ ch[from.slots[i].key] = c
          BY <3>1, <3>3 DEF c, CharsAt
        <5>2. QED
          BY <4>1, <5>1
      <4>2. CASE CharsAt(from, ch, j) # c
        <5>1. j \in Below(from, i)
          BY <3>2, <4>2 DEF c
        <5>2. PICK e \in EntriesOf(u) : ch[e.key] = CharsAt(from, ch, j)
          BY <3>1, <5>1
        <5>3. e \in EntriesOf(r[i + 1])
          BY <3>1, <3>3, <4>2, <5>2 DEF Others
        <5>4. QED
          BY <5>2, <5>3
      <4>3. QED
        BY <4>1, <4>2
    <3>5. QED
      BY <2>1, <3>1, <3>3, <3>4
  <2>3. CASE i \notin Occupied(from)
    <3>1. r[i + 1] = r[i]
      BY <2>1, <2>3 DEF Add, Occupied
    <3>2. Below(from, i + 1) = Below(from, i)
      BY <1>0, <2>1, <2>3, BelowCounts
    <3>3. QED
      BY <2>1, <3>1, <3>2
  <2>4. QED
    BY <2>2, <2>3
<1>4. from.cap \in G
  <2> HIDE DEF G
  <2>1. \A i \in 0..from.cap : i \in G
    BY <1>0, <1>2, <1>3, CountingUp
  <2>2. QED
    BY <1>0, <2>1
<1>5. Below(from, from.cap) = Occupied(from)
  BY BelowCounts
<1>6. QED
  BY <1>4, <1>5 DEF r, AddAll

\* The entries of t whose characters no entry in a set has.
Missing(t, ch, entries) == {e \in EntriesOf(t) : \A x \in entries : ch[x.key] # ch[e.key]}

(* A sound table added overrides the entries of its own characters. *)
LEMMA AddAllEntries ==
  ASSUME NEW ch \in KeyChars, NEW from, Sound(from, ch), NEW to, Tight(to, ch)
  PROVE  EntriesOf(AddAll(from, to, ch)) = Missing(to, ch, EntriesOf(from)) \cup EntriesOf(from)
<1> DEFINE r == AddSteps(from, to, ch)
           B(i) == EntriesBelow(from, i)
           Good(i) == /\ Tight(r[i], ch)
                      /\ EntriesOf(r[i]) = Missing(to, ch, B(i)) \cup B(i)
           G == {i \in 0..from.cap : Good(i)}
<1>0. from \in Tables /\ from.cap \in Nat /\ Indexes(from) = 0..from.cap-1
      /\ Occupied(from) \subseteq 0..from.cap-1
  BY TableFields DEF Indexes, Occupied, Sound
<1>1. r[0] = to /\ \A i \in Indexes(from) : r[i + 1] = Add(from, r[i], ch, i)
  <2>1. to \in LooseTables
    BY LooseIsTable DEF LooseTables, Tight
  <2>2. QED
    BY <1>0, <2>1, AddByStep
<1> HIDE DEF r
<1>2. 0 \in G
  <2>1. B(0) = {}
    BY <1>0 DEF Below, EntriesBelow
  <2> HIDE DEF B
  <2>2. Missing(to, ch, B(0)) = EntriesOf(to)
    BY <2>1 DEF Missing
  <2>3. QED
    BY <1>0, <1>1, <2>1, <2>2
<1>3. ASSUME NEW i \in 0..from.cap-1, i \in G PROVE i + 1 \in G
  <2>1. r[i + 1] = Add(from, r[i], ch, i) /\ Good(i) /\ i \in Indexes(from) /\ i + 1 \in 0..from.cap
    BY <1>0, <1>1, <1>3
  <2>2. CASE i \in Occupied(from)
    <3> DEFINE u == r[i]
               x == from.slots[i]
               c == CharsAt(from, ch, i)
    <3>1. Tight(u, ch) /\ r[i + 1] = Add(from, u, ch, i) /\ ch[x.key] = c
          /\ EntriesOf(u) = Missing(to, ch, B(i)) \cup B(i)
      BY <2>1 DEF CharsAt
    <3>2. Below(from, i + 1) = Below(from, i) \cup {i}
      BY <1>0, <2>2 DEF Below
    <3>3. B(i + 1) = B(i) \cup {x}
      BY <3>2 DEF EntriesBelow
    <3>4. \A y \in B(i) : ch[y.key] # c
      <4>1. ASSUME NEW j \in Below(from, i) PROVE ch[from.slots[j].key] # c
        <5>1. j \in Occupied(from) /\ j # i
          BY <1>0, <2>2 DEF Below
        <5>2. CharsAt(from, ch, j) # c
          BY <2>2, <5>1, SoundUnique
        <5>3. QED
          BY <5>2 DEF CharsAt
      <4>2. QED
        BY <4>1 DEF EntriesBelow
    <3> HIDE DEF u, c
    <3>5. Tight(Add(from, u, ch, i), ch) /\ EntriesOf(Add(from, u, ch, i)) = Others(u, ch, c) \cup {x}
      BY <1>0, <2>2, <3>1, AddIsSet DEF c
    <3> HIDE DEF x, B
    <3>6. Others(u, ch, c) = {e \in Missing(to, ch, B(i)) : ch[e.key] # c} \cup B(i)
      BY <3>1, <3>4 DEF Others
    <3>7. {e \in Missing(to, ch, B(i)) : ch[e.key] # c} = Missing(to, ch, B(i + 1))
      BY <3>1, <3>3 DEF Missing
    <3>8. EntriesOf(r[i + 1]) = Missing(to, ch, B(i + 1)) \cup B(i + 1)
      BY <3>1, <3>3, <3>5, <3>6, <3>7
    <3>9. QED
      BY <2>1, <3>1, <3>5, <3>8
  <2>3. CASE i \notin Occupied(from)
    <3>1. r[i + 1] = r[i]
      BY <2>1, <2>3 DEF Add, Occupied
    <3>2. B(i + 1) = B(i)
      BY <1>0, <2>1, <2>3, BelowCounts DEF EntriesBelow
    <3> HIDE DEF B
    <3>3. QED
      BY <2>1, <3>1, <3>2
  <2>4. QED
    BY <2>2, <2>3
<1>4. from.cap \in G
  <2> HIDE DEF G
  <2>1. \A i \in 0..from.cap : i \in G
    BY <1>0, <1>2, <1>3, CountingUp
  <2>2. QED
    BY <1>0, <2>1
<1>5. B(from.cap) = EntriesOf(from)
  BY <1>0, BelowCounts DEF EntriesBelow, EntriesOf
<1>6. QED
  <2> HIDE DEF B
  <2>1. QED
    BY <1>4, <1>5 DEF r, AddAll

-----------------------------------------------------------------------------
(***************************************************************************)
(* tableDelete: the shift that fills the hole.                             *)
(***************************************************************************)
(* Going up round the table from a home h to j past p, where p lies        *)
(* between the hole and e, and j does not lie between p and e: the way     *)
(* passes e as well. *)
LEMMA Passing ==
  ASSUME NEW n \in Nat, NEW hole \in 0..n-1, NEW h \in 0..n-1,
         NEW p \in 0..n-1, NEW e \in 0..n-1, NEW j \in 0..n-1,
         Round(n, hole, p) < Round(n, hole, e),
         \/ Round(n, hole, j) < Round(n, hole, p)
         \/ Round(n, hole, e) < Round(n, hole, j),
         Round(n, h, p) < Round(n, h, j)
  PROVE  Round(n, h, e) < Round(n, h, j)
BY DEF Round

(* Distances round a table. *)
LEMMA RoundRange ==
  ASSUME NEW n \in Nat, NEW a \in 0..n-1, NEW i \in 0..n-1, NEW j \in 0..n-1
  PROVE  /\ Round(n, a, i) \in 0..n-1
         /\ Round(n, a, i) = 0 <=> i = a
         /\ Round(n, a, i) = Round(n, a, j) => i = j
BY DEF Round

(* Two indices as far round from the same one are the same. *)
LEMMA OneRound ==
  \A n \in Nat : \A a, i, j \in 0..n-1 : Round(n, a, i) = Round(n, a, j) => i = j
BY RoundRange

\* e is the first empty slot after the hole.
Gap(t, hole, e) ==
  /\ e \in Indexes(t) /\ t.slots[e] = NoEntry
  /\ \A j \in Indexes(t) : /\ 0 < Round(t.cap, hole, j)
                           /\ Round(t.cap, hole, j) < Round(t.cap, hole, e)
                           => t.slots[j] # NoEntry

Distinct(u, ch) ==
  \A i, j \in Occupied(u) : CharsAt(u, ch, i) = CharsAt(u, ch, j) => i = j

\* The table u, d slots after the hole: the entries up to there and from the
\* gap on are within reach; a probe for an entry between the two may stop too
\* early, but only at an empty slot that the shift has passed.
Shifting(t, ch, hole, e, d, u) ==
  /\ Loose(u) /\ u.cap = t.cap
  /\ u.count = Cardinality(Occupied(u))
  /\ EntriesOf(u) = EntriesOf(t) \ {t.slots[hole]}
  /\ Distinct(u, ch)
  /\ \A j \in Indexes(t) : Round(t.cap, hole, j) > d => u.slots[j] = t.slots[j]
  /\ \A j \in Occupied(u) :
        Round(t.cap, hole, j) <= d \/ Round(t.cap, hole, j) >= Round(t.cap, hole, e) =>
          FirstStop(u, ch, CharsAt(u, ch, j), j)
  /\ \A j \in Occupied(u), l \in Indexes(t) :
        /\ d < Round(t.cap, hole, j) /\ Round(t.cap, hole, j) < Round(t.cap, hole, e)
        /\ Dist(u, CharsAt(u, ch, j), l) < Dist(u, CharsAt(u, ch, j), j)
        /\ StopsAt(u, ch, CharsAt(u, ch, j), l)
        => u.slots[l] = NoEntry /\ Round(t.cap, hole, l) <= d

(* There is a gap: a quarter of the table is empty. *)
LEMMA GapExists ==
  ASSUME NEW t, Loose(t), NEW hole \in Occupied(t)
  PROVE  \E e \in Indexes(t) : Gap(t, hole, e) /\ Round(t.cap, hole, e) > 0
<1> DEFINE R(j) == Round(t.cap, hole, j)
           S == {R(j) : j \in {i \in Indexes(t) : t.slots[i] = NoEntry}}
<1>0. t.cap \in Nat /\ t.cap > 0 /\ Indexes(t) = 0..t.cap-1 /\ hole \in 0..t.cap-1
      /\ t.slots[hole] # NoEntry
  <2>1. t.cap \in Nat /\ hole \in 0..t.cap-1 /\ t.slots[hole] # NoEntry
    BY LooseIsTable DEF Occupied, Indexes
  <2>2. QED
    BY <2>1 DEF Indexes
<1>1. PICK s \in Indexes(t) : t.slots[s] = NoEntry
  BY <1>0, LooseRoom
<1>2. \A j \in Indexes(t) : R(j) \in 0..t.cap-1 /\ (R(j) = 0 <=> j = hole)
  BY <1>0, RoundRange
<1> HIDE DEF R
<1>3. S \in SUBSET Nat /\ S # {}
  BY <1>0, <1>1, <1>2
<1>4. PICK r \in S : \A q \in S : r <= q
  <2> HIDE DEF S
  <2>1. QED
    BY <1>3, LeastMember
<1>5. PICK e \in Indexes(t) : t.slots[e] = NoEntry /\ R(e) = r
  BY <1>4
<1>6. ASSUME NEW j \in Indexes(t), 0 < R(j), R(j) < R(e) PROVE t.slots[j] # NoEntry
  <2>1. R(j) \in Int /\ R(e) \in Int
    BY <1>0, <1>2
  <2>2. R(j) \notin S
    BY <1>4, <1>5, <1>6, <2>1
  <2>3. QED
    BY <2>2
<1>7. R(e) > 0
  BY <1>0, <1>2, <1>5
<1>8. QED
  BY <1>5, <1>6, <1>7 DEF Gap, R

(* A path that does not pass the gap does not pass a slot before it. *)
LEMMA GapGuards ==
  ASSUME NEW t \in Tables, NEW u \in Tables, u.cap = t.cap, NEW ch, NEW c \in Chars,
         NEW hole \in Indexes(t), NEW e \in Indexes(t), NEW p \in Indexes(t), NEW j \in Indexes(t),
         u.slots[e] = NoEntry, FirstStop(u, ch, c, j),
         Round(t.cap, hole, p) < Round(t.cap, hole, e),
         \/ Round(t.cap, hole, j) < Round(t.cap, hole, p)
         \/ Round(t.cap, hole, e) < Round(t.cap, hole, j)
  PROVE  ~(Dist(u, c, p) < Dist(u, c, j))
<1> SUFFICES ASSUME Dist(u, c, p) < Dist(u, c, j) PROVE FALSE
  OBVIOUS
<1>1. t.cap \in Nat /\ t.cap > 0 /\ Indexes(t) = 0..t.cap-1 /\ Indexes(u) = Indexes(t)
  BY TableFields DEF Indexes
<1>2. Home(u, c) \in 0..t.cap-1
  BY <1>1, HomeIsIndex
<1>3. \A i : Dist(u, c, i) = Round(t.cap, Home(u, c), i)
  BY DEF Dist
<1>4. Dist(u, c, e) < Dist(u, c, j)
  <2> DEFINE n == t.cap
             h == Home(u, c)
  <2>1. /\ n \in Nat /\ h \in 0..n-1 /\ hole \in 0..n-1 /\ p \in 0..n-1
        /\ e \in 0..n-1 /\ j \in 0..n-1
    BY <1>1, <1>2
  <2>2. Round(n, h, p) < Round(n, h, j)
    BY <1>3
  <2>3. \/ Round(n, hole, j) < Round(n, hole, p)
        \/ Round(n, hole, e) < Round(n, hole, j)
    OBVIOUS
  <2>4. Round(n, hole, p) < Round(n, hole, e)
    OBVIOUS
  <2> HIDE DEF n, h
  <2>5. Round(n, h, e) < Round(n, h, j)
    BY <2>1, <2>2, <2>3, <2>4, Passing
  <2>6. QED
    BY <1>3, <2>5 DEF n, h
<1>5. ~StopsAt(u, ch, c, e)
  BY <1>1, <1>4 DEF FirstStop
<1>6. QED
  BY <1>5 DEF StopsAt

(* Emptying a slot takes out its entry and no other. *)
LEMMA VacateEntries ==
  ASSUME NEW ch, NEW u, Loose(u), Distinct(u, ch), NEW i \in Occupied(u)
  PROVE  /\ Vacate(u, i) \in Tables /\ Indexes(Vacate(u, i)) = Indexes(u)
         /\ Occupied(Vacate(u, i)) = Occupied(u) \ {i}
         /\ EntriesOf(Vacate(u, i)) = EntriesOf(u) \ {u.slots[i]}
         /\ Distinct(Vacate(u, i), ch)
<1> DEFINE w == Vacate(u, i)
           e == NoEntry
           n == u.count - 1
<1>1. u \in Tables /\ n \in Int /\ i \in Indexes(u) /\ e \in Slots
  <2>1. u \in Tables /\ u.count \in Int
    BY LooseIsTable
  <2>2. QED
    BY <2>1 DEF Occupied, Slots
<1>2. w = Written(u, i, e, n)
  BY <1>1, VacateIsWrite
<1> HIDE DEF n, w
<1>3. w \in Tables /\ Indexes(w) = Indexes(u)
  BY <1>1, <1>2, WrittenTyped
<1>4. \A j \in Indexes(u) : w.slots[j] = IF j = i THEN NoEntry ELSE u.slots[j]
  BY <1>1, <1>2, WrittenSlot
<1>5. Occupied(w) = Occupied(u) \ {i}
  BY <1>3, <1>4 DEF Occupied
<1>6. \A j \in Occupied(w) : w.slots[j] = u.slots[j] /\ CharsAt(w, ch, j) = CharsAt(u, ch, j)
  BY <1>4, <1>5 DEF Occupied, CharsAt
<1>7. Distinct(w, ch)
  BY <1>5, <1>6 DEF Distinct
<1>8. EntriesOf(w) = EntriesOf(u) \ {u.slots[i]}
  <2>1. \A j \in Occupied(u) \ {i} : u.slots[j] # u.slots[i]
    BY DEF Distinct, CharsAt
  <2>2. EntriesOf(w) = {u.slots[j] : j \in Occupied(u) \ {i}}
    BY <1>5, <1>6 DEF EntriesOf
  <2>3. QED
    BY <2>1, <2>2 DEF EntriesOf
<1>9. QED
  BY <1>3, <1>5, <1>7, <1>8 DEF w

(* Taking an entry out leaves every other slot alone. *)
LEMMA VacateSlot ==
  ASSUME NEW u \in Tables, NEW i \in Indexes(u), NEW j \in Indexes(u)
  PROVE  Vacate(u, i).slots[j] = IF j = i THEN NoEntry ELSE u.slots[j]
<1> DEFINE e == NoEntry
           n == u.count - 1
<1>1. n \in Int /\ e \in Slots
  BY TableFields DEF Slots
<1>2. Vacate(u, i) = Written(u, i, e, n)
  BY VacateIsWrite
<1> HIDE DEF n
<1>3. QED
  BY <1>1, <1>2, WrittenSlot

(* The table that the shift starts from. *)
LEMMA ShiftStart ==
  ASSUME NEW ch \in KeyChars, NEW t, Tight(t, ch), NEW hole \in Occupied(t),
         NEW e, Gap(t, hole, e), Round(t.cap, hole, e) > 0
  PROVE  Shifting(t, ch, hole, e, 0, Vacate(t, hole))
<1> DEFINE R(j) == Round(t.cap, hole, j)
           u == Vacate(t, hole)
<1>1. /\ t \in Tables /\ t.cap \in Nat /\ t.count = Cardinality(Occupied(t)) /\ Indexes(t) = 0..t.cap-1
      /\ hole \in Indexes(t) /\ e \in Indexes(t) /\ Loose(t) /\ Sound(t, ch) /\ t.slots[e] = NoEntry
      /\ t.slots[hole] # NoEntry
  BY LooseIsTable DEF Occupied, Indexes, Gap, Tight, Sound
<1>2. \A j \in Indexes(t) : R(j) \in 0..t.cap-1 /\ (R(j) = 0 <=> j = hole)
  BY <1>1, RoundRange
<1>3. Distinct(t, ch)
  BY <1>1, SoundUnique DEF Distinct
<1>4. /\ Loose(u) /\ u.cap = t.cap /\ u.count = t.count - 1
      /\ Cardinality(Occupied(u)) = Cardinality(Occupied(t)) - 1
  BY <1>1, VacateLoose
<1>5. /\ u \in Tables /\ Indexes(u) = Indexes(t) /\ Occupied(u) = Occupied(t) \ {hole}
      /\ EntriesOf(u) = EntriesOf(t) \ {t.slots[hole]} /\ Distinct(u, ch)
  BY <1>1, <1>3, VacateEntries
<1>6. \A j \in Indexes(t) : u.slots[j] = IF j = hole THEN NoEntry ELSE t.slots[j]
  BY <1>1, VacateSlot
<1> HIDE DEF u
<1>7. \A c, i : Dist(u, c, i) = Dist(t, c, i)
  BY <1>4, SameDist
<1>8. ASSUME NEW j \in Occupied(u)
      PROVE  /\ j \in Occupied(t) /\ j \in Indexes(t) /\ j # hole /\ u.slots[j] = t.slots[j]
             /\ CharsAt(u, ch, j) = CharsAt(t, ch, j) /\ CharsAt(t, ch, j) \in Chars
             /\ FirstStop(t, ch, CharsAt(t, ch, j), j)
  <2>1. j \in Occupied(t) /\ j \in Indexes(t) /\ j # hole
    BY <1>5 DEF Occupied
  <2>2. u.slots[j] = t.slots[j]
    BY <1>6, <2>1
  <2>3. QED
    BY <1>1, <2>1, <2>2, CharsAtTyped DEF CharsAt, Sound, Reached
<1>9. ASSUME NEW j \in Occupied(u), NEW l \in Indexes(t),
             Dist(u, CharsAt(u, ch, j), l) < Dist(u, CharsAt(u, ch, j), j),
             StopsAt(u, ch, CharsAt(u, ch, j), l)
      PROVE  l = hole
  <2>1. ~StopsAt(t, ch, CharsAt(t, ch, j), l)
    BY <1>7, <1>8, <1>9 DEF FirstStop
  <2>2. QED
    BY <1>6, <1>8, <1>9, <2>1 DEF StopsAt
<1>10. ASSUME NEW j \in Occupied(u), R(j) <= 0 \/ R(j) >= R(e)
       PROVE  FirstStop(u, ch, CharsAt(u, ch, j), j)
  <2> DEFINE c == CharsAt(t, ch, j)
  <2>1. R(j) # 0
    BY <1>2, <1>8
  <2>2. R(j) > R(e)
    <3>1. j # e
      BY <1>1, <1>8 DEF Occupied
    <3>2. R(j) # R(e)
      BY <1>1, <1>8, <3>1, RoundRange
    <3>3. R(j) \in 0..t.cap-1 /\ R(e) \in 0..t.cap-1
      BY <1>1, <1>2, <1>8
    <3> HIDE DEF R
    <3>4. QED
      BY <1>1, <1>10, <2>1, <3>2, <3>3
  <2>3. ~(Dist(t, c, hole) < Dist(t, c, j))
    <3>1. R(hole) < R(e)
      BY <1>1, <1>2
    <3>2. QED
      BY <1>1, <1>8, <2>2, <3>1, GapGuards
  <2>4. StopsAt(u, ch, c, j)
    BY <1>8 DEF StopsAt, FirstStop
  <2>5. ASSUME NEW l \in Indexes(u), Dist(u, c, l) < Dist(u, c, j), StopsAt(u, ch, c, l) PROVE FALSE
    <3>1. l = hole
      BY <1>5, <1>8, <1>9, <2>5
    <3>2. QED
      BY <1>7, <2>3, <2>5, <3>1
  <2>6. QED
    BY <1>5, <1>8, <2>4, <2>5 DEF FirstStop
<1>11. ASSUME NEW j \in Indexes(t), R(j) > 0 PROVE u.slots[j] = t.slots[j]
  BY <1>2, <1>6, <1>11
<1>12. ASSUME NEW j \in Occupied(u), NEW l \in Indexes(t),
             Dist(u, CharsAt(u, ch, j), l) < Dist(u, CharsAt(u, ch, j), j),
             StopsAt(u, ch, CharsAt(u, ch, j), l)
      PROVE  u.slots[l] = NoEntry /\ R(l) <= 0
  <2>1. l = hole
    BY <1>9, <1>12
  <2>2. u.slots[hole] = NoEntry /\ R(hole) = 0
    BY <1>1, <1>2, <1>6
  <2>3. QED
    BY <2>1, <2>2
<1>13. u.count = Cardinality(Occupied(u))
  BY <1>1, <1>4
<1>14. QED
  BY <1>4, <1>5, <1>10, <1>11, <1>12, <1>13 DEF Shifting, u

(* One entry taken out and set again: it moves back to the first empty slot *)
(* of its path, which is its own or one that the shift has passed.          *)
LEMMA ShiftStep ==
  ASSUME NEW ch \in KeyChars, NEW t \in Tables, NEW hole \in Indexes(t),
         NEW e, Gap(t, hole, e), NEW d \in Nat, NEW u, Shifting(t, ch, hole, e, d, u),
         NEW p \in Indexes(t), Round(t.cap, hole, p) = d + 1, d + 1 < Round(t.cap, hole, e)
  PROVE  /\ p \in Occupied(u)
         /\ Shifting(t, ch, hole, e, d + 1, Reinsert(u, ch, p))
<1> DEFINE R(j) == Round(t.cap, hole, j)
           C(j) == CharsAt(u, ch, j)
           x == u.slots[p]
           k == x.key
           v == x.val
           c == ch[k]
           u1 == Vacate(u, p)
           f == FindEntry(u1, ch, c)
           n == u1.count + 1
           u2 == Written(u1, f, x, n)
<1>1. /\ t.cap \in Nat /\ Indexes(t) = 0..t.cap-1 /\ e \in Indexes(t) /\ t.slots[e] = NoEntry
      /\ u \in Tables /\ Loose(u) /\ u.cap = t.cap /\ Indexes(u) = Indexes(t)
      /\ u.count = Cardinality(Occupied(u))
  BY LooseIsTable, TableFields DEF Gap, Shifting, Indexes
<1>2. /\ EntriesOf(u) = EntriesOf(t) \ {t.slots[hole]} /\ Distinct(u, ch)
      /\ \A j \in Indexes(t) : R(j) > d => u.slots[j] = t.slots[j]
      /\ \A j \in Occupied(u) : R(j) <= d \/ R(j) >= R(e) => FirstStop(u, ch, C(j), j)
  BY DEF Shifting
<1>3. ASSUME NEW j \in Occupied(u), NEW l \in Indexes(t), d < R(j), R(j) < R(e),
             Dist(u, C(j), l) < Dist(u, C(j), j), StopsAt(u, ch, C(j), l)
      PROVE  u.slots[l] = NoEntry /\ R(l) <= d
  BY <1>3 DEF Shifting
<1>4. \A j \in Indexes(t) : R(j) \in 0..t.cap-1
  BY <1>1, RoundRange
<1>5. ASSUME NEW i \in Indexes(t), NEW j \in Indexes(t), R(i) = R(j) PROVE i = j
  <2>1. i \in 0..t.cap-1 /\ j \in 0..t.cap-1 /\ hole \in 0..t.cap-1
    BY <1>1
  <2>2. QED
    BY <1>1, <1>5, <2>1, OneRound
<1>6. R(p) = d + 1 /\ R(p) < R(e)
  OBVIOUS
<1>7. R(e) > d /\ R(p) > d /\ R(p) > 0
  <2>1. R(p) \in Int /\ R(e) \in Int
    BY <1>1, <1>4
  <2> HIDE DEF R
  <2>2. QED
    BY <1>6, <2>1
<1>8. u.slots[e] = NoEntry /\ u.slots[p] = t.slots[p] /\ t.slots[p] # NoEntry
  BY <1>1, <1>2, <1>6, <1>7 DEF Gap
<1> HIDE DEF R
<1>9. p \in Occupied(u)
  BY <1>1, <1>8 DEF Occupied
<1>10. /\ k \in Keys /\ v \in Values /\ x = [key |-> k, val |-> v] /\ x \in Slots /\ x # NoEntry
       /\ c \in Chars /\ c = C(p)
  BY <1>1, <1>9, OccupiedEntry DEF Slots, KeyChars, CharsAt
<1>11. /\ Loose(u1) /\ u1.cap = t.cap /\ u1.count = u.count - 1 /\ u1.count \in Int
       /\ Cardinality(Occupied(u1)) = Cardinality(Occupied(u)) - 1
  BY <1>1, <1>9, VacateLoose, LooseIsTable
<1>12. /\ u1 \in Tables /\ Indexes(u1) = Indexes(t) /\ Occupied(u1) = Occupied(u) \ {p}
       /\ EntriesOf(u1) = EntriesOf(u) \ {x} /\ Distinct(u1, ch)
  BY <1>1, <1>2, <1>9, VacateEntries
<1>13. \A j \in Indexes(t) : u1.slots[j] = IF j = p THEN NoEntry ELSE u.slots[j]
  BY <1>1, VacateSlot
<1>14. /\ Loose(Reinsert(u, ch, p)) /\ Reinsert(u, ch, p).cap = t.cap
       /\ Reinsert(u, ch, p) = Place(u1, ch, k, v)
  BY <1>1, <1>9, ReinsertLoose
<1> HIDE DEF u1, x
<1>15. \A b, i : Dist(u1, b, i) = Dist(u, b, i)
  BY <1>1, <1>11, SameDist
<1>16. FirstStop(u1, ch, c, f)
  <2>1. StopsAt(u1, ch, c, p)
    BY <1>13 DEF StopsAt
  <2> HIDE DEF c
  <2>2. QED
    BY <1>10, <1>12, <2>1, FindEntryStops
<1> HIDE DEF f, c
<1>17. f \in Indexes(t)
  BY <1>12, <1>16 DEF FirstStop
\* No other entry has the characters of the one taken out.
<1>18. \A j \in Occupied(u) : j # p => C(j) # c
  BY <1>2, <1>9, <1>10 DEF Distinct
<1>19. u1.slots[f] = NoEntry
  <2>1. ASSUME u1.slots[f] # NoEntry PROVE FALSE
    <3>1. f # p /\ u1.slots[f] = u.slots[f] /\ u.slots[f] # NoEntry
      BY <1>13, <1>17, <2>1
    <3>2. C(f) = c
      BY <1>16, <2>1, <3>1 DEF FirstStop, StopsAt, CharsAt
    <3>3. f \in Occupied(u)
      BY <1>1, <1>17, <3>1 DEF Occupied
    <3>4. QED
      BY <1>18, <3>1, <3>2, <3>3
  <2>2. QED
    BY <2>1
\* The slot it is set in is its own or one the shift has passed.
<1>20. f # p => R(f) <= d
  <2> SUFFICES ASSUME f # p PROVE R(f) <= d
    OBVIOUS
  <2>1. StopsAt(u1, ch, c, p)
    BY <1>13 DEF StopsAt
  <2>2. Dist(u, c, f) < Dist(u, c, p)
    <3>1. ~(Dist(u1, c, p) < Dist(u1, c, f))
      BY <1>12, <1>16, <2>1 DEF FirstStop
    <3>2. Dist(u, c, p) # Dist(u, c, f)
      BY <1>1, <1>10, <1>17, DistInjective
    <3>3. Dist(u, c, p) \in Indexes(t) /\ Dist(u, c, f) \in Indexes(t)
      BY <1>1, <1>10, <1>17, SlotOfDist
    <3>4. QED
      BY <1>1, <1>15, <3>1, <3>2, <3>3
  <2>3. u.slots[f] = NoEntry
    BY <1>13, <1>17, <1>19
  <2>4. StopsAt(u, ch, C(p), f)
    BY <2>3 DEF StopsAt
  <2>5. QED
    BY <1>3, <1>6, <1>7, <1>9, <1>10, <1>17, <2>2, <2>4
<1>21. R(f) <= d + 1
  BY <1>4, <1>6, <1>17, <1>20
<1>22. Reinsert(u, ch, p) = u2
  <2>1. Place(u1, ch, k, v) = Written(u1, f, [key |-> k, val |-> v], IF u1.slots[f] = NoEntry THEN u1.count + 1 ELSE u1.count)
    BY <1>12, PlaceIsWrite DEF f, c
  <2>2. QED
    BY <1>10, <1>14, <1>19, <2>1
<1>23. n \in Int /\ n = u.count
  BY <1>1, <1>11, TableFields
<1> HIDE DEF n, k, v
<1>24. /\ u2 \in Tables /\ u2.cap = t.cap /\ u2.count = n /\ Indexes(u2) = Indexes(t)
  BY <1>10, <1>11, <1>12, <1>23, WrittenTyped
<1>25. \A j \in Indexes(t) : u2.slots[j] = IF j = f THEN x ELSE u1.slots[j]
  BY <1>10, <1>12, <1>23, WrittenSlot
<1>26. Occupied(u2) = Occupied(u1) \cup {f}
  BY <1>10, <1>12, <1>17, <1>23, WrittenOccupied
<1>27. Cardinality(Occupied(u2)) = Cardinality(Occupied(u1)) + 1
  <2>1. u1 \in Tables /\ x \in Slots /\ n \in Int /\ x # NoEntry /\ f \in Indexes(u1)
    BY <1>10, <1>12, <1>17, <1>23
  <2>2. Cardinality(Occupied(Written(u1, f, x, n))) = Cardinality(Occupied(u1)) + 1
    BY <1>19, <2>1, WrittenCard
  <2>3. QED
    BY <2>2
<1> HIDE DEF u2
<1>28. u2.count = Cardinality(Occupied(u2))
  BY <1>1, <1>11, <1>23, <1>24, <1>27, OccupiedFinite
<1>29. \A b, i : Dist(u2, b, i) = Dist(u, b, i)
  BY <1>1, <1>24, SameDist
\* The other entries lie where they lay.
<1>30. ASSUME NEW j \in Occupied(u2), j # f
       PROVE  /\ j \in Occupied(u) /\ j # p /\ j \in Indexes(t)
              /\ u2.slots[j] = u.slots[j] /\ CharsAt(u2, ch, j) = C(j)
              /\ C(j) # c /\ C(j) \in Chars
  <2>1. j \in Occupied(u) /\ j # p /\ j \in Indexes(t)
    BY <1>12, <1>26, <1>30 DEF Occupied
  <2>2. u2.slots[j] = u.slots[j]
    BY <1>13, <1>25, <1>30, <2>1
  <2>3. QED
    BY <1>1, <1>18, <2>1, <2>2, CharsAtTyped DEF CharsAt
<1>31. u2.slots[f] = x /\ CharsAt(u2, ch, f) = c
  BY <1>17, <1>25 DEF CharsAt, c, k
<1>32. EntriesOf(u2) = EntriesOf(t) \ {t.slots[hole]}
  <2>1. EntriesOf(u2) = {u2.slots[j] : j \in Occupied(u1)} \cup {x}
    BY <1>26, <1>31 DEF EntriesOf
  <2>2. \A j \in Occupied(u1) : u2.slots[j] = u1.slots[j]
    BY <1>12, <1>19, <1>25 DEF Occupied
  <2>3. EntriesOf(u2) = EntriesOf(u1) \cup {x}
    BY <2>1, <2>2 DEF EntriesOf
  <2>4. x \in EntriesOf(u)
    BY <1>9 DEF EntriesOf, x
  <2>5. QED
    BY <1>2, <1>12, <2>3, <2>4
<1>33. Distinct(u2, ch)
  BY <1>2, <1>30, <1>31 DEF Distinct
<1>34. ASSUME NEW j \in Indexes(t), R(j) > d + 1 PROVE u2.slots[j] = t.slots[j]
  <2>1. j # f /\ j # p /\ R(j) > d
    BY <1>4, <1>6, <1>17, <1>21, <1>34
  <2>2. QED
    BY <1>2, <1>13, <1>25, <2>1
<1>35. FirstStop(u2, ch, c, f)
  <2>1. StopsAt(u2, ch, c, f)
    BY <1>31 DEF StopsAt, CharsAt
  <2>2. ASSUME NEW l \in Indexes(t), Dist(u2, c, l) < Dist(u2, c, f) PROVE ~StopsAt(u2, ch, c, l)
    <3>1. ~StopsAt(u1, ch, c, l)
      BY <1>12, <1>15, <1>16, <1>29, <2>2 DEF FirstStop
    <3>2. Dist(u, c, f) \in Int
      <4>1. Dist(u, c, f) \in Indexes(u)
        BY <1>1, <1>10, <1>17, SlotOfDist
      <4>2. QED
        BY <1>1, <4>1
    <3>3. l # f
      BY <1>29, <2>2, <3>2
    <3>4. u2.slots[l] = u1.slots[l]
      BY <1>25, <3>3
    <3>5. QED
      BY <3>1, <3>4 DEF StopsAt
  <2>3. QED
    BY <1>17, <1>24, <2>1, <2>2 DEF FirstStop
\* A slot that stops the probe for another entry stopped it before, or is p.
<1>36. ASSUME NEW j \in Occupied(u2), j # f, NEW l \in Indexes(t), StopsAt(u2, ch, C(j), l)
       PROVE  StopsAt(u, ch, C(j), l) \/ (l = p /\ u2.slots[l] = NoEntry)
  <2>1. CASE l = f
    BY <1>10, <1>30, <1>31, <1>36, <2>1 DEF StopsAt, CharsAt
  <2>2. CASE l # f /\ l = p
    BY <1>13, <1>25, <2>2
  <2>3. CASE l # f /\ l # p
    BY <1>13, <1>25, <1>36, <2>3 DEF StopsAt
  <2>4. QED
    BY <2>1, <2>2, <2>3
<1>37. ASSUME NEW j \in Occupied(u2), R(j) <= d + 1 \/ R(j) >= R(e)
       PROVE  FirstStop(u2, ch, CharsAt(u2, ch, j), j)
  <2>1. CASE j = f
    BY <1>31, <1>35, <2>1
  <2>2. CASE j # f
    <3>1. /\ j \in Occupied(u) /\ j # p /\ j \in Indexes(t) /\ CharsAt(u2, ch, j) = C(j)
          /\ u2.slots[j] = u.slots[j] /\ C(j) \in Chars
      BY <1>30, <2>2
    <3>2. R(j) # R(p) /\ j # e
      BY <1>5, <1>8, <3>1 DEF Occupied
    <3>3. R(j) # R(e) /\ R(j) \in Int /\ R(e) \in Int
      BY <1>1, <1>4, <1>5, <3>1, <3>2
    <3>4. R(j) < R(p) \/ R(e) < R(j)
      BY <1>6, <1>37, <3>2, <3>3
    <3>5. FirstStop(u, ch, C(j), j)
      BY <1>2, <1>6, <3>1, <3>3, <3>4
    <3>6. ~(Dist(u, C(j), p) < Dist(u, C(j), j))
      <4> DEFINE b == C(j)
      <4>1. b \in Chars /\ FirstStop(u, ch, b, j) /\ Round(t.cap, hole, p) < Round(t.cap, hole, e)
            /\ (Round(t.cap, hole, j) < Round(t.cap, hole, p) \/ Round(t.cap, hole, e) < Round(t.cap, hole, j))
        BY <1>6, <3>1, <3>4, <3>5 DEF R
      <4> HIDE DEF b
      <4>2. ~(Dist(u, b, p) < Dist(u, b, j))
        BY <1>1, <1>8, <3>1, <4>1, GapGuards
      <4>3. QED
        BY <4>2 DEF b
    <3>7. ASSUME NEW l \in Indexes(t), Dist(u2, C(j), l) < Dist(u2, C(j), j)
          PROVE  ~StopsAt(u2, ch, C(j), l)
      <4>1. ~StopsAt(u, ch, C(j), l)
        BY <1>1, <1>29, <3>5, <3>7 DEF FirstStop
      <4>2. l # p
        BY <1>29, <3>6, <3>7
      <4>3. QED
        BY <1>36, <2>2, <4>1, <4>2
    <3>8. StopsAt(u2, ch, C(j), j)
      BY <3>1 DEF StopsAt, CharsAt
    <3>9. QED
      BY <1>24, <3>1, <3>7, <3>8 DEF FirstStop
  <2>3. QED
    BY <2>1, <2>2
<1>38. ASSUME NEW j \in Occupied(u2), NEW l \in Indexes(t), d + 1 < R(j), R(j) < R(e),
              Dist(u2, CharsAt(u2, ch, j), l) < Dist(u2, CharsAt(u2, ch, j), j),
              StopsAt(u2, ch, CharsAt(u2, ch, j), l)
       PROVE  u2.slots[l] = NoEntry /\ R(l) <= d + 1
  <2>1. j # f
    BY <1>4, <1>17, <1>21, <1>38
  <2>2. j \in Occupied(u) /\ j \in Indexes(t) /\ CharsAt(u2, ch, j) = C(j)
    BY <1>30, <2>1
  <2>3. CASE l = p /\ u2.slots[l] = NoEntry
    BY <1>6, <2>3
  <2>4. CASE StopsAt(u, ch, C(j), l) /\ ~(l = p /\ u2.slots[l] = NoEntry)
    <3>1. Dist(u, C(j), l) < Dist(u, C(j), j)
      BY <1>29, <1>38, <2>2
    <3>2. d < R(j)
      BY <1>4, <1>38, <2>2
    <3>3. u.slots[l] = NoEntry /\ R(l) <= d
      BY <1>3, <1>38, <2>2, <2>4, <3>1, <3>2
    <3>4. l # p /\ R(l) <= d + 1
      BY <1>4, <1>6, <3>3
    <3>5. l # f
      BY <1>10, <1>30, <1>31, <1>38, <2>1, <2>2 DEF StopsAt, CharsAt
    <3>6. QED
      BY <1>13, <1>25, <3>3, <3>4, <3>5
  <2>5. QED
    BY <1>36, <1>38, <2>1, <2>2, <2>3, <2>4
<1>39. Shifting(t, ch, hole, e, d + 1, u2)
  BY <1>14, <1>22, <1>24, <1>28, <1>32, <1>33, <1>34, <1>37, <1>38 DEF Shifting, R
<1>40. QED
  BY <1>9, <1>22, <1>39

(* Once the shift has come to the gap, every entry is within reach. *)
LEMMA ShiftEnd ==
  ASSUME NEW ch, NEW t \in Tables, NEW hole \in Indexes(t), NEW e \in Indexes(t), NEW u,
         Shifting(t, ch, hole, e, Round(t.cap, hole, e) - 1, u)
  PROVE  Tight(u, ch)
<1>1. t.cap \in Nat /\ Indexes(t) = 0..t.cap-1 /\ Loose(u) /\ u.cap = t.cap /\ u \in Tables
      /\ u.count = Cardinality(Occupied(u))
  BY LooseIsTable, TableFields DEF Shifting, Indexes
<1>2. \A j \in Indexes(t) : Round(t.cap, hole, j) \in 0..t.cap-1
  BY <1>1, RoundRange
<1>3. ASSUME NEW j \in Occupied(u) PROVE FirstStop(u, ch, CharsAt(u, ch, j), j)
  <2>1. j \in Indexes(t)
    BY <1>1 DEF Occupied, Indexes
  <2>2. \/ Round(t.cap, hole, j) <= Round(t.cap, hole, e) - 1
        \/ Round(t.cap, hole, j) >= Round(t.cap, hole, e)
    BY <1>1, <1>2, <2>1
  <2>3. QED
    BY <2>2 DEF Shifting
<1>4. QED
  BY <1>1, <1>3 DEF Tight, Sound, Reached

(* The shift keeps the entries that are left, and each of them in reach. *)
LEMMA ShiftUpTight ==
  ASSUME NEW ch \in KeyChars, NEW t, Tight(t, ch), NEW hole \in Occupied(t)
  PROVE  LET b == ShiftUp(Vacate(t, hole), ch, hole)
         IN Tight(b, ch) /\ EntriesOf(b) = EntriesOf(t) \ {t.slots[hole]}
<1> DEFINE u0 == Vacate(t, hole)
           N == t.cap
           r == ShiftSteps(u0, ch, hole)
           R(j) == Round(t.cap, hole, j)
<1>1. t \in Tables /\ N \in Nat /\ Indexes(t) = 0..N-1 /\ hole \in 0..N-1 /\ Loose(t)
      /\ hole \in Indexes(t)
  BY LooseIsTable DEF Tight, Occupied, Indexes
<1>2. PICK e \in Indexes(t) : Gap(t, hole, e) /\ R(e) > 0
  BY <1>1, GapExists
<1>3. /\ t.slots[e] = NoEntry /\ \A j \in Indexes(t) : R(j) \in 0..N-1
      /\ \A j \in Indexes(t) : R(j) = R(e) => j = e
  <2>1. t.slots[e] = NoEntry
    BY <1>2 DEF Gap
  <2>2. \A j \in Indexes(t) : R(j) \in 0..N-1
    BY <1>1, RoundRange
  <2>3. \A j \in Indexes(t) : R(j) = R(e) => j = e
    BY <1>1, RoundRange
  <2>4. QED
    BY <2>1, <2>2, <2>3
<1> DEFINE Good(d) == /\ r[d] \in ShiftStates(N)
                      /\ d < R(e) => ~r[d].done /\ Shifting(t, ch, hole, e, d, r[d].tbl)
                      /\ d >= R(e) => r[d].done /\ Shifting(t, ch, hole, e, R(e) - 1, r[d].tbl)
           G == {d \in 0..N : Good(d)}
<1>4. Loose(u0) /\ u0.cap = N /\ hole \in Indexes(u0)
  BY <1>1, VacateLoose DEF Indexes
<1>5. /\ r \in [0..N -> ShiftStates(N)] /\ r[0] = [tbl |-> u0, done |-> FALSE]
      /\ \A d \in 0..N-1 : r[d + 1] = Visit(r[d], ch, After(N, hole, d + 1))
  <2> HIDE DEF u0
  <2>1. QED
    BY <1>4, ShiftByStep
<1>6. 0 \in G
  <2>1. Shifting(t, ch, hole, e, 0, u0)
    BY <1>2, ShiftStart
  <2>2. ~(0 >= R(e))
    BY <1>1, <1>2, <1>3
  <2> HIDE DEF r, R, u0
  <2>3. QED
    BY <1>1, <1>5, <2>1, <2>2
<1> HIDE DEF r
<1>7. ASSUME NEW d \in 0..N-1, d \in G PROVE d + 1 \in G
  <2> DEFINE p == After(N, hole, d + 1)
             u == r[d].tbl
  <2>1. /\ r[d + 1] = Visit(r[d], ch, p) /\ Good(d) /\ d + 1 \in 1..N /\ d + 1 \in 0..N /\ d \in Nat
        /\ r[d + 1] \in ShiftStates(N)
    <3>1. d + 1 \in 1..N /\ d + 1 \in 0..N /\ d \in Nat
      BY <1>1
    <3>2. Good(d)
      BY <1>7
    <3> HIDE DEF Good
    <3>3. r[d + 1] = Visit(r[d], ch, p) /\ r[d + 1] \in ShiftStates(N)
      BY <1>5, <3>1
    <3>4. QED
      BY <3>1, <3>2, <3>3
  <2>2. p \in 0..N-1 /\ (d + 1 < N => R(p) = d + 1)
    BY <1>1, <2>1, AfterHole
  <2>3. r[d] \in [tbl : {w \in LooseTables : w.cap = N}, done : BOOLEAN] /\ R(e) \in 0..N-1
    BY <1>3, <2>1 DEF ShiftStates
  <2> HIDE DEF p
  <2>4. CASE d + 1 < R(e)
    <3>1. ~r[d].done /\ Shifting(t, ch, hole, e, d, u)
      BY <2>1, <2>3, <2>4
    <3>2. p \in Indexes(t) /\ R(p) = d + 1
      BY <1>1, <2>2, <2>3, <2>4
    <3>3. p \in Occupied(u) /\ Shifting(t, ch, hole, e, d + 1, Reinsert(u, ch, p))
      BY <1>1, <1>2, <2>1, <2>4, <3>1, <3>2, ShiftStep
    <3>4. r[d + 1] = [r[d] EXCEPT !.tbl = Reinsert(@, ch, p)]
      BY <2>1, <3>1, <3>3 DEF Visit, Occupied
    <3>5. ~r[d + 1].done /\ r[d + 1].tbl = Reinsert(u, ch, p)
      BY <2>3, <3>1, <3>4
    <3>6. ~(d + 1 >= R(e))
      BY <2>1, <2>3, <2>4
    <3> HIDE DEF R, u
    <3>7. QED
      BY <2>1, <3>3, <3>5, <3>6
  <2>5. CASE d + 1 = R(e)
    <3>1. ~r[d].done /\ Shifting(t, ch, hole, e, d, u)
      BY <2>1, <2>3, <2>5
    <3>2. p = e
      BY <1>1, <1>3, <2>2, <2>3, <2>5
    <3>3. u.slots[p] = NoEntry
      <4>1. R(e) > d
        BY <2>1, <2>5
      <4>2. QED
        BY <1>3, <3>1, <3>2, <4>1 DEF Shifting
    <3>4. r[d + 1] = [r[d] EXCEPT !.done = TRUE]
      BY <2>1, <3>1, <3>3 DEF Visit
    <3>5. r[d + 1].done /\ r[d + 1].tbl = u
      BY <2>3, <3>4
    <3>6. R(e) - 1 = d /\ ~(d + 1 < R(e))
      BY <2>1, <2>5
    <3> HIDE DEF R, u
    <3>7. QED
      BY <2>1, <3>1, <3>5, <3>6
  <2>6. CASE d + 1 > R(e)
    <3>1. d >= R(e) /\ ~(d + 1 < R(e)) /\ d + 1 >= R(e)
      BY <2>1, <2>3, <2>6
    <3>2. r[d].done
      BY <2>1, <3>1
    <3>3. r[d + 1] = r[d]
      BY <2>1, <3>2 DEF Visit
    <3> HIDE DEF R
    <3>4. QED
      BY <2>1, <3>1, <3>3
  <2>7. QED
    BY <2>1, <2>3, <2>4, <2>5, <2>6
<1>8. N \in G
  <2> HIDE DEF G, N
  <2>1. \A d \in 0..N : d \in G
    BY <1>1, <1>6, <1>7, CountingUp
  <2>2. QED
    BY <1>1, <2>1
<1>9. Shifting(t, ch, hole, e, R(e) - 1, r[N].tbl)
  <2>1. N >= R(e)
    BY <1>1, <1>3
  <2> HIDE DEF R
  <2>2. QED
    BY <1>8, <2>1
<1>10. Tight(r[N].tbl, ch)
  BY <1>1, <1>9, ShiftEnd
<1>11. EntriesOf(r[N].tbl) = EntriesOf(t) \ {t.slots[hole]}
  BY <1>9 DEF Shifting
<1>12. ShiftUp(u0, ch, hole) = r[N].tbl
  BY <1>4 DEF ShiftUp, r
<1>13. QED
  BY <1>10, <1>11, <1>12

(* tableDelete takes out the entry of the characters sought, and no other, *)
(* and leaves a tight table (table.c:139). *)
THEOREM TableDeleteTight ==
  ASSUME NEW ch \in KeyChars, NEW t, Tight(t, ch), NEW c \in Chars
  PROVE  /\ Tight(TableDelete(t, ch, c), ch)
         /\ EntriesOf(TableDelete(t, ch, c)) = Others(t, ch, c)
<1> DEFINE i == FindEntry(t, ch, c)
<1>1. /\ t \in Tables /\ Loose(t) /\ Sound(t, ch) /\ t.cap \in Nat /\ IsFiniteSet(Occupied(t))
      /\ t.count = Cardinality(Occupied(t))
  BY LooseIsTable DEF Tight, Sound
<1>2. CASE t.count = 0
  <2>1. Occupied(t) = {}
    BY <1>1, <1>2, FS_EmptySet
  <2>2. EntriesOf(t) = {}
    BY <2>1 DEF EntriesOf
  <2>3. QED
    BY <1>2, <2>2 DEF TableDelete, Others
<1>3. CASE t.count # 0 /\ ~Has(t, ch, c)
  <2>1. t.cap # 0
    <3>1. Cardinality(Occupied(t)) <= t.cap /\ Cardinality(Occupied(t)) \in Nat
      BY <1>1, OccupiedFinite
    <3>2. QED
      BY <1>1, <1>3, <3>1
  <2>2. FirstStop(t, ch, c, i) /\ t.slots[i] = NoEntry
    BY <1>1, <1>3, <2>1, LooseStops DEF Has
  <2>3. ASSUME NEW j \in Occupied(t) PROVE CharsAt(t, ch, j) # c
    <3>1. CharsAt(t, ch, j) = c => i = j
      BY <1>1, <2>2, StopsAtOnly
    <3>2. QED
      BY <2>2, <3>1 DEF Occupied
  <2>4. Others(t, ch, c) = EntriesOf(t)
    BY <2>3 DEF Others, EntriesOf, CharsAt
  <2>5. QED
    BY <1>3, <2>4 DEF TableDelete
<1>4. CASE t.count # 0 /\ Has(t, ch, c)
  <2>1. FirstStop(t, ch, c, i) /\ t.slots[i] # NoEntry
    BY <1>1, <1>4, LooseStops DEF Has
  <2>2. i \in Occupied(t) /\ CharsAt(t, ch, i) = c
    BY <2>1 DEF FirstStop, StopsAt, Occupied, CharsAt
  <2>3. TableDelete(t, ch, c) = ShiftUp(Vacate(t, i), ch, i)
    BY <1>4 DEF TableDelete
  <2> HIDE DEF i
  <2>4. Tight(TableDelete(t, ch, c), ch) /\ EntriesOf(TableDelete(t, ch, c)) = EntriesOf(t) \ {t.slots[i]}
    BY <2>2, <2>3, ShiftUpTight
  <2>5. \A j \in Occupied(t) : CharsAt(t, ch, j) = c <=> t.slots[j] = t.slots[i]
    BY <1>1, <2>2, SoundUnique DEF CharsAt
  <2>6. EntriesOf(t) \ {t.slots[i]} = Others(t, ch, c)
    BY <2>5 DEF Others, EntriesOf, CharsAt
  <2>7. QED
    BY <2>4, <2>6
<1>5. QED
  BY <1>2, <1>3, <1>4

-----------------------------------------------------------------------------
(***************************************************************************)
(* Looking up.                                                             *)
(***************************************************************************)
(* A lookup finds exactly the characters of the entries, and answers with  *)
(* the value of the entry. *)
LEMMA LookupFinds ==
  ASSUME NEW ch \in KeyChars, NEW t, Sound(t, ch), NEW e \in EntriesOf(t)
  PROVE  Has(t, ch, ch[e.key]) /\ TableGet(t, ch, ch[e.key]) = e.val
<1>1. PICK i \in Occupied(t) : e = t.slots[i]
  BY DEF EntriesOf
<1>2. FindEntry(t, ch, ch[e.key]) = i
  BY <1>1, SoundFinds DEF CharsAt
<1>3. t \in Tables /\ i \in Indexes(t) /\ t.slots[i] # NoEntry /\ t.cap \in Nat
  BY TableFields DEF Sound, Occupied
<1>4. t.cap > 0
  BY <1>3 DEF Indexes
<1>5. QED
  BY <1>1, <1>2, <1>3, <1>4 DEF Has, TableGet

(* A lookup that finds, finds an entry with these characters, whatever     *)
(* became of the other keys.                                               *)
LEMMA LookupFinds2 ==
  ASSUME NEW ch, NEW t, Loose(t), NEW c \in Chars, Has(t, ch, c)
  PROVE  \E e \in EntriesOf(t) : ch[e.key] = c
<1> DEFINE i == FindEntry(t, ch, c)
<1>1. t.cap > 0 /\ t.slots[i] # NoEntry
  BY DEF Has
<1>2. FirstStop(t, ch, c, i)
  BY <1>1, LooseStops
<1>3. i \in Occupied(t) /\ ch[t.slots[i].key] = c
  BY <1>1, <1>2 DEF FirstStop, StopsAt, Occupied
<1>4. QED
  BY <1>3 DEF EntriesOf

(* The lookup of the intern table finds what findEntry finds. *)
LEMMA FindsStringIsHas ==
  ASSUME NEW ch \in KeyChars, NEW t, Tight(t, ch), NEW c \in Chars
  PROVE  FindsString(t, ch, c) = Has(t, ch, c)
<1>1. t \in Tables /\ Loose(t) /\ Sound(t, ch) /\ t.cap \in Nat
  BY LooseIsTable DEF Tight
<1>2. ASSUME FindsString(t, ch, c) PROVE Has(t, ch, c)
  <2>1. t.cap > 0
    BY <1>2 DEF FindsString
  <2>2. PICK d \in Indexes(t) : t.slots[Slot(t, c, d)] # NoEntry /\ ch[t.slots[Slot(t, c, d)].key] = c
    BY <1>2 DEF FindsString
  <2>3. Slot(t, c, d) \in Occupied(t)
    BY <1>1, <2>2, SlotOfDist DEF Occupied
  <2>4. t.slots[Slot(t, c, d)] \in EntriesOf(t)
    BY <2>3 DEF EntriesOf
  <2>5. QED
    BY <1>1, <2>2, <2>4, LookupFinds
<1>3. ASSUME Has(t, ch, c) PROVE FindsString(t, ch, c)
  <2> DEFINE i == FindEntry(t, ch, c)
             d == Dist(t, c, i)
  <2>1. t.cap > 0 /\ t.slots[i] # NoEntry
    BY <1>3 DEF Has
  <2>2. FirstStop(t, ch, c, i)
    BY <1>1, <2>1, LooseStops
  <2>3. i \in Indexes(t) /\ ch[t.slots[i].key] = c
    BY <2>1, <2>2 DEF FirstStop, StopsAt
  <2> HIDE DEF i
  <2>4. d \in Indexes(t) /\ Slot(t, c, d) = i
    BY <1>1, <2>3, SlotOfDist
  <2>5. \A e \in 0..d-1 : ~StopsAt(t, ch, c, Slot(t, c, e))
    BY <1>1, <2>2, <2>3, FirstStopProbes DEF ProbesBefore
  <2> HIDE DEF d
  <2>6. \A e \in 0..d-1 : t.slots[Slot(t, c, e)] # NoEntry
    BY <2>5 DEF StopsAt
  <2>7. QED
    BY <2>1, <2>3, <2>4, <2>6 DEF FindsString
<1>4. FindsString(t, ch, c) \in BOOLEAN /\ Has(t, ch, c) \in BOOLEAN
  BY DEF FindsString, Has
<1>5. QED
  BY <1>2, <1>3, <1>4

(* An entry for each occupied slot, and no two the same. *)
LEMMA EntriesCounted ==
  ASSUME NEW ch \in KeyChars, NEW t, Sound(t, ch)
  PROVE  IsFiniteSet(EntriesOf(t)) /\ Cardinality(EntriesOf(t)) = t.count
<1> DEFINE f == [i \in Occupied(t) |-> t.slots[i]]
<1>1. IsFiniteSet(Occupied(t)) /\ t.count = Cardinality(Occupied(t))
  BY OccupiedFinite DEF Sound
<1>2. \A i, j \in Occupied(t) : f[i] = f[j] => i = j
  BY SoundUnique DEF CharsAt
<1>3. f \in [Occupied(t) -> EntriesOf(t)] /\ \A e \in EntriesOf(t) : \E i \in Occupied(t) : f[i] = e
  BY DEF EntriesOf
<1> HIDE DEF f
<1>4. f \in Bijection(Occupied(t), EntriesOf(t))
  BY <1>2, <1>3 DEF Bijection, Injection, Surjection, IsInjective
<1>5. ExistsBijection(Occupied(t), EntriesOf(t))
  BY <1>4 DEF ExistsBijection
<1>6. QED
  BY <1>1, <1>5, FS_Bijection

(* Two sound tables of the same entries compare equal: Map#==. *)
LEMMA SameEntriesEqual ==
  ASSUME NEW ch \in KeyChars, NEW t, Sound(t, ch), NEW u, Sound(u, ch), EntriesOf(t) = EntriesOf(u)
  PROVE  SameEntries(t, u, ch)
<1>1. t.count = u.count
  BY EntriesCounted
<1>2. ASSUME NEW i \in Occupied(t)
      PROVE  /\ Has(u, ch, ch[t.slots[i].key])
             /\ TableGet(u, ch, ch[t.slots[i].key]) = t.slots[i].val
  <2>1. t.slots[i] \in EntriesOf(u)
    BY DEF EntriesOf
  <2>2. QED
    BY <2>1, LookupFinds
<1>3. QED
  BY <1>1, <1>2 DEF SameEntries

(* What is copied into a new table is there, and nothing else. *)
LEMMA CopyTight ==
  ASSUME NEW ch \in KeyChars, NEW t, Sound(t, ch), NEW n \in Nat, n = 0 \/ n >= MinCapacity
  PROVE  Tight(AddAll(t, Fresh(n), ch), ch) /\ EntriesOf(AddAll(t, Fresh(n), ch)) = EntriesOf(t)
<1>1. Tight(Fresh(n), ch) /\ EntriesOf(Fresh(n)) = {} /\ t \in Tables
  BY FreshIsLoose, FreshIsSound DEF Tight, Sound
<1>2. Tight(AddAll(t, Fresh(n), ch), ch)
  BY <1>1, AddAllTight
<1>3. Missing(Fresh(n), ch, EntriesOf(t)) = {}
  BY <1>1 DEF Missing
<1>4. QED
  BY <1>1, <1>2, <1>3, AddAllEntries
=============================================================================

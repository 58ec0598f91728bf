------------------------------ MODULE MapProofs ------------------------------
(***************************************************************************)
(* The maps of a program: what holds however the program changes the keys  *)
(* a map holds, and what holds while it leaves them alone.                 *)
(***************************************************************************)
EXTENDS TableProofs

TablesLoose == \A m \in Maps : Loose(table[m])
Inv == TypeOK /\ TablesLoose

(* A loose table is one of LoxMap's tables. *)
LEMMA LooseTyped ==
  ASSUME NEW t, Loose(t)
  PROVE  t.cap \in Nat /\ t \in TablesOf(t.cap)
<1>1. t \in Tables /\ t.cap \in Nat /\ t.count \in Nat
  BY LooseIsTable
<1>2. t.slots \in [Indexes(t) -> Slots] /\ t = [count |-> t.count, cap |-> t.cap, slots |-> t.slots]
  BY <1>1, TableFields
<1>3. [count |-> t.count, cap |-> t.cap, slots |-> t.slots] \in TablesOf(t.cap)
  BY <1>1, <1>2 DEF TablesOf, Indexes
<1>4. QED
  BY <1>1, <1>2, <1>3

\* What TypeOK says of everything but the tables.
RestOK ==
  /\ loop \in [Maps -> LoopStates]
  /\ frozen \subseteq Maps
  /\ chars \in [Keys -> Chars]
  /\ vm \in {"ok", "unreachable", "dangling"}
  /\ ret \in Values \cup {Nil} \cup BOOLEAN

(* The invariant, taken apart: each table is loose, which types it. *)
LEMMA InvParts ==
  Inv <=> /\ table = [m \in Maps |-> table[m]]
          /\ TablesLoose
          /\ RestOK
BY LooseTyped DEF Inv, TypeOK, TablesLoose, RestOK

(* Maps start without an entry array. *)
LEMMA InitInv == Init => Inv
<1> SUFFICES ASSUME Init PROVE Inv
  OBVIOUS
<1>1. Loose(Fresh(0))
  BY FreshIsLoose
<1>2. table = [m \in Maps |-> table[m]] /\ TablesLoose
  BY <1>1 DEF Init, TablesLoose
<1>3. NoLoop \in LoopStates
  BY DEF NoLoop, LoopStates
<1>4. RestOK
  BY <1>3, MapAssumption DEF Init, RestOK
<1>5. QED
  BY <1>2, <1>4, InvParts

(* Replacing one table by a loose one. *)
LEMMA ReplaceInv ==
  ASSUME Inv, NEW m \in Maps, NEW t, Loose(t), table' = [table EXCEPT ![m] = t], RestOK'
  PROVE  Inv'
<1>1. table = [o \in Maps |-> table[o]] /\ TablesLoose
  BY InvParts
<1>2. table' = [o \in Maps |-> IF o = m THEN t ELSE table[o]]
  BY <1>1
<1>3. table' = [o \in Maps |-> table'[o]]
  BY <1>2
<1>4. TablesLoose'
  BY <1>1, <1>2 DEF TablesLoose
<1>5. QED
  BY <1>3, <1>4, LooseTyped DEF Inv, TypeOK, TablesLoose, RestOK

(* Steps that leave the tables. *)
LEMMA SameTablesInv ==
  ASSUME Inv, UNCHANGED table, RestOK'
  PROVE  Inv'
<1>1. table' = [o \in Maps |-> table'[o]] /\ TablesLoose'
  BY InvParts DEF TablesLoose
<1>2. QED
  BY <1>1, LooseTyped DEF Inv, TypeOK, TablesLoose, RestOK

(* An operation in place. *)
LEMMA ChangeInv ==
  ASSUME Inv, NEW m \in Maps, NEW t, Loose(t), NEW a \in Values \cup {Nil} \cup BOOLEAN,
         Change(m, t, a)
  PROVE  Inv'
<1>1. RestOK
  BY InvParts
<1>2. table' = [table EXCEPT ![m] = t]
  BY DEF Change
<1>3. loop' \in [Maps -> LoopStates]
  BY <1>1 DEF Change, RestOK, LoopStates
<1>4. RestOK'
  BY <1>1, <1>3 DEF Change, RestOK
<1>5. QED
  BY <1>2, <1>4, ReplaceInv

(* A key that is found is found in an occupied slot. *)
LEMMA FoundEntry ==
  ASSUME NEW t, Loose(t), NEW ch, NEW c \in Chars, Has(t, ch, c)
  PROVE  FindEntry(t, ch, c) \in Occupied(t) /\ TableGet(t, ch, c) \in Values
<1>1. t.cap > 0 /\ t.slots[FindEntry(t, ch, c)] # NoEntry /\ t \in Tables
  BY LooseIsTable DEF Has
<1>2. FindEntry(t, ch, c) \in Occupied(t)
  BY <1>1, LooseStops DEF FirstStop, Occupied
<1>3. QED
  BY <1>1, <1>2, OccupiedEntry DEF TableGet

(* Map#[]= keeps the invariant. *)
LEMMA SetInv ==
  ASSUME Inv, NEW m \in Maps, NEW k \in Keys, NEW v \in Values, Set(m, k, v)
  PROVE  Inv'
<1>1. Loose(TableSet(table[m], chars, k, v))
  BY TableSetLoose DEF Inv, TablesLoose
<1>2. QED
  BY <1>1, ChangeInv DEF Set

(* Map#[] keeps the invariant. *)
LEMMA GetInv ==
  ASSUME Inv, NEW m \in Maps, NEW k \in Keys, Get(m, k)
  PROVE  Inv'
<1>1. Loose(table[m]) /\ RestOK /\ chars[k] \in Chars
  BY InvParts DEF TablesLoose, RestOK
<1>2. ret' \in Values \cup {Nil}
  BY <1>1, FoundEntry DEF Get
<1>3. RestOK'
  BY <1>1, <1>2 DEF Get, RestOK
<1>4. QED
  BY <1>3, SameTablesInv DEF Get

(* Map#delete keeps the invariant. *)
LEMMA DeleteInv ==
  ASSUME Inv, NEW m \in Maps, NEW k \in Keys, Delete(m, k)
  PROVE  Inv'
<1>1. Loose(table[m]) /\ RestOK /\ chars[k] \in Chars
  BY InvParts DEF TablesLoose, RestOK
<1>2. Loose(TableDelete(table[m], chars, chars[k]))
  BY <1>1, TableDeleteLoose
<1>3. Has(table[m], chars, chars[k]) \in BOOLEAN
  BY DEF Has
<1>4. QED
  BY <1>2, <1>3, ChangeInv DEF Delete

(* Map#clear keeps the invariant. *)
LEMMA ClearInv ==
  ASSUME Inv, NEW m \in Maps, Clear(m)
  PROVE  Inv'
BY FreshIsLoose, ChangeInv DEF Clear

(* Map#mergeWith keeps the invariant. *)
LEMMA MergeWithInv ==
  ASSUME Inv, NEW m \in Maps, NEW o \in Maps, MergeWith(m, o)
  PROVE  Inv'
<1>1. Loose(AddAll(table[o], table[m], chars))
  BY AddAllLoose, LooseIsTable DEF Inv, TablesLoose
<1>2. QED
  BY <1>1, ChangeInv DEF MergeWith

(* Map#dup keeps the invariant. *)
LEMMA DupInv ==
  ASSUME Inv, NEW m \in Maps, NEW o \in Maps, Dup(m, o)
  PROVE  Inv'
<1>1. Loose(AddAll(table[o], Fresh(0), chars))
  BY AddAllLoose, LooseIsTable, FreshIsLoose DEF Inv, TablesLoose
<1>2. NoLoop \in LoopStates
  BY DEF NoLoop, LoopStates
<1>3. RestOK'
  BY <1>2, InvParts DEF Dup, RestOK
<1>4. QED
  BY <1>1, <1>3, ReplaceInv DEF Dup

(* Map#rehash ends in a loose table. *)
LEMMA RehashedLoose ==
  ASSUME NEW t, Loose(t), NEW ch
  PROVE  Loose(Rehashed(t, ch))
<1>1. Loose(Fresh(t.cap)) /\ t \in Tables
  BY LooseIsTable, FreshIsLoose
<1>2. QED
  BY <1>1, AddAllLoose DEF Rehashed

(* Map#rehash keeps the invariant. *)
LEMMA RehashInv ==
  ASSUME Inv, NEW m \in Maps, Rehash(m)
  PROVE  Inv'
<1>1. Loose(Rehashed(table[m], chars))
  BY RehashedLoose DEF Inv, TablesLoose
<1>2. loop \in [Maps -> LoopStates] /\ RestOK
  BY InvParts DEF RestOK
<1>3. loop' \in [Maps -> LoopStates]
  <2>1. loop[m] \in LoopStates
    BY <1>2
  <2>2. PICK s \in BOOLEAN :
          loop' = [loop EXCEPT ![m] = [loop[m] EXCEPT !.clean = FALSE, !.stale = s]]
    <3>1. (loop[m].stale \/ loop[m].kind = "each") \in BOOLEAN
      BY <2>1 DEF LoopStates
    <3>2. QED
      BY <1>2, <3>1 DEF Rehash
  <2>3. [loop[m] EXCEPT !.clean = FALSE, !.stale = s] \in LoopStates
    BY <2>1 DEF LoopStates
  <2>4. QED
    BY <1>2, <2>2, <2>3
<1>4. RestOK'
  BY <1>2, <1>3 DEF Rehash, RestOK
<1>5. QED
  BY <1>1, <1>4, ReplaceInv DEF Rehash

(* A change of a key in place keeps the invariant. *)
LEMMA MutateInv ==
  ASSUME Inv, NEW k \in Keys, NEW c \in Chars, Mutate(k, c)
  PROVE  Inv'
<1>1. RestOK
  BY InvParts
<1>2. loop' \in [Maps -> LoopStates]
  BY <1>1 DEF Mutate, RestOK, LoopStates
<1>3. chars' \in [Keys -> Chars]
  BY <1>1 DEF Mutate, RestOK
<1>4. RestOK'
  BY <1>1, <1>2, <1>3 DEF Mutate, RestOK
<1>5. QED
  BY <1>4, SameTablesInv DEF Mutate

(* A step that yields an entry of the map, at any position. *)
LEMMA YieldTyped ==
  ASSUME Inv, NEW m \in Maps, NEW i \in Occupied(table[m]), NEW at \in Nat,
         Yield(m, table[m].slots[i].key, at)
  PROVE  loop' \in [Maps -> LoopStates]
<1>1. table[m].slots[i].key \in Keys
  BY OccupiedEntry, LooseIsTable DEF Inv, TablesLoose
<1>2. loop \in [Maps -> LoopStates]
  BY InvParts DEF RestOK
<1>3. QED
  <2> DEFINE k == table[m].slots[i].key
             l == [loop[m] EXCEPT !.at = at, !.seen = @ \cup {k}]
  <2>1. loop[m] \in LoopStates /\ loop[m].seen \cup {k} \in SUBSET Keys
    BY <1>1, <1>2 DEF LoopStates
  <2>2. l \in LoopStates
    BY <2>1 DEF LoopStates
  <2>3. loop' = [loop EXCEPT ![m] = l]
    BY <1>2 DEF Yield
  <2> HIDE DEF l
  <2>4. QED
    BY <1>2, <2>2, <2>3

(* A step that ends a loop. *)
LEMMA FinishTyped ==
  ASSUME Inv, NEW m \in Maps, NEW how \in {"none", "iterated", "eached"}, Finish(m, how)
  PROVE  loop' \in [Maps -> LoopStates]
<1>1. loop \in [Maps -> LoopStates]
  BY InvParts DEF RestOK
<1>2. QED
  BY <1>1 DEF Finish, LoopStates

\* Of a step of a loop.
LoopStepOK ==
  /\ loop' \in [Maps -> LoopStates]
  /\ vm' \in {"ok", "unreachable", "dangling"}
  /\ UNCHANGED <<table, frozen, chars, ret>>

(* A step of a loop keeps the invariant. *)
LEMMA LoopInv ==
  ASSUME Inv, LoopStepOK
  PROVE  Inv'
<1>1. RestOK'
  BY InvParts DEF RestOK, LoopStepOK
<1>2. QED
  BY <1>1, SameTablesInv DEF LoopStepOK

(* Iterator#next keeps the invariant. *)
LEMMA IterNextInv ==
  ASSUME Inv, NEW m \in Maps, IterNext(m)
  PROVE  Inv'
<1> DEFINE at == loop[m].at
<1>0. /\ UNCHANGED <<table, frozen, chars, ret>> /\ vm \in {"ok", "unreachable", "dangling"}
      /\ loop \in [Maps -> LoopStates] /\ at \in Nat /\ table[m] \in Tables
  BY InvParts, LooseIsTable DEF IterNext, Step, RestOK, LoopStates, TablesLoose
<1>1. CASE Finish(m, "iterated")
  BY <1>0, <1>1, FinishTyped, LoopInv DEF Finish, LoopStepOK
<1>2. CASE HasNth(table[m], at) /\ Yield(m, NthEntry(table[m], at).key, at + 1)
  <2>1. PICK i \in Occupied(table[m]) : NthEntry(table[m], at) = table[m].slots[i]
    BY <1>0, <1>2, NthEntryIs
  <2>2. loop' \in [Maps -> LoopStates]
    <3> DEFINE n == at + 1
    <3>1. n \in Nat /\ Yield(m, table[m].slots[i].key, n)
      BY <1>0, <1>2, <2>1
    <3> HIDE DEF n
    <3>2. QED
      BY <3>1, YieldTyped
  <2>3. QED
    BY <1>0, <1>2, <2>2, LoopInv DEF Yield, LoopStepOK
<1>3. CASE Die("unreachable")
  BY <1>0, <1>3, LoopInv DEF Die, LoopStepOK
<1>4. QED
  BY <1>1, <1>2, <1>3 DEF IterNext

(* Map#each, from block to block, keeps the invariant. *)
LEMMA EachNextInv ==
  ASSUME Inv, NEW m \in Maps, EachNext(m)
  PROVE  Inv'
<1>0. /\ UNCHANGED <<table, frozen, chars, ret>> /\ vm \in {"ok", "unreachable", "dangling"}
      /\ loop \in [Maps -> LoopStates] /\ loop[m].at \in Nat /\ table[m] \in Tables
  BY InvParts, LooseIsTable DEF EachNext, Step, RestOK, LoopStates, TablesLoose
<1>1. CASE Die("dangling")
  BY <1>0, <1>1, LoopInv DEF Die, LoopStepOK
<1>2. CASE Finish(m, "eached")
  BY <1>0, <1>2, FinishTyped, LoopInv DEF Finish, LoopStepOK
<1> DEFINE i == CHOOSE j \in Ahead(m) : \A l \in Ahead(m) : j <= l
<1>3. CASE ~EachDone(m) /\ Yield(m, table[m].slots[i].key, i + 1)
  <2>1. Ahead(m) # {} /\ Ahead(m) \in SUBSET Nat /\ Ahead(m) \subseteq Occupied(table[m])
    <3>1. table[m].cap \in Nat
      BY <1>0, TableFields
    <3>2. Occupied(table[m]) \in SUBSET Nat
      BY <3>1 DEF Occupied, Indexes
    <3>3. Ahead(m) # {} /\ Ahead(m) \subseteq Occupied(table[m])
      BY <1>3 DEF EachDone, Ahead
    <3>4. QED
      BY <3>2, <3>3
  <2>2. \E j \in Ahead(m) : \A l \in Ahead(m) : j <= l
    BY <2>1, LeastMember
  <2>3. i \in Ahead(m)
    BY <2>2
  <2> HIDE DEF i
  <2>4. i \in Nat /\ i \in Occupied(table[m])
    BY <2>1, <2>3
  <2>5. loop' \in [Maps -> LoopStates]
    <3> DEFINE n == i + 1
    <3>1. n \in Nat /\ Yield(m, table[m].slots[i].key, n)
      BY <1>3, <2>4
    <3> HIDE DEF n
    <3>2. QED
      BY <2>4, <3>1, YieldTyped
  <2>6. QED
    BY <1>0, <1>3, <2>5, LoopInv DEF Yield, LoopStepOK
<1>4. QED
  BY <1>1, <1>2, <1>3 DEF EachNext

(* The beginning of a loop keeps the invariant. *)
LEMMA StartLoopInv ==
  ASSUME Inv, NEW m \in Maps, NEW kind \in Loops, StartLoop(m, kind)
  PROVE  Inv'
<1>1. kind \in {"each", "iter"}
  BY MapAssumption
<1>2. [NoLoop EXCEPT !.kind = kind] \in LoopStates
  BY <1>1 DEF NoLoop, LoopStates
<1>3. LoopStepOK
  BY <1>2, InvParts DEF StartLoop, RestOK, LoopStepOK
<1>4. QED
  BY <1>3, LoopInv

(* Leaving a loop keeps the invariant. *)
LEMMA BreakInv ==
  ASSUME Inv, NEW m \in Maps, Break(m)
  PROVE  Inv'
<1>1. loop' \in [Maps -> LoopStates]
  BY FinishTyped DEF Break
<1>2. LoopStepOK
  BY <1>1, InvParts DEF Break, Step, Finish, RestOK, LoopStepOK
<1>3. QED
  BY <1>2, LoopInv

(* Freezing or unfreezing a map keeps the invariant. *)
LEMMA FreezeInv ==
  ASSUME Inv, NEW m \in Maps, Freeze(m)
  PROVE  Inv'
<1>1. RestOK'
  BY InvParts DEF Freeze, RestOK
<1>2. QED
  BY <1>1, SameTablesInv DEF Freeze

(* Every step keeps the invariant. *)
LEMMA NextInv == Inv /\ [Next]_vars => Inv'
<1> SUFFICES ASSUME Inv, [Next]_vars PROVE Inv'
  OBVIOUS
<1>1. ASSUME NEW m \in Maps, NEW k \in Keys,
             Get(m, k) \/ Delete(m, k) \/ \E v \in Values : Set(m, k, v)
      PROVE  Inv'
  BY <1>1, GetInv, DeleteInv, SetInv
<1>2. ASSUME NEW m \in Maps, Clear(m) \/ Rehash(m) \/ Freeze(m) PROVE Inv'
  BY <1>2, ClearInv, RehashInv, FreezeInv
<1>3. ASSUME NEW m \in Maps, NEW o \in Maps, Dup(m, o) \/ MergeWith(m, o) PROVE Inv'
  BY <1>3, DupInv, MergeWithInv
<1>4. ASSUME NEW m \in Maps, \E kind \in Loops : StartLoop(m, kind) PROVE Inv'
  BY <1>4, StartLoopInv
<1>5. ASSUME NEW m \in Maps, IterNext(m) \/ EachNext(m) \/ Break(m) PROVE Inv'
  BY <1>5, IterNextInv, EachNextInv, BreakInv
<1>6. ASSUME NEW k \in Keys, NEW c \in Chars, Mutate(k, c) PROVE Inv'
  BY <1>6, MutateInv
<1>7. CASE UNCHANGED vars
  <2>1. UNCHANGED table /\ RestOK'
    BY <1>7, InvParts DEF vars, RestOK
  <2>2. QED
    BY <2>1, SameTablesInv
<1>8. QED
  BY <1>1, <1>2, <1>3, <1>4, <1>5, <1>6, <1>7 DEF Next

(* The inductive invariant, for any keys the program may change. *)
THEOREM Invariance == Spec => []Inv
<1>1. QED
  BY InitInv, NextInv, PTL DEF Spec

(* TypeOK: every slot holds no entry or an entry, every count is a natural *)
(* number and every loop is of a known kind, whatever the program does to  *)
(* the keys its maps hold (table.c, map.c). *)
THEOREM TypeCorrect == Spec => []TypeOK
<1>1. Inv => TypeOK
  BY DEF Inv
<1>2. QED
  BY <1>1, Invariance, PTL

(* RoomLeft: a quarter of every table is empty, so that findEntry's probe  *)
(* ends, whatever was deleted, merged or changed under the table           *)
(* (table.c:77). *)
THEOREM RoomIsLeft == Spec => []RoomLeft
<1>1. Inv => RoomLeft
  BY LooseIsTable DEF Inv, TablesLoose, RoomLeft
<1>2. QED
  BY <1>1, Invariance, PTL

-----------------------------------------------------------------------------
(***************************************************************************)
(* Programs that leave the keys of their maps alone.                       *)
(***************************************************************************)
TablesTight == \A m \in Maps : Tight(table[m], chars)

(* What the proofs below need of the invariant. *)
LEMMA InvFacts ==
  ASSUME Inv
  PROVE  /\ chars \in KeyChars /\ table = [m \in Maps |-> table[m]]
         /\ \A m \in Maps : Loose(table[m]) /\ table[m] \in Tables
BY InvParts, LooseIsTable DEF TablesLoose, RestOK, KeyChars

(* A new map has no entry out of reach. *)
LEMMA FreshIsTight ==
  ASSUME NEW ch \in KeyChars, NEW n \in Nat, n = 0 \/ n >= MinCapacity
  PROVE  Tight(Fresh(n), ch) /\ EntriesOf(Fresh(n)) = {}
BY FreshIsLoose, FreshIsSound DEF Tight

(* Maps start with every entry, none, within reach. *)
LEMMA InitTight == Init => TablesTight
<1> SUFFICES ASSUME Init PROVE TablesTight
  OBVIOUS
<1>1. chars \in KeyChars
  BY InitInv, InvFacts
<1>2. QED
  BY <1>1, FreshIsTight DEF Init, TablesTight

(* One table replaced by a tight one. *)
LEMMA ReplaceTight ==
  ASSUME Inv, TablesTight, NEW m \in Maps, NEW t, Tight(t, chars),
         table' = [table EXCEPT ![m] = t], chars' = chars
  PROVE  TablesTight'
<1>1. \A o \in Maps : table'[o] = IF o = m THEN t ELSE table[o]
  BY InvFacts
<1>2. \A o \in Maps : Tight(table'[o], chars)
  BY <1>1 DEF TablesTight
<1>3. QED
  BY <1>2 DEF TablesTight

(* Every step of a program that changes no key keeps the tables tight. *)
LEMMA TightNext ==
  MutableKeys = {} /\ Inv /\ TablesTight /\ [Next]_vars => TablesTight'
<1> SUFFICES ASSUME MutableKeys = {}, Inv, TablesTight, [Next]_vars PROVE TablesTight'
  OBVIOUS
<1>0. chars \in KeyChars /\ \A m \in Maps : Tight(table[m], chars) /\ table[m] \in Tables
      /\ Sound(table[m], chars) /\ table[m].cap \in Nat
      /\ (table[m].cap = 0 \/ table[m].cap >= MinCapacity)
  BY InvFacts, LooseIsTable DEF TablesTight, Tight
<1>1. ASSUME NEW m \in Maps, NEW k \in Keys, NEW v \in Values, Set(m, k, v) PROVE TablesTight'
  <2>1. Tight(TableSet(table[m], chars, k, v), chars)
    BY <1>0, TableSetTight
  <2>2. QED
    BY <1>1, <2>1, ReplaceTight DEF Set, Change
<1>2. ASSUME NEW m \in Maps, NEW k \in Keys, Delete(m, k) PROVE TablesTight'
  <2>1. Tight(TableDelete(table[m], chars, chars[k]), chars)
    BY <1>0, TableDeleteTight DEF KeyChars
  <2>2. QED
    BY <1>2, <2>1, ReplaceTight DEF Delete, Change
<1>3. ASSUME NEW m \in Maps, Clear(m) PROVE TablesTight'
  BY <1>0, <1>3, FreshIsTight, ReplaceTight DEF Clear, Change
<1>4. ASSUME NEW m \in Maps, NEW o \in Maps, MergeWith(m, o) PROVE TablesTight'
  <2>1. Tight(AddAll(table[o], table[m], chars), chars)
    BY <1>0, AddAllTight
  <2>2. QED
    BY <1>4, <2>1, ReplaceTight DEF MergeWith, Change
<1>5. ASSUME NEW m \in Maps, NEW o \in Maps, Dup(m, o) PROVE TablesTight'
  <2>1. Tight(AddAll(table[o], Fresh(0), chars), chars)
    BY <1>0, CopyTight
  <2>2. QED
    BY <1>5, <2>1, ReplaceTight DEF Dup
<1>6. ASSUME NEW m \in Maps, Rehash(m) PROVE TablesTight'
  <2>1. Tight(Rehashed(table[m], chars), chars)
    BY <1>0, CopyTight DEF Rehashed
  <2>2. QED
    BY <1>6, <2>1, ReplaceTight DEF Rehash
<1>7. ASSUME UNCHANGED <<table, chars>> PROVE TablesTight'
  BY <1>7 DEF TablesTight
<1>8. ASSUME NEW m \in Maps,
             \/ \E k \in Keys : Get(m, k)
             \/ Freeze(m) \/ IterNext(m) \/ EachNext(m) \/ Break(m)
             \/ \E kind \in Loops : StartLoop(m, kind)
      PROVE  TablesTight'
  BY <1>7, <1>8 DEF Get, Freeze, IterNext, EachNext, Break, StartLoop, Step
<1>9. CASE UNCHANGED vars
  BY <1>7, <1>9 DEF vars
<1>10. ASSUME NEW k \in Keys, NEW c \in Chars, Mutate(k, c) PROVE FALSE
  BY <1>10 DEF Mutate
<1>11. QED
  BY <1>1, <1>2, <1>3, <1>4, <1>5, <1>6, <1>8, <1>9, <1>10 DEF Next

(* While no key changes, every probe finds its entry and every count is    *)
(* exact. *)
THEOREM TightInvariance == MutableKeys = {} => (Spec => [](Inv /\ TablesTight))
<1> SUFFICES ASSUME MutableKeys = {} PROVE Spec => [](Inv /\ TablesTight)
  OBVIOUS
<1>1. Init => Inv /\ TablesTight
  BY InitInv, InitTight
<1>2. (Inv /\ TablesTight) /\ [Next]_vars => (Inv /\ TablesTight)'
  BY NextInv, TightNext
<1>3. QED
  BY <1>1, <1>2, PTL DEF Spec

(* ProbesReach: linear probing finds every entry where it lies, after any  *)
(* sequence of sets, deletes, merges, copies and rehashes (table.c:139),   *)
(* and the lookup of the intern table finds the same keys (table.c:193).   *)
THEOREM ProbesFind == MutableKeys = {} => (Spec => []ProbesReach)
<1> SUFFICES ASSUME MutableKeys = {} PROVE Spec => []ProbesReach
  OBVIOUS
<1>1. Inv /\ TablesTight => ProbesReach
  <2> SUFFICES ASSUME Inv, TablesTight PROVE ProbesReach
    OBVIOUS
  <2>1. ASSUME NEW m \in Maps PROVE chars \in KeyChars /\ Tight(table[m], chars) /\ Sound(table[m], chars)
    BY InvFacts DEF TablesTight, Tight
  <2>2. ASSUME NEW m \in Maps, NEW i \in Occupied(table[m])
        PROVE  FindEntry(table[m], chars, chars[table[m].slots[i].key]) = i
    BY <2>1, SoundFinds DEF CharsAt
  <2>3. ASSUME NEW m \in Maps, NEW c \in Chars
        PROVE  FindsString(table[m], chars, c) = Has(table[m], chars, c)
    BY <2>1, FindsStringIsHas
  <2>4. QED
    BY <2>2, <2>3 DEF ProbesReach
<1>2. QED
  BY <1>1, TightInvariance, PTL

(* CountExact: the count that Map#size answers and Iterator#next trusts is *)
(* the number of entries. *)
THEOREM CountIsExact == MutableKeys = {} => (Spec => []CountExact)
<1> SUFFICES ASSUME MutableKeys = {} PROVE Spec => []CountExact
  OBVIOUS
<1>1. Inv /\ TablesTight => CountExact
  BY DEF TablesTight, Tight, Sound, CountExact
<1>2. QED
  BY <1>1, TightInvariance, PTL

(* CopyEqual: a copy made by Map#dup equals its original under Map#==, both *)
(* ways. *)
THEOREM CopiesAreEqual == MutableKeys = {} => (Spec => []CopyEqual)
<1> SUFFICES ASSUME MutableKeys = {} PROVE Spec => []CopyEqual
  OBVIOUS
<1>1. Inv /\ TablesTight => CopyEqual
  <2> SUFFICES ASSUME Inv, TablesTight, NEW m \in Maps
               PROVE  LET d == AddAll(table[m], Fresh(0), chars)
                      IN SameEntries(table[m], d, chars) /\ SameEntries(d, table[m], chars)
    BY DEF CopyEqual
  <2> DEFINE d == AddAll(table[m], Fresh(0), chars)
  <2>1. chars \in KeyChars /\ Sound(table[m], chars)
    BY InvFacts DEF TablesTight, Tight
  <2>2. Sound(d, chars) /\ EntriesOf(d) = EntriesOf(table[m])
    BY <2>1, CopyTight DEF Tight
  <2> HIDE DEF d
  <2>3. SameEntries(table[m], d, chars) /\ SameEntries(d, table[m], chars)
    BY <2>1, <2>2, SameEntriesEqual
  <2>4. QED
    BY <2>3 DEF d
<1>2. QED
  BY <1>1, TightInvariance, PTL

(* RehashRepairs: whatever was done to the keys, after a rehash every entry *)
(* is found again and the count is exact (object.c:172).                    *)
THEOREM RehashDoesRepair == Spec => RehashRepairs
<1>1. Inv /\ [Next]_vars =>
        [\A m \in Maps : Rehash(m) =>
           /\ table'[m].count = Cardinality({i \in Indexes(table'[m]) :
                                                table'[m].slots[i] # NoEntry})
           /\ \A k \in KeysOf(table[m]) : Has(table'[m], chars', chars'[k])]_vars
  <2> SUFFICES ASSUME Inv, NEW m \in Maps, Rehash(m)
               PROVE  /\ table'[m].count = Cardinality({i \in Indexes(table'[m]) :
                                            table'[m].slots[i] # NoEntry})
                      /\ \A k \in KeysOf(table[m]) : Has(table'[m], chars', chars'[k])
    OBVIOUS
  <2> DEFINE t == table[m]
             u == Rehashed(t, chars)
  <2>1. chars \in KeyChars /\ Loose(t) /\ t \in Tables
    BY InvFacts
  <2>2. table'[m] = u /\ chars' = chars
    BY InvFacts DEF Rehash
  <2>3. Tight(Fresh(t.cap), chars)
    BY <2>1, LooseIsTable, FreshIsTight
  <2>4. Tight(u, chars) /\ \A i \in Occupied(t) : \E e \in EntriesOf(u) : chars[e.key] = CharsAt(t, chars, i)
    BY <2>1, <2>3, AddAllTight DEF Rehashed
  <2> HIDE DEF u, t
  <2>5. u.count = Cardinality({i \in Indexes(u) : u.slots[i] # NoEntry})
    BY <2>4 DEF Tight, Sound, Occupied
  <2>6. ASSUME NEW k \in KeysOf(t) PROVE Has(u, chars, chars[k])
    <3>1. PICK i \in Occupied(t) : k = t.slots[i].key
      BY DEF KeysOf
    <3>2. PICK e \in EntriesOf(u) : chars[e.key] = chars[k]
      BY <2>4, <3>1 DEF CharsAt
    <3>3. QED
      BY <2>1, <2>4, <3>2, LookupFinds DEF Tight
  <2>7. QED
    BY <2>2, <2>5, <2>6 DEF t
<1>2. QED
  BY <1>1, Invariance, PTL DEF Spec, RehashRepairs

-----------------------------------------------------------------------------
(***************************************************************************)
(* Iterators.                                                              *)
(***************************************************************************)
\* The keys of the first n entries of a table.
FirstKeys(t, n) == {t.slots[i].key : i \in {j \in Occupied(t) : Cardinality(Below(t, j)) < n}}

\* An iterator over a map that nothing changes has yielded the first entries
\* and, once it has ended, all of them.
IterInv(m) ==
  loop[m].clean =>
    /\ loop[m].kind = "iter" => loop[m].seen = FirstKeys(table[m], loop[m].at)
    /\ loop[m].kind = "iterated" => loop[m].seen = KeysOf(table[m])

(* One more entry. *)
LEMMA FirstKeysGrow ==
  ASSUME NEW t \in Tables, NEW n \in Nat, HasNth(t, n)
  PROVE  FirstKeys(t, n + 1) = FirstKeys(t, n) \cup {NthEntry(t, n).key}
<1>1. PICK i \in Occupied(t) : Cardinality(Below(t, i)) = n /\ NthEntry(t, n) = t.slots[i]
  BY NthEntryIs
<1>2. \A j \in Occupied(t) : Cardinality(Below(t, j)) \in Nat
  BY BelowCounts, TableFields DEF Occupied, Indexes
<1>3. \A j \in Occupied(t) : Cardinality(Below(t, j)) = n => j = i
  BY <1>1, NthUnique
<1>4. {j \in Occupied(t) : Cardinality(Below(t, j)) < n + 1}
        = {j \in Occupied(t) : Cardinality(Below(t, j)) < n} \cup {i}
  BY <1>1, <1>2, <1>3
<1>5. QED
  BY <1>1, <1>4 DEF FirstKeys

(* As many as there are entries are all of them. *)
LEMMA FirstKeysAll ==
  ASSUME NEW t, Loose(t), NEW n \in Nat, n >= t.count
  PROVE  FirstKeys(t, n) = KeysOf(t)
<1>1. /\ t \in Tables /\ Cardinality(Occupied(t)) <= t.count /\ t.count \in Nat
      /\ Cardinality(Occupied(t)) \in Nat /\ IsFiniteSet(Occupied(t))
  BY LooseIsTable
<1>2. ASSUME NEW j \in Occupied(t) PROVE Cardinality(Below(t, j)) < n
  <2>1. j \in Nat
    BY <1>1, TableFields DEF Occupied, Indexes
  <2>2. Below(t, j) \in SUBSET Occupied(t) /\ Below(t, j) # Occupied(t)
    BY <2>1 DEF Below
  <2>3. Cardinality(Below(t, j)) < Cardinality(Occupied(t)) /\ Cardinality(Below(t, j)) \in Nat
    BY <1>1, <2>2, FS_Subset, FS_CardinalityType
  <2>4. QED
    BY <1>1, <2>3
<1>3. {j \in Occupied(t) : Cardinality(Below(t, j)) < n} = Occupied(t)
  BY <1>2
<1>4. QED
  BY <1>3 DEF FirstKeys, KeysOf

(* An iterator that does not move over a table that does not change, or    *)
(* one that is no longer clean. *)
LEMMA IterSame ==
  ASSUME NEW m, IterInv(m), table'[m] = table[m], loop'[m] = loop[m]
  PROVE  IterInv(m)'
BY DEF IterInv

(* Iterator#next: one more entry, or the end. *)
LEMMA IterNextKeeps ==
  ASSUME Inv, NEW m \in Maps, IterInv(m), IterNext(m)
  PROVE  IterInv(m)'
<1> DEFINE t == table[m]
           at == loop[m].at
<1>1. /\ loop[m].kind = "iter" /\ table'[m] = t /\ Loose(t) /\ t \in Tables
      /\ loop \in [Maps -> LoopStates] /\ at \in Nat
  BY InvFacts, InvParts DEF IterNext, Step, RestOK, LoopStates
<1>2. CASE at >= t.count /\ Finish(m, "iterated")
  <2>1. /\ loop'[m].kind = "iterated" /\ loop'[m].clean = loop[m].clean
        /\ loop'[m].seen = loop[m].seen
    BY <1>1, <1>2 DEF Finish, LoopStates
  <2>2. FirstKeys(t, at) = KeysOf(t)
    BY <1>1, <1>2, FirstKeysAll
  <2>3. QED
    BY <1>1, <2>1, <2>2 DEF IterInv
<1>3. CASE HasNth(t, at) /\ Yield(m, NthEntry(t, at).key, at + 1)
  <2>1. /\ loop'[m].kind = "iter" /\ loop'[m].clean = loop[m].clean /\ loop'[m].at = at + 1
        /\ loop'[m].seen = loop[m].seen \cup {NthEntry(t, at).key}
    BY <1>1, <1>3 DEF Yield, LoopStates
  <2>2. FirstKeys(t, at + 1) = FirstKeys(t, at) \cup {NthEntry(t, at).key}
    BY <1>1, <1>3, FirstKeysGrow
  <2>3. QED
    BY <1>1, <2>1, <2>2 DEF IterInv
<1>4. CASE Die("unreachable")
  BY <1>1, <1>4, IterSame DEF Die
<1>5. QED
  BY <1>2, <1>3, <1>4 DEF IterNext

(* A new iterator has yielded nothing. *)
LEMMA StartLoopKeeps ==
  ASSUME Inv, NEW m \in Maps, NEW kind \in Loops, StartLoop(m, kind)
  PROVE  IterInv(m)'
<1>1. loop \in [Maps -> LoopStates]
  BY InvParts DEF RestOK
<1>2. kind # "iterated"
  BY MapAssumption
<1>3. loop'[m] = [NoLoop EXCEPT !.kind = kind]
  BY <1>1 DEF StartLoop
<1>4. loop'[m].kind = kind /\ loop'[m].seen = {} /\ loop'[m].at = 0
  BY <1>3 DEF NoLoop
<1>5. table'[m] = table[m] /\ table[m] \in Tables
  BY InvFacts DEF StartLoop
<1>6. FirstKeys(table[m], 0) = {}
  <2>1. \A j \in Occupied(table[m]) : Cardinality(Below(table[m], j)) \in Nat
    BY <1>5, BelowCounts, TableFields DEF Occupied, Indexes
  <2>2. {j \in Occupied(table[m]) : Cardinality(Below(table[m], j)) < 0} = {}
    BY <2>1
  <2>3. QED
    BY <2>2 DEF FirstKeys
<1>7. QED
  BY <1>2, <1>4, <1>5, <1>6 DEF IterInv

(* Every step keeps what an iterator over m has promised. *)
LEMMA IterKept ==
  ASSUME Inv, [Next]_vars, NEW m \in Maps, IterInv(m)
  PROVE  IterInv(m)'
<1>0. loop \in [Maps -> LoopStates] /\ table = [o \in Maps |-> table[o]]
  BY InvFacts, InvParts DEF RestOK
<1>1. ASSUME NEW o \in Maps, NEW t, NEW a, Change(o, t, a) PROVE IterInv(m)'
  <2>1. CASE o = m
    <3>1. loop'[m].clean = FALSE
      BY <1>0, <1>1, <2>1 DEF Change, LoopStates
    <3>2. QED
      BY <3>1 DEF IterInv
  <2>2. CASE o # m
    BY <1>0, <1>1, <2>2, IterSame DEF Change
  <2>3. QED
    BY <2>1, <2>2
<1>2. ASSUME NEW o \in Maps, NEW x \in Maps, Dup(o, x) PROVE IterInv(m)'
  <2>1. CASE o = m
    <3>1. loop'[m].kind = "none"
      BY <1>0, <1>2, <2>1 DEF Dup, NoLoop
    <3>2. QED
      BY <3>1 DEF IterInv
  <2>2. CASE o # m
    BY <1>0, <1>2, <2>2, IterSame DEF Dup
  <2>3. QED
    BY <2>1, <2>2
<1>3. ASSUME NEW o \in Maps, Rehash(o) PROVE IterInv(m)'
  <2>1. CASE o = m
    <3>1. loop'[m].clean = FALSE
      BY <1>0, <1>3, <2>1 DEF Rehash, LoopStates
    <3>2. QED
      BY <3>1 DEF IterInv
  <2>2. CASE o # m
    BY <1>0, <1>3, <2>2, IterSame DEF Rehash
  <2>3. QED
    BY <2>1, <2>2
<1>4. ASSUME NEW k \in Keys, NEW c \in Chars, Mutate(k, c) PROVE IterInv(m)'
  <2>1. loop'[m].clean = FALSE
    BY <1>0, <1>4 DEF Mutate, LoopStates
  <2>2. QED
    BY <2>1 DEF IterInv
<1>5. ASSUME NEW o \in Maps, IterNext(o) PROVE IterInv(m)'
  <2>1. CASE o = m
    BY <1>5, <2>1, IterNextKeeps
  <2>2. CASE o # m
    <3>1. loop'[m] = loop[m] /\ table'[m] = table[m]
      BY <1>0, <1>5, <2>2 DEF IterNext, Step, Finish, Yield, Die
    <3>2. QED
      BY <3>1, IterSame
  <2>3. QED
    BY <2>1, <2>2
<1>6. ASSUME NEW o \in Maps, EachNext(o) PROVE IterInv(m)'
  <2>1. table'[m] = table[m] /\ loop[o].kind = "each"
    BY <1>6 DEF EachNext, Step
  <2>2. loop'[m] = loop[m] \/ (o = m /\ loop'[m].kind \in {"each", "eached"})
    BY <1>0, <1>6, <2>1 DEF EachNext, Finish, Yield, Die, LoopStates
  <2>3. QED
    BY <2>1, <2>2, IterSame DEF IterInv
<1>7. ASSUME NEW o \in Maps, Break(o) PROVE IterInv(m)'
  <2>1. table'[m] = table[m]
    BY <1>7 DEF Break, Step
  <2>2. loop'[m] = loop[m] \/ loop'[m].kind = "none"
    BY <1>0, <1>7 DEF Break, Finish, LoopStates
  <2>3. QED
    BY <2>1, <2>2, IterSame DEF IterInv
<1>8. ASSUME NEW o \in Maps, NEW kind \in Loops, StartLoop(o, kind) PROVE IterInv(m)'
  <2>1. CASE o = m
    BY <1>8, <2>1, StartLoopKeeps
  <2>2. CASE o # m
    BY <1>0, <1>8, <2>2, IterSame DEF StartLoop
  <2>3. QED
    BY <2>1, <2>2
<1>9. ASSUME UNCHANGED <<table, loop>> PROVE IterInv(m)'
  BY <1>9, IterSame
<1>10. ASSUME NEW o \in Maps, NEW k \in Keys, Get(o, k) \/ Freeze(o) PROVE IterInv(m)'
  BY <1>9, <1>10 DEF Get, Freeze
<1>11. ASSUME NEW o \in Maps, Freeze(o) PROVE IterInv(m)'
  BY <1>9, <1>11 DEF Freeze
<1>12. CASE UNCHANGED vars
  BY <1>9, <1>12 DEF vars
<1>13. QED
  BY <1>1, <1>2, <1>3, <1>4, <1>5, <1>6, <1>7, <1>8, <1>10, <1>11, <1>12
     DEF Next, Set, Delete, Clear, MergeWith

(* IterationComplete: an iterator over a map that nothing changes meets    *)
(* every key, even where keys changed before it began left the count above *)
(* the number of entries (runtime.c:1251). *)
THEOREM IterationIsComplete == Spec => []IterationComplete
<1> DEFINE AllIters == \A m \in Maps : IterInv(m)
<1>1. Init => AllIters
  BY DEF Init, NoLoop, IterInv
<1>2. Inv /\ AllIters /\ [Next]_vars => AllIters'
  BY IterKept
<1>3. AllIters => IterationComplete
  BY DEF IterInv, IterationComplete
<1> HIDE DEF AllIters
<1>4. QED
  BY <1>1, <1>2, <1>3, Invariance, PTL DEF Spec

-----------------------------------------------------------------------------
(***************************************************************************)
(* The function from characters to values that a sound table stands for.   *)
(***************************************************************************)
CharsOf(entries, ch) == {ch[e.key] : e \in entries}

\* f maps the characters of every entry to the entry's value, and nothing else.
StandsFor(f, t, ch) ==
  /\ f = [c \in CharsOf(EntriesOf(t), ch) |-> f[c]]
  /\ \A e \in EntriesOf(t) : f[ch[e.key]] = e.val

(* Entries with the same characters are the same entry. *)
LEMMA OneEntryPerKey ==
  ASSUME NEW ch \in KeyChars, NEW t, Sound(t, ch), NEW d \in EntriesOf(t), NEW e \in EntriesOf(t),
         ch[d.key] = ch[e.key]
  PROVE  d = e
<1>1. PICK i \in Occupied(t) : d = t.slots[i]
  BY DEF EntriesOf
<1>2. PICK j \in Occupied(t) : e = t.slots[j]
  BY DEF EntriesOf
<1>3. i = j
  BY <1>1, <1>2, SoundUnique DEF CharsAt
<1>4. QED
  BY <1>1, <1>2, <1>3

(* A table stands for one function only. *)
LEMMA StandsForOne ==
  ASSUME NEW ch, NEW t, NEW u, EntriesOf(t) = EntriesOf(u), NEW f, StandsFor(f, t, ch),
         NEW g, StandsFor(g, u, ch)
  PROVE  f = g
<1>1. \A c \in CharsOf(EntriesOf(t), ch) : f[c] = g[c]
  BY DEF StandsFor, CharsOf
<1>2. f = [c \in CharsOf(EntriesOf(t), ch) |-> f[c]]
      /\ g = [c \in CharsOf(EntriesOf(t), ch) |-> g[c]]
  BY DEF StandsFor
<1>3. QED
  BY <1>1, <1>2

\* DictOf for given characters
DictFrom(t, ch) ==
  [c \in {ch[k] : k \in KeysOf(t)} |->
     t.slots[CHOOSE i \in Occupied(t) : ch[t.slots[i].key] = c].val]

(* LoxMap's dictionary of a table is the function it stands for. *)
LEMMA DictStandsFor ==
  ASSUME NEW ch \in KeyChars, NEW t, Sound(t, ch)
  PROVE  StandsFor(DictFrom(t, ch), t, ch)
<1> DEFINE f == DictFrom(t, ch)
<1>1. {ch[k] : k \in KeysOf(t)} = CharsOf(EntriesOf(t), ch)
  BY DEF KeysOf, CharsOf, EntriesOf
<1>2. f = [c \in CharsOf(EntriesOf(t), ch) |-> f[c]]
  BY <1>1 DEF DictFrom
<1>3. ASSUME NEW e \in EntriesOf(t) PROVE f[ch[e.key]] = e.val
  <2> DEFINE c == ch[e.key]
             i == CHOOSE j \in Occupied(t) : ch[t.slots[j].key] = c
  <2>1. PICK j \in Occupied(t) : e = t.slots[j]
    BY DEF EntriesOf
  <2>2. i \in Occupied(t) /\ ch[t.slots[i].key] = c
    BY <2>1
  <2>3. t.slots[i] \in EntriesOf(t)
    BY <2>2 DEF EntriesOf
  <2>4. f[c] = t.slots[i].val
    <3>1. c \in {ch[k] : k \in KeysOf(t)}
      BY <1>1 DEF CharsOf
    <3>2. QED
      BY <3>1 DEF DictFrom
  <2> HIDE DEF i
  <2>5. t.slots[i] = e
    BY <2>2, <2>3, OneEntryPerKey
  <2>6. QED
    BY <2>4, <2>5
<1>4. QED
  BY <1>2, <1>3 DEF StandsFor

(* Tables with the same entries stand for the same function. *)
LEMMA DictSame ==
  ASSUME NEW ch \in KeyChars, NEW t, Sound(t, ch), NEW u, Sound(u, ch), EntriesOf(t) = EntriesOf(u)
  PROVE  DictFrom(t, ch) = DictFrom(u, ch)
<1>1. StandsFor(DictFrom(t, ch), t, ch) /\ StandsFor(DictFrom(u, ch), u, ch)
  BY DictStandsFor
<1> DEFINE f == DictFrom(t, ch)
           g == DictFrom(u, ch)
<1>2. StandsFor(f, t, ch) /\ StandsFor(g, u, ch)
  BY <1>1
<1> HIDE DEF f, g
<1>3. f = g
  BY <1>2, StandsForOne
<1>4. QED
  BY <1>3 DEF f, g

(* The dictionary is any function the table stands for. *)
LEMMA DictIs ==
  ASSUME NEW ch \in KeyChars, NEW t, Sound(t, ch), NEW f, StandsFor(f, t, ch)
  PROVE  DictFrom(t, ch) = f
<1> DEFINE g == DictFrom(t, ch)
<1>1. StandsFor(g, t, ch)
  BY DictStandsFor
<1> HIDE DEF g
<1>2. g = f
  BY <1>1, StandsForOne
<1>3. QED
  BY <1>2 DEF g

(* An empty table is the empty function. *)
LEMMA DictEmpty ==
  ASSUME NEW ch \in KeyChars, NEW t, Sound(t, ch), EntriesOf(t) = {}
  PROVE  DictFrom(t, ch) = Abstract!Nothing
<1>1. StandsFor(Abstract!Nothing, t, ch)
  BY DEF StandsFor, Abstract!Nothing, CharsOf
<1>2. QED
  BY <1>1, DictIs

(* tableAddAll merges. *)
LEMMA DictMerge ==
  ASSUME NEW ch \in KeyChars, NEW t, Sound(t, ch), NEW from, Sound(from, ch), NEW u, Sound(u, ch),
         EntriesOf(u) = Missing(t, ch, EntriesOf(from)) \cup EntriesOf(from)
  PROVE  DictFrom(u, ch) = Abstract!Merge(DictFrom(t, ch), DictFrom(from, ch))
<1> DEFINE f == DictFrom(t, ch)
           g == DictFrom(from, ch)
           h == [c \in DOMAIN f \cup DOMAIN g |-> IF c \in DOMAIN g THEN g[c] ELSE f[c]]
<1>1. StandsFor(f, t, ch) /\ StandsFor(g, from, ch)
  BY DictStandsFor
<1> HIDE DEF f, g
<1>2. DOMAIN f = CharsOf(EntriesOf(t), ch) /\ DOMAIN g = CharsOf(EntriesOf(from), ch)
  BY <1>1 DEF StandsFor
<1>3. CharsOf(EntriesOf(u), ch) = DOMAIN f \cup DOMAIN g
  BY <1>2 DEF CharsOf, Missing
<1>4. h = [c \in CharsOf(EntriesOf(u), ch) |-> h[c]]
  BY <1>3
<1>5. ASSUME NEW e \in EntriesOf(u) PROVE h[ch[e.key]] = e.val
  <2>1. ch[e.key] \in DOMAIN f \cup DOMAIN g
    BY <1>3 DEF CharsOf
  <2>2. CASE e \in EntriesOf(from)
    <3>1. ch[e.key] \in DOMAIN g /\ g[ch[e.key]] = e.val
      BY <1>1, <1>2, <2>2 DEF CharsOf, StandsFor
    <3>2. QED
      BY <2>1, <3>1
  <2>3. CASE e \in Missing(t, ch, EntriesOf(from))
    <3>1. ch[e.key] \notin DOMAIN g /\ f[ch[e.key]] = e.val
      BY <1>1, <1>2, <2>3 DEF CharsOf, StandsFor, Missing
    <3>2. QED
      BY <2>1, <3>1
  <2>4. QED
    BY <2>2, <2>3
<1> HIDE DEF h
<1>6. StandsFor(h, u, ch)
  BY <1>4, <1>5 DEF StandsFor
<1>7. DictFrom(u, ch) = h
  BY <1>6, DictIs
<1>8. QED
  BY <1>7 DEF h, f, g, Abstract!Merge

(* tableSet gives one key a value. *)
LEMMA DictSet ==
  ASSUME NEW ch \in KeyChars, NEW t, Sound(t, ch), NEW k \in Keys, NEW v \in Values,
         NEW u, Sound(u, ch), EntriesOf(u) = Others(t, ch, ch[k]) \cup {[key |-> k, val |-> v]},
         NEW g, g = [d \in {ch[k]} |-> v]
  PROVE  DictFrom(u, ch) = Abstract!Merge(DictFrom(t, ch), g)
<1> DEFINE f == DictFrom(t, ch)
           h == [c \in DOMAIN f \cup DOMAIN g |-> IF c \in DOMAIN g THEN g[c] ELSE f[c]]
           new == [key |-> k, val |-> v]
<1>1. StandsFor(f, t, ch)
  BY DictStandsFor
<1> HIDE DEF f
<1>2. DOMAIN f = CharsOf(EntriesOf(t), ch) /\ DOMAIN g = {ch[k]} /\ g[ch[k]] = v
  BY <1>1 DEF StandsFor
<1>3. new.key = k /\ new.val = v
  OBVIOUS
<1> HIDE DEF new
<1>4. CharsOf(EntriesOf(u), ch) = DOMAIN f \cup DOMAIN g
  <2>1. EntriesOf(u) = Others(t, ch, ch[k]) \cup {new}
    BY DEF new
  <2>2. QED
    BY <1>2, <1>3, <2>1 DEF CharsOf, Others
<1>5. h = [c \in CharsOf(EntriesOf(u), ch) |-> h[c]]
  BY <1>4
<1>6. ASSUME NEW e \in EntriesOf(u) PROVE h[ch[e.key]] = e.val
  <2>1. ch[e.key] \in DOMAIN f \cup DOMAIN g
    BY <1>4 DEF CharsOf
  <2>2. CASE e = new
    BY <1>2, <1>3, <2>1, <2>2
  <2>3. CASE e \in Others(t, ch, ch[k])
    <3>1. ch[e.key] \notin DOMAIN g /\ f[ch[e.key]] = e.val
      BY <1>1, <1>2, <2>3 DEF StandsFor, Others
    <3>2. QED
      BY <2>1, <3>1
  <2>4. QED
    BY <2>2, <2>3 DEF new
<1> HIDE DEF h
<1>7. StandsFor(h, u, ch)
  BY <1>5, <1>6 DEF StandsFor
<1>8. DictFrom(u, ch) = h
  BY <1>7, DictIs
<1>9. QED
  BY <1>8 DEF h, f, Abstract!Merge

(* tableDelete takes one key out. *)
LEMMA DictDelete ==
  ASSUME NEW ch \in KeyChars, NEW t, Sound(t, ch), NEW c \in Chars,
         NEW u, Sound(u, ch), EntriesOf(u) = Others(t, ch, c)
  PROVE  DictFrom(u, ch) = Abstract!Without(DictFrom(t, ch), c)
<1> DEFINE f == DictFrom(t, ch)
           h == [d \in DOMAIN f \ {c} |-> f[d]]
<1>1. StandsFor(f, t, ch)
  BY DictStandsFor
<1> HIDE DEF f
<1>2. DOMAIN f = CharsOf(EntriesOf(t), ch)
  BY <1>1 DEF StandsFor
<1>3. CharsOf(EntriesOf(u), ch) = DOMAIN f \ {c}
  BY <1>2 DEF CharsOf, Others
<1>4. h = [d \in CharsOf(EntriesOf(u), ch) |-> h[d]]
  BY <1>3
<1>5. ASSUME NEW e \in EntriesOf(u) PROVE h[ch[e.key]] = e.val
  <2>1. ch[e.key] \in DOMAIN f \ {c} /\ f[ch[e.key]] = e.val
    BY <1>1, <1>3 DEF CharsOf, StandsFor, Others
  <2>2. QED
    BY <2>1
<1> HIDE DEF h
<1>6. StandsFor(h, u, ch)
  BY <1>4, <1>5 DEF StandsFor
<1>7. DictFrom(u, ch) = h
  BY <1>6, DictIs
<1>8. QED
  BY <1>7 DEF h, f, Abstract!Without

(* tableGet answers from the dictionary. *)
LEMMA DictLookup ==
  ASSUME NEW ch \in KeyChars, NEW t, Tight(t, ch), NEW c \in Chars
  PROVE  /\ Has(t, ch, c) = (c \in DOMAIN DictFrom(t, ch))
         /\ Has(t, ch, c) => TableGet(t, ch, c) = DictFrom(t, ch)[c]
<1> DEFINE f == DictFrom(t, ch)
<1>1. Sound(t, ch) /\ Loose(t)
  BY DEF Tight
<1>2. StandsFor(f, t, ch)
  BY <1>1, DictStandsFor
<1> HIDE DEF f
<1>3. DOMAIN f = CharsOf(EntriesOf(t), ch)
  BY <1>2 DEF StandsFor
<1>4. ASSUME NEW e \in EntriesOf(t), ch[e.key] = c
      PROVE  Has(t, ch, c) /\ TableGet(t, ch, c) = f[c] /\ c \in DOMAIN f
  <2>1. Has(t, ch, ch[e.key]) /\ TableGet(t, ch, ch[e.key]) = e.val
    BY <1>1, LookupFinds
  <2>2. f[ch[e.key]] = e.val
    BY <1>2 DEF StandsFor
  <2>3. QED
    BY <1>3, <1>4, <2>1, <2>2 DEF CharsOf
<1>5. ASSUME Has(t, ch, c) PROVE c \in DOMAIN f /\ TableGet(t, ch, c) = f[c]
  <2>1. PICK e \in EntriesOf(t) : ch[e.key] = c
    BY <1>1, <1>5, LookupFinds2
  <2>2. QED
    BY <1>4, <2>1
<1>6. ASSUME c \in DOMAIN f PROVE Has(t, ch, c)
  BY <1>3, <1>4, <1>6 DEF CharsOf
<1>7. Has(t, ch, c) \in BOOLEAN
  BY DEF Has
<1>8. QED
  BY <1>5, <1>6, <1>7 DEF f

(* DictOf, as LoxMap maps its tables. *)
LEMMA DictOfIs ==
  ASSUME NEW t
  PROVE  DictOf(t) = DictFrom(t, chars)
BY DEF DictOf, DictFrom

Dicts == [m \in Maps |-> DictFrom(table[m], chars)]

(* One map's table replaced. *)
LEMMA DictsChange ==
  ASSUME Inv, NEW m \in Maps, NEW t, table' = [table EXCEPT ![m] = t], chars' = chars
  PROVE  Dicts' = [Dicts EXCEPT ![m] = DictFrom(t, chars)]
<1>1. \A o \in Maps : table'[o] = IF o = m THEN t ELSE table[o]
  BY InvFacts
<1>2. Dicts' = [o \in Maps |-> DictFrom(table'[o], chars)]
  BY DEF Dicts
<1>3. [Dicts EXCEPT ![m] = DictFrom(t, chars)]
        = [o \in Maps |-> IF o = m THEN DictFrom(t, chars) ELSE DictFrom(table[o], chars)]
  BY DEF Dicts
<1>4. QED
  BY <1>1, <1>2, <1>3

\* The abstract map's next-state relation, with Dicts for its functions.
Become(m, f) == Dicts' = [Dicts EXCEPT ![m] = f]

(* A step that changes one map to an equal one, or nothing, is a stutter. *)
LEMMA DictsSame ==
  ASSUME Inv, NEW m \in Maps, Become(m, DictFrom(table[m], chars))
  PROVE  UNCHANGED Dicts
BY DEF Become, Dicts

(* The refinement mapping applied to AbstractMap's variable. *)
LEMMA AbstractDicts ==
  /\ [m \in Maps |-> DictOf(table[m])] = Dicts
  /\ [m \in Maps |-> DictOf(table[m])]' = Dicts'
BY DEF Dicts, DictOf, DictFrom

(* A step of Dicts is a step of AbstractMap's variable. *)
LEMMA AbstractBecome ==
  ASSUME NEW m, NEW f, Become(m, f)
  PROVE  Abstract!Become(m, f)
BY AbstractDicts DEF Become, Abstract!Become

(* The dictionary AbstractMap sees of one map. *)
LEMMA AbstractDict ==
  ASSUME NEW m \in Maps
  PROVE  [o \in Maps |-> DictOf(table[o])][m] = DictFrom(table[m], chars)
BY DictOfIs

\* A step of AbstractMap or one that AbstractMap does not see.
AbstractStep == Abstract!Next \/ UNCHANGED <<Dicts, ret>>

(* Map#[]= is the abstract Set of the key's characters. *)
LEMMA SetStep ==
  ASSUME Inv, TablesTight, NEW m \in Maps, NEW k \in Keys, NEW v \in Values, Set(m, k, v)
  PROVE  AbstractStep
<1> DEFINE u == TableSet(table[m], chars, k, v)
           f == Abstract!Merge(DictFrom(table[m], chars), [d \in {chars[k]} |-> v])
<1>1. chars \in KeyChars /\ Tight(table[m], chars) /\ Sound(table[m], chars) /\ chars[k] \in Chars
  BY InvFacts DEF TablesTight, Tight, KeyChars
<1>2. Sound(u, chars) /\ EntriesOf(u) = Others(table[m], chars, chars[k]) \cup {[key |-> k, val |-> v]}
  BY <1>1, TableSetTight DEF Tight
<1>3. DictFrom(u, chars) = f
  <2> DEFINE g == [d \in {chars[k]} |-> v]
  <2> HIDE DEF u
  <2>1. g = [d \in {chars[k]} |-> v]
    OBVIOUS
  <2> HIDE DEF g
  <2>2. DictFrom(u, chars) = Abstract!Merge(DictFrom(table[m], chars), g)
    BY <1>1, <1>2, <2>1, DictSet
  <2>3. QED
    BY <2>2 DEF g
<1>4. table' = [table EXCEPT ![m] = u] /\ chars' = chars /\ ret' = v
  BY DEF Set, Change
<1> HIDE DEF u, f
<1>5. Become(m, f)
  BY <1>3, <1>4, DictsChange DEF Become
<1>6. Abstract!Become(m, f)
  BY <1>5, AbstractBecome
<1>7. Abstract!Set(m, chars[k], v)
  BY <1>4, <1>6, AbstractDict DEF Abstract!Set, f
<1>8. QED
  BY <1>1, <1>7 DEF AbstractStep, Abstract!Next

(* Map#delete is the abstract Delete. *)
LEMMA DeleteStep ==
  ASSUME Inv, TablesTight, NEW m \in Maps, NEW k \in Keys, Delete(m, k)
  PROVE  AbstractStep
<1> DEFINE u == TableDelete(table[m], chars, chars[k])
           f == Abstract!Without(DictFrom(table[m], chars), chars[k])
<1>1. chars \in KeyChars /\ Tight(table[m], chars) /\ Sound(table[m], chars) /\ chars[k] \in Chars
  BY InvFacts DEF TablesTight, Tight, KeyChars
<1>2. Sound(u, chars) /\ EntriesOf(u) = Others(table[m], chars, chars[k])
  BY <1>1, TableDeleteTight DEF Tight
<1>3. DictFrom(u, chars) = f
  BY <1>1, <1>2, DictDelete
<1>4. table' = [table EXCEPT ![m] = u] /\ chars' = chars
      /\ ret' = Has(table[m], chars, chars[k])
  BY DEF Delete, Change
<1>5. ret' = (chars[k] \in DOMAIN DictFrom(table[m], chars))
  BY <1>1, <1>4, DictLookup
<1> HIDE DEF u, f
<1>6. Become(m, f)
  BY <1>3, <1>4, DictsChange DEF Become
<1>7. Abstract!Become(m, f)
  BY <1>6, AbstractBecome
<1>8. Abstract!Delete(m, chars[k])
  BY <1>5, <1>7, AbstractDict DEF Abstract!Delete, f
<1>9. QED
  BY <1>1, <1>8 DEF AbstractStep, Abstract!Next

(* Map#[] is the abstract Get. *)
LEMMA GetStep ==
  ASSUME Inv, TablesTight, NEW m \in Maps, NEW k \in Keys, Get(m, k)
  PROVE  AbstractStep
<1>1. chars \in KeyChars /\ Tight(table[m], chars) /\ chars[k] \in Chars
  BY InvFacts DEF TablesTight, KeyChars
<1>2. ret' = IF chars[k] \in DOMAIN DictFrom(table[m], chars)
             THEN DictFrom(table[m], chars)[chars[k]] ELSE Nil
  BY <1>1, DictLookup DEF Get
<1>3. UNCHANGED Dicts
  BY DEF Get, Dicts
<1>4. UNCHANGED [o \in Maps |-> DictOf(table[o])]
  BY <1>3, AbstractDicts
<1>5. Abstract!Get(m, chars[k])
  BY <1>2, <1>4, AbstractDict DEF Abstract!Get
<1>6. QED
  BY <1>1, <1>5 DEF AbstractStep, Abstract!Next

(* Map#clear is the abstract Clear. *)
LEMMA ClearStep ==
  ASSUME Inv, NEW m \in Maps, Clear(m)
  PROVE  AbstractStep
<1>1. Sound(Fresh(0), chars) /\ EntriesOf(Fresh(0)) = {} /\ chars \in KeyChars
  BY FreshIsSound, InvFacts
<1>2. DictFrom(Fresh(0), chars) = Abstract!Nothing
  BY <1>1, DictEmpty
<1>3. table' = [table EXCEPT ![m] = Fresh(0)] /\ chars' = chars /\ ret' = Nil
  BY DEF Clear, Change
<1>4. Become(m, Abstract!Nothing)
  BY <1>2, <1>3, DictsChange DEF Become
<1>5. Abstract!Become(m, Abstract!Nothing)
  BY <1>4, AbstractBecome
<1>6. QED
  BY <1>3, <1>5 DEF AbstractStep, Abstract!Next, Abstract!Clear

(* Map#mergeWith is the abstract MergeWith. *)
LEMMA MergeWithStep ==
  ASSUME Inv, TablesTight, NEW m \in Maps, NEW o \in Maps \ {m}, MergeWith(m, o)
  PROVE  AbstractStep
<1> DEFINE u == AddAll(table[o], table[m], chars)
           f == Abstract!Merge(DictFrom(table[m], chars), DictFrom(table[o], chars))
<1>1. chars \in KeyChars /\ Tight(table[m], chars) /\ Sound(table[m], chars)
      /\ Sound(table[o], chars) /\ table[o] \in Tables
  BY InvFacts DEF TablesTight, Tight
<1>2. Sound(u, chars)
  BY <1>1, AddAllTight DEF Tight
<1>3. EntriesOf(u) = Missing(table[m], chars, EntriesOf(table[o])) \cup EntriesOf(table[o])
  BY <1>1, AddAllEntries
<1>4. DictFrom(u, chars) = f
  BY <1>1, <1>2, <1>3, DictMerge
<1>5. table' = [table EXCEPT ![m] = u] /\ chars' = chars /\ ret' = Nil
  BY DEF MergeWith, Change
<1> HIDE DEF u, f
<1>6. Become(m, f)
  BY <1>4, <1>5, DictsChange DEF Become
<1>7. Abstract!Become(m, f)
  BY <1>6, AbstractBecome
<1>8. Abstract!MergeWith(m, o)
  BY <1>5, <1>7, AbstractDict DEF Abstract!MergeWith, f
<1>9. QED
  BY <1>8 DEF AbstractStep, Abstract!Next

(* Map#dup is the abstract Dup. *)
LEMMA DupStep ==
  ASSUME Inv, TablesTight, NEW m \in Maps, NEW o \in Maps \ {m}, Dup(m, o)
  PROVE  AbstractStep
<1> DEFINE u == AddAll(table[o], Fresh(0), chars)
           f == DictFrom(table[o], chars)
<1>1. chars \in KeyChars /\ Sound(table[o], chars)
  BY InvFacts DEF TablesTight, Tight
<1>2. Sound(u, chars) /\ EntriesOf(u) = EntriesOf(table[o])
  BY <1>1, CopyTight DEF Tight
<1>3. DictFrom(u, chars) = f
  BY <1>1, <1>2, DictSame
<1>4. table' = [table EXCEPT ![m] = u] /\ chars' = chars /\ ret' = Nil
  BY DEF Dup
<1> HIDE DEF u, f
<1>5. Become(m, f)
  BY <1>3, <1>4, DictsChange DEF Become
<1>6. Abstract!Become(m, f)
  BY <1>5, AbstractBecome
<1>7. Abstract!Dup(m, o)
  BY <1>4, <1>6, AbstractDict DEF Abstract!Dup, f
<1>8. QED
  BY <1>7 DEF AbstractStep, Abstract!Next

(* A rehash is invisible. *)
LEMMA RehashStep ==
  ASSUME Inv, TablesTight, NEW m \in Maps, Rehash(m)
  PROVE  AbstractStep
<1> DEFINE u == Rehashed(table[m], chars)
<1>1. /\ chars \in KeyChars /\ Sound(table[m], chars) /\ table[m].cap \in Nat
      /\ (table[m].cap = 0 \/ table[m].cap >= MinCapacity)
  BY InvFacts, LooseIsTable DEF TablesTight, Tight
<1>2. Sound(u, chars) /\ EntriesOf(u) = EntriesOf(table[m])
  BY <1>1, CopyTight DEF Tight, Rehashed
<1>3. DictFrom(u, chars) = DictFrom(table[m], chars)
  BY <1>1, <1>2, DictSame
<1>4. table' = [table EXCEPT ![m] = u] /\ chars' = chars /\ ret' = ret
  BY DEF Rehash
<1> HIDE DEF u
<1>5. Become(m, DictFrom(table[m], chars))
  BY <1>3, <1>4, DictsChange DEF Become
<1>6. QED
  BY <1>4, <1>5, DictsSame DEF AbstractStep

(* What leaves tables, keys and answer alone is invisible. *)
LEMMA RestStep ==
  ASSUME UNCHANGED <<table, chars, ret>>
  PROVE  AbstractStep
BY DEF AbstractStep, Dicts

(* Every step of a program that changes no key is a step of AbstractMap or *)
(* a stutter.                                                              *)
LEMMA StepRefines ==
  MutableKeys = {} /\ Inv /\ TablesTight /\ [Next]_vars =>
    [Abstract!Next]_<<[m \in Maps |-> DictOf(table[m])], ret>>
<1> SUFFICES ASSUME MutableKeys = {}, Inv, TablesTight, [Next]_vars PROVE AbstractStep
  BY AbstractDicts DEF AbstractStep
<1>1. ASSUME NEW m \in Maps, NEW k \in Keys,
             Get(m, k) \/ Delete(m, k) \/ \E v \in Values : Set(m, k, v)
      PROVE  AbstractStep
  BY <1>1, GetStep, DeleteStep, SetStep
<1>2. ASSUME NEW m \in Maps, Clear(m) \/ Rehash(m) PROVE AbstractStep
  BY <1>2, ClearStep, RehashStep
<1>3. ASSUME NEW m \in Maps, NEW o \in Maps \ {m}, Dup(m, o) \/ MergeWith(m, o) PROVE AbstractStep
  BY <1>3, DupStep, MergeWithStep
<1>4. ASSUME NEW m \in Maps, Freeze(m) \/ \E kind \in Loops : StartLoop(m, kind) PROVE AbstractStep
  BY <1>4, RestStep DEF Freeze, StartLoop
<1>5. ASSUME NEW m \in Maps, IterNext(m) \/ EachNext(m) \/ Break(m) PROVE AbstractStep
  BY <1>5, RestStep DEF IterNext, EachNext, Break, Step
<1>6. ASSUME NEW k \in Keys, NEW c \in Chars, Mutate(k, c) PROVE AbstractStep
  BY <1>6 DEF Mutate
<1>7. CASE UNCHANGED vars
  BY <1>7, RestStep DEF vars
<1>8. QED
  BY <1>1, <1>2, <1>3, <1>4, <1>5, <1>6, <1>7 DEF Next

(* The initial maps are empty functions. *)
LEMMA InitRefines == Init => Abstract!Init
<1> SUFFICES ASSUME Init PROVE Abstract!Init
  OBVIOUS
<1>1. chars \in KeyChars /\ Sound(Fresh(0), chars) /\ EntriesOf(Fresh(0)) = {}
  BY InitInv, InvFacts, FreshIsSound
<1>2. DictFrom(Fresh(0), chars) = Abstract!Nothing
  BY <1>1, DictEmpty
<1>3. \A m \in Maps : DictOf(table[m]) = Abstract!Nothing
  BY <1>2, DictOfIs DEF Init
<1>4. QED
  BY <1>3 DEF Init, Abstract!Init

(* ImplementsAbstractMap: while no key changes, each map is a partial      *)
(* function from characters to values and every operation of map.c answers *)
(* from it; the collisions, the growth and the moved entries of table.c    *)
(* are invisible. *)
THEOREM MapRefines == MutableKeys = {} => (Spec => ImplementsAbstractMap)
<1> SUFFICES ASSUME MutableKeys = {} PROVE Spec => ImplementsAbstractMap
  OBVIOUS
<1>1. Inv /\ TablesTight /\ [Next]_vars =>
        [Abstract!Next]_<<[m \in Maps |-> DictOf(table[m])], ret>>
  BY StepRefines
<1>2. Spec => []TablesTight
  BY TightInvariance
<1>3. QED
  BY <1>1, <1>2, InitRefines, Invariance, PTL DEF Spec, ImplementsAbstractMap, Abstract!Spec
=============================================================================

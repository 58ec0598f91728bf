------------------------------- MODULE LoxMap -------------------------------
(***************************************************************************)
(* The Map class (map.c) over the hash table of table.c: its operations,   *)
(* Iterator#next over a map, and Map#each, whose block runs between two    *)
(* yields and may itself call any operation on the map.                    *)
(*                                                                         *)
(* Every operation is atomic: keys are strings or numbers, whose hashing   *)
(* and comparison call no lox code, and the GVL is held throughout.  Keys  *)
(* in MutableKeys are unfrozen strings that the program may append to      *)
(* while a map holds them.                                                 *)
(***************************************************************************)
EXTENDS HashTable

CONSTANTS Maps,         \* Map objects
          Keys,         \* key objects
          FirstChars,   \* the characters each key object starts with
          MutableKeys,  \* keys the program may change in place
          Values, Nil,
          Loops,        \* the kinds of loop the program runs: "each", "iter"
          MaxCapacity   \* bound: no operation that grows a table beyond it is taken

Chars == DOMAIN Hash

ASSUME MapAssumption ==
  /\ FirstChars \in [Keys -> Chars]
  /\ MutableKeys \subseteq Keys
  /\ Loops \subseteq {"each", "iter"}
  /\ MaxCapacity \in Nat
  /\ NoEntry \notin [key : Keys, val : Values]

VARIABLES table,   \* AS_MAP(m)->table
          frozen,  \* the frozen maps
          chars,   \* the present characters of each key object
          loop,    \* the loop over each map, with what it has yielded
          vm,      \* "ok", or why the process is gone
          ret      \* what the last operation answered

vars == <<table, frozen, chars, loop, vm, ret>>

\* at: Iterator.index + 1, or the startIdx of Map#each
\* seen: the keys yielded so far
\* clean: no operation has changed the map or a key since the loop began
\* stale: the Table that Map#each reads through has been freed by a rehash
NoLoop == [kind |-> "none", at |-> 0, seen |-> {}, clean |-> TRUE, stale |-> FALSE]
Running(m) == loop[m].kind \in {"each", "iter"}

Init ==
  /\ table = [m \in Maps |-> Fresh(0)]
  /\ frozen = {}
  /\ chars = FirstChars
  /\ loop = [m \in Maps |-> NoLoop]
  /\ vm = "ok"
  /\ ret = Nil

-----------------------------------------------------------------------------
\* A change of map m, made in place or (rehash) in a new Table.
Change(m, t, answer) ==
  /\ vm = "ok"
  /\ m \notin frozen
  /\ t.cap <= MaxCapacity
  /\ table' = [table EXCEPT ![m] = t]
  /\ loop' = [loop EXCEPT ![m].clean = FALSE]
  /\ ret' = answer
  /\ UNCHANGED <<frozen, chars, vm>>

Set(m, k, v) == Change(m, TableSet(table[m], chars, k, v), v)

Get(m, k) ==
  /\ vm = "ok"
  /\ ret' = IF Has(table[m], chars, chars[k]) THEN TableGet(table[m], chars, chars[k])
            ELSE Nil
  /\ UNCHANGED <<table, frozen, chars, loop, vm>>

Delete(m, k) ==
  Change(m, TableDelete(table[m], chars, chars[k]), Has(table[m], chars, chars[k]))

\* Map#clear: freeTable leaves the map with no entry array
Clear(m) == Change(m, Fresh(0), Nil)

MergeWith(m, o) == Change(m, AddAll(table[o], table[m], chars), Nil)

\* m is from now on the new map that Map#dup of o returns
Dup(m, o) ==
  /\ vm = "ok"
  /\ ~Running(m)
  /\ table' = [table EXCEPT ![m] = AddAll(table[o], Fresh(0), chars)]
  /\ frozen' = frozen \ {m}
  /\ loop' = [loop EXCEPT ![m] = NoLoop]
  /\ ret' = Nil
  /\ UNCHANGED <<chars, vm>>

\* Map#rehash: the old Table is freed; an iterator looks the table up at each
\* step, Map#each does not.
Rehash(m) ==
  /\ vm = "ok"
  /\ m \notin frozen
  /\ Rehashed(table[m], chars).cap <= MaxCapacity
  /\ table' = [table EXCEPT ![m] = Rehashed(table[m], chars)]
  /\ loop' = [loop EXCEPT ![m].clean = FALSE,
                          ![m].stale = @ \/ loop[m].kind = "each"]
  /\ UNCHANGED <<frozen, chars, vm, ret>>

Freeze(m) ==
  /\ vm = "ok"
  /\ frozen' = IF m \in frozen THEN frozen \ {m} ELSE frozen \cup {m}
  /\ UNCHANGED <<table, chars, loop, vm, ret>>

\* String#<< on a key object: pushCString changes the characters in place.
Mutate(k, c) ==
  /\ vm = "ok"
  /\ k \in MutableKeys
  /\ chars' = [chars EXCEPT ![k] = c]
  /\ loop' = [m \in Maps |-> [loop[m] EXCEPT !.clean = FALSE]]
  /\ UNCHANGED <<table, frozen, vm, ret>>

-----------------------------------------------------------------------------
(***************************************************************************)
(* Loops.  A finished loop keeps what it saw until the next one starts.    *)
(***************************************************************************)
StartLoop(m, kind) ==
  /\ vm = "ok"
  /\ ~Running(m)
  /\ loop' = [loop EXCEPT ![m] = [NoLoop EXCEPT !.kind = kind]]
  /\ UNCHANGED <<table, frozen, chars, vm, ret>>

Step(m, kind) == vm = "ok" /\ loop[m].kind = kind /\ UNCHANGED <<table, frozen, chars, ret>>
Yield(m, k, at) ==
  loop' = [loop EXCEPT ![m].at = at, ![m].seen = @ \cup {k}] /\ UNCHANGED vm
Finish(m, how) == loop' = [loop EXCEPT ![m].kind = how] /\ UNCHANGED vm
Die(why) == vm' = why /\ UNCHANGED loop

\* Iterator#next: the at-th entry while at is below the count
IterNext(m) ==
  /\ Step(m, "iter")
  /\ \/ loop[m].at >= table[m].count /\ Finish(m, "iterated")
     \/ /\ loop[m].at < table[m].count
        /\ HasNth(table[m], loop[m].at)
        /\ Yield(m, NthEntry(table[m], loop[m].at).key, loop[m].at + 1)
     \/ /\ loop[m].at < table[m].count
        /\ ~HasNth(table[m], loop[m].at)
        /\ Die("unreachable")

\* The slots Map#each has still to look at.
Ahead(m) == {i \in Occupied(table[m]) : i >= loop[m].at}

\* Map#each takes its slot cursor for a number of entries when it tests for the
\* end, each time the block comes back.
EachDone(m) == loop[m].at = table[m].count \/ Ahead(m) = {}

EachNext(m) ==
  /\ Step(m, "each")
  /\ \/ loop[m].stale /\ Die("dangling")
     \/ ~loop[m].stale /\ EachDone(m) /\ Finish(m, "eached")
     \/ /\ ~loop[m].stale /\ ~EachDone(m)
        /\ LET i == CHOOSE j \in Ahead(m) : \A l \in Ahead(m) : j <= l
           IN Yield(m, table[m].slots[i].key, i + 1)

\* the program drops the iterator, or the block breaks
Break(m) ==
  /\ \E kind \in Loops : Step(m, kind)
  /\ Finish(m, "none")

Next ==
  \/ \E m \in Maps :
       \/ \E k \in Keys : \/ Get(m, k) \/ Delete(m, k)
                          \/ \E v \in Values : Set(m, k, v)
       \/ Clear(m) \/ Rehash(m) \/ Freeze(m)
       \/ \E o \in Maps \ {m} : Dup(m, o) \/ MergeWith(m, o)
       \/ \E kind \in Loops : StartLoop(m, kind)
       \/ IterNext(m) \/ EachNext(m) \/ Break(m)
  \/ \E k \in Keys, c \in Chars : Mutate(k, c)

Spec == Init /\ [][Next]_vars

-----------------------------------------------------------------------------
Slots == [key : Keys, val : Values] \cup {NoEntry}
TablesOf(n) == [count : Nat, cap : {n}, slots : [0..n-1 -> Slots]]
LoopStates == [kind : {"none", "each", "iter", "eached", "iterated"}, at : Nat,
               seen : SUBSET Keys, clean : BOOLEAN, stale : BOOLEAN]

\* Each slot holds no entry or an entry of the program's, the counters are
\* natural numbers and a loop is of a known kind: table.c's Table and the
\* Iterator of runtime.c.
TypeOK ==
  /\ table = [m \in Maps |-> table[m]]
  /\ \A m \in Maps : table[m].cap \in Nat /\ table[m] \in TablesOf(table[m].cap)
  /\ loop \in [Maps -> LoopStates]
  /\ frozen \subseteq Maps
  /\ chars \in [Keys -> Chars]
  /\ vm \in {"ok", "unreachable", "dangling"}
  /\ ret \in Values \cup {Nil} \cup BOOLEAN

\* Linear probing finds every entry where it lies: no empty slot and no equal
\* key comes before it on its probe path.  Deletion, which moves entries, and
\* growth, which changes every home, are what could break it (table.c:139).
\* The lookup of the intern table, a loop of its own, finds the same keys
\* (table.c:193).
ProbesReach ==
  \A m \in Maps :
    /\ \A i \in Occupied(table[m]) : FindEntry(table[m], chars, chars[table[m].slots[i].key]) = i
    /\ \A c \in Chars : FindsString(table[m], chars, c) = Has(table[m], chars, c)

\* findEntry has no other way to stop for a missing key than an empty slot,
\* which "resize() ensures" (table.c:77): a quarter of the slots, whatever was
\* deleted, merged or changed under the table.
RoomLeft ==
  \A m \in Maps : table[m].cap > 0 =>
    /\ 4 * table[m].count <= 3 * table[m].cap
    /\ Cardinality(Occupied(table[m])) <= table[m].count

\* The count, which Map#size answers and Iterator#next trusts, is the number of
\* entries.
CountExact == \A m \in Maps : table[m].count = Cardinality(Occupied(table[m]))

\* A copy compares equal to its original, both ways, although its entries may
\* lie in other slots of a table of another capacity (Map#dup, Map#==).
CopyEqual ==
  \A m \in Maps : LET d == AddAll(table[m], Fresh(0), chars)
                  IN SameEntries(table[m], d, chars) /\ SameEntries(d, table[m], chars)

\* Iterating over a map that nothing changes meets every key (runtime.c:1251).
IterationComplete ==
  \A m \in Maps : loop[m].kind = "iterated" /\ loop[m].clean =>
    loop[m].seen = KeysOf(table[m])

\* Map#each over a map that nothing changes calls its block for every key
\* (examples/map_each.lox expects all the pairs).
EachComplete ==
  \A m \in Maps : loop[m].kind = "eached" /\ loop[m].clean =>
    loop[m].seen = KeysOf(table[m])

\* A rehash makes every entry reachable again and the count exact, whatever was
\* done to the keys before (object.c:172, "unless it's rehashed").
RehashRepairs ==
  [][\A m \in Maps : Rehash(m) =>
       /\ table'[m].count = Cardinality({i \in Indexes(table'[m]) :
                                            table'[m].slots[i] # NoEntry})
       /\ \A k \in KeysOf(table[m]) : Has(table'[m], chars', chars'[k])]_vars

-----------------------------------------------------------------------------
\* While no key changes, a map is a partial function and each operation answers
\* from it; growth, rehash and loops are invisible.
DictOf(t) ==
  [c \in {chars[k] : k \in KeysOf(t)} |->
     t.slots[CHOOSE i \in Occupied(t) : chars[t.slots[i].key] = c].val]

Abstract == INSTANCE AbstractMap WITH dict <- [m \in Maps |-> DictOf(table[m])]
ImplementsAbstractMap == Abstract!Spec
=============================================================================

--------------------------------- MODULE GC ---------------------------------
(***************************************************************************)
(* The generational collector of memory.c: the heaps and the free list,    *)
(* getNewObject with its retries, the write barrier, the young collection, *)
(* and the full mark and sweep with its finalizers.                        *)
(*                                                                         *)
(* A slot of a heap and the object in it are one number.  Everything here  *)
(* runs with the GVL held, so a collection is interrupted only by the lox  *)
(* code of a finalizer.  roots stands for what both collections mark: the  *)
(* stacks of all threads, the objects created in running C calls, frames,  *)
(* globals, constants and signal handlers.                                 *)
(***************************************************************************)
EXTENDS Integers, FiniteSets

CONSTANTS
  HeapSlots,  \* HEAP_SLOTS
  FreeMin,    \* FREE_MIN
  YoungMax,   \* YOUNG_MARK_STACK_MAX
  GenMax,     \* GC_GEN_MAX
  MaxHeaps,   \* bound: heaps added
  MaxRefs,    \* bound: references of one object
  MaxHidden,  \* bound: objects hidden at a time
  MaxFinalizers, \* bound: objects with a finalizer at a time
  Misuse      \* what the program does that the collector does not allow for

ASSUME SizesAssumption ==
  /\ HeapSlots \in Nat \ {0} /\ MaxHeaps \in Nat \ {0}
  /\ FreeMin \in Nat /\ YoungMax \in Nat /\ MaxRefs \in Nat /\ MaxHidden \in Nat /\ MaxFinalizers \in Nat
  /\ GenMax \in Nat \ {0}
ASSUME MisuseAssumption == Misuse \subseteq {"upvalue", "store", "throw"}

VARIABLES
  heapsUsed,
  freeList,         \* freeList[s]: how often slot s is linked
  used,             \* the slots whose type is not OBJ_T_NONE
  gen,              \* GCGen
  refs,             \* what an object refers to
  hidden,           \* the objects with the NOGC flag, those of vm.hiddenObjs
  finalizerFunc,    \* the objects that have one
  activeFinalizers,
  roots,
  youngStack,       \* youngStack[s]: how often slot s is on it
  youngStackSz,
  rememberSet,
  dark,             \* the objects with the DARK flag
  phase,            \* "run", "finalizers" between mark and sweep, "exit", "freed"
  finalizing,       \* the object whose finalizer runs, or 0
  scratch,          \* objects the running finalizer created
  request,          \* the locals of getNewObject, or NoRequest
  GCOn, dontGC

heapVars == <<heapsUsed, freeList, used, gen, refs>>
finalVars == <<finalizerFunc, activeFinalizers>>
youngVars == <<youngStack, youngStackSz, rememberSet>>
markVars == <<dark, phase, finalizing, scratch>>
flagVars == <<GCOn, dontGC>>
vars == <<heapVars, finalVars, youngVars, markVars, flagVars, hidden, roots, request>>

Slots == 1..(HeapSlots * MaxHeaps)
SlotsOf(h) == ((h - 1) * HeapSlots + 1)..(h * HeapSlots)
Requests ==
  [pending : BOOLEAN, isOld : BOOLEAN, triedYoung : BOOLEAN, noGC : BOOLEAN, tries : Nat]
NoRequest ==
  [pending |-> FALSE, isOld |-> FALSE, triedYoung |-> FALSE, noGC |-> FALSE, tries |-> 0]

\* Mutant: promotion does not stop at the oldest generation.
PromoteUncapped(g) == g + 1

GCPromoteOnce(g) == IF g = GenMax THEN g ELSE g + 1
IsYoung(o) == gen[o] = 0
\* GCGen after a collection: one more for the objects it promotes.
Aged(promoted, freed) ==
  [s \in Slots |-> IF s \in promoted THEN GCPromoteOnce(gen[s])
                   ELSE IF s \in freed THEN 0 ELSE gen[s]]
Freed(count) == {s \in Slots : count[s] > 0}
Zeros == [s \in Slots |-> 0]

\* The least set that contains R and every slot of Among its members refer to.
ClosedUnder(R, Among) ==
  LET closed == {S \in SUBSET Slots :
                   R \subseteq S /\ \A a \in S : refs[a] \cap Among \subseteq S}
  IN {o \in Slots : \A S \in closed : o \in S}

\* An object that is dark is not grayed again.
White == Slots \ dark

Reachable == ClosedUnder(roots \cup hidden \cup scratch, Slots)

Init ==
  /\ heapsUsed = 1
  /\ freeList = [s \in Slots |-> IF s \in SlotsOf(1) THEN 1 ELSE 0]
  /\ used = {} /\ hidden = {} /\ roots = {}
  /\ gen = Zeros
  /\ refs = [s \in Slots |-> {}]
  /\ finalizerFunc = {} /\ activeFinalizers = 0
  /\ youngStack = Zeros /\ youngStackSz = 0 /\ rememberSet = {}
  /\ dark = {} /\ phase = "run" /\ finalizing = 0 /\ scratch = {}
  /\ request = NoRequest
  /\ GCOn = TRUE /\ dontGC = FALSE

-----------------------------------------------------------------------------
(* getNewObject *)

\* The program runs: no allocation and no collection is under way.
Running == phase = "run" /\ ~request.pending

\* Mutant: the heap before the new one is linked.
WithHeapBefore(links, h) ==
  [s \in Slots |-> IF s \in SlotsOf(h - 1) THEN links[s] + 1 ELSE links[s]]

\* addHeap: every slot of a new heap is linked.
WithHeap(links, h) ==
  [s \in Slots |-> IF s \in SlotsOf(h) THEN links[s] + 1 ELSE links[s]]

getNewObject(isOld) ==
  /\ Running /\ heapsUsed < MaxHeaps
  /\ LET noGC == dontGC \/ ~GCOn
     IN request' = [pending |-> TRUE, isOld |-> isOld, triedYoung |-> noGC,
                    noGC |-> noGC, tries |-> 0]
  /\ UNCHANGED <<heapVars, finalVars, youngVars, markVars, flagVars, hidden, roots>>

\* freeList && (isOld || youngStackSz < YOUNG_MARK_STACK_MAX || triedYoungCollect)
CanTake ==
  /\ Freed(freeList) # {}
  /\ request.isOld \/ youngStackSz < YoungMax \/ request.triedYoung

Take(s, isOld) ==
  /\ freeList[s] > 0
  /\ freeList' = [freeList EXCEPT ![s] = @ - 1]
  /\ used' = used \cup {s}
  /\ gen' = [gen EXCEPT ![s] = IF isOld THEN GenMax ELSE 0]
  /\ refs' = [refs EXCEPT ![s] = {}]
  /\ IF ~isOld /\ youngStackSz < YoungMax
     THEN /\ youngStack' = [youngStack EXCEPT ![s] = @ + 1]
          /\ youngStackSz' = youngStackSz + 1
     ELSE UNCHANGED <<youngStack, youngStackSz>>
  /\ UNCHANGED rememberSet

TakeFree(s) ==
  /\ phase = "run" /\ request.pending /\ CanTake
  /\ Take(s, request.isOld)
  /\ roots' = roots \cup {s}
  /\ request' = NoRequest
  /\ UNCHANGED <<heapsUsed, finalVars, markVars, flagVars, hidden>>

Retry(r) == [r EXCEPT !.tries = @ + 1]

AddHeap ==
  /\ phase = "run" /\ request.pending /\ ~CanTake
  /\ request.triedYoung /\ request.noGC
  /\ heapsUsed < MaxHeaps
  /\ heapsUsed' = heapsUsed + 1
  /\ freeList' = WithHeap(freeList, heapsUsed + 1)
  /\ request' = Retry(request)
  /\ UNCHANGED <<used, gen, refs, finalVars, youngVars, markVars, flagVars, hidden, roots>>

-----------------------------------------------------------------------------
(* collectYoungGarbage *)

\* The objects on the young stack that the collection looks at.
YoungCandidates ==
  {s \in Slots : youngStack[s] > 0 /\ IsYoung(s) /\ s \notin hidden}

\* The young roots are marked.  Of what they refer to, the marking loop, whose
\* own count of the gray stack passes over some of its elements, marks a part.
YoungMarks ==
  LET young == {s \in White : IsYoung(s)}
      top == roots \cap young
  IN {D \in SUBSET ClosedUnder(top, young) : top \subseteq D}

CollectYoungWith(D) ==
  LET kept == {s \in YoungCandidates : s \in D \cup dark \cup rememberSet \cup finalizerFunc}
      freed == YoungCandidates \ kept
  IN /\ used' = used \ freed
     /\ gen' = Aged(kept, freed)
     /\ refs' = [s \in Slots |-> IF s \in freed THEN {} ELSE refs[s]]
     /\ freeList' = [s \in Slots |->
                       IF s \in freed THEN freeList[s] + youngStack[s] ELSE freeList[s]]
     /\ finalizerFunc' = finalizerFunc \ freed
     /\ dark' = dark \ Freed(youngStack)
     /\ youngStack' = Zeros /\ youngStackSz' = 0 /\ rememberSet' = {}

collectYoungGarbage ==
  /\ IF youngStackSz = 0
     THEN UNCHANGED <<used, gen, refs, freeList, finalizerFunc, youngVars, dark>>
     ELSE \E D \in YoungMarks : CollectYoungWith(D)
  /\ UNCHANGED <<heapsUsed, activeFinalizers, phase, finalizing, scratch, flagVars,
                 hidden, roots>>

TryYoungCollect ==
  /\ phase = "run" /\ request.pending /\ ~CanTake
  /\ ~request.triedYoung /\ ~request.noGC
  /\ request' = [Retry(request) EXCEPT !.triedYoung = TRUE]
  /\ collectYoungGarbage

\* GC.collectYoung turns the collector on for the time of the collection.
lxGCCollectYoung == Running /\ collectYoungGarbage /\ UNCHANGED request

-----------------------------------------------------------------------------
(* collectGarbage *)

\* Mark: every root is grayed, hidden objects included, and everything gray is
\* blackened.  What an earlier collection left dark is passed over, and so is
\* what only that refers to.  The free list starts again from nothing.
Mark ==
  /\ LET marked == ClosedUnder((roots \cup hidden) \cap White, White)
     IN dark' = dark \cup marked /\ gen' = Aged(marked, {})
  /\ freeList' = Zeros
  /\ phase' = "finalizers"
  /\ UNCHANGED <<heapsUsed, used, refs, finalVars, youngVars, finalizing, scratch,
                 flagVars, hidden, roots>>

TryCollect ==
  /\ phase = "run" /\ request.pending /\ ~CanTake
  /\ request.triedYoung /\ ~request.noGC
  /\ request' = [Retry(request) EXCEPT !.noGC = TRUE]
  /\ Mark

\* GC.collect turns the collector on for the time of the collection.
lxGCCollect ==
  /\ Running /\ heapsUsed < MaxHeaps
  /\ Mark /\ UNCHANGED request

\* Mutant: the last finalizer is taken for none.
FinalizersDueButOne ==
  IF activeFinalizers <= 1 THEN {}
  ELSE {o \in used : o \notin dark \cup hidden /\ o \in finalizerFunc}

\* Mutant: marked objects are finalized too.
FinalizersDueOfAll ==
  IF activeFinalizers = 0 THEN {} ELSE {o \in used : o \notin hidden /\ o \in finalizerFunc}

\* Phase 1 calls the finalizers of the unmarked objects in the order of the heap.
FinalizersDue ==
  IF activeFinalizers = 0 THEN {}
  ELSE {o \in used : o \notin dark \cup hidden /\ o \in finalizerFunc}

callFinalizer(o) ==
  /\ phase \in {"finalizers", "exit"} /\ finalizing = 0
  /\ o \in FinalizersDue /\ \A p \in FinalizersDue : o <= p
  /\ finalizing' = o /\ dontGC' = TRUE
  /\ UNCHANGED <<heapVars, finalVars, youngVars, dark, phase, scratch, GCOn, hidden,
                 roots, request>>

\* The finalizer creates an object: dontGC is set, so a heap is added if needed.
FinalizerCreates(s) ==
  /\ finalizing # 0
  /\ IF Freed(freeList) # {}
     THEN Take(s, FALSE) /\ UNCHANGED heapsUsed /\ scratch' = scratch \cup {s}
     ELSE /\ heapsUsed + 1 < MaxHeaps
          /\ heapsUsed' = heapsUsed + 1
          /\ freeList' = WithHeap(freeList, heapsUsed + 1)
          /\ UNCHANGED <<used, gen, refs, youngVars, scratch>>
  /\ UNCHANGED <<finalVars, dark, phase, finalizing, flagVars, hidden, roots, request>>

FinalizerReturns ==
  /\ finalizing # 0
  /\ finalizerFunc' = finalizerFunc \ {finalizing}
  /\ activeFinalizers' = activeFinalizers - 1
  /\ finalizing' = 0 /\ scratch' = {} /\ dontGC' = FALSE
  /\ UNCHANGED <<heapVars, youngVars, dark, phase, GCOn, hidden, roots, request>>

Unmarked == used \ (dark \cup hidden)

\* The free list of phase 2.  The slots that were free before the collection
\* are on it no more; those of a heap added for the last finalizer are.
Relinked ==
  [s \in Slots |-> (IF activeFinalizers = 0 THEN freeList[s] ELSE 0)
                   + (IF s \in Unmarked THEN 1 ELSE 0)]

\* Mutant: a heap is added when much was freed.
MuchFreed == 2 * Cardinality(Unmarked) > FreeMin

\* numObjectsFreed, which counts every object twice, is below FREE_MIN.
FewFreed == 2 * Cardinality(Unmarked) < FreeMin

Sweep ==
  /\ phase = "finalizers" /\ finalizing = 0 /\ FinalizersDue = {}
  /\ used' = used \ Unmarked
  /\ refs' = [s \in Slots |-> IF s \in Unmarked THEN {} ELSE refs[s]]
  /\ gen' = Aged(dark, Unmarked)
  /\ finalizerFunc' = finalizerFunc \ Unmarked
  /\ IF FewFreed
     THEN /\ heapsUsed < MaxHeaps /\ heapsUsed' = heapsUsed + 1
          /\ freeList' = WithHeap(Relinked, heapsUsed + 1)
     ELSE heapsUsed' = heapsUsed /\ freeList' = Relinked
  /\ youngStack' = Zeros /\ youngStackSz' = 0 /\ rememberSet' = {}
  /\ dark' = {} /\ phase' = "run"
  /\ UNCHANGED <<activeFinalizers, finalizing, scratch, flagVars, hidden, roots, request>>

-----------------------------------------------------------------------------
(* freeObjects: the VM ends; whatever has a finalizer is due. *)

freeObjects ==
  /\ Running
  /\ phase' = "exit" /\ roots' = {} /\ hidden' = {} /\ dark' = {}
  /\ UNCHANGED <<heapVars, finalVars, youngVars, finalizing, scratch, flagVars, request>>

FreeAll ==
  /\ phase = "exit" /\ finalizing = 0 /\ FinalizersDue = {}
  /\ used' = {} /\ finalizerFunc' = {}
  /\ freeList' = Zeros /\ refs' = [s \in Slots |-> {}] /\ gen' = Zeros
  /\ youngStack' = Zeros /\ youngStackSz' = 0
  /\ phase' = "freed"
  /\ UNCHANGED <<heapsUsed, activeFinalizers, rememberSet, dark, finalizing, scratch,
                 flagVars, hidden, roots, request>>

-----------------------------------------------------------------------------
(* The program *)

\* A stack slot, a variable or a constant gets or loses an object.
Push(o) ==
  /\ Running /\ o \in Reachable \ roots
  /\ roots' = roots \cup {o}
  /\ UNCHANGED <<heapVars, finalVars, youngVars, markVars, flagVars, hidden, request>>

Pop(o) ==
  /\ Running /\ o \in roots
  /\ roots' = roots \ {o}
  /\ UNCHANGED <<heapVars, finalVars, youngVars, markVars, flagVars, hidden, request>>

AddRef(a, b) ==
  /\ Running /\ {a, b} \subseteq Reachable
  /\ b \notin refs[a] /\ Cardinality(refs[a]) < MaxRefs
  /\ refs' = [refs EXCEPT ![a] = @ \cup {b}]
  /\ UNCHANGED <<heapsUsed, freeList, used, gen, finalVars, youngStack, youngStackSz,
                 markVars, flagVars, hidden, roots, request>>

\* Mutant: only what old objects refer to is remembered.
WriteOldOwner(a, b) ==
  /\ AddRef(a, b)
  /\ rememberSet' = IF IsYoung(b) /\ ~IsYoung(a) THEN rememberSet \cup {b} ELSE rememberSet

\* A field, an element, an entry: the store goes with OBJ_WRITE.
Write(a, b) ==
  /\ AddRef(a, b)
  /\ rememberSet' = IF IsYoung(b) THEN rememberSet \cup {b} ELSE rememberSet

\* A closed upvalue, here one that was promoted, gets its value without OBJ_WRITE.
SetClosedUpvalue(a, b) ==
  /\ "upvalue" \in Misuse
  /\ ~IsYoung(a)
  /\ AddRef(a, b) /\ UNCHANGED rememberSet

Erase(a, b) ==
  /\ Running /\ a \in Reachable /\ b \in refs[a]
  /\ refs' = [refs EXCEPT ![a] = @ \ {b}]
  /\ UNCHANGED <<heapsUsed, freeList, used, gen, finalVars, youngVars, markVars,
                 flagVars, hidden, roots, request>>

hideFromGC(o) ==
  /\ Running /\ o \in Reachable \ hidden /\ Cardinality(hidden) < MaxHidden
  /\ hidden' = hidden \cup {o}
  /\ UNCHANGED <<heapVars, finalVars, youngVars, markVars, flagVars, roots, request>>

unhideFromGC(o) ==
  /\ Running /\ o \in hidden
  /\ hidden' = hidden \ {o}
  /\ UNCHANGED <<heapVars, finalVars, youngVars, markVars, flagVars, roots, request>>

\* Mutant: a finalizer that replaces another is counted again.
SetFinalizerCounted(o) ==
  /\ Running /\ o \in Reachable
  /\ o \in finalizerFunc \/ activeFinalizers < MaxFinalizers
  /\ activeFinalizers' = activeFinalizers + 1
  /\ gen' = [gen EXCEPT ![o] = GCPromoteOnce(@)]
  /\ finalizerFunc' = finalizerFunc \cup {o}
  /\ UNCHANGED <<heapsUsed, freeList, used, refs, youngVars, markVars, flagVars, hidden,
                 roots, request>>

setObjectFinalizer(o) ==
  /\ Running /\ o \in Reachable
  /\ IF o \in finalizerFunc THEN UNCHANGED <<gen, activeFinalizers>>
     ELSE /\ activeFinalizers < MaxFinalizers
          /\ activeFinalizers' = activeFinalizers + 1
          /\ gen' = [gen EXCEPT ![o] = GCPromoteOnce(@)]
  /\ finalizerFunc' = finalizerFunc \cup {o}
  /\ UNCHANGED <<heapsUsed, freeList, used, refs, youngVars, markVars, flagVars, hidden,
                 roots, request>>

turnGCOnOff ==
  /\ Running
  /\ GCOn' = ~GCOn
  /\ UNCHANGED <<heapVars, finalVars, youngVars, markVars, dontGC, hidden, roots, request>>

\* Lox code that runs while a finalizer does, its own or that of another
\* thread, keeps an object in a variable.
StoreWhileFinalizing(o) ==
  /\ "store" \in Misuse
  /\ finalizing # 0 /\ o \in scratch \cup {finalizing}
  /\ roots' = roots \cup {o}
  /\ UNCHANGED <<heapVars, finalVars, youngVars, markVars, flagVars, hidden, request>>

\* An error leaves the finalizer for a handler of the code that allocated: the
\* collection ends here, and so does a GC.collect that had turned the collector on.
FinalizerThrows ==
  /\ "throw" \in Misuse /\ finalizing # 0 /\ phase = "finalizers"
  /\ GCOn' = TRUE
  /\ phase' = "run" /\ finalizing' = 0 /\ scratch' = {} /\ request' = NoRequest
  /\ UNCHANGED <<heapVars, finalVars, youngVars, dark, dontGC, hidden, roots>>

Allocation ==
  \/ \E isOld \in BOOLEAN : getNewObject(isOld)
  \/ \E s \in Slots : TakeFree(s)
  \/ AddHeap \/ TryYoungCollect \/ TryCollect

Collection ==
  \/ lxGCCollectYoung \/ lxGCCollect
  \/ \E o \in Slots : callFinalizer(o) \/ FinalizerCreates(o)
  \/ FinalizerReturns \/ Sweep \/ freeObjects \/ FreeAll

Program ==
  \/ \E o \in Slots : Push(o) \/ Pop(o) \/ hideFromGC(o) \/ unhideFromGC(o)
                      \/ setObjectFinalizer(o)
  \/ \E a, b \in Slots : Write(a, b) \/ Erase(a, b)
  \/ turnGCOnOff

Misused ==
  \/ \E a, b \in Slots : SetClosedUpvalue(a, b)
  \/ \E o \in Slots : StoreWhileFinalizing(o)
  \/ FinalizerThrows

Next == Allocation \/ Collection \/ Program \/ Misused

Spec == Init /\ [][Next]_vars

-----------------------------------------------------------------------------
(* Properties *)

TypeOK ==
  /\ heapsUsed \in 1..MaxHeaps
  /\ freeList \in [Slots -> Nat] /\ youngStack \in [Slots -> Nat]
  /\ youngStackSz \in 0..YoungMax
  /\ gen \in [Slots -> 0..GenMax]
  /\ refs \in [Slots -> SUBSET Slots]
  /\ used \subseteq Slots /\ hidden \subseteq Slots /\ roots \subseteq Slots
  /\ finalizerFunc \subseteq Slots /\ rememberSet \subseteq Slots
  /\ dark \subseteq Slots /\ scratch \subseteq Slots
  /\ activeFinalizers \in Int
  /\ phase \in {"run", "finalizers", "exit", "freed"} /\ finalizing \in {0} \cup Slots
  /\ request \in Requests
  /\ GCOn \in BOOLEAN /\ dontGC \in BOOLEAN

\* What the program can reach was not freed, whatever was written where and
\* promoted when since it was created.
NoDangling == Reachable \subseteq used

\* A slot is linked once, and only when no object is in it: getNewObject never
\* gives one slot to two objects.
FreeListSound ==
  \A s \in Slots : /\ freeList[s] \in {0, 1}
                   /\ freeList[s] = 1 => s \notin used /\ s \in 1..(HeapSlots * heapsUsed)

\* activeFinalizers, which decides whether phase 1 runs at all, is exact.
FinalizersCounted == activeFinalizers = Cardinality(finalizerFunc \cap used)

\* DBG_ASSERT(tries < 3): one young and one full collection always leave room.
FewTries == request.pending => request.tries < 3

\* The memory of an object with a finalizer is not reclaimed before the call has
\* returned, by which finalizerFunc is reset.
FinalizerFirst == [][used \cap finalizerFunc \subseteq used']_vars

\* The edges a program can follow: the collector clears what nobody can reach.
Trimmed == LET reach == ClosedUnder(roots \cup hidden, Slots)
           IN [s \in Slots |-> IF s \in reach THEN refs[s] ELSE {}]

Graph == INSTANCE ObjectGraph WITH
  Objects <- Slots, kept <- hidden, graph <- Trimmed, finalizable <- finalizerFunc

\* A program sees the objects it can reach, as it left them, and nothing else.
ImplementsObjectGraph == Graph!Spec
=============================================================================

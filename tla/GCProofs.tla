------------------------------ MODULE GCProofs ------------------------------
(***************************************************************************)
(* Theorems about the collector, for every size of the heaps and stacks.   *)
(*                                                                         *)
(* NoDangling is not inductive: a collection decides by marks, generations *)
(* and the remember set, not by reachability.  What carries it through a   *)
(* young collection is that a young object somebody refers to, from        *)
(* wherever, is in the remember set (RefsKept), and through a full one     *)
(* that the marked objects are closed under references (MarksKept).        *)
(***************************************************************************)
EXTENDS GC, FiniteSetTheorems, TLAPS

(* With live the used slots of h heaps, a slot is linked at most once, and *)
(* only when it is free and its heap exists.                               *)
LinksKept(links, live, h) ==
  /\ \A s \in Slots : /\ links[s] \in {0, 1}
                      /\ links[s] = 1 => s \notin live /\ s <= HeapSlots * h
  /\ \A s \in live : s <= HeapSlots * h

(* A slot is on the young stack at most once, and only when it is used. *)
SlotsKept ==
  /\ LinksKept(freeList, used, heapsUsed)
  /\ \A s \in Slots : /\ youngStack[s] \in {0, 1}
                      /\ youngStack[s] = 1 => s \in used

(* Where the control is agrees with the locals of the collection, and      *)
(* without misuse an object is dark between mark and sweep only.           *)
PhaseKept ==
  /\ phase \in {"run", "freed"} => finalizing = 0
  /\ finalizing = 0 => scratch = {}
  /\ phase \in {"exit", "freed"} => roots = {} /\ hidden = {}
  /\ phase # "finalizers" => dark = {}

(* References of objects stay inside the used slots; the young ones that a *)
(* young collection would look at are remembered.                          *)
RefsKept ==
  /\ roots \cup hidden \cup scratch \subseteq used
  /\ \A a \in used : refs[a] \subseteq used
  /\ \A a \in used : \A b \in refs[a] :
       youngStack[b] > 0 /\ gen[b] = 0 => b \in rememberSet

(* Between mark and sweep the marked objects hold the roots and are closed. *)
MarksKept ==
  phase = "finalizers" =>
    /\ roots \cup hidden \subseteq dark
    /\ \A a \in dark : a \in used /\ refs[a] \subseteq dark

(* Finalizers belong to promoted objects. *)
FinalizersKept ==
  /\ finalizerFunc \subseteq used
  /\ \A o \in finalizerFunc : gen[o] > 0
  /\ finalizing # 0 => finalizing \in finalizerFunc
  /\ activeFinalizers = Cardinality(finalizerFunc)

-----------------------------------------------------------------------------
(* The slots of a new heap lie behind all the others. *)
LEMMA NewHeap ==
  ASSUME NEW h \in Nat, NEW s \in SlotsOf(h + 1)
  PROVE  /\ s \in Int /\ s > HeapSlots * h /\ s <= HeapSlots * (h + 1)
BY SizesAssumption DEF SlotsOf

(* Another heap leaves the slots of the earlier ones where they are. *)
LEMMA HeapsGrow == \A h \in Nat : HeapSlots * h <= HeapSlots * (h + 1)
BY SizesAssumption

(* What is reachable from R is in every closed set that contains R. *)
LEMMA ClosedUnderLeast ==
  ASSUME NEW R, NEW Among, NEW S \in SUBSET Slots, R \subseteq S,
         \A a \in S : refs[a] \cap Among \subseteq S
  PROVE  ClosedUnder(R, Among) \subseteq S
BY DEF ClosedUnder

(* What a traversal reaches: slots, the start itself, and the targets of   *)
(* all it reached.                                                         *)
LEMMA ClosedUnderClosed ==
  ASSUME NEW R \in SUBSET Slots, NEW Among,
         \A a \in Slots : refs[a] \subseteq Slots
  PROVE  /\ ClosedUnder(R, Among) \subseteq Slots
         /\ R \subseteq ClosedUnder(R, Among)
         /\ \A a \in ClosedUnder(R, Among) :
              refs[a] \cap Among \subseteq ClosedUnder(R, Among)
BY DEF ClosedUnder

(* The program only gets at used slots. *)
LEMMA ReachableUsed ==
  ASSUME TypeOK, RefsKept
  PROVE  Reachable \subseteq used
<1>1. used \in SUBSET Slots
  BY DEF TypeOK
<1>2. roots \cup hidden \cup scratch \subseteq used
  BY DEF RefsKept
<1>3. \A a \in used : refs[a] \cap Slots \subseteq used
  BY DEF RefsKept
<1>4. QED
  BY <1>1, <1>2, <1>3, ClosedUnderLeast DEF Reachable

-----------------------------------------------------------------------------
(* The type invariant is inductive on its own. *)
LEMMA RequestType == NoRequest \in Requests
BY DEF Requests, NoRequest

(* TypeOK holds at the start. *)
LEMMA TypeInit == Init => TypeOK
<1>1. Zeros \in [Slots -> Nat] /\ Zeros \in [Slots -> 0..GenMax]
  BY SizesAssumption DEF Zeros
<1>2. NoRequest \in Requests
  BY RequestType
<1>3. [s \in Slots |-> IF s \in SlotsOf(1) THEN 1 ELSE 0] \in [Slots -> Nat]
  OBVIOUS
<1>4. [s \in Slots |-> {}] \in [Slots -> SUBSET Slots]
  OBVIOUS
<1>5. 1 \in 1..MaxHeaps /\ 0 \in 0..YoungMax
  BY SizesAssumption
<1>6. Init => GCOn \in BOOLEAN /\ dontGC \in BOOLEAN
  BY Zenon DEF Init
<1>7. QED
  BY <1>1, <1>2, <1>3, <1>4, <1>5, <1>6 DEF Init, TypeOK

(* A promoted generation is a generation. *)
LEMMA PromoteType == \A g \in 0..GenMax : GCPromoteOnce(g) \in 0..GenMax
BY SizesAssumption DEF GCPromoteOnce

(* The generations after a collection are generations. *)
LEMMA AgedType ==
  ASSUME TypeOK, NEW promoted, NEW freed
  PROVE  Aged(promoted, freed) \in [Slots -> 0..GenMax]
<1>1. \A s \in Slots : gen[s] \in 0..GenMax /\ 0 \in 0..GenMax
  BY SizesAssumption DEF TypeOK
<1>2. QED
  BY <1>1, PromoteType DEF Aged

(* A traversal reaches slots only. *)
LEMMA ClosedInSlots == \A R, Among : ClosedUnder(R, Among) \subseteq Slots
BY DEF ClosedUnder

(* Linking a new heap leaves a count of links per slot. *)
LEMMA WithHeapType ==
  ASSUME NEW links \in [Slots -> Nat], NEW h
  PROVE  WithHeap(links, h) \in [Slots -> Nat]
BY DEF WithHeap

(* getNewObject keeps the types of what it writes. *)
LEMMA TakeType ==
  ASSUME TypeOK, NEW s \in Slots, NEW isOld \in BOOLEAN, Take(s, isOld)
  PROVE  /\ freeList' \in [Slots -> Nat] /\ youngStack' \in [Slots -> Nat]
         /\ youngStackSz' \in 0..YoungMax
         /\ gen' \in [Slots -> 0..GenMax] /\ refs' \in [Slots -> SUBSET Slots]
         /\ used' \in SUBSET Slots /\ rememberSet' \in SUBSET Slots
<1> USE SizesAssumption DEF TypeOK
<1>1. freeList' \in [Slots -> Nat]
  BY DEF Take
<1>2. /\ youngStack' \in [Slots -> Nat] /\ youngStackSz' \in 0..YoungMax
  <2>1. CASE ~isOld /\ youngStackSz < YoungMax
    BY <2>1 DEF Take
  <2>2. CASE ~(~isOld /\ youngStackSz < YoungMax)
    BY <2>2 DEF Take
  <2>3. QED
    BY <2>1, <2>2
<1>3. gen' \in [Slots -> 0..GenMax] /\ refs' \in [Slots -> SUBSET Slots]
  BY DEF Take
<1>4. used' \in SUBSET Slots /\ rememberSet' \in SUBSET Slots
  BY DEF Take
<1>5. QED
  BY <1>1, <1>2, <1>3, <1>4

(* collectYoungGarbage keeps TypeOK. *)
LEMMA YoungType ==
  ASSUME TypeOK, collectYoungGarbage, request' \in Requests
  PROVE  TypeOK'
<1> USE SizesAssumption DEF TypeOK
<1>1. CASE youngStackSz = 0
  BY <1>1 DEF collectYoungGarbage, flagVars, youngVars
<1>2. ASSUME youngStackSz # 0, NEW D \in YoungMarks, CollectYoungWith(D) PROVE TypeOK'
  BY <1>2, AgedType DEF collectYoungGarbage, CollectYoungWith, flagVars, YoungCandidates, Zeros
<1>3. QED
  BY <1>1, <1>2 DEF collectYoungGarbage

(* The mark phase keeps TypeOK. *)
LEMMA MarkType ==
  ASSUME TypeOK, Mark, request' \in Requests
  PROVE  TypeOK'
<1>1. dark' \in SUBSET Slots
  BY ClosedInSlots DEF Mark, TypeOK
<1>2. gen' \in [Slots -> 0..GenMax]
  BY AgedType DEF Mark
<1>3. QED
  BY <1>1, <1>2 DEF TypeOK, Mark, heapVars, finalVars, youngVars, flagVars, Zeros

(* Allocation keeps TypeOK. *)
LEMMA AllocationType == TypeOK /\ Allocation => TypeOK'
<1> SUFFICES ASSUME TypeOK, Allocation PROVE TypeOK'
  OBVIOUS
<1> USE SizesAssumption
<1>1. ASSUME NEW isOld \in BOOLEAN, getNewObject(isOld) PROVE TypeOK'
  BY <1>1 DEF TypeOK, getNewObject, Requests, heapVars, finalVars, youngVars, markVars,
     flagVars
<1>2. ASSUME NEW s \in Slots, TakeFree(s) PROVE TypeOK'
  <2>1. request.isOld \in BOOLEAN
    BY <1>2 DEF TakeFree, TypeOK, Requests, NoRequest
  <2>2. Take(s, request.isOld)
    BY <1>2 DEF TakeFree
  <2>3. QED
    BY <1>2, <2>1, <2>2, TakeType, RequestType DEF TakeFree, TypeOK, finalVars, markVars, flagVars
<1>3. request.pending => Retry(request) \in Requests
  BY DEF TypeOK, Requests, NoRequest, Retry
<1>4. CASE AddHeap
  BY <1>3, <1>4, WithHeapType DEF AddHeap, TypeOK, finalVars, youngVars, markVars, flagVars
<1>5. CASE TryYoungCollect
  <2>1. request' \in Requests
    BY <1>3, <1>5 DEF TryYoungCollect, Requests, NoRequest, Retry, TypeOK
  <2>2. QED
    BY <1>5, <2>1, YoungType DEF TryYoungCollect
<1>6. CASE TryCollect
  <2>1. request' \in Requests
    BY <1>3, <1>6 DEF TryCollect, Requests, NoRequest, Retry, TypeOK
  <2>2. QED
    BY <1>6, <2>1, MarkType DEF TryCollect
<1>7. QED
  BY <1>1, <1>2, <1>4, <1>5, <1>6 DEF Allocation

(* A collection keeps TypeOK. *)
LEMMA CollectionType == TypeOK /\ Collection => TypeOK'
<1> SUFFICES ASSUME TypeOK, Collection PROVE TypeOK'
  OBVIOUS
<1> USE SizesAssumption
<1>1. CASE lxGCCollectYoung
  BY <1>1, YoungType DEF lxGCCollectYoung, TypeOK
<1>2. CASE lxGCCollect
  BY <1>2, MarkType DEF lxGCCollect, TypeOK
<1>3. ASSUME NEW o \in Slots, callFinalizer(o) PROVE TypeOK'
  BY <1>3 DEF callFinalizer, TypeOK, heapVars, finalVars, youngVars
<1>4. ASSUME NEW o \in Slots, FinalizerCreates(o) PROVE TypeOK'
  <2>1. CASE Freed(freeList) # {}
    BY <1>4, <2>1, TakeType DEF FinalizerCreates, TypeOK, finalVars, flagVars
  <2>2. CASE Freed(freeList) = {}
    BY <1>4, <2>2, WithHeapType DEF FinalizerCreates, TypeOK, finalVars, flagVars, youngVars
  <2>3. QED
    BY <2>1, <2>2
<1>5. CASE FinalizerReturns
  <2>1. /\ finalizerFunc' \subseteq Slots /\ activeFinalizers' \in Int
        /\ finalizing' = 0 /\ scratch' = {} /\ dontGC' = FALSE
    BY <1>5 DEF FinalizerReturns, TypeOK
  <2>2. UNCHANGED <<heapVars, youngVars, dark, phase, GCOn, hidden, roots, request>>
    BY <1>5 DEF FinalizerReturns
  <2>3. QED
    BY <2>1, <2>2 DEF TypeOK, heapVars, youngVars
<1>6. CASE Sweep
  <2>1. Relinked \in [Slots -> Nat]
    BY DEF Relinked, TypeOK
  <2>2. WithHeap(Relinked, heapsUsed + 1) \in [Slots -> Nat]
    BY <2>1, WithHeapType
  <2>4. freeList' \in [Slots -> Nat]
    BY <1>6, <2>1, <2>2 DEF Sweep
  <2>5. heapsUsed' \in 1..MaxHeaps
    BY <1>6 DEF Sweep, TypeOK
  <2>6. gen' \in [Slots -> 0..GenMax] /\ refs' \in [Slots -> SUBSET Slots]
    BY <1>6, AgedType DEF Sweep, TypeOK
  <2>7. QED
    BY <1>6, <2>4, <2>5, <2>6 DEF Sweep, TypeOK, flagVars, Zeros
<1>7. CASE freeObjects
  BY <1>7 DEF freeObjects, TypeOK, heapVars, finalVars, youngVars, flagVars
<1>8. CASE FreeAll
  BY <1>8 DEF FreeAll, TypeOK, flagVars, Zeros
<1>9. QED
  BY <1>1, <1>2, <1>3, <1>4, <1>5, <1>6, <1>7, <1>8 DEF Collection

(* The steps of the program, misuse included, keep TypeOK. *)
LEMMA ProgramType == TypeOK /\ (Program \/ Misused) => TypeOK'
<1> SUFFICES ASSUME TypeOK, Program \/ Misused PROVE TypeOK'
  OBVIOUS
<1> USE SizesAssumption DEF heapVars, finalVars, youngVars, markVars, flagVars
<1>1. ASSUME NEW o \in Slots,
             Push(o) \/ Pop(o) \/ hideFromGC(o) \/ unhideFromGC(o)
      PROVE  TypeOK'
  BY <1>1 DEF Push, Pop, hideFromGC, unhideFromGC, TypeOK
<1>2. ASSUME NEW o \in Slots, setObjectFinalizer(o) PROVE TypeOK'
  BY <1>2, PromoteType DEF setObjectFinalizer, TypeOK
<1>3. ASSUME NEW a \in Slots, NEW b \in Slots, Write(a, b) \/ SetClosedUpvalue(a, b)
      PROVE  TypeOK'
  BY <1>3 DEF Write, SetClosedUpvalue, AddRef, TypeOK
<1>4. ASSUME NEW a \in Slots, NEW b \in Slots, Erase(a, b) PROVE TypeOK'
  BY <1>4 DEF Erase, TypeOK
<1>5. CASE turnGCOnOff
  BY <1>5 DEF turnGCOnOff, TypeOK
<1>6. ASSUME NEW o \in Slots, StoreWhileFinalizing(o) PROVE TypeOK'
  BY <1>6 DEF StoreWhileFinalizing, TypeOK
<1>7. CASE FinalizerThrows
  BY <1>7, RequestType DEF FinalizerThrows, TypeOK
<1>8. QED
  BY <1>1, <1>2, <1>3, <1>4, <1>5, <1>6, <1>7 DEF Program, Misused

(* Every step keeps TypeOK. *)
LEMMA TypeStep == TypeOK /\ [Next]_vars => TypeOK'
<1>1. TypeOK /\ UNCHANGED vars => TypeOK'
  BY DEF vars, heapVars, finalVars, youngVars, markVars, flagVars, TypeOK
<1>2. QED
  BY <1>1, AllocationType, CollectionType, ProgramType DEF Next

(* Every variable keeps its type, whatever the program does. *)
THEOREM TypeCorrect == Spec => []TypeOK
<1>1. QED
  BY TypeInit, TypeStep, PTL DEF Spec

-----------------------------------------------------------------------------
(* No slot is handed out twice. *)
LEMMA SlotsInit == Init => SlotsKept
<1>1. \A s \in SlotsOf(1) : s <= HeapSlots * 1
  BY SizesAssumption DEF SlotsOf
<1>2. QED
  BY <1>1, SizesAssumption DEF Init, SlotsKept, LinksKept, Zeros

(* A new heap is linked: its slots lie behind all that are in use. *)
LEMMA LinksOfHeap ==
  ASSUME NEW h \in Nat, NEW links \in [Slots -> Nat], NEW live \in SUBSET Slots,
         LinksKept(links, live, h)
  PROVE  LinksKept(WithHeap(links, h + 1), live, h + 1)
<1> DEFINE lo == HeapSlots * h
           hi == HeapSlots * (h + 1)
           new == WithHeap(links, h + 1)
<1>1. lo \in Int /\ hi \in Int /\ lo <= hi
  BY SizesAssumption, HeapsGrow
<1>2. \A s \in SlotsOf(h + 1) : s \in Int /\ s > lo /\ s <= hi
  BY NewHeap
<1>3. Slots \subseteq Int
  BY SizesAssumption DEF Slots
<1>4. /\ \A s \in Slots : /\ links[s] \in {0, 1}
                          /\ links[s] = 1 => s \notin live /\ s <= lo
      /\ \A s \in live : s <= lo
  BY DEF LinksKept
<1>5. \A s \in Slots : new[s] = IF s \in SlotsOf(h + 1) THEN links[s] + 1 ELSE links[s]
  BY DEF WithHeap
<1> HIDE DEF lo, hi, new
<1>6. ASSUME NEW s \in Slots
      PROVE  new[s] \in {0, 1} /\ (new[s] = 1 => s \notin live /\ s <= hi)
  <2>1. CASE s \in SlotsOf(h + 1)
    <3>1. links[s] = 0 /\ s \notin live
      BY <2>1, <1>1, <1>2, <1>3, <1>4
    <3>2. QED
      BY <3>1, <2>1, <1>2, <1>5
  <2>2. CASE s \notin SlotsOf(h + 1)
    BY <2>2, <1>1, <1>3, <1>4, <1>5
  <2>3. QED
    BY <2>1, <2>2
<1>7. \A s \in live : s <= hi
  BY <1>1, <1>3, <1>4
<1>8. QED
  BY <1>6, <1>7 DEF LinksKept, hi, new

(* Taking a slot off the free list. *)
LEMMA SlotsTake ==
  ASSUME TypeOK, SlotsKept, NEW s \in Slots, NEW isOld \in BOOLEAN, Take(s, isOld),
         heapsUsed' = heapsUsed
  PROVE  SlotsKept'
<1>1. freeList[s] = 1 /\ s \notin used /\ s <= HeapSlots * heapsUsed
  BY DEF Take, SlotsKept, LinksKept, TypeOK
<1>2. youngStack[s] = 0
  BY <1>1 DEF SlotsKept
<1>3. \A t \in Slots : /\ freeList'[t] = IF t = s THEN 0 ELSE freeList[t]
                       /\ t # s => youngStack'[t] = youngStack[t]
                       /\ youngStack'[s] \in {0, 1}
  BY <1>1, <1>2 DEF Take, TypeOK
<1>4. used' = used \cup {s}
  BY DEF Take
<1>5. QED
  BY <1>1, <1>3, <1>4 DEF SlotsKept, LinksKept

(* The young collection, which puts slots back on the free list. *)
LEMMA SlotsYoung ==
  ASSUME TypeOK, SlotsKept, collectYoungGarbage
  PROVE  SlotsKept'
<1>1. CASE youngStackSz = 0
  BY <1>1 DEF collectYoungGarbage, SlotsKept, youngVars
<1>2. ASSUME NEW D \in YoungMarks, CollectYoungWith(D) PROVE SlotsKept'
  <2> DEFINE freed == YoungCandidates
                      \ {s \in YoungCandidates :
                           s \in D \cup dark \cup rememberSet \cup finalizerFunc}
  <2>1. /\ used' = used \ freed
        /\ freeList' = [s \in Slots |-> IF s \in freed THEN freeList[s] + youngStack[s]
                                        ELSE freeList[s]]
        /\ youngStack' = Zeros
    BY <1>2 DEF CollectYoungWith
  <2>2. \A s \in freed : s \in Slots /\ youngStack[s] > 0
    BY DEF YoungCandidates
  <2> HIDE DEF freed
  <2>3. \A s \in freed : youngStack[s] = 1 /\ s \in used /\ freeList[s] = 0
    BY <2>2 DEF SlotsKept, LinksKept
  <2>4. heapsUsed' = heapsUsed
    BY DEF collectYoungGarbage
  <2>5. LinksKept(freeList', used', heapsUsed)
    BY <2>1, <2>2, <2>3 DEF SlotsKept, LinksKept, TypeOK
  <2>6. QED
    BY <2>1, <2>4, <2>5 DEF SlotsKept, Zeros
<1>3. QED
  BY <1>1, <1>2 DEF collectYoungGarbage

(* The sweep, which puts slots back on the free list. *)
LEMMA SlotsSweep == ASSUME TypeOK, SlotsKept, Sweep PROVE SlotsKept'
<1>1. Unmarked \subseteq used /\ used' = used \ Unmarked /\ youngStack' = Zeros
  BY DEF Unmarked, Sweep
<1>2. Relinked \in [Slots -> Nat] /\ heapsUsed \in Nat /\ used' \in SUBSET Slots
  BY <1>1 DEF Relinked, TypeOK
<1>3. LinksKept(Relinked, used', heapsUsed)
  BY <1>1 DEF Relinked, SlotsKept, LinksKept, TypeOK
<1>4. LinksKept(freeList', used', heapsUsed')
  <2>1. CASE FewFreed
    <3>1. freeList' = WithHeap(Relinked, heapsUsed + 1) /\ heapsUsed' = heapsUsed + 1
      BY <2>1 DEF Sweep
    <3>2. QED
      BY <1>2, <1>3, <3>1, LinksOfHeap
  <2>2. CASE ~FewFreed
    BY <1>3, <2>2 DEF Sweep
  <2>3. QED
    BY <2>1, <2>2
<1>5. QED
  BY <1>1, <1>4 DEF SlotsKept, Zeros

(* A new heap, all of whose slots are linked once. *)
LEMMA SlotsAddHeap ==
  ASSUME TypeOK, SlotsKept, heapsUsed' = heapsUsed + 1,
         freeList' = WithHeap(freeList, heapsUsed + 1),
         UNCHANGED <<used, youngStack>>
  PROVE  SlotsKept'
<1>1. freeList \in [Slots -> Nat] /\ used \in SUBSET Slots /\ heapsUsed \in Nat
  BY DEF TypeOK
<1>2. LinksKept(freeList', used, heapsUsed + 1)
  BY <1>1, LinksOfHeap DEF SlotsKept
<1>3. QED
  BY <1>2 DEF SlotsKept

(* Every step keeps SlotsKept. *)
LEMMA SlotsStep == TypeOK /\ SlotsKept /\ [Next]_vars => SlotsKept'
<1> SUFFICES ASSUME TypeOK, SlotsKept, [Next]_vars PROVE SlotsKept'
  OBVIOUS
<1> USE DEF heapVars, youngVars
<1>0. UNCHANGED <<heapsUsed, freeList, used, youngStack>> => SlotsKept'
  BY DEF SlotsKept
<1>1. CASE UNCHANGED vars
  BY <1>0, <1>1 DEF vars
<1>2. CASE Allocation
  <2>1. ASSUME NEW isOld \in BOOLEAN, getNewObject(isOld) PROVE SlotsKept'
    BY <1>0, <2>1 DEF getNewObject
  <2>2. ASSUME NEW s \in Slots, TakeFree(s) PROVE SlotsKept'
    BY <2>2, SlotsTake DEF TakeFree, TypeOK, Requests
  <2>3. CASE AddHeap
    BY <2>3, SlotsAddHeap DEF AddHeap
  <2>4. CASE TryYoungCollect
    BY <2>4, SlotsYoung DEF TryYoungCollect
  <2>5. CASE TryCollect
    BY <2>5 DEF TryCollect, Mark, SlotsKept, LinksKept, Zeros
  <2>6. QED
    BY <1>2, <2>1, <2>2, <2>3, <2>4, <2>5 DEF Allocation
<1>3. CASE Collection
  <2>1. CASE lxGCCollectYoung
    BY <2>1, SlotsYoung DEF lxGCCollectYoung
  <2>2. CASE lxGCCollect
    BY <2>2 DEF lxGCCollect, Mark, SlotsKept, LinksKept, Zeros
  <2>3. ASSUME NEW o \in Slots, callFinalizer(o) PROVE SlotsKept'
    BY <1>0, <2>3 DEF callFinalizer
  <2>4. ASSUME NEW o \in Slots, FinalizerCreates(o) PROVE SlotsKept'
    <3>1. CASE Freed(freeList) # {}
      BY <2>4, <3>1, SlotsTake DEF FinalizerCreates
    <3>2. CASE Freed(freeList) = {}
      BY <2>4, <3>2, SlotsAddHeap DEF FinalizerCreates
    <3>3. QED
      BY <3>1, <3>2
  <2>5. CASE FinalizerReturns
    BY <1>0, <2>5 DEF FinalizerReturns
  <2>6. CASE Sweep
    BY <2>6, SlotsSweep
  <2>7. CASE freeObjects
    BY <1>0, <2>7 DEF freeObjects
  <2>8. CASE FreeAll
    BY <2>8 DEF FreeAll, SlotsKept, LinksKept, Zeros
  <2>9. QED
    BY <1>3, <2>1, <2>2, <2>3, <2>4, <2>5, <2>6, <2>7, <2>8 DEF Collection
<1>4. CASE Program
  BY <1>0, <1>4 DEF Program, Push, Pop, Write, AddRef, Erase, hideFromGC, unhideFromGC,
     setObjectFinalizer, turnGCOnOff
<1>5. CASE Misused
  BY <1>0, <1>5 DEF Misused, SetClosedUpvalue, AddRef, StoreWhileFinalizing, FinalizerThrows
<1>6. QED
  BY <1>1, <1>2, <1>3, <1>4, <1>5 DEF Next

(* Neither retries, nor collections, nor finalizers that allocate, nor the *)
(* misuse of the barrier link a slot twice or while it is used.            *)
THEOREM FreeListIsSound == Spec => []FreeListSound
<1>1. Init => TypeOK /\ SlotsKept
  BY TypeInit, SlotsInit
<1>2. TypeOK /\ SlotsKept /\ [Next]_vars => TypeOK' /\ SlotsKept'
  BY TypeStep, SlotsStep
<1>3. TypeOK /\ SlotsKept => FreeListSound
  BY SizesAssumption DEF TypeOK, SlotsKept, LinksKept, FreeListSound, Slots
<1>4. QED
  BY <1>1, <1>2, <1>3, PTL DEF Spec

-----------------------------------------------------------------------------
(* What the program can reach is not freed. *)
LEMMA PhaseStep ==
  ASSUME Misuse = {}, TypeOK, PhaseKept, [Next]_vars
  PROVE  PhaseKept'
<1> USE DEF heapVars, finalVars, youngVars, markVars, flagVars, PhaseKept
<1>1. CASE UNCHANGED vars
  BY <1>1 DEF vars
<1>young. ASSUME collectYoungGarbage, phase = "run" PROVE PhaseKept'
  <2>1. UNCHANGED <<phase, finalizing, scratch>>
    BY <1>young DEF collectYoungGarbage
  <2>2. dark' = {}
    BY <1>young DEF collectYoungGarbage, CollectYoungWith
  <2>3. QED
    BY <1>young, <2>1, <2>2
<1>mark. ASSUME Mark, phase = "run" PROVE PhaseKept'
  BY <1>mark DEF Mark
<1>2. CASE Allocation
  <2>1. CASE TryYoungCollect \/ TryCollect
    BY <1>young, <1>mark, <2>1 DEF TryYoungCollect, TryCollect
  <2>2. CASE AddHeap \/ \E isOld \in BOOLEAN : getNewObject(isOld)
    BY <2>2 DEF AddHeap, getNewObject, Running
  <2>3. ASSUME NEW s \in Slots, TakeFree(s) PROVE PhaseKept'
    BY <2>3 DEF TakeFree
  <2>4. QED
    BY <1>2, <2>1, <2>2, <2>3 DEF Allocation
<1>3. CASE Collection
  <2>1. CASE lxGCCollectYoung \/ lxGCCollect
    BY <1>young, <1>mark, <2>1 DEF lxGCCollectYoung, lxGCCollect, Running
  <2>2. ASSUME NEW o \in Slots, callFinalizer(o) \/ FinalizerCreates(o) PROVE PhaseKept'
    <3>1. o # 0
      BY SizesAssumption DEF Slots
    <3>2. QED
      BY <2>2, <3>1 DEF callFinalizer, FinalizerCreates
  <2>3. CASE FinalizerReturns
    BY <2>3 DEF FinalizerReturns
  <2>4. CASE Sweep \/ freeObjects \/ FreeAll
    BY <2>4 DEF Sweep, freeObjects, FreeAll, Running
  <2>5. QED
    BY <1>3, <2>1, <2>2, <2>3, <2>4 DEF Collection
<1>4. CASE Program
  BY <1>4 DEF Program, Push, Pop, Write, AddRef, Erase, hideFromGC, unhideFromGC,
     setObjectFinalizer, turnGCOnOff, Running
<1>5. ~Misused
  BY DEF Misused, SetClosedUpvalue, StoreWhileFinalizing, FinalizerThrows
<1>6. QED
  BY <1>1, <1>2, <1>3, <1>4, <1>5 DEF Next

(* A collection makes no object younger that it does not free. *)
LEMMA AgedOlder ==
  ASSUME TypeOK, NEW promoted, NEW freed, NEW s \in Slots, s \notin freed
  PROVE  /\ Aged(promoted, freed)[s] = 0 => gen[s] = 0
         /\ gen[s] > 0 => Aged(promoted, freed)[s] > 0
BY SizesAssumption DEF Aged, GCPromoteOnce, TypeOK

(* A new object is referred to by none. *)
LEMMA RefsTake ==
  ASSUME TypeOK, SlotsKept, RefsKept, NEW s \in Slots, NEW isOld \in BOOLEAN,
         Take(s, isOld),
         roots' \cup hidden' \cup scratch' \subseteq roots \cup hidden \cup scratch \cup {s}
  PROVE  RefsKept'
<1>1. s \notin used
  BY DEF Take, SlotsKept, LinksKept, TypeOK
<1>2. /\ used' = used \cup {s} /\ rememberSet' = rememberSet
      /\ \A t \in Slots : t # s => /\ gen'[t] = gen[t] /\ refs'[t] = refs[t]
                                   /\ youngStack'[t] = youngStack[t]
      /\ refs'[s] = {}
  BY DEF Take, TypeOK
<1>3. \A a \in used : refs[a] \subseteq used
  BY DEF RefsKept
<1>4. used \subseteq Slots
  BY DEF TypeOK
<1>5. ASSUME NEW a \in used', NEW b \in refs'[a]
      PROVE  /\ b \in used'
             /\ youngStack'[b] > 0 /\ gen'[b] = 0 => b \in rememberSet'
  <2>1. a \in used /\ refs'[a] = refs[a] /\ b \in used /\ b # s
    BY <1>1, <1>2, <1>3, <1>4, <1>5
  <2>2. QED
    BY <1>2, <1>4, <2>1 DEF RefsKept
<1>6. roots' \cup hidden' \cup scratch' \subseteq used'
  BY <1>2 DEF RefsKept
<1>7. QED
  BY <1>5, <1>6 DEF RefsKept

(* What a young collection frees has no reference to it, old or young. *)
LEMMA RefsYoung ==
  ASSUME TypeOK, PhaseKept, RefsKept, collectYoungGarbage, phase = "run"
  PROVE  RefsKept'
<1>1. CASE youngStackSz = 0
  BY <1>1 DEF collectYoungGarbage, RefsKept, youngVars
<1>2. ASSUME NEW D \in YoungMarks, CollectYoungWith(D) PROVE RefsKept'
  <2> DEFINE freed == YoungCandidates
                      \ {s \in YoungCandidates :
                           s \in D \cup dark \cup rememberSet \cup finalizerFunc}
  <2>1. /\ used' = used \ freed
        /\ refs' = [s \in Slots |-> IF s \in freed THEN {} ELSE refs[s]]
        /\ youngStack' = Zeros
    BY <1>2 DEF CollectYoungWith
  <2>2. UNCHANGED <<roots, hidden, scratch>> /\ scratch = {}
    BY DEF collectYoungGarbage, PhaseKept
  <2>3. \A s \in freed : /\ s \notin roots /\ s \notin hidden /\ s \notin rememberSet
                         /\ youngStack[s] > 0 /\ gen[s] = 0
    BY <1>2 DEF YoungCandidates, YoungMarks, IsYoung, White, PhaseKept
  <2> HIDE DEF freed
  <2>4. \A a \in used : refs[a] \cap freed = {}
    BY <2>3 DEF RefsKept
  <2>5. used \subseteq Slots
    BY DEF TypeOK
  <2>6. roots' \cup hidden' \cup scratch' \subseteq used'
    BY <2>1, <2>2, <2>3 DEF RefsKept
  <2>7. \A a \in used' : refs'[a] \subseteq used'
    BY <2>1, <2>4, <2>5 DEF RefsKept
  <2>8. \A b \in used' : youngStack'[b] = 0
    BY <2>1, <2>5 DEF Zeros
  <2>9. QED
    BY <2>6, <2>7, <2>8 DEF RefsKept
<1>3. QED
  BY <1>1, <1>2 DEF collectYoungGarbage

(* The mark phase changes no reference. *)
LEMMA RefsMark ==
  ASSUME TypeOK, RefsKept, Mark
  PROVE  RefsKept'
<1>1. UNCHANGED <<roots, hidden, scratch, used, refs, rememberSet, youngStack>>
  BY DEF Mark, youngVars
<1>2. \A b \in used : gen'[b] = 0 => gen[b] = 0
  BY AgedOlder DEF Mark, TypeOK
<1>3. QED
  BY <1>1, <1>2 DEF RefsKept

(* The sweep frees only what nothing marked leads to. *)
LEMMA RefsSweep ==
  ASSUME TypeOK, PhaseKept, RefsKept, MarksKept, Sweep
  PROVE  RefsKept'
<1>1. /\ roots \cup hidden \subseteq dark /\ scratch = {}
      /\ \A a \in dark : a \in used /\ refs[a] \subseteq dark
  BY DEF Sweep, PhaseKept, MarksKept
<1>2. used' = dark
  BY <1>1 DEF Sweep, Unmarked
<1>3. \A a \in dark : refs'[a] = refs[a]
  BY <1>1 DEF Sweep, Unmarked, TypeOK
<1>4. UNCHANGED <<roots, hidden, scratch>>
  BY DEF Sweep
<1>5. \A b \in used' : youngStack'[b] = 0
  BY <1>1, <1>2 DEF Sweep, Zeros, TypeOK
<1>6. QED
  BY <1>1, <1>2, <1>3, <1>4, <1>5 DEF RefsKept

(* The program stores only references to what it can reach. *)
LEMMA RefsProgram ==
  ASSUME TypeOK, RefsKept, Program
  PROVE  RefsKept'
<1> USE DEF heapVars, finalVars, youngVars, markVars, flagVars
<1>1. Reachable \subseteq used /\ used \subseteq Slots
  BY ReachableUsed DEF TypeOK
<1>2. ASSUME NEW o \in Slots,
             Push(o) \/ Pop(o) \/ hideFromGC(o) \/ unhideFromGC(o)
      PROVE  RefsKept'
  <2>1. UNCHANGED <<used, refs, gen, youngStack, rememberSet, scratch>>
    BY <1>2 DEF Push, Pop, hideFromGC, unhideFromGC
  <2>2. roots' \cup hidden' \subseteq used
    BY <1>1, <1>2 DEF Push, Pop, hideFromGC, unhideFromGC, RefsKept
  <2>3. QED
    BY <2>1, <2>2 DEF RefsKept
<1>3. ASSUME NEW o \in Slots, setObjectFinalizer(o) PROVE RefsKept'
  <2>1. UNCHANGED <<used, refs, youngStack, rememberSet, scratch, roots, hidden>>
    BY <1>3 DEF setObjectFinalizer
  <2>2. \A b \in Slots : gen'[b] = 0 => gen[b] = 0
    BY <1>3, SizesAssumption DEF setObjectFinalizer, GCPromoteOnce, TypeOK
  <2>3. QED
    BY <1>1, <2>1, <2>2 DEF RefsKept
<1>4. ASSUME NEW a \in Slots, NEW b \in Slots, Write(a, b) PROVE RefsKept'
  <2>1. /\ a \in used /\ b \in used
        /\ UNCHANGED <<used, gen, youngStack, scratch, roots, hidden>>
        /\ refs' = [refs EXCEPT ![a] = @ \cup {b}]
    BY <1>1, <1>4 DEF Write, AddRef
  <2>2. rememberSet \subseteq rememberSet' /\ (gen[b] = 0 => b \in rememberSet')
    BY <1>4 DEF Write, IsYoung
  <2>3. \A c \in used : refs'[c] = refs[c] \/ (c = a /\ refs'[c] = refs[c] \cup {b})
    BY <1>1, <2>1 DEF TypeOK
  <2>4. QED
    BY <2>1, <2>2, <2>3 DEF RefsKept
<1>5. ASSUME NEW a \in Slots, NEW b \in Slots, Erase(a, b) PROVE RefsKept'
  <2>1. /\ UNCHANGED <<used, gen, youngStack, rememberSet, scratch, roots, hidden>>
        /\ \A c \in used : refs'[c] \subseteq refs[c]
    BY <1>1, <1>5 DEF Erase, TypeOK
  <2>2. QED
    BY <2>1 DEF RefsKept
<1>6. CASE turnGCOnOff
  BY <1>6 DEF turnGCOnOff, RefsKept
<1>7. QED
  BY <1>2, <1>3, <1>4, <1>5, <1>6 DEF Program

(* Every step of a program without misuse keeps RefsKept. *)
LEMMA RefsStep ==
  ASSUME Misuse = {}, TypeOK, SlotsKept, PhaseKept, RefsKept, MarksKept, [Next]_vars
  PROVE  RefsKept'
<1> USE DEF heapVars, finalVars, youngVars, markVars, flagVars
<1>0. UNCHANGED <<used, refs, gen, youngStack, rememberSet>>
        /\ roots' \cup hidden' \cup scratch' \subseteq roots \cup hidden \cup scratch
        => RefsKept'
  BY DEF RefsKept
<1>1. CASE UNCHANGED vars
  BY <1>0, <1>1 DEF vars
<1>2. CASE Allocation
  <2>1. ASSUME NEW isOld \in BOOLEAN, getNewObject(isOld) PROVE RefsKept'
    BY <1>0, <2>1 DEF getNewObject
  <2>2. ASSUME NEW s \in Slots, TakeFree(s) PROVE RefsKept'
    <3>1. Take(s, request.isOld) /\ request.isOld \in BOOLEAN
      BY <2>2 DEF TakeFree, TypeOK, Requests
    <3>2. roots' \cup hidden' \cup scratch' \subseteq roots \cup hidden \cup scratch \cup {s}
      BY <2>2 DEF TakeFree
    <3>3. QED
      BY <3>1, <3>2, RefsTake
  <2>3. CASE AddHeap
    BY <1>0, <2>3 DEF AddHeap
  <2>4. CASE TryYoungCollect
    BY <2>4, RefsYoung DEF TryYoungCollect
  <2>5. CASE TryCollect
    BY <2>5, RefsMark DEF TryCollect
  <2>6. QED
    BY <1>2, <2>1, <2>2, <2>3, <2>4, <2>5 DEF Allocation
<1>3. CASE Collection
  <2>1. CASE lxGCCollectYoung
    BY <2>1, RefsYoung DEF lxGCCollectYoung, Running
  <2>2. CASE lxGCCollect
    BY <2>2, RefsMark DEF lxGCCollect
  <2>3. ASSUME NEW o \in Slots, callFinalizer(o) PROVE RefsKept'
    BY <1>0, <2>3 DEF callFinalizer
  <2>4. ASSUME NEW o \in Slots, FinalizerCreates(o) PROVE RefsKept'
    <3>1. CASE Freed(freeList) # {}
      <4>1. Take(o, FALSE)
        BY <2>4, <3>1 DEF FinalizerCreates
      <4>2. roots' \cup hidden' \cup scratch' \subseteq roots \cup hidden \cup scratch \cup {o}
        BY <2>4, <3>1 DEF FinalizerCreates
      <4>3. QED
        BY <4>1, <4>2, RefsTake
    <3>2. CASE Freed(freeList) = {}
      BY <1>0, <2>4, <3>2 DEF FinalizerCreates
    <3>3. QED
      BY <3>1, <3>2
  <2>5. CASE FinalizerReturns
    BY <1>0, <2>5 DEF FinalizerReturns
  <2>6. CASE Sweep
    BY <2>6, RefsSweep
  <2>7. CASE freeObjects
    BY <1>0, <2>7 DEF freeObjects
  <2>8. CASE FreeAll
    BY <2>8 DEF FreeAll, RefsKept, PhaseKept
  <2>9. QED
    BY <1>3, <2>1, <2>2, <2>3, <2>4, <2>5, <2>6, <2>7, <2>8 DEF Collection
<1>4. CASE Program
  BY <1>4, RefsProgram
<1>5. ~Misused
  BY DEF Misused, SetClosedUpvalue, StoreWhileFinalizing, FinalizerThrows
<1>6. QED
  BY <1>1, <1>2, <1>3, <1>4, <1>5 DEF Next

(* Mark blackens a closed set of used objects. *)
LEMMA MarksMark ==
  ASSUME TypeOK, PhaseKept, RefsKept, Mark, phase = "run"
  PROVE  MarksKept'
<1> DEFINE R == roots \cup hidden
<1>1. /\ R \in SUBSET Slots /\ R \subseteq used /\ used \in SUBSET Slots
      /\ \A a \in Slots : refs[a] \subseteq Slots
      /\ \A a \in used : refs[a] \cap Slots \subseteq used
  BY DEF TypeOK, RefsKept
<1>2. dark' = ClosedUnder(R, Slots) /\ UNCHANGED <<used, refs, roots, hidden>>
  <2>1. White = Slots /\ R \cap White = R /\ dark = {}
    BY <1>1 DEF White, PhaseKept
  <2>2. QED
    BY <2>1 DEF Mark
<1>3. ClosedUnder(R, Slots) \subseteq used
  BY <1>1, ClosedUnderLeast
<1>4. /\ R \subseteq ClosedUnder(R, Slots)
      /\ \A a \in ClosedUnder(R, Slots) : refs[a] \cap Slots \subseteq ClosedUnder(R, Slots)
  BY <1>1, ClosedUnderClosed
<1>5. \A a \in ClosedUnder(R, Slots) : refs[a] \subseteq Slots
  BY <1>1, <1>3
<1>6. QED
  BY <1>2, <1>3, <1>4, <1>5 DEF MarksKept

(* Every step of a program without misuse keeps MarksKept. *)
LEMMA MarksStep ==
  ASSUME Misuse = {}, TypeOK, SlotsKept, PhaseKept, RefsKept, MarksKept, [Next]_vars
  PROVE  MarksKept'
<1> USE DEF heapVars, finalVars, youngVars, markVars, flagVars
<1>0. UNCHANGED <<phase, dark, roots, hidden, refs>> /\ used \subseteq used' => MarksKept'
  BY DEF MarksKept
<1>1. CASE UNCHANGED vars
  BY <1>0, <1>1 DEF vars
<1>2. CASE Allocation
  <2>1. CASE TryCollect
    BY <2>1, MarksMark DEF TryCollect
  <2>2. CASE ~TryCollect
    <3>1. phase = "run" /\ phase' = "run"
      BY <1>2, <2>2 DEF Allocation, getNewObject, TakeFree, AddHeap, TryYoungCollect,
         collectYoungGarbage, Running
    <3>2. QED
      BY <3>1 DEF MarksKept
  <2>3. QED
    BY <2>1, <2>2
<1>3. CASE Collection
  <2>1. CASE lxGCCollectYoung
    BY <2>1 DEF lxGCCollectYoung, collectYoungGarbage, Running, MarksKept
  <2>2. CASE lxGCCollect
    BY <2>2, MarksMark DEF lxGCCollect, Running
  <2>3. ASSUME NEW o \in Slots, callFinalizer(o) PROVE MarksKept'
    BY <1>0, <2>3 DEF callFinalizer
  <2>4. ASSUME NEW o \in Slots, FinalizerCreates(o) PROVE MarksKept'
    <3>1. CASE Freed(freeList) # {}
      <4>1. Take(o, FALSE) /\ UNCHANGED <<phase, dark, roots, hidden>>
        BY <2>4, <3>1 DEF FinalizerCreates
      <4>2. o \notin used
        BY <4>1 DEF Take, SlotsKept, LinksKept, TypeOK
      <4>3. used \subseteq used' /\ \A a \in Slots : a # o => refs'[a] = refs[a]
        BY <4>1 DEF Take, TypeOK
      <4>4. QED
        BY <4>1, <4>2, <4>3 DEF MarksKept, TypeOK
    <3>2. CASE Freed(freeList) = {}
      BY <1>0, <2>4, <3>2 DEF FinalizerCreates
    <3>3. QED
      BY <3>1, <3>2
  <2>5. CASE FinalizerReturns
    BY <1>0, <2>5 DEF FinalizerReturns
  <2>6. CASE Sweep \/ freeObjects \/ FreeAll
    BY <2>6 DEF Sweep, freeObjects, FreeAll, MarksKept
  <2>7. QED
    BY <1>3, <2>1, <2>2, <2>3, <2>4, <2>5, <2>6 DEF Collection
<1>4. CASE Program
  <2>1. phase = "run" /\ phase' = "run"
    BY <1>4 DEF Program, Push, Pop, Write, AddRef, Erase, hideFromGC, unhideFromGC,
       setObjectFinalizer, turnGCOnOff, Running
  <2>2. QED
    BY <2>1 DEF MarksKept
<1>5. ~Misused
  BY DEF Misused, SetClosedUpvalue, StoreWhileFinalizing, FinalizerThrows
<1>6. QED
  BY <1>1, <1>2, <1>3, <1>4, <1>5 DEF Next

(* The inductive invariant, and with it that a program that stores with    *)
(* the write barrier finds all it can reach where it left it.              *)
THEOREM NothingDangles == Misuse = {} => (Spec => []NoDangling)
<1> SUFFICES ASSUME Misuse = {} PROVE Spec => []NoDangling
  OBVIOUS
<1> DEFINE Sound == TypeOK /\ SlotsKept /\ PhaseKept /\ RefsKept /\ MarksKept
<1>1. Init => Sound
  <2>1. Init => PhaseKept /\ RefsKept /\ MarksKept
    BY DEF Init, PhaseKept, RefsKept, MarksKept
  <2>2. QED
    BY <2>1, TypeInit, SlotsInit
<1>2. Sound /\ [Next]_vars => Sound'
  BY TypeStep, SlotsStep, PhaseStep, RefsStep, MarksStep
<1>3. Sound => NoDangling
  BY ReachableUsed DEF NoDangling
<1>4. QED
  BY <1>1, <1>2, <1>3, PTL DEF Spec

-----------------------------------------------------------------------------
(* Objects with a finalizer: counted, and kept until it has been called. *)
LEMMA SlotsFinite == \A S \in SUBSET Slots : IsFiniteSet(S) /\ Cardinality(S) \in Nat
<1>1. IsFiniteSet(Slots)
  BY FS_Interval, SizesAssumption DEF Slots
<1>2. QED
  BY <1>1, FS_Subset, FS_CardinalityType

(* With nothing left for phase 1 to call, no unmarked object has a finalizer. *)
LEMMA NoneDue ==
  ASSUME TypeOK, FinalizersKept, FinalizersDue = {}
  PROVE  finalizerFunc \cap (used \ (dark \cup hidden)) = {}
<1>1. CASE activeFinalizers = 0
  <2>1. finalizerFunc = {}
    BY <1>1, SlotsFinite, FS_EmptySet DEF FinalizersKept, TypeOK
  <2>2. QED
    BY <2>1
<1>2. CASE activeFinalizers # 0
  BY <1>2 DEF FinalizersDue
<1>3. QED
  BY <1>1, <1>2

(* A new object has no finalizer, and no object goes. *)
LEMMA FinalizersTake ==
  ASSUME TypeOK, SlotsKept, FinalizersKept, NEW s \in Slots, NEW isOld \in BOOLEAN,
         Take(s, isOld), UNCHANGED <<finalizerFunc, activeFinalizers, finalizing>>
  PROVE  FinalizersKept' /\ used \subseteq used'
<1>1. s \notin used
  BY DEF Take, SlotsKept, LinksKept, TypeOK
<1>2. /\ used' = used \cup {s}
      /\ \A t \in Slots : t # s => gen'[t] = gen[t]
  BY DEF Take, TypeOK
<1>3. QED
  BY <1>1, <1>2 DEF FinalizersKept, TypeOK

(* The young collection leaves objects with a finalizer alone. *)
LEMMA FinalizersYoung ==
  ASSUME TypeOK, FinalizersKept, collectYoungGarbage
  PROVE  FinalizersKept' /\ used \cap finalizerFunc \subseteq used'
<1>1. CASE youngStackSz = 0
  BY <1>1 DEF collectYoungGarbage, FinalizersKept
<1>2. ASSUME NEW D \in YoungMarks, CollectYoungWith(D)
      PROVE  FinalizersKept' /\ used \cap finalizerFunc \subseteq used'
  <2> DEFINE kept == {s \in YoungCandidates : s \in D \cup dark \cup rememberSet \cup finalizerFunc}
             freed == YoungCandidates \ kept
  <2>1. /\ used' = used \ freed /\ gen' = Aged(kept, freed)
        /\ finalizerFunc' = finalizerFunc \ freed
        /\ UNCHANGED <<activeFinalizers, finalizing>>
    BY <1>2 DEF CollectYoungWith, collectYoungGarbage
  <2>2. finalizerFunc \cap freed = {}
    OBVIOUS
  <2> HIDE DEF kept, freed
  <2>3. finalizerFunc' = finalizerFunc
    BY <2>1, <2>2
  <2>4. \A o \in finalizerFunc : o \in Slots /\ o \notin freed /\ gen[o] > 0
    BY <2>2 DEF FinalizersKept, TypeOK
  <2>5. \A o \in finalizerFunc : gen'[o] > 0
    BY <2>1, <2>4, AgedOlder
  <2>6. QED
    BY <2>1, <2>2, <2>3, <2>5 DEF FinalizersKept
<1>3. QED
  BY <1>1, <1>2 DEF collectYoungGarbage

(* The mark phase takes no object and no finalizer away. *)
LEMMA FinalizersMark ==
  ASSUME TypeOK, FinalizersKept, Mark
  PROVE  FinalizersKept' /\ used' = used
<1>1. \A o \in finalizerFunc : gen'[o] > 0
  BY AgedOlder DEF Mark, FinalizersKept, TypeOK
<1>2. QED
  BY <1>1 DEF Mark, FinalizersKept, finalVars

(* The sweep frees no object whose finalizer is still to be called. *)
LEMMA FinalizersSweep ==
  ASSUME TypeOK, FinalizersKept, Sweep
  PROVE  FinalizersKept' /\ used \cap finalizerFunc \subseteq used'
<1>1. finalizerFunc \cap Unmarked = {}
  BY NoneDue DEF Sweep, Unmarked
<1>2. /\ used' = used \ Unmarked /\ finalizerFunc' = finalizerFunc
      /\ gen' = Aged(dark, Unmarked) /\ UNCHANGED <<activeFinalizers, finalizing>>
  BY <1>1 DEF Sweep
<1>3. \A o \in finalizerFunc : gen'[o] > 0
  BY <1>1, <1>2, AgedOlder DEF FinalizersKept, TypeOK
<1>4. QED
  BY <1>1, <1>2, <1>3 DEF FinalizersKept

(* The program adds finalizers and lets them run; no object goes. *)
LEMMA FinalizersProgram ==
  ASSUME TypeOK, PhaseKept, RefsKept, FinalizersKept, Program
  PROVE  FinalizersKept' /\ used' = used
<1> USE DEF heapVars, finalVars, markVars
<1>1. ASSUME NEW o \in Slots, setObjectFinalizer(o)
      PROVE  FinalizersKept' /\ used' = used
  <2>1. /\ o \in used /\ finalizing = 0 /\ finalizing' = 0 /\ used' = used
        /\ finalizerFunc' = finalizerFunc \cup {o}
    BY <1>1, ReachableUsed DEF setObjectFinalizer, Running, PhaseKept
  <2>2. CASE o \in finalizerFunc
    BY <1>1, <2>1, <2>2 DEF setObjectFinalizer, FinalizersKept
  <2>3. CASE o \notin finalizerFunc
    <3>1. gen' = [gen EXCEPT ![o] = GCPromoteOnce(@)] /\ activeFinalizers' = activeFinalizers + 1
      BY <1>1, <2>3 DEF setObjectFinalizer
    <3>2. \A p \in finalizerFunc' : gen'[p] > 0
      BY <2>1, <3>1, SizesAssumption DEF GCPromoteOnce, FinalizersKept, TypeOK
    <3>3. Cardinality(finalizerFunc') = Cardinality(finalizerFunc) + 1
      BY <2>1, <2>3, SlotsFinite, FS_AddElement DEF TypeOK
    <3>4. QED
      BY <2>1, <3>1, <3>2, <3>3 DEF FinalizersKept
  <2>4. QED
    BY <2>2, <2>3
<1>2. CASE \A o \in Slots : ~setObjectFinalizer(o)
  <2>1. UNCHANGED <<used, gen, finalizerFunc, activeFinalizers, finalizing>>
    BY <1>2 DEF Program, Push, Pop, Write, AddRef, Erase, hideFromGC, unhideFromGC, turnGCOnOff
  <2>2. QED
    BY <2>1 DEF FinalizersKept
<1>3. QED
  BY <1>1, <1>2

(* Every step keeps the count and frees nothing with a finalizer. *)
LEMMA FinalizersStep ==
  ASSUME Misuse = {}, TypeOK, SlotsKept, PhaseKept, RefsKept, FinalizersKept, [Next]_vars
  PROVE  FinalizersKept' /\ used \cap finalizerFunc \subseteq used'
<1> USE DEF heapVars, finalVars, youngVars, markVars
<1> DEFINE Goal == FinalizersKept' /\ used \cap finalizerFunc \subseteq used'
<1>0. UNCHANGED <<used, gen, finalizerFunc, activeFinalizers, finalizing>> => Goal
  BY DEF FinalizersKept
<1>1. CASE UNCHANGED vars
  BY <1>0, <1>1 DEF vars
<1>2. CASE Allocation
  <2>1. ASSUME NEW s \in Slots, TakeFree(s) PROVE Goal
    BY <2>1, FinalizersTake DEF TakeFree, TypeOK, Requests
  <2>2. CASE TryYoungCollect
    BY <2>2, FinalizersYoung DEF TryYoungCollect
  <2>3. CASE TryCollect
    BY <2>3, FinalizersMark DEF TryCollect
  <2>4. CASE AddHeap \/ \E isOld \in BOOLEAN : getNewObject(isOld)
    BY <1>0, <2>4 DEF AddHeap, getNewObject
  <2>5. QED
    BY <1>2, <2>1, <2>2, <2>3, <2>4 DEF Allocation
<1>3. CASE Collection
  <2>1. CASE lxGCCollectYoung
    BY <2>1, FinalizersYoung DEF lxGCCollectYoung
  <2>2. CASE lxGCCollect
    BY <2>2, FinalizersMark DEF lxGCCollect
  <2>3. ASSUME NEW o \in Slots, callFinalizer(o) PROVE Goal
    BY <2>3 DEF callFinalizer, FinalizersDue, FinalizersKept
  <2>4. ASSUME NEW o \in Slots, FinalizerCreates(o) PROVE Goal
    <3>1. CASE Freed(freeList) # {}
      BY <2>4, <3>1, FinalizersTake DEF FinalizerCreates
    <3>2. CASE Freed(freeList) = {}
      BY <1>0, <2>4, <3>2 DEF FinalizerCreates
    <3>3. QED
      BY <3>1, <3>2
  <2>5. CASE FinalizerReturns
    <3>1. /\ finalizing \in finalizerFunc /\ finalizing' = 0 /\ UNCHANGED <<used, gen>>
          /\ finalizerFunc' = finalizerFunc \ {finalizing}
          /\ activeFinalizers' = activeFinalizers - 1
      BY <2>5 DEF FinalizerReturns, FinalizersKept
    <3>2. Cardinality(finalizerFunc') = Cardinality(finalizerFunc) - 1
      BY <3>1, SlotsFinite, FS_RemoveElement DEF TypeOK
    <3>3. QED
      BY <3>1, <3>2 DEF FinalizersKept
  <2>6. CASE Sweep
    BY <2>6, FinalizersSweep
  <2>7. CASE freeObjects
    BY <1>0, <2>7 DEF freeObjects
  <2>8. CASE FreeAll
    <3>1. dark = {} /\ hidden = {} /\ finalizing = 0 /\ finalizing' = 0
      BY <2>8 DEF FreeAll, PhaseKept
    <3>2. finalizerFunc = {}
      BY <2>8, <3>1, NoneDue DEF FreeAll, FinalizersKept
    <3>3. QED
      BY <2>8, <3>1, <3>2 DEF FreeAll, FinalizersKept
  <2>9. QED
    BY <1>3, <2>1, <2>2, <2>3, <2>4, <2>5, <2>6, <2>7, <2>8 DEF Collection
<1>4. CASE Program
  BY <1>4, FinalizersProgram
<1>5. ~Misused
  BY DEF Misused, SetClosedUpvalue, StoreWhileFinalizing, FinalizerThrows
<1>6. QED
  BY <1>1, <1>2, <1>3, <1>4, <1>5 DEF Next

(* The two facts about finalizers share their invariant. *)
LEMMA FinalizersHold ==
  Misuse = {} => (Spec => []FinalizersCounted /\ FinalizerFirst)
<1> SUFFICES ASSUME Misuse = {} PROVE Spec => []FinalizersCounted /\ FinalizerFirst
  OBVIOUS
<1> DEFINE Sound == TypeOK /\ SlotsKept /\ PhaseKept /\ RefsKept /\ MarksKept /\ FinalizersKept
<1>1. Init => Sound
  <2>1. Init => PhaseKept /\ RefsKept /\ MarksKept
    BY DEF Init, PhaseKept, RefsKept, MarksKept
  <2>2. Init => FinalizersKept
    BY FS_EmptySet DEF Init, FinalizersKept
  <2>3. QED
    BY <2>1, <2>2, TypeInit, SlotsInit
<1>2. Sound /\ [Next]_vars => Sound' /\ [used \cap finalizerFunc \subseteq used']_vars
  BY TypeStep, SlotsStep, PhaseStep, RefsStep, MarksStep, FinalizersStep
<1>3. Sound => FinalizersCounted
  <2>1. ASSUME FinalizersKept PROVE finalizerFunc \cap used = finalizerFunc
    BY <2>1 DEF FinalizersKept
  <2>2. QED
    BY <2>1 DEF FinalizersKept, FinalizersCounted
<1>4. QED
  BY <1>1, <1>2, <1>3, PTL DEF Spec, FinalizerFirst

(* FinalizersCounted: activeFinalizers, by which collectGarbage decides    *)
(* whether to look for finalizers at all (memory.c:1421), is the number of *)
(* living objects that still have one.                                     *)
THEOREM FinalizersAreCounted == Misuse = {} => (Spec => []FinalizersCounted)
<1> SUFFICES ASSUME Misuse = {} PROVE Spec => []FinalizersCounted
  OBVIOUS
<1>1. Spec => []FinalizersCounted /\ FinalizerFirst
  BY FinalizersHold
<1>2. QED
  BY <1>1, PTL

(* FinalizerFirst: no object's slot is freed while its finalizer has not   *)
(* returned, in a young collection or in a full one.                       *)
THEOREM FinalizersAreCalled == Misuse = {} => (Spec => FinalizerFirst)
<1> SUFFICES ASSUME Misuse = {} PROVE Spec => FinalizerFirst
  OBVIOUS
<1>1. Spec => []FinalizersCounted /\ FinalizerFirst
  BY FinalizersHold
<1>2. QED
  BY <1>1, PTL
-----------------------------------------------------------------------------
(* getNewObject tries twice at most before a slot is free for it: a young  *)
(* and a full collection, or, with the collector off, a heap at once.      *)
TriesKept ==
  /\ phase = "run" => finalizing = 0
  /\ request.pending =>
      /\ request.tries <= 2
      /\ ~request.triedYoung => request.tries = 0
      /\ ~request.noGC => request.tries <= 1
      /\ request.noGC => request.triedYoung
      /\ request.noGC /\ phase = "run" => request.tries = 0 \/ Freed(freeList) # {}

(* A new heap brings free slots. *)
LEMMA HeapFrees ==
  ASSUME NEW links \in [Slots -> Nat], NEW h \in Nat, h < MaxHeaps
  PROVE  Freed(WithHeap(links, h + 1)) # {}
<1> DEFINE s == HeapSlots * (h + 1)
<1>1. s \in SlotsOf(h + 1)
  BY SizesAssumption DEF SlotsOf
<1>2. s <= HeapSlots * MaxHeaps /\ 1 <= s
  BY SizesAssumption
<1>3. s \in Slots
  BY <1>2, SizesAssumption DEF Slots
<1> HIDE DEF s
<1>4. WithHeap(links, h + 1)[s] = links[s] + 1 /\ links[s] \in Nat
  BY <1>1, <1>3 DEF WithHeap
<1>5. QED
  BY <1>3, <1>4 DEF Freed

(* The sweep frees a slot, or adds a heap because it freed few.            *)
LEMMA SweepFrees ==
  ASSUME TypeOK, FreeMin > 0, Sweep
  PROVE  Freed(freeList') # {}
<1>1. Relinked \in [Slots -> Nat] /\ heapsUsed \in Nat
  BY DEF Relinked, TypeOK
<1>2. CASE FewFreed
  BY <1>1, <1>2, HeapFrees DEF Sweep
<1>3. CASE ~FewFreed
  <2>1. Unmarked # {}
    BY <1>3, FS_EmptySet, SizesAssumption DEF FewFreed
  <2>2. PICK s \in Slots : s \in Unmarked
    BY <2>1 DEF Unmarked, TypeOK
  <2>3. Relinked[s] > 0
    BY <2>2 DEF Relinked, TypeOK
  <2>4. QED
    BY <1>3, <2>3 DEF Sweep, Freed
<1>4. QED
  BY <1>2, <1>3

(* Every step keeps TriesKept. *)
LEMMA TriesStep ==
  ASSUME FreeMin > 0, TypeOK, TriesKept, [Next]_vars
  PROVE  TriesKept'
<1> USE DEF heapVars, finalVars, youngVars, markVars, flagVars
<1>0. ~request'.pending /\ (phase' = "run" => finalizing' = 0) => TriesKept'
  BY DEF TriesKept
<1>1. UNCHANGED <<request, freeList, phase>> /\ finalizing' \in {0, finalizing} => TriesKept'
  BY DEF TriesKept, Freed
<1>2. UNCHANGED request /\ phase' # "run" => TriesKept'
  BY DEF TriesKept
<1>3. CASE UNCHANGED vars
  BY <1>1, <1>3 DEF vars
<1>4. CASE Allocation
  <2>1. ASSUME NEW isOld \in BOOLEAN, getNewObject(isOld) PROVE TriesKept'
    BY <2>1 DEF getNewObject, TriesKept
  <2>2. ASSUME NEW s \in Slots, TakeFree(s) PROVE TriesKept'
    BY <1>0, <2>2 DEF TakeFree, NoRequest, TriesKept
  <2>3. CASE AddHeap
    <3>1. request.tries = 0
      BY <2>3 DEF AddHeap, CanTake, TriesKept
    <3>2. Freed(freeList') # {}
      BY <2>3, HeapFrees DEF AddHeap, TypeOK
    <3>3. request' = [request EXCEPT !.tries = 1] /\ request.noGC /\ request.triedYoung
      BY <2>3, <3>1 DEF AddHeap, Retry
    <3>4. UNCHANGED <<phase, finalizing>>
      BY <2>3 DEF AddHeap
    <3>5. QED
      BY <3>2, <3>3, <3>4 DEF TriesKept, TypeOK, Requests
  <2>4. CASE TryYoungCollect
    <3>1. request.tries = 0 /\ ~request.noGC
      BY <2>4 DEF TryYoungCollect, TriesKept
    <3>2. request' = [request EXCEPT !.tries = 1, !.triedYoung = TRUE]
      BY <2>4, <3>1 DEF TryYoungCollect, Retry, TypeOK, Requests
    <3>3. UNCHANGED <<phase, finalizing>>
      BY <2>4 DEF TryYoungCollect, collectYoungGarbage
    <3>4. QED
      BY <3>1, <3>2, <3>3 DEF TriesKept, TypeOK, Requests
  <2>5. CASE TryCollect
    BY <2>5 DEF TryCollect, Mark, Retry, TriesKept, TypeOK, Requests
  <2>6. QED
    BY <1>4, <2>1, <2>2, <2>3, <2>4, <2>5 DEF Allocation
<1>5. CASE Collection
  <2>1. CASE lxGCCollectYoung \/ lxGCCollect \/ freeObjects
    BY <1>0, <2>1 DEF lxGCCollectYoung, collectYoungGarbage, lxGCCollect, freeObjects, Mark,
       Running, TriesKept
  <2>2. ASSUME NEW o \in Slots, callFinalizer(o) PROVE TriesKept'
    BY <1>2, <2>2 DEF callFinalizer
  <2>7. ASSUME NEW o \in Slots, FinalizerCreates(o) PROVE TriesKept'
    BY <1>2, <2>7 DEF FinalizerCreates, TriesKept
  <2>3. CASE Sweep
    BY <2>3, SweepFrees DEF Sweep, TriesKept
  <2>4. CASE FreeAll
    BY <1>2, <2>4 DEF FreeAll
  <2>5. CASE FinalizerReturns
    BY <1>1, <2>5 DEF FinalizerReturns
  <2>6. QED
    BY <1>5, <2>1, <2>2, <2>3, <2>4, <2>5, <2>7 DEF Collection
<1>6. CASE Program
  BY <1>0, <1>6 DEF Program, Push, Pop, Write, AddRef, Erase, hideFromGC, unhideFromGC,
     setObjectFinalizer, turnGCOnOff, Running, TriesKept
<1>7. CASE Misused
  BY <1>0, <1>1, <1>7 DEF Misused, SetClosedUpvalue, AddRef, StoreWhileFinalizing,
     FinalizerThrows, Running, NoRequest, TriesKept
<1>8. QED
  BY <1>3, <1>4, <1>5, <1>6, <1>7 DEF Next

(* getNewObject asserts that it never tries three times.  That holds       *)
(* whatever the program does, as long as FREE_MIN is not 0: else a full    *)
(* collection that frees nothing would add no heap.                        *)
THEOREM TriesAreFew == FreeMin > 0 => (Spec => []FewTries)
<1> SUFFICES ASSUME FreeMin > 0 PROVE Spec => []FewTries
  OBVIOUS
<1>1. Init => TypeOK /\ TriesKept
  BY TypeInit DEF Init, TriesKept, NoRequest
<1>2. TypeOK /\ TriesKept /\ [Next]_vars => TypeOK' /\ TriesKept'
  BY TypeStep, TriesStep
<1>3. TypeOK /\ TriesKept => FewTries
  BY DEF TypeOK, TriesKept, FewTries, Requests
<1>4. QED
  BY <1>1, <1>2, <1>3, PTL DEF Spec

-----------------------------------------------------------------------------
(***************************************************************************)
(* The collector implements the object graph: to a program that stores     *)
(* with the write barrier, allocation and collection are a new object and  *)
(* nothing at all.                                                         *)
(*                                                                         *)
(* What the program sees is refs, cut down to what can be reached.  So the *)
(* proof is about when two sets of edges lead to the same objects: when    *)
(* they agree on the objects that one of them leads to.                    *)
(***************************************************************************)

Edges == [Slots -> SUBSET Slots]
Held == roots \cup hidden
ReachFrom(R, e) == Graph!ReachableFrom(R, e)

-----------------------------------------------------------------------------
(* Reachability along any edges. *)
LEMMA ReachLeast ==
  ASSUME NEW R, NEW e, NEW S \in SUBSET Slots, R \subseteq S,
         \A a \in S : e[a] \subseteq S
  PROVE  ReachFrom(R, e) \subseteq S
BY DEF ReachFrom, Graph!ReachableFrom

(* What can be reached: objects, the start itself, and the targets of all  *)
(* that is reached.                                                        *)
LEMMA ReachClosed ==
  ASSUME NEW R \in SUBSET Slots, NEW e \in Edges
  PROVE  /\ ReachFrom(R, e) \subseteq Slots
         /\ R \subseteq ReachFrom(R, e)
         /\ \A a \in ReachFrom(R, e) : e[a] \subseteq ReachFrom(R, e)
BY DEF ReachFrom, Graph!ReachableFrom, Edges

(* Edges that agree on what one set of them leads to lead to the same.     *)
LEMMA ReachAgree ==
  ASSUME NEW R \in SUBSET Slots, NEW e \in Edges, NEW f \in Edges,
         \A a \in ReachFrom(R, e) : f[a] = e[a]
  PROVE  ReachFrom(R, f) = ReachFrom(R, e)
<1> DEFINE E == ReachFrom(R, e)
           F == ReachFrom(R, f)
<1>1. E \subseteq Slots /\ R \subseteq E /\ \A a \in E : e[a] \subseteq E
  BY ReachClosed
<1>2. F \subseteq Slots /\ R \subseteq F /\ \A a \in F : f[a] \subseteq F
  BY ReachClosed
<1> HIDE DEF E, F
<1>3. \A a \in E : f[a] = e[a]
  BY DEF E
<1>4. F \subseteq E
  BY <1>1, <1>3, ReachLeast DEF F
<1>5. \A a \in F : e[a] \subseteq F
  BY <1>2, <1>3, <1>4
<1>6. E \subseteq F
  BY <1>2, <1>5, ReachLeast DEF E
<1>7. QED
  BY <1>4, <1>6 DEF E, F

(* Edges that agree on what can be reached are trimmed to the same. *)
LEMMA TrimAgree ==
  ASSUME NEW R \in SUBSET Slots, NEW e \in Edges, NEW f \in Edges,
         \A a \in ReachFrom(R, e) : f[a] = e[a]
  PROVE  Graph!Trim(R, f) = Graph!Trim(R, e)
<1>1. ReachFrom(R, f) = ReachFrom(R, e)
  BY ReachAgree
<1>2. QED
  BY <1>1 DEF Graph!Trim, ReachFrom

(* Trimming keeps the edges of what can be reached, and with them what can *)
(* be reached.                                                             *)
LEMMA TrimEdges ==
  ASSUME NEW R \in SUBSET Slots, NEW e \in Edges
  PROVE  /\ Graph!Trim(R, e) \in Edges
         /\ \A a \in Slots : Graph!Trim(R, e)[a] = IF a \in ReachFrom(R, e) THEN e[a] ELSE {}
         /\ ReachFrom(R, Graph!Trim(R, e)) = ReachFrom(R, e)
<1>1. ReachFrom(R, e) \subseteq Slots
  BY ReachClosed
<1>2. /\ Graph!Trim(R, e) \in Edges
      /\ \A a \in Slots : Graph!Trim(R, e)[a] = IF a \in ReachFrom(R, e) THEN e[a] ELSE {}
  BY DEF Graph!Trim, Edges, ReachFrom
<1>3. QED
  BY <1>1, <1>2, ReachAgree

(* Forgetting roots, or taking some that could be reached, leads nowhere new. *)
LEMMA TrimTrim ==
  ASSUME NEW R \in SUBSET Slots, NEW e \in Edges, NEW S \in SUBSET Slots,
         S \subseteq ReachFrom(R, e)
  PROVE  Graph!Trim(S, Graph!Trim(R, e)) = Graph!Trim(S, e)
<1>1. /\ ReachFrom(R, e) \in SUBSET Slots
      /\ \A a \in ReachFrom(R, e) : e[a] \subseteq ReachFrom(R, e)
  BY ReachClosed
<1>2. ReachFrom(S, e) \subseteq ReachFrom(R, e)
  BY <1>1, ReachLeast
<1>3. \A a \in ReachFrom(S, e) : Graph!Trim(R, e)[a] = e[a]
  BY <1>1, <1>2, TrimEdges
<1>4. QED
  BY <1>3, TrimEdges, TrimAgree

(* An object can be reached or not, whatever it refers to itself.          *)
LEMMA ReachItself ==
  ASSUME NEW R \in SUBSET Slots, NEW e \in Edges, NEW a \in ReachFrom(R, e),
         NEW X \in SUBSET Slots
  PROVE  a \in ReachFrom(R, [e EXCEPT ![a] = X])
<1> DEFINE f == [e EXCEPT ![a] = X]
           F == ReachFrom(R, f)
<1>1. a \in Slots /\ f \in Edges
  BY ReachClosed DEF Edges
<1>2. F \in SUBSET Slots /\ R \subseteq F /\ \A b \in F : f[b] \subseteq F
  BY <1>1, ReachClosed
<1>3. \A b \in Slots : b # a => f[b] = e[b]
  BY DEF Edges
<1> HIDE DEF f, F
<1>4. SUFFICES ASSUME a \notin F PROVE FALSE
  BY DEF f, F
<1>5. \A b \in F : e[b] \subseteq F
  BY <1>2, <1>3, <1>4
<1>6. ReachFrom(R, e) \subseteq F
  BY <1>2, <1>5, ReachLeast
<1>7. QED
  BY <1>4, <1>6

-----------------------------------------------------------------------------
(* What the collector calls reachable is what the graph does.              *)
Mapped ==
  /\ Held \in SUBSET Slots /\ refs \in Edges
  /\ ClosedUnder(Held, Slots) = ReachFrom(Held, refs)
  /\ Trimmed = Graph!Trim(Held, refs)
  /\ Graph!Reachable = ReachFrom(Held, refs)

(* What the program can reach, as the collector and as the graph say it. *)
LEMMA Mapping == TypeOK => Mapped
<1> SUFFICES ASSUME TypeOK PROVE Mapped
  OBVIOUS
<1>1. Held \in SUBSET Slots /\ refs \in Edges
  BY DEF TypeOK, Held, Edges
<1>2. ClosedUnder(Held, Slots) = ReachFrom(Held, refs)
  <2>1. \A S \in SUBSET Slots : \A a \in S : refs[a] \cap Slots = refs[a]
    BY <1>1 DEF Edges
  <2>2. QED
    BY <2>1 DEF ClosedUnder, ReachFrom, Graph!ReachableFrom
<1>3. Trimmed = Graph!Trim(Held, refs)
  BY <1>2 DEF Trimmed, Graph!Trim, ReachFrom, Held
<1>4. Graph!Reachable = ReachFrom(Held, refs)
  BY <1>1, <1>3, TrimEdges DEF Graph!Reachable, ReachFrom, Held
<1>5. QED
  BY <1>1, <1>2, <1>3, <1>4 DEF Mapped

(* The same after a step. *)
LEMMA MappingNext == TypeOK' => Mapped'
BY Mapping, PTL

(* While a finalizer runs its object is not marked.                        *)
FinalizingKept == finalizing # 0 => finalizing \notin dark \cup hidden

Sound == /\ TypeOK /\ SlotsKept /\ PhaseKept /\ RefsKept /\ MarksKept
         /\ FinalizersKept /\ FinalizingKept

(* Every step of a program without misuse keeps FinalizingKept. *)
LEMMA FinalizingStep ==
  ASSUME Misuse = {}, TypeOK, PhaseKept, FinalizingKept, [Next]_vars
  PROVE  FinalizingKept'
<1> USE DEF heapVars, finalVars, youngVars, markVars, flagVars, FinalizingKept
<1>1. CASE UNCHANGED vars
  BY <1>1 DEF vars
<1>2. CASE Allocation
  BY <1>2 DEF Allocation, getNewObject, TakeFree, AddHeap, TryYoungCollect,
     collectYoungGarbage, TryCollect, Mark, PhaseKept, Running
<1>3. CASE Collection
  BY <1>3 DEF Collection, lxGCCollectYoung, collectYoungGarbage, lxGCCollect, Mark,
     callFinalizer, FinalizersDue, FinalizerCreates, FinalizerReturns, Sweep, freeObjects,
     FreeAll, PhaseKept, Running
<1>4. CASE Program
  BY <1>4 DEF Program, Push, Pop, Write, AddRef, Erase, hideFromGC, unhideFromGC,
     setObjectFinalizer, turnGCOnOff, PhaseKept, Running
<1>5. ~Misused
  BY DEF Misused, SetClosedUpvalue, StoreWhileFinalizing, FinalizerThrows
<1>6. QED
  BY <1>1, <1>2, <1>3, <1>4, <1>5 DEF Next

(* Sound holds at the start. *)
LEMMA SoundInit == Init => Sound
<1>1. Init => PhaseKept /\ RefsKept /\ MarksKept /\ FinalizingKept
  BY DEF Init, PhaseKept, RefsKept, MarksKept, FinalizingKept
<1>2. Init => FinalizersKept
  BY FS_EmptySet DEF Init, FinalizersKept
<1>3. QED
  BY <1>1, <1>2, TypeInit, SlotsInit DEF Sound

(* Every step of a program without misuse keeps Sound. *)
LEMMA SoundStep == ASSUME Misuse = {}, Sound, [Next]_vars PROVE Sound'
BY TypeStep, SlotsStep, PhaseStep, RefsStep, MarksStep, FinalizersStep, FinalizingStep
   DEF Sound

-----------------------------------------------------------------------------
(* Each step of the collector is a step of the graph, or none.             *)

(* Nothing changes that a program can reach.                               *)
LEMMA StepIsNone ==
  ASSUME TypeOK, TypeOK', UNCHANGED <<roots, hidden, finalizerFunc>>,
         \A a \in ReachFrom(Held, refs) : refs'[a] = refs[a]
  PROVE  UNCHANGED Graph!vars
<1>1. Mapped /\ Mapped' /\ Held' = Held
  BY Mapping, MappingNext DEF Held
<1>2. Held \in SUBSET Slots /\ refs \in Edges /\ refs' \in Edges
  BY <1>1 DEF Mapped, Edges
<1>3. Graph!Trim(Held, refs') = Graph!Trim(Held, refs)
  BY <1>2, TrimAgree
<1>4. Trimmed' = Graph!Trim(Held, refs') /\ Trimmed = Graph!Trim(Held, refs)
  BY <1>1 DEF Mapped, Graph!Trim, Graph!ReachableFrom
<1>5. QED
  BY <1>3, <1>4 DEF Graph!vars

(* The primed graph, as the cut-down of the primed edges.                  *)
LEMMA TrimmedNext ==
  ASSUME TypeOK, TypeOK'
  PROVE  /\ Held' \in SUBSET Slots /\ refs' \in Edges
         /\ Trimmed' = Graph!Trim(Held', refs')
BY Mapping, MappingNext DEF Mapped, Graph!Trim, Graph!ReachableFrom, Edges

(* What the program can reach is in use. *)
LEMMA ReachIsUsed ==
  ASSUME TypeOK, RefsKept
  PROVE  ReachFrom(Held, refs) \subseteq used
<1>1. used \in SUBSET Slots /\ Held \subseteq used /\ \A a \in used : refs[a] \subseteq used
  BY DEF TypeOK, RefsKept, Held
<1>2. QED
  BY <1>1, ReachLeast

(* A new object is nobody's but its creator's.                             *)
LEMMA StepIsNew ==
  ASSUME Sound, TypeOK', NEW s \in Slots, TakeFree(s)
  PROVE  Graph!New(s)
<1> DEFINE R == Held
           E == ReachFrom(R, refs)
<1>0. TypeOK /\ RefsKept /\ SlotsKept /\ FinalizersKept
  BY DEF Sound
<1>1. Take(s, request.isOld) /\ roots' = roots \cup {s} /\ UNCHANGED <<hidden, finalVars>>
  BY DEF TakeFree
<1>2. s \notin used /\ s \notin finalizerFunc
  BY <1>0, <1>1 DEF Take, SlotsKept, LinksKept, TypeOK, FinalizersKept
<1>3. E \subseteq used /\ s \notin E
  BY <1>0, <1>2, ReachIsUsed
<1>4. refs' = [refs EXCEPT ![s] = {}] /\ Held' = R \cup {s}
  BY <1>1 DEF Take, Held
<1>5. /\ R \in SUBSET Slots /\ refs \in Edges /\ refs' \in Edges /\ Mapped
      /\ R \cup {s} \in SUBSET Slots
  BY <1>0, TrimmedNext, Mapping DEF Mapped
<1>6. /\ E \subseteq Slots /\ R \subseteq E /\ \A a \in E : refs[a] \subseteq E
  BY <1>5, ReachClosed
<1> DEFINE F == ReachFrom(R \cup {s}, refs')
<1>7. /\ F \subseteq Slots /\ R \cup {s} \subseteq F /\ \A a \in F : refs'[a] \subseteq F
  BY <1>5, ReachClosed
<1> HIDE DEF E, F, R
<1>8. \A a \in Slots : refs'[a] = IF a = s THEN {} ELSE refs[a]
  BY <1>4, <1>5 DEF Edges
<1>9. F \subseteq E \cup {s}
  <2>1. \A a \in E \cup {s} : refs'[a] \subseteq E \cup {s}
    BY <1>6, <1>8
  <2>2. E \cup {s} \in SUBSET Slots /\ R \cup {s} \subseteq E \cup {s}
    BY <1>5, <1>6
  <2>3. QED
    BY <2>1, <2>2, ReachLeast DEF F
<1>10. E \subseteq F
  <2>1. ASSUME NEW a \in F \cap E PROVE refs[a] \subseteq F \cap E
    <3>1. a \in Slots /\ a # s /\ refs[a] \subseteq E /\ refs'[a] \subseteq F
      BY <1>3, <1>6, <1>7
    <3>2. refs'[a] = refs[a]
      BY <1>8, <3>1
    <3>3. QED
      BY <3>1, <3>2
  <2>2. R \subseteq F \cap E
    BY <1>6, <1>7
  <2>3. E \subseteq F \cap E
    BY <1>6, <2>1, <2>2, ReachLeast DEF E
  <2>4. QED
    BY <2>3
<1>11. Trimmed' = [Trimmed EXCEPT ![s] = {}]
  <2>1. Trimmed' = [a \in Slots |-> IF a \in F THEN refs'[a] ELSE {}]
    BY <1>0, <1>4, TrimmedNext DEF Graph!Trim, F, ReachFrom
  <2>2. Trimmed = [a \in Slots |-> IF a \in E THEN refs[a] ELSE {}]
    BY <1>5 DEF Mapped, Graph!Trim, E, R, ReachFrom
  <2>3. F = E \cup {s}
    BY <1>7, <1>9, <1>10
  <2>4. QED
    BY <1>8, <2>1, <2>2, <2>3
<1>12. s \notin Graph!Reachable
  BY <1>3, <1>5 DEF Mapped, E, R
<1>13. QED
  BY <1>1, <1>2, <1>11, <1>12 DEF Graph!New, finalVars

(* Variables and hidden objects come and go.                               *)
LEMMA StepIsRoots ==
  ASSUME TypeOK, TypeOK', UNCHANGED <<refs, finalizerFunc>>,
         Held' \subseteq ReachFrom(Held, refs)
  PROVE  Graph!Roots
<1>1. Mapped /\ Held' \in SUBSET Slots /\ Trimmed' = Graph!Trim(Held', refs)
  BY Mapping, TrimmedNext
<1>2. Graph!Trim(Held', Trimmed) = Graph!Trim(Held', refs)
  BY <1>1, TrimTrim DEF Mapped
<1>3. roots' \in SUBSET Slots /\ hidden' \in SUBSET Slots
  BY DEF TypeOK
<1>4. QED
  BY <1>1, <1>2, <1>3 DEF Graph!Roots, Mapped, Held

(* A store, or the removal of a reference.                                 *)
LEMMA StepIsEdges ==
  ASSUME TypeOK, TypeOK', UNCHANGED <<roots, hidden, finalizerFunc>>,
         NEW a \in ReachFrom(Held, refs), NEW X \in SUBSET ReachFrom(Held, refs),
         X # refs[a], refs' = [refs EXCEPT ![a] = X]
  PROVE  Graph!Edges(a)
<1> DEFINE E == ReachFrom(Held, refs)
           g == [Trimmed EXCEPT ![a] = X]
<1>1. Mapped /\ Held' = Held /\ refs' \in Edges /\ Trimmed' = Graph!Trim(Held, refs')
  BY Mapping, TrimmedNext DEF Held
<1>2. Held \in SUBSET Slots /\ refs \in Edges /\ Trimmed = Graph!Trim(Held, refs)
  BY <1>1 DEF Mapped
<1>3. E \in SUBSET Slots /\ Held \subseteq E /\ \A b \in E : refs[b] \subseteq E
  BY <1>2, ReachClosed
<1>4. a \in ReachFrom(Held, refs') /\ a \in Slots
  BY <1>2, <1>3, ReachItself
<1>5. \A b \in Slots : refs'[b] = IF b = a THEN X ELSE refs[b]
  BY <1>2 DEF Edges
<1>6. ReachFrom(Held, refs') \subseteq E
  <2>1. \A b \in E : refs'[b] \subseteq E
    BY <1>3, <1>5
  <2>2. QED
    BY <1>3, <2>1, ReachLeast
<1>7. Trimmed \in Edges /\ \A b \in Slots : Trimmed[b] = IF b \in E THEN refs[b] ELSE {}
  BY <1>2, TrimEdges
<1>8. g \in Edges /\ \A b \in ReachFrom(Held, refs') : g[b] = refs'[b]
  BY <1>3, <1>5, <1>6, <1>7 DEF Edges
<1>9. Trimmed' = Graph!Trim(Held, g)
  <2> HIDE DEF g
  <2>1. Graph!Trim(Held, g) = Graph!Trim(Held, refs')
    BY <1>1, <1>2, <1>8, TrimAgree
  <2>2. QED
    BY <1>1, <2>1
<1>10. Trimmed'[a] = X
  BY <1>1, <1>2, <1>4, <1>5, TrimEdges
<1>11. Trimmed[a] = refs[a]
  BY <1>4, <1>7
<1>12. QED
  BY <1>1, <1>9, <1>10, <1>11 DEF Graph!Edges, Mapped, Held

(* A young collection clears what no used object refers to.                *)
LEMMA YoungUnseen ==
  ASSUME Sound, RefsKept', collectYoungGarbage, phase = "run"
  PROVE  /\ UNCHANGED <<roots, hidden, finalizerFunc>>
         /\ \A a \in ReachFrom(Held, refs) : refs'[a] = refs[a]
<1>0. TypeOK /\ PhaseKept /\ RefsKept /\ FinalizersKept
  BY DEF Sound
<1>1. UNCHANGED <<roots, hidden>>
  BY DEF collectYoungGarbage
<1>2. ASSUME NEW D \in YoungMarks, CollectYoungWith(D)
      PROVE  /\ finalizerFunc' = finalizerFunc /\ used' \subseteq used
             /\ \A a \in used' : refs'[a] = refs[a]
  BY <1>0, <1>2 DEF CollectYoungWith, TypeOK
<1>3. /\ finalizerFunc' = finalizerFunc /\ used' \subseteq used
      /\ \A a \in used' : refs'[a] = refs[a]
  BY <1>2 DEF collectYoungGarbage
<1>4. used' \in SUBSET Slots /\ Held \subseteq used' /\ \A a \in used' : refs[a] \subseteq used'
  BY <1>0, <1>1, <1>3 DEF RefsKept, TypeOK, Held
<1>5. ReachFrom(Held, refs) \subseteq used'
  BY <1>4, ReachLeast
<1>6. QED
  BY <1>1, <1>3, <1>5

(* Between mark and sweep what is reachable is marked.                     *)
LEMMA ReachIsDark ==
  ASSUME Sound, phase = "finalizers"
  PROVE  ReachFrom(Held, refs) \subseteq dark
<1>1. dark \in SUBSET Slots /\ Held \subseteq dark /\ \A a \in dark : refs[a] \subseteq dark
  BY DEF Sound, TypeOK, MarksKept, Held
<1>2. QED
  BY <1>1, ReachLeast

(* At the end of the VM nothing is reachable any more.                     *)
LEMMA ReachIsNone ==
  ASSUME Sound, phase = "exit"
  PROVE  ReachFrom(Held, refs) = {}
<1>1. Held = {}
  BY DEF Sound, PhaseKept, Held
<1>2. ReachFrom(Held, refs) \subseteq {}
  BY <1>1, ReachLeast
<1>3. QED
  BY <1>2

GraphNext == Graph!Next \/ UNCHANGED Graph!vars

(* An allocation is a new object of the graph, or nothing. *)
LEMMA AllocationIsGraph ==
  ASSUME Sound, Sound', Allocation
  PROVE  GraphNext
<1> USE DEF heapVars, finalVars, youngVars, markVars, flagVars
<1>0. TypeOK /\ TypeOK' /\ RefsKept'
  BY DEF Sound
<1>1. ASSUME NEW s \in Slots, TakeFree(s) PROVE GraphNext
  BY <1>0, <1>1, StepIsNew DEF GraphNext, Graph!Next
<1>2. CASE TryYoungCollect
  BY <1>0, <1>2, YoungUnseen, StepIsNone DEF TryYoungCollect, GraphNext
<1>3. CASE TryCollect \/ AddHeap \/ \E isOld \in BOOLEAN : getNewObject(isOld)
  <2>1. UNCHANGED <<roots, hidden, finalizerFunc, refs>>
    BY <1>3 DEF TryCollect, Mark, AddHeap, getNewObject
  <2>2. QED
    BY <1>0, <2>1, StepIsNone DEF GraphNext
<1>4. QED
  BY <1>1, <1>2, <1>3 DEF Allocation

(* A collection changes nothing the program can reach. *)
LEMMA CollectionIsGraph ==
  ASSUME Sound, Sound', Collection
  PROVE  GraphNext
<1> USE DEF heapVars, finalVars, youngVars, markVars, flagVars
<1>0. TypeOK /\ TypeOK' /\ RefsKept /\ RefsKept' /\ PhaseKept /\ FinalizersKept
      /\ SlotsKept /\ Mapped
  BY Mapping DEF Sound
<1>1. CASE lxGCCollectYoung
  BY <1>0, <1>1, YoungUnseen, StepIsNone DEF lxGCCollectYoung, Running, GraphNext
<1>2. CASE lxGCCollect \/ \E o \in Slots : callFinalizer(o)
  <2>1. UNCHANGED <<roots, hidden, finalizerFunc, refs>>
    BY <1>2 DEF lxGCCollect, Mark, callFinalizer
  <2>2. QED
    BY <1>0, <2>1, StepIsNone DEF GraphNext
<1>3. ASSUME NEW s \in Slots, FinalizerCreates(s) PROVE GraphNext
  <2>1. UNCHANGED <<roots, hidden, finalizerFunc>>
    BY <1>3 DEF FinalizerCreates
  <2>2. \A a \in used : refs'[a] = refs[a]
    BY <1>0, <1>3 DEF FinalizerCreates, Take, SlotsKept, LinksKept, TypeOK
  <2>3. QED
    BY <1>0, <2>1, <2>2, ReachIsUsed, StepIsNone DEF GraphNext
<1>4. CASE FinalizerReturns
  <2>1. finalizing # 0 /\ finalizing \in finalizerFunc /\ finalizing \in Slots
    BY <1>0, <1>4 DEF FinalizerReturns, FinalizersKept, TypeOK
  <2>2. finalizing \notin ReachFrom(Held, refs)
    <3>1. finalizing \notin dark
      BY <2>1 DEF Sound, FinalizingKept
    <3>2. phase \in {"finalizers", "exit"}
      BY <1>0, <2>1 DEF PhaseKept, TypeOK
    <3>3. QED
      BY <3>1, <3>2, ReachIsDark, ReachIsNone
  <2>3. UNCHANGED <<roots, hidden, refs>> /\ finalizerFunc' = finalizerFunc \ {finalizing}
    BY <1>4 DEF FinalizerReturns
  <2>4. Trimmed' = Trimmed
    BY <2>3 DEF Trimmed, ClosedUnder
  <2>5. Graph!Finalize(finalizing)
    BY <1>0, <2>1, <2>2, <2>3, <2>4 DEF Graph!Finalize, Mapped
  <2>6. QED
    BY <2>1, <2>5 DEF GraphNext, Graph!Next
<1>5. CASE Sweep
  <2>1. UNCHANGED <<roots, hidden>> /\ phase = "finalizers"
    BY <1>5 DEF Sweep
  <2>2. finalizerFunc' = finalizerFunc
    BY <1>0, <1>5, NoneDue DEF Sweep, Unmarked
  <2>3. \A a \in dark : refs'[a] = refs[a]
    BY <1>0, <1>5 DEF Sweep, Unmarked, TypeOK
  <2>4. QED
    BY <1>0, <2>1, <2>2, <2>3, ReachIsDark, StepIsNone DEF GraphNext
<1>6. CASE freeObjects
  BY <1>0, <1>6, StepIsRoots DEF freeObjects, Held, GraphNext, Graph!Next
<1>7. CASE FreeAll
  <2>1. phase = "exit" /\ UNCHANGED <<roots, hidden>>
    BY <1>7 DEF FreeAll
  <2>2. finalizerFunc = {} /\ finalizerFunc' = {}
    BY <1>0, <1>7, <2>1, NoneDue DEF FreeAll, PhaseKept, FinalizersKept
  <2>3. QED
    BY <1>0, <2>1, <2>2, ReachIsNone, StepIsNone DEF GraphNext
<1>8. QED
  BY <1>1, <1>2, <1>3, <1>4, <1>5, <1>6, <1>7 DEF Collection

(* A step of the program is the same step on the graph. *)
LEMMA ProgramIsGraph ==
  ASSUME Sound, Sound', Program
  PROVE  GraphNext
<1> USE DEF heapVars, finalVars, youngVars, markVars, flagVars
<1> DEFINE E == ReachFrom(Held, refs)
<1>0. TypeOK /\ TypeOK' /\ PhaseKept /\ Mapped /\ Held \subseteq E
  BY Mapping, ReachClosed DEF Sound, Mapped
<1>1. Running => Reachable = E
  BY <1>0 DEF Running, PhaseKept, Reachable, Mapped, Held
<1>2. ASSUME NEW o \in Slots,
             Push(o) \/ Pop(o) \/ hideFromGC(o) \/ unhideFromGC(o)
      PROVE  GraphNext
  <2>1. UNCHANGED <<refs, finalizerFunc>>
    BY <1>2 DEF Push, Pop, hideFromGC, unhideFromGC
  <2>2. Held' \subseteq E
    BY <1>0, <1>1, <1>2 DEF Push, Pop, hideFromGC, unhideFromGC, Held
  <2>3. QED
    BY <1>0, <2>1, <2>2, StepIsRoots DEF GraphNext, Graph!Next
<1>3. ASSUME NEW o \in Slots, setObjectFinalizer(o) PROVE GraphNext
  <2>1. /\ o \in E /\ UNCHANGED <<roots, hidden, refs>>
        /\ finalizerFunc' = finalizerFunc \cup {o}
    BY <1>1, <1>3 DEF setObjectFinalizer
  <2>2. Trimmed' = Trimmed
    BY <2>1 DEF Trimmed, ClosedUnder
  <2>3. Graph!SetFinalizer(o)
    BY <1>0, <2>1, <2>2 DEF Graph!SetFinalizer, Mapped
  <2>4. QED
    BY <2>3 DEF GraphNext, Graph!Next
<1>4. ASSUME NEW a \in Slots, NEW b \in Slots, Write(a, b) PROVE GraphNext
  <2>1. /\ a \in E /\ b \in E /\ b \notin refs[a] /\ UNCHANGED <<roots, hidden, finalizerFunc>>
        /\ refs' = [refs EXCEPT ![a] = refs[a] \cup {b}]
    BY <1>1, <1>4 DEF Write, AddRef
  <2>2. refs[a] \cup {b} \subseteq E
    BY <1>0, <2>1, ReachClosed DEF Mapped
  <2>3. Graph!Edges(a)
    BY <1>0, <2>1, <2>2, StepIsEdges
  <2>4. QED
    BY <2>3 DEF GraphNext, Graph!Next
<1>5. ASSUME NEW a \in Slots, NEW b \in Slots, Erase(a, b) PROVE GraphNext
  <2>1. /\ a \in E /\ b \in refs[a] /\ UNCHANGED <<roots, hidden, finalizerFunc>>
        /\ refs' = [refs EXCEPT ![a] = refs[a] \ {b}]
    BY <1>1, <1>5 DEF Erase
  <2>2. refs[a] \ {b} \subseteq E
    BY <1>0, <2>1, ReachClosed DEF Mapped
  <2>3. Graph!Edges(a)
    BY <1>0, <2>1, <2>2, StepIsEdges
  <2>4. QED
    BY <2>3 DEF GraphNext, Graph!Next
<1>6. CASE turnGCOnOff
  BY <1>0, <1>6, StepIsNone DEF turnGCOnOff, GraphNext
<1>7. QED
  BY <1>2, <1>3, <1>4, <1>5, <1>6 DEF Program

(* To a program that stores with the write barrier, and whose finalizers   *)
(* neither keep objects nor throw, the heap is a graph of objects that     *)
(* only it changes: an allocation is an object that nothing refers to, a   *)
(* collection is nothing, and a finalizer is called for an object that the *)
(* program had lost.                                                       *)
THEOREM CollectorImplementsGraph == Misuse = {} => (Spec => ImplementsObjectGraph)
<1> SUFFICES ASSUME Misuse = {} PROVE Spec => ImplementsObjectGraph
  OBVIOUS
<1>1. Init => Graph!Init
  BY DEF Init, Graph!Init, Trimmed
<1>2. Sound /\ [Next]_vars => Sound'
  BY SoundStep
<1>3. Sound /\ Sound' /\ [Next]_vars => [Graph!Next]_(Graph!vars)
  <2> SUFFICES ASSUME Sound, Sound', [Next]_vars PROVE GraphNext
    BY DEF GraphNext
  <2>1. CASE UNCHANGED vars
    <3>1. UNCHANGED <<roots, hidden, finalizerFunc, refs>>
      BY <2>1 DEF vars, heapVars, finalVars
    <3>2. QED
      BY <3>1, StepIsNone DEF GraphNext, Sound
  <2>2. ~Misused
    BY DEF Misused, SetClosedUpvalue, StoreWhileFinalizing, FinalizerThrows
  <2>3. QED
    BY <2>1, <2>2, AllocationIsGraph, CollectionIsGraph, ProgramIsGraph DEF Next
<1>4. QED
  BY <1>1, <1>2, <1>3, SoundInit, PTL DEF Spec, ImplementsObjectGraph, Graph!Spec
=============================================================================

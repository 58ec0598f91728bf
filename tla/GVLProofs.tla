------------------------------ MODULE GVLProofs ------------------------------
(***************************************************************************)
(* Theorems about the global VM lock, for every number of threads, every   *)
(* length of a turn and every number of held mutexes.                      *)
(*                                                                         *)
(* MutualExclusion is not inductive: it does not say that releaseGVL's     *)
(* tests of vm.curThread are about the caller, nor that a thread that took *)
(* a free lock found nobody inside.  OwnerInv ties the three variables     *)
(* that together are the lock to the control state of the owner, and is.   *)
(***************************************************************************)
EXTENDS GVL, FiniteSetTheorems, TLAPS

(* The lock's variables agree with one another and with where the threads  *)
(* are; only the owner runs VM code or holds a lox mutex.                  *)
OwnerInv ==
  /\ curThread = GVLOwner
  /\ GVLockStatus = 0 <=> GVLOwner = NoThread
  /\ \A t \in Threads : pc[t] = "vm" => GVLOwner = t
  /\ \A t \in Threads : mutexCounter[t] > 0 => GVLOwner = t
  /\ \A t \in Threads : GVLOwner = t => pc[t] \in {"vm", "blocking"}

(* The strengthening the safety invariants are derived from. *)
IInv == TypeOK /\ OwnerInv /\ WakeupPending

------------------------------------------------------------------------------
(* Where a thread can be after releaseGVL, whichever path it takes. *)
LEMMA ReleaseEffect ==
  ASSUME IInv, NEW t \in Threads, pc[t] = "vm", ReleaseGVL(t)
  PROVE  \/ /\ pc' = [pc EXCEPT ![t] = "blocking"]
            /\ mutexCounter[t] > 0
            /\ UNCHANGED <<GVLockStatus, GVLOwner, curThread>>
         \/ /\ pc' = [pc EXCEPT ![t] = "signal"]
            /\ mutexCounter[t] = 0
            /\ DropGVL
BY ThreadsAssumption DEF IInv, TypeOK, OwnerInv, ReleaseGVL, ReleaseKeeps, goto

(* The type invariant alone is inductive. *)
LEMMA TypeStep == TypeOK /\ [Next]_vars => TypeOK'
<1> SUFFICES ASSUME TypeOK, [Next]_vars PROVE TypeOK'
  OBVIOUS
<1> USE ThreadsAssumption, BoundsAssumption DEF TypeOK, PCs, goto
<1>1. CASE UNCHANGED vars
  BY <1>1 DEF vars
<1>2. ASSUME NEW t \in Threads, Acquire(t) PROVE TypeOK'
  BY <1>2 DEF Acquire, AcquireSkip, AcquireFree, AcquireWait, WokenTake,
              WokenWaitAgain, TakeGVL
<1>3. ASSUME NEW t \in Threads, SpuriousWakeup(t) PROVE TypeOK'
  BY <1>3 DEF SpuriousWakeup
<1>4. ASSUME NEW t \in Threads, Signal(t) \/ ExitSignal(t) PROVE TypeOK'
  BY <1>4 DEF Signal, ExitSignal, SignalGVLCond
<1>5. ASSUME NEW t \in Threads, Run(t) PROVE TypeOK'
  <2>1. CASE BlockingCall(t)
    BY <2>1 DEF BlockingCall, ReleaseGVL, DropGVL
  <2>2. CASE Op(t)
    BY <2>2 DEF Op
  <2>3. CASE Preempt(t)
    BY <2>3 DEF Preempt, ReleaseGVL, DropGVL
  <2>4. ASSUME NEW u \in Threads, NewThread(t, u) PROVE TypeOK'
    BY <2>4 DEF NewThread, DropGVL
  <2>5. CASE LockMutex(t)
    BY <2>5 DEF LockMutex
  <2>6. CASE UnlockMutex(t)
    BY <2>6 DEF UnlockMutex
  <2>7. CASE ExitThread(t)
    BY <2>7 DEF ExitThread, DropGVL
  <2>8. QED
    BY <1>5, <2>1, <2>2, <2>3, <2>4, <2>5, <2>6, <2>7 DEF Run
<1>6. ASSUME NEW t \in Threads, StartThread(t) PROVE TypeOK'
  BY <1>6 DEF StartThread
<1>7. QED
  BY <1>1, <1>2, <1>3, <1>4, <1>5, <1>6 DEF Next

(* The invariants hold at the start. *)
LEMMA OwnerInit == Init => OwnerInv /\ WakeupPending
BY ThreadsAssumption DEF Init, OwnerInv, WakeupPending

(* Each action is checked on its own: the releasing ones through           *)
(* ReleaseEffect, the others directly.                                     *)
LEMMA OwnerStep == IInv /\ [Next]_vars => OwnerInv'
<1> SUFFICES ASSUME IInv, [Next]_vars PROVE OwnerInv'
  OBVIOUS
<1> USE ThreadsAssumption, BoundsAssumption DEF IInv, TypeOK, OwnerInv, goto
<1>1. CASE UNCHANGED vars
  BY <1>1 DEF vars
<1>2. ASSUME NEW t \in Threads, Acquire(t) PROVE OwnerInv'
  BY <1>2 DEF Acquire, AcquireSkip, AcquireFree, AcquireWait, WokenTake,
              WokenWaitAgain, TakeGVL, AlreadyHeld
<1>3. ASSUME NEW t \in Threads, SpuriousWakeup(t) \/ StartThread(t)
      PROVE  OwnerInv'
  BY <1>3 DEF SpuriousWakeup, StartThread
<1>4. ASSUME NEW t \in Threads, Signal(t) \/ ExitSignal(t) PROVE OwnerInv'
  BY <1>4 DEF Signal, ExitSignal, SignalGVLCond
<1>5. ASSUME NEW t \in Threads, Run(t) PROVE OwnerInv'
  <2>1. CASE BlockingCall(t)
    BY <2>1, ReleaseEffect DEF BlockingCall, DropGVL
  <2>2. CASE Op(t)
    BY <2>2 DEF Op
  <2>3. CASE Preempt(t)
    BY <2>3, ReleaseEffect DEF Preempt, DropGVL
  <2>4. ASSUME NEW u \in Threads, NewThread(t, u) PROVE OwnerInv'
    BY <2>4 DEF NewThread, DropGVL, ReleaseKeeps
  <2>5. CASE LockMutex(t)
    BY <2>5 DEF LockMutex
  <2>6. CASE UnlockMutex(t)
    BY <2>6 DEF UnlockMutex
  <2>7. CASE ExitThread(t)
    BY <2>7 DEF ExitThread, DropGVL
  <2>8. QED
    BY <1>5, <2>1, <2>2, <2>3, <2>4, <2>5, <2>6, <2>7 DEF Run
<1>6. QED
  BY <1>1, <1>2, <1>3, <1>4, <1>5 DEF Next

(* The lock can become free only by a step that leaves a signal pending,   *)
(* and a pending signal is spent only on somebody it wakes.                *)
LEMMA WakeupStep == IInv /\ [Next]_vars => WakeupPending'
<1> SUFFICES ASSUME IInv, [Next]_vars PROVE WakeupPending'
  OBVIOUS
<1> USE ThreadsAssumption, BoundsAssumption
        DEF IInv, TypeOK, OwnerInv, WakeupPending, goto
<1>1. CASE UNCHANGED vars
  BY <1>1 DEF vars
<1>2. ASSUME NEW t \in Threads, Acquire(t) PROVE WakeupPending'
  BY <1>2 DEF Acquire, AcquireSkip, AcquireFree, AcquireWait, WokenTake,
              WokenWaitAgain, TakeGVL, AlreadyHeld
<1>3. ASSUME NEW t \in Threads, SpuriousWakeup(t) \/ StartThread(t)
      PROVE  WakeupPending'
  BY <1>3 DEF SpuriousWakeup, StartThread
<1>4. ASSUME NEW t \in Threads, Signal(t) \/ ExitSignal(t) PROVE WakeupPending'
  BY <1>4 DEF Signal, ExitSignal, SignalGVLCond
<1>5. ASSUME NEW t \in Threads, Run(t) PROVE WakeupPending'
  <2>1. CASE BlockingCall(t)
    BY <2>1, ReleaseEffect DEF BlockingCall, DropGVL
  <2>2. CASE Op(t)
    BY <2>2 DEF Op
  <2>3. CASE Preempt(t)
    BY <2>3, ReleaseEffect DEF Preempt, DropGVL
  <2>4. ASSUME NEW u \in Threads, NewThread(t, u) PROVE WakeupPending'
    BY <2>4 DEF NewThread, DropGVL, ReleaseKeeps
  <2>5. CASE LockMutex(t)
    BY <2>5 DEF LockMutex
  <2>6. CASE UnlockMutex(t)
    BY <2>6 DEF UnlockMutex
  <2>7. CASE ExitThread(t)
    BY <2>7 DEF ExitThread, DropGVL
  <2>8. QED
    BY <1>5, <2>1, <2>2, <2>3, <2>4, <2>5, <2>6, <2>7 DEF Run
<1>6. QED
  BY <1>1, <1>2, <1>3, <1>4, <1>5 DEF Next

(* The inductive invariant holds in every reachable state. *)
THEOREM Invariance == Spec => []IInv
<1>1. Init => IInv
  <2>1. Init => TypeOK
    BY ThreadsAssumption, BoundsAssumption DEF Init, TypeOK, PCs
  <2>2. QED
    BY <2>1, OwnerInit DEF IInv
<1>2. IInv /\ [Next]_vars => IInv'
  BY TypeStep, OwnerStep, WakeupStep DEF IInv
<1>3. QED
  BY <1>1, <1>2, PTL DEF Spec

------------------------------------------------------------------------------
(* Types, at every step of every program. *)
THEOREM TypeCorrect == Spec => []TypeOK
<1>1. IInv => TypeOK
  BY DEF IInv
<1>2. QED
  BY <1>1, Invariance, PTL

(* Threads "cannot run concurrently in the VM itself": acquireGVL and      *)
(* releaseGVL keep two threads out of the VM at once.                      *)
THEOREM Exclusion == Spec => []MutualExclusion
<1>1. IInv => MutualExclusion
  BY DEF IInv, OwnerInv, MutualExclusion
<1>2. QED
  BY <1>1, Invariance, PTL

(* vm.curThread and GVLOwner name the thread that runs, so that            *)
(* releaseGVL's tests of them are tests of its caller.                     *)
THEOREM OwnerRecorded == Spec => []OwnerIsInVM
<1>1. IInv => OwnerIsInVM
  BY DEF IInv, OwnerInv, OwnerIsInVM
<1>2. QED
  BY <1>1, Invariance, PTL

(* A lox mutex keeps the GVL with its holder. *)
THEOREM MutexKeeps == Spec => []MutexHolderKeepsGVL
<1>1. IInv => MutexHolderKeepsGVL
  BY DEF IInv, OwnerInv, MutexHolderKeepsGVL
<1>2. QED
  BY <1>1, Invariance, PTL

(* No wakeup of acquireGVL's wait is lost. *)
THEOREM NoLostWakeup == Spec => []WakeupPending
<1>1. IInv => WakeupPending
  BY DEF IInv
<1>2. QED
  BY <1>1, Invariance, PTL

------------------------------------------------------------------------------
(* The threads inside acquireGVL's wait. *)
Waiting == {t \in Threads : pc[t] \in {"waiting", "woken"}}

(* There are finitely many waiters. *)
LEMMA WaitingFinite == IsFiniteSet(Waiting)
BY ThreadsAssumption, FS_Subset DEF Waiting

(* The counter moves with the set: only AcquireWait adds to it, only       *)
(* WokenTake takes from it, and both move exactly one thread.              *)
LEMMA CountStep == IInv /\ WaitersCounted /\ [Next]_vars => WaitersCounted'
<1> SUFFICES ASSUME IInv, GVLWaiters = Cardinality(Waiting), [Next]_vars
             PROVE  GVLWaiters' = Cardinality(Waiting')
  BY DEF WaitersCounted, Waiting
<1> USE ThreadsAssumption DEF IInv, TypeOK, goto
<1>0. ASSUME Waiting' = Waiting, GVLWaiters' = GVLWaiters
      PROVE  GVLWaiters' = Cardinality(Waiting')
  BY <1>0
<1>1. CASE UNCHANGED vars
  BY <1>1, <1>0 DEF vars, Waiting
<1>2. ASSUME NEW t \in Threads, AcquireWait(t)
      PROVE  GVLWaiters' = Cardinality(Waiting')
  <2>1. t \notin Waiting /\ Waiting' = Waiting \cup {t}
    BY <1>2 DEF AcquireWait, Waiting
  <2>2. Cardinality(Waiting') = Cardinality(Waiting) + 1
    BY <2>1, WaitingFinite, FS_AddElement
  <2>3. QED
    BY <1>2, <2>2 DEF AcquireWait
<1>3. ASSUME NEW t \in Threads, WokenTake(t)
      PROVE  GVLWaiters' = Cardinality(Waiting')
  <2>1. t \in Waiting /\ Waiting' = Waiting \ {t}
    BY <1>3 DEF WokenTake, TakeGVL, Waiting
  <2>2. Cardinality(Waiting') = Cardinality(Waiting) - 1
    BY <2>1, WaitingFinite, FS_RemoveElement
  <2>3. QED
    BY <1>3, <2>2 DEF WokenTake
<1>4. ASSUME NEW t \in Threads,
             \/ AcquireSkip(t) \/ AcquireFree(t) \/ WokenWaitAgain(t)
             \/ SpuriousWakeup(t) \/ StartThread(t)
      PROVE  GVLWaiters' = Cardinality(Waiting')
  <2>1. Waiting' = Waiting /\ GVLWaiters' = GVLWaiters
    BY <1>4 DEF AcquireSkip, AcquireFree, WokenWaitAgain, SpuriousWakeup,
                StartThread, TakeGVL, Waiting
  <2>2. QED
    BY <2>1, <1>0
<1>5. ASSUME NEW t \in Threads, Signal(t) \/ ExitSignal(t)
      PROVE  GVLWaiters' = Cardinality(Waiting')
  <2>1. Waiting' = Waiting /\ GVLWaiters' = GVLWaiters
    BY <1>5 DEF Signal, ExitSignal, SignalGVLCond, Waiting
  <2>2. QED
    BY <2>1, <1>0
<1>6. ASSUME NEW t \in Threads, Run(t)
      PROVE  GVLWaiters' = Cardinality(Waiting')
  <2>1. GVLWaiters' = GVLWaiters
    BY <1>6 DEF Run, BlockingCall, Op, Preempt, NewThread, LockMutex,
                UnlockMutex, ExitThread
  <2>2. ASSUME \E u \in Threads : NewThread(t, u) PROVE Waiting' = Waiting
    <3>1. PICK u \in Threads : NewThread(t, u)
      BY <2>2
    <3>2. pc[t] = "vm" /\ pc[u] = "unborn"
      BY <3>1 DEF NewThread
    <3>3. \E l \in {"blocking", "signal"} :
            pc' = [pc EXCEPT ![t] = l, ![u] = "ready"]
      BY <3>1 DEF NewThread
    <3>4. QED
      BY <3>2, <3>3 DEF Waiting
  <2>3. ASSUME ~\E u \in Threads : NewThread(t, u) PROVE Waiting' = Waiting
    <3>1. pc[t] = "vm"
      BY <1>6, <2>3 DEF Run, BlockingCall, Op, Preempt, LockMutex,
                        UnlockMutex, ExitThread
    <3>2. pc' = pc \/ \E l \in {"blocking", "signal", "exitsignal"} :
                        pc' = [pc EXCEPT ![t] = l]
      BY <1>6, <2>3 DEF Run, BlockingCall, Op, Preempt, LockMutex,
                        UnlockMutex, ExitThread, ReleaseGVL
    <3>3. QED
      BY <3>1, <3>2 DEF Waiting
  <2>4. Waiting' = Waiting
    BY <2>2, <2>3
  <2>5. QED
    BY <2>1, <2>4, <1>0
<1>7. QED
  BY <1>1, <1>2, <1>3, <1>4, <1>5, <1>6 DEF Next, Acquire

(* vm.GVLWaiters counts the waiting threads. *)
THEOREM WaitersExact == Spec => []WaitersCounted
<1>1. Init => WaitersCounted
  <2>1. Init => Waiting = {}
    BY DEF Init, Waiting
  <2>2. QED
    BY <2>1, FS_EmptySet DEF Init, WaitersCounted, Waiting
<1>2. QED
  BY <1>1, CountStep, Invariance, PTL DEF Spec

------------------------------------------------------------------------------
(* The refinement: GVLOwner is the abstract lock's holder.  A step of the  *)
(* detailed lock takes it, drops it, or is invisible.                      *)
THEOREM Refinement == Spec => ImplementsVMLock
<1>1. Init => Lock!Init
  BY ThreadsAssumption DEF Init, Lock!Init, holders
<1>2. IInv /\ [Next]_vars => [Lock!Next]_holders
  <2> SUFFICES ASSUME IInv, [Next]_vars, holders' # holders
               PROVE  Lock!Next
    BY DEF Lock!Next
  <2> USE ThreadsAssumption DEF IInv, TypeOK, OwnerInv, holders
  <2>1. ASSUME NEW t \in Threads, GVLOwner = NoThread, GVLOwner' = t
        PROVE  Lock!Next
    BY <2>1 DEF Lock!Next, Lock!Enter
  <2>2. ASSUME NEW t \in Threads, GVLOwner = t, GVLOwner' = NoThread
        PROVE  Lock!Next
    BY <2>2 DEF Lock!Next, Lock!Leave
  <2>3. GVLOwner' # GVLOwner
    OBVIOUS
  <2>4. ASSUME NEW t \in Threads, Acquire(t) PROVE Lock!Next
    BY <2>1, <2>3, <2>4 DEF Acquire, AcquireSkip, AcquireFree, AcquireWait,
                            WokenTake, WokenWaitAgain, TakeGVL
  <2>5. ASSUME NEW t \in Threads, Run(t) PROVE Lock!Next
    <3>1. GVLOwner = t
      BY <2>5 DEF Run, BlockingCall, Op, Preempt, NewThread, LockMutex,
                  UnlockMutex, ExitThread
    <3>2. GVLOwner' = NoThread
      BY <2>3, <2>5 DEF Run, BlockingCall, Op, Preempt, NewThread, LockMutex,
                        UnlockMutex, ExitThread, ReleaseGVL, DropGVL
    <3>3. QED
      BY <3>1, <3>2, <2>2
  <2>6. ASSUME NEW t \in Threads,
               \/ SpuriousWakeup(t) \/ Signal(t) \/ ExitSignal(t)
               \/ StartThread(t)
        PROVE  FALSE
    BY <2>3, <2>6 DEF SpuriousWakeup, Signal, ExitSignal, StartThread
  <2>7. QED
    BY <2>3, <2>4, <2>5, <2>6 DEF Next, vars
<1>3. QED
  BY <1>1, <1>2, Invariance, PTL DEF Spec, ImplementsVMLock, Lock!Spec
=============================================================================

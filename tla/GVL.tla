--------------------------------- MODULE GVL ---------------------------------
(***************************************************************************)
(* The global VM lock of clox (vm.c: acquireGVL, releaseGVL; vm_run's      *)
(* preemption; thread.c and runtime.c: the natives that give the VM up).   *)
(*                                                                         *)
(* The GVL is a flag, GVLockStatus, guarded by the pthread mutex GVLock    *)
(* and the condition variable GVLCond.  Everything between a               *)
(* pthread_mutex_lock(&vm.GVLock) and the matching unlock or cond_wait is  *)
(* one action here, because GVLock is never held across a blocking call on *)
(* these paths (the wait of a contended lox mutex breaks this).  The       *)
(* pthread_cond_signal of releaseGVL comes after the unlock, so it is a    *)
(* step of its own.  The blocking operation between a releaseGVL and the   *)
(* next acquireGVL (a system call, a sleep, a join, sched_yield) is the    *)
(* control state "blocking".                                               *)
(***************************************************************************)
EXTENDS Integers, FiniteSets

CONSTANTS Threads,         \* the threads the process ever creates
          Main,            \* the thread that runs initVM
          NoThread,        \* a NULL LxThread*, and the tid 0
          OpsUntilSwitch,  \* THREAD_OPS_UNTIL_SWITCH
          MaxHeld          \* bound: lox mutexes a thread holds at once

ASSUME ThreadsAssumption == /\ IsFiniteSet(Threads)
                            /\ Main \in Threads
                            /\ NoThread \notin Threads
ASSUME BoundsAssumption == /\ OpsUntilSwitch \in Nat \ {0}
                           /\ MaxHeld \in Nat

VARIABLES
  pc,             \* where each thread is, see PCs
  GVLockStatus,   \* vm.GVLockStatus
  GVLOwner,       \* the tid in GVLOwner
  curThread,      \* vm.curThread
  GVLWaiters,     \* vm.GVLWaiters
  mutexCounter,   \* LxThread.mutexCounter
  opsRemaining    \* LxThread.opsRemaining

vars == <<pc, GVLockStatus, GVLOwner, curThread, GVLWaiters, mutexCounter,
          opsRemaining>>

PCs == {"unborn",      \* not created
        "ready",       \* in vm.threads, but not running yet
        "vm",          \* runs VM code or a native function
        "signal",      \* in releaseGVL, about to signal GVLCond
        "blocking",    \* between a releaseGVL and the next acquireGVL
        "waiting",     \* in acquireGVL, waits on GVLCond
        "woken",       \* returned from the wait, about to look at the flag
        "exitsignal",  \* the signal of the releaseGVL before pthread_exit
        "dead"}        \* past pthread_exit

TypeOK ==
  /\ pc \in [Threads -> PCs]
  /\ GVLockStatus \in {0, 1}
  /\ GVLOwner \in Threads \cup {NoThread}
  /\ curThread \in Threads \cup {NoThread}
  /\ GVLWaiters \in Int
  /\ mutexCounter \in [Threads -> 0..MaxHeld]
  /\ opsRemaining \in [Threads -> 0..OpsUntilSwitch]

(* initMainThread: the main thread takes the GVL before anything else runs. *)
Init ==
  /\ pc = [t \in Threads |-> IF t = Main THEN "vm" ELSE "unborn"]
  /\ GVLockStatus = 1
  /\ GVLOwner = Main
  /\ curThread = Main
  /\ GVLWaiters = 0
  /\ mutexCounter = [t \in Threads |-> 0]
  /\ opsRemaining = [t \in Threads |-> OpsUntilSwitch]

goto(t, l) == pc' = [pc EXCEPT ![t] = l]

------------------------------------------------------------------------------
(* Wrong variants of the definitions below, each what a slip in the C code *)
(* would make of it.  Nothing in the specification uses them: they show    *)
(* that the properties notice.                                             *)

(* acquireGVL overwrites the owner without looking at the flag. *)
AcquireFreeUnchecked(t) ==
  /\ pc[t] = "blocking"
  /\ GVLockStatus' = 1 /\ curThread' = t /\ GVLOwner' = t
  /\ goto(t, "vm")
  /\ UNCHANGED <<GVLWaiters, mutexCounter, opsRemaining>>

(* An "if" where acquireGVL has a "while". *)
WokenTakeNoRecheck(t) ==
  /\ pc[t] = "woken"
  /\ GVLWaiters' = GVLWaiters - 1
  /\ GVLockStatus' = 1 /\ curThread' = t /\ GVLOwner' = t
  /\ goto(t, "vm")
  /\ UNCHANGED <<mutexCounter, opsRemaining>>

(* GVLWaiters++ inside the loop. *)
WokenWaitAgainCounts(t) ==
  /\ pc[t] = "woken"
  /\ GVLockStatus = 1
  /\ GVLWaiters' = GVLWaiters + 1
  /\ goto(t, "waiting")
  /\ UNCHANGED <<GVLockStatus, GVLOwner, curThread, mutexCounter, opsRemaining>>

(* releaseGVL does not look at mutexCounter. *)
ReleaseKeepsNoMutex(t) == curThread = NoThread \/ GVLOwner # curThread

(* releaseGVL leaves vm.curThread behind. *)
DropGVLKeepsCurThread ==
  GVLockStatus' = 0 /\ GVLOwner' = NoThread /\ UNCHANGED curThread

(* releaseGVL does not signal, or only when two threads wait. *)
NoSignal(t, next) == goto(t, next)
SignalIfTwoWait(t, next) ==
  \/ GVLWaiters <= 1 /\ goto(t, next)
  \/ GVLWaiters > 1 /\ \E u \in Threads :
       pc[u] = "waiting" /\ pc' = [pc EXCEPT ![t] = next, ![u] = "woken"]

(* vmLoop forgets to count down. *)
OpUncounted(t) == pc[t] = "vm" /\ opsRemaining[t] > 1 /\ UNCHANGED vars

(* The unlock of a mutex the thread does not hold. *)
UnlockMutexUnchecked(t) ==
  /\ pc[t] = "vm"
  /\ mutexCounter' = [mutexCounter EXCEPT ![t] = @ - 1]
  /\ UNCHANGED <<pc, GVLockStatus, GVLOwner, curThread, GVLWaiters,
                 opsRemaining>>

------------------------------------------------------------------------------
(* Both early returns of acquireGVL: the releaseGVL before the blocking    *)
(* call kept the GVL because a lox mutex is held, or an interrupt handler  *)
(* has already taken it.                                                   *)
AlreadyHeld(t) == curThread = t /\ GVLOwner = t

TakeGVL(t) ==
  /\ GVLockStatus' = 1
  /\ curThread' = t
  /\ GVLOwner' = t
  /\ opsRemaining' = [opsRemaining EXCEPT ![t] = OpsUntilSwitch]
  /\ goto(t, "vm")

AcquireSkip(t) ==
  /\ pc[t] = "blocking"
  /\ AlreadyHeld(t)
  /\ goto(t, "vm")
  /\ UNCHANGED <<GVLockStatus, GVLOwner, curThread, GVLWaiters, mutexCounter,
                 opsRemaining>>

AcquireFree(t) ==
  /\ pc[t] = "blocking"
  /\ ~AlreadyHeld(t)
  /\ GVLockStatus = 0
  /\ TakeGVL(t)
  /\ UNCHANGED <<GVLWaiters, mutexCounter>>

AcquireWait(t) ==
  /\ pc[t] = "blocking"
  /\ ~AlreadyHeld(t)
  /\ GVLockStatus = 1
  /\ GVLWaiters' = GVLWaiters + 1
  /\ goto(t, "waiting")
  /\ UNCHANGED <<GVLockStatus, GVLOwner, curThread, mutexCounter, opsRemaining>>

(* pthread_cond_wait may return without a signal. *)
SpuriousWakeup(t) ==
  /\ pc[t] = "waiting"
  /\ goto(t, "woken")
  /\ UNCHANGED <<GVLockStatus, GVLOwner, curThread, GVLWaiters, mutexCounter,
                 opsRemaining>>

(* The loop around the wait: the flag is looked at again. *)
WokenTake(t) ==
  /\ pc[t] = "woken"
  /\ GVLockStatus = 0
  /\ GVLWaiters' = GVLWaiters - 1
  /\ TakeGVL(t)
  /\ UNCHANGED mutexCounter

WokenWaitAgain(t) ==
  /\ pc[t] = "woken"
  /\ GVLockStatus = 1
  /\ goto(t, "waiting")
  /\ UNCHANGED <<GVLockStatus, GVLOwner, curThread, GVLWaiters, mutexCounter,
                 opsRemaining>>

------------------------------------------------------------------------------
(* releaseGVL, called by a thread that is in the VM.  Its tests look at    *)
(* vm.curThread, not at the caller.                                        *)
ReleaseKeeps(t) ==
  \/ curThread = NoThread
  \/ GVLOwner # curThread
  \/ mutexCounter[curThread] > 0 /\ GVLOwner = curThread /\ curThread = t

DropGVL ==
  /\ GVLockStatus' = 0
  /\ GVLOwner' = NoThread
  /\ curThread' = NoThread

ReleaseGVL(t) ==
  \/ /\ ReleaseKeeps(t)
     /\ goto(t, "blocking")
     /\ UNCHANGED <<GVLockStatus, GVLOwner, curThread>>
  \/ /\ ~ReleaseKeeps(t)
     /\ DropGVL
     /\ goto(t, "signal")

(* pthread_cond_signal: one waiter, if there is one, leaves the wait. *)
SignalGVLCond(t, next) ==
  LET waiters == {u \in Threads : pc[u] = "waiting"}
  IN IF waiters = {}
     THEN goto(t, next)
     ELSE \E u \in waiters : pc' = [pc EXCEPT ![t] = next, ![u] = "woken"]

Signal(t) ==
  /\ pc[t] = "signal"
  /\ SignalGVLCond(t, "blocking")
  /\ UNCHANGED <<GVLockStatus, GVLOwner, curThread, GVLWaiters, mutexCounter,
                 opsRemaining>>

(* A native that gives the VM up around a blocking operation. *)
BlockingCall(t) ==
  /\ pc[t] = "vm"
  /\ ReleaseGVL(t)
  /\ UNCHANGED <<GVLWaiters, mutexCounter, opsRemaining>>

(* isOnlyThread: every other thread of vm.threads is a zombie. *)
IsOnlyThread(t) ==
  \A u \in Threads \ {t} : pc[u] \in {"unborn", "exitsignal", "dead"}

(* One turn of vmLoop that does not exhaust the thread's turn ... *)
Op(t) ==
  /\ pc[t] = "vm"
  /\ opsRemaining[t] > 1
  /\ opsRemaining' = [opsRemaining EXCEPT ![t] = @ - 1]
  /\ UNCHANGED <<pc, GVLockStatus, GVLOwner, curThread, GVLWaiters,
                 mutexCounter>>

(* ... and the one that does: the GVL is given up around threadSleepNano.  *)
Preempt(t) ==
  /\ pc[t] = "vm"
  /\ opsRemaining[t] <= 1
  /\ opsRemaining' = [opsRemaining EXCEPT ![t] = OpsUntilSwitch]
  /\ \/ /\ IsOnlyThread(t)
        /\ UNCHANGED <<pc, GVLockStatus, GVLOwner, curThread>>
     \/ /\ ~IsOnlyThread(t)
        /\ ReleaseGVL(t)
  /\ UNCHANGED <<GVLWaiters, mutexCounter>>

(* lxNewThread: newThreadSetup puts the thread in vm.threads, READY, and    *)
(* the GVL is given up around pthread_create.                              *)
NewThread(t, u) ==
  /\ pc[t] = "vm"
  /\ pc[u] = "unborn"
  /\ \/ /\ ReleaseKeeps(t)
        /\ pc' = [pc EXCEPT ![t] = "blocking", ![u] = "ready"]
        /\ UNCHANGED <<GVLockStatus, GVLOwner, curThread>>
     \/ /\ ~ReleaseKeeps(t)
        /\ DropGVL
        /\ pc' = [pc EXCEPT ![t] = "signal", ![u] = "ready"]
  /\ UNCHANGED <<GVLWaiters, mutexCounter, opsRemaining>>

(* runCallableInNewThread: the first thing it does is acquireGVL.  (That   *)
(* this comes after the creator's signal is not modelled; pthread_create   *)
(* may fail, and then it never comes.)                                     *)
StartThread(u) ==
  /\ pc[u] = "ready"
  /\ goto(u, "blocking")
  /\ UNCHANGED <<GVLockStatus, GVLOwner, curThread, GVLWaiters, mutexCounter,
                 opsRemaining>>

(* lockMutex and unlockMutex without contention, seen from the GVL. *)
LockMutex(t) ==
  /\ pc[t] = "vm"
  /\ mutexCounter[t] < MaxHeld
  /\ mutexCounter' = [mutexCounter EXCEPT ![t] = @ + 1]
  /\ UNCHANGED <<pc, GVLockStatus, GVLOwner, curThread, GVLWaiters,
                 opsRemaining>>

UnlockMutex(t) ==
  /\ pc[t] = "vm"
  /\ mutexCounter[t] > 0
  /\ mutexCounter' = [mutexCounter EXCEPT ![t] = @ - 1]
  /\ UNCHANGED <<pc, GVLockStatus, GVLOwner, curThread, GVLWaiters,
                 opsRemaining>>

(* stopVM on a thread other than the main one: mutexCounter is zeroed      *)
(* first, so that the releaseGVL before pthread_exit really releases.      *)
ExitThread(t) ==
  /\ pc[t] = "vm"
  /\ t # Main
  /\ mutexCounter' = [mutexCounter EXCEPT ![t] = 0]
  /\ DropGVL
  /\ goto(t, "exitsignal")
  /\ UNCHANGED <<GVLWaiters, opsRemaining>>

ExitSignal(t) ==
  /\ pc[t] = "exitsignal"
  /\ SignalGVLCond(t, "dead")
  /\ UNCHANGED <<GVLockStatus, GVLOwner, curThread, GVLWaiters, mutexCounter,
                 opsRemaining>>

Acquire(t) == \/ AcquireSkip(t) \/ AcquireFree(t) \/ AcquireWait(t)
              \/ WokenTake(t) \/ WokenWaitAgain(t)

Run(t) == \/ BlockingCall(t) \/ Op(t) \/ Preempt(t)
          \/ \E u \in Threads : NewThread(t, u)
          \/ LockMutex(t) \/ UnlockMutex(t) \/ ExitThread(t)

Next == \E t \in Threads :
          \/ Acquire(t)
          \/ SpuriousWakeup(t)
          \/ Signal(t)
          \/ ExitSignal(t)
          \/ Run(t)
          \/ StartThread(t)

Spec == Init /\ [][Next]_vars

(* The fairness the program has: a thread inside a pthread call keeps      *)
(* going, and a thread in the VM executes its next instruction.  Nothing   *)
(* is assumed about who wins the race for GVLock: a thread that arrives in *)
(* acquireGVL may overtake the one that was signalled, again and again.    *)
Fairness ==
  \A t \in Threads :
    /\ WF_vars(Signal(t) \/ ExitSignal(t))
    /\ WF_vars(WokenTake(t) \/ WokenWaitAgain(t))
    /\ WF_vars(Op(t) \/ Preempt(t))

FairSpec == Spec /\ Fairness

------------------------------------------------------------------------------
(* README: threads "cannot run concurrently in the VM itself".  The flag,  *)
(* the owner and vm.curThread are three variables written one by one; two  *)
(* threads inside the VM would corrupt every unlocked structure in it.     *)
MutualExclusion ==
  \A t, u \in Threads : pc[t] = "vm" /\ pc[u] = "vm" => t = u

(* releaseGVL decides by vm.curThread and GVLOwner, never by who calls it: *)
(* a thread that entered the VM without being the recorded owner would     *)
(* release, or keep, somebody else's lock.                                 *)
OwnerIsInVM ==
  /\ \A t \in Threads : pc[t] = "vm" => curThread = t /\ GVLOwner = t
  /\ GVLockStatus = 0 => curThread = NoThread /\ GVLOwner = NoThread

(* TODO: "any mutex held blocks release of GVL for a thread": while a      *)
(* thread holds a lox mutex it keeps the VM, even through blocking calls,  *)
(* so no other thread can run into the mutex.                              *)
MutexHolderKeepsGVL ==
  \A t \in Threads : mutexCounter[t] > 0 =>
    GVLOwner = t /\ \A u \in Threads \ {t} : pc[u] # "vm"

(* releaseGVL signals after it has unlocked: between the two the flag is   *)
(* free while threads sleep on the condition variable.  The wakeup is      *)
(* never lost: a signal is on its way, or somebody is already awake.       *)
WakeupPending ==
  (GVLockStatus = 0 /\ \E t \in Threads : pc[t] = "waiting")
    => \E u \in Threads : pc[u] \in {"signal", "exitsignal", "woken"}

(* vm.GVLWaiters counts the threads inside acquireGVL's wait. *)
WaitersCounted ==
  GVLWaiters = Cardinality({t \in Threads : pc[t] \in {"waiting", "woken"}})

(* A free VM does not stay free while a thread waits in acquireGVL: the    *)
(* signal of releaseGVL reaches a waiter, or a newcomer takes the lock.    *)
IdleVMTaken ==
  (GVLockStatus = 0 /\ \E t \in Threads : pc[t] \in {"waiting", "woken"})
    ~> GVLockStatus = 1

(* examples/thread_preemption.lox: "current thread gets pre-empted every   *)
(* once in while".  A thread that loops in the VM without ever blocking    *)
(* gives the VM up as long as another thread lives, unless it locks a lox  *)
(* mutex, with which it is not preempted.                                  *)
HolderYields ==
  \A t \in Threads :
    (pc[t] = "vm" /\ ~IsOnlyThread(t))
      ~> (pc[t] # "vm" \/ IsOnlyThread(t) \/ mutexCounter[t] > 0)

(* The GVL implements the abstract lock. *)
holders == {t \in Threads : GVLOwner = t}
Lock == INSTANCE VMLock WITH holders <- holders
ImplementsVMLock == Lock!Spec
=============================================================================

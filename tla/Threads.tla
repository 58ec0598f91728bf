------------------------------- MODULE Threads -------------------------------
(***************************************************************************)
(* The life of a lox thread (thread.c; vm.c: stopVM, terminateThreads,     *)
(* freeVM, runAtExitHooks; runtime.c: sleep): creation, join, detach,      *)
(* sleep, Thread#throw, the exit interrupt, and how the main thread brings *)
(* the others down before it frees the VM.                                 *)
(*                                                                         *)
(* The global VM lock is the abstract one of module VMLock, which module   *)
(* GVL implements: gvl is the thread that has it, acquireGVL waits until   *)
(* it is free.  What acquireGVL does once it has the lock (throw an error  *)
(* another thread left, run the exit interrupt) belongs to this module.    *)
(* Threads that hold a lox mutex are left to module GVL: they keep the     *)
(* lock, so nothing below can happen to them.                              *)
(***************************************************************************)
EXTENDS Integers, SequencesExt

CONSTANTS Threads,         \* the threads the program ever creates
          Main,            \* vm.mainThread
          NoThread,
          Natives,         \* which of the natives below the program calls
          MaxCollections   \* bound: full collections of the program's run

ASSUME ThreadsAssumption == /\ IsFiniteSet(Threads)
                            /\ Main \in Threads
                            /\ NoThread \notin Threads
                            /\ MaxCollections \in Nat

VARIABLES
  gvl,              \* the thread that has the VM
  pc,               \* where each thread is
  target,           \* the thread its current native is about
  status,           \* LxThread.status
  hasTid,           \* LxThread.tid is set
  interrupted,      \* INTERRUPT_GENERAL is set in LxThread.interruptFlags
  errorToThrow,     \* LxThread.errorToThrow is not nil
  everThrown,       \* LxThread.lastErrorThrown is not nil
  joined, detached, \* the flags of LxThread
  threads,          \* vm.threads
  numLiving,        \* vm.numLivingThreads
  numDetached,      \* vm.numDetachedThreads
  reg,              \* the value a thread read in numLivingThreads++ or --
  exiting,          \* vm.exiting
  scan,             \* terminateThreads' locals
  zombies,          \* collectGarbage's v_zombies: positions left to take off
  collections       \* full collections so far, a bound

lockVars   == <<gvl, target>>
threadVars == <<status, hasTid, interrupted, errorToThrow, everThrown>>
joinVars   == <<joined, detached, numDetached>>
countVars  == <<numLiving, reg>>
vmVars     == <<threads, exiting, scan, zombies, collections>>
vars == <<pc, lockVars, threadVars, joinVars, countVars, vmVars>>

(* A thread in InVM has the VM lock; one in Acquiring is in acquireGVL and *)
(* continues where the suffix says.                                        *)
InVM == {"vm", "collect", "stopping", "term", "hooks"}
Acquiring == {"acq_vm", "acq_start", "acq_new", "acq_join", "acq_term",
              "acq_hooks"}
PCs == InVM \cup Acquiring \cup
  {"unborn",      \* not created, or pthread_create failed
   "create",      \* lxNewThread, before pthread_create
   "created",     \* runCallableInNewThread, before numLivingThreads++
   "counting",    \* has read numLivingThreads for the increment
   "presleep",    \* lxSleep, before the timed wait
   "sleep",       \* in pthread_cond_timedwait(&th->sleepCond)
   "join",        \* in pthread_join
   "sig_vm",      \* threadSchedule, before it signals the target's sleepCond
   "sig_term",
   "killed",      \* the exit interrupt, GVL released, before numLiving--
   "killing",     \* has read numLivingThreads for the decrement
   "zombie",      \* before status = THREAD_ZOMBIE
   "late",        \* started while the VM exits, before numLivingThreads--
   "leaving",
   "freed",       \* the main thread, past freeVM
   "crashed",     \* the process was killed by a wild memmove
   "dead"}        \* past pthread_exit

Statuses == {"STOPPED", "SLEEPING", "READY", "RUNNING", "ZOMBIE"}
Scans == [idx : Nat, found : BOOLEAN, ready : BOOLEAN]
NoScan == [idx |-> 0, found |-> FALSE, ready |-> FALSE]

TypeOK ==
  /\ gvl \in Threads \cup {NoThread}
  /\ pc \in [Threads -> PCs]
  /\ target \in [Threads -> Threads \cup {NoThread}]
  /\ status \in [Threads -> Statuses]
  /\ hasTid \in [Threads -> BOOLEAN]
  /\ interrupted \in [Threads -> BOOLEAN]
  /\ errorToThrow \in [Threads -> BOOLEAN]
  /\ everThrown \in [Threads -> BOOLEAN]
  /\ joined \in [Threads -> BOOLEAN]
  /\ detached \in [Threads -> BOOLEAN]
  /\ threads \in Seq(Threads)
  /\ numLiving \in Int
  /\ numDetached \in Int
  /\ reg \in [Threads -> Int]
  /\ exiting \in BOOLEAN
  /\ scan \in Scans
  /\ zombies \subseteq Nat \ {0}
  /\ collections \in 0..MaxCollections

(* initMainThread. *)
Init ==
  /\ gvl = Main
  /\ pc = [t \in Threads |-> IF t = Main THEN "vm" ELSE "unborn"]
  /\ target = [t \in Threads |-> NoThread]
  /\ status = [t \in Threads |-> IF t = Main THEN "RUNNING" ELSE "STOPPED"]
  /\ hasTid = [t \in Threads |-> t = Main]
  /\ interrupted = [t \in Threads |-> FALSE]
  /\ errorToThrow = [t \in Threads |-> FALSE]
  /\ everThrown = [t \in Threads |-> FALSE]
  /\ joined = [t \in Threads |-> FALSE]
  /\ detached = [t \in Threads |-> FALSE]
  /\ threads = <<Main>>
  /\ numLiving = 1
  /\ numDetached = 0
  /\ reg = [t \in Threads |-> 0]
  /\ exiting = FALSE
  /\ scan = NoScan
  /\ zombies = {}
  /\ collections = 0

goto(t, l) == pc' = [pc EXCEPT ![t] = l]
set(f, t) == [f EXCEPT ![t] = TRUE]
forget(t) == target' = [target EXCEPT ![t] = NoThread]   \* the native is over

(* A native of the program that the thread may call now: it has the VM.    *)
Calls(t, native) == pc[t] = "vm" /\ native \in Natives

(* releaseGVL and on to the blocking part of the native. *)
ReleaseTo(t, l) == gvl' = NoThread /\ goto(t, l)

------------------------------------------------------------------------------
(* Wrong variants of definitions below, which the properties must notice.  *)

(* acquireGVL does not look at the interrupt. *)
AcquireAndNoInts(t, from, to) ==
  /\ pc[t] = from /\ gvl = NoThread
  /\ ~errorToThrow[t]
  /\ gvl' = t
  /\ goto(t, to)
  /\ forget(t)
  /\ UNCHANGED <<interrupted, errorToThrow, everThrown, countVars, vmVars>>

(* The exit interrupt marks the thread and lets it go on. *)
ZombieGoesOn(t) ==
  /\ pc[t] = "zombie"
  /\ status' = [status EXCEPT ![t] = "ZOMBIE"]
  /\ interrupted' = [interrupted EXCEPT ![t] = FALSE]
  /\ goto(t, "acq_vm")
  /\ UNCHANGED <<lockVars, hasTid, errorToThrow, everThrown, joinVars,
                 countVars, vmVars>>

(* stopVM subtracts every thread from numDetachedThreads. *)
StopUncountsAll(t) ==
  /\ t # Main /\ pc[t] = "vm"
  /\ goto(t, "stopping")
  /\ reg' = [reg EXCEPT ![t] = numLiving]
  /\ status' = [status EXCEPT ![t] = "ZOMBIE"]
  /\ numDetached' = numDetached - 1
  /\ UNCHANGED <<lockVars, hasTid, interrupted, errorToThrow, everThrown,
                 joined, detached, numLiving, vmVars>>

(* terminateThreads trusts the count alone. *)
NobodyLivesByCount(ready) == numLiving <= 1

(* terminateThreads gives the other threads a turn, but no interrupt. *)
TerminateOneNoInterrupt ==
  /\ pc[Main] = "term" /\ scan.idx <= Len(threads)
  /\ threads[scan.idx] # Main /\ status[threads[scan.idx]] # "ZOMBIE"
  /\ hasTid[threads[scan.idx]]
  /\ scan' = [idx |-> scan.idx + 1, found |-> TRUE, ready |-> FALSE]
  /\ target' = [target EXCEPT ![Main] = threads[scan.idx]]
  /\ ReleaseTo(Main, "sig_term")
  /\ UNCHANGED <<threadVars, joinVars, countVars, threads, exiting, zombies,
                 collections>>

------------------------------------------------------------------------------
(* acquireGVL.  Once it has the lock it throws the error another thread    *)
(* left for this one: a longjmp, so that the rest of the native is not     *)
(* executed and the exit interrupt is not looked at.                       *)
AcquireThrows(t) ==
  /\ pc[t] \in Acquiring /\ gvl = NoThread
  /\ errorToThrow[t]
  /\ gvl' = t
  /\ goto(t, "vm")
  /\ errorToThrow' = [errorToThrow EXCEPT ![t] = FALSE]
  /\ everThrown' = set(everThrown, t)
  /\ forget(t)
  /\ UNCHANGED <<status, hasTid, interrupted, joinVars, countVars, vmVars>>

(* Otherwise VM_CHECK_INTS: threadExecuteInterrupts releases the lock and  *)
(* ends the thread.                                                        *)
AcquireKilled(t) ==
  /\ pc[t] \in Acquiring /\ gvl = NoThread
  /\ ~errorToThrow[t] /\ interrupted[t]
  /\ goto(t, "killed")
  /\ forget(t)
  /\ UNCHANGED <<gvl, threadVars, joinVars, countVars, vmVars>>

AcquireAnd(t, from, to) ==
  /\ pc[t] = from /\ gvl = NoThread
  /\ ~errorToThrow[t] /\ ~interrupted[t]
  /\ gvl' = t
  /\ goto(t, to)
  /\ forget(t)
  /\ UNCHANGED <<interrupted, errorToThrow, everThrown, countVars, vmVars>>

AcquireReturns(t) ==
  /\ \/ AcquireAnd(t, "acq_vm", "vm")
     \/ AcquireAnd(t, "acq_term", "term")
     \/ AcquireAnd(t, "acq_hooks", "hooks")
  /\ UNCHANGED <<status, hasTid, joinVars>>

(* lxNewThread: "it's important the new thread has a tid even if it hasn't *)
(* started running yet".                                                   *)
AcquireNew(t) ==
  /\ AcquireAnd(t, "acq_new", "vm")
  /\ hasTid' = set(hasTid, target[t])
  /\ UNCHANGED <<status, joinVars>>

(* lxJoinThread: th = FIND_THREAD(tid), which is NULL if a collection has  *)
(* taken the thread off vm.threads.                                        *)
AcquireJoin(t) ==
  /\ AcquireAnd(t, "acq_join", "vm")
  /\ joined' = [joined EXCEPT ![target[t]] =
                  @ \/ \E i \in DOMAIN threads : threads[i] = target[t]]
  /\ UNCHANGED <<status, hasTid, detached, numDetached>>

(* runCallableInNewThread, from its acquireGVL to its first call ... *)
AcquireStart(t) ==
  /\ ~exiting
  /\ AcquireAnd(t, "acq_start", "vm")
  /\ status' = [status EXCEPT ![t] = "RUNNING"]
  /\ UNCHANGED <<hasTid, joinVars>>

(* ... or "vm exited, quitting new thread": the status stays READY, for    *)
(* which terminateThreads waits.                                           *)
AcquireLate(t) ==
  /\ pc[t] = "acq_start" /\ gvl = NoThread
  /\ ~errorToThrow[t] /\ ~interrupted[t] /\ exiting
  /\ goto(t, "late")
  /\ UNCHANGED <<lockVars, threadVars, joinVars, countVars, vmVars>>

Acquire(t) == \/ AcquireThrows(t) \/ AcquireKilled(t) \/ AcquireReturns(t)
              \/ AcquireNew(t) \/ AcquireJoin(t) \/ AcquireStart(t)
              \/ AcquireLate(t)

------------------------------------------------------------------------------
(* lxNewThread: newThreadSetup, then pthread_create without the lock. *)
NewThread(t, u) ==
  /\ Calls(t, "newThread")
  /\ pc[u] = "unborn" /\ status[u] = "STOPPED"
  /\ threads' = Append(threads, u)
  /\ status' = [status EXCEPT ![u] = "READY"]
  /\ target' = [target EXCEPT ![t] = u]
  /\ ReleaseTo(t, "create")
  /\ UNCHANGED <<hasTid, interrupted, errorToThrow, everThrown, joinVars,
                 countVars, exiting, scan, zombies, collections>>

PthreadCreate(t) ==
  /\ pc[t] = "create"
  /\ pc' = [pc EXCEPT ![t] = "acq_new", ![target[t]] = "created"]
  /\ UNCHANGED <<lockVars, threadVars, joinVars, countVars, vmVars>>

(* "Error making new thread": the thread object stays in vm.threads. *)
PthreadCreateFails(t) ==
  /\ pc[t] = "create"
  /\ goto(t, "acq_vm")
  /\ UNCHANGED <<lockVars, threadVars, joinVars, countVars, vmVars>>

(* vm.numLivingThreads++ and -- run without the VM lock, or race with ones *)
(* that do: each is a read and a write, and an update can be lost.         *)
ReadLiving(t, from, to) ==
  /\ pc[t] = from
  /\ reg' = [reg EXCEPT ![t] = numLiving]
  /\ goto(t, to)

WriteLiving(t, by) ==
  /\ numLiving' = reg[t] + by
  /\ reg' = [reg EXCEPT ![t] = 0]

StartThread(t) ==
  /\ ReadLiving(t, "created", "counting")
  /\ hasTid' = set(hasTid, t)
  /\ UNCHANGED <<lockVars, status, interrupted, errorToThrow, everThrown,
                 joinVars, numLiving, vmVars>>

CountLiving(t) ==
  /\ pc[t] = "counting"
  /\ WriteLiving(t, 1)
  /\ goto(t, "acq_start")
  /\ UNCHANGED <<lockVars, threadVars, joinVars, vmVars>>

(* lxSleep.  The status is set and the wait entered under sleepMutex, but  *)
(* whoever signals sleepCond does not take it.                             *)
Sleep(t) ==
  /\ Calls(t, "sleep")
  /\ ReleaseTo(t, "presleep")
  /\ UNCHANGED <<target, threadVars, joinVars, countVars, vmVars>>

FallAsleep(t) ==
  /\ pc[t] = "presleep"
  /\ status' = [status EXCEPT ![t] = "SLEEPING"]
  /\ goto(t, "sleep")
  /\ UNCHANGED <<lockVars, hasTid, interrupted, errorToThrow, everThrown,
                 joinVars, countVars, vmVars>>

WakeUp(t) ==   \* by the timeout
  /\ pc[t] = "sleep"
  /\ status' = [status EXCEPT ![t] = "STOPPED"]
  /\ goto(t, "acq_vm")
  /\ UNCHANGED <<lockVars, hasTid, interrupted, errorToThrow, everThrown,
                 joinVars, countVars, vmVars>>

(* Thread.schedule, preemption, or any short system call. *)
Schedule(t) ==
  /\ Calls(t, "schedule")
  /\ ReleaseTo(t, "acq_vm")
  /\ UNCHANGED <<target, threadVars, joinVars, countVars, vmVars>>

(* An error of the thread's own, thrown and caught. *)
CatchError(t) ==
  /\ Calls(t, "error") /\ ~everThrown[t]
  /\ everThrown' = set(everThrown, t)
  /\ UNCHANGED <<pc, lockVars, status, hasTid, interrupted, errorToThrow,
                 joinVars, countVars, vmVars>>

(* lxJoinThread. *)
Join(t, u) ==
  /\ Calls(t, "joinThread") /\ u # t /\ hasTid[u]
  /\ target' = [target EXCEPT ![t] = u]
  /\ ReleaseTo(t, "join")
  /\ UNCHANGED <<threadVars, joinVars, countVars, vmVars>>

PthreadJoin(t) ==
  /\ pc[t] = "join"
  /\ LET u == target[t]
         fails == \/ detached[u] \/ joined[u]
                  \/ \E v \in Threads \ {t} :
                       target[v] = u /\ pc[v] \in {"join", "acq_join"}
     IN \/ fails /\ goto(t, "acq_vm")
        \/ ~fails /\ pc[u] = "dead" /\ goto(t, "acq_join")
  /\ UNCHANGED <<lockVars, threadVars, joinVars, countVars, vmVars>>

(* lxThreadDetach. *)
Detach(t, u) ==
  /\ Calls(t, "detach") /\ u # t /\ hasTid[u]
  /\ u # Main /\ ~detached[u] /\ status[u] # "ZOMBIE"
  /\ detached' = set(detached, u)
  /\ numDetached' = numDetached + 1
  /\ UNCHANGED <<pc, lockVars, threadVars, joined, countVars, vmVars>>

(* lxThreadThrow, then threadSchedule: the target's sleep is ended. *)
Throw(t, u) ==
  /\ Calls(t, "throw") /\ u # t
  /\ status[u] \in {"SLEEPING", "STOPPED", "RUNNING"} /\ hasTid[u]
  /\ errorToThrow' = [errorToThrow EXCEPT ![u] = @ \/ ~everThrown[u]]
  /\ target' = [target EXCEPT ![t] = u]
  /\ ReleaseTo(t, "sig_vm")
  /\ UNCHANGED <<status, hasTid, interrupted, everThrown, joinVars, countVars,
                 vmVars>>

SignalThen(t, from, to) ==
  /\ pc[t] = from
  /\ LET u == target[t]
     IN IF pc[u] = "sleep"
        THEN /\ pc' = [pc EXCEPT ![t] = to, ![u] = "acq_vm"]
             /\ status' = [status EXCEPT ![u] = "STOPPED"]
        ELSE goto(t, to) /\ UNCHANGED status

SignalSleepCond(t) ==
  /\ \/ SignalThen(t, "sig_vm", "acq_vm")
     \/ SignalThen(t, "sig_term", "acq_term")
  /\ UNCHANGED <<lockVars, hasTid, interrupted, errorToThrow, everThrown,
                 joinVars, countVars, vmVars>>

------------------------------------------------------------------------------
(* VM_CHECK_INTS at a jump: a thread that came into the VM with an error   *)
(* instead of the interrupt finds it here.                                 *)
CheckInts(t) ==
  /\ pc[t] = "vm" /\ interrupted[t]
  /\ ReleaseTo(t, "killed")
  /\ UNCHANGED <<target, threadVars, joinVars, countVars, vmVars>>

(* The end of a thread that was interrupted or started too late: the       *)
(* decrement comes after the lock was released.                            *)
Uncount(t) ==
  /\ \/ ReadLiving(t, "killed", "killing")
     \/ ReadLiving(t, "late", "leaving")
  /\ UNCHANGED <<lockVars, threadVars, joinVars, numLiving, vmVars>>

Uncounted(t) ==
  /\ \/ pc[t] = "killing" /\ goto(t, "zombie")
     \/ pc[t] = "leaving" /\ goto(t, "dead")
  /\ WriteLiving(t, -1)
  /\ UNCHANGED <<lockVars, threadVars, joinVars, vmVars>>

Zombie(t) ==
  /\ pc[t] = "zombie"
  /\ status' = [status EXCEPT ![t] = "ZOMBIE"]
  /\ goto(t, "dead")
  /\ UNCHANGED <<lockVars, hasTid, interrupted, errorToThrow, everThrown,
                 joinVars, countVars, vmVars>>

(* stopVM on a thread that is not the main one. *)
Stop(t) ==
  /\ t # Main
  /\ ReadLiving(t, "vm", "stopping")
  /\ status' = [status EXCEPT ![t] = "ZOMBIE"]
  /\ numDetached' = IF detached[t] /\ numDetached > 0 THEN numDetached - 1
                    ELSE numDetached
  /\ UNCHANGED <<lockVars, hasTid, interrupted, errorToThrow, everThrown,
                 joined, detached, numLiving, vmVars>>

Stopped(t) ==
  /\ pc[t] = "stopping"
  /\ WriteLiving(t, -1)
  /\ ReleaseTo(t, "dead")
  /\ UNCHANGED <<target, threadVars, joinVars, vmVars>>

------------------------------------------------------------------------------
(* stopVM on the main thread: terminateThreads goes round vm.threads,      *)
(* interrupts every thread it does not take for dead and lets the others   *)
(* run, until a round finds nobody or the count says that nobody is left.  *)
StopMain ==
  /\ Calls(Main, "exit")
  /\ exiting' = TRUE
  /\ scan' = [NoScan EXCEPT !.idx = 1]
  /\ goto(Main, "term")
  /\ UNCHANGED <<lockVars, threadVars, joinVars, countVars, threads,
                 zombies, collections>>

Unfinished(u) == u # Main /\ status[u] # "ZOMBIE" /\ hasTid[u]

TerminateSkip ==
  /\ pc[Main] = "term" /\ scan.idx <= Len(threads)
  /\ ~Unfinished(threads[scan.idx])
  /\ scan' = [scan EXCEPT !.idx = @ + 1]
  /\ UNCHANGED <<pc, lockVars, threadVars, joinVars, countVars, threads,
                 exiting, zombies, collections>>

NobodyLives(ready) == numLiving <= 1 /\ ~ready

TerminateOne ==
  /\ pc[Main] = "term" /\ scan.idx <= Len(threads)
  /\ LET u == threads[scan.idx]
         ready == scan.ready \/ status[u] = "READY"
     IN /\ Unfinished(u)
        /\ IF NobodyLives(ready)
           THEN /\ scan' = [idx |-> Len(threads) + 1, found |-> TRUE, ready |-> ready]
                /\ UNCHANGED <<pc, gvl, target, interrupted>>
           ELSE /\ scan' = [idx |-> scan.idx + 1, found |-> TRUE, ready |-> ready]
                /\ interrupted' = set(interrupted, u)
                /\ target' = [target EXCEPT ![Main] = u]
                /\ ReleaseTo(Main, "sig_term")
  /\ UNCHANGED <<status, hasTid, errorToThrow, everThrown, joinVars, countVars,
                 threads, exiting, zombies, collections>>

TerminateRound ==
  /\ pc[Main] = "term" /\ scan.idx > Len(threads)
  /\ IF ~scan.found \/ NobodyLives(scan.ready)
     THEN /\ numLiving' = 1
          /\ scan' = NoScan
          /\ goto(Main, "hooks")
     ELSE /\ scan' = [NoScan EXCEPT !.idx = 1]
          /\ UNCHANGED <<pc, numLiving>>
  /\ UNCHANGED <<lockVars, threadVars, joinVars, reg, threads, exiting,
                 zombies, collections>>

(* runAtExitHooks runs lox code, which may give the lock up. *)
HookBlocks ==
  /\ pc[Main] = "hooks" /\ "atExit" \in Natives
  /\ ReleaseTo(Main, "acq_hooks")
  /\ UNCHANGED <<target, threadVars, joinVars, countVars, vmVars>>

(* freeVM releases the lock at its end. *)
FreeVM ==
  /\ pc[Main] = "hooks"
  /\ status' = [status EXCEPT ![Main] = "ZOMBIE"]
  /\ ReleaseTo(Main, "freed")
  /\ UNCHANGED <<target, hasTid, interrupted, errorToThrow, everThrown,
                 joinVars, countVars, vmVars>>

Exit ==   \* _exit ends every thread
  /\ pc[Main] = "freed"
  /\ pc' = [t \in Threads |-> "dead"]
  /\ gvl' = NoThread
  /\ UNCHANGED <<target, threadVars, joinVars, countVars, vmVars>>

------------------------------------------------------------------------------
(* collectGarbage notes the positions of the finished threads that were    *)
(* joined or detached (counted from 0; from 1 here), and after the marking *)
(* of the others takes them off vm.threads one by one, lowest first, at    *)
(* the positions it noted.                                                 *)
Collect(t) ==
  /\ Calls(t, "collect") /\ collections < MaxCollections
  /\ zombies' = {i \in DOMAIN threads :
                   /\ status[threads[i]] = "ZOMBIE"
                   /\ joined[threads[i]] \/ detached[threads[i]]}
  /\ collections' = collections + 1
  /\ goto(t, "collect")
  /\ UNCHANGED <<lockVars, threadVars, joinVars, countVars, threads, exiting,
                 scan>>

Lowest(i) == i \in zombies /\ \A j \in zombies : i <= j

(* A wrong variant: vec_splice leaves the length of the vector alone.      *)
SpliceKeepsLength(t) ==
  /\ pc[t] = "collect"
  /\ \E i \in DOMAIN threads :
       /\ Lowest(i)
       /\ threads' = Append(RemoveAt(threads, i), NoThread)
       /\ zombies' = zombies \ {i}
  /\ UNCHANGED <<pc, lockVars, threadVars, joinVars, countVars, exiting, scan,
                 collections>>

(* vec_splice(&vm.threads, i, 1). *)
Splice(t) ==
  /\ pc[t] = "collect"
  /\ \E i \in DOMAIN threads :
       /\ Lowest(i)
       /\ threads' = RemoveAt(threads, i)
       /\ zombies' = zombies \ {i}
  /\ UNCHANGED <<pc, lockVars, threadVars, joinVars, countVars, exiting, scan,
                 collections>>

(* Past the end of the vector memmove gets a negative size. *)
SpliceWild(t) ==
  /\ pc[t] = "collect"
  /\ \E i \in zombies : Lowest(i) /\ i > Len(threads)
  /\ pc' = [u \in Threads |-> "crashed"]
  /\ gvl' = NoThread
  /\ UNCHANGED <<target, threadVars, joinVars, countVars, vmVars>>

Collected(t) ==
  /\ pc[t] = "collect" /\ zombies = {}
  /\ goto(t, "vm")
  /\ UNCHANGED <<lockVars, threadVars, joinVars, countVars, vmVars>>

Sweep(t) == Splice(t) \/ SpliceWild(t) \/ Collected(t)

------------------------------------------------------------------------------
Begin(t) == PthreadCreate(t) \/ StartThread(t) \/ CountLiving(t)

Native(t) ==
  \/ Sleep(t) \/ Schedule(t) \/ CatchError(t) \/ Collect(t)
  \/ \E u \in Threads : NewThread(t, u) \/ Join(t, u) \/ Detach(t, u) \/ Throw(t, u)

Blocked(t) == FallAsleep(t) \/ WakeUp(t) \/ PthreadJoin(t) \/ SignalSleepCond(t)

End(t) == \/ CheckInts(t) \/ Uncount(t) \/ Uncounted(t) \/ Zombie(t)
          \/ Stop(t) \/ Stopped(t)

MainExit == \/ TerminateSkip \/ TerminateOne \/ TerminateRound
            \/ FreeVM \/ Exit

Next ==
  \/ \E t \in Threads : \/ Acquire(t) \/ Begin(t) \/ PthreadCreateFails(t)
                        \/ Native(t) \/ Blocked(t) \/ Sweep(t) \/ End(t)
  \/ StopMain \/ MainExit \/ HookBlocks

Spec == Init /\ [][Next]_vars

(* A thread inside the C library or the VM's own C code keeps going, a     *)
(* sleep ends, an interrupted thread reaches a jump, and a thread that     *)
(* wants the lock gets it if the lock is free again and again: that is     *)
(* what the sched_yield of threadSchedule is there for.  Nothing is        *)
(* assumed of what the lox program does when it has the VM, except that it *)
(* leaves it or comes to its end (Stop).                                   *)
Fairness ==
  /\ WF_vars(MainExit)
  /\ \A t \in Threads :
       /\ SF_vars(Acquire(t))
       /\ WF_vars(Begin(t) \/ Blocked(t) \/ Sweep(t) \/ End(t))

FairSpec == Spec /\ Fairness

------------------------------------------------------------------------------
(* acquireGVL and THREAD assert it: a thread whose status is ZOMBIE never  *)
(* has the VM again, whatever wrote the status (stopVM with the lock, the  *)
(* interrupt without it, a sleep that ends).                               *)
ZombieStaysOut ==
  \A t \in Threads : pc[t] \in InVM \ {"stopping"} => status[t] # "ZOMBIE"

(* freeVM destroys the GVL only if numDetachedThreads <= 0: the count may  *)
(* be too high (an interrupted thread is not subtracted) but never lower   *)
(* than the detached threads that may still use the lock.                  *)
DetachedNotUndercounted ==
  Cardinality({t \in Threads : detached[t] /\ status[t] # "ZOMBIE"})
    <= numDetached

(* vm.h: "list of current thread ObjInstance pointers".  FIND_THREAD looks *)
(* the running thread up there: a live thread that is missing gets a NULL  *)
(* vm.curThread.                                                           *)
LiveThreadsListed ==
  \A t \in Threads :
    pc[t] \notin {"unborn", "dead", "crashed", "freed"}
      => \E i \in DOMAIN threads : threads[i] = t

(* When the VM is freed no other thread is left that could still enter it. *)
FreeVMAlone ==
  pc[Main] = "freed" =>
    \A t \in Threads \ {Main} :
      pc[t] \in {"unborn", "zombie", "leaving", "dead"}

(* The exit interrupt is final: an interrupted thread that is not in the   *)
(* VM comes back only to throw an error, and does not stay.                *)
InterruptIsFinal ==
  [][\A t \in Threads :
       interrupted[t] /\ pc[t] \notin InVM /\ pc'[t] \in InVM
         => errorToThrow[t]]_vars

(* thread_no_join.lox: "script should exit immediately after printing      *)
(* this".  terminateThreads comes to an end, whatever the other threads    *)
(* are doing (unless one of them throws an error into the main thread).    *)
(* Natives must not hold joinThread: nothing ends a pthread_join early.    *)
(* With one other thread, that is: see AcquireLate for what a third does.  *)
MainExits == pc[Main] = "term" ~> pc[Main] \in {"hooks", "vm"}
=============================================================================

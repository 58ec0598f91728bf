---------------------------- MODULE ThreadsProofs ----------------------------
(***************************************************************************)
(* Theorems about the life of a thread, for every number of threads, every *)
(* choice of natives and every number of collections; the last one for     *)
(* programs with one thread besides the main one.                          *)
(*                                                                         *)
(* What a thread's status says is written by others than the thread: by    *)
(* lxNewThread, by whoever ends its sleep, by the interrupt after the lock *)
(* was released.  That a finished thread stays finished therefore rests on *)
(* where each thread is while another one acts on it: the thread that      *)
(* lxNewThread is about to start is nobody else's (Creating), and a status *)
(* of ZOMBIE belongs to a thread that is past its last lox code (Finished).*)
(***************************************************************************)
EXTENDS Threads, FiniteSetTheorems, SequenceTheorems, TLAPS

(* terminateThreads indexes vm.threads from its first element on. *)
Scanning ==
  pc[Main] \in {"term", "sig_term", "acq_term"} => scan.idx >= 1

(* A thread that is being created has no thread of the C library yet, and  *)
(* one creator. *)
Creating ==
  \A t \in Threads : pc[t] = "create" =>
    /\ target[t] \in Threads \ {t}
    /\ pc[target[t]] = "unborn"
    /\ status[target[t]] = "READY"
    /\ \A u \in Threads \ {t} : pc[u] = "create" => target[u] # target[t]

(* A thread without one is new, or its creator is at it or has failed. *)
Finished ==
  \A t \in Threads :
    /\ status[t] = "ZOMBIE" => pc[t] \in {"stopping", "dead", "freed", "crashed"}
    /\ pc[t] = "unborn" => status[t] \in {"STOPPED", "READY"}

IInv == TypeOK /\ Scanning /\ Creating /\ Finished

------------------------------------------------------------------------------
(* A vector without one of its elements. *)
LEMMA RemoveAtType ==
  ASSUME NEW S, NEW s \in Seq(S), NEW i \in DOMAIN s
  PROVE  RemoveAt(s, i) \in Seq(S)
BY DEF RemoveAt

(* The locals of terminateThreads, as its steps change them. *)
LEMMA ScanType ==
  ASSUME NEW s \in Scans, NEW i \in Nat
  PROVE  /\ [s EXCEPT !.idx = @ + 1] \in Scans
         /\ NoScan \in Scans
         /\ [NoScan EXCEPT !.idx = i] \in Scans
         /\ s.idx \in Nat /\ s.ready \in BOOLEAN
<1>1. [s EXCEPT !.idx = @ + 1] \in Scans
  BY DEF Scans
<1>2. NoScan \in Scans
  BY DEF Scans, NoScan
<1>3. [NoScan EXCEPT !.idx = i] \in Scans
  BY DEF Scans, NoScan
<1>4. s.idx \in Nat
  BY DEF Scans
<1>5. s.ready \in BOOLEAN
  BY DEF Scans
<1>6. QED
  BY <1>1, <1>2, <1>3, <1>4, <1>5

(* The locals of terminateThreads, written anew. *)
LEMMA RoundType ==
  ASSUME NEW i \in Nat, NEW f \in BOOLEAN, NEW r \in BOOLEAN
  PROVE  [idx |-> i, found |-> f, ready |-> r] \in Scans
BY DEF Scans

(* Signalling a sleepCond keeps places and statuses. *)
LEMMA SignalType ==
  ASSUME NEW t \in Threads, NEW from, NEW to, SignalThen(t, from, to),
         to \in PCs, pc \in [Threads -> PCs],
         status \in [Threads -> Statuses]
  PROVE  pc' \in [Threads -> PCs] /\ status' \in [Threads -> Statuses]
<1>1. "STOPPED" \in Statuses /\ "acq_vm" \in PCs
  BY DEF Statuses, PCs, Acquiring
<1>2. CASE pc[target[t]] = "sleep"
  BY <1>1, <1>2 DEF SignalThen
<1>3. CASE pc[target[t]] # "sleep"
  BY <1>3 DEF SignalThen, goto
<1>4. QED
  BY <1>2, <1>3

(* terminateThreads' locals, over a step of the loop. *)
LEMMA LoopType ==
  ASSUME scan \in Scans, threads \in Seq(Threads), Scanning
  PROVE  /\ StopMain \/ TerminateSkip \/ TerminateRound => scan' \in Scans
         /\ TerminateOne => scan' \in Scans /\ threads[scan.idx] \in Threads
<1>1. scan.idx \in Nat /\ scan.ready \in BOOLEAN
  BY ScanType, 1 \in Nat
<1>2. [NoScan EXCEPT !.idx = 1] \in Scans /\ NoScan \in Scans
  BY ScanType, 1 \in Nat
<1>3. ASSUME StopMain PROVE scan' \in Scans
  BY <1>2, <1>3 DEF StopMain
<1>4. ASSUME TerminateSkip PROVE scan' \in Scans
  BY <1>4, ScanType DEF TerminateSkip
<1>5. ASSUME TerminateRound PROVE scan' \in Scans
  BY <1>2, <1>5 DEF TerminateRound
<1>6. ASSUME TerminateOne
      PROVE  scan' \in Scans /\ threads[scan.idx] \in Threads
  <2>1. threads[scan.idx] \in Threads
    BY <1>1, <1>6 DEF TerminateOne, Scanning
  <2> DEFINE ready == scan.ready \/ status[threads[scan.idx]] = "READY"
  <2>2. ready \in BOOLEAN /\ Len(threads) + 1 \in Nat /\ scan.idx + 1 \in Nat
    BY <1>1
  <2>3. \/ scan' = [idx |-> scan.idx + 1, found |-> TRUE, ready |-> ready]
        \/ scan' = [idx |-> Len(threads) + 1, found |-> TRUE, ready |-> ready]
    BY <1>6 DEF TerminateOne
  <2> HIDE DEF ready
  <2>4. QED
    BY <2>1, <2>2, <2>3, RoundType
<1>7. QED
  BY <1>3, <1>4, <1>5, <1>6

(* A round ends the loop or changes nothing but the locals. *)
LEMMA RoundEffect ==
  TerminateRound => \/ numLiving' = 1 /\ goto(Main, "hooks")
                    \/ /\ UNCHANGED <<pc, numLiving>>
                       /\ scan' = [NoScan EXCEPT !.idx = 1]
<1>1. CASE ~scan.found \/ NobodyLives(scan.ready)
  BY <1>1 DEF TerminateRound
<1>2. CASE ~(~scan.found \/ NobodyLives(scan.ready))
  BY <1>2 DEF TerminateRound
<1>3. QED
  BY <1>1, <1>2

(* Every step keeps TypeOK. *)
LEMMA TypeStep == TypeOK /\ Scanning /\ [Next]_vars => TypeOK'
<1> SUFFICES ASSUME TypeOK, Scanning, [Next]_vars PROVE TypeOK'
  OBVIOUS
<1>0. /\ {"vm", "collect", "stopping", "term", "hooks"} \subseteq PCs
      /\ {"acq_vm", "acq_start", "acq_new", "acq_join", "acq_term", "acq_hooks"} \subseteq PCs
      /\ {"create", "created", "counting", "presleep", "sleep", "join"} \subseteq PCs
      /\ {"sig_vm", "sig_term", "killed", "killing", "zombie", "late"} \subseteq PCs
      /\ {"leaving", "freed", "crashed", "dead"} \subseteq PCs
      /\ {"STOPPED", "SLEEPING", "READY", "RUNNING", "ZOMBIE"} \subseteq Statuses
  BY DEF PCs, InVM, Acquiring, Statuses
<1> USE <1>0, ThreadsAssumption
    DEF TypeOK, goto, set, forget, ReleaseTo,
        Calls, lockVars, threadVars, joinVars, countVars, vmVars
<1>1. CASE UNCHANGED vars
  BY <1>1 DEF vars
<1>2. ASSUME NEW t \in Threads, Acquire(t) PROVE TypeOK'
  <2>1. CASE AcquireThrows(t) \/ AcquireKilled(t) \/ AcquireLate(t)
    <3>1. CASE AcquireThrows(t)
      BY <3>1 DEF AcquireThrows
    <3>2. CASE AcquireKilled(t)
      BY <3>2 DEF AcquireKilled
    <3>3. CASE AcquireLate(t)
      BY <3>3 DEF AcquireLate
    <3>4. QED
      BY <2>1, <3>1, <3>2, <3>3
  <2>2. CASE AcquireReturns(t)
    <3>1. ASSUME NEW from, NEW to \in PCs, AcquireAnd(t, from, to)
          PROVE  /\ pc' \in [Threads -> PCs] /\ gvl' \in Threads
                 /\ target' \in [Threads -> Threads \cup {NoThread}]
      BY <3>1 DEF AcquireAnd
    <3>2. /\ pc' \in [Threads -> PCs] /\ gvl' \in Threads
          /\ target' \in [Threads -> Threads \cup {NoThread}]
      BY <2>2, <3>1 DEF AcquireReturns
    <3>3. UNCHANGED <<interrupted, errorToThrow, everThrown, countVars, vmVars>>
      BY <2>2 DEF AcquireReturns, AcquireAnd
    <3>4. QED
      BY <2>2, <3>2, <3>3 DEF AcquireReturns
  <2>3. CASE AcquireNew(t)
    BY <2>3 DEF AcquireNew, AcquireAnd
  <2>4. CASE AcquireJoin(t)
    BY <2>4 DEF AcquireJoin, AcquireAnd
  <2>5. CASE AcquireStart(t)
    BY <2>5 DEF AcquireStart, AcquireAnd
  <2>6. QED
    BY <1>2, <2>1, <2>2, <2>3, <2>4, <2>5 DEF Acquire
<1>3. ASSUME NEW t \in Threads, Begin(t) \/ PthreadCreateFails(t) PROVE TypeOK'
  <2>1. CASE PthreadCreate(t) \/ PthreadCreateFails(t)
    <3>1. CASE PthreadCreate(t)
      BY <3>1 DEF PthreadCreate
    <3>2. CASE PthreadCreateFails(t)
      BY <3>2 DEF PthreadCreateFails
    <3>3. QED
      BY <2>1, <3>1, <3>2
  <2>2. CASE StartThread(t)
    BY <2>2 DEF StartThread, ReadLiving
  <2>3. CASE CountLiving(t)
    BY <2>3 DEF CountLiving, WriteLiving
  <2>4. QED
    BY <1>3, <2>1, <2>2, <2>3 DEF Begin
<1>4. ASSUME NEW t \in Threads, Native(t) PROVE TypeOK'
  <2>1. CASE Sleep(t) \/ Schedule(t) \/ CatchError(t)
    <3>1. CASE Sleep(t)
      BY <3>1 DEF Sleep
    <3>2. CASE Schedule(t)
      BY <3>2 DEF Schedule
    <3>3. CASE CatchError(t)
      BY <3>3 DEF CatchError
    <3>4. QED
      BY <2>1, <3>1, <3>2, <3>3
  <2>2. CASE Collect(t)
    BY <2>2 DEF Collect
  <2>3. ASSUME NEW u \in Threads, NewThread(t, u) PROVE TypeOK'
    BY <2>3 DEF NewThread
  <2>4. ASSUME NEW u \in Threads, Join(t, u) PROVE TypeOK'
    BY <2>4 DEF Join
  <2>5. ASSUME NEW u \in Threads, Detach(t, u) PROVE TypeOK'
    BY <2>5 DEF Detach
  <2>6. ASSUME NEW u \in Threads, Throw(t, u) PROVE TypeOK'
    BY <2>6 DEF Throw
  <2>7. QED
    BY <1>4, <2>1, <2>2, <2>3, <2>4, <2>5, <2>6 DEF Native
<1>5. ASSUME NEW t \in Threads, Blocked(t) PROVE TypeOK'
  <2>1. CASE FallAsleep(t) \/ WakeUp(t) \/ PthreadJoin(t)
    <3>1. CASE FallAsleep(t)
      BY <3>1 DEF FallAsleep
    <3>2. CASE WakeUp(t)
      BY <3>2 DEF WakeUp
    <3>3. CASE PthreadJoin(t)
      <4>1. \E l \in PCs : goto(t, l)
        BY <3>3 DEF PthreadJoin
      <4>2. pc' \in [Threads -> PCs]
        BY <4>1
      <4>3. QED
        BY <3>3, <4>2 DEF PthreadJoin
    <3>4. QED
      BY <2>1, <3>1, <3>2, <3>3
  <2>2. CASE SignalSleepCond(t)
    <3>2. pc' \in [Threads -> PCs] /\ status' \in [Threads -> Statuses]
      BY <2>2, SignalType DEF SignalSleepCond
    <3>3. QED
      BY <2>2, <3>2 DEF SignalSleepCond
  <2>3. QED
    BY <1>5, <2>1, <2>2 DEF Blocked
<1>6. ASSUME NEW t \in Threads, Sweep(t) PROVE TypeOK'
  <2>1. CASE Splice(t)
    <3>1. threads' \in Seq(Threads)
      BY <2>1, RemoveAtType DEF Splice
    <3>2. zombies' \subseteq Nat \ {0}
      BY <2>1 DEF Splice
    <3>3. QED
      BY <2>1, <3>1, <3>2 DEF Splice
  <2>2. CASE SpliceWild(t)
    BY <2>2 DEF SpliceWild
  <2>3. CASE Collected(t)
    BY <2>3 DEF Collected
  <2>4. QED
    BY <1>6, <2>1, <2>2, <2>3 DEF Sweep
<1>7. ASSUME NEW t \in Threads, End(t) PROVE TypeOK'
  <2>1. CASE CheckInts(t) \/ Zombie(t)
    <3>1. CASE CheckInts(t)
      BY <3>1 DEF CheckInts
    <3>2. CASE Zombie(t)
      BY <3>2 DEF Zombie
    <3>3. QED
      BY <2>1, <3>1, <3>2
  <2>2. CASE Uncount(t)
    <3>1. ASSUME NEW from, NEW to \in PCs, ReadLiving(t, from, to)
          PROVE  pc' \in [Threads -> PCs] /\ reg' \in [Threads -> Int]
      BY <3>1 DEF ReadLiving
    <3>2. pc' \in [Threads -> PCs] /\ reg' \in [Threads -> Int]
      BY <2>2, <3>1 DEF Uncount
    <3>3. QED
      BY <2>2, <3>2 DEF Uncount
  <2>3. CASE Uncounted(t)
    <3>1. pc' \in [Threads -> PCs]
      BY <2>3 DEF Uncounted
    <3>2. numLiving' \in Int /\ reg' \in [Threads -> Int]
      BY <2>3 DEF Uncounted, WriteLiving
    <3>3. QED
      BY <2>3, <3>1, <3>2 DEF Uncounted
  <2>4. CASE Stop(t)
    BY <2>4 DEF Stop, ReadLiving
  <2>5. CASE Stopped(t)
    BY <2>5 DEF Stopped, WriteLiving
  <2>6. QED
    BY <1>7, <2>1, <2>2, <2>3, <2>4, <2>5 DEF End
<1>8. CASE StopMain \/ MainExit \/ HookBlocks
  <2>1. CASE StopMain \/ TerminateSkip
    <3>1. scan' \in Scans
      BY <2>1, LoopType
    <3>2. QED
      <4>1. CASE StopMain
        BY <3>1, <4>1 DEF StopMain
      <4>2. CASE TerminateSkip
        BY <3>1, <4>2 DEF TerminateSkip
      <4>3. QED
        BY <2>1, <4>1, <4>2
  <2>2. CASE TerminateRound
    <3>1. scan' \in Scans
      BY <2>2, LoopType
    <3>2. pc' \in [Threads -> PCs] /\ numLiving' \in Int
      <4>1. CASE numLiving' = 1 /\ goto(Main, "hooks")
        BY <4>1
      <4>2. CASE UNCHANGED <<pc, numLiving>>
        BY <4>2
      <4>3. QED
        BY <2>2, <4>1, <4>2, RoundEffect
    <3>3. QED
      BY <2>2, <3>1, <3>2 DEF TerminateRound
  <2>4. CASE TerminateOne
    <3>1. scan' \in Scans /\ threads[scan.idx] \in Threads
      BY <2>4, LoopType
    <3>2. /\ interrupted' \in [Threads -> BOOLEAN]
          /\ target' \in [Threads -> Threads \cup {NoThread}]
          /\ gvl' \in Threads \cup {NoThread} /\ pc' \in [Threads -> PCs]
      <4>1. \/ UNCHANGED <<pc, gvl, target, interrupted>>
            \/ /\ interrupted' = set(interrupted, threads[scan.idx])
               /\ target' = [target EXCEPT ![Main] = threads[scan.idx]]
               /\ ReleaseTo(Main, "sig_term")
        BY <2>4 DEF TerminateOne
      <4>2. CASE UNCHANGED <<pc, gvl, target, interrupted>>
        BY <4>2
      <4>3. CASE ~UNCHANGED <<pc, gvl, target, interrupted>>
        <5>1. /\ interrupted' = set(interrupted, threads[scan.idx])
              /\ target' = [target EXCEPT ![Main] = threads[scan.idx]]
          BY <4>1, <4>3
        <5>2. gvl' = NoThread /\ pc' = [pc EXCEPT ![Main] = "sig_term"]
          BY <4>1, <4>3
        <5>3. QED
          BY <3>1, <5>1, <5>2
      <4>4. QED
        BY <4>2, <4>3
    <3>3. UNCHANGED <<status, hasTid, errorToThrow, everThrown, joinVars,
                      countVars, threads, exiting, zombies, collections>>
      BY <2>4 DEF TerminateOne
    <3>4. QED
      BY <3>1, <3>2, <3>3
  <2>3. CASE FreeVM \/ Exit \/ HookBlocks
    <3>1. CASE FreeVM
      BY <3>1 DEF FreeVM
    <3>2. CASE Exit
      BY <3>2 DEF Exit
    <3>3. CASE HookBlocks
      BY <3>3 DEF HookBlocks
    <3>4. QED
      BY <2>3, <3>1, <3>2, <3>3
  <2>5. QED
    BY <1>8, <2>1, <2>2, <2>3, <2>4 DEF MainExit
<1>9. QED
  BY <1>1, <1>2, <1>3, <1>4, <1>5, <1>6, <1>7, <1>8 DEF Next

(* The invariants hold at the start. *)
LEMMA FlowInit == Init => TypeOK /\ Scanning /\ Creating /\ Finished
<1> SUFFICES ASSUME Init PROVE TypeOK /\ Scanning /\ Creating /\ Finished
  OBVIOUS
<1> USE ThreadsAssumption DEF Init
<1>1. TypeOK
  <2>1. scan \in Scans
    BY DEF NoScan, Scans
  <2>2. threads \in Seq(Threads) /\ collections \in 0..MaxCollections
    OBVIOUS
  <2>3. pc \in [Threads -> PCs] /\ status \in [Threads -> Statuses]
    BY DEF PCs, InVM, Statuses
  <2>4. hasTid \in [Threads -> BOOLEAN] /\ detached \in [Threads -> BOOLEAN]
    OBVIOUS
  <2>5. /\ interrupted \in [Threads -> BOOLEAN] /\ joined \in [Threads -> BOOLEAN]
        /\ errorToThrow \in [Threads -> BOOLEAN] /\ everThrown \in [Threads -> BOOLEAN]
    OBVIOUS
  <2>6. zombies \subseteq Nat \ {0} /\ exiting \in BOOLEAN
    OBVIOUS
  <2>7. gvl \in Threads \cup {NoThread} /\ numLiving \in Int /\ numDetached \in Int
    OBVIOUS
  <2>8. target \in [Threads -> Threads \cup {NoThread}] /\ reg \in [Threads -> Int]
    OBVIOUS
  <2>9. QED
    BY <2>1, <2>2, <2>3, <2>4, <2>5, <2>6, <2>7, <2>8 DEF TypeOK
<1>2. Scanning /\ Creating /\ Finished
  BY DEF Scanning, Creating, Finished
<1>3. QED
  BY <1>1, <1>2

(* Where the others are when a step writes a status or starts a thread. *)
LEMMA FlowStep == IInv /\ [Next]_vars => Scanning' /\ Creating' /\ Finished'
<1> SUFFICES ASSUME IInv, [Next]_vars PROVE Scanning' /\ Creating' /\ Finished'
  OBVIOUS
<1>0. /\ Scanning /\ Creating /\ Finished
      /\ pc \in [Threads -> PCs] /\ status \in [Threads -> Statuses]
      /\ target \in [Threads -> Threads \cup {NoThread}]
  BY DEF IInv, TypeOK
<1> USE <1>0, ThreadsAssumption
    DEF Scanning, Creating, Finished, goto, set, forget, ReleaseTo, Calls,
        lockVars, threadVars, vmVars
<1>1. CASE UNCHANGED vars
  BY <1>1 DEF vars
<1>2. ASSUME NEW t \in Threads, Acquire(t)
      PROVE  Scanning' /\ Creating' /\ Finished'
  <2>1. CASE AcquireThrows(t)
    BY <2>1 DEF AcquireThrows, Acquiring
  <2>2. CASE AcquireKilled(t)
    BY <2>2 DEF AcquireKilled, Acquiring
  <2>3. CASE AcquireLate(t)
    BY <2>3 DEF AcquireLate
  <2>4. CASE AcquireReturns(t)
    BY <2>4 DEF AcquireReturns, AcquireAnd
  <2>5. CASE AcquireNew(t) \/ AcquireJoin(t)
    BY <2>5 DEF AcquireNew, AcquireJoin, AcquireAnd
  <2>6. CASE AcquireStart(t)
    BY <2>6 DEF AcquireStart, AcquireAnd
  <2>7. QED
    BY <1>2, <2>1, <2>2, <2>3, <2>4, <2>5, <2>6 DEF Acquire
<1>3. ASSUME NEW t \in Threads, Begin(t) \/ PthreadCreateFails(t)
      PROVE  Scanning' /\ Creating' /\ Finished'
  <2>1. CASE PthreadCreate(t)
    BY <2>1 DEF PthreadCreate
  <2>2. CASE PthreadCreateFails(t)
    BY <2>2 DEF PthreadCreateFails
  <2>3. CASE StartThread(t)
    BY <2>3 DEF StartThread, ReadLiving
  <2>4. CASE CountLiving(t)
    BY <2>4 DEF CountLiving
  <2>5. QED
    BY <1>3, <2>1, <2>2, <2>3, <2>4 DEF Begin
<1>4. ASSUME NEW t \in Threads, Native(t)
      PROVE  Scanning' /\ Creating' /\ Finished'
  <2>1. CASE Sleep(t) \/ Schedule(t) \/ CatchError(t) \/ Collect(t)
    BY <2>1 DEF Sleep, Schedule, CatchError, Collect
  <2>2. ASSUME NEW u \in Threads, NewThread(t, u)
        PROVE  Scanning' /\ Creating' /\ Finished'
    BY <2>2 DEF NewThread
  <2>3. ASSUME NEW u \in Threads, Join(t, u) \/ Detach(t, u) \/ Throw(t, u)
        PROVE  Scanning' /\ Creating' /\ Finished'
    BY <2>3 DEF Join, Detach, Throw
  <2>4. QED
    BY <1>4, <2>1, <2>2, <2>3 DEF Native
<1>5. ASSUME NEW t \in Threads, Blocked(t)
      PROVE  Scanning' /\ Creating' /\ Finished'
  <2>1. CASE FallAsleep(t) \/ WakeUp(t)
    BY <2>1 DEF FallAsleep, WakeUp
  <2>2. CASE PthreadJoin(t)
    BY <2>2 DEF PthreadJoin
  <2>3. CASE SignalSleepCond(t)
    BY <2>3 DEF SignalSleepCond, SignalThen
  <2>4. QED
    BY <1>5, <2>1, <2>2, <2>3 DEF Blocked
<1>6. ASSUME NEW t \in Threads, Sweep(t)
      PROVE  Scanning' /\ Creating' /\ Finished'
  BY <1>6 DEF Sweep, Splice, SpliceWild, Collected
<1>7. ASSUME NEW t \in Threads, End(t)
      PROVE  Scanning' /\ Creating' /\ Finished'
  <2>1. CASE CheckInts(t) \/ Zombie(t)
    BY <2>1 DEF CheckInts, Zombie
  <2>2. CASE Uncount(t)
    BY <2>2 DEF Uncount, ReadLiving
  <2>3. CASE Uncounted(t)
    BY <2>3 DEF Uncounted
  <2>4. CASE Stop(t)
    BY <2>4 DEF Stop, ReadLiving
  <2>5. CASE Stopped(t)
    BY <2>5 DEF Stopped
  <2>6. QED
    BY <1>7, <2>1, <2>2, <2>3, <2>4, <2>5 DEF End
<1>8. CASE StopMain \/ MainExit \/ HookBlocks
  <2>1. CASE StopMain
    BY <2>1 DEF StopMain, NoScan
  <2>2. CASE TerminateSkip
    <3>1. scan' = [scan EXCEPT !.idx = @ + 1] /\ pc' = pc /\ scan \in Scans
      BY <2>2 DEF TerminateSkip, IInv, TypeOK
    <3>2. scan.idx \in Nat /\ scan'.idx = scan.idx + 1
      BY <3>1 DEF Scans
    <3>3. Scanning'
      BY <3>1, <3>2
    <3>4. QED
      BY <2>2, <3>3 DEF TerminateSkip
  <2>3. CASE TerminateOne
    <3>1. pc[Main] = "term" /\ scan \in Scans /\ threads \in Seq(Threads)
      BY <2>3 DEF TerminateOne, IInv, TypeOK
    <3>2. scan.idx \in Nat /\ scan.idx >= 1 /\ Len(threads) \in Nat
      BY <3>1 DEF Scans
    <3>3. scan'.idx = scan.idx + 1 \/ scan'.idx = Len(threads) + 1
      BY <2>3 DEF TerminateOne
    <3>4. Scanning'
      BY <3>2, <3>3
    <3>5. /\ UNCHANGED status
          /\ \/ UNCHANGED <<pc, target>>
             \/ /\ goto(Main, "sig_term")
                /\ \E u : target' = [target EXCEPT ![Main] = u]
      BY <2>3 DEF TerminateOne
    <3>6. Creating' /\ Finished'
      BY <3>1, <3>5
    <3>7. QED
      BY <3>4, <3>6
  <2>4. CASE TerminateRound
    BY <2>4, RoundEffect DEF TerminateRound, NoScan
  <2>5. CASE FreeVM \/ Exit \/ HookBlocks
    BY <2>5 DEF FreeVM, Exit, HookBlocks
  <2>6. QED
    BY <1>8, <2>1, <2>2, <2>3, <2>4, <2>5 DEF MainExit
<1>9. QED
  BY <1>1, <1>2, <1>3, <1>4, <1>5, <1>6, <1>7, <1>8 DEF Next

(* The inductive invariant holds in every reachable state. *)
THEOREM Invariance == Spec => []IInv
<1>1. Init => IInv
  BY FlowInit DEF IInv
<1>2. IInv /\ [Next]_vars => IInv'
  BY TypeStep, FlowStep DEF IInv
<1>3. QED
  BY <1>1, <1>2, PTL DEF Spec

(* The variables of Threads keep their types: an entry of vm.threads that  *)
(* terminateThreads reads is a thread, whatever a collection has removed.  *)
THEOREM TypeCorrect == Spec => []TypeOK
BY Invariance, PTL DEF IInv

(* acquireGVL's assertion: a thread that has finished never has the VM.    *)
THEOREM FinishedStaysOut == Spec => []ZombieStaysOut
<1>1. IInv => ZombieStaysOut
  BY DEF IInv, Finished, ZombieStaysOut, InVM
<1>2. QED
  BY <1>1, Invariance, PTL

(* The exit interrupt is final: acquireGVL lets an interrupted thread in   *)
(* only by the longjmp of an error another thread left for it.             *)
THEOREM InterruptsEndThreads == Spec => InterruptIsFinal
<1>1. ASSUME TypeOK, [Next]_vars, NEW t \in Threads,
             interrupted[t], pc[t] \notin InVM, pc'[t] \in InVM
      PROVE  errorToThrow[t]
  <2> USE <1>1 DEF TypeOK, goto, ReleaseTo, Calls, InVM
  <2>1. CASE UNCHANGED vars
    BY <2>1 DEF vars
  <2>2. ASSUME NEW u \in Threads, Acquire(u), ~errorToThrow[t] PROVE FALSE
    BY <2>2 DEF Acquire, AcquireThrows, AcquireKilled, AcquireReturns,
                AcquireNew, AcquireJoin, AcquireStart, AcquireLate, AcquireAnd
  <2>3. ASSUME NEW u \in Threads, Begin(u) \/ PthreadCreateFails(u) PROVE FALSE
    <3>1. CASE PthreadCreate(u)
      BY <2>3, <3>1 DEF PthreadCreate
    <3>2. CASE PthreadCreateFails(u) \/ StartThread(u) \/ CountLiving(u)
      BY <2>3, <3>2 DEF PthreadCreateFails, StartThread, CountLiving, ReadLiving
    <3>3. QED
      BY <2>3, <3>1, <3>2 DEF Begin
  <2>4. ASSUME NEW u \in Threads, Native(u) PROVE FALSE
    BY <2>4 DEF Native, Sleep, Schedule, CatchError, Collect, NewThread, Join,
                Detach, Throw
  <2>5. ASSUME NEW u \in Threads, Blocked(u) PROVE FALSE
    BY <2>5 DEF Blocked, FallAsleep, WakeUp, PthreadJoin, SignalSleepCond,
                SignalThen
  <2>6. ASSUME NEW u \in Threads, Sweep(u) PROVE FALSE
    BY <2>6 DEF Sweep, Splice, SpliceWild, Collected
  <2>7. ASSUME NEW u \in Threads, End(u) PROVE FALSE
    BY <2>7 DEF End, CheckInts, Uncount, Uncounted, Zombie, Stop, Stopped,
                ReadLiving
  <2>8. CASE StopMain \/ MainExit \/ HookBlocks
    BY <2>8, ThreadsAssumption
       DEF StopMain, MainExit, TerminateSkip, TerminateOne, TerminateRound,
           FreeVM, Exit, HookBlocks
  <2>9. QED
    BY <2>1, <2>2, <2>3, <2>4, <2>5, <2>6, <2>7, <2>8 DEF Next
<1>2. TypeOK /\ [Next]_vars =>
        [\A t \in Threads :
           interrupted[t] /\ pc[t] \notin InVM /\ pc'[t] \in InVM
             => errorToThrow[t]]_vars
  BY <1>1
<1>3. QED
  BY <1>2, TypeCorrect, PTL DEF Spec, InterruptIsFinal

------------------------------------------------------------------------------
(* The detached threads that may still use the lock. *)
Users == {t \in Threads : detached[t] /\ status[t] # "ZOMBIE"}

(* Only Detach adds one, only stopVM subtracts one, and the other threads  *)
(* that end leave the count too high. *)
LEMMA UsersStep ==
  ASSUME IInv, [Next]_vars
  PROVE  \/ Users' \subseteq Users /\ numDetached' = numDetached
         \/ \E t \in Threads \ Users :
              Users' = Users \cup {t} /\ numDetached' = numDetached + 1
         \/ \E t \in Users :
              Users' = Users \ {t} /\ numDetached' \in {numDetached, numDetached - 1}
              /\ (numDetached' = numDetached => numDetached <= 0)
<1> DEFINE Goal ==
      \/ Users' \subseteq Users /\ numDetached' = numDetached
      \/ \E t \in Threads \ Users :
           Users' = Users \cup {t} /\ numDetached' = numDetached + 1
      \/ \E t \in Users :
           Users' = Users \ {t} /\ numDetached' \in {numDetached, numDetached - 1}
           /\ (numDetached' = numDetached => numDetached <= 0)
<1>0. /\ Finished
      /\ pc \in [Threads -> PCs] /\ status \in [Threads -> Statuses]
      /\ detached \in [Threads -> BOOLEAN] /\ numDetached \in Int
  BY DEF IInv, TypeOK
<1> USE <1>0, ThreadsAssumption
    DEF Finished, Users, goto, set, ReleaseTo, Calls, joinVars, threadVars,
        vmVars, lockVars
<1>1. CASE UNCHANGED vars
  BY <1>1 DEF vars
<1>2. ASSUME NEW t \in Threads, Acquire(t) PROVE Goal
  <2>1. CASE AcquireStart(t)
    BY <2>1 DEF AcquireStart, AcquireAnd
  <2>2. CASE AcquireJoin(t)
    BY <2>2 DEF AcquireJoin
  <2>3. CASE ~AcquireStart(t) /\ ~AcquireJoin(t)
    BY <1>2, <2>3 DEF Acquire, AcquireThrows, AcquireKilled, AcquireReturns,
                      AcquireNew, AcquireLate
  <2>4. QED
    BY <2>1, <2>2, <2>3
<1>3. ASSUME NEW t \in Threads, Begin(t) \/ PthreadCreateFails(t) PROVE Goal
  BY <1>3 DEF Begin, PthreadCreate, PthreadCreateFails, StartThread, CountLiving
<1>4. ASSUME NEW t \in Threads, Native(t) PROVE Goal
  <2>1. CASE Sleep(t) \/ Schedule(t) \/ CatchError(t) \/ Collect(t)
    BY <2>1 DEF Sleep, Schedule, CatchError, Collect
  <2>2. ASSUME NEW u \in Threads, NewThread(t, u) PROVE Goal
    BY <2>2 DEF NewThread
  <2>3. ASSUME NEW u \in Threads, Join(t, u) \/ Throw(t, u) PROVE Goal
    BY <2>3 DEF Join, Throw
  <2>4. ASSUME NEW u \in Threads, Detach(t, u) PROVE Goal
    <3>1. u \in Threads \ Users
      BY <2>4 DEF Detach
    <3>2. Users' = Users \cup {u} /\ numDetached' = numDetached + 1
      BY <2>4 DEF Detach
    <3>3. QED
      BY <3>1, <3>2
  <2>5. QED
    BY <1>4, <2>1, <2>2, <2>3, <2>4 DEF Native
<1>5. ASSUME NEW t \in Threads, Blocked(t) PROVE Goal
  <2>1. CASE FallAsleep(t) \/ WakeUp(t) \/ PthreadJoin(t)
    BY <2>1 DEF FallAsleep, WakeUp, PthreadJoin
  <2>2. CASE SignalSleepCond(t)
    BY <2>2 DEF SignalSleepCond, SignalThen
  <2>3. QED
    BY <1>5, <2>1, <2>2 DEF Blocked
<1>6. ASSUME NEW t \in Threads, Sweep(t) PROVE Goal
  BY <1>6 DEF Sweep, Splice, SpliceWild, Collected
<1>7. ASSUME NEW t \in Threads, End(t) PROVE Goal
  <2>1. CASE CheckInts(t) \/ Uncount(t) \/ Uncounted(t) \/ Zombie(t) \/ Stopped(t)
    BY <2>1 DEF CheckInts, Uncount, Uncounted, Zombie, Stopped
  <2>2. CASE Stop(t)
    <3>1. pc[t] = "vm" /\ status[t] # "ZOMBIE"
      BY <2>2 DEF Stop, ReadLiving
    <3>2. CASE detached[t]
      <4>1. t \in Users /\ Users' = Users \ {t}
        BY <2>2, <3>1, <3>2 DEF Stop
      <4>2. /\ numDetached' \in {numDetached, numDetached - 1}
            /\ numDetached' = numDetached => numDetached <= 0
        BY <2>2, <3>2 DEF Stop
      <4>3. QED
        BY <4>1, <4>2
    <3>3. CASE ~detached[t]
      BY <2>2, <3>3 DEF Stop
    <3>4. QED
      BY <3>2, <3>3
  <2>3. QED
    BY <1>7, <2>1, <2>2 DEF End
<1>8. CASE StopMain \/ MainExit \/ HookBlocks
  BY <1>8 DEF StopMain, MainExit, TerminateSkip, TerminateOne, TerminateRound,
              FreeVM, Exit, HookBlocks
<1>9. QED
  BY <1>1, <1>2, <1>3, <1>4, <1>5, <1>6, <1>7, <1>8 DEF Next

(* freeVM destroys the lock only if numDetachedThreads <= 0: no detached   *)
(* thread that could still take it is missing from the count.              *)
THEOREM DetachedAreCounted == Spec => []DetachedNotUndercounted
<1>1. DetachedNotUndercounted <=> Cardinality(Users) <= numDetached
  BY DEF DetachedNotUndercounted, Users
<1>2. Init => DetachedNotUndercounted
  <2> SUFFICES ASSUME Init PROVE DetachedNotUndercounted
    OBVIOUS
  <2>1. Users = {}
    BY DEF Init, Users
  <2>2. QED
    BY <1>1, <2>1, FS_EmptySet DEF Init
<1>3. IInv /\ DetachedNotUndercounted /\ [Next]_vars => DetachedNotUndercounted'
  <2> SUFFICES ASSUME IInv, DetachedNotUndercounted, [Next]_vars
               PROVE  Cardinality(Users') <= numDetached'
    BY DEF DetachedNotUndercounted, Users
  <2>1. IsFiniteSet(Users) /\ numDetached \in Int
    BY ThreadsAssumption, FS_Subset DEF Users, IInv, TypeOK
  <2>2. Cardinality(Users) \in Nat /\ Cardinality(Users) <= numDetached
    BY <1>1, <2>1, FS_CardinalityType
  <2>3. CASE Users' \subseteq Users /\ numDetached' = numDetached
    <3>1. Cardinality(Users') \in Nat /\ Cardinality(Users') <= Cardinality(Users)
      BY <2>1, <2>3, FS_Subset, FS_CardinalityType
    <3>2. QED
      BY <2>1, <2>2, <2>3, <3>1
  <2>4. ASSUME NEW t \in Threads \ Users, Users' = Users \cup {t},
               numDetached' = numDetached + 1
        PROVE  Cardinality(Users') <= numDetached'
    BY <2>1, <2>2, <2>4, FS_AddElement
  <2>5. ASSUME NEW t \in Users, Users' = Users \ {t},
               numDetached' \in {numDetached, numDetached - 1},
               numDetached' = numDetached => numDetached <= 0
        PROVE  Cardinality(Users') <= numDetached'
    <3>1. Cardinality(Users') = Cardinality(Users) - 1
      BY <2>1, <2>5, FS_RemoveElement
    <3>2. QED
      BY <2>1, <2>2, <2>5, <3>1
  <2>6. QED
    BY <2>3, <2>4, <2>5, UsersStep
<1>4. QED
  BY <1>2, <1>3, Invariance, PTL DEF Spec

------------------------------------------------------------------------------
(* FreeVMAlone, for a program with one other thread: while the main thread *)
(* brings it down, it is the only one that can touch the counter of living *)
(* threads, so no update is lost.                                          *)

(* One thread is in the VM, whatever their number, and the exit interrupt  *)
(* is never meant for the main thread.                                     *)
Inside ==
  /\ \A t \in Threads : pc[t] \in InVM => gvl = t
  /\ ~interrupted[Main]
  /\ pc[Main] \notin {"unborn", "created", "counting", "acq_start", "stopping",
                      "killed", "killing", "zombie", "late", "leaving"}

(* Every step keeps Inside. *)
LEMMA InsideStep == IInv /\ Inside /\ [Next]_vars => Inside'
<1> SUFFICES ASSUME IInv, Inside, [Next]_vars PROVE Inside'
  OBVIOUS
<1>0. /\ Creating /\ Inside
      /\ pc \in [Threads -> PCs] /\ target \in [Threads -> Threads \cup {NoThread}]
      /\ interrupted \in [Threads -> BOOLEAN]
  BY DEF IInv, TypeOK
<1> USE <1>0, ThreadsAssumption
    DEF Inside, InVM, goto, set, forget, ReleaseTo, Calls,
        lockVars, threadVars, vmVars
<1>1. CASE UNCHANGED vars
  BY <1>1 DEF vars
<1>2. ASSUME NEW t \in Threads, Acquire(t) PROVE Inside'
  <2>1. CASE AcquireThrows(t)
    BY <2>1 DEF AcquireThrows, Acquiring
  <2>2. CASE AcquireKilled(t)
    BY <2>2 DEF AcquireKilled, Acquiring
  <2>3. CASE AcquireLate(t)
    BY <2>3 DEF AcquireLate
  <2>4. CASE AcquireReturns(t)
    BY <2>4 DEF AcquireReturns, AcquireAnd
  <2>5. CASE AcquireNew(t) \/ AcquireJoin(t)
    BY <2>5 DEF AcquireNew, AcquireJoin, AcquireAnd
  <2>6. CASE AcquireStart(t)
    BY <2>6 DEF AcquireStart, AcquireAnd
  <2>7. QED
    BY <1>2, <2>1, <2>2, <2>3, <2>4, <2>5, <2>6 DEF Acquire
<1>3. ASSUME NEW t \in Threads, Begin(t) \/ PthreadCreateFails(t) PROVE Inside'
  <2>1. CASE PthreadCreate(t)
    BY <2>1 DEF PthreadCreate, Creating
  <2>2. CASE PthreadCreateFails(t)
    BY <2>2 DEF PthreadCreateFails
  <2>3. CASE StartThread(t)
    BY <2>3 DEF StartThread, ReadLiving
  <2>4. CASE CountLiving(t)
    BY <2>4 DEF CountLiving
  <2>5. QED
    BY <1>3, <2>1, <2>2, <2>3, <2>4 DEF Begin
<1>4. ASSUME NEW t \in Threads, Native(t) PROVE Inside'
  BY <1>4 DEF Native, Sleep, Schedule, CatchError, Collect, NewThread, Join, Detach, Throw
<1>5. ASSUME NEW t \in Threads, Blocked(t) PROVE Inside'
  <2>1. CASE FallAsleep(t) \/ WakeUp(t)
    BY <2>1 DEF FallAsleep, WakeUp
  <2>2. CASE PthreadJoin(t)
    BY <2>2 DEF PthreadJoin
  <2>3. CASE SignalSleepCond(t)
    BY <2>3 DEF SignalSleepCond, SignalThen
  <2>4. QED
    BY <1>5, <2>1, <2>2, <2>3 DEF Blocked
<1>6. ASSUME NEW t \in Threads, Sweep(t) PROVE Inside'
  BY <1>6 DEF Sweep, Splice, SpliceWild, Collected
<1>7. ASSUME NEW t \in Threads, End(t) PROVE Inside'
  <2>1. CASE CheckInts(t) \/ Zombie(t)
    BY <2>1 DEF CheckInts, Zombie
  <2>2. CASE Uncount(t)
    BY <2>2 DEF Uncount, ReadLiving
  <2>3. CASE Uncounted(t)
    BY <2>3 DEF Uncounted
  <2>4. CASE Stop(t)
    BY <2>4 DEF Stop, ReadLiving
  <2>5. CASE Stopped(t)
    BY <2>5 DEF Stopped
  <2>6. QED
    BY <1>7, <2>1, <2>2, <2>3, <2>4, <2>5 DEF End
<1>8. CASE StopMain \/ MainExit \/ HookBlocks
  <2>1. CASE StopMain \/ TerminateSkip
    BY <2>1 DEF StopMain, TerminateSkip
  <2>2. CASE TerminateOne
    <3>1. pc[Main] = "term" /\ threads[scan.idx] # Main
      BY <2>2 DEF TerminateOne, Unfinished
    <3>2. \/ UNCHANGED <<pc, gvl, interrupted>>
          \/ /\ goto(Main, "sig_term") /\ gvl' = NoThread
             /\ interrupted' = set(interrupted, threads[scan.idx])
      BY <2>2 DEF TerminateOne
    <3>3. QED
      BY <3>1, <3>2
  <2>3. CASE TerminateRound
    BY <2>3, RoundEffect DEF TerminateRound
  <2>4. CASE FreeVM \/ Exit \/ HookBlocks
    BY <2>4 DEF FreeVM, Exit, HookBlocks
  <2>5. QED
    BY <1>8, <2>1, <2>2, <2>3, <2>4 DEF MainExit
<1>9. QED
  BY <1>1, <1>2, <1>3, <1>4, <1>5, <1>6, <1>7, <1>8 DEF Next

Alive == pc[Main] \notin {"crashed", "dead"}

(* Where vm.numLivingThreads does not count the other thread, and where    *)
(* that thread is about to write what it read of it.                       *)
NotCounted == {"unborn", "created", "counting", "zombie", "dead"}
Counted(u) ==
  /\ numLiving = IF pc[u] \in NotCounted THEN 1 ELSE 2
  /\ pc[u] \in {"counting", "killing", "leaving", "stopping"} => reg[u] = numLiving

(* The other thread is on vm.threads unless it was never made, or was      *)
(* taken off by a collection; nobody else is ever noted to be taken off.   *)
New(u) == pc[u] = "unborn" /\ status[u] = "STOPPED"
Listed(u) ==
  /\ \/ threads = <<Main>> /\ (New(u) \/ status[u] = "ZOMBIE")
     \/ threads = <<Main, u>> /\ ~New(u)
  /\ zombies # {} => /\ zombies = {2} /\ threads = <<Main, u>>
                     /\ pc[Main] = "collect" /\ status[u] = "ZOMBIE"

(* The other thread does none of what is the main thread's, and until it   *)
(* has the VM its status and its tid are its creator's business.           *)
MainOnly == {"create", "acq_new", "term", "sig_term", "acq_term", "hooks",
             "acq_hooks", "freed", "crashed"}
Born(u) ==
  /\ pc[u] \notin MainOnly
  /\ pc[u] = "unborn" => ~hasTid[u] /\ pc[Main] # "acq_new"
  /\ pc[u] \in {"created", "counting"} => status[u] = "READY"
  /\ hasTid[u] \/ pc[u] = "unborn" \/ (pc[u] = "created" /\ pc[Main] = "acq_new")
  /\ pc[Main] \in {"create", "acq_new"} => target[Main] = u
  /\ pc[u] \in {"unborn", "created", "counting", "acq_start"} => ~errorToThrow[Main]

(* What terminateThreads has learnt once it has passed the other thread.   *)
Gone(u) == pc[u] \in {"unborn", "zombie", "dead"}
Met(u) ==
  /\ pc[Main] \in {"term", "sig_term", "acq_term"} /\ scan.idx > 2 =>
       /\ ~scan.found => Gone(u)
       /\ scan.found /\ ~scan.ready => pc[u] \notin {"created", "counting"}
  /\ pc[Main] \in {"hooks", "acq_hooks", "freed"} => Gone(u)

OtherKept(u) == Alive => Counted(u) /\ Listed(u) /\ Born(u) /\ Met(u)

(* The invariants, for the two threads by name. *)
Pair(u) ==
  /\ IInv /\ Inside
  /\ Alive /\ Counted(u) /\ Listed(u) /\ Born(u) /\ Met(u)

(* Nobody comes back from the end of the process. *)
LEMMA StaysAlive == IInv /\ Inside /\ [Next]_vars /\ Alive' => Alive
<1> SUFFICES ASSUME IInv, Inside, [Next]_vars, ~Alive PROVE ~Alive'
  OBVIOUS
<1>0. /\ Creating /\ pc[Main] \in {"crashed", "dead"} /\ pc \in [Threads -> PCs]
  BY DEF IInv, TypeOK, Alive
<1>1. ASSUME NEW t \in Threads, NEW l, goto(t, l), t # Main \/ l \in {"crashed", "dead"}
      PROVE  ~Alive'
  BY <1>0, <1>1, ThreadsAssumption DEF goto, Alive
<1>2. CASE UNCHANGED pc
  BY <1>0, <1>2 DEF Alive
<1> USE <1>0, ThreadsAssumption DEF ReleaseTo, Calls
<1>3. CASE UNCHANGED vars
  BY <1>2, <1>3 DEF vars
<1>4. ASSUME NEW t \in Threads, Acquire(t) PROVE ~Alive'
  <2>1. t # Main
    BY <1>4 DEF Acquire, AcquireThrows, AcquireKilled, AcquireReturns, AcquireNew,
       AcquireJoin, AcquireStart, AcquireLate, AcquireAnd, Acquiring
  <2>2. \E l : goto(t, l)
    BY <1>4 DEF Acquire, AcquireThrows, AcquireKilled, AcquireReturns, AcquireNew,
       AcquireJoin, AcquireStart, AcquireLate, AcquireAnd
  <2>3. QED
    BY <1>1, <2>1, <2>2
<1>5. ASSUME NEW t \in Threads, Begin(t) \/ PthreadCreateFails(t) PROVE ~Alive'
  <2>1. t # Main
    BY <1>5 DEF Begin, PthreadCreate, PthreadCreateFails, StartThread, CountLiving, ReadLiving
  <2>2. CASE PthreadCreate(t)
    BY <2>1, <2>2 DEF PthreadCreate, Creating, Alive
  <2>3. CASE ~PthreadCreate(t)
    BY <1>1, <1>5, <2>1, <2>3 DEF Begin, PthreadCreateFails, StartThread, CountLiving, ReadLiving
  <2>4. QED
    BY <2>2, <2>3
<1>6. ASSUME NEW t \in Threads, Native(t) PROVE ~Alive'
  <2>1. pc[t] = "vm"
    BY <1>6 DEF Native, Sleep, Schedule, CatchError, Collect, NewThread, Join, Detach, Throw
  <2>2. UNCHANGED pc \/ \E l : goto(t, l)
    BY <1>6 DEF Native, Sleep, Schedule, CatchError, Collect, NewThread, Join, Detach, Throw
  <2>3. QED
    BY <1>1, <1>2, <2>1, <2>2
<1>7. ASSUME NEW t \in Threads, Blocked(t) PROVE ~Alive'
  <2>1. t # Main
    BY <1>7 DEF Blocked, FallAsleep, WakeUp, PthreadJoin, SignalSleepCond, SignalThen
  <2>2. CASE SignalSleepCond(t)
    BY <2>1, <2>2 DEF SignalSleepCond, SignalThen, goto, Alive
  <2>3. CASE ~SignalSleepCond(t)
    BY <1>1, <1>7, <2>1, <2>3 DEF Blocked, FallAsleep, WakeUp, PthreadJoin
  <2>4. QED
    BY <2>2, <2>3
<1>8. ASSUME NEW t \in Threads, Sweep(t) PROVE ~Alive'
  BY <1>1, <1>2, <1>8 DEF Sweep, Splice, SpliceWild, Collected, Alive
<1>9. ASSUME NEW t \in Threads, End(t) PROVE ~Alive'
  <2>1. t # Main
    BY <1>9 DEF End, CheckInts, Uncount, Uncounted, Zombie, Stop, Stopped, ReadLiving
  <2>2. \E l : goto(t, l)
    BY <1>9 DEF End, CheckInts, Uncount, Uncounted, Zombie, Stop, Stopped, ReadLiving
  <2>3. QED
    BY <1>1, <2>1, <2>2
<1>10. CASE StopMain \/ MainExit \/ HookBlocks
  BY <1>10 DEF StopMain, MainExit, TerminateSkip, TerminateOne, TerminateRound,
              FreeVM, Exit, HookBlocks, Alive
<1>11. QED
  BY <1>3, <1>4, <1>5, <1>6, <1>7, <1>8, <1>9, <1>10 DEF Next

(* Every step keeps Born. *)
LEMMA BornStep ==
  ASSUME NEW u \in Threads, u # Main, Threads = {Main, u},
         Pair(u), Alive', [Next]_vars
  PROVE  Born(u)'
<1>0. /\ IInv /\ Inside /\ Alive /\ Counted(u) /\ Listed(u) /\ Born(u) /\ Met(u)
      /\ pc \in [Threads -> PCs] /\ status \in [Threads -> Statuses]
      /\ target \in [Threads -> Threads \cup {NoThread}]
      /\ hasTid \in [Threads -> BOOLEAN] /\ errorToThrow \in [Threads -> BOOLEAN]
      /\ numLiving \in Int /\ reg \in [Threads -> Int] /\ NoThread \notin Threads
  BY ThreadsAssumption DEF Pair, IInv, TypeOK
<1> USE <1>0 DEF Born, goto, set, forget, ReleaseTo, Calls,
        lockVars, threadVars, joinVars, countVars, vmVars, MainOnly
<1>1. CASE UNCHANGED vars
  BY <1>1 DEF vars
<1>2. ASSUME NEW t \in Threads, Acquire(t)
      PROVE  Born(u)'
  <2>1. CASE AcquireThrows(t)
    BY <2>1 DEF AcquireThrows, Acquiring
  <2>2. CASE AcquireKilled(t)
    BY <2>2 DEF AcquireKilled, Acquiring, Acquiring, Inside
  <2>3. CASE AcquireLate(t)
    BY <2>3 DEF AcquireLate
  <2>4. CASE AcquireReturns(t)
    BY <2>4 DEF AcquireReturns, AcquireAnd
  <2>5. CASE AcquireNew(t)
    BY <2>5 DEF AcquireNew, AcquireAnd
  <2>6. CASE AcquireJoin(t)
    BY <2>6 DEF AcquireJoin, AcquireAnd
  <2>7. CASE AcquireStart(t)
    BY <2>7 DEF AcquireStart, AcquireAnd
  <2>8. QED
    BY <1>2, <2>1, <2>2, <2>3, <2>4, <2>5, <2>6, <2>7 DEF Acquire
<1>3. ASSUME NEW t \in Threads, Begin(t) \/ PthreadCreateFails(t)
      PROVE  Born(u)'
  <2>1. CASE PthreadCreate(t)
    BY <2>1 DEF PthreadCreate, IInv, Creating
  <2>2. CASE PthreadCreateFails(t)
    BY <2>2 DEF PthreadCreateFails
  <2>3. CASE StartThread(t)
    BY <2>3 DEF StartThread, ReadLiving
  <2>4. CASE CountLiving(t)
    BY <2>4 DEF CountLiving, WriteLiving
  <2>5. QED
    BY <1>3, <2>1, <2>2, <2>3, <2>4 DEF Begin
<1>4. ASSUME NEW t \in Threads, Native(t)
      PROVE  Born(u)'
  <2>1. CASE Sleep(t) \/ Schedule(t) \/ CatchError(t)
    BY <2>1 DEF Sleep, Schedule, CatchError
  <2>2. CASE Collect(t)
    BY <2>2 DEF Collect
  <2>3. CASE \E v \in Threads : NewThread(t, v)
    BY <2>3 DEF NewThread, Inside
  <2>4. CASE \E v \in Threads : Join(t, v) \/ Detach(t, v) \/ Throw(t, v)
    BY <2>4 DEF Join, Detach, Throw
  <2>5. QED
    BY <1>4, <2>1, <2>2, <2>3, <2>4 DEF Native
<1>5. ASSUME NEW t \in Threads, Blocked(t)
      PROVE  Born(u)'
  <2>1. CASE FallAsleep(t) \/ WakeUp(t)
    BY <2>1 DEF FallAsleep, WakeUp
  <2>2. CASE PthreadJoin(t)
    BY <2>2 DEF PthreadJoin
  <2>3. CASE SignalSleepCond(t)
    BY <2>3 DEF SignalSleepCond, SignalThen
  <2>4. QED
    BY <1>5, <2>1, <2>2, <2>3 DEF Blocked
<1>6. ASSUME NEW t \in Threads, Sweep(t)
      PROVE  Born(u)'
  <2>1. CASE Splice(t)
    BY <2>1 DEF Splice
  <2>2. CASE SpliceWild(t)
    BY <2>2 DEF SpliceWild, Alive
  <2>3. CASE Collected(t)
    BY <2>3 DEF Collected
  <2>4. QED
    BY <1>6, <2>1, <2>2, <2>3 DEF Sweep
<1>7. ASSUME NEW t \in Threads, End(t)
      PROVE  Born(u)'
  <2>1. CASE CheckInts(t) \/ Zombie(t)
    BY <2>1 DEF CheckInts, Zombie
  <2>2. CASE Uncount(t)
    BY <2>2 DEF Uncount, ReadLiving
  <2>3. CASE Uncounted(t)
    BY <2>3 DEF Uncounted, WriteLiving
  <2>4. CASE Stop(t)
    BY <2>4 DEF Stop, ReadLiving
  <2>5. CASE Stopped(t)
    BY <2>5 DEF Stopped, WriteLiving
  <2>6. QED
    BY <1>7, <2>1, <2>2, <2>3, <2>4, <2>5 DEF End
<1>8. CASE StopMain \/ MainExit \/ HookBlocks
  <2>1. CASE StopMain
    BY <2>1 DEF StopMain
  <2>2. CASE TerminateSkip
    BY <2>2 DEF TerminateSkip
  <2>3. CASE TerminateOne
    BY <2>3 DEF TerminateOne
  <2>4. CASE TerminateRound
    BY <2>4 DEF TerminateRound
  <2>5. CASE FreeVM \/ HookBlocks
    BY <2>5 DEF FreeVM, HookBlocks
  <2>6. CASE Exit
    BY <2>6 DEF Exit, Alive
  <2>7. QED
    BY <1>8, <2>1, <2>2, <2>3, <2>4, <2>5, <2>6 DEF MainExit
<1>9. QED
  BY <1>1, <1>2, <1>3, <1>4, <1>5, <1>6, <1>7, <1>8 DEF Next

(* A round of terminateThreads that ends the loop has met the other thread, *)
(* if there was one, and knows that it is gone.                             *)
LEMMA RoundFinds ==
  ASSUME NEW u \in Threads, u # Main, Pair(u), TerminateRound
  PROVE  \/ UNCHANGED <<pc, numLiving>>
         \/ pc[u] \in {"unborn", "zombie", "dead"} /\ numLiving = 1
<1>0. /\ IInv /\ Inside /\ Counted(u) /\ Listed(u) /\ Born(u) /\ Met(u)
      /\ scan \in Scans /\ pc[Main] = "term" /\ scan.idx > Len(threads)
  BY DEF Pair, IInv, TypeOK, TerminateRound
<1>1. ~scan.found \/ NobodyLives(scan.ready) \/ UNCHANGED <<pc, numLiving>>
  BY DEF TerminateRound
<1>2. CASE threads = <<Main>>
  <2>1. pc[u] # "stopping" /\ pc[u] \notin {"freed", "crashed"}
    BY <1>0, ThreadsAssumption DEF Inside, InVM, Born, MainOnly
  <2>2. pc[u] \in {"unborn", "dead"}
    BY <1>0, <1>2, <2>1 DEF Listed, New, IInv, Finished
  <2>3. QED
    BY <1>0, <2>2 DEF Counted, NotCounted
<1>3. CASE threads = <<Main, u>>
  <2>1. Len(threads) = 2 /\ scan.idx \in Nat /\ scan.found \in BOOLEAN
    BY <1>0, <1>3 DEF Scans
  <2>2. CASE ~scan.found
    BY <1>0, <2>1, <2>2 DEF Met, Gone, Counted, NotCounted
  <2>3. CASE scan.found /\ numLiving <= 1 /\ ~scan.ready
    BY <1>0, <2>1, <2>3 DEF Met, Counted, NotCounted
  <2>4. QED
    BY <1>1, <2>1, <2>2, <2>3 DEF NobodyLives
<1>4. QED
  BY <1>0, <1>2, <1>3 DEF Listed

(* Every step keeps Counted. *)
LEMMA CountedStep ==
  ASSUME NEW u \in Threads, u # Main, Threads = {Main, u},
         Pair(u), Alive', [Next]_vars
  PROVE  Counted(u)'
<1>0. /\ IInv /\ Inside /\ Alive /\ Counted(u) /\ Listed(u) /\ Born(u) /\ Met(u)
      /\ pc \in [Threads -> PCs] /\ status \in [Threads -> Statuses]
      /\ target \in [Threads -> Threads \cup {NoThread}]
      /\ hasTid \in [Threads -> BOOLEAN] /\ errorToThrow \in [Threads -> BOOLEAN]
      /\ numLiving \in Int /\ reg \in [Threads -> Int] /\ NoThread \notin Threads
  BY ThreadsAssumption DEF Pair, IInv, TypeOK
<1> USE <1>0 DEF Counted, goto, set, forget, ReleaseTo, Calls,
        lockVars, threadVars, joinVars, countVars, vmVars, NotCounted
<1>1. CASE UNCHANGED vars
  BY <1>1 DEF vars
<1>2. ASSUME NEW t \in Threads, Acquire(t)
      PROVE  Counted(u)'
  <2>1. CASE AcquireThrows(t)
    BY <2>1 DEF AcquireThrows, Acquiring, Acquiring
  <2>2. CASE AcquireKilled(t)
    BY <2>2 DEF AcquireKilled, Acquiring, Acquiring
  <2>3. CASE AcquireLate(t)
    BY <2>3 DEF AcquireLate
  <2>4. CASE AcquireReturns(t)
    BY <2>4 DEF AcquireReturns, AcquireAnd
  <2>5. CASE AcquireNew(t)
    BY <2>5 DEF AcquireNew, AcquireAnd
  <2>6. CASE AcquireJoin(t)
    BY <2>6 DEF AcquireJoin, AcquireAnd
  <2>7. CASE AcquireStart(t)
    BY <2>7 DEF AcquireStart, AcquireAnd
  <2>8. QED
    BY <1>2, <2>1, <2>2, <2>3, <2>4, <2>5, <2>6, <2>7 DEF Acquire
<1>3. ASSUME NEW t \in Threads, Begin(t) \/ PthreadCreateFails(t)
      PROVE  Counted(u)'
  <2>1. CASE PthreadCreate(t)
    BY <2>1 DEF PthreadCreate, IInv, Creating
  <2>2. CASE PthreadCreateFails(t)
    BY <2>2 DEF PthreadCreateFails
  <2>3. CASE StartThread(t)
    BY <2>3 DEF StartThread, ReadLiving, Inside
  <2>4. CASE CountLiving(t)
    BY <2>4 DEF CountLiving, WriteLiving, Inside
  <2>5. QED
    BY <1>3, <2>1, <2>2, <2>3, <2>4 DEF Begin
<1>4. ASSUME NEW t \in Threads, Native(t)
      PROVE  Counted(u)'
  <2>1. CASE Sleep(t) \/ Schedule(t) \/ CatchError(t)
    BY <2>1 DEF Sleep, Schedule, CatchError
  <2>2. CASE Collect(t)
    BY <2>2 DEF Collect
  <2>3. CASE \E v \in Threads : NewThread(t, v)
    BY <2>3 DEF NewThread
  <2>4. CASE \E v \in Threads : Join(t, v) \/ Detach(t, v) \/ Throw(t, v)
    BY <2>4 DEF Join, Detach, Throw
  <2>5. QED
    BY <1>4, <2>1, <2>2, <2>3, <2>4 DEF Native
<1>5. ASSUME NEW t \in Threads, Blocked(t)
      PROVE  Counted(u)'
  <2>1. CASE FallAsleep(t) \/ WakeUp(t)
    BY <2>1 DEF FallAsleep, WakeUp
  <2>2. CASE PthreadJoin(t)
    BY <2>2 DEF PthreadJoin
  <2>3. CASE SignalSleepCond(t)
    BY <2>3 DEF SignalSleepCond, SignalThen
  <2>4. QED
    BY <1>5, <2>1, <2>2, <2>3 DEF Blocked
<1>6. ASSUME NEW t \in Threads, Sweep(t)
      PROVE  Counted(u)'
  <2>1. CASE Splice(t)
    BY <2>1 DEF Splice
  <2>2. CASE SpliceWild(t)
    BY <2>2 DEF SpliceWild, Alive
  <2>3. CASE Collected(t)
    BY <2>3 DEF Collected
  <2>4. QED
    BY <1>6, <2>1, <2>2, <2>3 DEF Sweep
<1>7. ASSUME NEW t \in Threads, End(t)
      PROVE  Counted(u)'
  <2>1. CASE CheckInts(t) \/ Zombie(t)
    BY <2>1 DEF CheckInts, Zombie
  <2>2. CASE Uncount(t)
    BY <2>2 DEF Uncount, ReadLiving, Inside
  <2>3. CASE Uncounted(t)
    BY <2>3 DEF Uncounted, WriteLiving, Inside
  <2>4. CASE Stop(t)
    BY <2>4 DEF Stop, ReadLiving
  <2>5. CASE Stopped(t)
    BY <2>5 DEF Stopped, WriteLiving, Inside
  <2>6. QED
    BY <1>7, <2>1, <2>2, <2>3, <2>4, <2>5 DEF End
<1>8. CASE StopMain \/ MainExit \/ HookBlocks
  <2>1. CASE StopMain
    BY <2>1 DEF StopMain
  <2>2. CASE TerminateSkip
    BY <2>2 DEF TerminateSkip
  <2>3. CASE TerminateOne
    BY <2>3 DEF TerminateOne
  <2>4. CASE TerminateRound
    BY <2>4, RoundFinds, RoundEffect DEF TerminateRound
  <2>5. CASE FreeVM \/ HookBlocks
    BY <2>5 DEF FreeVM, HookBlocks
  <2>6. CASE Exit
    BY <2>6 DEF Exit, Alive
  <2>7. QED
    BY <1>8, <2>1, <2>2, <2>3, <2>4, <2>5, <2>6 DEF MainExit
<1>9. QED
  BY <1>1, <1>2, <1>3, <1>4, <1>5, <1>6, <1>7, <1>8 DEF Next

(* vm.threads with the second thread put on and taken off. *)
LEMMA TwoThreads ==
  ASSUME NEW S, NEW a \in S, NEW b \in S
  PROVE  Append(<<a>>, b) = <<a, b>> /\ RemoveAt(<<a, b>>, 2) = <<a>>
<1> DEFINE s == <<a, b>>
           t == Append(<<a>>, b)
           r == SubSeq(s, 1, 1)
<1>1. s \in Seq(S) /\ Len(s) = 2 /\ s[1] = a /\ s[2] = b
  OBVIOUS
<1>2. <<a>> \in Seq(S) /\ Len(<<a>>) = 1 /\ <<a>>[1] = a
  OBVIOUS
<1>3. t \in Seq(S) /\ Len(t) = 2 /\ t[1] = a /\ t[2] = b
  BY <1>2
<1>4. r \in Seq(S) /\ Len(r) = 1 /\ r[1] = a
  <2> HIDE DEF s
  <2>1. QED
    BY <1>1
<1>5. SubSeq(s, 3, 2) = << >>
  <2> HIDE DEF s
  <2>1. QED
    BY <1>1
<1>6. RemoveAt(s, 2) = r \o SubSeq(s, 3, 2)
  <2> HIDE DEF s
  <2>1. QED
    BY <1>1 DEF RemoveAt
<1> HIDE DEF s, t, r
<1>7. \A i \in 1..Len(t) : t[i] = s[i]
  BY <1>1, <1>3
<1>8. t = s
  BY <1>1, <1>3, <1>7, SeqEqual
<1>9. \A i \in 1..Len(r) : r[i] = <<a>>[i]
  BY <1>2, <1>4
<1>10. r = <<a>>
  BY <1>2, <1>4, <1>9, SeqEqual
<1>11. r \o << >> = r
  BY <1>4
<1>12. QED
  BY <1>5, <1>6, <1>8, <1>10, <1>11 DEF s, t

(* If the second position is noted at all, it is the only one. *)
LEMMA OneNoted == \A Z : Z \subseteq {2} /\ Z # {} => Z = {2}
OBVIOUS

(* What collectGarbage notes and takes off, for two threads. *)
LEMMA TakenOff ==
  ASSUME NEW u \in Threads, u # Main, Threads = {Main, u}, Pair(u), NEW t \in Threads
  PROVE  /\ Collect(t) => zombies' \subseteq {2} /\ (zombies' # {} =>
              threads = <<Main, u>> /\ t = Main /\ status[u] = "ZOMBIE")
         /\ Splice(t) => threads' = <<Main>> /\ zombies' = {} /\ zombies = {2}
<1>0. /\ IInv /\ Inside /\ Alive /\ Listed(u) /\ Met(u) /\ Main \in Threads
  BY ThreadsAssumption DEF Pair
<1>1. ASSUME Collect(t)
      PROVE  zombies' \subseteq {2} /\ (zombies' # {} =>
               threads = <<Main, u>> /\ t = Main /\ status[u] = "ZOMBIE")
  <2>1. pc[t] = "vm" /\ status[t] # "ZOMBIE"
    BY <1>0, <1>1 DEF Collect, Calls, IInv, Finished
  <2>2. status[Main] # "ZOMBIE"
    <3>1. CASE t = Main
      BY <2>1, <3>1
    <3>2. CASE t = u
      BY <1>0, <2>1, <3>2 DEF Met, Gone, Alive, Inside, IInv, Finished
    <3>3. QED
      BY <3>1, <3>2
  <2>3. \A i \in zombies' : i \in DOMAIN threads /\ status[threads[i]] = "ZOMBIE"
    BY <1>1 DEF Collect
  <2>4. CASE threads = <<Main>>
    BY <2>2, <2>3, <2>4
  <2>5. CASE threads = <<Main, u>>
    <3>1. \A i \in zombies' : i = 2 /\ status[u] = "ZOMBIE"
      BY <2>2, <2>3, <2>5
    <3>2. QED
      BY <2>1, <2>5, <3>1
  <2>6. QED
    BY <1>0, <2>4, <2>5 DEF Listed
<1>2. ASSUME Splice(t)
      PROVE  threads' = <<Main>> /\ zombies' = {} /\ zombies = {2}
  <2>1. PICK i \in DOMAIN threads : /\ i \in zombies /\ threads' = RemoveAt(threads, i)
                                    /\ zombies' = zombies \ {i}
    BY <1>2 DEF Splice, Lowest
  <2>2. zombies = {2} /\ threads = <<Main, u>> /\ i = 2
    BY <1>0, <2>1 DEF Listed
  <2>3. RemoveAt(<<Main, u>>, 2) = <<Main>>
    BY <1>0, TwoThreads
  <2>4. QED
    BY <2>1, <2>2, <2>3
<1>3. QED
  BY <1>1, <1>2

(* Every step keeps Listed. *)
LEMMA ListedStep ==
  ASSUME NEW u \in Threads, u # Main, Threads = {Main, u},
         Pair(u), Alive', [Next]_vars
  PROVE  Listed(u)'
<1>0. /\ IInv /\ Inside /\ Alive /\ Counted(u) /\ Listed(u) /\ Born(u) /\ Met(u)
      /\ pc \in [Threads -> PCs] /\ status \in [Threads -> Statuses]
      /\ target \in [Threads -> Threads \cup {NoThread}]
      /\ hasTid \in [Threads -> BOOLEAN] /\ errorToThrow \in [Threads -> BOOLEAN]
      /\ numLiving \in Int /\ reg \in [Threads -> Int] /\ NoThread \notin Threads
  BY ThreadsAssumption DEF Pair, IInv, TypeOK
<1> USE <1>0 DEF Listed, goto, set, forget, ReleaseTo, Calls,
        lockVars, threadVars, joinVars, countVars, vmVars, New
<1>1. CASE UNCHANGED vars
  BY <1>1 DEF vars
<1>2. ASSUME NEW t \in Threads, Acquire(t)
      PROVE  Listed(u)'
  <2>1. CASE AcquireThrows(t)
    BY <2>1 DEF AcquireThrows, Acquiring, Acquiring
  <2>2. CASE AcquireKilled(t)
    BY <2>2 DEF AcquireKilled, Acquiring, Acquiring
  <2>3. CASE AcquireLate(t)
    BY <2>3 DEF AcquireLate
  <2>4. CASE AcquireReturns(t)
    BY <2>4 DEF AcquireReturns, AcquireAnd
  <2>5. CASE AcquireNew(t)
    BY <2>5 DEF AcquireNew, AcquireAnd
  <2>6. CASE AcquireJoin(t)
    BY <2>6 DEF AcquireJoin, AcquireAnd
  <2>7. CASE AcquireStart(t)
    BY <2>7 DEF AcquireStart, AcquireAnd, Inside, IInv, Finished
  <2>8. QED
    BY <1>2, <2>1, <2>2, <2>3, <2>4, <2>5, <2>6, <2>7 DEF Acquire
<1>3. ASSUME NEW t \in Threads, Begin(t) \/ PthreadCreateFails(t)
      PROVE  Listed(u)'
  <2>1. CASE PthreadCreate(t)
    BY <2>1 DEF PthreadCreate, IInv, Creating
  <2>2. CASE PthreadCreateFails(t)
    BY <2>2 DEF PthreadCreateFails
  <2>3. CASE StartThread(t)
    BY <2>3 DEF StartThread, ReadLiving
  <2>4. CASE CountLiving(t)
    BY <2>4 DEF CountLiving, WriteLiving
  <2>5. QED
    BY <1>3, <2>1, <2>2, <2>3, <2>4 DEF Begin
<1>4. ASSUME NEW t \in Threads, Native(t)
      PROVE  Listed(u)'
  <2>1. CASE Sleep(t) \/ Schedule(t) \/ CatchError(t)
    BY <2>1 DEF Sleep, Schedule, CatchError
  <2>2. CASE Collect(t)
    <3>1. /\ pc[t] = "vm" /\ goto(t, "collect") /\ UNCHANGED <<status, threads>>
          /\ zombies' \subseteq {2}
          /\ zombies' # {} => threads = <<Main, u>> /\ t = Main /\ status[u] = "ZOMBIE"
      BY <2>2, TakenOff DEF Collect
    <3>2. New(u)' <=> New(u)
      BY <3>1
    <3>3. zombies' # {} => zombies' = {2}
      <4>1. zombies' \subseteq {2}
        BY <3>1
      <4>2. QED
        BY <4>1, OneNoted
    <3>5. t = Main => pc'[Main] = "collect"
      BY <3>1
    <3>4. QED
      BY <3>1, <3>2, <3>3, <3>5
  <2>3. CASE \E v \in Threads : NewThread(t, v)
    <3>1. t = Main /\ NewThread(Main, u)
      BY <2>3 DEF NewThread, Inside
    <3>2. zombies = {}
      BY <3>1 DEF NewThread
    <3>3. threads = <<Main>>
      BY <3>1 DEF NewThread
    <3>4. threads' = <<Main, u>> /\ UNCHANGED zombies
      <4>1. threads' = Append(threads, u) /\ UNCHANGED zombies
        BY <3>1 DEF NewThread
      <4>2. Append(<<Main>>, u) = <<Main, u>>
        BY <3>1, TwoThreads DEF NewThread
      <4>3. QED
        BY <3>3, <4>1, <4>2
    <3>5. ~New(u)'
      BY <3>1 DEF NewThread
    <3>6. QED
      BY <3>2, <3>4, <3>5
  <2>4. CASE \E v \in Threads : Join(t, v) \/ Detach(t, v) \/ Throw(t, v)
    BY <2>4 DEF Join, Detach, Throw
  <2>5. QED
    BY <1>4, <2>1, <2>2, <2>3, <2>4 DEF Native
<1>5. ASSUME NEW t \in Threads, Blocked(t)
      PROVE  Listed(u)'
  <2>1. CASE FallAsleep(t) \/ WakeUp(t)
    BY <2>1 DEF FallAsleep, WakeUp, IInv, Finished
  <2>2. CASE PthreadJoin(t)
    BY <2>2 DEF PthreadJoin
  <2>3. CASE SignalSleepCond(t)
    BY <2>3 DEF SignalSleepCond, SignalThen, IInv, Finished
  <2>4. QED
    BY <1>5, <2>1, <2>2, <2>3 DEF Blocked
<1>6. ASSUME NEW t \in Threads, Sweep(t)
      PROVE  Listed(u)'
  <2>1. CASE Splice(t)
    BY <2>1, TakenOff DEF Splice
  <2>2. CASE SpliceWild(t)
    BY <2>2 DEF SpliceWild, Alive
  <2>3. CASE Collected(t)
    BY <2>3 DEF Collected
  <2>4. QED
    BY <1>6, <2>1, <2>2, <2>3 DEF Sweep
<1>7. ASSUME NEW t \in Threads, End(t)
      PROVE  Listed(u)'
  <2>1. CASE CheckInts(t) \/ Zombie(t)
    BY <2>1 DEF CheckInts, Zombie
  <2>2. CASE Uncount(t)
    BY <2>2 DEF Uncount, ReadLiving
  <2>3. CASE Uncounted(t)
    BY <2>3 DEF Uncounted
  <2>4. CASE Stop(t)
    BY <2>4 DEF Stop, ReadLiving
  <2>5. CASE Stopped(t)
    BY <2>5 DEF Stopped
  <2>6. QED
    BY <1>7, <2>1, <2>2, <2>3, <2>4, <2>5 DEF End
<1>8. CASE StopMain \/ MainExit \/ HookBlocks
  <2>1. CASE StopMain
    BY <2>1 DEF StopMain
  <2>2. CASE TerminateSkip
    BY <2>2 DEF TerminateSkip
  <2>3. CASE TerminateOne
    BY <2>3 DEF TerminateOne
  <2>4. CASE TerminateRound
    BY <2>4, RoundEffect DEF TerminateRound
  <2>5. CASE FreeVM \/ HookBlocks
    BY <2>5 DEF FreeVM, HookBlocks
  <2>6. CASE Exit
    BY <2>6 DEF Exit, Alive
  <2>7. QED
    BY <1>8, <2>1, <2>2, <2>3, <2>4, <2>5, <2>6 DEF MainExit
<1>9. QED
  BY <1>1, <1>2, <1>3, <1>4, <1>5, <1>6, <1>7, <1>8 DEF Next

(* What terminateThreads reads of the other thread as it passes it. *)
LEMMA Passing ==
  ASSUME NEW u \in Threads, u # Main, Threads = {Main, u}, Pair(u),
         pc[Main] = "term", scan.idx <= Len(threads)
  PROVE  /\ scan.idx \in Nat /\ (scan.idx = 1 \/ scan.idx = 2)
         /\ scan.idx = 1 => threads[scan.idx] = Main
         /\ scan.idx = 2 => threads[scan.idx] = u
         /\ ~Unfinished(u) => Gone(u)
         /\ pc[u] \in {"created", "counting"} => status[u] = "READY"
<1>0. /\ IInv /\ Inside /\ Born(u) /\ Listed(u) /\ Main \in Threads
      /\ scan \in Scans /\ Scanning
  BY ThreadsAssumption DEF Pair, IInv, TypeOK
<1>1. scan.idx \in Nat /\ scan.idx >= 1
  BY <1>0 DEF Scans, Scanning
<1>2. threads = <<Main>> \/ threads = <<Main, u>>
  BY <1>0 DEF Listed
<1>3. /\ scan.idx = 1 \/ scan.idx = 2
      /\ scan.idx = 1 => threads[scan.idx] = Main
      /\ scan.idx = 2 => threads[scan.idx] = u
  <2>1. CASE threads = <<Main>>
    <3>1. Len(threads) = 1 /\ threads[1] = Main
      BY <2>1
    <3>2. QED
      BY <1>1, <3>1
  <2>2. CASE threads = <<Main, u>>
    <3>1. Len(threads) = 2 /\ threads[1] = Main /\ threads[2] = u
      BY <2>2
    <3>2. QED
      BY <1>1, <3>1
  <2>3. QED
    BY <1>2, <2>1, <2>2
<1>4. pc[u] \notin {"stopping", "freed", "crashed"}
  BY <1>0 DEF Inside, InVM, Born, MainOnly
<1>5. status[u] = "ZOMBIE" => pc[u] = "dead"
  BY <1>0, <1>4 DEF IInv, Finished
<1>6. ~hasTid[u] => pc[u] = "unborn"
  BY <1>0 DEF Born
<1>7. pc[u] \in {"created", "counting"} => status[u] = "READY"
  BY <1>0 DEF Born
<1>8. QED
  BY <1>1, <1>3, <1>5, <1>6, <1>7 DEF Unfinished, Gone

(* Every step keeps Met. *)
LEMMA MetStep ==
  ASSUME NEW u \in Threads, u # Main, Threads = {Main, u},
         Pair(u), Alive', [Next]_vars
  PROVE  Met(u)'
<1>0. /\ IInv /\ Inside /\ Alive /\ Counted(u) /\ Listed(u) /\ Born(u) /\ Met(u)
      /\ pc \in [Threads -> PCs] /\ status \in [Threads -> Statuses]
      /\ target \in [Threads -> Threads \cup {NoThread}]
      /\ hasTid \in [Threads -> BOOLEAN] /\ errorToThrow \in [Threads -> BOOLEAN]
      /\ numLiving \in Int /\ reg \in [Threads -> Int] /\ NoThread \notin Threads
  BY ThreadsAssumption DEF Pair, IInv, TypeOK
<1> USE <1>0 DEF Met, goto, set, forget, ReleaseTo, Calls,
        lockVars, threadVars, joinVars, countVars, vmVars, Gone
<1>1. CASE UNCHANGED vars
  BY <1>1 DEF vars
<1>2. ASSUME NEW t \in Threads, Acquire(t)
      PROVE  Met(u)'
  <2>1. CASE AcquireThrows(t)
    BY <2>1 DEF AcquireThrows, Acquiring, Acquiring
  <2>2. CASE AcquireKilled(t)
    BY <2>2 DEF AcquireKilled, Acquiring, Acquiring, Inside
  <2>3. CASE AcquireLate(t)
    BY <2>3 DEF AcquireLate
  <2>4. CASE AcquireReturns(t)
    BY <2>4 DEF AcquireReturns, AcquireAnd
  <2>5. CASE AcquireNew(t)
    BY <2>5 DEF AcquireNew, AcquireAnd
  <2>6. CASE AcquireJoin(t)
    BY <2>6 DEF AcquireJoin, AcquireAnd
  <2>7. CASE AcquireStart(t)
    BY <2>7 DEF AcquireStart, AcquireAnd
  <2>8. QED
    BY <1>2, <2>1, <2>2, <2>3, <2>4, <2>5, <2>6, <2>7 DEF Acquire
<1>3. ASSUME NEW t \in Threads, Begin(t) \/ PthreadCreateFails(t)
      PROVE  Met(u)'
  <2>1. CASE PthreadCreate(t)
    BY <2>1 DEF PthreadCreate, IInv, Creating
  <2>2. CASE PthreadCreateFails(t)
    BY <2>2 DEF PthreadCreateFails
  <2>3. CASE StartThread(t)
    BY <2>3 DEF StartThread, ReadLiving
  <2>4. CASE CountLiving(t)
    BY <2>4 DEF CountLiving, WriteLiving
  <2>5. QED
    BY <1>3, <2>1, <2>2, <2>3, <2>4 DEF Begin
<1>4. ASSUME NEW t \in Threads, Native(t)
      PROVE  Met(u)'
  <2>1. CASE Sleep(t) \/ Schedule(t) \/ CatchError(t)
    BY <2>1 DEF Sleep, Schedule, CatchError
  <2>2. CASE Collect(t)
    BY <2>2 DEF Collect
  <2>3. CASE \E v \in Threads : NewThread(t, v)
    BY <2>3 DEF NewThread
  <2>4. CASE \E v \in Threads : Join(t, v) \/ Detach(t, v) \/ Throw(t, v)
    BY <2>4 DEF Join, Detach, Throw
  <2>5. QED
    BY <1>4, <2>1, <2>2, <2>3, <2>4 DEF Native
<1>5. ASSUME NEW t \in Threads, Blocked(t)
      PROVE  Met(u)'
  <2>1. CASE FallAsleep(t) \/ WakeUp(t)
    BY <2>1 DEF FallAsleep, WakeUp
  <2>2. CASE PthreadJoin(t)
    BY <2>2 DEF PthreadJoin
  <2>3. CASE SignalSleepCond(t)
    BY <2>3 DEF SignalSleepCond, SignalThen
  <2>4. QED
    BY <1>5, <2>1, <2>2, <2>3 DEF Blocked
<1>6. ASSUME NEW t \in Threads, Sweep(t)
      PROVE  Met(u)'
  <2>1. CASE Splice(t)
    BY <2>1 DEF Splice
  <2>2. CASE SpliceWild(t)
    BY <2>2 DEF SpliceWild, Alive
  <2>3. CASE Collected(t)
    BY <2>3 DEF Collected
  <2>4. QED
    BY <1>6, <2>1, <2>2, <2>3 DEF Sweep
<1>7. ASSUME NEW t \in Threads, End(t)
      PROVE  Met(u)'
  <2>1. CASE CheckInts(t) \/ Zombie(t)
    BY <2>1 DEF CheckInts, Zombie
  <2>2. CASE Uncount(t)
    BY <2>2 DEF Uncount, ReadLiving
  <2>3. CASE Uncounted(t)
    BY <2>3 DEF Uncounted, WriteLiving
  <2>4. CASE Stop(t)
    BY <2>4 DEF Stop, ReadLiving
  <2>5. CASE Stopped(t)
    BY <2>5 DEF Stopped, WriteLiving
  <2>6. QED
    BY <1>7, <2>1, <2>2, <2>3, <2>4, <2>5 DEF End
<1>8. CASE StopMain \/ MainExit \/ HookBlocks
  <2>1. CASE StopMain
    BY <2>1 DEF StopMain, NoScan
  <2>2. CASE TerminateSkip
    <3>1. /\ pc[Main] = "term" /\ scan.idx <= Len(threads) /\ ~Unfinished(threads[scan.idx])
          /\ scan' = [scan EXCEPT !.idx = @ + 1] /\ scan \in Scans /\ UNCHANGED pc
      BY <2>2 DEF TerminateSkip, IInv, TypeOK
    <3>2. scan'.idx = scan.idx + 1
      BY <3>1 DEF Scans
    <3>3. scan'.idx > 2 => Gone(u)
      BY <3>1, <3>2, Passing
    <3>4. QED
      BY <3>1, <3>3
  <2>3. CASE TerminateOne
    <3>1. pc[Main] = "term" /\ scan.idx <= Len(threads) /\ Unfinished(threads[scan.idx])
      BY <2>3 DEF TerminateOne
    <3>2. scan.idx = 2 /\ threads[scan.idx] = u
      BY <3>1, Passing DEF Unfinished
    <3>3. scan'.found /\ (status[u] = "READY" => scan'.ready)
      <4> DEFINE ready == scan.ready \/ status[threads[scan.idx]] = "READY"
      <4>1. \/ scan' = [idx |-> scan.idx + 1, found |-> TRUE, ready |-> ready]
            \/ scan' = [idx |-> Len(threads) + 1, found |-> TRUE, ready |-> ready]
        BY <2>3 DEF TerminateOne
      <4>2. status[u] = "READY" => ready = TRUE
        BY <3>2
      <4> HIDE DEF ready
      <4>3. QED
        BY <4>1, <4>2
    <3>4. pc[u] \in {"created", "counting"} => scan'.ready
      BY <3>1, <3>3, Passing
    <3>5. pc'[u] = pc[u] /\ pc'[Main] \in {"term", "sig_term"}
      BY <2>3, <3>1 DEF TerminateOne
    <3>6. QED
      BY <3>3, <3>4, <3>5
  <2>4. CASE TerminateRound
    BY <2>4, RoundFinds, RoundEffect DEF TerminateRound, NoScan
  <2>5. CASE FreeVM \/ HookBlocks
    BY <2>5 DEF FreeVM, HookBlocks
  <2>6. CASE Exit
    BY <2>6 DEF Exit, Alive
  <2>7. QED
    BY <1>8, <2>1, <2>2, <2>3, <2>4, <2>5, <2>6 DEF MainExit
<1>9. QED
  BY <1>1, <1>2, <1>3, <1>4, <1>5, <1>6, <1>7, <1>8 DEF Next

(* Every step keeps what holds of the other thread. *)
LEMMA OtherStep ==
  ASSUME NEW u \in Threads, u # Main, Threads = {Main, u},
         IInv, Inside, OtherKept(u), [Next]_vars
  PROVE  OtherKept(u)'
<1> SUFFICES ASSUME Alive' PROVE Counted(u)' /\ Listed(u)' /\ Born(u)' /\ Met(u)'
  BY DEF OtherKept
<1>1. Alive
  BY StaysAlive
<1>2. Pair(u)
  BY <1>1 DEF Pair, OtherKept
<1>3. QED
  BY <1>2, CountedStep, ListedStep, BornStep, MetStep

(* It holds at the start. *)
LEMMA OtherInit ==
  Init => Inside /\ \A u \in Threads \ {Main} : OtherKept(u)
<1> SUFFICES ASSUME Init
             PROVE  Inside /\ \A u \in Threads \ {Main} : OtherKept(u)
  OBVIOUS
<1> USE ThreadsAssumption DEF Init
<1>1. Inside
  BY DEF Inside, InVM
<1>2. ASSUME NEW u \in Threads \ {Main} PROVE OtherKept(u)
  <2>1. pc[Main] = "vm" /\ pc[u] = "unborn" /\ status[u] = "STOPPED"
    OBVIOUS
  <2>2. Counted(u)
    BY <2>1 DEF Counted, NotCounted
  <2>3. Listed(u)
    BY <2>1 DEF Listed, New
  <2>4. Born(u)
    BY <2>1 DEF Born, MainOnly
  <2>5. Met(u)
    BY <2>1 DEF Met
  <2>6. QED
    BY <2>2, <2>3, <2>4, <2>5 DEF OtherKept
<1>3. QED
  BY <1>1, <1>2

(* FreeVMAlone: with one other thread the exit of the main thread frees    *)
(* the VM only when that thread can no longer enter it, whatever natives   *)
(* both call and however often the exit is broken off by an error          *)
(* (vm.c: terminateThreads trusts numLivingThreads).  With two others the  *)
(* statement is false: their updates of the count can overwrite one        *)
(* another.                                                                *)
THEOREM VMIsFreedAlone ==
  (\A t, u \in Threads \ {Main} : t = u) => (Spec => []FreeVMAlone)
<1> SUFFICES ASSUME \A t, u \in Threads \ {Main} : t = u
             PROVE  Spec => []FreeVMAlone
  OBVIOUS
<1> DEFINE Kept == \A u \in Threads \ {Main} : OtherKept(u)
<1>1. Init => Inside /\ Kept
  BY OtherInit
<1>2. IInv /\ Inside /\ Kept /\ [Next]_vars => Inside' /\ Kept'
  <2> SUFFICES ASSUME IInv, Inside, Kept, [Next]_vars PROVE Inside' /\ Kept'
    OBVIOUS
  <2>1. ASSUME NEW u \in Threads \ {Main} PROVE OtherKept(u)'
    <3>1. Threads = {Main, u}
      BY ThreadsAssumption
    <3>2. QED
      BY <3>1, OtherStep
  <2>2. QED
    BY <2>1, InsideStep
<1>3. Kept => FreeVMAlone
  BY DEF FreeVMAlone, OtherKept, Met, Gone, Alive
<1>4. QED
  BY <1>1, <1>2, <1>3, Invariance, PTL DEF Spec
=============================================================================

------------------------------- MODULE Signals -------------------------------
(***************************************************************************)
(* Signal traps (signal.c; Process.signal in process.c; threadInterrupt    *)
(* and threadExecuteInterrupts in thread.c).  A signal is counted in       *)
(* sigbuf, by Process.signal or by the asynchronous C handler              *)
(* sigHandlerFunc, the TRAP interrupt is set on the main thread, and the   *)
(* main thread drains sigbuf the next time it checks for interrupts.       *)
(*                                                                         *)
(* sigHandlerFunc runs on top of whatever its thread is doing, so that     *)
(* each thread is a stack of frames: its own code, then the C handlers     *)
(* that interrupted it and one another.  Only the last frame moves.        *)
(*                                                                         *)
(* The handler given to Signal.trap is lox code, called by the drain on    *)
(* top of the lox code that checked for interrupts.  It can do all that    *)
(* lox code does: send signals, give up the VM, check for interrupts       *)
(* itself, and throw an error past the drain.                              *)
(***************************************************************************)
EXTENDS Integers, SequencesExt, FiniteSetsExt

CONSTANTS Threads, Main,
          Sigs,           \* signal numbers: a set of naturals
          Untrappable,    \* those sigaction refuses, as SIGKILL
          SelfSigs,       \* those the program sends itself with Process.signal
          OSSigs,         \* those that may arrive from outside
          SendUntrapped,  \* whether it sends itself a signal it did not trap
          Torn,           \* whether x++ on sigbuf is a load and a store
          MaxSent,        \* bound: signals sent
          MaxTraps        \* bound: calls of Signal.trap

ASSUME SignalsAssumption == /\ Sigs \subseteq Nat
                            /\ Main \in Threads
                            /\ Torn \in BOOLEAN /\ SendUntrapped \in BOOLEAN
                            /\ MaxSent \in Nat /\ MaxTraps \in Nat

VARIABLES
  cnt,            \* sigbuf.cnt
  size,           \* sigbuf.size
  trapFlag,       \* INTERRUPT_TRAP is set in vm.mainThread->interruptFlags
  interruptLock,  \* the owners of vm.mainThread->interruptLock: none or one
  sigHandlers,    \* the list of handlers, each by its signum
  traps,          \* calls of Signal.trap so far, a bound
  stack,          \* each thread's frames
  handling,       \* how many lox handlers run, one on top of the other
  abandoned,      \* history: the queue was last left before it was empty, and
                  \* no interrupt has been set since
  gvl,            \* the thread that has the VM
  sent            \* signals sent so far, a bound

vars == <<cnt, size, trapFlag, interruptLock, sigHandlers, traps, stack, handling,
          abandoned, gvl, sent>>

(* Where a frame can be: "vm" is lox code; "cnt" to "size" is enqueueSignal, *)
(* "dcnt" to "dsize" dequeueSignal, "lock" to "unlock" the interrupt lock,   *)
(* "check" to "exec" threadExecuteInterrupts; "crashed" is the end of the    *)
(* process at a NULL pointer.                                                *)
Places == {"vm", "cnt", "size", "lock", "unlock", "check", "drain", "dcnt",
           "dsize", "exec", "crashed"}
NotLoaded == -9   \* no value loaded from sigbuf yet

Frames == [at : Places, sig : Sigs \cup {0}, reg : Int]

TypeOK ==
  /\ cnt \in [Sigs -> Int]
  /\ size \in Int
  /\ trapFlag \in BOOLEAN
  /\ interruptLock \in {{}} \cup {{t} : t \in Threads}
  /\ sigHandlers \in Seq(Sigs)
  /\ traps \in 0..MaxTraps
  /\ stack \in [Threads -> Seq(Frames) \ {<<>>}]
  /\ handling \in Nat /\ abandoned \in BOOLEAN
  /\ gvl \in Threads
  /\ sent \in 0..MaxSent

Frame(at, sig) == [at |-> at, sig |-> sig, reg |-> NotLoaded]

Init ==
  /\ cnt = [s \in Sigs |-> 0]
  /\ size = 0
  /\ trapFlag = FALSE
  /\ interruptLock = {}
  /\ sigHandlers = <<>>
  /\ traps = 0
  /\ stack = [t \in Threads |-> <<Frame("vm", 0)>>]
  /\ handling = 0 /\ abandoned = FALSE
  /\ gvl = Main
  /\ sent = 0

Top(t) == Last(stack[t])
\* The frames of the thread's own code: of the main thread, the program's and
\* those of the lox handlers above it.  What is above them are C handlers.
OwnFrames(t) == 1 + (IF t = Main THEN handling ELSE 0)
InHandler(t) == Len(stack[t]) > OwnFrames(t)
Crashed == Top(Main).at = "crashed"
AtVM(t) == ~InHandler(t) /\ Top(t).at = "vm"

(* The last frame of t becomes f, or returns. *)
Becomes(t, f) == stack' = [stack EXCEPT ![t] = Append(Front(@), f)]
Goes(t, at) == Becomes(t, [Top(t) EXCEPT !.at = at])
Returns(t) == stack' = [stack EXCEPT ![t] = Front(@)]

queueVars == <<cnt, size>>
listVars == <<sigHandlers, traps>>
drainVars == <<handling, abandoned>>

------------------------------------------------------------------------------
(* Wrong variants of definitions below, which the properties must notice.  *)

(* A signal stays in the queue when it is handled. *)
DeltaNotTaken(f) == IF f.at \in {"cnt", "size"} THEN 1 ELSE 0

(* One signal is handled for each interrupt. *)
HandlerReturnsOnce ==
  /\ handling > 0 /\ gvl = Main /\ AtVM(Main)
  /\ handling' = handling - 1
  /\ stack' = [stack EXCEPT ![Main] = Append(SubSeq(@, 1, handling - 1), Frame("check", 0))]
  /\ UNCHANGED <<queueVars, trapFlag, interruptLock, listVars, abandoned, gvl, sent>>

(* getSignal's -1 is taken for a signal. *)
GetSignalUnchecked ==
  /\ Top(Main).at = "drain"
  /\ LET q == {s \in Sigs : cnt[s] > 0}
     IN Becomes(Main, Frame("dcnt", IF q = {} THEN -1 ELSE Min(q)))
  /\ UNCHANGED <<queueVars, trapFlag, interruptLock, listVars, drainVars, gvl, sent>>

------------------------------------------------------------------------------
(* enqueueSignal and dequeueSignal: one increment or decrement after the   *)
(* other, each possibly a load and a store (the counters are volatile, not *)
(* atomic).                                                                *)
NextPlace == [cnt |-> "size", size |-> "lock", dcnt |-> "dsize", dsize |-> "exec"]
Updating(f) == f.at \in DOMAIN NextPlace
OnCnt(f) == f.at \in {"cnt", "dcnt"}
Current(f) == IF OnCnt(f) THEN cnt[f.sig] ELSE size
Delta(f) == IF f.at \in {"cnt", "size"} THEN 1 ELSE -1

Load(t) ==
  /\ Torn /\ Updating(Top(t)) /\ Top(t).reg = NotLoaded
  /\ Becomes(t, [Top(t) EXCEPT !.reg = Current(Top(t))])
  /\ UNCHANGED <<queueVars, trapFlag, interruptLock, listVars, drainVars, gvl, sent>>

Store(t) ==
  LET f == Top(t)
      new == Delta(f) + (IF Torn THEN f.reg ELSE Current(f))
  IN /\ Updating(f) /\ (Torn => f.reg # NotLoaded)
     /\ IF OnCnt(f)
        THEN cnt' = [cnt EXCEPT ![f.sig] = new] /\ UNCHANGED size
        ELSE size' = new /\ UNCHANGED cnt
     /\ Becomes(t, Frame(NextPlace[f.at], f.sig))
     /\ UNCHANGED <<trapFlag, interruptLock, listVars, drainVars, gvl, sent>>

------------------------------------------------------------------------------
(* Signal.trap: the handler is appended to the list.  When sigaction       *)
(* refuses the signal it is unlinked through prev, which is NULL if it is  *)
(* the only one.                                                           *)
Trap(t, s) ==
  /\ gvl = t /\ AtVM(t) /\ traps < MaxTraps
  /\ traps' = traps + 1
  /\ IF s \in Untrappable
     THEN /\ UNCHANGED sigHandlers
          /\ IF sigHandlers = <<>>
             THEN stack' = [u \in Threads |-> <<Frame("crashed", 0)>>] /\ handling' = 0
             ELSE UNCHANGED <<stack, handling>>
     ELSE sigHandlers' = Append(sigHandlers, s) /\ UNCHANGED <<stack, handling>>
  /\ UNCHANGED <<queueVars, trapFlag, interruptLock, abandoned, gvl, sent>>

Trapped(s) == \E i \in DOMAIN sigHandlers : sigHandlers[i] = s

(* Process.signal to the process itself, an asynchronous signal. *)
ProcessSignal(t, s) ==
  /\ gvl = t /\ AtVM(t) /\ sent < MaxSent
  /\ s \in SelfSigs /\ (SendUntrapped \/ Trapped(s))
  /\ sent' = sent + 1
  /\ Becomes(t, Frame("cnt", s))
  /\ UNCHANGED <<queueVars, trapFlag, interruptLock, listVars, drainVars, gvl>>

(* sigHandlerFunc interrupts a thread.  sa_mask is empty: only the signal  *)
(* itself is blocked while its handler runs.                               *)
SignalArrives(t, s) ==
  /\ ~Crashed /\ sent < MaxSent
  /\ s \in OSSigs /\ Trapped(s)
  /\ \A i \in (OwnFrames(t) + 1)..Len(stack[t]) : stack[t][i].sig # s
  /\ sent' = sent + 1
  /\ stack' = [stack EXCEPT ![t] = Append(@, Frame("cnt", s))]
  /\ UNCHANGED <<queueVars, trapFlag, interruptLock, listVars, drainVars, gvl>>

(* sigHandlerFunc, and threadInterrupt(vm.mainThread, true). *)
LockAndSet(t) ==
  /\ Top(t).at = "lock" /\ interruptLock = {}
  /\ interruptLock' = {t}
  /\ trapFlag' = TRUE /\ abandoned' = FALSE
  /\ Goes(t, "unlock")
  /\ UNCHANGED <<queueVars, listVars, handling, gvl, sent>>

Unlock(t) ==
  /\ Top(t).at = "unlock"
  /\ interruptLock' = {}
  /\ \/ InHandler(t) /\ Returns(t)
     \/ ~InHandler(t) /\ t = Main /\ Goes(t, "check")
     \/ ~InHandler(t) /\ t # Main /\ Goes(t, "vm")   \* threadSchedule(main)
  /\ UNCHANGED <<queueVars, trapFlag, listVars, drainVars, gvl, sent>>

(* The VM passes to another thread; main checks for interrupts when it     *)
(* comes back into the VM, and at jumps.                                   *)
Switch(t) ==
  /\ AtVM(gvl) /\ t # gvl
  /\ gvl' = t
  /\ IF t = Main /\ AtVM(Main) THEN Goes(Main, "check") ELSE UNCHANGED stack
  /\ UNCHANGED <<queueVars, trapFlag, interruptLock, listVars, drainVars, sent>>

CheckInts ==
  /\ gvl = Main /\ AtVM(Main) /\ trapFlag
  /\ Goes(Main, "check")
  /\ UNCHANGED <<queueVars, trapFlag, interruptLock, listVars, drainVars, gvl, sent>>

------------------------------------------------------------------------------
(* threadExecuteInterrupts on the main thread: clear the flag, drain       *)
(* sigbuf, and see whether the flag was set again meanwhile.               *)
CheckFlag ==
  /\ Top(Main).at = "check"
  /\ trapFlag' = FALSE
  /\ Goes(Main, IF trapFlag THEN "drain" ELSE "vm")
  /\ UNCHANGED <<queueVars, interruptLock, listVars, drainVars, gvl, sent>>

Queued == {s \in Sigs : cnt[s] > 0}

GetSignal ==   \* the lowest signal number first
  /\ Top(Main).at = "drain"
  /\ IF size = 0 \/ Queued = {}
     THEN Goes(Main, "check")
     ELSE Becomes(Main, Frame("dcnt", Min(Queued)))
  /\ UNCHANGED <<queueVars, trapFlag, interruptLock, listVars, drainVars, gvl, sent>>

(* The loop over the queue is left before it is empty.  The loop of a lox  *)
(* handler that runs below goes on with what is left.                      *)
Abandons(below) ==
  abandoned' = IF below = 0 THEN ~trapFlag ELSE abandoned

(* execSignal: the lox handler runs on top.  A signal without a handler    *)
(* ends the drain.                                                         *)
ExecSignal ==
  /\ Top(Main).at = "exec"
  /\ IF Trapped(Top(Main).sig)
     THEN /\ stack' = [stack EXCEPT ![Main] = Append(@, Frame("vm", 0))]
          /\ handling' = handling + 1 /\ UNCHANGED abandoned
     ELSE Goes(Main, "check") /\ Abandons(handling) /\ UNCHANGED handling
  /\ UNCHANGED <<queueVars, trapFlag, interruptLock, listVars, gvl, sent>>

HandlerReturns ==
  /\ handling > 0 /\ gvl = Main /\ AtVM(Main)
  /\ handling' = handling - 1
  /\ stack' = [stack EXCEPT ![Main] = Append(SubSeq(@, 1, handling - 1), Frame("drain", 0))]
  /\ UNCHANGED <<queueVars, trapFlag, interruptLock, listVars, abandoned, gvl, sent>>

(* An error of the handler is caught by lox code below: the program's, or  *)
(* that of a handler which the n - 1 others below it wait for.  throwError *)
(* jumps there, past the drains in between.  An error that nobody catches  *)
(* ends the program.                                                       *)
HandlerThrows(n) ==
  /\ gvl = Main /\ AtVM(Main) /\ n <= handling
  /\ handling' = n - 1
  /\ stack' = [stack EXCEPT ![Main] = Append(SubSeq(@, 1, n - 1), Frame("vm", 0))]
  /\ Abandons(n - 1)
  /\ UNCHANGED <<queueVars, trapFlag, interruptLock, listVars, gvl, sent>>

HandlerEnds == HandlerReturns \/ \E n \in 1..handling : HandlerThrows(n)
Interrupts == CheckFlag \/ GetSignal \/ ExecSignal
Progress(t) == Load(t) \/ Store(t) \/ LockAndSet(t) \/ Unlock(t)

Next ==
  \/ Interrupts \/ CheckInts \/ HandlerEnds
  \/ \E t \in Threads :
       \/ Progress(t) \/ Switch(t)
       \/ \E s \in Sigs : Trap(t, s) \/ ProcessSignal(t, s) \/ SignalArrives(t, s)

Spec == Init /\ [][Next]_vars

(* C code keeps going, the main thread reaches a jump or a call of         *)
(* acquireGVL again and again, the handlers of the program end, and the VM *)
(* is passed on.                                                           *)
Fairness ==
  /\ WF_vars(Interrupts)
  /\ SF_vars(CheckInts) /\ SF_vars(HandlerEnds)
  /\ \A t \in Threads : WF_vars(Progress(t)) /\ SF_vars(Switch(t))

FairSpec == Spec /\ Fairness

------------------------------------------------------------------------------
(* Nobody is in the middle of anything. *)
Quiet == handling = 0 /\ \A t \in Threads : AtVM(t)

(* A C handler waits for a lock that the code it interrupted holds.  *)
SelfDeadlock(t) == Top(t).at = "lock" /\ interruptLock = {t}

(* thread.c: "Execute all interrupt signal handlers on the main thread".   *)
(* No signal stays queued without an interrupt to announce it, however C   *)
(* handlers, lox handlers and drains interrupted one another.  Except when *)
(* the drain was left early, by an error of a lox handler or by a signal   *)
(* without one, and no signal came since; and at size 0: getSignal trusts  *)
(* the size, which the C handlers update without a lock, and an update     *)
(* that is interrupted can be lost.                                        *)
NoStrandedSignal ==
  Quiet /\ size # 0 /\ Queued # {} => trapFlag \/ abandoned

(* signal.c: "We enqueue the signal and set the interrupt flag on the main *)
(* thread".  The C handler gets that far: it does not wait for a lock that *)
(* the code it interrupted holds.                                          *)
NoSelfDeadlock == \A t \in Threads : ~SelfDeadlock(t)

(* A trapped signal is taken off the queue, and its handler called, unless *)
(* a C handler blocked itself, a lost update made the queue look empty, or *)
(* the drain was left early and no signal came since.                      *)
SignalHandled ==
  \A s \in Sigs :
    cnt[s] > 0 /\ Trapped(s)
      ~> \/ cnt[s] <= 0 \/ Crashed \/ (Quiet /\ (size = 0 \/ abandoned))
         \/ \E t \in Threads : SelfDeadlock(t)
=============================================================================

---------------------------- MODULE SignalsProofs ----------------------------
(***************************************************************************)
(* Theorems about signal traps, for every number of threads, signals and   *)
(* interruptions, whether or not the counters are updated in one piece.    *)
(*                                                                         *)
(* NoStrandedSignal speaks of the quiet states only.  What carries it from *)
(* one to the next is Announced: as long as no frame is between the count  *)
(* and the flag, and the main thread's program is not inside the drain, an *)
(* unset flag means that there is nothing getSignal would find, or that    *)
(* the drain was abandoned.  Under a lox handler it says nothing: there    *)
(* the program waits inside the drain, which is what Nested is for.        *)
(***************************************************************************)
EXTENDS Signals, NatLemmas, TLAPS

Coming == {"cnt", "size", "lock"}            \* will still set the flag
Interrupting == Coming \cup {"unlock"}       \* where a C handler can be
Draining == {"check", "drain", "dcnt", "dsize", "exec"}

(* A C handler does nothing but enqueueSignal and threadInterrupt, and only *)
(* the main thread's own code drains. *)
Stacked ==
  \A t \in Threads : \A i \in DOMAIN stack[t] :
    /\ i > OwnFrames(t) => stack[t][i].at \in Interrupting
    /\ t # Main => stack[t][i].at \notin Draining

(* Below each lox handler a drain waits for it to end. *)
Nested ==
  /\ handling < Len(stack[Main])
  /\ \A i \in 1..handling : stack[Main][i].at = "exec"

(* The counter a frame updates is one of sigbuf.cnt. *)
Counting ==
  \A t \in Threads : \A i \in DOMAIN stack[t] :
    stack[t][i].at \in {"cnt", "dcnt"} => stack[t][i].sig \in Sigs

Pending == \E t \in Threads : \E i \in DOMAIN stack[t] : stack[t][i].at \in Coming
Base == stack[Main][1].at

Announced ==
  /\ ~trapFlag /\ ~Pending /\ Base \in {"vm", "check"}
       => size = 0 \/ Queued = {} \/ abandoned
  /\ Base = "unlock" => trapFlag

IInv == TypeOK /\ Stacked /\ Nested /\ Counting

------------------------------------------------------------------------------
(* A frame, and the stack of a thread whose last frame moves or returns.   *)
LEMMA FrameMoves ==
  ASSUME NEW f \in Frames, NEW at \in Places
  PROVE  /\ f.at \in Places /\ f.sig \in Sigs \cup {0} /\ f.reg \in Int
         /\ [f EXCEPT !.at = at] \in Frames
         /\ [f EXCEPT !.at = at].at = at
         /\ [f EXCEPT !.at = at].sig = f.sig
<1>1. f.at \in Places /\ f.sig \in Sigs \cup {0} /\ f.reg \in Int
  BY DEF Frames
<1>2. [f EXCEPT !.at = at] \in Frames
  BY DEF Frames
<1>3. [f EXCEPT !.at = at].at = at /\ [f EXCEPT !.at = at].sig = f.sig
  BY DEF Frames
<1>4. QED
  BY <1>1, <1>2, <1>3

(* Loading a counter changes neither place nor signal of a frame. *)
LEMMA FrameLoads ==
  ASSUME NEW f \in Frames, NEW r \in Int
  PROVE  /\ [f EXCEPT !.reg = r] \in Frames
         /\ [f EXCEPT !.reg = r].at = f.at
         /\ [f EXCEPT !.reg = r].sig = f.sig
BY DEF Frames

(* A frame made new. *)
LEMMA FrameNew ==
  ASSUME NEW at \in Places, NEW s \in Sigs \cup {0}
  PROVE  /\ Frame(at, s) \in Frames
         /\ Frame(at, s).at = at /\ Frame(at, s).sig = s
BY DEF Frame, Frames, NotLoaded

Stacks == [Threads -> Seq(Frames) \ {<<>>}]

(* A stack is never empty; its last frame is the one that runs. *)
LEMMA TopType ==
  ASSUME stack \in Stacks, handling \in Nat, NEW t \in Threads
  PROVE  /\ Len(stack[t]) \in Nat \ {0}
         /\ Len(stack[t]) \in DOMAIN stack[t] /\ 1 \in DOMAIN stack[t]
         /\ DOMAIN stack[t] = 1..Len(stack[t])
         /\ Top(t) = stack[t][Len(stack[t])] /\ Top(t) \in Frames
         /\ OwnFrames(t) \in Nat \ {0} /\ (t # Main => OwnFrames(t) = 1)
         /\ (t = Main => OwnFrames(t) = handling + 1)
         /\ InHandler(t) <=> Len(stack[t]) > OwnFrames(t)
<1>1. OwnFrames(t) = IF t = Main THEN handling + 1 ELSE 1
  BY DEF OwnFrames
<1>2. stack[t] \in Seq(Frames) /\ stack[t] # <<>>
  BY DEF Stacks
<1>3. /\ Len(stack[t]) \in Nat \ {0}
      /\ Len(stack[t]) \in DOMAIN stack[t] /\ 1 \in DOMAIN stack[t]
      /\ DOMAIN stack[t] = 1..Len(stack[t])
      /\ stack[t][Len(stack[t])] \in Frames
  BY <1>2
<1>4. QED
  BY <1>1, <1>3 DEF Top, Last, InHandler

(* A step that replaces the last frame of a thread. *)
LEMMA Becoming ==
  ASSUME stack \in Stacks, handling \in Nat, NEW t \in Threads, NEW f \in Frames, Becomes(t, f)
  PROVE  /\ stack' \in Stacks
         /\ \A u \in Threads \ {t} : stack'[u] = stack[u]
         /\ DOMAIN stack'[t] = DOMAIN stack[t]
         /\ \A i \in DOMAIN stack[t] :
              stack'[t][i] = IF i = Len(stack[t]) THEN f ELSE stack[t][i]
<1> DEFINE s == stack[t]
           r == Append(Front(s), f)
<1>1. s \in Seq(Frames) /\ Len(s) \in Nat \ {0} /\ DOMAIN s = 1..Len(s)
  BY TopType DEF Stacks
<1>2. Front(s) \in Seq(Frames) /\ Len(Front(s)) = Len(s) - 1
      /\ \A i \in 1..(Len(s) - 1) : Front(s)[i] = s[i]
  BY <1>1 DEF Front
<1>3. r \in Seq(Frames) /\ Len(r) = Len(s) /\ DOMAIN r = 1..Len(s)
      /\ \A i \in 1..Len(s) : r[i] = IF i = Len(s) THEN f ELSE s[i]
  BY <1>1, <1>2
<1>4. r # <<>>
  BY <1>1, <1>3
<1>5. stack' = [stack EXCEPT ![t] = r]
  BY DEF Becomes
<1> HIDE DEF r, s
<1>6. QED
  BY <1>1, <1>3, <1>4, <1>5 DEF Stacks, s

(* A step that moves the last frame of a thread to another place. *)
LEMMA Going ==
  ASSUME stack \in Stacks, handling \in Nat, NEW t \in Threads, NEW at \in Places, Goes(t, at)
  PROVE  /\ stack' \in Stacks
         /\ \A u \in Threads \ {t} : stack'[u] = stack[u]
         /\ DOMAIN stack'[t] = DOMAIN stack[t]
         /\ \A i \in DOMAIN stack[t] :
              /\ stack'[t][i].at = IF i = Len(stack[t]) THEN at ELSE stack[t][i].at
              /\ stack'[t][i].sig = stack[t][i].sig
<1> DEFINE f == [Top(t) EXCEPT !.at = at]
<1>1. Top(t) \in Frames /\ Top(t) = stack[t][Len(stack[t])]
  BY TopType
<1>2. f \in Frames /\ f.at = at /\ f.sig = Top(t).sig
  BY <1>1, FrameMoves
<1>3. Becomes(t, f)
  BY DEF Goes
<1> HIDE DEF f
<1>4. QED
  BY <1>1, <1>2, <1>3, Becoming

(* A C handler that returns takes the last frame away. *)
LEMMA Returning ==
  ASSUME stack \in Stacks, handling \in Nat, NEW t \in Threads,
         InHandler(t), Returns(t)
  PROVE  /\ stack' \in Stacks
         /\ \A u \in Threads \ {t} : stack'[u] = stack[u]
         /\ DOMAIN stack'[t] = 1..(Len(stack[t]) - 1)
         /\ \A i \in 1..(Len(stack[t]) - 1) : stack'[t][i] = stack[t][i]
<1> DEFINE s == stack[t]
           r == Front(s)
<1>1. s \in Seq(Frames) /\ Len(s) \in Nat /\ Len(s) > 1
  BY TopType DEF Stacks
<1>2. r \in Seq(Frames) /\ Len(r) = Len(s) - 1 /\ DOMAIN r = 1..(Len(s) - 1)
      /\ \A i \in 1..(Len(s) - 1) : r[i] = s[i]
  BY <1>1 DEF Front
<1>3. r # <<>>
  BY <1>1, <1>2
<1>4. stack' = [stack EXCEPT ![t] = r]
  BY DEF Returns
<1> HIDE DEF r, s
<1>5. QED
  BY <1>1, <1>2, <1>3, <1>4 DEF Stacks, s

(* A handler that begins adds a frame. *)
LEMMA Arriving ==
  ASSUME stack \in Stacks, handling \in Nat, NEW t \in Threads, NEW f \in Frames,
         stack' = [stack EXCEPT ![t] = Append(@, f)]
  PROVE  /\ stack' \in Stacks
         /\ \A u \in Threads \ {t} : stack'[u] = stack[u]
         /\ DOMAIN stack'[t] = 1..(Len(stack[t]) + 1)
         /\ \A i \in DOMAIN stack[t] : stack'[t][i] = stack[t][i]
         /\ stack'[t][Len(stack[t]) + 1] = f
<1> DEFINE s == stack[t]
           r == Append(s, f)
<1>1. s \in Seq(Frames) /\ Len(s) \in Nat /\ DOMAIN s = 1..Len(s)
  BY TopType DEF Stacks
<1>2. r \in Seq(Frames) /\ Len(r) = Len(s) + 1 /\ DOMAIN r = 1..(Len(s) + 1)
      /\ (\A i \in 1..Len(s) : r[i] = s[i]) /\ r[Len(s) + 1] = f
  BY <1>1
<1>3. r # <<>>
  BY <1>1, <1>2
<1>4. stack' = [stack EXCEPT ![t] = r]
  OBVIOUS
<1> HIDE DEF r, s
<1>5. QED
  BY <1>1, <1>2, <1>3, <1>4 DEF Stacks, s

(* A lox handler that ends leaves the n frames below the one it goes on in. *)
LEMMA Cutting ==
  ASSUME stack \in Stacks, Main \in Threads, NEW n \in Nat, n < Len(stack[Main]),
         NEW f \in Frames,
         stack' = [stack EXCEPT ![Main] = Append(SubSeq(@, 1, n), f)]
  PROVE  /\ stack' \in Stacks
         /\ \A u \in Threads \ {Main} : stack'[u] = stack[u]
         /\ DOMAIN stack'[Main] = 1..(n + 1) /\ Len(stack'[Main]) = n + 1
         /\ \A i \in 1..n : stack'[Main][i] = stack[Main][i]
         /\ stack'[Main][n + 1] = f
<1> DEFINE s == stack[Main]
           c == SubSeq(s, 1, n)
           r == Append(c, f)
<1>1. s \in Seq(Frames) /\ Len(s) \in Nat
  BY DEF Stacks
<1>2. c \in Seq(Frames) /\ Len(c) = n /\ \A i \in 1..n : c[i] = s[i]
  <2> HIDE DEF s
  <2>1. n \in 0..Len(s) /\ \A i \in 1..n : i \in DOMAIN s
    BY <1>1 DEF s
  <2>2. QED
    BY <1>1, <2>1
<1> HIDE DEF c
<1>3. r \in Seq(Frames) /\ Len(r) = n + 1 /\ DOMAIN r = 1..(n + 1)
      /\ (\A i \in 1..n : r[i] = s[i]) /\ r[n + 1] = f
  BY <1>2
<1>4. r # <<>>
  <2> HIDE DEF r
  <2>1. Len(r) # 0
    BY <1>3
  <2>2. QED
    BY <2>1
<1>5. stack' = [stack EXCEPT ![Main] = r]
  BY DEF c
<1> HIDE DEF r, s
<1>6. QED
  BY <1>3, <1>4, <1>5 DEF Stacks, s

(* Where an update of a counter goes on. *)
LEMMA Updates ==
  ASSUME NEW f \in Frames, Updating(f)
  PROVE  /\ f.at \in {"cnt", "size", "dcnt", "dsize"}
         /\ f.at = "cnt" => NextPlace[f.at] = "size"
         /\ f.at = "size" => NextPlace[f.at] = "lock"
         /\ f.at = "dcnt" => NextPlace[f.at] = "dsize"
         /\ f.at = "dsize" => NextPlace[f.at] = "exec"
         /\ NextPlace[f.at] \in Places
BY DEF Updating, NextPlace, Places

(* What Store does to the frame, with and without a load before it. *)
LEMMA StoreEffect ==
  ASSUME TypeOK, Counting, NEW t \in Threads, Store(t)
  PROVE  LET f == Top(t) g == Frame(NextPlace[f.at], f.sig)
         IN  /\ Updating(f) /\ f \in Frames /\ g \in Frames
             /\ g.at = NextPlace[f.at] /\ g.sig = f.sig
             /\ Becomes(t, g)
             /\ size' \in Int /\ cnt' \in [Sigs -> Int]
             /\ \A s \in Sigs \ {f.sig} : cnt'[s] = cnt[s]
             /\ f.at \notin {"cnt", "dcnt"} => cnt' = cnt
             /\ UNCHANGED <<trapFlag, interruptLock, listVars, drainVars, gvl, sent>>
<1> DEFINE f == Top(t)
           g == Frame(NextPlace[f.at], f.sig)
           new == Delta(f) + (IF Torn THEN f.reg ELSE Current(f))
<1>0. /\ stack \in Stacks /\ handling \in Nat /\ size \in Int /\ cnt \in [Sigs -> Int]
      /\ Torn \in BOOLEAN
  BY SignalsAssumption DEF TypeOK, Stacks
<1>1. f \in Frames /\ Updating(f) /\ f.sig \in Sigs \cup {0} /\ f.reg \in Int
  BY <1>0, TopType DEF Store, Frames
<1>2. g \in Frames /\ g.at = NextPlace[f.at] /\ g.sig = f.sig
  BY <1>1, Updates, FrameNew
<1>3. OnCnt(f) => f.sig \in Sigs
  BY <1>0, TopType DEF Counting, OnCnt
<1>4. Current(f) \in Int
  BY <1>0, <1>3 DEF Current
<1>5. Delta(f) \in Int
  BY DEF Delta
<1>6. new \in Int
  BY <1>0, <1>1, <1>4, <1>5
<1>7. /\ Becomes(t, g)
      /\ UNCHANGED <<trapFlag, interruptLock, listVars, drainVars, gvl, sent>>
      /\ OnCnt(f) => cnt' = [cnt EXCEPT ![f.sig] = new] /\ size' = size
      /\ ~OnCnt(f) => size' = new /\ cnt' = cnt
  BY DEF Store
<1> HIDE DEF new, f, g
<1>8. size' \in Int /\ cnt' \in [Sigs -> Int]
      /\ \A s \in Sigs \ {f.sig} : cnt'[s] = cnt[s]
  BY <1>0, <1>6, <1>7
<1>9. f.at \notin {"cnt", "dcnt"} => cnt' = cnt
  BY <1>7 DEF OnCnt
<1>10. QED
  BY <1>1, <1>2, <1>7, <1>8, <1>9 DEF f, g

(* The signal getSignal returns. *)
LEMMA LowestQueued == Queued # {} => Min(Queued) \in Queued
<1> SUFFICES ASSUME Queued # {} PROVE Min(Queued) \in Queued
  OBVIOUS
<1>1. Queued \in SUBSET Nat
  BY SignalsAssumption DEF Queued
<1>2. \E n \in Queued : \A m \in Queued : n <= m
  BY <1>1, LeastMember
<1>3. QED
  BY <1>2 DEF Min

(* The invariants hold at the start. *)
LEMMA FlowInit == Init => IInv /\ Announced
<1> SUFFICES ASSUME Init PROVE IInv /\ Announced
  OBVIOUS
<1>1. Frame("vm", 0) \in Frames /\ Frame("vm", 0).at = "vm"
  BY FrameNew DEF Places
<1>2. stack \in [Threads -> Seq(Frames) \ {<<>>}]
      /\ \A t \in Threads : stack[t] = <<Frame("vm", 0)>>
  BY <1>1 DEF Init
<1>3. \A t \in Threads : \A i \in DOMAIN stack[t] : i = 1 /\ stack[t][i].at = "vm"
  BY <1>1, <1>2
<1>4. TypeOK
  <2>1. sigHandlers \in Seq(Sigs) /\ interruptLock \in {{}} \cup {{t} : t \in Threads}
    BY DEF Init
  <2>2. cnt \in [Sigs -> Int] /\ size \in Int
    BY DEF Init
  <2>5. trapFlag \in BOOLEAN
    BY DEF Init
  <2>3. handling \in Nat /\ abandoned \in BOOLEAN
    BY DEF Init
  <2>6. traps \in 0..MaxTraps /\ sent \in 0..MaxSent /\ gvl \in Threads
    BY SignalsAssumption DEF Init
  <2>4. QED
    BY <1>2, <2>1, <2>2, <2>3, <2>5, <2>6 DEF TypeOK
<1>5. Stacked /\ Counting
  <2>1. \A t \in Threads : OwnFrames(t) = 1
    BY DEF Init, OwnFrames
  <2>2. QED
    BY <1>3, <2>1 DEF Stacked, Counting, Draining
<1>8. Nested
  <2>1. handling = 0 /\ Len(stack[Main]) = 1
    BY <1>2, SignalsAssumption DEF Init
  <2>2. QED
    BY <2>1 DEF Nested
<1>6. Announced
  <2>1. 1 \in DOMAIN stack[Main] /\ Base = "vm"
    BY <1>2, <1>3, SignalsAssumption DEF Base
  <2>2. QED
    BY <2>1 DEF Init, Announced
<1>7. QED
  BY <1>4, <1>5, <1>6, <1>8 DEF IInv

(* Every step keeps TypeOK. *)
LEMMA TypeStep == IInv /\ [Next]_vars => TypeOK'
<1> SUFFICES ASSUME TypeOK, Counting, Nested, [Next]_vars PROVE TypeOK'
  BY DEF IInv
<1>0. stack \in Stacks /\ Main \in Threads /\ handling \in Nat
  BY SignalsAssumption DEF TypeOK, Stacks
<1> DEFINE Rest == /\ cnt \in [Sigs -> Int] /\ size \in Int /\ trapFlag \in BOOLEAN
                   /\ interruptLock \in {{}} \cup {{t} : t \in Threads}
                   /\ sigHandlers \in Seq(Sigs)
                   /\ handling \in Nat /\ abandoned \in BOOLEAN
                   /\ traps \in 0..MaxTraps /\ gvl \in Threads /\ sent \in 0..MaxSent
<1> USE SignalsAssumption DEF queueVars, listVars, drainVars
<1>a. Rest /\ (stack' \in Stacks /\ Rest' => TypeOK')
  BY DEF TypeOK, Stacks
<1> HIDE DEF Rest
<1>b. {"vm", "unlock", "check", "drain"} \subseteq Places
  BY DEF Places
<1>1. CASE UNCHANGED vars
  BY <1>0, <1>1, <1>a DEF vars, Rest
<1>2. ASSUME NEW t \in Threads, Load(t) PROVE TypeOK'
  <2>1. Top(t) \in Frames /\ Current(Top(t)) \in Int
    BY <1>0, <1>2, TopType DEF TypeOK, Counting, Current, OnCnt
  <2>2. stack' \in Stacks
    BY <1>0, <1>2, <2>1, Becoming, FrameLoads DEF Load
  <2>3. Rest'
    BY <1>2, <1>a DEF Load, Rest
  <2>4. QED
    BY <1>a, <2>2, <2>3
<1>3. ASSUME NEW t \in Threads, Store(t) PROVE TypeOK'
  <2>1. stack' \in Stacks
    BY <1>0, <1>3, StoreEffect, Becoming
  <2>2. Rest'
    BY <1>3, <1>a, StoreEffect DEF Rest
  <2>3. QED
    BY <1>a, <2>1, <2>2
<1>4. ASSUME NEW t \in Threads, LockAndSet(t) PROVE TypeOK'
  <2>1. stack' \in Stacks
    BY <1>0, <1>4, <1>b, Going DEF LockAndSet
  <2>2. Rest'
    BY <1>4, <1>a DEF LockAndSet, Rest
  <2>3. QED
    BY <1>a, <2>1, <2>2
<1>5. ASSUME NEW t \in Threads, Unlock(t) PROVE TypeOK'
  <2>1. stack' \in Stacks
    BY <1>0, <1>5, <1>b, Going, Returning DEF Unlock
  <2>2. Rest'
    BY <1>5, <1>a DEF Unlock, Rest
  <2>3. QED
    BY <1>a, <2>1, <2>2
<1>6. ASSUME NEW t \in Threads, Switch(t) PROVE TypeOK'
  <2>1. stack' \in Stacks
    BY <1>0, <1>6, <1>b, Going DEF Switch
  <2>2. Rest'
    BY <1>6, <1>a DEF Switch, Rest
  <2>3. QED
    BY <1>a, <2>1, <2>2
<1>7. ASSUME NEW t \in Threads, NEW s \in Sigs, Trap(t, s) PROVE TypeOK'
  <2>2. ASSUME stack' = [u \in Threads |-> <<Frame("crashed", 0)>>]
        PROVE  stack' \in Stacks
    <3>1. Frame("crashed", 0) \in Frames
      BY FrameNew DEF Places
    <3>2. QED
      BY <2>2, <3>1 DEF Stacks
  <2>3. stack' \in Stacks
    BY <1>0, <1>7, <2>2 DEF Trap
  <2>4. sigHandlers' \in Seq(Sigs) /\ traps' \in 0..MaxTraps
    BY <1>7, <1>a DEF Trap, Rest
  <2>5. Rest'
    BY <1>7, <1>a, <2>4 DEF Trap, Rest
  <2>6. QED
    BY <1>a, <2>3, <2>5
<1>8. ASSUME NEW t \in Threads, NEW s \in Sigs,
             ProcessSignal(t, s) \/ SignalArrives(t, s)
      PROVE  TypeOK'
  <2>1. Frame("cnt", s) \in Frames
    BY FrameNew DEF Places
  <2>2. stack' \in Stacks
    BY <1>0, <1>8, <2>1, Becoming, Arriving DEF ProcessSignal, SignalArrives
  <2>3. Rest'
    BY <1>8, <1>a DEF ProcessSignal, SignalArrives, Rest
  <2>4. QED
    BY <1>a, <2>2, <2>3
<1>9. CASE CheckInts \/ CheckFlag
  <2>1. \E at \in Places : Goes(Main, at)
    BY <1>9, <1>b DEF CheckInts, CheckFlag
  <2>2. stack' \in Stacks
    BY <1>0, <2>1, Going
  <2>3. Rest'
    BY <1>9, <1>a DEF CheckInts, CheckFlag, Rest
  <2>4. QED
    BY <1>a, <2>2, <2>3
<1>10. CASE GetSignal
  <2>1. CASE size = 0 \/ Queued = {}
    <3>1. stack' \in Stacks
      BY <1>0, <1>10, <2>1, <1>b, Going DEF GetSignal
    <3>2. Rest'
      BY <1>10, <1>a DEF GetSignal, Rest
    <3>3. QED
      BY <1>a, <3>1, <3>2
  <2>2. CASE ~(size = 0 \/ Queued = {})
    <3>1. Min(Queued) \in Sigs
      BY <2>2, LowestQueued DEF Queued
    <3>2. Frame("dcnt", Min(Queued)) \in Frames
      BY <3>1, FrameNew DEF Places
    <3>3. stack' \in Stacks
      BY <1>0, <1>10, <2>2, <3>2, Becoming DEF GetSignal
    <3>4. Rest'
      BY <1>10, <1>a DEF GetSignal, Rest
    <3>5. QED
      BY <1>a, <3>3, <3>4
  <2>3. QED
    BY <2>1, <2>2
<1>11. CASE ExecSignal
  <2>1. stack' \in Stacks
    <3>1. CASE Trapped(Top(Main).sig)
      BY <1>0, <1>11, <1>b, <3>1, FrameNew, Arriving DEF ExecSignal
    <3>2. CASE ~Trapped(Top(Main).sig)
      BY <1>0, <1>11, <1>b, <3>2, Going DEF ExecSignal
    <3>3. QED
      BY <3>1, <3>2
  <2>2. Rest'
    <3>1. (abandoned' = abandoned \/ abandoned' = ~trapFlag)
          /\ (handling' = handling \/ handling' = handling + 1)
      BY <1>11 DEF ExecSignal, Abandons
    <3>2. handling' \in Nat
      BY <3>1, <1>a DEF Rest
    <3>3. abandoned' \in BOOLEAN
      BY <3>1, <1>a, Zenon DEF Rest
    <3>4. QED
      BY <1>11, <1>a, <3>2, <3>3 DEF ExecSignal, Rest
  <2>3. QED
    BY <1>a, <2>1, <2>2
<1>12. CASE HandlerReturns
  <2>1. handling - 1 \in Nat /\ handling - 1 < Len(stack[Main])
    BY <1>0, <1>12, TopType DEF HandlerReturns, Nested
  <2>2. stack' \in Stacks
    BY <1>0, <1>12, <1>b, <2>1, FrameNew, Cutting DEF HandlerReturns
  <2>3. Rest'
    BY <1>12, <1>a, <2>1 DEF HandlerReturns, Rest
  <2>4. QED
    BY <1>a, <2>2, <2>3
<1>13. ASSUME NEW n \in 1..handling, HandlerThrows(n) PROVE TypeOK'
  <2>1. n - 1 \in Nat /\ n - 1 < Len(stack[Main])
    BY <1>0, <1>13, TopType DEF Nested
  <2>2. stack' \in Stacks
    BY <1>0, <1>13, <1>b, <2>1, FrameNew, Cutting DEF HandlerThrows
  <2>3. Rest'
    BY <1>13, <1>a, <2>1 DEF HandlerThrows, Abandons, Rest
  <2>4. QED
    BY <1>a, <2>2, <2>3
<1>14. QED
  BY <1>1, <1>2, <1>3, <1>4, <1>5, <1>6, <1>7, <1>8, <1>9, <1>10, <1>11, <1>12,
     <1>13 DEF Next, Interrupts, Progress, HandlerEnds

------------------------------------------------------------------------------
(* What each change of a stack does to the strengthening and to what       *)
(* Announced looks at: a move of one frame, *)
LEMMA BecomingShape ==
  ASSUME IInv, NEW t \in Threads, NEW f \in Frames, Becomes(t, f),
         UNCHANGED handling,
         InHandler(t) => f.at \in Interrupting,
         t # Main => f.at \notin Draining,
         f.at \in {"cnt", "dcnt"} => f.sig \in Sigs
  PROVE  /\ Stacked' /\ Nested' /\ Counting'
         /\ Base' = IF t = Main /\ ~InHandler(Main) /\ handling = 0
                    THEN f.at ELSE Base
         /\ ~Pending' => f.at \notin Coming /\ (Pending => Top(t).at \in Coming)
<1>0. /\ stack \in Stacks /\ handling \in Nat /\ Main \in Threads
      /\ Stacked /\ Nested /\ Counting
  BY SignalsAssumption DEF IInv, TypeOK, Stacks
<1> USE <1>0, Becoming, TopType
<1>1. \A u \in Threads : OwnFrames(u)' = OwnFrames(u)
  BY DEF OwnFrames
<1>2. Stacked' /\ Counting'
  BY <1>1 DEF Stacked, Counting
<1>3. Nested'
  <2>1. Len(stack'[Main]) = Len(stack[Main])
    <3>1. Len(stack'[Main]) \in Nat /\ DOMAIN stack'[Main] = 1..Len(stack'[Main])
      BY DEF Stacks
    <3>2. DOMAIN stack'[Main] = 1..Len(stack[Main])
      OBVIOUS
    <3>3. QED
      BY <3>1, <3>2
  <2>2. \A i \in 1..handling : i \in DOMAIN stack[Main] /\ i # Len(stack[Main])
    BY DEF Nested
  <2>3. QED
    BY <2>1, <2>2 DEF Nested
<1>4. Base' = IF t = Main /\ ~InHandler(Main) /\ handling = 0 THEN f.at ELSE Base
  BY DEF Base, Nested
<1>5. ~Pending' => f.at \notin Coming /\ (Pending => Top(t).at \in Coming)
  BY DEF Pending
<1>6. QED
  BY <1>2, <1>3, <1>4, <1>5

(* the return of a C handler, *)
LEMMA ReturningShape ==
  ASSUME IInv, NEW t \in Threads, InHandler(t), Returns(t), UNCHANGED handling
  PROVE  /\ Stacked' /\ Nested' /\ Counting'
         /\ Base' = Base
         /\ ~Pending' => (Pending => Top(t).at \in Coming)
<1>0. /\ stack \in Stacks /\ handling \in Nat /\ Main \in Threads
      /\ Stacked /\ Nested /\ Counting
  BY SignalsAssumption DEF IInv, TypeOK, Stacks
<1> USE <1>0
<1>1. \A u \in Threads : \A i \in DOMAIN stack'[u] :
        i \in DOMAIN stack[u] /\ stack'[u][i] = stack[u][i]
  <2>1. \A i \in 1..(Len(stack[t]) - 1) : i \in DOMAIN stack[t]
    BY TopType
  <2>2. QED
    BY <2>1, Returning
<1>2. Stacked' /\ Counting'
  <2>1. \A u \in Threads : OwnFrames(u)' = OwnFrames(u)
    BY DEF OwnFrames
  <2>2. QED
    BY <1>1, <2>1 DEF Stacked, Counting
<1>3. Nested'
  <2>1. CASE t = Main
    <3>1. Len(stack'[Main]) \in Nat /\ DOMAIN stack'[Main] = 1..Len(stack'[Main])
      BY Returning DEF Stacks
    <3>2. DOMAIN stack'[Main] = 1..(Len(stack[Main]) - 1)
      BY <2>1, Returning
    <3>3. Len(stack[Main]) \in Nat /\ Len(stack[Main]) > handling + 1
      BY <2>1, TopType
    <3>4. Len(stack'[Main]) = Len(stack[Main]) - 1
      BY <3>1, <3>2, <3>3
    <3>5. \A i \in 1..handling : i \in DOMAIN stack'[Main]
      BY <3>1, <3>3, <3>4
    <3>6. QED
      BY <1>1, <3>3, <3>4, <3>5 DEF Nested
  <2>2. CASE t # Main
    BY <2>2, Returning DEF Nested
  <2>3. QED
    BY <2>1, <2>2
<1>4. Base' = Base
  <2>1. Len(stack[t]) \in Nat /\ Len(stack[t]) > 1
    BY TopType
  <2>2. QED
    BY <2>1, Returning DEF Base
<1>5. ~Pending' => (Pending => Top(t).at \in Coming)
  <2>1. ASSUME Pending, ~Pending' PROVE Top(t).at \in Coming
    <3>1. PICK u \in Threads : \E i \in DOMAIN stack[u] : stack[u][i].at \in Coming
      BY <2>1 DEF Pending
    <3> PICK i \in DOMAIN stack[u] : stack[u][i].at \in Coming
      BY <3>1
    <3>2. ~(i \in DOMAIN stack'[u] /\ stack'[u][i] = stack[u][i])
      BY <2>1, <3>1 DEF Pending
    <3>3. u = t
      BY <3>1, <3>2, Returning
    <3>4. i = Len(stack[t])
      <4>1. i \in 1..Len(stack[t]) /\ Len(stack[t]) \in Nat
        BY <3>3, TopType
      <4>2. i \notin 1..(Len(stack[t]) - 1)
        BY <3>2, <3>3, Returning
      <4>3. QED
        BY <4>1, <4>2
    <3>5. QED
      BY <3>1, <3>3, <3>4, TopType
  <2>2. QED
    BY <2>1
<1>6. QED
  BY <1>2, <1>3, <1>4, <1>5

(* the beginning of a C handler, which brings a signal, *)
LEMMA ArrivingShape ==
  ASSUME IInv, NEW t \in Threads, NEW f \in Frames, UNCHANGED handling,
         stack' = [stack EXCEPT ![t] = Append(@, f)],
         f.at = "cnt", f.sig \in Sigs
  PROVE  /\ Stacked' /\ Nested' /\ Counting'
         /\ Base' = Base /\ Pending'
<1>0. /\ stack \in Stacks /\ handling \in Nat /\ Main \in Threads
      /\ Stacked /\ Nested /\ Counting
  BY SignalsAssumption DEF IInv, TypeOK, Stacks
<1> USE <1>0, Arriving, TopType
<1>1. Stacked' /\ Counting'
  <2>1. \A u \in Threads : OwnFrames(u)' = OwnFrames(u)
    BY DEF OwnFrames
  <2>2. QED
    BY <2>1 DEF Stacked, Counting, Interrupting, Coming, Draining
<1>2. Nested'
  <2>1. CASE t = Main
    <3>1. Len(stack'[Main]) \in Nat /\ DOMAIN stack'[Main] = 1..Len(stack'[Main])
      BY DEF Stacks
    <3>2. Len(stack'[Main]) = Len(stack[Main]) + 1
      <4>1. DOMAIN stack'[Main] = 1..(Len(stack[Main]) + 1) /\ Len(stack[Main]) \in Nat
        BY <2>1
      <4>2. QED
        BY ONLY <3>1, <4>1
    <3>3. \A i \in 1..handling : i \in DOMAIN stack[Main]
      BY DEF Nested
    <3>4. QED
      BY <2>1, <3>2, <3>3 DEF Nested
  <2>2. CASE t # Main
    BY <2>2 DEF Nested
  <2>3. QED
    BY <2>1, <2>2
<1>3. Base' = Base
  BY DEF Base
<1>4. Pending'
  <2>1. Len(stack[t]) \in Nat /\ DOMAIN stack'[t] = 1..(Len(stack[t]) + 1)
    OBVIOUS
  <2>2. Len(stack[t]) + 1 \in DOMAIN stack'[t]
    BY ONLY <2>1
  <2>3. stack'[t][Len(stack[t]) + 1].at = "cnt"
    OBVIOUS
  <2>4. QED
    BY <2>2, <2>3 DEF Pending, Coming
<1>5. QED
  BY <1>1, <1>2, <1>3, <1>4

(* the call of a lox handler, *)
LEMMA CallingShape ==
  ASSUME IInv, NEW f \in Frames, f.at = "vm",
         Top(Main).at = "exec", ~InHandler(Main), handling' = handling + 1,
         stack' = [stack EXCEPT ![Main] = Append(@, f)]
  PROVE  Stacked' /\ Nested' /\ Counting' /\ Base' = "exec"
<1>0. /\ stack \in Stacks /\ handling \in Nat /\ Main \in Threads
      /\ Stacked /\ Nested /\ Counting
  BY SignalsAssumption DEF IInv, TypeOK, Stacks
<1>1. Len(stack[Main]) = handling + 1 /\ stack[Main][handling + 1].at = "exec"
      /\ DOMAIN stack[Main] = 1..(handling + 1)
  BY <1>0, TopType DEF Nested
<1>2. /\ stack' \in Stacks
      /\ \A u \in Threads \ {Main} : stack'[u] = stack[u]
      /\ DOMAIN stack'[Main] = 1..(handling + 2)
      /\ \A i \in 1..(handling + 1) : stack'[Main][i] = stack[Main][i]
      /\ stack'[Main][handling + 2] = f
  <2>1. handling + 1 + 1 = handling + 2
    BY <1>0
  <2>2. /\ stack' \in Stacks
        /\ \A u \in Threads \ {Main} : stack'[u] = stack[u]
        /\ DOMAIN stack'[Main] = 1..(handling + 1 + 1)
        /\ \A i \in DOMAIN stack[Main] : stack'[Main][i] = stack[Main][i]
        /\ stack'[Main][handling + 1 + 1] = f
    BY <1>0, <1>1, Arriving
  <2>3. QED
    BY <1>1, <2>1, <2>2
<1>3. /\ \A u \in Threads \ {Main} : OwnFrames(u)' = OwnFrames(u)
      /\ OwnFrames(Main)' = handling + 2
  BY <1>0 DEF OwnFrames
<1>4. \A i \in 1..(handling + 1) : stack'[Main][i].at = "exec"
  BY <1>0, <1>1, <1>2 DEF Nested
<1>5. Stacked'
  <2>1. \A i \in DOMAIN stack'[Main] : ~(i > OwnFrames(Main)')
    BY <1>0, <1>2, <1>3
  <2>2. QED
    BY <1>0, <1>2, <1>3, <2>1 DEF Stacked
<1>6. Nested'
  <2>1. Len(stack'[Main]) = handling + 2
    BY <1>0, <1>2 DEF Stacks
  <2>2. QED
    BY <1>0, <1>4, <2>1 DEF Nested
<1>7. Counting'
  <2>1. \A i \in DOMAIN stack'[Main] : stack'[Main][i].at \in {"exec", "vm"}
    BY <1>0, <1>2, <1>4
  <2>2. QED
    BY <1>0, <1>2, <2>1 DEF Counting
<1>8. Base' = "exec"
  BY <1>0, <1>4 DEF Base
<1>9. QED
  BY <1>5, <1>6, <1>7, <1>8

(* and its end, by which the lox code below, with the n drains below that, *)
(* goes on. *)
LEMMA EndingShape ==
  ASSUME IInv, NEW f \in Frames, f.at \in {"vm", "drain"}, AtVM(Main),
         NEW n \in Nat, n < handling, handling' = n,
         stack' = [stack EXCEPT ![Main] = Append(SubSeq(@, 1, n), f)]
  PROVE  /\ Stacked' /\ Nested' /\ Counting'
         /\ Base' = IF n = 0 THEN f.at ELSE "exec"
         /\ ~Pending' => ~Pending
<1>0. /\ stack \in Stacks /\ handling \in Nat /\ Main \in Threads
      /\ Stacked /\ Nested /\ Counting
  BY SignalsAssumption DEF IInv, TypeOK, Stacks
<1>1. /\ Len(stack[Main]) = handling + 1 /\ stack[Main][handling + 1].at = "vm"
      /\ DOMAIN stack[Main] = 1..(handling + 1)
  BY <1>0, TopType DEF Nested, AtVM
<1>2. /\ stack' \in Stacks
      /\ \A u \in Threads \ {Main} : stack'[u] = stack[u]
      /\ DOMAIN stack'[Main] = 1..(n + 1) /\ Len(stack'[Main]) = n + 1
      /\ \A i \in 1..n : stack'[Main][i] = stack[Main][i]
      /\ stack'[Main][n + 1] = f
  <2>1. n < Len(stack[Main])
    BY <1>0, <1>1
  <2>2. QED
    BY <1>0, <2>1, Cutting
<1>3. /\ \A u \in Threads \ {Main} : OwnFrames(u)' = OwnFrames(u)
      /\ OwnFrames(Main)' = n + 1
  BY <1>0 DEF OwnFrames
<1>4. \A i \in 1..n : stack'[Main][i].at = "exec"
  BY <1>0, <1>2 DEF Nested
<1>5. Stacked'
  <2>1. \A i \in DOMAIN stack'[Main] : ~(i > OwnFrames(Main)')
    BY <1>2, <1>3
  <2>2. QED
    BY <1>0, <1>2, <1>3, <2>1 DEF Stacked
<1>6. Nested'
  BY <1>2, <1>4 DEF Nested
<1>7. Counting'
  <2>1. \A i \in DOMAIN stack'[Main] : stack'[Main][i].at \in {"exec", "vm", "drain"}
    BY <1>2, <1>4
  <2>2. QED
    BY <1>0, <1>2, <2>1 DEF Counting
<1>8. Base' = IF n = 0 THEN f.at ELSE "exec"
  BY <1>2, <1>4 DEF Base
<1>9. ~Pending' => ~Pending
  <2>1. \A i \in DOMAIN stack[Main] : stack[Main][i].at \notin Coming
    BY <1>0, <1>1 DEF Nested, Coming
  <2>2. QED
    BY <1>0, <1>2, <2>1 DEF Pending
<1>10. QED
  BY <1>5, <1>6, <1>7, <1>8, <1>9

(* Going to a place is becoming a frame at that place. *)
LEMMA GoingFrame ==
  ASSUME stack \in Stacks, handling \in Nat, NEW t \in Threads, NEW at \in Places,
         Goes(t, at)
  PROVE  \E f \in Frames : f.at = at /\ f.sig = Top(t).sig /\ Becomes(t, f)
<1> DEFINE f == [Top(t) EXCEPT !.at = at]
<1>1. f \in Frames /\ f.at = at /\ f.sig = Top(t).sig
  BY TopType, FrameMoves
<1>2. Becomes(t, f)
  BY DEF Goes
<1> HIDE DEF f
<1>3. QED
  BY <1>1, <1>2

(* The main thread's drain has no C handler above it, and the program below *)
(* a lox handler waits in the drain. *)
LEMMA DrainIsOwn ==
  ASSUME IInv
  PROVE  /\ Top(Main).at \in Draining => ~InHandler(Main)
         /\ Base = "exec" \/ handling = 0
         /\ ~InHandler(Main) /\ handling = 0 => Base = Top(Main).at
<1>0. /\ stack \in Stacks /\ handling \in Nat /\ Main \in Threads
      /\ Stacked /\ Nested
  BY SignalsAssumption DEF IInv, TypeOK, Stacks
<1>1. Top(Main).at \in Draining => ~InHandler(Main)
  BY <1>0, TopType DEF Stacked, Interrupting, Coming, Draining
<1>2. Base = "exec" \/ handling = 0
  BY <1>0 DEF Nested, Base
<1>3. ~InHandler(Main) /\ handling = 0 => Base = Top(Main).at
  BY <1>0, TopType DEF Base, Nested
<1>4. QED
  BY <1>1, <1>2, <1>3

(* One pass over the actions. *)
LEMMA FlowStep ==
  ASSUME IInv, Announced, [Next]_vars
  PROVE  Stacked' /\ Nested' /\ Counting' /\ Announced'
<1> DEFINE Shape == Stacked' /\ Nested' /\ Counting'
           Goal == Shape /\ Announced'
<1>0. /\ stack \in Stacks /\ handling \in Nat /\ Stacked /\ Nested /\ Counting
      /\ TypeOK /\ Main \in Threads
  BY SignalsAssumption DEF IInv, TypeOK, Stacks
<1> USE <1>0
<1>a. {"vm", "unlock", "check", "drain"} \subseteq Places
  BY DEF Places
<1>b. /\ Top(Main).at \in Draining => ~InHandler(Main)
      /\ Base = "exec" \/ handling = 0
      /\ ~InHandler(Main) /\ handling = 0 => Base = Top(Main).at
  BY DrainIsOwn
<1>1. CASE UNCHANGED vars
  <2>1. \A t : OwnFrames(t)' = OwnFrames(t)
    BY <1>1 DEF vars, OwnFrames
  <2>2. QED
    BY <1>1, <2>1 DEF vars, Stacked, Nested, Counting, Announced, Pending,
                      Base, Queued
<1>2. ASSUME NEW t \in Threads, Load(t) PROVE Goal
  <2>1. /\ Top(t) \in Frames /\ Current(Top(t)) \in Int
        /\ Top(t) = stack[t][Len(stack[t])] /\ Len(stack[t]) \in DOMAIN stack[t]
        /\ InHandler(t) <=> Len(stack[t]) > OwnFrames(t)
    BY <1>2, TopType DEF TypeOK, Counting, Current, OnCnt
  <2>2. PICK f \in Frames : f.at = Top(t).at /\ f.sig = Top(t).sig /\ Becomes(t, f)
    BY <1>2, <2>1, FrameLoads DEF Load
  <2>3. /\ InHandler(t) => f.at \in Interrupting
        /\ t # Main => f.at \notin Draining
        /\ f.at \in {"cnt", "dcnt"} => f.sig \in Sigs
    BY <2>1, <2>2 DEF Stacked, Counting
  <2>4. UNCHANGED <<cnt, size, trapFlag, handling, abandoned>>
    BY <1>2 DEF Load, queueVars, drainVars
  <2>5. /\ Shape
        /\ Base' = Base
        /\ ~Pending' => ~Pending
    BY <1>b, <2>2, <2>3, <2>4, BecomingShape
  <2>6. Announced'
    BY <2>4, <2>5 DEF Announced, Queued
  <2>7. QED
    BY <2>5, <2>6
<1>3. ASSUME NEW t \in Threads, Store(t) PROVE Goal
  <2> DEFINE f == Top(t)
             g == Frame(NextPlace[f.at], f.sig)
  <2>1. /\ Updating(f) /\ f \in Frames /\ g \in Frames
        /\ g.at = NextPlace[f.at] /\ g.sig = f.sig /\ Becomes(t, g)
        /\ UNCHANGED <<trapFlag, handling, abandoned>>
    BY <1>3, StoreEffect DEF drainVars
  <2>2. f = stack[t][Len(stack[t])] /\ Len(stack[t]) \in DOMAIN stack[t]
        /\ (InHandler(t) <=> Len(stack[t]) > OwnFrames(t))
    BY TopType
  <2> HIDE DEF f, g
  <2>3. \/ f.at \in {"cnt", "size"} /\ g.at \in {"size", "lock"}
        \/ f.at \in {"dcnt", "dsize"} /\ g.at \in {"dsize", "exec"}
    BY <2>1, Updates
  <2>4. /\ InHandler(t) => g.at \in Interrupting
        /\ t # Main => g.at \notin Draining
        /\ g.at \notin {"cnt", "dcnt"}
    BY <2>1, <2>2, <2>3 DEF Stacked, Interrupting, Coming, Draining
  <2>5. /\ Shape
        /\ Base' = IF t = Main /\ ~InHandler(Main) /\ handling = 0
                   THEN g.at ELSE Base
        /\ ~Pending' => g.at \notin Coming
    BY <2>1, <2>4, BecomingShape
  <2>6. Announced'
    <3>1. CASE f.at \in {"cnt", "size"}
      <4>1. Pending' /\ (Base' # "unlock" \/ Base' = Base)
        BY <2>3, <2>5, <3>1 DEF Coming
      <4>2. QED
        BY <2>1, <4>1 DEF Announced
    <3>2. CASE f.at \in {"dcnt", "dsize"}
      <4>1. t = Main /\ ~InHandler(Main)
        BY <2>2, <3>2, <1>b DEF Stacked, Draining, f
      <4>2. Base' \in {"dsize", "exec"}
        BY <2>3, <2>5, <3>2, <4>1, <1>b
      <4>3. QED
        BY <4>2 DEF Announced
    <3>3. QED
      BY <2>3, <3>1, <3>2
  <2>7. QED
    BY <2>5, <2>6
<1>4. ASSUME NEW t \in Threads, LockAndSet(t) PROVE Goal
  <2>1. PICK f \in Frames : f.at = "unlock" /\ Becomes(t, f)
    BY <1>4, <1>a, GoingFrame DEF LockAndSet
  <2>2. Shape
    BY <1>4, <2>1, BecomingShape DEF LockAndSet, Interrupting, Draining
  <2>3. Announced'
    BY <1>4 DEF LockAndSet, Announced
  <2>4. QED
    BY <2>2, <2>3
<1>5. ASSUME NEW t \in Threads, Unlock(t) PROVE Goal
  <2>1. UNCHANGED <<cnt, size, trapFlag, handling, abandoned>> /\ Top(t).at = "unlock"
    BY <1>5 DEF Unlock, queueVars, drainVars
  <2>2. CASE InHandler(t) /\ Returns(t)
    <3>1. Shape /\ Base' = Base /\ (~Pending' => ~Pending)
      BY <2>1, <2>2, ReturningShape DEF Coming
    <3>2. Announced'
      BY <2>1, <3>1 DEF Announced, Queued
    <3>3. QED
      BY <3>1, <3>2
  <2>3. CASE ~InHandler(t) /\ Goes(t, IF t = Main THEN "check" ELSE "vm")
    <3> DEFINE at == IF t = Main THEN "check" ELSE "vm"
    <3>1. PICK f \in Frames : f.at = at /\ Becomes(t, f)
      BY <2>3, <1>a, GoingFrame
    <3>2. /\ Shape
          /\ Base' = IF t = Main /\ ~InHandler(Main) /\ handling = 0
                     THEN f.at ELSE Base
          /\ ~Pending' => ~Pending
      BY <2>1, <2>3, <3>1, BecomingShape DEF Coming, Draining
    <3>3. Announced'
      BY <2>1, <2>3, <3>1, <3>2, <1>b DEF Announced, Queued
    <3>4. QED
      BY <3>2, <3>3
  <2>4. QED
    BY <1>5, <2>2, <2>3 DEF Unlock
<1>6. ASSUME NEW t \in Threads, Switch(t) PROVE Goal
  <2>1. UNCHANGED <<cnt, size, trapFlag, handling, abandoned>>
    BY <1>6 DEF Switch, queueVars, drainVars
  <2>2. CASE UNCHANGED stack
    <3>1. \A u : OwnFrames(u)' = OwnFrames(u)
      BY <2>1 DEF OwnFrames
    <3>2. QED
      BY <2>1, <2>2, <3>1 DEF Stacked, Nested, Counting, Announced, Pending,
                              Base, Queued
  <2>3. CASE AtVM(Main) /\ Goes(Main, "check")
    <3>1. PICK f \in Frames : f.at = "check" /\ Becomes(Main, f)
      BY <2>3, <1>a, GoingFrame
    <3>2. ~InHandler(Main) /\ Top(Main).at = "vm"
      BY <2>3 DEF AtVM
    <3>3. /\ Shape
          /\ Base' = IF handling = 0 THEN "check" ELSE Base
          /\ ~Pending' => ~Pending
      BY <2>1, <3>1, <3>2, BecomingShape DEF Coming, Draining
    <3>4. Announced'
      BY <2>1, <3>2, <3>3, <1>b DEF Announced, Queued
    <3>5. QED
      BY <3>3, <3>4
  <2>4. QED
    BY <1>6, <2>2, <2>3 DEF Switch
<1>7. ASSUME NEW t \in Threads, NEW s \in Sigs, Trap(t, s) PROVE Goal
  <2>1. UNCHANGED <<cnt, size, trapFlag, abandoned>>
    BY <1>7 DEF Trap, queueVars
  <2>2. CASE UNCHANGED <<stack, handling>>
    <3>1. \A u : OwnFrames(u)' = OwnFrames(u)
      BY <2>2 DEF OwnFrames
    <3>2. QED
      BY <2>1, <2>2, <3>1 DEF Stacked, Nested, Counting, Announced, Pending,
                              Base, Queued
  <2>3. CASE stack' = [u \in Threads |-> <<Frame("crashed", 0)>>] /\ handling' = 0
    <3>1. Frame("crashed", 0).at = "crashed"
      BY DEF Frame
    <3>2. \A u \in Threads : \A i \in DOMAIN stack'[u] :
            i = 1 /\ stack'[u][i].at = "crashed"
      BY <2>3, <3>1
    <3>3. Base' = "crashed" /\ Len(stack'[Main]) = 1
      BY <2>3, <3>1 DEF Base
    <3>4. \A u : OwnFrames(u)' = 1
      BY <2>3 DEF OwnFrames
    <3>5. Stacked' /\ Counting' /\ Announced'
      BY <3>2, <3>3, <3>4 DEF Stacked, Counting, Announced, Draining
    <3>6. Nested'
      BY <2>3, <3>3 DEF Nested
    <3>7. QED
      BY <3>5, <3>6
  <2>4. QED
    BY <1>7, <2>2, <2>3 DEF Trap
<1>8. ASSUME NEW t \in Threads, NEW s \in Sigs, ProcessSignal(t, s) PROVE Goal
  <2> DEFINE f == Frame("cnt", s)
  <2>1. f \in Frames /\ f.at = "cnt" /\ f.sig = s /\ Becomes(t, f)
    BY <1>8, FrameNew DEF ProcessSignal, Places
  <2> HIDE DEF f
  <2>2. ~InHandler(t) /\ UNCHANGED <<trapFlag, handling>>
    BY <1>8 DEF ProcessSignal, AtVM, drainVars
  <2>3. Shape /\ Pending' /\ Base' \in {"cnt", Base}
    BY <2>1, <2>2, BecomingShape DEF Draining, Coming
  <2>4. Announced'
    BY <2>2, <2>3 DEF Announced
  <2>5. QED
    BY <2>3, <2>4
<1>9. ASSUME NEW t \in Threads, NEW s \in Sigs, SignalArrives(t, s) PROVE Goal
  <2> DEFINE f == Frame("cnt", s)
  <2>1. f \in Frames /\ f.at = "cnt" /\ f.sig = s
        /\ stack' = [stack EXCEPT ![t] = Append(@, f)]
    BY <1>9, FrameNew DEF SignalArrives, Places
  <2> HIDE DEF f
  <2>2. UNCHANGED <<trapFlag, handling>>
    BY <1>9 DEF SignalArrives, drainVars
  <2>3. Shape /\ Base' = Base /\ Pending'
    BY <2>1, <2>2, ArrivingShape
  <2>4. Announced'
    BY <2>2, <2>3 DEF Announced
  <2>5. QED
    BY <2>3, <2>4
<1>10. CASE CheckInts
  <2>1. PICK f \in Frames : f.at = "check" /\ Becomes(Main, f)
    BY <1>10, <1>a, GoingFrame DEF CheckInts
  <2>2. ~InHandler(Main) /\ trapFlag /\ UNCHANGED <<trapFlag, handling>>
    BY <1>10 DEF CheckInts, AtVM, drainVars
  <2>3. Shape /\ Base' \in {"check", Base}
    BY <2>1, <2>2, BecomingShape DEF Draining
  <2>4. Announced'
    BY <2>2 DEF Announced
  <2>5. QED
    BY <2>3, <2>4
<1>11. CASE CheckFlag
  <2> DEFINE at == IF trapFlag THEN "drain" ELSE "vm"
  <2>1. PICK f \in Frames : f.at = at /\ Becomes(Main, f)
    BY <1>11, <1>a, GoingFrame DEF CheckFlag
  <2>2. /\ Top(Main).at = "check" /\ ~InHandler(Main)
        /\ handling = 0 => Base = "check"
        /\ UNCHANGED <<cnt, size, handling, abandoned>>
    BY <1>11, <1>b DEF CheckFlag, queueVars, drainVars, Draining
  <2>3. /\ Shape
        /\ Base' = IF handling = 0 THEN at ELSE "exec"
        /\ ~Pending' => ~Pending
    BY <2>1, <2>2, <1>b, BecomingShape DEF Draining, Coming
  <2>4. Announced'
    BY <2>2, <2>3 DEF Announced, Queued
  <2>5. QED
    BY <2>3, <2>4
<1>12. CASE GetSignal
  <2>1. /\ Top(Main).at = "drain" /\ ~InHandler(Main)
        /\ UNCHANGED <<cnt, size, handling, abandoned>>
    BY <1>12, <1>b DEF GetSignal, queueVars, drainVars, Draining
  <2>2. CASE size = 0 \/ Queued = {}
    <3>1. PICK f \in Frames : f.at = "check" /\ Becomes(Main, f)
      BY <1>12, <1>a, <2>2, GoingFrame DEF GetSignal
    <3>2. Shape /\ Base' = IF handling = 0 THEN "check" ELSE "exec"
      BY <2>1, <3>1, <1>b, BecomingShape DEF Draining
    <3>3. Announced'
      BY <2>1, <2>2, <3>2 DEF Announced, Queued
    <3>4. QED
      BY <3>2, <3>3
  <2>3. CASE ~(size = 0 \/ Queued = {})
    <3> DEFINE f == Frame("dcnt", Min(Queued))
    <3>1. Min(Queued) \in Sigs
      BY <2>3, LowestQueued DEF Queued
    <3>2. f \in Frames /\ f.at = "dcnt" /\ f.sig = Min(Queued) /\ Becomes(Main, f)
      BY <1>12, <2>3, <3>1, FrameNew DEF GetSignal, Places
    <3> HIDE DEF f
    <3>3. Shape /\ Base' \in {"dcnt", "exec"}
      BY <2>1, <3>1, <3>2, <1>b, BecomingShape
    <3>4. Announced'
      BY <3>3 DEF Announced
    <3>5. QED
      BY <3>3, <3>4
  <2>4. QED
    BY <2>2, <2>3
<1>13. CASE ExecSignal
  <2>1. Top(Main).at = "exec" /\ ~InHandler(Main) /\ UNCHANGED trapFlag
    BY <1>13, <1>b DEF ExecSignal, Draining
  <2>2. CASE Trapped(Top(Main).sig)
    <3> DEFINE f == Frame("vm", 0)
    <3>1. f \in Frames /\ f.at = "vm" /\ handling' = handling + 1
          /\ stack' = [stack EXCEPT ![Main] = Append(@, f)]
      BY <1>13, <1>a, <2>2, FrameNew DEF ExecSignal
    <3> HIDE DEF f
    <3>2. Shape /\ Base' = "exec"
      BY <2>1, <3>1, CallingShape
    <3>3. QED
      BY <3>2 DEF Announced
  <2>3. CASE ~Trapped(Top(Main).sig)
    <3>1. PICK f \in Frames : f.at = "check" /\ Becomes(Main, f)
      BY <1>13, <1>a, <2>3, GoingFrame DEF ExecSignal
    <3>2. Abandons(handling) /\ UNCHANGED handling
      BY <1>13, <2>3 DEF ExecSignal
    <3>3. Shape /\ Base' = IF handling = 0 THEN "check" ELSE "exec"
      BY <2>1, <3>1, <3>2, <1>b, BecomingShape DEF Draining
    <3>4. Announced'
      BY <2>1, <3>2, <3>3 DEF Announced, Abandons
    <3>5. QED
      BY <3>3, <3>4
  <2>4. QED
    BY <2>2, <2>3
<1>14. CASE HandlerReturns
  <2> DEFINE f == Frame("drain", 0)
  <2>1. /\ f \in Frames /\ f.at = "drain" /\ AtVM(Main) /\ UNCHANGED trapFlag
        /\ handling - 1 \in Nat /\ handling - 1 < handling /\ handling' = handling - 1
        /\ stack' = [stack EXCEPT ![Main] = Append(SubSeq(@, 1, handling - 1), f)]
    BY <1>14, <1>a, FrameNew DEF HandlerReturns
  <2> HIDE DEF f
  <2>2. Shape /\ Base' \in {"drain", "exec"}
    BY <2>1, EndingShape
  <2>3. QED
    BY <2>2 DEF Announced
<1>15. ASSUME NEW n \in 1..handling, HandlerThrows(n) PROVE Goal
  <2> DEFINE f == Frame("vm", 0)
  <2>1. /\ f \in Frames /\ f.at = "vm" /\ AtVM(Main) /\ UNCHANGED trapFlag
        /\ n - 1 \in Nat /\ n - 1 < handling /\ handling' = n - 1
        /\ stack' = [stack EXCEPT ![Main] = Append(SubSeq(@, 1, n - 1), f)]
        /\ Abandons(n - 1)
    BY <1>15, <1>a, FrameNew DEF HandlerThrows
  <2> HIDE DEF f
  <2>2. Shape /\ Base' = IF n - 1 = 0 THEN "vm" ELSE "exec"
    BY <2>1, EndingShape
  <2>3. QED
    BY <2>1, <2>2 DEF Announced, Abandons
<1>16. QED
  BY <1>1, <1>2, <1>3, <1>4, <1>5, <1>6, <1>7, <1>8, <1>9, <1>10, <1>11, <1>12,
     <1>13, <1>14, <1>15 DEF Next, Interrupts, Progress, HandlerEnds

(* The inductive invariant holds in every reachable state. *)
THEOREM Invariance == Spec => [](IInv /\ Announced)
<1>1. Init => IInv /\ Announced
  BY FlowInit
<1>2. IInv /\ Announced /\ [Next]_vars => IInv' /\ Announced'
  BY TypeStep, FlowStep DEF IInv
<1>3. QED
  BY <1>1, <1>2, PTL DEF Spec

(* sigbuf, the flag and the frames keep their types: a C handler never     *)
(* indexes sigbuf.cnt with anything but a signal. *)
THEOREM TypeCorrect == Spec => []TypeOK
BY Invariance, PTL DEF IInv

(* "Execute all interrupt signal handlers on the main thread": whenever no *)
(* thread is inside the signal code and no lox handler runs, a signal that *)
(* getSignal would find is announced by the flag, however C handlers, lox  *)
(* handlers and drains interrupted one another, unless an error out of a   *)
(* lox handler, or a signal without one, ended the drain and no signal     *)
(* came since. *)
THEOREM SignalsAreAnnounced == Spec => []NoStrandedSignal
<1>1. IInv /\ Announced => NoStrandedSignal
  <2> SUFFICES ASSUME IInv, Announced, Quiet PROVE ~Pending /\ Base = "vm"
    BY DEF NoStrandedSignal, Announced
  <2>1. stack \in Stacks /\ Main \in Threads /\ handling \in Nat
    BY SignalsAssumption DEF IInv, TypeOK, Stacks
  <2>2. \A t \in Threads : OwnFrames(t) = 1 /\ AtVM(t)
    BY DEF Quiet, OwnFrames
  <2>3. \A t \in Threads : \A i \in DOMAIN stack[t] :
          i = 1 /\ stack[t][i].at = "vm"
    BY <2>1, <2>2, TopType DEF AtVM
  <2>4. QED
    BY <2>1, <2>3, TopType DEF Pending, Base, Coming
<1>2. QED
  BY <1>1, Invariance, PTL
=============================================================================

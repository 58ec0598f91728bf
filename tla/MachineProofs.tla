---------------------------- MODULE MachineProofs ----------------------------
(***************************************************************************)
(* The machine's frames and the places errors jump to, for every program   *)
(* and whatever the compiler makes of it: nothing is assumed of the code,  *)
(* of the values on the stack or of the classes.                           *)
(*                                                                         *)
(* The invariant is Ready: what is known of the frames and of the tags in  *)
(* errInfo between two instructions.  Most of what an instruction does is  *)
(* quiet: it leaves both alone.  The rest is proved C function by C        *)
(* function: the frames that are left, the errors, the calls.              *)
(***************************************************************************)
EXTENDS Language, NatLemmas, SequenceTheorems, TLAPS

Sequence(s) == \E S : s \in Seq(S)

(* A sequence of anything is a function on 1..Len.                         *)
LEMMA SequenceFacts ==
  ASSUME NEW s, Sequence(s)
  PROVE  Len(s) \in Nat /\ DOMAIN s = 1..Len(s)
BY DEF Sequence

(* Changing a place of it, as [s EXCEPT ![n] = e] does.                    *)
LEMMA SequenceExcept ==
  ASSUME NEW s, Sequence(s), NEW n, NEW e
  PROVE  /\ Sequence([s EXCEPT ![n] = e])
         /\ Len([s EXCEPT ![n] = e]) = Len(s)
         /\ \A i \in 1..Len(s) : [s EXCEPT ![n] = e][i] = IF i = n THEN e ELSE s[i]
<1>1. PICK S : s \in Seq(S)
  BY DEF Sequence
<1>2. [s EXCEPT ![n] = e] \in Seq(S \cup {e}) /\ Len([s EXCEPT ![n] = e]) = Len(s)
  <2>1. [s EXCEPT ![n] = e] \in [1..Len(s) -> S \cup {e}]
    <3>1. Len(s) \in Nat /\ DOMAIN s = 1..Len(s) /\ \A i \in 1..Len(s) : s[i] \in S
      BY <1>1
    <3>2. DOMAIN [s EXCEPT ![n] = e] = 1..Len(s)
      BY <3>1
    <3>3. \A i \in 1..Len(s) : [s EXCEPT ![n] = e][i] \in S \cup {e}
      BY <3>1
    <3>4. [s EXCEPT ![n] = e] = [i \in 1..Len(s) |-> [s EXCEPT ![n] = e][i]]
      BY <3>2
    <3>5. QED
      BY <3>3, <3>4
  <2>2. QED
    BY <1>1, <2>1, IsASeq, LenProperties
<1>3. QED
  BY <1>1, <1>2 DEF Sequence

(* Append.                                                                 *)
LEMMA SequenceAppend ==
  ASSUME NEW s, Sequence(s), NEW e
  PROVE  /\ Sequence(Append(s, e))
         /\ Len(Append(s, e)) = Len(s) + 1
         /\ \A i \in 1..Len(s) : Append(s, e)[i] = s[i]
         /\ Append(s, e)[Len(s) + 1] = e
<1>1. PICK S : s \in Seq(S)
  BY DEF Sequence
<1>2. s \in Seq(S \cup {e}) /\ e \in S \cup {e}
  BY <1>1, SeqMonotonic
<1>3. Append(s, e) \in Seq(S \cup {e})
  BY <1>2
<1>4. QED
  BY <1>2, <1>3, AppendProperties DEF Sequence

(* All but the last.                                                       *)
LEMMA SequenceFront ==
  ASSUME NEW s, Sequence(s), s # <<>>
  PROVE  /\ Sequence(Front(s))
         /\ Len(Front(s)) = Len(s) - 1
         /\ \A i \in 1..Len(s) - 1 : Front(s)[i] = s[i]
         /\ Len(s) \in Nat \ {0}
<1>1. PICK S : s \in Seq(S)
  BY DEF Sequence
<1>2. Len(s) \in Nat \ {0}
  BY <1>1, EmptySeq
<1>3. Front(s) \in Seq(S) /\ Len(Front(s)) = Len(s) - 1 /\ \A i \in 1..Len(s) - 1 : Front(s)[i] = s[i]
  <2>1. Front(s) = [i \in 1..Len(s) - 1 |-> s[i]]
    BY <1>1, <1>2 DEF Front
  <2>2. Len(s) - 1 \in Nat /\ \A i \in 1..Len(s) - 1 : s[i] \in S
    BY <1>1, <1>2
  <2> DEFINE g == [i \in 1..Len(s) - 1 |-> s[i]]
  <2>3. g \in Seq(S) /\ Len(g) = Len(s) - 1
    BY <2>2, IsASeq
  <2>4. QED
    BY <2>1, <2>3
<1>4. QED
  BY <1>2, <1>3 DEF Sequence

-----------------------------------------------------------------------------
(* What is known of the machine.                                           *)

Fields == {"frames", "errInfo", "blocks", "status"}
Afters == {"", "get", "set", "eq", "ne", "added"} \union Comparisons
FrameShape(f) == {"native", "after"} \subseteq DOMAIN f /\ f.after \in Afters
FramesShape(F) == Sequence(F) /\ \A i \in 1..Len(F) : FrameShape(F[i])
Shape(M) == Fields \subseteq DOMAIN M /\ FramesShape(M.frames)

\* A lox frame is at the bottom, and no C function was called by another.
Alternate(F) ==
    /\ F # <<>> => F[1].native = ""
    /\ \A i \in 1..Len(F) - 1 : F[i].native = "" \/ F[i + 1].native = ""

\* Every tag is that of a native frame, and no frame has two; each has its
\* place among the block entries.
TagsIn(E, F) ==
    /\ E \in Seq([frame : Nat, bentry : Nat])
    /\ \A i \in 1..Len(E) : E[i].frame \in 1..Len(F) /\ F[E[i].frame].native # "" /\ E[i].bentry = i
    /\ \A i, j \in 1..Len(E) : i < j => E[i].frame < E[j].frame

\* A C function that has called lox code has left a tag.
Waiting(E, F) == \A i \in 1..Len(F) - 1 : F[i].native # "" => \E k \in 1..Len(E) : E[k].frame = i

Sound(M) ==
    /\ Shape(M)
    /\ Len(M.frames) <= FRAMES_MAX
    /\ Alternate(M.frames)
    /\ TagsIn(M.errInfo, M.frames)
    /\ Waiting(M.errInfo, M.frames)
    /\ M.blocks = Len(M.errInfo)

\* Whose code runs: an instruction's, or a C function's.
LoxTop(M) == M.frames # <<>> /\ Frame(M).native = ""
NativeTop(M) == M.frames # <<>> /\ Frame(M).native # ""
Good(M) == Sound(M) /\ LoxTop(M)
InC(M) == Sound(M) /\ NativeTop(M)
Ready(M) == Sound(M) /\ (M.status = "run" => LoxTop(M))

\* N has M's frames down to n of them, its tags and its entries.
Kept(F, G) == \A i \in 1..Len(G) : G[i].native = F[i].native
Cut(M, N, n) ==
    /\ Shape(N)
    /\ Len(N.frames) = n
    /\ Kept(M.frames, N.frames)
    /\ N.errInfo = M.errInfo
    /\ N.blocks = M.blocks
    /\ M.status # "run" => N.status # "run"
Quiet(M, N) == Cut(M, N, Len(M.frames))

(* What Shape says.                                                        *)
LEMMA ShapeFacts ==
  ASSUME NEW M, Shape(M)
  PROVE  /\ Len(M.frames) \in Nat
         /\ DOMAIN M.frames = 1..Len(M.frames)
         /\ M.frames = <<>> <=> Len(M.frames) = 0
         /\ \A i \in 1..Len(M.frames) : FrameShape(M.frames[i])
<1>1. Sequence(M.frames)
  BY DEF Shape, FramesShape
<1>2. M.frames = <<>> <=> Len(M.frames) = 0
  BY <1>1, EmptySeq DEF Sequence
<1>3. QED
  BY <1>1, <1>2, SequenceFacts DEF Shape, FramesShape

(* Nothing done is quiet.                                                  *)
LEMMA QuietSame ==
  ASSUME NEW M, Shape(M)
  PROVE  Quiet(M, M)
BY ShapeFacts DEF Quiet, Cut, Kept

(* One thing after another.                                                *)
LEMMA CutTrans ==
  ASSUME NEW M, NEW N, NEW P, NEW k, NEW n, Cut(M, N, k), Cut(N, P, n), n \in Nat, k \in Nat, n <= k
  PROVE  Cut(M, P, n)
BY DEF Cut, Kept

(* What is quiet leaves the invariant alone, and who runs.                 *)
LEMMA QuietSound ==
  ASSUME NEW M, NEW N, Sound(M), Quiet(M, N)
  PROVE  /\ Sound(N)
         /\ LoxTop(M) => LoxTop(N)
         /\ NativeTop(M) => NativeTop(N)
<1>1. Shape(M) /\ Shape(N) /\ Len(N.frames) = Len(M.frames)
  BY DEF Sound, Quiet, Cut
<1>2. Len(M.frames) \in Nat
  BY <1>1, ShapeFacts
<1>3. Alternate(N.frames)
  <2>1. /\ Alternate(M.frames)
        /\ \A i \in 1..Len(M.frames) : N.frames[i].native = M.frames[i].native
    BY <1>1 DEF Sound, Quiet, Cut, Kept
  <2>2. N.frames # <<>> => N.frames[1].native = ""
    <3>1. ASSUME N.frames # <<>> PROVE M.frames # <<>> /\ 1 \in 1..Len(M.frames)
      <4>1. Len(N.frames) # 0
        BY <1>1, <3>1, ShapeFacts
      <4>2. QED
        BY <1>1, <1>2, <4>1, ShapeFacts
    <3>2. QED
      BY <2>1, <3>1 DEF Alternate
  <2>3. ASSUME NEW i \in 1..Len(N.frames) - 1 PROVE N.frames[i].native = "" \/ N.frames[i + 1].native = ""
    <3>1. i \in 1..Len(M.frames) - 1 /\ i \in 1..Len(M.frames) /\ i + 1 \in 1..Len(M.frames)
      BY <1>1, <1>2
    <3>2. QED
      BY <2>1, <3>1 DEF Alternate
  <2>4. QED
    BY <2>2, <2>3 DEF Alternate
<1>4. TagsIn(N.errInfo, N.frames)
  <2>1. TagsIn(M.errInfo, M.frames) /\ N.errInfo = M.errInfo /\ Len(N.frames) = Len(M.frames)
        /\ \A i \in 1..Len(M.frames) : N.frames[i].native = M.frames[i].native
    BY <1>1 DEF Sound, Quiet, Cut, Kept
  <2>2. QED
    BY <2>1 DEF TagsIn
<1>5. Waiting(N.errInfo, N.frames)
  <2>1. /\ Waiting(M.errInfo, M.frames) /\ N.errInfo = M.errInfo
        /\ \A i \in 1..Len(M.frames) : N.frames[i].native = M.frames[i].native
    BY <1>1 DEF Sound, Quiet, Cut, Kept
  <2>2. \A i \in 1..Len(M.frames) - 1 : i \in 1..Len(M.frames)
    BY <1>2
  <2>3. QED
    BY <1>1, <2>1, <2>2 DEF Waiting
<1>6. Sound(N)
  BY <1>1, <1>3, <1>4, <1>5 DEF Sound, Quiet, Cut
<1>7. (M.frames # <<>> <=> N.frames # <<>>) /\ (M.frames # <<>> => Frame(N).native = Frame(M).native)
  BY <1>1, <1>2, ShapeFacts DEF Quiet, Cut, Kept, Frame, Last
<1>8. QED
  BY <1>6, <1>7 DEF LoxTop, NativeTop

(* The same of quiet steps.                                                *)
LEMMA QuietTrans ==
  ASSUME NEW M, NEW N, NEW P, Shape(M), Quiet(M, N), Quiet(N, P)
  PROVE  Quiet(M, P)
<1>1. Len(M.frames) \in Nat /\ Len(N.frames) = Len(M.frames)
  BY ShapeFacts DEF Quiet, Cut
<1>2. QED
  BY <1>1, CutTrans DEF Quiet

(* The machine keeps its shape.                                            *)
LEMMA QuietShape ==
  ASSUME NEW M, NEW N, Quiet(M, N)
  PROVE  Shape(N)
BY DEF Quiet, Cut

\* N has M's frames, tags and entries as they are, or the frame on top
\* changed but for its kind.
Apart(M, N) ==
    /\ Fields \subseteq DOMAIN N
    /\ N.errInfo = M.errInfo
    /\ N.blocks = M.blocks
    /\ M.status # "run" => N.status # "run"
Plain(M, N) == N.frames = M.frames /\ Apart(M, N)
OnTop(M, N, e) ==
    /\ N.frames = [M.frames EXCEPT ![Len(M.frames)] = e]
    /\ M.frames # <<>> => FrameShape(e) /\ e.native = Frame(M).native
    /\ Apart(M, N)

(* What touches neither the frames nor the tags is quiet.                  *)
LEMMA QuietPlain ==
  ASSUME NEW M, Shape(M), NEW N, Plain(M, N)
  PROVE  Quiet(M, N)
BY ShapeFacts DEF Quiet, Cut, Kept, Shape, Plain, Apart

(* So is what changes the frame on top but for its kind.                   *)
LEMMA QuietFrame ==
  ASSUME NEW M, Shape(M), NEW N, NEW e, OnTop(M, N, e)
  PROVE  Quiet(M, N)
<1>1. Sequence(M.frames)
  BY DEF Shape, FramesShape
<1>2. /\ Sequence(N.frames)
      /\ Len(N.frames) = Len(M.frames)
      /\ \A i \in 1..Len(M.frames) : N.frames[i] = IF i = Len(M.frames) THEN e ELSE M.frames[i]
  <2> DEFINE F == M.frames
             n == Len(M.frames)
  <2>1. N.frames = [F EXCEPT ![n] = e]
    BY DEF OnTop
  <2> HIDE DEF F, n
  <2>2. /\ Sequence([F EXCEPT ![n] = e]) /\ Len([F EXCEPT ![n] = e]) = Len(F)
        /\ \A i \in 1..Len(F) : [F EXCEPT ![n] = e][i] = IF i = n THEN e ELSE F[i]
    BY <1>1, SequenceExcept DEF F
  <2>3. QED
    BY <2>1, <2>2 DEF F, n
<1>3. \A i \in 1..Len(M.frames) : FrameShape(N.frames[i]) /\ N.frames[i].native = M.frames[i].native
  BY <1>2, ShapeFacts DEF Frame, Last, OnTop
<1>4. QED
  BY <1>2, <1>3 DEF Quiet, Cut, Kept, Shape, FramesShape, OnTop, Apart

-----------------------------------------------------------------------------
(* Quiet operations: the stack, the receivers, the classes.                *)

(* push, pop and peek.                                                     *)
LEMMA StackQuiet ==
  ASSUME NEW M, Shape(M), NEW p, NEW v, NEW n
  PROVE  /\ Quiet(M, Write(M, p, v)) /\ Quiet(M, Push(M, v)) /\ Quiet(M, PushAll(M, v))
         /\ Quiet(M, PopN(M, n)) /\ Quiet(M, Pop1(M)) /\ Quiet(M, PushSwap(M, v))
<1>1. Plain(M, Write(M, p, v)) /\ Plain(M, PushSwap(M, v))
  BY DEF Write, PushSwap, Shape, Fields, Plain, Apart
<1>2. Plain(M, Push(M, v))
  BY DEF Write, Push, Shape, Fields, Plain, Apart
<1>3. Plain(M, PushAll(M, v))
  BY DEF PushAll, Shape, Fields, Plain, Apart
<1>4. Plain(M, PopN(M, n)) /\ Plain(M, PopN(M, 1))
  BY DEF PopN, Fail, Shape, Fields, Plain, Apart
<1>5. QED
  BY <1>1, <1>2, <1>3, <1>4, QuietPlain DEF Pop1

(* What stops the machine.                                                 *)
LEMMA FailQuiet ==
  ASSUME NEW M, Shape(M), NEW how, how # "run"
  PROVE  Quiet(M, Fail(M, how)) /\ Fail(M, how).status # "run"
<1>1. Plain(M, Fail(M, how)) /\ Fail(M, how).status # "run"
  BY DEF Fail, Shape, Fields, Plain, Apart
<1>2. QED
  BY <1>1, QuietPlain

(* The ip of the frame that runs, and its locals.                          *)
LEMMA FrameQuiet ==
  ASSUME NEW M, Shape(M), NEW ip, NEW slot, NEW val
  PROVE  /\ Quiet(M, Jump(M, ip))
         /\ Quiet(M, SetLocalTable(M, slot, val))
         /\ Quiet(M, SetLocal(M, slot, val))
<1>1. M.frames # <<>> => FrameShape(Frame(M)) /\ Frame(M) = M.frames[Len(M.frames)]
  BY ShapeFacts DEF Frame, Last
<1>2. Quiet(M, Jump(M, ip))
  <2> DEFINE e == [M.frames[Len(M.frames)] EXCEPT !.ip = ip]
  <2>1. M.frames # <<>> => FrameShape(e) /\ e.native = Frame(M).native
    BY <1>1 DEF FrameShape
  <2>2. Jump(M, ip).frames = [M.frames EXCEPT ![Len(M.frames)] = e] /\ Apart(M, Jump(M, ip))
    BY DEF Jump, Shape, Fields, Apart
  <2> HIDE DEF e
  <2>3. QED
    BY <2>1, <2>2, QuietFrame DEF OnTop
<1>3. Quiet(M, SetLocalTable(M, slot, val))
  <2> DEFINE e == [M.frames[Len(M.frames)] EXCEPT
                     !.locals = IF slot < Len(@) THEN [@ EXCEPT ![slot + 1] = val]
                                ELSE @ \o [i \in 1..(slot - Len(@)) |-> Nil] \o <<val>>]
  <2>1. M.frames # <<>> => FrameShape(e) /\ e.native = Frame(M).native
    BY <1>1 DEF FrameShape
  <2>2. /\ SetLocalTable(M, slot, val).frames = [M.frames EXCEPT ![Len(M.frames)] = e]
        /\ Apart(M, SetLocalTable(M, slot, val))
    BY DEF SetLocalTable, SetTop, Shape, Fields, Apart
  <2> HIDE DEF e
  <2>3. QED
    BY <2>1, <2>2, QuietFrame DEF OnTop
<1>4. QED
  BY <1>2, <1>3, StackQuiet, QuietTrans, QuietShape DEF SetLocal

(* this and cref; the upvalues; the catch rows; what is global.            *)
LEMMA PlainOperations ==
  ASSUME NEW M, Shape(M), NEW v, NEW c, NEW f, NEW n
  PROVE  /\ Quiet(M, PushThis(M, v)) /\ Quiet(M, PopThis(M)) /\ Quiet(M, PushCref(M, c)) /\ Quiet(M, PopCref(M))
         /\ Quiet(M, LeaveThis(f, M)) /\ Quiet(M, LeaveCref(f, M))
         /\ Quiet(M, CloseUpvalues(M, n)) /\ Quiet(M, CaptureAll(M, n, f))
         /\ Quiet(M, EnsureEnds(M, n)) /\ Quiet(M, SetGlobal(M, n, v))
<1>1. Plain(M, PushThis(M, v)) /\ Plain(M, PushCref(M, c))
  BY DEF PushThis, PushCref, Shape, Fields, Plain, Apart
<1>2. Plain(M, PopThis(M))
  BY DEF PopThis, Fail, Shape, Fields, Plain, Apart
<1>3. Plain(M, PopCref(M))
  BY DEF PopCref, Fail, Shape, Fields, Plain, Apart
<1>4. Plain(M, CloseUpvalues(M, n)) /\ Plain(M, CaptureAll(M, n, f))
  BY DEF CloseUpvalues, CaptureAll, Shape, Fields, Plain, Apart
<1>5. Plain(M, EnsureEnds(M, n)) /\ Plain(M, SetGlobal(M, n, v))
  BY DEF EnsureEnds, SetGlobal, Shape, Fields, Plain, Apart
<1>6. Plain(M, M)
  BY DEF Shape, Fields, Plain, Apart
<1>7. QED
  BY <1>1, <1>2, <1>3, <1>4, <1>5, <1>6, QuietPlain DEF LeaveThis, LeaveCref

(* The tables of the classes.                                              *)
LEMMA ClassesQuiet ==
  ASSUME NEW M, Shape(M), NEW owner, NEW name, NEW val, NEW class, NEW kind, NEW super
  PROVE  /\ Quiet(M, AddConstantUnder(M, owner, name, val))
         /\ Quiet(M, NewClass(M, kind, name, super))
         /\ Quiet(M, SingletonClass(M, class))
         /\ Quiet(M, Define(M, class, kind, name, val))
         /\ Quiet(M, DefineStatic(M, class, name, val))
<1>1. ASSUME NEW N, Shape(N), NEW o, NEW v PROVE Plain(N, AddConstantUnder(N, o, name, v))
  BY <1>1 DEF AddConstantUnder, Shape, Fields, Plain, Apart
<1>2. ASSUME NEW c PROVE Plain(M, [M EXCEPT !.classes = c])
  BY DEF Shape, Fields, Plain, Apart
<1>3. Quiet(M, NewClass(M, kind, name, super))
  BY <1>1, <1>2, QuietPlain, QuietTrans, QuietShape DEF NewClass
<1>4. Plain(M, SingletonClass(M, class))
  BY DEF SingletonClass, Shape, Fields, Plain, Apart
<1>5. Plain(M, Define(M, class, kind, name, val))
  BY DEF Define, Shape, Fields, Plain, Apart
<1>6. ASSUME NEW N, Shape(N)
      PROVE  Plain(N, [N EXCEPT !.classes[Meta(class)] = [@ EXCEPT !.method = (name :> val) @@ @], !.klass[val[2]] = class])
  BY <1>6 DEF Shape, Fields, Plain, Apart
<1>7. Quiet(M, DefineStatic(M, class, name, val))
  <2> DEFINE s == SingletonClass(M, class)
             t == [s EXCEPT !.classes[Meta(class)] = [@ EXCEPT !.method = (name :> val) @@ @], !.klass[val[2]] = class]
  <2>1. DefineStatic(M, class, name, val) = t
    BY DEF DefineStatic
  <2>2. Quiet(M, s) /\ Shape(s)
    BY <1>4, QuietPlain, QuietShape
  <2>3. Plain(s, t)
    <3> HIDE DEF s
    <3>1. QED
      BY <1>6, <2>2
  <2> HIDE DEF s, t
  <2>4. QED
    BY <2>1, <2>2, <2>3, QuietPlain, QuietTrans
<1>8. QED
  BY <1>1, <1>3, <1>4, <1>5, <1>7, QuietPlain

(* The arguments take the parameters' places.                              *)
LEMMA BindArgsQuiet ==
  ASSUME NEW M, Shape(M), NEW fn, NEW argc, NEW info
  PROVE  Quiet(M, BindArgs(M, fn, argc, info))
<1>1. ASSUME NEW N, Shape(N), NEW f, NEW b
      PROVE  /\ Quiet(N, PushRest(N, f, Extra(f, argc))) /\ Quiet(N, PushBlock(N, f, b)) /\ Quiet(N, PushMap(N, f))
  <2>1. Quiet(N, PushRest(N, f, Extra(f, argc)))
    <3> DEFINE P == IF Extra(f, argc) > 0 THEN PopN(N, Extra(f, argc)) ELSE N
    <3>1. Quiet(N, P) /\ Shape(P)
      BY <1>1, StackQuiet, QuietSame, QuietShape
    <3> HIDE DEF P
    <3>2. \A v : Quiet(N, Push(P, v))
      BY <1>1, <3>1, StackQuiet, QuietTrans
    <3>3. QED
      BY <1>1, <3>2, QuietSame DEF PushRest, P
  <2>2. Quiet(N, PushBlock(N, f, b)) /\ Quiet(N, PushMap(N, f))
    BY <1>1, StackQuiet, QuietSame DEF PushBlock, PushMap
  <2>3. QED
    BY <2>1, <2>2
<1> DEFINE f == Funcs[fn]
           M1 == PopN(M, Cardinality(KeywordsGiven(fn, info)))
           M2 == PushAll(M1, [i \in 1..Missing(f, argc) |-> Nil])
           M3 == PushRest(M2, f, Extra(f, argc))
           M4 == PushAll(M3, KeywordVals(M, fn, info))
           M5 == PushBlock(M4, f, info.block)
           M6 == PushMap(M5, f)
<1>2. BindArgs(M, fn, argc, info) = M6
  BY DEF BindArgs
<1>3. Quiet(M, M1)
  BY StackQuiet
<1>4. Quiet(M, M2)
  BY <1>3, StackQuiet, QuietTrans, QuietShape
<1>5. Quiet(M, M3)
  <2> HIDE DEF M2, f
  <2>1. QED
    BY <1>1, <1>4, QuietTrans, QuietShape
<1>6. Quiet(M, M4)
  <2> HIDE DEF M3
  <2>1. QED
    BY <1>5, StackQuiet, QuietTrans, QuietShape
<1>7. Quiet(M, M5)
  <2> HIDE DEF M4, f
  <2>1. QED
    BY <1>1, <1>6, QuietTrans, QuietShape
<1>8. Quiet(M, M6)
  <2> HIDE DEF M5, f
  <2>1. QED
    BY <1>1, <1>7, QuietTrans, QuietShape
<1>9. QED
  BY <1>2, <1>8

-----------------------------------------------------------------------------
(* popFrame, and what pops frames.                                         *)

(* popFrame after its tags are gone: one frame less.                       *)
LEMMA PoppedCut ==
  ASSUME NEW M, Shape(M), M.frames # <<>>, NEW f
  PROVE  Cut(M, Popped(f, M), Len(M.frames) - 1)
<1> DEFINE M1 == IF f.native = "" THEN CloseUpvalues(M, f.slots) ELSE M
           M2 == LeaveCref(f, M1)
           M3 == LeaveThis(f, M2)
<1>1. Quiet(M, M1)
  BY PlainOperations, QuietSame
<1>2. Quiet(M, M2)
  <2> HIDE DEF M1
  <2>1. QED
    BY <1>1, PlainOperations, QuietTrans, QuietShape
<1>3. Quiet(M, M3)
  <2> HIDE DEF M2
  <2>1. QED
    BY <1>2, PlainOperations, QuietTrans, QuietShape
<1> DEFINE P == Popped(f, M)
<1>4. P = [M3 EXCEPT !.frames = Front(@),
                     !.top = IF f.adjust > 0 /\ @ > f.adjust /\ Len(M.frames) > 1 THEN @ - f.adjust ELSE @]
  BY DEF Popped
<1> HIDE DEF M3
<1>5. Shape(M3) /\ Fields \subseteq DOMAIN M3 /\ Sequence(M3.frames) /\ Len(M3.frames) = Len(M.frames)
  BY <1>3, QuietShape DEF Quiet, Cut, Shape, FramesShape
<1>6. /\ P.frames = Front(M3.frames) /\ Fields \subseteq DOMAIN P
      /\ P.errInfo = M3.errInfo /\ P.blocks = M3.blocks /\ P.status = M3.status
  BY <1>4, <1>5 DEF Fields
<1>7. M3.frames # <<>> /\ Len(M.frames) \in Nat /\ Len(M.frames) # 0
  BY <1>5, ShapeFacts
<1>8. /\ Sequence(P.frames) /\ Len(P.frames) = Len(M.frames) - 1
      /\ \A i \in 1..Len(M.frames) - 1 : P.frames[i] = M3.frames[i]
  BY <1>5, <1>6, <1>7, SequenceFront
<1>9. \A i \in 1..Len(M.frames) - 1 : FrameShape(P.frames[i]) /\ P.frames[i].native = M.frames[i].native
  BY <1>3, <1>5, <1>7, <1>8, ShapeFacts DEF Quiet, Cut, Kept
<1> HIDE DEF P
<1>10. Shape(P) /\ Kept(M.frames, P.frames)
  BY <1>6, <1>8, <1>9 DEF Shape, FramesShape, Kept
<1>11. P.errInfo = M.errInfo /\ P.blocks = M.blocks /\ (M.status # "run" => P.status # "run")
  BY <1>3, <1>6 DEF Quiet, Cut
<1>12. Cut(M, P, Len(M.frames) - 1)
  BY <1>8, <1>10, <1>11 DEF Cut
<1>13. QED
  BY <1>12 DEF P

TagList == Seq([frame : Nat, bentry : Nat])

(* A list of tags, and one without its last.                               *)
LEMMA TagFacts ==
  ASSUME NEW E \in TagList
  PROVE  /\ Len(E) \in Nat
         /\ E = <<>> <=> Len(E) = 0
         /\ \A i \in 1..Len(E) : E[i].frame \in Nat /\ E[i].bentry \in Nat
         /\ E # <<>> => /\ Len(E) \in 1..Len(E)
                        /\ Front(E) \in TagList
                        /\ Len(Front(E)) = Len(E) - 1
                        /\ \A i \in 1..Len(E) - 1 : Front(E)[i] = E[i]
<1>1. Len(E) \in Nat /\ (E = <<>> <=> Len(E) = 0)
  BY EmptySeq DEF TagList
<1>2. \A i \in 1..Len(E) : E[i] \in [frame : Nat, bentry : Nat]
  BY ElementOfSeq DEF TagList
<1>3. ASSUME E # <<>>
      PROVE  Front(E) \in TagList /\ Len(Front(E)) = Len(E) - 1 /\ \A i \in 1..Len(E) - 1 : Front(E)[i] = E[i]
  <2>1. Front(E) = [i \in 1..Len(E) - 1 |-> E[i]]
    BY <1>1, <1>3 DEF Front, TagList
  <2> DEFINE g == [i \in 1..Len(E) - 1 |-> E[i]]
  <2>2. Len(E) - 1 \in Nat /\ \A i \in 1..Len(E) - 1 : E[i] \in [frame : Nat, bentry : Nat]
    BY <1>1, <1>2, <1>3
  <2>3. g \in TagList /\ Len(g) = Len(E) - 1
    BY <2>2, IsASeq DEF TagList
  <2>4. QED
    BY <2>1, <2>3
<1>4. QED
  BY <1>1, <1>2, <1>3

(* unwindErrInfo frees one tag at most: that of the frame on top, if the   *)
(* tag below is another frame's.                                           *)
LEMMA UnwindOne ==
  ASSUME NEW M, M.errInfo \in TagList, ~OwnsTag(FreeTag(M))
  PROVE  UnwindErrInfo(M) = FreeTag(M)
<1> DEFINE N == Len(M.errInfo)
           Eqs(f) == f = [i \in 0..N |-> IF i = 0 THEN M ELSE FreeTag(f[i - 1])]
           g == [i \in 0..N |-> IF i = 0 THEN M ELSE FreeTag(M)]
           h == CHOOSE f : Eqs(f)
<1>1. N \in Nat
  BY DEF TagList
<1>2. FreeTag(FreeTag(M)) = FreeTag(M)
  BY DEF FreeTag
<1>3. Eqs(g)
  <2>1. ASSUME NEW i \in 0..N PROVE g[i] = IF i = 0 THEN M ELSE FreeTag(g[i - 1])
    <3>1. CASE i = 0
      BY <3>1
    <3>2. CASE i # 0
      <4>1. i - 1 \in 0..N
        BY <1>1, <3>2
      <4>2. FreeTag(g[i - 1]) = FreeTag(M)
        BY <1>2, <4>1
      <4>3. QED
        BY <3>2, <4>2
    <3>3. QED
      BY <3>1, <3>2
  <2>2. QED
    BY <2>1
<1>4. UnwindErrInfo(M) = h[N]
  BY DEF UnwindErrInfo
<1>5. Eqs(h)
  <2> HIDE DEF Eqs, g
  <2>1. \E f : Eqs(f)
    BY <1>3
  <2>2. QED
    BY <2>1
<1> HIDE DEF h
<1>6. CASE N = 0
  <2>1. M.errInfo = <<>>
    BY <1>6, EmptySeq DEF TagList
  <2>2. h[0] = M
    BY <1>1, <1>5
  <2>3. QED
    BY <1>4, <1>6, <2>1, <2>2 DEF FreeTag, OwnsTag
<1>7. CASE N # 0
  <2> DEFINE T == {i \in 0..N : i # 0 => h[i] = FreeTag(M)}
  <2>1. 0 \in T
    BY <1>1
  <2>2. ASSUME NEW i \in 0..N-1, i \in T PROVE i + 1 \in T
    <3>1. i + 1 \in 0..N /\ i + 1 # 0 /\ (i + 1) - 1 = i
      BY <1>1
    <3>2. h[i + 1] = FreeTag(h[i])
      BY <1>5, <3>1
    <3>3. h[i] = M \/ h[i] = FreeTag(M)
      BY <1>1, <1>5, <2>2
    <3>4. QED
      BY <1>2, <3>1, <3>2, <3>3
  <2>3. N \in T
    <3> HIDE DEF T, N
    <3>1. \A i \in 0..N-1 : i \in T => i + 1 \in T
      BY <2>2
    <3>2. \A i \in 0..N : i \in T
      BY <1>1, <2>1, <3>1, CountingUp
    <3>3. QED
      BY <1>1, <3>2
  <2>4. QED
    BY <1>4, <1>7, <2>3
<1>8. QED
  BY <1>6, <1>7

(* A number that is in a range and at most n.                              *)
LEMMA Below ==
  ASSUME NEW k \in Nat, NEW n \in Nat, NEW a \in 1..k, a <= n
  PROVE  a \in 1..n
OBVIOUS

(* A number of a range.                                                    *)
LEMMA InRange ==
  ASSUME NEW k \in Nat
  PROVE  /\ k # 0 => k \in 1..k
         /\ \A a \in 1..k : a \in Nat /\ a # 0 /\ a \in 0..k /\ a \in 1..a
OBVIOUS

(* One that is not the last.                                               *)
LEMMA NotLast ==
  ASSUME NEW k \in Nat, NEW i \in 1..k - 1
  PROVE  i \in 1..k /\ i + 1 \in 1..k /\ i # k
OBVIOUS

TagsUpTo(E, n) == \A i \in 1..Len(E) : E[i].frame <= n

(* A part of the frames that has all the tags.                             *)
LEMMA CutSound ==
  ASSUME NEW M, NEW N, Sound(M), NEW n \in 0..Len(M.frames), Cut(M, N, n), TagsUpTo(M.errInfo, n)
  PROVE  Sound(N)
<1>1. Shape(M) /\ Shape(N) /\ Len(N.frames) = n /\ n <= Len(M.frames) /\ n \in Nat /\ Len(M.frames) \in Nat
  BY ShapeFacts DEF Sound, Cut
<1>2. \A i \in 1..n : N.frames[i].native = M.frames[i].native
  BY <1>1 DEF Cut, Kept
<1>3. Alternate(N.frames)
  <2>1. Alternate(M.frames)
    BY DEF Sound
  <2>2. ASSUME N.frames # <<>> PROVE N.frames[1].native = ""
    <3>1. n # 0 /\ 1 \in 1..n
      BY <1>1, <2>2, ShapeFacts
    <3>2. M.frames # <<>>
      BY <1>1, <3>1, ShapeFacts
    <3>3. QED
      BY <1>2, <2>1, <3>1, <3>2 DEF Alternate
  <2>3. ASSUME NEW i \in 1..Len(N.frames) - 1 PROVE N.frames[i].native = "" \/ N.frames[i + 1].native = ""
    <3>1. i \in 1..Len(M.frames) - 1 /\ i \in 1..n /\ i + 1 \in 1..n
      BY <1>1
    <3>2. QED
      BY <1>2, <2>1, <3>1 DEF Alternate
  <2>4. QED
    BY <2>2, <2>3 DEF Alternate
<1>4. TagsIn(N.errInfo, N.frames)
  <2>1. TagsIn(M.errInfo, M.frames) /\ N.errInfo = M.errInfo
    BY DEF Sound, Cut
  <2>2. ASSUME NEW i \in 1..Len(M.errInfo)
        PROVE  M.errInfo[i].frame \in 1..n /\ N.frames[M.errInfo[i].frame].native # ""
    <3>1. M.errInfo[i].frame \in 1..Len(M.frames) /\ M.errInfo[i].frame <= n /\ M.frames[M.errInfo[i].frame].native # ""
      BY <2>1 DEF TagsIn, TagsUpTo
    <3>2. M.errInfo[i].frame \in 1..n
      BY <1>1, <3>1, Below
    <3>3. QED
      BY <1>2, <3>1, <3>2
  <2>3. QED
    BY <1>1, <2>1, <2>2 DEF TagsIn
<1>5. Waiting(N.errInfo, N.frames)
  <2>1. Waiting(M.errInfo, M.frames) /\ N.errInfo = M.errInfo
    BY DEF Sound, Cut
  <2>2. \A i \in 1..n - 1 : i \in 1..n /\ i \in 1..Len(M.frames) - 1
    BY <1>1
  <2>3. QED
    BY <1>1, <1>2, <2>1, <2>2 DEF Waiting
<1>6. QED
  BY <1>1, <1>3, <1>4, <1>5, FramesAssumption DEF Sound, Cut

(* The tag of the frame on top is freed, with its block entry.             *)
LEMMA FreeTagSound ==
  ASSUME NEW M, Sound(M), M.frames # <<>>
  PROVE  /\ Sound(FreeTag(M))
         /\ FreeTag(M).frames = M.frames
         /\ FreeTag(M).status = M.status
         /\ TagsUpTo(FreeTag(M).errInfo, Len(M.frames) - 1)
         /\ ~OwnsTag(FreeTag(M))
<1> DEFINE E == M.errInfo
           N == FreeTag(M)
<1>1. Shape(M) /\ Len(M.frames) \in Nat /\ TagsIn(E, M.frames) /\ M.blocks = Len(E) /\ Fields \subseteq DOMAIN M
  BY ShapeFacts DEF Sound, Shape
<1>2. E \in TagList /\ Len(E) \in Nat
  <2>1. E \in TagList
    BY <1>1 DEF TagsIn, TagList
  <2>2. QED
    BY <2>1 DEF TagList
<1>3. CASE OwnsTag(M)
  <2>1. E # <<>> /\ E[Len(E)].frame = Len(M.frames) /\ Len(E) \in 1..Len(E)
    BY <1>2, <1>3, TagFacts DEF OwnsTag, Last
  <2>2. Front(E) \in TagList /\ Len(Front(E)) = Len(E) - 1 /\ \A i \in 1..Len(E) - 1 : Front(E)[i] = E[i]
    BY <1>2, <2>1, TagFacts
  <2>3. N.errInfo = Front(E) /\ N.blocks = Len(E) - 1 /\ N.frames = M.frames /\ N.status = M.status
    <3>1. E[Len(E)].bentry = Len(E)
      BY <1>1, <2>1 DEF TagsIn
    <3>2. QED
      BY <1>1, <1>3, <3>1 DEF FreeTag, Last, Fields
  <2>4. Fields \subseteq DOMAIN N
    BY <1>1 DEF FreeTag, Fields
  <2>5. ASSUME NEW i \in 1..Len(E) - 1 PROVE Front(E)[i].frame \in Nat /\ Front(E)[i].frame < Len(M.frames)
    <3>1. i \in 1..Len(E) /\ i < Len(E)
      BY <1>2
    <3>2. E[i].frame < E[Len(E)].frame
      BY <1>1, <2>1, <3>1 DEF TagsIn
    <3>3. E[i].frame \in Nat
      BY <1>2, <3>1, TagFacts
    <3>4. QED
      BY <2>1, <2>2, <3>2, <3>3
  <2>6. TagsIn(Front(E), M.frames)
    <3>1. Front(E) \in Seq([frame : Nat, bentry : Nat])
      BY <2>2 DEF TagList
    <3>2. ASSUME NEW i \in 1..Len(E) - 1
          PROVE  /\ i \in 1..Len(E) /\ Front(E)[i] = E[i]
                 /\ E[i].frame \in 1..Len(M.frames) /\ M.frames[E[i].frame].native # "" /\ E[i].bentry = i
      <4>1. i \in 1..Len(E)
        BY <1>2
      <4>2. QED
        BY <1>1, <2>2, <4>1 DEF TagsIn
    <3>3. \A i, j \in 1..Len(E) - 1 : i < j => Front(E)[i].frame < Front(E)[j].frame
      BY <1>1, <3>2 DEF TagsIn
    <3>4. QED
      BY <2>2, <3>1, <3>2, <3>3 DEF TagsIn
  <2>7. Waiting(Front(E), M.frames)
    <3>1. ASSUME NEW i \in 1..Len(M.frames) - 1, M.frames[i].native # ""
          PROVE  \E k \in 1..Len(E) - 1 : E[k].frame = i
      <4>1. PICK k \in 1..Len(E) : E[k].frame = i
        BY <3>1 DEF Sound, Waiting
      <4>2. i # Len(M.frames)
        BY <1>1, NotLast
      <4>3. k \in 1..Len(E) - 1
        BY <1>2, <2>1, <4>1, <4>2
      <4>4. QED
        BY <4>1, <4>3
    <3>2. QED
      BY <2>2, <3>1 DEF Waiting
  <2> HIDE DEF N
  <2>8. Sound(N)
    BY <1>1, <2>2, <2>3, <2>4, <2>6, <2>7 DEF Sound, Shape
  <2>9. TagsUpTo(N.errInfo, Len(M.frames) - 1)
    <3>1. \A i \in 1..Len(E) - 1 : Front(E)[i].frame <= Len(M.frames) - 1
      BY <1>1, <2>5
    <3>2. QED
      BY <2>2, <2>3, <3>1 DEF TagsUpTo
  <2>10. ~OwnsTag(N)
    <3>1. ASSUME Front(E) # <<>> PROVE Last(Front(E)).frame # Len(M.frames)
      <4>1. Len(E) - 1 \in 1..Len(E) - 1
        BY <2>2, <3>1, TagFacts
      <4>2. Last(Front(E)) = Front(E)[Len(E) - 1]
        BY <2>2 DEF Last
      <4>3. QED
        BY <1>1, <2>5, <4>1, <4>2
    <3>2. QED
      BY <2>3, <3>1 DEF OwnsTag
  <2>11. QED
    BY <2>3, <2>8, <2>9, <2>10 DEF N
<1>4. CASE ~OwnsTag(M)
  <2>1. N = M
    BY <1>4 DEF FreeTag
  <2>2. ASSUME NEW i \in 1..Len(E) PROVE E[i].frame <= Len(M.frames) - 1
    <3>1. Len(E) \in 1..Len(E) /\ E # <<>>
      BY <1>2, EmptySeq DEF TagList
    <3>2. E[Len(E)].frame # Len(M.frames)
      BY <1>4, <3>1 DEF OwnsTag, Last
    <3>3. E[Len(E)].frame \in 1..Len(M.frames) /\ E[i].frame \in 1..Len(M.frames)
      BY <1>1, <3>1 DEF TagsIn
    <3>4. i < Len(E) => E[i].frame < E[Len(E)].frame
      BY <1>1, <3>1 DEF TagsIn
    <3>5. i < Len(E) \/ i = Len(E)
      BY <1>2
    <3>6. QED
      BY <1>1, <3>2, <3>3, <3>4, <3>5
  <2>3. QED
    BY <1>4, <2>1, <2>2 DEF TagsUpTo
<1>5. QED
  BY <1>3, <1>4

(* popFrame of a frame that has no tag.                                    *)
LEMMA PopFrameCut ==
  ASSUME NEW M, Shape(M), M.frames # <<>>, M.errInfo \in TagList, ~OwnsTag(M)
  PROVE  Cut(M, PopFrame(M), Len(M.frames) - 1)
<1>1. FreeTag(M) = M
  BY DEF FreeTag
<1>2. UnwindErrInfo(M) = M
  BY <1>1, UnwindOne
<1>3. QED
  BY <1>2, PoppedCut DEF PopFrame

(* popFrame keeps the invariant, and a C function's caller is lox code.    *)
LEMMA PopFrameSound ==
  ASSUME NEW M, Sound(M), M.frames # <<>>
  PROVE  /\ Sound(PopFrame(M))
         /\ Len(PopFrame(M).frames) = Len(M.frames) - 1
         /\ M.status # "run" => PopFrame(M).status # "run"
         /\ NativeTop(M) => LoxTop(PopFrame(M))
<1> DEFINE N == FreeTag(M)
           P == PopFrame(M)
<1>1. /\ Sound(N) /\ N.frames = M.frames /\ N.status = M.status
      /\ TagsUpTo(N.errInfo, Len(M.frames) - 1) /\ ~OwnsTag(N)
  BY FreeTagSound
<1>2. Shape(M) /\ Len(M.frames) \in Nat \ {0}
  BY ShapeFacts DEF Sound
<1>3. P = Popped(Frame(M), N)
  <2>1. M.errInfo \in TagList
    BY DEF Sound, TagsIn, TagList
  <2>2. QED
    BY <1>1, <2>1, UnwindOne DEF PopFrame
<1> HIDE DEF N, P
<1>4. Cut(N, P, Len(M.frames) - 1)
  BY <1>1, <1>3, PoppedCut DEF Sound
<1>5. Sound(P)
  BY <1>1, <1>2, <1>4, CutSound
<1>6. Len(P.frames) = Len(M.frames) - 1 /\ (M.status # "run" => P.status # "run")
  BY <1>1, <1>4 DEF Cut
<1>7. ASSUME NativeTop(M) PROVE LoxTop(P)
  <2> DEFINE n == Len(M.frames)
  <2>1. M.frames[n].native # "" /\ Alternate(M.frames)
    BY <1>7 DEF NativeTop, Frame, Last, Sound
  <2>2. n # 1
    BY <1>7, <2>1 DEF Alternate, NativeTop
  <2>3. n - 1 \in 1..n - 1 /\ (n - 1) + 1 = n
    <3>1. n \in Nat /\ n # 0
      BY <1>2
    <3> HIDE DEF n
    <3>2. QED
      BY <2>2, <3>1
  <2>4. M.frames[n - 1].native = ""
    BY <2>1, <2>3 DEF Alternate
  <2>5. P.frames[n - 1].native = ""
    BY <1>1, <1>4, <1>6, <2>3, <2>4 DEF Cut, Kept
  <2>6. P.frames # <<>> /\ Shape(P)
    BY <1>5, <1>6, <2>3, ShapeFacts DEF Sound
  <2>7. QED
    BY <1>6, <2>5, <2>6 DEF LoxTop, Frame, Last
<1>8. QED
  BY <1>5, <1>6, <1>7 DEF P


(* PopFramesTo when no frame above has a tag.                              *)
LEMMA PopFramesToCut ==
  ASSUME NEW M, Shape(M), M.errInfo \in TagList, NEW n \in 0..Len(M.frames), TagsUpTo(M.errInfo, n)
  PROVE  Cut(M, PopFramesTo(M, n), n)
<1> DEFINE L == Len(M.frames)
           Turns(f, k) == f = [i \in 0..k |-> IF i = 0 THEN M ELSE PopFrame(f[i - 1])]
           h == CHOOSE f : Turns(f, L)
<1>1. L \in Nat /\ n \in Nat /\ n <= L
  BY ShapeFacts
<1>2. PopFramesTo(M, n) = IF L <= n THEN M ELSE h[L - n]
  BY DEF PopFramesTo
<1> HIDE DEF L
<1>3. \E f : Turns(f, L)
  <2> DEFINE T == {k \in 0..L : \E f : Turns(f, k)}
  <2>1. 0 \in T
    <3>1. Turns([i \in 0..0 |-> M], 0)
      OBVIOUS
    <3>2. 0 \in 0..L
      BY <1>1
    <3> HIDE DEF Turns
    <3>3. QED
      BY <3>1, <3>2
  <2>2. ASSUME NEW k \in 0..L - 1, k \in T PROVE k + 1 \in T
    <3>1. PICK f : Turns(f, k)
      BY <2>2
    <3> DEFINE g == [i \in 0..k + 1 |-> IF i = 0 THEN M ELSE PopFrame(f[i - 1])]
    <3>2. \A i \in 0..k : g[i] = f[i]
      BY <3>1
    <3>3. \A i \in 0..k + 1 : i # 0 => i - 1 \in 0..k
      OBVIOUS
    <3>4. \A i \in 0..k + 1 : g[i] = IF i = 0 THEN M ELSE PopFrame(g[i - 1])
      BY <3>2, <3>3
    <3>5. Turns(g, k + 1)
      BY <3>4
    <3>6. k + 1 \in 0..L
      BY <1>1
    <3> HIDE DEF Turns
    <3>7. QED
      BY <3>5, <3>6
  <2> HIDE DEF T
  <2>3. \A k \in 0..L : k \in T
    <3>1. \A k \in 0..L - 1 : k \in T => k + 1 \in T
      BY <2>2
    <3>2. QED
      BY <1>1, <2>1, <3>1, CountingUp
  <2>4. L \in T
    BY <1>1, <2>3
  <2> HIDE DEF Turns
  <2>5. QED
    BY <2>4 DEF T
<1>4. Turns(h, L)
  <2> HIDE DEF Turns
  <2>1. QED
    BY <1>3
<1> HIDE DEF h
<1>5. h[0] = M /\ \A i \in 0..L - 1 : h[i + 1] = PopFrame(h[i])
  <2>1. h[0] = M
    BY <1>1, <1>4
  <2>2. ASSUME NEW i \in 0..L - 1 PROVE h[i + 1] = PopFrame(h[i])
    <3>1. i + 1 \in 0..L /\ i + 1 # 0 /\ (i + 1) - 1 = i
      BY <1>1
    <3>2. QED
      BY <1>4, <3>1
  <2>3. QED
    BY <2>1, <2>2
<1> HIDE DEF Turns
<1>6. CASE L <= n
  <2>1. QED
    BY <1>1, <1>2, <1>6, QuietSame DEF Quiet, L
<1>7. CASE ~(L <= n)
  <2> DEFINE T == {i \in 0..L - n : Cut(M, h[i], L - i)}
  <2>1. L - n \in Nat
    BY <1>1, <1>7
  <2>2. 0 \in T
    BY <1>1, <1>5, <2>1, QuietSame DEF Quiet, L
  <2>3. ASSUME NEW i \in 0..(L - n) - 1, i \in T PROVE i + 1 \in T
    <3>1. /\ i \in 0..L - 1 /\ i + 1 \in 0..L - n
          /\ L - i \in Nat /\ L - i # 0 /\ n < L - i /\ (L - i) - 1 = L - (i + 1) /\ L - (i + 1) \in Nat /\ L - (i + 1) <= L - i
      BY <1>1, <1>7
    <3>2. Cut(M, h[i], L - i)
      BY <2>3
    <3>3. Shape(h[i]) /\ Len(h[i].frames) = L - i /\ h[i].errInfo = M.errInfo
      BY <3>2 DEF Cut
    <3>4. h[i].frames # <<>>
      BY <3>1, <3>3, ShapeFacts
    <3>5. ~OwnsTag(h[i])
      <4>1. ASSUME M.errInfo # <<>> PROVE Last(M.errInfo).frame <= n
        BY <4>1, TagFacts DEF TagsUpTo, Last
      <4>2. QED
        BY <1>1, <3>1, <3>3, <4>1 DEF OwnsTag
    <3>6. Cut(h[i], h[i + 1], L - (i + 1))
      BY <1>5, <3>1, <3>3, <3>4, <3>5, PopFrameCut
    <3>7. Cut(M, h[i + 1], L - (i + 1))
      BY <3>1, <3>2, <3>6, CutTrans
    <3>8. QED
      BY <3>1, <3>7
  <2> HIDE DEF T
  <2>4. L - n \in T
    <3>1. \A i \in 0..(L - n) - 1 : i \in T => i + 1 \in T
      BY <2>3
    <3> DEFINE N == L - n
    <3> HIDE DEF N
    <3>2. N \in T
      <4>1. N \in Nat /\ \A i \in 0..N - 1 : i \in T => i + 1 \in T
        BY <2>1, <3>1 DEF N
      <4>2. \A i \in 0..N : i \in T
        BY <2>2, <4>1, CountingUp
      <4>3. QED
        BY <4>1, <4>2
    <3>3. QED
      BY <3>2 DEF N
  <2>5. Cut(M, h[L - n], L - (L - n))
    BY <2>4 DEF T
  <2>6. L - (L - n) = n
    BY <1>1
  <2>7. QED
    BY <1>2, <1>7, <2>5, <2>6
<1>8. QED
  BY <1>6, <1>7


\* The frame on top has no tag, or it has one.
Free(M) == TagsUpTo(M.errInfo, Len(M.frames) - 1)
Tagged(M) == M.errInfo # <<>> /\ Last(M.errInfo).frame = Len(M.frames)

(* An error that no block ends leaves the C frames: lox code is below.     *)
LEMMA PopNativeFramesSound ==
  ASSUME NEW M, Sound(M), M.frames # <<>>, M.errInfo = <<>>
  PROVE  Sound(PopNativeFrames(M)) /\ LoxTop(PopNativeFrames(M))
<1> DEFINE L == Len(M.frames)
           Lowest(n) == M.frames[n].native = "" /\ \A i \in (n + 1)..L : M.frames[i].native # ""
           at == CHOOSE n \in DOMAIN M.frames : Lowest(n)
           N == PopNativeFrames(M)
<1>1. Shape(M) /\ L \in Nat /\ L # 0 /\ DOMAIN M.frames = 1..L /\ Alternate(M.frames)
  BY ShapeFacts DEF Sound
<1>2. N = PopFramesTo(M, at)
  BY DEF PopNativeFrames
<1>3. \E n \in 1..L : Lowest(n)
  <2> HIDE DEF L
  <2>1. CASE M.frames[L].native = ""
    <3>1. L \in 1..L /\ \A i \in (L + 1)..L : FALSE
      BY <1>1
    <3>2. QED
      BY <2>1, <3>1
  <2>2. CASE M.frames[L].native # ""
    <3>1. L # 1
      BY <2>2, <1>1 DEF Alternate
    <3>2. L - 1 \in 1..L - 1 /\ L - 1 \in 1..L /\ (L - 1) + 1 = L /\ \A i \in ((L - 1) + 1)..L : i = L
      BY <1>1, <3>1
    <3>3. M.frames[L - 1].native = ""
      BY <1>1, <2>2, <3>2 DEF Alternate, L
    <3>4. QED
      BY <2>2, <3>2, <3>3
  <2>3. QED
    BY <2>1, <2>2
<1>4. at \in 1..L /\ M.frames[at].native = ""
  BY <1>1, <1>3
<1> HIDE DEF at, N, L
<1>5. at \in 0..L /\ at # 0 /\ at \in 1..at
  BY <1>1, <1>4, InRange
<1>6. M.errInfo \in TagList /\ TagsUpTo(M.errInfo, at)
  BY DEF TagList, TagsUpTo, Sound, TagsIn
<1>7. Cut(M, N, at)
  BY <1>1, <1>2, <1>5, <1>6, PopFramesToCut DEF L
<1>8. Sound(N)
  BY <1>5, <1>6, <1>7, CutSound DEF L
<1>9. LoxTop(N)
  <2>1. Len(N.frames) = at /\ Shape(N) /\ N.frames[at].native = ""
    BY <1>4, <1>5, <1>7 DEF Cut, Kept
  <2>2. N.frames # <<>>
    BY <1>5, <2>1, ShapeFacts
  <2>3. QED
    BY <2>1, <2>2 DEF LoxTop, Frame, Last
<1>10. QED
  BY <1>8, <1>9 DEF N

(* A C function that returns goes back to the lox code that called it.     *)
LEMMA NativeReturnGood ==
  ASSUME NEW M, InC(M), NEW val
  PROVE  Good(NativeReturn(M, val))
<1> DEFINE M1 == [M EXCEPT !.top = @ - Frame(M).argc - 1]
           M2 == PopFrame(M1)
<1>1. Shape(M)
  BY DEF InC, Sound
<1>2. Plain(M, M1)
  BY <1>1 DEF Shape, Fields, Plain, Apart
<1> HIDE DEF M1
<1>3. Sound(M1) /\ NativeTop(M1)
  BY <1>1, <1>2, QuietPlain, QuietSound DEF InC
<1>4. Sound(M2) /\ LoxTop(M2)
  BY <1>3, PopFrameSound DEF NativeTop
<1> HIDE DEF M2
<1>5. Quiet(M2, Push(M2, val))
  BY <1>4, StackQuiet DEF Sound
<1>6. Sound(Push(M2, val)) /\ LoxTop(Push(M2, val))
  BY <1>4, <1>5, QuietSound
<1>7. NativeReturn(M, val) = Push(M2, val)
  BY DEF NativeReturn, M1, M2
<1>8. QED
  BY <1>6, <1>7 DEF Good

(* The second half of SETUP_BLOCK: back in the C function that has the     *)
(* last tag, which is gone.                                                *)
LEMMA LandInNativeSound ==
  ASSUME NEW M, Sound(M), M.errInfo # <<>>
  PROVE  /\ InC(LandInNative(M))
         /\ Free(LandInNative(M))
         /\ Len(LandInNative(M).errInfo) = Len(M.errInfo) - 1
<1> DEFINE E == M.errInfo
           info == Last(E)
           n == info.frame
           M1 == [M EXCEPT !.blocks = IF @ >= info.bentry THEN info.bentry - 1 ELSE 0]
           P == PopFramesTo(M1, n)
           Q == [P EXCEPT !.blocks = M.blocks]
           N == LandInNative(M)
<1>1. /\ Shape(M) /\ E \in TagList /\ TagsIn(E, M.frames) /\ M.blocks = Len(E) /\ Fields \subseteq DOMAIN M
      /\ Len(M.frames) \in Nat
  BY ShapeFacts DEF Sound, TagsIn, TagList, Shape
<1>2. Len(E) \in 1..Len(E) /\ Len(E) \in Nat /\ info = E[Len(E)]
  BY <1>1, TagFacts DEF Last
<1>3. n \in 1..Len(M.frames) /\ M.frames[n].native # "" /\ info.bentry = Len(E)
  BY <1>1, <1>2 DEF TagsIn
<1> HIDE DEF n, info, E
<1>4. M1.blocks = Len(E) - 1 /\ M1.frames = M.frames /\ M1.errInfo = E /\ M1.status = M.status /\ Shape(M1)
  <2>1. M1.blocks = Len(E) - 1
    <3>1. "blocks" \in DOMAIN M /\ M.blocks = Len(E) /\ info.bentry = Len(E)
      BY <1>1, <1>3 DEF Fields
    <3>2. M1.blocks = IF Len(E) >= Len(E) THEN Len(E) - 1 ELSE 0
      BY <3>1
    <3>3. QED
      BY <1>2, <3>2
  <2>2. M1.frames = M.frames /\ M1.errInfo = E /\ M1.status = M.status /\ Fields \subseteq DOMAIN M1
    BY <1>1 DEF Fields, E
  <2>3. QED
    BY <1>1, <2>1, <2>2 DEF Shape
<1>5. n \in 0..Len(M.frames) /\ n # 0
  BY <1>1, <1>3, InRange
<1>6. TagsUpTo(E, n)
  <2>1. ASSUME NEW i \in 1..Len(E) PROVE E[i].frame <= n
    <3>1. E[i].frame \in Nat /\ n \in Nat /\ n = E[Len(E)].frame
      BY <1>1, <1>2, TagFacts DEF n
    <3>2. i < Len(E) \/ i = Len(E)
      BY <1>2
    <3>3. i < Len(E) => E[i].frame < n
      BY <1>1, <1>2, <3>1 DEF TagsIn
    <3>4. QED
      BY <1>2, <3>1, <3>2, <3>3
  <2>2. QED
    BY <2>1 DEF TagsUpTo
<1>7. N = [P EXCEPT !.errInfo = Front(@)]
  BY DEF LandInNative, info, n, E
<1> HIDE DEF M1, N
<1>8. Cut(M1, P, n)
  BY <1>1, <1>4, <1>5, <1>6, PopFramesToCut
<1> HIDE DEF P
<1>9. Fields \subseteq DOMAIN P
  BY <1>8 DEF Cut, Shape
<1>10. Cut(M, Q, n)
  BY <1>4, <1>8, <1>9 DEF Cut, Shape, Fields, E
<1> HIDE DEF Q
<1>11. Sound(Q) /\ Q.errInfo = E /\ Len(Q.frames) = n /\ Q.frames # <<>>
  <2>1. Sound(Q)
    BY <1>5, <1>6, <1>10, CutSound DEF E
  <2>2. QED
    BY <1>5, <1>10, <2>1, ShapeFacts DEF Cut, Sound, E
<1>12. OwnsTag(Q)
  BY <1>11 DEF OwnsTag, n, info, E
<1>13. FreeTag(Q).errInfo = Front(E) /\ FreeTag(Q).blocks = Len(E) - 1 /\ FreeTag(Q).frames = P.frames
       /\ FreeTag(Q).status = P.status
  <2>1. Q.blocks = Len(E) /\ Q.frames = P.frames /\ Q.status = P.status /\ Fields \subseteq DOMAIN Q
    BY <1>1, <1>9 DEF Q, Fields
  <2>2. QED
    BY <1>3, <1>11, <1>12, <2>1 DEF FreeTag, Fields, info
<1>14. N.errInfo = Front(E) /\ N.blocks = Len(E) - 1 /\ N.frames = P.frames /\ N.status = P.status /\ Fields \subseteq DOMAIN N
  BY <1>4, <1>7, <1>8, <1>9 DEF Cut, Fields
<1>15. Plain(FreeTag(Q), N)
  BY <1>13, <1>14 DEF Plain, Apart
<1>16. /\ Sound(FreeTag(Q)) /\ TagsUpTo(FreeTag(Q).errInfo, n - 1)
       /\ FreeTag(Q).frames = Q.frames
  BY <1>11, FreeTagSound
<1>17. NativeTop(FreeTag(Q))
  <2>1. Q.frames[n].native # ""
    <3>1. E[Len(E)].frame = n /\ Len(E) \in 1..Len(E)
      BY <1>2 DEF n
    <3>2. QED
      BY <1>11, <3>1 DEF Sound, TagsIn
  <2>2. QED
    BY <1>11, <1>16, <2>1 DEF NativeTop, Frame, Last
<1>18. Sound(N) /\ NativeTop(N)
  BY <1>15, <1>16, <1>17, QuietPlain, QuietSound DEF Sound
<1>19. Free(N)
  BY <1>11, <1>13, <1>14, <1>16 DEF Free
<1>20. Len(N.errInfo) = Len(E) - 1
  BY <1>1, <1>14, TagFacts DEF E
<1>21. QED
  BY <1>18, <1>19, <1>20 DEF N, InC, E


(* What is quiet keeps the machine ready, and the tag of the frame on top. *)
LEMMA QuietReady ==
  ASSUME NEW M, NEW N, Quiet(M, N), Shape(M)
  PROVE  /\ Ready(M) => Ready(N)
         /\ Good(M) => Good(N)
         /\ InC(M) => InC(N)
         /\ Free(M) => Free(N)
         /\ Tagged(M) => Tagged(N)
<1>1. (Good(M) => Good(N)) /\ (InC(M) => InC(N))
  BY QuietSound DEF Good, InC
<1>2. Ready(M) => Ready(N)
  <2>1. N.status = "run" => M.status = "run"
    BY DEF Quiet, Cut
  <2>2. QED
    BY <2>1, QuietSound DEF Ready
<1>3. (Free(M) => Free(N)) /\ (Tagged(M) => Tagged(N))
  BY DEF Free, Tagged, Quiet, Cut
<1>4. QED
  BY <1>1, <1>2, <1>3

(* A machine that stops need not be in lox code.                           *)
LEMMA FailReady ==
  ASSUME NEW M, Sound(M), NEW how, how # "run"
  PROVE  Ready(Fail(M, how))
<1>1. Shape(M)
  BY DEF Sound
<1>2. Quiet(M, Fail(M, how)) /\ Fail(M, how).status # "run"
  BY <1>1, FailQuiet
<1>3. QED
  BY <1>2, QuietSound DEF Ready

(* A block that ended: its C function goes on, and its tag is gone.        *)
LEMMA LandedSound ==
  ASSUME NEW M, Sound(M), M.errInfo # <<>>
  PROVE  InC(Landed(M)) /\ Free(Landed(M)) /\ Len(Landed(M).errInfo) = Len(M.errInfo) - 1
<1> DEFINE N == LandInNative(M)
<1>1. InC(N) /\ Free(N) /\ Len(N.errInfo) = Len(M.errInfo) - 1
  BY LandInNativeSound
<1> HIDE DEF N
<1>2. Shape(N)
  BY <1>1 DEF InC, Sound
<1>3. Quiet(N, LeaveBlock(N))
  BY <1>2, StackQuiet, QuietSame DEF LeaveBlock
<1>4. InC(LeaveBlock(N)) /\ Free(LeaveBlock(N)) /\ LeaveBlock(N).errInfo = N.errInfo
  BY <1>1, <1>2, <1>3, QuietReady DEF Quiet, Cut
<1>5. QED
  BY <1>1, <1>4 DEF Landed, N

(* throwError with an error that ends no block: no block is left.          *)
LEMMA LeaveBlocksSound ==
  ASSUME NEW M, Sound(M), M.frames # <<>>
  PROVE  /\ Sound(LeaveBlocks(M))
         /\ LeaveBlocks(M).frames # <<>>
         /\ LeaveBlocks(M).errInfo = <<>>
<1> DEFINE L == Len(M.errInfo)
           Turns(f, k) == f = [i \in 0..k |-> IF i = 0 THEN M ELSE Landed(f[i - 1])]
           h == CHOOSE f : Turns(f, L)
<1>1. L \in Nat
  BY TagFacts DEF Sound, TagsIn, TagList
<1>2. LeaveBlocks(M) = h[L]
  BY DEF LeaveBlocks
<1>3. \E f : Turns(f, L)
  <2> HIDE DEF L
  <2> DEFINE T == {k \in 0..L : \E f : Turns(f, k)}
  <2>1. 0 \in T
    <3>1. Turns([i \in 0..0 |-> M], 0)
      OBVIOUS
    <3>2. 0 \in 0..L
      BY <1>1
    <3> HIDE DEF Turns
    <3>3. QED
      BY <3>1, <3>2
  <2>2. ASSUME NEW k \in 0..L - 1, k \in T PROVE k + 1 \in T
    <3>1. PICK f : Turns(f, k)
      BY <2>2
    <3> DEFINE g == [i \in 0..k + 1 |-> IF i = 0 THEN M ELSE Landed(f[i - 1])]
    <3>2. \A i \in 0..k : g[i] = f[i]
      BY <3>1
    <3>3. \A i \in 0..k + 1 : i # 0 => i - 1 \in 0..k
      OBVIOUS
    <3>4. \A i \in 0..k + 1 : g[i] = IF i = 0 THEN M ELSE Landed(g[i - 1])
      BY <3>2, <3>3
    <3>5. Turns(g, k + 1)
      BY <3>4
    <3>6. k + 1 \in 0..L
      BY <1>1
    <3> HIDE DEF Turns
    <3>7. QED
      BY <3>5, <3>6
  <2> HIDE DEF T
  <2>3. \A k \in 0..L : k \in T
    <3>1. \A k \in 0..L - 1 : k \in T => k + 1 \in T
      BY <2>2
    <3>2. QED
      BY <1>1, <2>1, <3>1, CountingUp
  <2>4. L \in T
    BY <1>1, <2>3
  <2> HIDE DEF Turns
  <2>5. QED
    BY <2>4 DEF T
<1>4. Turns(h, L)
  <2> HIDE DEF Turns
  <2>1. QED
    BY <1>3
<1> HIDE DEF h, L
<1>5. h[0] = M /\ \A i \in 0..L - 1 : h[i + 1] = Landed(h[i])
  <2>1. h[0] = M
    BY <1>1, <1>4
  <2>2. ASSUME NEW i \in 0..L - 1 PROVE h[i + 1] = Landed(h[i])
    <3>1. i + 1 \in 0..L /\ i + 1 # 0 /\ (i + 1) - 1 = i
      BY <1>1
    <3>2. QED
      BY <1>4, <3>1
  <2>3. QED
    BY <2>1, <2>2
<1> HIDE DEF Turns
<1> DEFINE Fine(N, i) == Sound(N) /\ N.frames # <<>> /\ Len(N.errInfo) = L - i
           T == {i \in 0..L : Fine(h[i], i)}
<1>6. 0 \in T
  BY <1>1, <1>5 DEF L
<1>7. ASSUME NEW i \in 0..L - 1, i \in T PROVE i + 1 \in T
  <2>1. i + 1 \in 0..L /\ L - i # 0 /\ (L - i) - 1 = L - (i + 1)
    BY <1>1
  <2>2. Sound(h[i]) /\ h[i].frames # <<>> /\ Len(h[i].errInfo) = L - i
    BY <1>7
  <2>3. h[i].errInfo # <<>>
    BY <2>1, <2>2, EmptySeq
  <2>4. InC(h[i + 1]) /\ Len(h[i + 1].errInfo) = Len(h[i].errInfo) - 1
    BY <1>5, <2>2, <2>3, LandedSound
  <2>5. Fine(h[i + 1], i + 1)
    BY <2>1, <2>2, <2>4 DEF InC, NativeTop
  <2> HIDE DEF Fine
  <2>6. QED
    BY <2>1, <2>5
<1> HIDE DEF T
<1>8. L \in T
  <2>1. \A i \in 0..L - 1 : i \in T => i + 1 \in T
    BY <1>7
  <2>2. \A i \in 0..L : i \in T
    BY <1>1, <1>6, <2>1, CountingUp
  <2>3. QED
    BY <1>1, <2>2
<1>9. Sound(h[L]) /\ h[L].frames # <<>> /\ Len(h[L].errInfo) = 0
  <2>1. L - L = 0
    BY <1>1
  <2>2. QED
    BY <1>8, <2>1 DEF T
<1>10. h[L].errInfo = <<>>
  BY <1>9, TagFacts DEF Sound, TagsIn, TagList
<1>11. QED
  BY <1>2, <1>9, <1>10


-----------------------------------------------------------------------------
(* throwError.                                                             *)

\* Where an error looks for a handler: no block is left.
Outside(M) == Sound(M) /\ M.frames # <<>> /\ M.errInfo = <<>>

(* A frame that does not catch the error goes; the last one stays.         *)
LEMMA OutwardOutside ==
  ASSUME NEW p, Outside(p[1]), NEW class
  PROVE  Outside(Outward(p, class)[1])
<1> DEFINE M == p[1]
           M1 == EnsureEnds(M, Frame(M).fn)
           M2 == [M1 EXCEPT !.top = Frame(M).slots]
           N == PopFrame(M2)
<1>1. CASE Caught(p[1], class, p[2]) \/ Len(p[1].frames) = 1
  BY <1>1 DEF Outward
<1>2. CASE ~(Caught(p[1], class, p[2]) \/ Len(p[1].frames) = 1)
  <2>1. Outward(p, class)[1] = N
    BY <1>2 DEF Outward
  <2> HIDE DEF M
  <2>2. Sound(M) /\ M.frames # <<>> /\ M.errInfo = <<>> /\ Shape(M) /\ Len(M.frames) # 1
    BY <1>2 DEF Outside, Sound, M
  <2>3. Quiet(M, M1)
    BY <2>2, PlainOperations
  <2> HIDE DEF M1
  <2>4. Quiet(M1, M2)
    <3>1. Plain(M1, M2)
      BY <2>3, QuietShape DEF Plain, Apart, Shape, Fields
    <3>2. QED
      BY <2>3, <3>1, QuietShape, QuietPlain
  <2> HIDE DEF M2
  <2>5. Quiet(M, M2)
    BY <2>2, <2>3, <2>4, QuietTrans
  <2>6. Sound(M2) /\ Shape(M2) /\ Len(M2.frames) = Len(M.frames) /\ M2.errInfo = <<>> /\ M2.frames # <<>>
    BY <2>2, <2>5, QuietSound, ShapeFacts DEF Quiet, Cut, Sound
  <2>7. Sound(N) /\ Len(N.frames) = Len(M.frames) - 1
    BY <2>6, PopFrameSound
  <2>8. N.errInfo = <<>>
    <3>1. ~OwnsTag(M2) /\ M2.errInfo \in TagList
      BY <2>6 DEF OwnsTag, TagList
    <3>2. QED
      BY <2>6, <3>1, PopFrameCut DEF Cut
  <2> HIDE DEF N
  <2>9. N.frames # <<>>
    <3>1. Len(M.frames) \in Nat
      BY <2>2, ShapeFacts
    <3>2. Len(N.frames) # 0
      BY <2>2, <2>7, <3>1
    <3>3. Shape(N)
      BY <2>7 DEF Sound
    <3>4. QED
      BY <3>2, <3>3, ShapeFacts
  <2>10. QED
    BY <2>1, <2>7, <2>8, <2>9 DEF Outside, N
<1>3. QED
  BY <1>1, <1>2

(* The jump to a handler, or the end of the thread.                        *)
LEMMA LandOrEndReady ==
  ASSUME NEW M, Outside(M), NEW class, NEW off
  PROVE  Ready(LandOrEnd(M, class, off))
<1>1. Sound(M) /\ Shape(M) /\ M.frames # <<>> /\ M.errInfo = <<>>
  BY DEF Outside, Sound
<1>2. ASSUME NEW fn, NEW i PROVE Ready(Land(M, fn, i))
  <2> DEFINE N == PopNativeFrames(M)
             P == [N EXCEPT !.rows[<<fn, i>>] =
                     [thrown |-> M.lastErr, running |-> @.running \/ Funcs[fn].catch[i].isEnsure]]
             J == Jump(P, Funcs[fn].catch[i].itarget)
  <2>1. Sound(N) /\ LoxTop(N)
    BY <1>1, PopNativeFramesSound
  <2> HIDE DEF N
  <2>2. Plain(N, P)
    BY <2>1 DEF Plain, Apart, Sound, Shape, Fields
  <2> HIDE DEF P
  <2>3. Sound(P) /\ LoxTop(P) /\ Shape(P)
    BY <2>1, <2>2, QuietPlain, QuietSound DEF Sound
  <2>4. Sound(J) /\ LoxTop(J)
    BY <2>3, FrameQuiet, QuietSound
  <2>5. QED
    BY <2>4 DEF Land, Ready, J, P, N
<1>3. Ready(Fail(EnsureEnds(M, Frame(M).fn), "uncaught"))
  <2>1. Sound(EnsureEnds(M, Frame(M).fn))
    BY <1>1, PlainOperations, QuietSound
  <2>2. QED
    BY <2>1, FailReady
<1>4. QED
  BY <1>2, <1>3 DEF LandOrEnd

(* findThrowJumpLoc.                                                       *)
LEMMA FindThrowJumpLocReady ==
  ASSUME NEW M, Outside(M), NEW class, NEW off
  PROVE  Ready(FindThrowJumpLoc(M, class, off))
<1> DEFINE L == Len(M.frames)
           start == <<M, off>>
           Turns(f, k) == f = [i \in 0..k |-> IF i = 0 THEN start ELSE Outward(f[i - 1], class)]
           h == CHOOSE f : Turns(f, L)
<1>1. L \in Nat
  BY ShapeFacts DEF Outside, Sound
<1>2. FindThrowJumpLoc(M, class, off) = LandOrEnd(h[L][1], class, h[L][2])
  BY DEF FindThrowJumpLoc
<1> HIDE DEF start
<1>3. \E f : Turns(f, L)
  <2> HIDE DEF L
  <2> DEFINE T == {k \in 0..L : \E f : Turns(f, k)}
  <2>1. 0 \in T
    <3>1. Turns([i \in 0..0 |-> start], 0)
      OBVIOUS
    <3>2. 0 \in 0..L
      BY <1>1
    <3> HIDE DEF Turns
    <3>3. QED
      BY <3>1, <3>2
  <2>2. ASSUME NEW k \in 0..L - 1, k \in T PROVE k + 1 \in T
    <3>1. PICK f : Turns(f, k)
      BY <2>2
    <3> DEFINE g == [i \in 0..k + 1 |-> IF i = 0 THEN start ELSE Outward(f[i - 1], class)]
    <3>2. \A i \in 0..k : g[i] = f[i]
      BY <3>1
    <3>3. \A i \in 0..k + 1 : i # 0 => i - 1 \in 0..k
      OBVIOUS
    <3>4. \A i \in 0..k + 1 : g[i] = IF i = 0 THEN start ELSE Outward(g[i - 1], class)
      BY <3>2, <3>3
    <3>5. Turns(g, k + 1)
      BY <3>4
    <3>6. k + 1 \in 0..L
      BY <1>1
    <3> HIDE DEF Turns
    <3>7. QED
      BY <3>5, <3>6
  <2> HIDE DEF T
  <2>3. \A k \in 0..L : k \in T
    <3>1. \A k \in 0..L - 1 : k \in T => k + 1 \in T
      BY <2>2
    <3>2. QED
      BY <1>1, <2>1, <3>1, CountingUp
  <2>4. L \in T
    BY <1>1, <2>3
  <2> HIDE DEF Turns
  <2>5. QED
    BY <2>4 DEF T
<1>4. Turns(h, L)
  <2> HIDE DEF Turns
  <2>1. QED
    BY <1>3
<1> HIDE DEF h, L
<1>5. h[0] = start /\ \A i \in 0..L - 1 : h[i + 1] = Outward(h[i], class)
  <2>1. h[0] = start
    BY <1>1, <1>4
  <2>2. ASSUME NEW i \in 0..L - 1 PROVE h[i + 1] = Outward(h[i], class)
    <3>1. i + 1 \in 0..L /\ i + 1 # 0 /\ (i + 1) - 1 = i
      BY <1>1
    <3>2. QED
      BY <1>4, <3>1
  <2>3. QED
    BY <2>1, <2>2
<1> HIDE DEF Turns
<1> DEFINE T == {i \in 0..L : Outside(h[i][1])}
<1>6. 0 \in T
  <2>1. h[0][1] = M
    BY <1>5 DEF start
  <2>2. QED
    BY <1>1, <2>1
<1>7. ASSUME NEW i \in 0..L - 1, i \in T PROVE i + 1 \in T
  <2>1. i + 1 \in 0..L
    BY <1>1
  <2>2. Outside(h[i + 1][1])
    BY <1>5, <1>7, OutwardOutside
  <2>3. QED
    BY <2>1, <2>2
<1> HIDE DEF T
<1>8. L \in T
  <2>1. \A i \in 0..L - 1 : i \in T => i + 1 \in T
    BY <1>7
  <2>2. \A i \in 0..L : i \in T
    BY <1>1, <1>6, <2>1, CountingUp
  <2>3. QED
    BY <1>1, <2>2
<1>9. Outside(h[L][1])
  BY <1>8 DEF T
<1>10. QED
  BY <1>2, <1>9, LandOrEndReady


-----------------------------------------------------------------------------
(* Calls: the frames that are pushed, and the tags.                        *)

IsLox(f) == f.native = ""
Pushed(M, N, e) == N.frames = Append(M.frames, e) /\ Apart(M, N)

(* One frame more.                                                         *)
LEMMA AppendSound ==
  ASSUME NEW M, Sound(M), M.frames # <<>>, ~FramesFull(M),
         NEW e, FrameShape(e), NativeTop(M) => Tagged(M) /\ IsLox(e),
         NEW N, Pushed(M, N, e)
  PROVE  /\ Sound(N) /\ Free(N)
         /\ N.frames # <<>> /\ Frame(N) = e
<1> DEFINE F == M.frames
           L == Len(F)
           E == M.errInfo
           G == N.frames
<1>1. Shape(M) /\ Sequence(F) /\ L \in Nat /\ L # 0
  BY ShapeFacts DEF Sound, Shape, FramesShape
<1>2. Sequence(G) /\ Len(G) = L + 1 /\ G[L + 1] = e /\ \A i \in 1..L : G[i] = F[i]
  <2>1. G = Append(F, e)
    BY DEF Pushed
  <2> HIDE DEF F, G
  <2>2. QED
    BY <1>1, <2>1, SequenceAppend DEF L
<1>3. /\ TagsIn(E, F) /\ Alternate(F) /\ Waiting(E, F) /\ N.errInfo = E /\ N.blocks = Len(E) /\ Fields \subseteq DOMAIN N
      /\ M.status # "run" => N.status # "run"
  BY DEF Sound, Pushed, Apart
<1>4. \A i \in 1..L + 1 : i \in 1..L \/ i = L + 1
  <2> HIDE DEF L
  <2>1. QED
    BY <1>1
<1>5. Shape(N)
  <2>1. \A i \in 1..L : FrameShape(F[i])
    BY <1>1, ShapeFacts
  <2>2. QED
    BY <1>2, <1>3, <1>4, <2>1 DEF Shape, FramesShape
<1>6. F[L].native # "" => Tagged(M) /\ e.native = ""
  BY DEF NativeTop, Frame, Last, IsLox
<1> HIDE DEF F, L, E, G
<1>7. L \in 1..L /\ 1 \in 1..L /\ L + 1 \in 1..L + 1 /\ (L + 1) - 1 = L
  BY <1>1
<1>8. F # <<>> /\ G # <<>>
  <2>1. Len(G) # 0
    BY <1>1, <1>2
  <2>2. QED
    BY <1>5, <2>1, ShapeFacts DEF F, G
<1>9. Alternate(G)
  <2>1. G[1].native = ""
    BY <1>2, <1>3, <1>7, <1>8 DEF Alternate
  <2>2. ASSUME NEW i \in 1..L PROVE G[i].native = "" \/ G[i + 1].native = ""
    <3>1. CASE i = L
      BY <1>2, <1>6, <1>7, <3>1
    <3>2. CASE i # L
      <4>1. i \in 1..L - 1 /\ i + 1 \in 1..L
        BY <1>1, <3>2
      <4>2. F[i].native = "" \/ F[i + 1].native = ""
        BY <1>3, <4>1 DEF Alternate, L
      <4>3. G[i] = F[i] /\ G[i + 1] = F[i + 1]
        BY <1>2, <4>1
      <4>4. QED
        BY <4>2, <4>3
    <3>3. QED
      BY <3>1, <3>2
  <2>3. QED
    BY <1>2, <1>7, <2>1, <2>2 DEF Alternate
<1>10. TagsIn(E, G)
  <2>1. \A i \in 1..L : i \in 1..L + 1
    BY <1>1
  <2>2. \A i \in 1..Len(E) : E[i].frame \in 1..L /\ F[E[i].frame].native # "" /\ E[i].bentry = i
    BY <1>3 DEF TagsIn, L
  <2>3. \A i \in 1..Len(E) : E[i].frame \in 1..Len(G) /\ G[E[i].frame].native # "" /\ E[i].bentry = i
    BY <1>2, <2>1, <2>2
  <2>4. QED
    BY <1>3, <2>3 DEF TagsIn
<1>11. Waiting(E, G)
  <2>1. ASSUME NEW i \in 1..L, G[i].native # "" PROVE \E k \in 1..Len(E) : E[k].frame = i
    <3>1. CASE i = L
      <4>1. E # <<>> /\ Last(E).frame = L
        BY <1>2, <1>6, <2>1, <3>1 DEF Tagged, E, F, L
      <4>2. E \in TagList
        BY <1>3 DEF TagsIn, TagList
      <4>3. Len(E) \in 1..Len(E) /\ E[Len(E)].frame = L
        BY <4>1, <4>2, TagFacts DEF Last
      <4>4. QED
        BY <3>1, <4>3
    <3>2. CASE i # L
      <4>1. i \in 1..L - 1
        BY <1>1, <3>2
      <4>2. QED
        BY <1>2, <1>3, <2>1, <4>1 DEF Waiting, L
    <3>3. QED
      BY <3>1, <3>2
  <2>2. QED
    BY <1>2, <1>7, <2>1 DEF Waiting
<1>12. L + 1 <= FRAMES_MAX
  BY <1>1, FramesAssumption DEF FramesFull, F, L
<1>13. Sound(N)
  BY <1>2, <1>3, <1>5, <1>9, <1>10, <1>11, <1>12 DEF Sound, G
<1>14. Free(N)
  <2>1. ASSUME NEW i \in 1..Len(E) PROVE E[i].frame <= L
    <3>1. E[i].frame \in 1..L
      BY <1>3 DEF TagsIn, L
    <3>2. QED
      BY <1>1, <3>1
  <2>2. QED
    BY <1>2, <1>3, <1>7, <2>1 DEF Free, TagsUpTo, G
<1>15. QED
  BY <1>2, <1>8, <1>13, <1>14 DEF Frame, Last, G

(* pushFrame, for lox code.                                                *)
LEMMA PushFrameGood ==
  ASSUME NEW M, Sound(M), M.frames # <<>>, ~FramesFull(M), NativeTop(M) => Tagged(M),
         NEW slots, NEW f, FrameShape(f), IsLox(f)
  PROVE  Good(PushFrame(M, slots, f))
<1> DEFINE e == [f EXCEPT !.slots = slots, !.locals = LocalsTable(M, slots, Len(@))]
           N == PushFrame(M, slots, f)
<1>1. FrameShape(e) /\ IsLox(e)
  BY DEF FrameShape, IsLox
<1>2. Pushed(M, N, e)
  BY DEF Pushed, PushFrame, Sound, Shape, Fields, Apart
<1> HIDE DEF e, N
<1>3. Sound(N) /\ N.frames # <<>> /\ Frame(N) = e
  BY <1>1, <1>2, AppendSound
<1>4. QED
  BY <1>1, <1>3 DEF Good, LoxTop, IsLox, N

(* pushNativeFrame.                                                        *)
LEMMA PushNativeFree ==
  ASSUME NEW M, Good(M), ~FramesFull(M), NEW name, name # "", NEW argc, NEW block
  PROVE  InC(PushNative(M, name, argc, block)) /\ Free(PushNative(M, name, argc, block))
<1> DEFINE e == [Frame(M) EXCEPT !.native = name, !.start = 0, !.adjust = 0,
                                 !.args = M.top - argc - 1, !.argc = argc, !.block = block, !.iter = 0,
                                 !.instance = Nil, !.klass = "", !.after = ""]
           N == PushNative(M, name, argc, block)
<1>1. Sound(M) /\ Shape(M) /\ M.frames # <<>> /\ ~NativeTop(M)
  BY DEF Good, Sound, LoxTop, NativeTop
<1>2. FrameShape(Frame(M))
  <2>1. Len(M.frames) \in Nat /\ Len(M.frames) # 0 /\ \A i \in 1..Len(M.frames) : FrameShape(M.frames[i])
    BY <1>1, ShapeFacts
  <2>2. QED
    BY <2>1, InRange DEF Frame, Last
<1>3. FrameShape(e) /\ e.native = name
  BY <1>2 DEF FrameShape, Afters
<1>4. Pushed(M, N, e)
  BY <1>1 DEF Pushed, PushNative, Shape, Fields, Apart
<1> HIDE DEF e, N
<1>5. Sound(N) /\ Free(N) /\ N.frames # <<>> /\ Frame(N) = e
  BY <1>1, <1>3, <1>4, AppendSound
<1>6. QED
  BY <1>3, <1>5 DEF InC, NativeTop, N

\* Who may call lox code: lox code, or a C function that has left a tag.
MayCall(M) == Sound(M) /\ M.frames # <<>> /\ (NativeTop(M) => Tagged(M))

(* What is quiet leaves that as it is.                                     *)
LEMMA QuietMayCall ==
  ASSUME NEW M, NEW N, MayCall(M), Quiet(M, N)
  PROVE  MayCall(N) /\ (FramesFull(N) <=> FramesFull(M))
<1>1. Sound(M) /\ Shape(M) /\ M.frames # <<>>
  BY DEF MayCall, Sound
<1>2. Sound(N) /\ Shape(N) /\ Len(N.frames) = Len(M.frames)
  BY <1>1, QuietSound DEF Quiet, Cut
<1>3. N.frames # <<>>
  BY <1>1, <1>2, ShapeFacts
<1>4. LoxTop(M) \/ (NativeTop(M) /\ Tagged(M))
  BY DEF MayCall, LoxTop, NativeTop
<1>5. LoxTop(N) \/ Tagged(N)
  BY <1>1, <1>4, QuietSound, QuietReady
<1>6. QED
  BY <1>2, <1>3, <1>5 DEF MayCall, FramesFull, LoxTop, NativeTop

(* Lox code that is called runs, or there is no room for its frame.        *)
LEMMA CallClosureReady ==
  ASSUME NEW M, MayCall(M), NEW clo, NEW argc, NEW info, NEW yielded
  PROVE  Ready(CallClosure(M, clo, argc, info, yielded))
<1> DEFINE B == BindArgs(M, clo[2], argc, info)
           f == [TopFrame(clo[2], Funcs[clo[2]].max) EXCEPT
                    !.ups = clo[3], !.start = Frame(M).ip - 2, !.ip = DefaultsSkipped(Funcs[clo[2]], argc),
                    !.block = info.block, !.adjust = IF yielded = -1 THEN 0 ELSE yielded + 1]
           slots == SlotsBelow(B.top, Funcs[clo[2]], argc, info)
<1>1. CASE FramesFull(M) \/ DefaultsMisplaced(Funcs[clo[2]], argc)
  BY <1>1, FailReady DEF CallClosure, MayCall
<1>2. CASE ~FramesFull(M) /\ ~DefaultsMisplaced(Funcs[clo[2]], argc)
  <2>1. Shape(M)
    BY DEF MayCall, Sound
  <2>2. Quiet(M, B)
    BY <2>1, BindArgsQuiet
  <2>3. CallClosure(M, clo, argc, info, yielded) = PushFrame(B, slots, f)
    BY <1>2 DEF CallClosure, EnterClosure
  <2>4. FrameShape(f) /\ IsLox(f)
    BY DEF FrameShape, TopFrame, Afters, IsLox
  <2> HIDE DEF B, f, slots
  <2>5. MayCall(B) /\ ~FramesFull(B)
    BY <1>2, <2>2, QuietMayCall
  <2>6. Good(PushFrame(B, slots, f))
    BY <2>4, <2>5, PushFrameGood DEF MayCall
  <2>7. QED
    BY <2>3, <2>6 DEF Good, Ready
<1>3. QED
  BY <1>1, <1>2

(* The first half of SETUP_BLOCK.                                          *)
LEMMA SetupBlockTagged ==
  ASSUME NEW M, InC(M), Free(M)
  PROVE  InC(SetupBlock(M)) /\ Tagged(SetupBlock(M))
<1> DEFINE E == M.errInfo
           L == Len(M.frames)
           e == [frame |-> L, bentry |-> M.blocks + 1]
           N == SetupBlock(M)
           D == Append(E, e)
<1>1. /\ Shape(M) /\ L \in Nat /\ M.frames # <<>> /\ NativeTop(M)
      /\ E \in TagList /\ TagsIn(E, M.frames) /\ M.blocks = Len(E)
      /\ Waiting(E, M.frames)
  BY ShapeFacts DEF InC, NativeTop, Sound, TagsIn, TagList
<1>2. Len(E) \in Nat /\ L \in 1..L
  BY <1>1, TagFacts, ShapeFacts
<1>3. N.errInfo = D /\ N.blocks = Len(E) + 1 /\ N.frames = M.frames /\ N.status = M.status /\ Fields \subseteq DOMAIN N
  BY <1>1 DEF SetupBlock, Shape, Fields
<1> HIDE DEF N, L
<1>4. e \in [frame : Nat, bentry : Nat] /\ e.frame = L /\ e.bentry = Len(E) + 1
  BY <1>1, <1>2
<1> HIDE DEF e, E
<1>5. D \in TagList /\ Len(D) = Len(E) + 1 /\ D[Len(E) + 1] = e /\ \A i \in 1..Len(E) : D[i] = E[i]
  BY <1>1, <1>4, AppendProperties DEF TagList
<1> HIDE DEF D
<1>6. \A i \in 1..Len(E) + 1 : i \in 1..Len(E) \/ i = Len(E) + 1
  BY <1>2
<1>7. TagsIn(D, M.frames)
  <2>1. \A i \in 1..Len(E) : E[i].frame \in 1..L /\ M.frames[E[i].frame].native # "" /\ E[i].bentry = i
    BY <1>1 DEF TagsIn, L
  <2>2. M.frames[L].native # ""
    BY <1>1 DEF NativeTop, Frame, Last, L
  <2>3. \A i \in 1..Len(D) : D[i].frame \in 1..L /\ M.frames[D[i].frame].native # "" /\ D[i].bentry = i
    BY <1>2, <1>4, <1>5, <1>6, <2>1, <2>2
  <2>4. ASSUME NEW i \in 1..Len(D), NEW j \in 1..Len(D), i < j PROVE D[i].frame < D[j].frame
    <3>1. i \in 1..Len(E) /\ i \in Nat
      BY <1>2, <1>5, <2>4
    <3>2. CASE j \in 1..Len(E)
      BY <1>1, <1>5, <2>4, <3>1, <3>2 DEF TagsIn
    <3>3. CASE j = Len(E) + 1
      <4>1. E[i].frame <= L - 1
        BY <3>1 DEF Free, TagsUpTo, E, L
      <4>2. E[i].frame < L
        <5>1. E[i].frame \in 1..L
          BY <2>1, <3>1
        <5>2. QED
          BY <1>1, <4>1, <5>1
      <4>3. QED
        BY <1>4, <1>5, <3>1, <3>3, <4>2
    <3>4. QED
      BY <1>5, <1>6, <3>2, <3>3
  <2>5. QED
    BY <1>5, <2>3, <2>4 DEF TagsIn, TagList, L
<1>8. Waiting(D, M.frames)
  <2>1. ASSUME NEW i \in 1..Len(M.frames) - 1, M.frames[i].native # "" PROVE \E k \in 1..Len(D) : D[k].frame = i
    <3>1. PICK k \in 1..Len(E) : E[k].frame = i
      BY <1>1, <2>1 DEF Waiting
    <3>2. k \in 1..Len(D)
      BY <1>2, <1>5
    <3>3. QED
      BY <1>5, <3>1, <3>2
  <2>2. QED
    BY <2>1 DEF Waiting
<1>9. Sound(N) /\ NativeTop(N)
  BY <1>1, <1>3, <1>5, <1>7, <1>8 DEF Sound, Shape, NativeTop, Frame, InC
<1>10. Tagged(N)
  <2>1. D # <<>> /\ Last(D) = e
    BY <1>2, <1>5, TagFacts DEF Last
  <2>2. QED
    BY <1>3, <1>4, <2>1 DEF Tagged, L
<1>11. QED
  BY <1>9, <1>10 DEF InC, N


(* yield, in a C function that has left a tag.                             *)
LEMMA YieldReady ==
  ASSUME NEW M, InC(M), Tagged(M), NEW fn, NEW args
  PROVE  Ready(Yield(M, fn, args))
<1> DEFINE M1 == CaptureAll(M, fn, CallerFrame(M))
           clo == Closure(fn, UpvaluesOf(M1, fn, CallerFrame(M1)), TRUE)
           M2 == Push(M1, clo)
           M3 == PushAll(M2, args)
<1>1. MayCall(M) /\ Shape(M)
  BY DEF InC, MayCall, NativeTop, Sound
<1>2. Quiet(M, M1)
  BY <1>1, PlainOperations
<1>3. Yield(M, fn, args) = CallClosure(M3, clo, Len(args), NoInfo, Len(args))
  BY DEF Yield, CallBlock, YieldTo
<1> HIDE DEF clo
<1>4. Quiet(M, M2)
  <2> HIDE DEF M1
  <2>1. QED
    BY <1>1, <1>2, StackQuiet, QuietTrans, QuietShape
<1>5. Quiet(M, M3)
  <2> HIDE DEF M2
  <2>1. QED
    BY <1>1, <1>4, StackQuiet, QuietTrans, QuietShape
<1> HIDE DEF M3
<1>6. MayCall(M3)
  BY <1>1, <1>5, QuietMayCall
<1>7. QED
  BY <1>3, <1>6, CallClosureReady

(* What is good is ready.                                                  *)
LEMMA GoodReady ==
  ASSUME NEW M, Good(M)
  PROVE  Ready(M)
BY DEF Good, Ready

(* Array#each goes on with the next element, or returns.                   *)
LEMMA EachNextReady ==
  ASSUME NEW M, InC(M), Free(M)
  PROVE  Ready(EachNext(M))
<1> DEFINE f == Frame(M)
           elems == Read(M, f.args)[2]
           M1 == SetupBlock(M)
           e == [M1.frames[Len(M1.frames)] EXCEPT !.iter = @ + 1]
           M2 == SetTop(M1, LAMBDA g : [g EXCEPT !.iter = @ + 1])
<1>1. CASE f.iter = Len(elems)
  <2>1. Good(NativeReturn(M, Read(M, f.args)))
    BY NativeReturnGood
  <2>2. QED
    BY <1>1, <2>1, GoodReady DEF EachNext
<1>2. CASE f.iter # Len(elems)
  <2>1. InC(M1) /\ Tagged(M1)
    BY SetupBlockTagged
  <2>2. Shape(M1) /\ M1.frames # <<>>
    BY <2>1 DEF InC, Sound, NativeTop
  <2>3. EachNext(M) = Yield(M2, f.block, <<elems[f.iter + 1]>>)
    BY <1>2 DEF EachNext
  <2> HIDE DEF M1
  <2>4. OnTop(M1, M2, e)
    <3>1. Len(M1.frames) \in Nat /\ Len(M1.frames) # 0
      BY <2>2, ShapeFacts
    <3>2. FrameShape(M1.frames[Len(M1.frames)])
      BY <2>2, <3>1, ShapeFacts, InRange
    <3>3. FrameShape(e) /\ e.native = Frame(M1).native
      BY <3>2 DEF FrameShape, Frame, Last
    <3>4. M2.frames = [M1.frames EXCEPT ![Len(M1.frames)] = e] /\ Apart(M1, M2)
      BY <2>2 DEF SetTop, Shape, Fields, Apart
    <3> HIDE DEF e, M2
    <3>5. QED
      BY <3>3, <3>4 DEF OnTop
  <2> HIDE DEF M2
  <2>5. InC(M2) /\ Tagged(M2)
    BY <2>1, <2>2, <2>4, QuietFrame, QuietReady
  <2>6. QED
    BY <2>3, <2>5, YieldReady
<1>3. QED
  BY <1>1, <1>2

(* A C function whose block ended goes on.                                 *)
LEMMA BackInNativeReady ==
  ASSUME NEW M, InC(M), Free(M), NEW err
  PROVE  Ready(BackInNative(M, err))
<1>1. \A val : Ready(NativeReturn(M, val))
  BY NativeReturnGood, GoodReady
<1>2. Ready(EachNext(M))
  BY EachNextReady
<1>3. QED
  BY <1>1, <1>2 DEF BackInNative

(* throwError.                                                             *)
LEMMA ThrowErrorReady ==
  ASSUME NEW M, Sound(M), M.frames # <<>>, NEW err
  PROVE  Ready(ThrowError(M, err))
<1> DEFINE M1 == [M EXCEPT !.lastErr = err]
<1>1. Shape(M)
  BY DEF Sound
<1>2. Plain(M, M1)
  BY <1>1 DEF Shape, Fields, Plain, Apart
<1>3. ThrowError(M, err) = IF EndsBlock(M, err) THEN BackInNative(Landed(M1), err) ELSE PassOn(LeaveBlocks(M1), err)
  BY DEF ThrowError
<1>4. M1.frames = M.frames /\ M1.errInfo = M.errInfo
  BY <1>2 DEF Plain, Apart
<1> HIDE DEF M1
<1>5. Sound(M1) /\ M1.frames # <<>>
  BY <1>1, <1>2, <1>4, QuietPlain, QuietSound
<1>6. CASE EndsBlock(M, err)
  <2>1. M1.errInfo # <<>>
    BY <1>4, <1>6 DEF EndsBlock
  <2>2. InC(Landed(M1)) /\ Free(Landed(M1))
    BY <1>5, <2>1, LandedSound
  <2>3. QED
    BY <1>3, <1>6, <2>2, BackInNativeReady
<1>7. CASE ~EndsBlock(M, err)
  <2>1. Outside(LeaveBlocks(M1))
    BY <1>5, LeaveBlocksSound DEF Outside
  <2>2. QED
    BY <1>3, <1>7, <2>1, FindThrowJumpLocReady DEF PassOn
<1>8. QED
  BY <1>6, <1>7

(* throwErrorFmt.                                                          *)
LEMMA ThrowNewReady ==
  ASSUME NEW M, Sound(M), M.frames # <<>>, NEW class
  PROVE  Ready(ThrowNew(M, class))
BY ThrowErrorReady DEF ThrowNew


-----------------------------------------------------------------------------
(* callCallable.                                                           *)

(* The receiver of a method: its frame knows it.                           *)
LEMMA ReceiveQuiet ==
  ASSUME NEW M, Shape(M), NEW recv
  PROVE  Quiet(M, Receive(M, recv))
<1> DEFINE M1 == PushThis(M, recv)
           M2 == PushCref(M1, ReceiverClass(M, recv))
           e == [M2.frames[Len(M.frames)] EXCEPT !.instance = recv, !.klass = ReceiverClass(M, recv)]
           N == [M2 EXCEPT !.frames[Len(M.frames)] = [@ EXCEPT !.instance = recv, !.klass = ReceiverClass(M, recv)]]
<1>1. CASE recv = Nil
  BY <1>1, QuietSame DEF Receive
<1>2. CASE recv # Nil
  <2>1. Receive(M, recv) = N
    BY <1>2 DEF Receive
  <2>2. Quiet(M, M1)
    BY PlainOperations
  <2>3. Quiet(M, M2)
    <3> HIDE DEF M1
    <3>1. QED
      BY <2>2, PlainOperations, QuietTrans, QuietShape
  <2> HIDE DEF M2
  <2>4. Shape(M2) /\ Len(M2.frames) = Len(M.frames)
    BY <2>3 DEF Quiet, Cut
  <2>5. OnTop(M2, N, e)
    <3>1. N.frames = [M2.frames EXCEPT ![Len(M2.frames)] = e] /\ Apart(M2, N)
      BY <2>4 DEF Shape, Fields, Apart
    <3>2. ASSUME M2.frames # <<>> PROVE FrameShape(e) /\ e.native = Frame(M2).native
      <4>1. Len(M2.frames) \in Nat /\ Len(M2.frames) # 0
        BY <2>4, <3>2, ShapeFacts
      <4>2. FrameShape(M2.frames[Len(M2.frames)])
        BY <2>4, <4>1, ShapeFacts, InRange
      <4>3. QED
        BY <2>4, <4>2 DEF FrameShape, Frame, Last
    <3> HIDE DEF e, N
    <3>3. QED
      BY <3>1, <3>2 DEF OnTop
  <2>6. QED
    BY <2>1, <2>3, <2>4, <2>5, QuietFrame, QuietTrans
<1>3. QED
  BY <1>1, <1>2

(* A call of lox code.                                                     *)
LEMMA CallFunctionReady ==
  ASSUME NEW M, MayCall(M), NEW clo, NEW argc, NEW info, NEW recv
  PROVE  Ready(CallFunction(M, clo, argc, info, recv))
<1> DEFINE N == CallClosure(M, clo, argc, info, -1)
<1>1. Ready(Fail(M, "error")) /\ Ready(ThrowNew(M, "ArgumentError"))
  BY FailReady, ThrowNewReady DEF MayCall
<1>2. Ready(N)
  BY CallClosureReady
<1> HIDE DEF N
<1>3. Ready(Receive(N, recv))
  BY <1>2, ReceiveQuiet, QuietReady DEF Ready, Sound
<1>4. QED
  BY <1>1, <1>3 DEF CallFunction, N

(* yield.                                                                  *)
LEMMA CallYieldReady ==
  ASSUME NEW M, Good(M), NEW argc
  PROVE  Ready(CallYield(M, argc))
<1>1. CASE FramesFull(M)
  BY <1>1, FailReady DEF CallYield, Good
<1>2. CASE ~FramesFull(M)
  <2>1. ASSUME NEW block PROVE InC(PushNative(M, "yield()", argc, block)) /\ Free(PushNative(M, "yield()", argc, block))
    BY <1>2, PushNativeFree
  <2> DEFINE P(block) == PushNative(M, "yield()", argc, block)
  <2>2. Ready(ThrowNew(P(0), "Error"))
    BY <2>1, ThrowNewReady DEF InC, NativeTop
  <2> DEFINE Q == P(Frame(M).block)
  <2>3. Ready(Yield(SetupBlock(Q), Frame(M).block, Args(M, argc)))
    <3>1. InC(Q) /\ Free(Q)
      BY <2>1
    <3> HIDE DEF Q
    <3>2. InC(SetupBlock(Q)) /\ Tagged(SetupBlock(Q))
      BY <3>1, SetupBlockTagged
    <3>3. QED
      BY <3>2, YieldReady
  <2>4. QED
    BY <1>2, <2>2, <2>3 DEF CallYield
<1>3. QED
  BY <1>1, <1>2

(* Block#yield.                                                            *)
LEMMA BlockYieldReady ==
  ASSUME NEW M, InC(M), Free(M), NEW fn, NEW argc
  PROVE  Ready(BlockYield(M, fn, argc))
<1> DEFINE clo == Closure(fn, <<>>, FALSE)
           M1 == Push(M, clo)
           M2 == PushAll(M1, Args(M, argc))
           s == SetupBlock(M2)
<1>1. Shape(M)
  BY DEF InC, Sound
<1>2. Quiet(M, M1)
  BY <1>1, StackQuiet
<1>3. Quiet(M, M2)
  <2> HIDE DEF M1
  <2>1. QED
    BY <1>1, <1>2, StackQuiet, QuietTrans, QuietShape
<1> HIDE DEF M2
<1>4. InC(s) /\ Tagged(s)
  BY <1>1, <1>3, QuietReady, SetupBlockTagged
<1>5. BlockYield(M, fn, argc) =
        IF ~FramesFull(s) /\ WrongArity(Funcs[fn], argc) THEN ThrowNew(s, "ArgumentError")
        ELSE CallClosure(s, clo, argc, NoInfo, -1)
  BY DEF BlockYield, M2
<1> HIDE DEF s, clo
<1>6. MayCall(s)
  BY <1>4 DEF InC, NativeTop, MayCall
<1>7. Ready(ThrowNew(s, "ArgumentError")) /\ Ready(CallClosure(s, clo, argc, NoInfo, -1))
  BY <1>6, ThrowNewReady, CallClosureReady DEF MayCall
<1>8. QED
  BY <1>5, <1>7

(* A method that is C code.                                                *)
LEMMA CallNativeReady ==
  ASSUME NEW M, InC(M), Free(M), NEW name, NEW recv, NEW argc
  PROVE  Ready(CallNative(M, name, recv, argc))
<1>1. \A class : Ready(ThrowNew(M, class))
  BY ThrowNewReady DEF InC, NativeTop
<1>2. \A val : Ready(NativeReturn(M, val))
  BY NativeReturnGood, GoodReady
<1>3. Ready(EachNext(M)) /\ Ready(BlockYield(M, recv[2], argc))
  BY EachNextReady, BlockYieldReady
<1>4. Ready(Fail(M, "unmodelled"))
  BY FailReady DEF InC
<1>5. QED
  BY <1>1, <1>2, <1>3, <1>4, Zenon DEF CallNative

(* A C function that is a method has a name.                               *)
LEMMA NativeMethodsNamed ==
  ASSUME NEW callable \in NativeMethods
  PROVE  callable[2] # ""
<1>1. PICK x \in UNION {Natives[c] : c \in DOMAIN Natives} : callable = <<"native", x>>
  BY DEF NativeMethods
<1>2. PICK c \in DOMAIN Natives : x \in Natives[c]
  BY <1>1
<1>3. x # ""
  <2>1. DOMAIN Natives = {"Object", "Error", "Class", "Array", "String", "Block", "Module"}
    BY DEF Natives
  <2>2. /\ "" \notin Natives["Object"] /\ "" \notin Natives["Error"] /\ "" \notin Natives["Class"]
        /\ "" \notin Natives["Array"] /\ "" \notin Natives["String"] /\ "" \notin Natives["Block"]
        /\ "" \notin Natives["Module"]
    BY DEF Natives
  <2>3. \A d \in DOMAIN Natives : "" \notin Natives[d]
    BY <2>1, <2>2
  <2>4. QED
    BY <1>2, <2>3
<1>4. QED
  BY <1>1, <1>3

(* A method.                                                               *)
LEMMA CallMethodReady ==
  ASSUME NEW M, Good(M), NEW recv, NEW callable, NEW argc, NEW info
  PROVE  Ready(CallMethod(M, recv, callable, argc, info))
<1>1. MayCall(M) /\ Sound(M)
  BY DEF Good, MayCall, LoxTop, NativeTop
<1>2. Ready(CallFunction(M, callable, argc, info, recv)) /\ Ready(Fail(M, "unmodelled"))
  BY <1>1, CallFunctionReady, FailReady
<1>3. ASSUME ~FramesFull(M), callable \in NativeMethods
      PROVE  Ready(CallNative(Receive(PushNative(M, callable[2], argc, info.block), recv), callable[2], recv, argc))
  <2> DEFINE P == PushNative(M, callable[2], argc, info.block)
             N == Receive(P, recv)
  <2>1. InC(P) /\ Free(P)
    BY <1>3, NativeMethodsNamed, PushNativeFree
  <2> HIDE DEF P
  <2>2. InC(N) /\ Free(N)
    BY <2>1, ReceiveQuiet, QuietReady DEF InC, Sound
  <2> HIDE DEF N
  <2>3. QED
    BY <2>2, CallNativeReady DEF N, P
<1>4. QED
  BY <1>2, <1>3, Zenon DEF CallMethod

(* A class: its instance is made, and init is called.                      *)
LEMMA CallClassReady ==
  ASSUME NEW M, Good(M), NEW class, NEW argc, NEW info
  PROVE  Ready(CallClass(M, class, argc, info))
<1> DEFINE init == FindIn(M, Chain(M, class), "method", "init")
           obj == <<"obj", Len(M.objects) + 1>>
           W == Write(M, M.top - argc - 1, obj)
           made == [W EXCEPT !.objects = Append(@, class), !.this = obj]
           P == PopThis(PushThis(M, Nil))
           Q == [P EXCEPT !.top = @ - argc - 1]
           err == ErrVal(class, IF argc = 0 THEN Nil ELSE Peek(M, argc - 1))
<1>1. Sound(M) /\ Shape(M)
  BY DEF Good, Sound
<1>2. Ready(Fail(M, "unmodelled"))
  BY <1>1, FailReady
<1>3. Good(made)
  <2>1. Quiet(M, W)
    BY <1>1, StackQuiet
  <2> HIDE DEF W
  <2>2. Plain(W, made)
    BY <2>1, QuietShape DEF Shape, Fields, Plain, Apart
  <2>3. QED
    BY <1>1, <2>1, <2>2, QuietShape, QuietPlain, QuietTrans, QuietReady
<1>4. Ready(Push(Q, err))
  <2>1. Quiet(M, PushThis(M, Nil)) /\ Shape(PushThis(M, Nil))
    BY <1>1, PlainOperations, QuietShape
  <2>2. Quiet(M, P) /\ Shape(P)
    BY <1>1, <2>1, PlainOperations, QuietTrans, QuietShape
  <2> HIDE DEF P
  <2>3. Plain(P, Q)
    BY <2>2 DEF Shape, Fields, Plain, Apart
  <2>4. Quiet(M, Q) /\ Shape(Q)
    BY <1>1, <2>2, <2>3, QuietPlain, QuietTrans, QuietShape
  <2> HIDE DEF Q
  <2>5. Quiet(M, Push(Q, err))
    BY <1>1, <2>4, StackQuiet, QuietTrans
  <2>6. QED
    BY <1>1, <2>5, QuietReady, GoodReady
<1>5. Ready(CallMethod(made, obj, init, argc, info))
  <2> HIDE DEF made, obj, init
  <2>1. QED
    BY <1>3, CallMethodReady
<1>6. CallClass(M, class, argc, info) =
        CASE BuiltIn(M, class) -> Fail(M, "unmodelled")
          [] ~BuiltIn(M, class) /\ IsSubclass(M, class, "Error") /\ init[1] = "native" -> Push(Q, err)
          [] ~BuiltIn(M, class) /\ IsSubclass(M, class, "Error") /\ init[1] = "closure" -> Fail(M, "unmodelled")
          [] OTHER -> CallMethod(made, obj, init, argc, info)
  BY DEF CallClass
<1> HIDE DEF Q, err, made, obj, init
<1>7. QED
  BY <1>2, <1>4, <1>5, <1>6

(* Any value.                                                              *)
LEMMA CallValueReady ==
  ASSUME NEW M, Good(M), NEW callee, NEW argc, NEW info
  PROVE  Ready(CallValue(M, callee, argc, info))
<1>1. Sound(M) /\ Shape(M) /\ MayCall(M)
  BY DEF Good, Sound, MayCall, LoxTop, NativeTop
<1>2. Ready(CallFunction(M, callee, argc, info, Nil)) /\ Ready(CallClass(M, callee[2], argc, info)) /\ Ready(CallYield(M, argc))
  BY <1>1, CallFunctionReady, CallClassReady, CallYieldReady
<1>3. Ready(CallMethod(Write(M, M.top - argc - 1, callee[2]), callee[2], callee[3], argc, info))
  BY <1>1, StackQuiet, QuietReady, CallMethodReady
<1>4. Ready(ThrowNew(Jump(PopN(M, argc), Frame(M).ip - 1), "TypeError"))
  <2> DEFINE P == PopN(M, argc)
             N == Jump(P, Frame(M).ip - 1)
  <2>1. Quiet(M, P) /\ Shape(P)
    BY <1>1, StackQuiet, QuietShape
  <2> HIDE DEF P
  <2>2. Quiet(M, N)
    BY <1>1, <2>1, FrameQuiet, QuietTrans
  <2> HIDE DEF N
  <2>3. Good(N)
    BY <1>1, <2>2, QuietReady
  <2>4. QED
    BY <2>3, ThrowNewReady DEF Good, LoxTop, N, P
<1>5. QED
  BY <1>2, <1>3, <1>4, Zenon DEF CallValue

(* A method by its name.                                                   *)
LEMMA InvokeReady ==
  ASSUME NEW M, Good(M), NEW name, NEW recv, NEW argc, NEW info
  PROVE  Ready(Invoke(M, name, recv, argc, info))
<1>1. Sound(M) /\ Shape(M) /\ M.frames # <<>>
  BY DEF Good, Sound, LoxTop
<1>2. Ready(ThrowNew(M, "TypeError"))
  BY <1>1, ThrowNewReady
<1>3. ASSUME NEW callable PROVE Ready(InvokeFound(M, callable, name, recv, argc, info))
  <2> DEFINE P == PopN(M, argc)
             N == PushAll(P, <<StrVal(name)>> \o Args(M, argc))
             missing == FindCallable(M, recv, "methodMissing")
  <2>1. Quiet(M, P) /\ Shape(P)
    BY <1>1, StackQuiet, QuietShape
  <2> HIDE DEF P
  <2>2. Quiet(M, N)
    BY <1>1, <2>1, StackQuiet, QuietTrans
  <2> HIDE DEF N, missing
  <2>3. Good(N)
    BY <1>1, <2>2, QuietReady
  <2>4. Ready(CallMethod(M, recv, callable, argc, info)) /\ Ready(CallMethod(N, recv, missing, argc + 1, info))
    BY <2>3, CallMethodReady
  <2>5. QED
    BY <2>4 DEF InvokeFound, N, P, missing
<1>4. QED
  BY <1>2, <1>3 DEF Invoke


(* An instruction that goes on when a method has returned.                 *)
LEMMA NestedReady ==
  ASSUME NEW M, Good(M), NEW after \in Afters, NEW recv, NEW clo, NEW args
  PROVE  Ready(Nested(M, after, recv, clo, args))
<1> DEFINE P == Push(M, recv)
           N == PushAll(P, args)
           s == CallFunction(N, clo, Len(args), NoInfo, recv)
           e == [s.frames[Len(s.frames)] EXCEPT !.after = after]
           t == [s EXCEPT !.frames[Len(s.frames)].after = after]
<1>1. Sound(M) /\ Shape(M)
  BY DEF Good, Sound
<1>2. Quiet(M, P) /\ Shape(P)
  BY <1>1, StackQuiet, QuietShape
<1>3. Quiet(M, N)
  <2> HIDE DEF P
  <2>1. QED
    BY <1>1, <1>2, StackQuiet, QuietTrans
<1>4. Nested(M, after, recv, clo, args) = IF Len(s.frames) > Len(M.frames) THEN t ELSE s
  BY DEF Nested, Then
<1> HIDE DEF N
<1>5. MayCall(N)
  <2>1. Good(N)
    BY <1>1, <1>3, QuietReady
  <2>2. QED
    BY <2>1 DEF Good, LoxTop, NativeTop, MayCall
<1>6. Ready(s) /\ Shape(s)
  BY <1>5, CallFunctionReady DEF Ready, Sound
<1> HIDE DEF s
<1>7. OnTop(s, t, e)
  <2>1. t.frames = [s.frames EXCEPT ![Len(s.frames)] = e] /\ Apart(s, t)
    BY <1>6 DEF Shape, Fields, Apart
  <2>2. ASSUME s.frames # <<>> PROVE FrameShape(e) /\ e.native = Frame(s).native
    <3>1. Len(s.frames) \in Nat /\ Len(s.frames) # 0
      BY <1>6, <2>2, ShapeFacts
    <3>2. FrameShape(s.frames[Len(s.frames)])
      BY <1>6, <3>1, ShapeFacts, InRange
    <3>3. QED
      BY <3>2 DEF FrameShape, Frame, Last
  <2> HIDE DEF e, t
  <2>3. QED
    BY <2>1, <2>2 DEF OnTop
<1>8. Ready(t)
  BY <1>6, <1>7, QuietFrame, QuietReady
<1>9. QED
  BY <1>4, <1>6, <1>8

(* Two things done to the stack.                                           *)
LEMMA StackTwice ==
  ASSUME NEW M, Shape(M), NEW n, NEW k, NEW v
  PROVE  /\ Quiet(M, PushSwap(PopN(M, n), v)) /\ Quiet(M, Push(PopN(M, n), v)) /\ Quiet(M, PushAll(PopN(M, n), v))
         /\ Quiet(M, Push(PushSwap(M, n), v)) /\ Quiet(M, Write(PopN(M, n), k, v))
<1>1. Quiet(M, PopN(M, n)) /\ Shape(PopN(M, n)) /\ Quiet(M, PushSwap(M, n)) /\ Shape(PushSwap(M, n))
  BY StackQuiet, QuietShape
<1>2. QED
  BY <1>1, StackQuiet, QuietTrans

(* What an instruction does with the result of its method: but for opCmp,   *)
(* whose result may be no number, it works on the stack.                   *)
LEMMA AfterReturnQuiet ==
  ASSUME NEW M, Shape(M), NEW after \in Afters \ Comparisons
  PROVE  Quiet(M, AfterReturn(after, M))
<1>1. Quiet(M, M) /\ Quiet(M, PopN(M, 2))
  BY QuietSame, StackQuiet
<1>2. \A n, v : Quiet(M, PushSwap(PopN(M, n), v))
  BY StackTwice
<1>3. Quiet(M, PushSwap(Pop1(M), Peek(M, 0))) /\ Quiet(M, PushSwap(PopN(M, 2), Peek(M, 1)))
      /\ Quiet(M, PushSwap(Pop1(M), BoolVal(IsTruthy(Peek(M, 0)) = (after = "eq"))))
  BY <1>2 DEF Pop1
<1>4. CASE after = ""
  BY <1>1, <1>4 DEF AfterReturn
<1>5. CASE after = "get"
  BY <1>3, <1>5 DEF AfterReturn
<1>6. CASE after = "set"
  BY <1>3, <1>6 DEF AfterReturn
<1>7. CASE after \in {"eq", "ne"}
  BY <1>3, <1>7 DEF AfterReturn
<1>8. CASE after = "added"
  BY <1>1, <1>8 DEF AfterReturn
<1>9. QED
  BY <1>4, <1>5, <1>6, <1>7, <1>8 DEF Afters

(* The bodies of classes.                                                  *)
LEMMA BodiesQuiet ==
  ASSUME NEW M, Shape(M), NEW v
  PROVE  Quiet(M, EnterBody(M, v)) /\ Quiet(M, LeaveBody(M)) /\ Quiet(M, EnterClass(M, v))
<1>1. ASSUME NEW N, Shape(N), NEW i PROVE Quiet(N, [N EXCEPT !.frames[Len(N.frames)].instance = i])
  <2> DEFINE e == [N.frames[Len(N.frames)] EXCEPT !.instance = i]
             P == [N EXCEPT !.frames[Len(N.frames)].instance = i]
  <2>1. P.frames = [N.frames EXCEPT ![Len(N.frames)] = e] /\ Apart(N, P)
    BY <1>1 DEF Shape, Fields, Apart
  <2>2. ASSUME N.frames # <<>> PROVE FrameShape(e) /\ e.native = Frame(N).native
    <3>1. Len(N.frames) \in Nat /\ Len(N.frames) # 0
      BY <1>1, <2>2, ShapeFacts
    <3>2. FrameShape(N.frames[Len(N.frames)])
      BY <1>1, <3>1, ShapeFacts, InRange
    <3>3. QED
      BY <3>2 DEF FrameShape, Frame, Last
  <2> HIDE DEF e, P
  <2>3. OnTop(N, P, e)
    BY <2>1, <2>2 DEF OnTop
  <2>4. Quiet(N, P)
    BY <1>1, <2>3, QuietFrame
  <2>5. QED
    BY <2>4 DEF P
<1>2. ASSUME NEW N, Shape(N) PROVE Quiet(N, EnterBody(N, v))
  <2> DEFINE s == PushThis(N, v)
  <2>1. Quiet(N, s) /\ Shape(s)
    BY <1>2, PlainOperations, QuietShape
  <2>2. EnterBody(N, v) = [s EXCEPT !.frames[Len(s.frames)].instance = v]
    <3>1. s.frames = N.frames
      BY <1>2 DEF PushThis, Shape, Fields
    <3>2. QED
      BY <3>1 DEF EnterBody
  <2> HIDE DEF s
  <2>3. QED
    BY <1>1, <1>2, <2>1, <2>2, QuietTrans
<1>3. Quiet(M, LeaveBody(M))
  <2> DEFINE s == PopThis(M)
  <2>1. Quiet(M, s) /\ Shape(s)
    BY PlainOperations, QuietShape
  <2>2. LeaveBody(M) = [s EXCEPT !.frames[Len(s.frames)].instance = s.this]
    BY DEF LeaveBody
  <2> HIDE DEF s
  <2>3. QED
    BY <1>1, <2>1, <2>2, QuietTrans
<1>4. Quiet(M, EnterClass(M, v))
  <2> DEFINE s == Push(M, v)
             t == EnterBody(s, v)
  <2>1. Quiet(M, s) /\ Shape(s)
    BY StackQuiet, QuietShape
  <2> HIDE DEF s
  <2>2. Quiet(M, t) /\ Shape(t)
    BY <1>2, <2>1, QuietTrans, QuietShape
  <2> HIDE DEF t
  <2>3. Quiet(M, PushCref(t, v[2]))
    BY <2>2, PlainOperations, QuietTrans
  <2>4. QED
    BY <2>3 DEF EnterClass, t, s
<1>5. QED
  BY <1>2, <1>3, <1>4

-----------------------------------------------------------------------------
(* The instructions.                                                       *)

(* The instruction is read, and its operands are on the stack.             *)
LEMMA Fetched ==
  ASSUME Ready(m), OnInsn, NEW ip
  PROVE  /\ Good(m) /\ Sound(m) /\ Shape(m) /\ Ready(Fail(m, "assert"))
         /\ Good(Jump(m, ip)) /\ Sound(Jump(m, ip)) /\ Shape(Jump(m, ip))
<1>1. Good(m) /\ Sound(m) /\ Shape(m)
  BY DEF OnInsn, Running, Ready, Good, Sound
<1>2. Ready(Fail(m, "assert"))
  BY <1>1, FailReady
<1>3. Good(Jump(m, ip))
  BY <1>1, FrameQuiet, QuietReady
<1>4. QED
  BY <1>1, <1>2, <1>3 DEF Good, Sound

(* A good machine after what is quiet; a thrown error.                     *)
LEMMA QuietThenReady ==
  ASSUME NEW M, Good(M)
  PROVE  /\ \A N : Quiet(M, N) => Ready(N) /\ Good(N)
         /\ \A N, class : Quiet(M, N) => Ready(ThrowNew(N, class))
         /\ \A N, err : Quiet(M, N) => Ready(ThrowError(N, err))
         /\ \A how : how # "run" => Ready(Fail(M, how))
<1>1. Sound(M) /\ Shape(M)
  BY DEF Good, Sound
<1>2. \A N : Quiet(M, N) => Ready(N) /\ Good(N)
  BY <1>1, QuietReady, GoodReady
<1>3. \A N : Good(N) => Sound(N) /\ N.frames # <<>>
  BY DEF Good, LoxTop
<1>4. QED
  BY <1>1, <1>2, <1>3, ThrowNewReady, ThrowErrorReady, FailReady

(* Constants.                                                              *)
LEMMA ConstantsReady ==
  ASSUME Ready(m), Constants
  PROVE  Ready(m')
<1> DEFINE M == Jump(m, Frame(m).ip + Width(Insn1))
           v == StrVal(Insn1.args[1])
           s == PushAll(M, <<<<"class", "String">>, v>>)
           t == [s EXCEPT !.top = M.top]
<1>1. OnInsn
  BY DEF Constants, Exec
<1>2. Good(M) /\ Shape(M) /\ Ready(Fail(m, "assert"))
  BY <1>1, Fetched
<1>3. Ready(Push(t, v))
  <2> HIDE DEF M
  <2>1. Quiet(M, s) /\ Shape(s)
    BY <1>2, StackQuiet, QuietShape
  <2> HIDE DEF s
  <2>2. Plain(s, t)
    BY <2>1 DEF Shape, Fields, Plain, Apart
  <2>3. Quiet(M, t) /\ Shape(t)
    BY <1>2, <2>1, <2>2, QuietPlain, QuietTrans, QuietShape
  <2> HIDE DEF t
  <2>4. Quiet(M, Push(t, v))
    BY <1>2, <2>3, StackQuiet, QuietTrans
  <2>5. QED
    BY <1>2, <2>4, QuietThenReady
<1>4. \A w : Ready(Push(M, w))
  <2> HIDE DEF M
  <2>1. QED
    BY <1>2, StackQuiet, QuietThenReady
<1>5. QED
  BY <1>2, <1>3, <1>4 DEF Constants, Exec


(* What most instructions do.                                              *)
LEMMA Usual ==
  ASSUME NEW M, Good(M)
  PROVE  /\ Shape(M) /\ Ready(M)
         /\ \A v : Ready(Push(M, v)) /\ Ready(PushSwap(M, v))
         /\ \A n : Ready(PopN(M, n)) /\ Good(PopN(M, n))
         /\ \A n, v : Ready(PushSwap(PopN(M, n), v)) /\ Ready(Push(PopN(M, n), v)) /\ Ready(Push(PushSwap(M, n), v))
         /\ \A how : how # "run" => Ready(Fail(M, how))
         /\ \A class, n : Ready(ThrowNew(M, class)) /\ Ready(ThrowNew(PopN(M, n), class))
         /\ \A err, n : Ready(ThrowError(M, err)) /\ Ready(ThrowError(PopN(M, n), err))
<1>1. Shape(M) /\ Quiet(M, M)
  BY QuietSame DEF Good, Sound
<1>2. \A n, v : Quiet(M, Push(M, v)) /\ Quiet(M, PushSwap(M, v)) /\ Quiet(M, PopN(M, n))
  BY <1>1, StackQuiet
<1>3. \A n, v : Quiet(M, PushSwap(PopN(M, n), v)) /\ Quiet(M, Push(PopN(M, n), v)) /\ Quiet(M, Push(PushSwap(M, n), v))
  BY <1>1, StackTwice
<1>4. QED
  BY <1>1, <1>2, <1>3, QuietThenReady

(* A method, or an error if there is none.                                 *)
LEMMA CallOrReady ==
  ASSUME NEW M, Good(M), NEW error, NEW recv, NEW callable
  PROVE  Ready(CallOr(M, error, recv, callable))
BY Usual, CallMethodReady DEF CallOr

(* ADD, SUBTRACT, MULTIPLY, DIVIDE, MODULO.                                *)
LEMMA ArithmeticReady ==
  ASSUME Ready(m), Arithmetic
  PROVE  Ready(m')
<1> DEFINE M == Jump(m, Frame(m).ip + Width(Insn1))
<1>1. OnInsn
  BY DEF Arithmetic, Exec
<1>2. Good(M) /\ Ready(Fail(m, "assert"))
  BY <1>1, Fetched
<1>3. ASSUME NEW op, NEW a, NEW b PROVE Ready(Operate(M, op, a, b))
  <2> HIDE DEF M
  <2>1. \A v : Ready(PushSwap(Pop1(M), v))
    BY <1>2, Usual DEF Pop1
  <2>2. Ready(Fail(M, "trap")) /\ Ready(Fail(M, "wild"))
    BY <1>2, Usual
  <2>3. \A error, recv, callable : Ready(CallOr(M, error, recv, callable))
    BY <1>2, CallOrReady
  <2>4. QED
    BY <2>1, <2>2, <2>3 DEF Operate
<1>4. QED
  BY <1>2, <1>3 DEF Arithmetic, Exec

(* LESS and the like.                                                      *)
LEMMA ComparisonReady ==
  ASSUME Ready(m), Comparison
  PROVE  Ready(m')
<1> DEFINE M == Jump(m, Frame(m).ip + Width(Insn1))
<1>1. OnInsn
  BY DEF Comparison, Exec
<1>2. Good(M) /\ Ready(Fail(m, "assert"))
  BY <1>1, Fetched
<1>3. \A v : Ready(PushSwap(Pop1(M), v))
  <2> HIDE DEF M
  <2>1. QED
    BY <1>2, Usual DEF Pop1
<1>4. ASSUME NEW op \in Comparisons, NEW a, NEW b, NEW method
      PROVE  Ready(CompareBy(Pop1(M), op, a, b, method))
  <2> DEFINE P == Pop1(M)
  <2>1. Good(P)
    <3> HIDE DEF M
    <3>1. QED
      BY <1>2, Usual DEF Pop1
  <2> HIDE DEF P
  <2>2. Ready(ThrowNew(Pop1(P), "TypeError")) /\ Ready(ThrowNew(P, "Error"))
    BY <2>1, Usual DEF Pop1
  <2>3. Ready(Fail(P, "unmodelled")) /\ \A v : Ready(PushSwap(P, v))
    BY <2>1, Usual
  <2>4. Ready(Nested(P, op, a, method, <<b>>))
    BY <2>1, NestedReady DEF Afters
  <2>5. QED
    BY <2>2, <2>3, <2>4 DEF CompareBy, P
<1>5. Insn1.op \in Comparisons
  BY DEF Comparison, Exec
<1>6. QED
  BY <1>2, <1>3, <1>4, <1>5 DEF Comparison, Exec

(* EQUAL, NOT_EQUAL.                                                       *)
LEMMA EqualityReady ==
  ASSUME Ready(m), Equality
  PROVE  Ready(m')
<1> DEFINE M == Jump(m, Frame(m).ip + Width(Insn1))
<1>1. OnInsn
  BY DEF Equality, Exec
<1>2. Good(M) /\ Ready(Fail(m, "assert"))
  BY <1>1, Fetched
<1>3. \A v : Ready(PushSwap(Pop1(M), v))
  <2> HIDE DEF M
  <2>1. QED
    BY <1>2, Usual DEF Pop1
<1>4. \A recv, clo, args : Ready(Nested(Pop1(M), "eq", recv, clo, args)) /\ Ready(Nested(Pop1(M), "ne", recv, clo, args))
  <2> HIDE DEF M
  <2>1. Good(Pop1(M)) /\ "eq" \in Afters /\ "ne" \in Afters
    BY <1>2, Usual DEF Pop1, Afters
  <2>2. QED
    BY <2>1, NestedReady
<1>5. QED
  BY <1>2, <1>3, <1>4 DEF Equality, Exec

(* NEGATE, NOT.                                                            *)
LEMMA UnaryReady ==
  ASSUME Ready(m), Unary
  PROVE  Ready(m')
<1> DEFINE M == Jump(m, Frame(m).ip + Width(Insn1))
<1>1. OnInsn
  BY DEF Unary, Exec
<1>2. Good(M) /\ Ready(Fail(m, "assert"))
  BY <1>1, Fetched
<1>3. (\A v : Ready(PushSwap(M, v))) /\ Ready(ThrowNew(Pop1(M), "TypeError"))
  <2> HIDE DEF M
  <2>1. QED
    BY <1>2, Usual DEF Pop1
<1>4. QED
  BY <1>2, <1>3 DEF Unary, Exec

(* AND, OR, POP, POP_N, CHECK_KEYWORD.                                     *)
LEMMA StackOpsReady ==
  ASSUME Ready(m), AndOr \/ Pops \/ CheckKeyword
  PROVE  Ready(m')
<1> DEFINE M == Jump(m, Frame(m).ip + Width(Insn1))
<1>1. OnInsn
  BY DEF AndOr, Pops, CheckKeyword, Exec
<1>2. Good(M) /\ Ready(Fail(m, "assert"))
  BY <1>1, Fetched
<1>3. /\ \A v : Ready(PushSwap(Pop1(M), v)) /\ Ready(Push(M, v))
      /\ \A n : Ready(PopN(M, n))
      /\ Ready(Fail(M, "assert"))
  <2> HIDE DEF M
  <2>1. QED
    BY <1>2, Usual DEF Pop1
<1>4. CASE AndOr
  BY <1>2, <1>3, <1>4 DEF AndOr, Exec
<1>5. CASE Pops
  BY <1>2, <1>3, <1>5 DEF Pops, Exec
<1>6. CASE CheckKeyword
  BY <1>2, <1>3, <1>6 DEF CheckKeyword, Exec
<1>7. QED
  BY <1>4, <1>5, <1>6

(* PRINT.                                                                  *)
LEMMA PrintOpReady ==
  ASSUME Ready(m), PrintOp
  PROVE  Ready(m')
<1> DEFINE M == Jump(m, Frame(m).ip + Width(Insn1))
           P == Pop1(M)
           N == [P EXCEPT !.out = Append(@, Peek(M, 0))]
<1>1. OnInsn
  BY DEF PrintOp, Exec
<1>2. Good(M) /\ Ready(Fail(m, "assert"))
  BY <1>1, Fetched
<1>3. Ready(N)
  <2> HIDE DEF M
  <2>1. Good(P) /\ Shape(P)
    BY <1>2, Usual DEF Pop1, Good, Sound
  <2> HIDE DEF P
  <2>2. Plain(P, N)
    BY <2>1 DEF Shape, Fields, Plain, Apart
  <2>3. QED
    BY <2>1, <2>2, QuietPlain, QuietThenReady
<1>4. QED
  BY <1>2, <1>3 DEF PrintOp, Exec

(* The globals.                                                            *)
LEMMA GlobalsReady ==
  ASSUME Ready(m), Globals
  PROVE  Ready(m')
<1> DEFINE M == Jump(m, Frame(m).ip + Width(Insn1))
<1>1. OnInsn
  BY DEF Globals, Exec
<1>2. Good(M) /\ Ready(Fail(m, "assert"))
  BY <1>1, Fetched
<1>3. /\ \A v : Ready(Push(M, v))
      /\ \A name, v : Ready(SetGlobal(M, name, v)) /\ Ready(SetGlobal(Pop1(M), name, v))
      /\ Ready(ThrowNew(M, "NameError")) /\ Ready(ThrowNew(Pop1(M), "NameError"))
      /\ Ready(Fail(M, "unmodelled"))
  <2> HIDE DEF M
  <2>1. /\ \A v : Ready(Push(M, v))
        /\ Ready(ThrowNew(M, "NameError")) /\ Ready(ThrowNew(Pop1(M), "NameError"))
        /\ Ready(Fail(M, "unmodelled"))
    BY <1>2, Usual DEF Pop1
  <2>2. Good(Pop1(M)) /\ Shape(Pop1(M)) /\ Shape(M)
    BY <1>2, Usual DEF Pop1, Good, Sound
  <2>3. \A name, v : Quiet(M, SetGlobal(M, name, v)) /\ Quiet(Pop1(M), SetGlobal(Pop1(M), name, v))
    BY <2>2, PlainOperations
  <2>4. QED
    BY <1>2, <2>1, <2>2, <2>3, QuietThenReady
<1>4. \A name : Ready(GetGlobal(M, name))
  BY <1>3 DEF GetGlobal
<1>5. QED
  BY <1>2, <1>3, <1>4 DEF Globals, Exec

(* GET_CONST and the like.                                                 *)
LEMMA ConstantOpReady ==
  ASSUME Ready(m), ConstantOp
  PROVE  Ready(m')
<1> DEFINE M == Jump(m, Frame(m).ip + Width(Insn1))
<1>1. OnInsn
  BY DEF ConstantOp, Exec
<1>2. Good(M) /\ Ready(Fail(m, "assert"))
  BY <1>1, Fetched
<1>3. \A owner, name, v : Ready(AddConstantUnder(M, owner, name, v))
  <2> HIDE DEF M
  <2>1. QED
    BY <1>2, Usual, ClassesQuiet, QuietThenReady
<1>4. \A v, error : Ready(Constant(M, v, error)) /\ Ready(Constant(Pop1(M), v, error))
  <2> HIDE DEF M
  <2>1. Good(Pop1(M))
    BY <1>2, Usual DEF Pop1
  <2>2. QED
    BY <1>2, <2>1, Usual DEF Constant
<1>5. QED
  BY <1>2, <1>3, <1>4 DEF ConstantOp, Exec


(* GET_LOCAL and the like.                                                 *)
LEMMA LocalsReady ==
  ASSUME Ready(m), Locals
  PROVE  Ready(m')
<1> DEFINE M == Jump(m, Frame(m).ip + Width(Insn1))
<1>1. OnInsn
  BY DEF Locals, Exec
<1>2. Good(M) /\ Ready(Fail(m, "assert"))
  BY <1>1, Fetched
<1>3. (\A v : Ready(Push(M, v))) /\ \A slot, v : Ready(SetLocal(M, slot, v))
  <2> HIDE DEF M
  <2>1. QED
    BY <1>2, Usual, FrameQuiet, QuietThenReady
<1>4. ASSUME NEW slot, NEW i PROVE Ready(UnpackSetLocal(M, slot, i))
  <2> HIDE DEF M
  <2> DEFINE gap == Frame(M).slots + slot - (M.top - 1)
             room == IF gap > 0 THEN gap ELSE 0
             s == PushAll(M, [j \in 1..room |-> Nil])
             v == UnpackValue(Peek(s, room + i), i)
  <2>1. UnpackSetLocal(M, slot, i) = IF s.top <= room + i THEN Fail(s, "assert") ELSE SetLocal(s, slot, v)
    BY DEF UnpackSetLocal
  <2>2. Good(s) /\ Shape(s)
    BY <1>2, Usual, StackQuiet, QuietThenReady, QuietShape
  <2> HIDE DEF s, v
  <2>3. Ready(Fail(s, "assert")) /\ Ready(SetLocal(s, slot, v))
    BY <2>2, Usual, FrameQuiet, QuietThenReady
  <2>4. QED
    BY <2>1, <2>3
<1>5. QED
  BY <1>2, <1>3, <1>4 DEF Locals, Exec

(* GET_UPVALUE and the like.                                               *)
LEMMA UpvaluesReady ==
  ASSUME Ready(m), Upvalues
  PROVE  Ready(m')
<1> DEFINE M == Jump(m, Frame(m).ip + Width(Insn1))
<1>1. OnInsn
  BY DEF Upvalues, Exec
<1>2. Good(M) /\ Ready(Fail(m, "assert"))
  BY <1>1, Fetched
<1>3. /\ Ready(Fail(M, "wild"))
      /\ \A v : Ready(Push(M, v))
      /\ \A p, v : Ready(Write(M, p, v))
  <2> HIDE DEF M
  <2>1. QED
    BY <1>2, Usual, StackQuiet, QuietThenReady
<1>4. ASSUME NEW c, NEW v PROVE Ready([M EXCEPT !.cells[c].val = v])
  <2> HIDE DEF M
  <2>1. Plain(M, [M EXCEPT !.cells[c].val = v])
    BY <1>2, Usual DEF Shape, Fields, Plain, Apart
  <2>2. QED
    BY <1>2, <2>1, Usual, QuietPlain, QuietThenReady
<1>5. ASSUME NEW p PROVE Ready(Pop1(CloseUpvalues(M, p)))
  <2> HIDE DEF M
  <2>1. Good(CloseUpvalues(M, p))
    BY <1>2, Usual, PlainOperations, QuietThenReady
  <2>2. QED
    BY <2>1, Usual DEF Pop1
<1>6. QED
  BY <1>2, <1>3, <1>4, <1>5 DEF Upvalues, Exec

(* CLOSURE.                                                                *)
LEMMA ClosureOpReady ==
  ASSUME Ready(m), ClosureOp
  PROVE  Ready(m')
<1> DEFINE M == Jump(m, Frame(m).ip + Width(Insn1))
<1>1. OnInsn
  BY DEF ClosureOp, Exec
<1>2. Good(M) /\ Ready(Fail(m, "assert"))
  BY <1>1, Fetched
<1>3. ASSUME NEW fn, NEW f, NEW v, NEW ip PROVE Ready(Jump(PushSwap(CaptureAll(Push(M, Nil), fn, f), v), ip))
  <2> HIDE DEF M
  <2> DEFINE P == Push(M, Nil)
             s == CaptureAll(P, fn, f)
             t == PushSwap(s, v)
  <2>1. Good(P) /\ Shape(P)
    BY <1>2, Usual, StackQuiet, QuietThenReady, QuietShape
  <2> HIDE DEF P
  <2>2. Good(s) /\ Shape(s)
    BY <2>1, PlainOperations, QuietThenReady, QuietShape
  <2> HIDE DEF s
  <2>3. Good(t) /\ Shape(t)
    BY <2>2, StackQuiet, QuietThenReady, QuietShape
  <2> HIDE DEF t
  <2>4. Ready(Jump(t, ip))
    BY <2>3, FrameQuiet, QuietThenReady
  <2>5. QED
    BY <2>4 DEF t, s, P
<1>4. QED
  BY <1>2, <1>3 DEF ClosureOp, Exec

(* Jumps, LOOP, BREAK.                                                     *)
LEMMA JumpsReady ==
  ASSUME Ready(m), JumpOp \/ LoopOp \/ BreakOp
  PROVE  Ready(m')
<1> DEFINE M == Jump(m, Frame(m).ip + Width(Insn1))
<1>1. OnInsn
  BY DEF JumpOp, LoopOp, BreakOp, Exec
<1>2. Good(M) /\ Ready(Fail(m, "assert"))
  BY <1>1, Fetched
<1>3. /\ Ready(Fail(M, "assert")) /\ Ready(M) /\ Ready(Pop1(M))
      /\ \A ip : Ready(Jump(M, ip)) /\ Ready(Jump(Pop1(M), ip))
      /\ \A n, ip : Ready(Jump(PopN(M, n), ip))
  <2> HIDE DEF M
  <2>1. Ready(Fail(M, "assert")) /\ Ready(M) /\ \A n : Ready(PopN(M, n)) /\ Good(PopN(M, n))
    BY <1>2, Usual
  <2>2. \A N : Good(N) => \A ip : Ready(Jump(N, ip))
    BY Usual, FrameQuiet, QuietThenReady
  <2>3. QED
    BY <1>2, <2>1, <2>2 DEF Pop1
<1>4. CASE JumpOp
  BY <1>2, <1>3, <1>4 DEF JumpOp, Exec
<1>5. CASE LoopOp
  BY <1>2, <1>3, <1>5 DEF LoopOp, Exec
<1>6. CASE BreakOp
  BY <1>2, <1>3, <1>6 DEF BreakOp, Exec
<1>7. QED
  BY <1>4, <1>5, <1>6

(* BLOCK_BREAK, BLOCK_CONTINUE, BLOCK_RETURN.                              *)
LEMMA BlockExitReady ==
  ASSUME Ready(m), BlockExit
  PROVE  Ready(m')
<1> DEFINE M == Jump(m, Frame(m).ip + Width(Insn1))
<1>1. OnInsn
  BY DEF BlockExit, Exec
<1>2. Good(M) /\ Ready(Fail(m, "assert"))
  BY <1>1, Fetched
<1>3. \A err : Ready(ThrowError(M, err)) /\ Ready(ThrowError(Pop1(M), err))
  <2> HIDE DEF M
  <2>1. QED
    BY <1>2, Usual DEF Pop1
<1>4. QED
  BY <1>2, <1>3 DEF BlockExit, Exec

(* A comparison goes on with the result, or throws.                        *)
LEMMA ComparedReady ==
  ASSUME NEW M, Good(M), NEW after \in Comparisons
  PROVE  Ready(AfterReturn(after, M))
<1> DEFINE P == Pop1(M)
           result == Peek(M, 0)
<1>1. Shape(M)
  BY DEF Good, Sound
<1>2. Quiet(M, P)
  BY <1>1, StackQuiet DEF Pop1
<1>3. AfterReturn(after, M) = Compared(P, after, result)
  BY DEF AfterReturn, Comparisons
<1> HIDE DEF P, result
<1>4. Good(P) /\ Shape(P) /\ Ready(ThrowNew(P, "TypeError"))
  BY <1>2, QuietThenReady DEF Good, Sound
<1>5. \A v : Ready(PushSwap(P, v))
  BY <1>4, StackQuiet, QuietThenReady
<1>6. QED
  BY <1>3, <1>4, <1>5 DEF Compared

(* RETURN: a C function that waits below has left a tag, and then the      *)
(* return ends its block.                                                  *)
LEMMA ReturnOpReady ==
  ASSUME Ready(m), ReturnOp
  PROVE  Ready(m')
<1> DEFINE M == Jump(m, Frame(m).ip + Width(Insn1))
           P == Pop1(M)
           N == PopFrame(P)
           R == [N EXCEPT !.top = Frame(M).slots]
           v == Peek(M, 0)
           after == Frame(M).after
<1>1. OnInsn
  BY DEF ReturnOp, Exec
<1>2. Good(M) /\ Ready(Fail(m, "assert"))
  BY <1>1, Fetched
<1>3. \A err : Ready(ThrowError(P, err))
  <2> HIDE DEF M
  <2>1. QED
    BY <1>2, Usual DEF Pop1
<1>4. ASSUME ~(M.blocks > 0) PROVE Ready(Returned(R, v, after))
  <2> HIDE DEF M, v
  <2>1. Shape(M) /\ M.frames # <<>> /\ Good(P) /\ P.errInfo = M.errInfo
    <3>1. Shape(M)
      BY <1>2 DEF Good, Sound
    <3>2. Quiet(M, P)
      BY <3>1, StackQuiet
    <3>3. QED
      BY <1>2, <3>1, <3>2, QuietThenReady DEF Good, LoxTop, Quiet, Cut
  <2>2. P.errInfo = <<>>
    <3>1. M.errInfo \in TagList /\ M.blocks = Len(M.errInfo)
      BY <1>2 DEF Good, Sound, TagsIn, TagList
    <3>2. Len(M.errInfo) = 0
      BY <1>4, <3>1, TagFacts
    <3>3. QED
      BY <2>1, <3>1, <3>2, TagFacts
  <2>3. after \in Afters
    <3>1. Len(M.frames) \in Nat /\ Len(M.frames) # 0
      BY <2>1, ShapeFacts
    <3>2. FrameShape(M.frames[Len(M.frames)])
      BY <2>1, <3>1, ShapeFacts, InRange
    <3>3. QED
      BY <3>2 DEF Frame, Last, FrameShape
  <2> HIDE DEF P, after
  <2>4. Sound(N) /\ (N.frames = <<>> \/ LoxTop(N))
    <3>1. Sound(P) /\ P.frames # <<>> /\ Shape(P) /\ Waiting(P.errInfo, P.frames)
      BY <2>1 DEF Good, Sound, LoxTop
    <3>2. Sound(N) /\ Len(N.frames) = Len(P.frames) - 1
      BY <3>1, PopFrameSound
    <3>3. Cut(P, N, Len(P.frames) - 1)
      <4>1. P.errInfo \in TagList /\ ~OwnsTag(P)
        BY <2>2 DEF TagList, OwnsTag
      <4>2. QED
        BY <3>1, <4>1, PopFrameCut
    <3> DEFINE n == Len(P.frames) - 1
    <3>4. n \in Nat
      BY <3>1, ShapeFacts
    <3> HIDE DEF N
    <3>5. CASE n = 0
      <4>1. N.frames = <<>>
        BY <3>2, <3>5, ShapeFacts DEF Sound
      <4>2. QED
        BY <3>2, <4>1
    <3>6. CASE n # 0
      <4>1. n \in 1..Len(P.frames) - 1
        BY <3>4, <3>6, InRange
      <4>2. P.frames[n].native = ""
        <5>1. \A k \in 1..Len(P.errInfo) : FALSE
          BY <2>2
        <5>2. QED
          BY <3>1, <4>1, <5>1 DEF Waiting
      <4>3. N.frames[n].native = "" /\ Len(N.frames) = n
        BY <3>2, <3>3, <4>1, <4>2 DEF Cut, Kept
      <4>4. N.frames # <<>>
        BY <3>2, <3>6, <4>3, ShapeFacts DEF Sound
      <4>5. QED
        BY <3>2, <4>3, <4>4 DEF LoxTop, Frame, Last
    <3>7. QED
      BY <3>5, <3>6
  <2> HIDE DEF N
  <2>5. Plain(N, R)
    BY <2>4 DEF Sound, Shape, Fields, Plain, Apart
  <2> HIDE DEF R
  <2>6. Sound(R) /\ Shape(R) /\ (R.frames = <<>> \/ LoxTop(R))
    <3>1. Sound(R) /\ (LoxTop(N) => LoxTop(R))
      BY <2>4, <2>5, QuietPlain, QuietSound DEF Sound
    <3>2. R.frames = N.frames
      BY <2>5 DEF Plain
    <3>3. QED
      BY <2>4, <3>1, <3>2 DEF Sound
  <2>7. CASE R.frames = <<>>
    BY <2>6, <2>7, FailReady DEF Returned
  <2>8. CASE R.frames # <<>>
    <3> DEFINE Q == Push(R, v)
    <3>1. Good(R)
      BY <2>6, <2>8 DEF Good
    <3>2. Good(Q) /\ Shape(Q)
      BY <2>6, <3>1, StackQuiet, QuietThenReady DEF Good, Sound
    <3>3. Returned(R, v, after) = AfterReturn(after, Q)
      BY <2>8 DEF Returned
    <3> HIDE DEF Q
    <3>4. CASE after \in Comparisons
      BY <3>2, <3>3, <3>4, ComparedReady
    <3>5. CASE after \notin Comparisons
      BY <2>3, <3>2, <3>3, <3>5, AfterReturnQuiet, QuietThenReady
    <3>6. QED
      BY <3>4, <3>5
  <2>9. QED
    BY <2>7, <2>8
<1>5. QED
  BY <1>2, <1>3, <1>4 DEF ReturnOp, Exec

(* CALL, INVOKE.                                                           *)
LEMMA CallsReady ==
  ASSUME Ready(m), CallOp \/ InvokeOp
  PROVE  Ready(m')
<1> DEFINE M == Jump(m, Frame(m).ip + Width(Insn1))
           N == [M EXCEPT !.splat = -1]
<1>1. OnInsn
  BY DEF CallOp, InvokeOp, Exec
<1>2. Good(M) /\ Ready(Fail(m, "assert"))
  BY <1>1, Fetched
<1>3. Ready(Fail(M, "assert"))
  <2> HIDE DEF M
  <2>1. QED
    BY <1>2, Usual
<1>4. Good(N)
  <2> HIDE DEF M
  <2>1. Plain(M, N)
    BY <1>2, Usual DEF Shape, Fields, Plain, Apart
  <2>2. QED
    BY <1>2, <2>1, Usual, QuietPlain, QuietThenReady
<1>5. CASE CallOp
  <2>1. \A callee, argc, info : Ready(CallValue(N, callee, argc, info))
    <3> HIDE DEF N
    <3>1. QED
      BY <1>4, CallValueReady
  <2>2. QED
    BY <1>2, <1>3, <1>5, <2>1 DEF CallOp, Exec
<1>6. CASE InvokeOp
  <2>1. \A name, recv, argc, info : Ready(Invoke(N, name, recv, argc, info))
    <3> HIDE DEF N
    <3>1. QED
      BY <1>4, InvokeReady
  <2>2. QED
    BY <1>2, <1>3, <1>6, <2>1 DEF InvokeOp, Exec
<1>7. QED
  BY <1>5, <1>6


(* ARRAY, SPLAT_ARRAY, INDEX_GET.                                          *)
LEMMA ArraysReady ==
  ASSUME Ready(m), Arrays
  PROVE  Ready(m')
<1> DEFINE M == Jump(m, Frame(m).ip + Width(Insn1))
<1>1. OnInsn
  BY DEF Arrays, Exec
<1>2. Good(M) /\ Ready(Fail(m, "assert"))
  BY <1>1, Fetched
<1>3. (\A n, v : Ready(Push(PopN(M, n), v))) /\ Ready(ThrowNew(Pop1(M), "TypeError"))
  <2> HIDE DEF M
  <2>1. QED
    BY <1>2, Usual DEF Pop1
<1>4. ASSUME NEW vals, NEW n PROVE Ready([PushAll(Pop1(M), vals) EXCEPT !.splat = n])
  <2> HIDE DEF M
  <2> DEFINE P == PushAll(Pop1(M), vals)
             N == [P EXCEPT !.splat = n]
  <2>1. Good(Pop1(M)) /\ Shape(Pop1(M))
    BY <1>2, Usual DEF Pop1, Good, Sound
  <2>2. Good(P) /\ Shape(P)
    BY <2>1, StackQuiet, QuietThenReady, QuietShape
  <2> HIDE DEF P
  <2>3. Plain(P, N)
    BY <2>2 DEF Shape, Fields, Plain, Apart
  <2> HIDE DEF N
  <2>4. Ready(N)
    BY <2>2, <2>3, QuietPlain, QuietThenReady
  <2>5. QED
    BY <2>4 DEF N, P
<1>5. \A error, recv, callable : Ready(CallOr(M, error, recv, callable))
  <2> HIDE DEF M
  <2>1. QED
    BY <1>2, CallOrReady
<1>6. QED
  BY <1>2, <1>3, <1>4, <1>5 DEF Arrays, Exec

(* ITER, ITER_NEXT.                                                        *)
LEMMA IterationReady ==
  ASSUME Ready(m), Iteration
  PROVE  Ready(m')
<1> DEFINE M == Jump(m, Frame(m).ip + Width(Insn1))
<1>1. OnInsn
  BY DEF Iteration, Exec
<1>2. Good(M) /\ Ready(Fail(m, "assert"))
  BY <1>1, Fetched
<1>3. /\ \A v : Ready(Push(M, v)) /\ Ready(PushSwap(M, v))
      /\ \A it, v : Ready(Push(PushSwap(M, it), v))
      /\ Ready(ThrowNew(M, "TypeError")) /\ Ready(Fail(M, "assert"))
  <2> HIDE DEF M
  <2>1. QED
    BY <1>2, Usual
<1>4. QED
  BY <1>2, <1>3 DEF Iteration, Exec

(* THROW, GET_THROWN, RETHROW_IF_ERR.                                      *)
LEMMA ThrowingReady ==
  ASSUME Ready(m), Throwing
  PROVE  Ready(m')
<1> DEFINE M == Jump(m, Frame(m).ip + Width(Insn1))
<1>1. OnInsn
  BY DEF Throwing, Exec
<1>2. Good(M) /\ Ready(Fail(m, "assert"))
  BY <1>1, Fetched
<1>3. /\ \A err : Ready(ThrowError(M, err)) /\ Ready(ThrowError(Pop1(M), err))
      /\ \A v : Ready(Push(M, v))
      /\ Ready(M) /\ Ready(Fail(M, "assert"))
  <2> HIDE DEF M
  <2>1. QED
    BY <1>2, Usual DEF Pop1
<1>4. QED
  BY <1>2, <1>3 DEF Throwing, Exec

(* PROP_GET, PROP_SET.                                                     *)
LEMMA PropertiesReady ==
  ASSUME Ready(m), Properties
  PROVE  Ready(m')
<1> DEFINE M == Jump(m, Frame(m).ip + Width(Insn1))
<1>1. OnInsn
  BY DEF Properties, Exec
<1>2. Good(M) /\ Ready(Fail(m, "assert"))
  BY <1>1, Fetched
<1>3. ASSUME NEW op, NEW name, NEW v PROVE Ready(Property(M, op, name, v))
  <2> HIDE DEF M
  <2>1. /\ \A n : Ready(ThrowNew(PopN(M, n), "TypeError"))
        /\ Ready(Fail(M, "unmodelled"))
        /\ \A w : Ready(PushSwap(M, w))
    BY <1>2, Usual
  <2>2. \A recv, clo, args : Ready(Nested(M, "get", recv, clo, args)) /\ Ready(Nested(M, "set", recv, clo, args))
    <3>1. "get" \in Afters /\ "set" \in Afters
      BY DEF Afters
    <3>2. QED
      BY <1>2, <3>1, NestedReady
  <2>3. \A field, getter, method : Ready(PropGet(M, v, field, getter, method))
    BY <2>1, <2>2 DEF PropGet
  <2>4. ASSUME NEW rval PROVE Ready(PushSwap([Pop1(M) EXCEPT !.fields = (<<v, name>> :> rval) @@ @], rval))
    <3> DEFINE P == Pop1(M)
               N == [P EXCEPT !.fields = (<<v, name>> :> rval) @@ @]
    <3>1. Good(P) /\ Shape(P)
      BY <1>2, Usual DEF Pop1, Good, Sound
    <3> HIDE DEF P
    <3>2. Plain(P, N)
      BY <3>1 DEF Shape, Fields, Plain, Apart
    <3> HIDE DEF N
    <3>3. Good(N) /\ Shape(N)
      BY <3>1, <3>2, QuietPlain, QuietThenReady, QuietShape
    <3>4. Ready(PushSwap(N, rval))
      BY <3>3, StackQuiet, QuietThenReady
    <3>5. QED
      BY <3>4 DEF N, P
  <2>5. \A setter, rval : Ready(PropSet(M, v, name, setter, rval))
    BY <2>1, <2>2, <2>4 DEF PropSet
  <2>6. QED
    BY <2>1, <2>3, <2>5 DEF Property
<1>4. QED
  BY <1>2, <1>3 DEF Properties, Exec

(* CLASS, MODULE, SUBCLASS, IN, POP_CREF.                                  *)
LEMMA ClassOpReady ==
  ASSUME Ready(m), ClassOp
  PROVE  Ready(m')
<1> DEFINE M == Jump(m, Frame(m).ip + Width(Insn1))
<1>1. OnInsn
  BY DEF ClassOp, Exec
<1>2. Good(M) /\ Ready(Fail(m, "assert"))
  BY <1>1, Fetched
<1>3. ASSUME NEW N, Good(N), NEW op, NEW name, NEW super PROVE Ready(DefineClass(N, op, name, super))
  <2>1. \A class : Ready(ThrowNew(N, class))
    BY <1>3, Usual
  <2>2. \A v : Ready(EnterClass(N, v))
    BY <1>3, Usual, BodiesQuiet, QuietThenReady
  <2>3. ASSUME NEW kind, NEW above, NEW v PROVE Ready(EnterClass(NewClass(N, kind, name, above), v))
    <3>1. Good(NewClass(N, kind, name, above)) /\ Shape(NewClass(N, kind, name, above))
      BY <1>3, Usual, ClassesQuiet, QuietThenReady, QuietShape
    <3>2. QED
      BY <3>1, BodiesQuiet, QuietThenReady
  <2>4. \A kind, own : Ready(Define1(N, op, kind, name, own, super))
    BY <2>1, <2>2, <2>3 DEF Define1
  <2>5. QED
    BY <2>4 DEF DefineClass
<1>4. Good(Pop1(M)) /\ Ready(Fail(M, "assert")) /\ Ready(ThrowNew(Pop1(M), "TypeError"))
  <2> HIDE DEF M
  <2>1. QED
    BY <1>2, Usual DEF Pop1
<1>5. Ready(LeaveBody(Pop1(PopCref(M))))
  <2> HIDE DEF M
  <2>1. Good(PopCref(M))
    BY <1>2, Usual, PlainOperations, QuietThenReady
  <2>2. Good(Pop1(PopCref(M))) /\ Shape(Pop1(PopCref(M)))
    BY <2>1, Usual DEF Pop1, Good, Sound
  <2>3. QED
    BY <2>2, BodiesQuiet, QuietThenReady
<1>6. ASSUME NEW v, NEW class PROVE Ready(EnterBody(M, v)) /\ Ready(EnterBody(PushSwap(SingletonClass(M, v), class), class))
  <2> HIDE DEF M
  <2>1. Ready(EnterBody(M, v))
    BY <1>2, Usual, BodiesQuiet, QuietThenReady
  <2>2. Good(SingletonClass(M, v)) /\ Shape(SingletonClass(M, v))
    BY <1>2, Usual, ClassesQuiet, QuietThenReady, QuietShape
  <2>3. Good(PushSwap(SingletonClass(M, v), class)) /\ Shape(PushSwap(SingletonClass(M, v), class))
    BY <2>2, StackQuiet, QuietThenReady, QuietShape
  <2>4. QED
    BY <2>1, <2>3, BodiesQuiet, QuietThenReady
<1>7. \A op, name, super : Ready(DefineClass(M, op, name, super)) /\ Ready(DefineClass(Pop1(M), op, name, super))
  <2> HIDE DEF M
  <2>1. QED
    BY <1>2, <1>3, <1>4
<1>8. QED
  BY <1>2, <1>4, <1>5, <1>6, <1>7 DEF ClassOp, Exec

(* METHOD, CLASS_METHOD, GETTER, SETTER.                                   *)
LEMMA MethodOpReady ==
  ASSUME Ready(m), MethodOp
  PROVE  Ready(m')
<1> DEFINE M == Jump(m, Frame(m).ip + Width(Insn1))
<1>1. OnInsn
  BY DEF MethodOp, Exec
<1>2. Good(M) /\ Ready(Fail(m, "assert"))
  BY <1>1, Fetched
<1>3. Ready(Fail(M, "assert"))
  <2> HIDE DEF M
  <2>1. QED
    BY <1>2, Usual
<1>4. ASSUME NEW op, NEW class, NEW name, NEW clo, NEW answer
      PROVE  Ready(Added(Defined(M, op, class, name, clo), op, class, name, answer))
  <2> HIDE DEF M
  <2> DEFINE s == Defined(M, op, class, name, clo)
  <2>1. Good(s)
    BY <1>2, Usual, ClassesQuiet, QuietThenReady DEF Defined
  <2> HIDE DEF s
  <2>2. \A recv, c, args : Ready(Nested(s, "added", recv, c, args))
    <3>1. "added" \in Afters
      BY DEF Afters
    <3>2. QED
      BY <2>1, <3>1, NestedReady
  <2>3. Ready(Pop1(s))
    BY <2>1, Usual DEF Pop1
  <2>4. Ready(Added(s, op, class, name, answer))
    BY <2>2, <2>3 DEF Added
  <2>5. QED
    BY <2>4 DEF s
<1>5. QED
  BY <1>2, <1>3, <1>4 DEF MethodOp, Exec

(* GET_THIS, GET_SUPER.                                                    *)
LEMMA ThisOpReady ==
  ASSUME Ready(m), ThisOp
  PROVE  Ready(m')
<1> DEFINE M == Jump(m, Frame(m).ip + Width(Insn1))
<1>1. OnInsn
  BY DEF ThisOp, Exec
<1>2. Good(M) /\ Ready(Fail(m, "assert"))
  BY <1>1, Fetched
<1>3. (\A v : Ready(Push(M, v))) /\ \A class, found : Ready(Super(M, class, found))
  <2> HIDE DEF M
  <2>1. /\ \A v : Ready(Push(M, v))
        /\ Ready(Fail(M, "assert")) /\ Ready(Fail(M, "wild")) /\ Ready(ThrowNew(M, "Error"))
    BY <1>2, Usual
  <2>2. QED
    BY <2>1 DEF Super
<1>4. QED
  BY <1>2, <1>3 DEF ThisOp, Exec

(* The end of the top level.                                               *)
LEMMA LeaveReady ==
  ASSUME Ready(m), Leave
  PROVE  Ready(m')
<1>1. Good(m)
  BY DEF Leave, Running, Ready, Good
<1>2. Ready(Fail(m, "wild"))
  BY <1>1, Usual
<1>3. ASSUME NEW ip PROVE Ready(Fail(Jump(m, ip), "done"))
  <2>1. Good(Jump(m, ip))
    BY <1>1, Usual, FrameQuiet, QuietThenReady
  <2>2. QED
    BY <2>1, Usual
<1>4. QED
  BY <1>2, <1>3 DEF Leave

(* At most one frame, lox code's, and no tag: a machine that begins.       *)
LEMMA BeginsSound ==
  ASSUME NEW N, Fields \subseteq DOMAIN N, Sequence(N.frames), NEW n \in {0, 1}, Len(N.frames) = n,
         \A i \in 1..n : FrameShape(N.frames[i]) /\ IsLox(N.frames[i]),
         N.errInfo = <<>>, N.blocks = 0
  PROVE  Sound(N) /\ (N.frames # <<>> => LoxTop(N))
<1> DEFINE F == N.frames
<1>1. Len(F) = n /\ Sequence(F) /\ n \in Nat /\ 1..n - 1 = {}
  BY SMT
<1>2. F # <<>> => n = 1
  BY <1>1, EmptySeq DEF Sequence
<1>3. Shape(N)
  BY <1>1 DEF Shape, FramesShape
<1>4. F # <<>> => IsLox(F[1])
  <2>1. n = 1 => 1 \in 1..n
    BY SMT
  <2>2. QED
    BY <1>2, <2>1
<1>5. \A i \in 1..Len(F) - 1 : FALSE
  BY <1>1
<1> HIDE DEF F
<1>6. Alternate(F)
  BY <1>4, <1>5, Zenon DEF Alternate, IsLox
<1>7. \A E : Waiting(E, F)
  BY <1>5, Zenon DEF Waiting
<1>8. <<>> \in Seq([frame : Nat, bentry : Nat]) /\ Len(<<>>) = 0
  BY SMT
<1>9. TagsIn(<<>>, F)
  BY <1>8 DEF TagsIn
<1>10. Len(F) <= FRAMES_MAX
  BY <1>1, FramesAssumption
<1>11. Sound(N)
  BY <1>3, <1>6, <1>7, <1>8, <1>9, <1>10, Zenon DEF Sound, F
<1>12. F # <<>> => LoxTop(N)
  <2>1. F # <<>> => Last(F) = F[1]
    BY <1>1, <1>2 DEF Last
  <2>2. QED
    BY <1>4, <2>1, Zenon DEF LoxTop, Frame, IsLox, F
<1>13. QED
  BY <1>11, <1>12 DEF F

(* The program is loaded.                                                  *)
LEMMA LoadReady ==
  ASSUME Load
  PROVE  Ready(m')
<1>1. PICK compiled : m' = [Idle EXCEPT
                    !.rows = [r \in CatchRows([fn \in DOMAIN compiled.funcs |-> Chunk(compiled.funcs[fn])]) |->
                                [thrown |-> Nil, running |-> FALSE]],
                    !.klass = [fn \in DOMAIN [fn \in DOMAIN compiled.funcs |-> Chunk(compiled.funcs[fn])] |-> Nil],
                    !.frames = IF compiled.abort \/ compiled.hadError THEN <<>>
                               ELSE <<TopFrame(Len([fn \in DOMAIN compiled.funcs |-> Chunk(compiled.funcs[fn])]),
                                               Last([fn \in DOMAIN compiled.funcs |-> Chunk(compiled.funcs[fn])]).max)>>,
                    !.status = CASE compiled.abort -> "abort"
                                 [] ~compiled.abort /\ compiled.hadError -> "rejected"
                                 [] OTHER -> "run"]
  BY DEF Load
<1> DEFINE refused == compiled.abort \/ compiled.hadError
           chunks == [fn \in DOMAIN compiled.funcs |-> Chunk(compiled.funcs[fn])]
           f == TopFrame(Len(chunks), Last(chunks).max)
<1>2. /\ Fields \subseteq DOMAIN m'
      /\ m'.frames = IF refused THEN <<>> ELSE <<f>>
      /\ m'.errInfo = <<>> /\ m'.blocks = 0
      /\ refused => m'.status # "run"
  BY <1>1 DEF Idle, Fields
<1>3. FrameShape(f) /\ IsLox(f)
  BY DEF FrameShape, TopFrame, Afters, IsLox
<1> HIDE DEF refused, chunks, f
<1>4. CASE refused
  <2>1. Sequence(m'.frames) /\ Len(m'.frames) = 0
    <3>1. <<>> \in Seq({}) /\ Len(<<>>) = 0
      BY SMT
    <3>2. m'.frames = <<>>
      BY <1>2, <1>4
    <3>3. QED
      BY <3>1, <3>2, Zenon DEF Sequence
  <2>2. Sound(m')
    BY <1>2, <2>1, BeginsSound
  <2>3. QED
    BY <1>2, <1>4, <2>2 DEF Ready
<1>5. CASE ~refused
  <2>1. <<f>> \in Seq({f}) /\ Len(<<f>>) = 1 /\ <<f>>[1] = f
    OBVIOUS
  <2>2. m'.frames = <<f>>
    BY <1>2, <1>5
  <2>3. Sequence(m'.frames) /\ Len(m'.frames) = 1 /\ m'.frames # <<>>
    <3>1. <<f>> # <<>> /\ Sequence(<<f>>)
      BY <2>1, EmptySeq DEF Sequence
    <3>2. QED
      BY <2>1, <2>2, <3>1, Zenon
  <2>4. \A i \in 1..1 : FrameShape(m'.frames[i]) /\ IsLox(m'.frames[i])
    BY <1>3, <2>1, <2>2
  <2>5. Sound(m') /\ LoxTop(m')
    BY <1>2, <2>3, <2>4, BeginsSound
  <2>6. QED
    BY <2>5 DEF Ready
<1>6. QED
  BY <1>4, <1>5


(* Nothing is loaded yet.                                                  *)
LEMMA InitReady ==
  ASSUME Init
  PROVE  Ready(m)
<1>1. Fields \subseteq DOMAIN m /\ m.frames = <<>> /\ m.errInfo = <<>> /\ m.blocks = 0 /\ m.status = "load"
  BY DEF Init, Idle, Fields
<1>2. <<>> \in Seq({}) /\ Len(<<>>) = 0
  BY SMT
<1>3. Sequence(m.frames) /\ Len(m.frames) = 0
  BY <1>1, <1>2, Zenon DEF Sequence
<1>4. Sound(m)
  BY <1>1, <1>3, BeginsSound
<1>5. QED
  BY <1>1, <1>4 DEF Ready

(* Every instruction.                                                      *)
LEMMA StepReady ==
  ASSUME Ready(m), Step
  PROVE  Ready(m')
<1>1. CASE Constants \/ Arithmetic \/ Comparison \/ Equality \/ Unary \/ AndOr \/ Pops \/ CheckKeyword \/ PrintOp
  BY <1>1, ConstantsReady, ArithmeticReady, ComparisonReady, EqualityReady, UnaryReady, StackOpsReady, PrintOpReady, Zenon
<1>2. CASE Globals \/ ConstantOp \/ Locals \/ Upvalues \/ ClosureOp \/ Properties \/ ClassOp \/ MethodOp \/ ThisOp
  BY <1>2, GlobalsReady, ConstantOpReady, LocalsReady, UpvaluesReady, ClosureOpReady, PropertiesReady, ClassOpReady,
     MethodOpReady, ThisOpReady, Zenon
<1>3. CASE JumpOp \/ LoopOp \/ BreakOp \/ BlockExit \/ ReturnOp \/ CallOp \/ InvokeOp \/ Arrays \/ Iteration \/ Throwing \/ Leave
  BY <1>3, JumpsReady, BlockExitReady, ReturnOpReady, CallsReady, ArraysReady, IterationReady, ThrowingReady, LeaveReady, Zenon
<1>4. QED
  BY <1>1, <1>2, <1>3, Zenon DEF Step

-----------------------------------------------------------------------------
(* What follows of every run.                                              *)

\* The invariant (vm_run, between two instructions).
MachineReady == Ready(m)

(* What every other result here follows from, and the only one proved by   *)
(* induction: each C function that changes the frames or the tags leaves   *)
(* them as the next one expects (pushFrame, popFrame, throwErrorFrom).     *)
THEOREM AlwaysReady == LanguageSpec => []MachineReady
<1>1. LanguageInit => MachineReady
  BY InitReady, Zenon DEF LanguageInit, MachineReady
<1>2. MachineReady /\ [LanguageNext]_lvars => MachineReady'
  <2>1. ASSUME Ready(m), UNCHANGED lvars PROVE Ready(m')
    <3>1. m' = m
      BY <2>1, Zenon DEF lvars, vars
    <3>2. QED
      BY <2>1, <3>1, Zenon
  <2>2. QED
    BY <2>1, LoadReady, StepReady, Zenon DEF MachineReady, LanguageNext, LanguageLoad, LanguageStep
<1>3. QED
  BY <1>1, <1>2, PTL DEF LanguageSpec

(* LandingsAlive: every place an error can jump to belongs to a C function *)
(* that still waits for lox code, in the order they were called, and there *)
(* are as many block entries as such places (addErrInfo, unwindErrInfo,    *)
(* SETUP_BLOCK, throwErrorFrom).                                           *)
THEOREM LandingsStayAlive == LanguageSpec => []LandingsAlive
<1>1. ASSUME MachineReady PROVE LandingsAlive
  <2>1. Sound(m) /\ TagsIn(m.errInfo, m.frames) /\ m.blocks = Len(m.errInfo)
    BY <1>1, Zenon DEF MachineReady, Ready, Sound
  <2>2. DOMAIN m.frames = 1..Len(m.frames)
    BY <2>1, ShapeFacts DEF Sound
  <2>3. Len(m.errInfo) \in Nat /\ DOMAIN m.errInfo = 1..Len(m.errInfo)
    <3>1. m.errInfo \in Seq([frame : Nat, bentry : Nat])
      BY <2>1, Zenon DEF TagsIn
    <3>2. QED
      BY <3>1
  <2>4. ASSUME NEW i \in 2..Len(m.errInfo) PROVE m.errInfo[i - 1].frame < m.errInfo[i].frame
    <3>1. i - 1 \in 1..Len(m.errInfo) /\ i \in 1..Len(m.errInfo) /\ i - 1 < i
      BY <2>3
    <3>2. QED
      BY <2>1, <3>1, Zenon DEF TagsIn
  <2>5. \A i \in DOMAIN m.errInfo : m.errInfo[i].frame \in DOMAIN m.frames /\ m.frames[m.errInfo[i].frame].native # ""
    BY <2>1, <2>2, <2>3, Zenon DEF TagsIn
  <2>6. QED
    BY <2>1, <2>4, <2>5, Zenon DEF LandingsAlive
<1>2. QED
  BY <1>1, AlwaysReady, PTL

\* An instruction is fetched from lox code: the loop never finds a C function's
\* frame on top of the frames (vm_run's ASSERT, getFrame).
InstructionsOfLoxCode == m.status = "run" => m.frames # <<>> /\ Frame(m).native = ""

(* A return, a break out of a block, an error or a call never hands the    *)
(* loop a frame it cannot run: vm_run asserts that the frame is not a C    *)
(* function's before every instruction, and nothing tests it in a release. *)
THEOREM LoopRunsLoxCode == LanguageSpec => []InstructionsOfLoxCode
<1>1. MachineReady => InstructionsOfLoxCode
  BY Zenon DEF MachineReady, Ready, LoxTop, InstructionsOfLoxCode
<1>2. QED
  BY <1>1, AlwaysReady, PTL

\* The frames never pass the limit at which a call is refused (pushFrame,
\* doCallCallable).
FramesWithinLimit == Len(m.frames) <= FRAMES_MAX

(* No way to call lox code misses the test of FRAMES_MAX: functions,       *)
(* methods, init, blocks that C functions call and their next turns, and   *)
(* calls made half-way through an instruction (callCallable, lxYield).  A  *)
(* C function called with the frames full is where the model ends.         *)
THEOREM FramesStayWithinLimit == LanguageSpec => []FramesWithinLimit
<1>1. MachineReady => FramesWithinLimit
  BY Zenon DEF MachineReady, Ready, Sound, FramesWithinLimit
<1>2. QED
  BY <1>1, AlwaysReady, PTL

\* A C function that has lox code above it has its landing, and only one; the
\* frame below it and the frame above it are lox code's (lxYield, SETUP_BLOCK,
\* callFunctionValue).
OneLandingEach ==
    \A i \in DOMAIN m.frames : m.frames[i].native # "" =>
        /\ i # 1 /\ m.frames[i - 1].native = ""
        /\ i # Len(m.frames) =>
              /\ m.frames[i + 1].native = ""
              /\ \E k \in DOMAIN m.errInfo :
                    m.errInfo[k].frame = i /\ \A j \in DOMAIN m.errInfo : m.errInfo[j].frame = i => j = k

(* The converse of LandingsAlive: an error in lox code that a C function   *)
(* called cannot pass that function by and land in one further down, with  *)
(* the longjmp cutting off the C frames of the one that waits (throwError, *)
(* lxYield, lxArrayEach).                                                  *)
THEOREM NoCallerWithoutLanding == LanguageSpec => []OneLandingEach
<1>1. ASSUME MachineReady PROVE OneLandingEach
  <2> DEFINE F == m.frames
             E == m.errInfo
  <2>1. Alternate(F) /\ TagsIn(E, F) /\ Waiting(E, F) /\ Sound(m)
    BY <1>1, Zenon DEF MachineReady, Ready, Sound
  <2>2. Len(F) \in Nat /\ DOMAIN F = 1..Len(F)
    BY <2>1, ShapeFacts DEF Sound
  <2>3. Len(E) \in Nat /\ DOMAIN E = 1..Len(E) /\ \A k \in DOMAIN E : E[k].frame \in Nat
    <3>1. E \in Seq([frame : Nat, bentry : Nat])
      BY <2>1, Zenon DEF TagsIn
    <3>2. Len(E) \in Nat /\ DOMAIN E = 1..Len(E)
      BY <3>1
    <3>3. \A k \in 1..Len(E) : E[k] \in [frame : Nat, bentry : Nat]
      BY <3>1, ElementOfSeq
    <3>4. \A k \in 1..Len(E) : E[k].frame \in Nat
      BY <3>3
    <3>5. QED
      BY <3>2, <3>4, Zenon
  <2>4. F # <<>> <=> Len(F) # 0
    BY <2>1, ShapeFacts DEF Sound
  <2> HIDE DEF F, E
  <2>5. ASSUME NEW k \in DOMAIN E, NEW j \in DOMAIN E, E[k].frame = E[j].frame PROVE j = k
    <3>1. k \in 1..Len(E) /\ j \in 1..Len(E) /\ (k < j \/ j < k \/ j = k)
      BY <2>3
    <3>2. \A a, b \in 1..Len(E) : a < b => E[a].frame < E[b].frame
      BY <2>1, Zenon DEF TagsIn
    <3>3. E[k].frame \in Nat
      BY <2>3
    <3>4. QED
      BY <2>5, <3>1, <3>2, <3>3
  <2>6. ASSUME NEW i \in DOMAIN F, F[i].native # ""
        PROVE  /\ i # 1 /\ F[i - 1].native = ""
               /\ i # Len(F) =>
                     /\ F[i + 1].native = ""
                     /\ \E k \in DOMAIN E : E[k].frame = i /\ \A j \in DOMAIN E : E[j].frame = i => j = k
    <3>1. i \in 1..Len(F) /\ Len(F) # 0
      BY <2>2
    <3>2. i # 1
      BY <2>1, <2>4, <2>6, <3>1, Zenon DEF Alternate
    <3>3. i - 1 \in 1..Len(F) - 1 /\ (i - 1) + 1 = i
      BY <2>2, <3>1, <3>2
    <3>4. F[i - 1].native = ""
      <4>1. F[i - 1].native = "" \/ F[(i - 1) + 1].native = ""
        BY <2>1, <3>3, Zenon DEF Alternate
      <4>2. QED
        BY <2>6, <3>3, <4>1, Zenon
    <3>5. ASSUME i # Len(F)
          PROVE  /\ F[i + 1].native = ""
                 /\ \E k \in DOMAIN E : E[k].frame = i /\ \A j \in DOMAIN E : E[j].frame = i => j = k
      <4>1. i \in 1..Len(F) - 1
        BY <2>2, <3>1, <3>5
      <4>2. F[i + 1].native = ""
        BY <2>1, <2>6, <4>1, Zenon DEF Alternate
      <4>3. PICK k \in 1..Len(E) : E[k].frame = i
        BY <2>1, <2>6, <4>1, Zenon DEF Waiting
      <4>4. k \in DOMAIN E /\ \A j \in DOMAIN E : E[j].frame = i => j = k
        BY <2>3, <2>5, <4>3, Zenon
      <4>5. QED
        BY <4>2, <4>3, <4>4, Zenon
    <3>6. QED
      BY <3>2, <3>4, <3>5, Zenon
  <2>7. QED
    BY <2>6, Zenon DEF OneLandingEach, F, E
<1>2. QED
  BY <1>1, AlwaysReady, PTL
=============================================================================

------------------------------ MODULE Machine ------------------------------
(* vm.c: the loop that runs chunks, the frames and the stack under it, and    *)
(* the ways out of it that are not returns.                                   *)
(*                                                                            *)
(* The state of the running thread is one record, m, which the C functions    *)
(* change through vm.curThread; here they take it and return it changed:      *)
(*   mem, top    the stack's memory, and how much of it is in use: what was   *)
(*               popped stays in memory, and `last` (th->lastValue) points    *)
(*               to the value popped last                                     *)
(*   frames      the call frames.  A frame that runs C code (native) has a    *)
(*               copy of its caller's function and ip                         *)
(*   cells, open the upvalues, and those of them that point into the stack    *)
(*   errInfo     where throwError jumps to when it is not a catch row         *)
(*   blocks      v_blockStack, of which only the length counts                *)
(*   rows        the part of the catch tables that changes                    *)
(* Every activation of vm_run is one frame that is not native, every native   *)
(* frame one C function that waits in it, so that the frames are also the C   *)
(* stack.  Strings, arrays and errors are values: nothing here changes them.  *)
(* What the C code can do and this model cannot ends in "unmodelled".         *)
EXTENDS Bytecode, Classes, FiniteSets

CONSTANTS Programs,     \* syntax trees
          Compile(_, _), \* what the compiler makes of one, without the optimizer or with it
          FRAMES_MAX    \* frames before a call is refused
ASSUME FramesAssumption == FRAMES_MAX \in Nat \ {0}

VARIABLES which,        \* the program that runs, and whether it was optimized
          Funcs,        \* its functions, the top level last
          m
vars == <<which, Funcs, m>>

\* What is kept of a function when its instructions became a chunk.
Chunk(f) == [x \in DOMAIN f \ {"seq"} |-> f[x]]

Undef == <<"undef">>
NumVal(n) == <<"num", n>>
BoolVal(b) == <<"bool", b>>
StrVal(s) == <<"str", s>>
ArrayVal(vals) == <<"array", vals>>
ErrVal(class, val) == <<"error", class, val>>
Closure(fn, ups, isBlock) == <<"closure", fn, ups, isBlock>>
IsNum(v) == v[1] = "num"
IsTruthy(v) == v \notin {Nil, BoolVal(FALSE)}

-----------------------------------------------------------------------------
(* The stack.  A place in it is a pointer, counted from 0.                    *)

Write(M, p, v) ==
    [M EXCEPT !.mem = IF p < Len(@) THEN [@ EXCEPT ![p + 1] = v]
                      ELSE @ \o [i \in 1..(p - Len(@)) |-> Undef] \o <<v>>]
Read(M, p) == M.mem[p + 1]
Push(M, v) == [Write(M, M.top, v) EXCEPT !.top = @ + 1]
PushAll(M, vals) ==
    [M EXCEPT !.mem = SubSeq(@, 1, M.top) \o vals \o SubSeq(@, M.top + Len(vals) + 1, Len(@)), !.top = @ + Len(vals)]
PopN(M, n) == IF M.top < n THEN Fail(M, "assert") ELSE [M EXCEPT !.top = @ - n, !.last = M.top - n]
Pop1(M) == PopN(M, 1)
Peek(M, n) == Read(M, M.top - 1 - n)
PushSwap(M, v) == Write(M, M.top - 1, v)
UnpackValue(val, i) == IF i < Len(val[2]) THEN val[2][i + 1] ELSE Nil
LastValue(M) == IF M.last = -1 THEN Nil ELSE Read(M, M.last)

-----------------------------------------------------------------------------
(* Frames, upvalues.                                                          *)

Frame(M) == Last(M.frames)
SetTop(M, F(_)) == [M EXCEPT !.frames[Len(M.frames)] = F(@)]
Jump(M, ip) == [M EXCEPT !.frames[Len(M.frames)].ip = ip]

TopFrame(fn, max) ==
    [fn |-> fn, ups |-> <<>>, ip |-> 0, slots |-> 0, start |-> 0, native |-> "",
     locals |-> [i \in 1..max |-> Nil], adjust |-> 0, block |-> 0, args |-> 0, argc |-> 0, iter |-> 0,
     instance |-> Nil, klass |-> "", after |-> ""]

CloseUpvaluesAbove(M, last) ==
    [M EXCEPT !.cells = [c \in DOMAIN @ |->
        IF M.cells[c].open /\ M.cells[c].at > last THEN [open |-> FALSE, at |-> 0, val |-> Read(M, @[c].at)] ELSE @[c]]]
\* The upvalues from `last` up leave the stack: each takes its value with it.
CloseUpvalues(M, last) ==
    LET Closes(c) == M.cells[c].open /\ M.cells[c].at >= last
    IN  [M EXCEPT !.cells = [c \in DOMAIN @ |->
                IF Closes(c) THEN [open |-> FALSE, at |-> 0, val |-> Read(M, @[c].at)] ELSE @[c]]]

\* One upvalue for each place.
OpenAt(M, p) == {c \in DOMAIN M.cells : M.cells[c].open /\ M.cells[c].at = p}
CaptureUpvalue(cells, p) ==
    IF \E c \in DOMAIN cells : cells[c].open /\ cells[c].at = p THEN cells
    ELSE Append(cells, [open |-> TRUE, at |-> p, val |-> Nil])
UpvalueAt(M, p) == CHOOSE c \in OpenAt(M, p) : TRUE

\* The upvalues a closure of `fn` has when it is made in the frame f.
CaptureLocal(cells, u, slots) == IF u.isLocal THEN CaptureUpvalue(cells, slots + u.index) ELSE cells
CaptureLocals(cells, ups, slots) ==
    LET captured[i \in 0..Len(ups)] == IF i = 0 THEN cells ELSE CaptureLocal(captured[i - 1], ups[i], slots)
    IN  captured[Len(ups)]
CaptureAll(M, fn, f) == [M EXCEPT !.cells = CaptureLocals(@, Funcs[fn].ups, f.slots)]
UpvaluesOf(M, fn, f) ==
    [i \in DOMAIN Funcs[fn].ups |->
        LET u == Funcs[fn].ups[i]
        IN  IF u.isLocal THEN UpvalueAt(M, f.slots + u.index) ELSE f.ups[u.index + 1]]

\* The frame's tags are freed with it, and the block entries they own.
OwnsTag(M) == M.errInfo # <<>> /\ Last(M.errInfo).frame = Len(M.frames)
FreeTag(M) ==
    IF OwnsTag(M)
    THEN [M EXCEPT !.errInfo = Front(@), !.blocks = IF @ = Last(M.errInfo).bentry THEN @ - 1 ELSE @]
    ELSE M
UnwindErrInfo(M) ==
    LET freed[i \in 0..Len(M.errInfo)] == IF i = 0 THEN M ELSE FreeTag(freed[i - 1])
    IN  freed[Len(M.errInfo)]

\* The receiver's class and the receiver leave with a method's frame.
LeaveCref(f, M) == IF f.klass = "" THEN M ELSE PopCref(M)
LeaveThis(f, M) == IF f.instance = Nil THEN M ELSE PopThis(M)

PoppedDeeper(f, M) ==
    [LeaveThis(f, LeaveCref(f, IF f.native = "" THEN CloseUpvalues(M, f.slots) ELSE M)) EXCEPT
        !.frames = Front(@),
        !.top = IF f.adjust > 0 /\ @ > f.adjust /\ Len(M.frames) > 1 THEN @ - f.adjust - 1 ELSE @]
Popped(f, M) ==
    [LeaveThis(f, LeaveCref(f, IF f.native = "" THEN CloseUpvalues(M, f.slots) ELSE M)) EXCEPT
        !.frames = Front(@),
        !.top = IF f.adjust > 0 /\ @ > f.adjust /\ Len(M.frames) > 1 THEN @ - f.adjust ELSE @]
PopFrame(M) == Popped(Frame(M), UnwindErrInfo(M))

PopFramesTo(M, n) ==
    LET popped[i \in 0..Len(M.frames)] == IF i = 0 THEN M ELSE PopFrame(popped[i - 1])
    IN  IF Len(M.frames) <= n THEN M ELSE popped[Len(M.frames) - n]

PopNativeFrames(M) ==
    PopFramesTo(M, CHOOSE n \in DOMAIN M.frames :
                      M.frames[n].native = "" /\ \A i \in (n + 1)..Len(M.frames) : M.frames[i].native # "")

-----------------------------------------------------------------------------
(* Calls.                                                                     *)

KeywordsGiven(fn, info) ==
    {i \in DOMAIN info.kwargs : \E k \in DOMAIN Funcs[fn].kwargs : Funcs[fn].kwargs[k].name = info.kwargs[i]}

GivenAs(name, info) == {i \in DOMAIN info.kwargs : info.kwargs[i] = name}
\* The values of the keywords; the last one of the call is on top.
KeywordVals(M, fn, info) ==
    [k \in DOMAIN Funcs[fn].kwargs |->
        LET given == GivenAs(Funcs[fn].kwargs[k].name, info)
        IN  IF given = {} THEN Undef
            ELSE Peek(M, Cardinality({j \in KeywordsGiven(fn, info) : \A i \in given : j > i}))]

\* How many places the arguments have, how many of them take their default,
\* and how many arguments are left for the rest parameter.
Places(f) == f.arity + Len(f.defaults)
Missing(f, argc) == IF Places(f) > argc THEN Places(f) - argc ELSE 0
Extra(f, argc) == IF f.rest /\ argc > Places(f) THEN argc - Places(f) ELSE 0

PushRest(M, f, extra) ==
    IF ~f.rest THEN M
    ELSE Push(IF extra > 0 THEN PopN(M, extra) ELSE M, ArrayVal([i \in 1..extra |-> Peek(M, extra - i)]))
PushBlock(M, f, block) ==
    IF f.blockArg THEN Push(M, IF block = 0 THEN Nil ELSE <<"block", block>>) ELSE M
PushMap(M, f) == IF f.kwargs = <<>> THEN M ELSE Push(M, <<"map">>)

\* The part of doCallCallable that puts the arguments into the places the
\* compiler gave the parameters.
BindArgs(M, fn, argc, info) ==
    LET f == Funcs[fn]
        positional == PushAll(PopN(M, Cardinality(KeywordsGiven(fn, info))), [i \in 1..Missing(f, argc) |-> Nil])
    IN  PushMap(PushBlock(PushAll(PushRest(positional, f, Extra(f, argc)), KeywordVals(M, fn, info)),
                          f, info.block), f)

\* The code of the defaults that are not needed is skipped: the words of the
\* last of them.
DefaultsSkipped(f, argc) ==
    FoldLeft(LAMBDA a, b : a + b, 0, SubSeq(f.defaults, Missing(f, argc) + 1, Len(f.defaults)))
\* They are looked for from the last parameter back, and only a rest or a block
\* may come behind them: there is an assertion, but nothing refuses the others.
NotNeeded(f, argc) ==
    {i \in DOMAIN f.params : f.params[i] = "DEFAULT" /\ Cardinality({j \in 1..i : f.params[j] = "DEFAULT"}) > Missing(f, argc)}
DefaultsMisplaced(f, argc) ==
    \E i \in NotNeeded(f, argc), j \in DOMAIN f.params : j > i /\ f.params[j] \in {"REGULAR", "KWARG"}

\* Where the frame begins, under the arguments.  C.argc is corrected on the way,
\* but not for the keywords, which CALL has counted.
SlotsBelow(top, f, argc, info) ==
    LET count == argc - Extra(f, argc) + (IF f.rest THEN 1 ELSE 0) + (IF f.blockArg THEN 1 ELSE 0)
        unnamed == {k \in DOMAIN f.kwargs : GivenAs(f.kwargs[k].name, info) = {}}
    IN  top - (count + Missing(f, argc) + 1) - (IF f.kwargs = <<>> THEN 0 ELSE Cardinality(unnamed) + 1)

NoInfo == [argc |-> 0, kwargs |-> <<>>, splat |-> FALSE, block |-> 0]
ArityMax(f) == IF f.rest THEN 20 ELSE f.arity + Len(f.defaults) + Len(f.kwargs) + (IF f.blockArg THEN 1 ELSE 0)

\* The rows of a program's catch tables, and what was kept of the last throw.
CatchRows(funcs) == UNION {{<<fn, i>> : i \in DOMAIN funcs[fn].catch} : fn \in DOMAIN funcs}

\* setupLocalsTable: the table starts as a copy of what is on the stack.
LocalsTable(M, slots, max) ==
    [i \in 1..(IF M.top - slots > max THEN M.top - slots ELSE max) |->
        IF i <= M.top - slots THEN Read(M, slots + i - 1) ELSE Nil]
PushFrame(M, slots, frame) ==
    [M EXCEPT !.frames = Append(@, [frame EXCEPT !.slots = slots, !.locals = LocalsTable(M, slots, Len(@))])]

\* The frame of a closure; yielded is the number of arguments of a yield, or -1.
FramesFull(M) == Len(M.frames) >= FRAMES_MAX
EnterClosure(bound, f, argc, info, frame) == PushFrame(bound, SlotsBelow(bound.top, f, argc, info), frame)
CallClosure(M, clo, argc, info, yielded) ==
    IF FramesFull(M) \/ DefaultsMisplaced(Funcs[clo[2]], argc) THEN Fail(M, IF FramesFull(M) THEN "error" ELSE "assert")
    ELSE EnterClosure(BindArgs(M, clo[2], argc, info), Funcs[clo[2]], argc, info,
        [TopFrame(clo[2], Funcs[clo[2]].max) EXCEPT
            !.ups = clo[3], !.start = Frame(M).ip - 2, !.ip = DefaultsSkipped(Funcs[clo[2]], argc),
            !.block = info.block, !.adjust = IF yielded = -1 THEN 0 ELSE yielded + 1])

\* The frame of a native function has its caller's function, ip and slots.
PushNative(M, name, argc, block) ==
    [M EXCEPT !.frames = Append(@, [Frame(M) EXCEPT !.native = name, !.start = 0, !.adjust = 0,
                                        !.args = M.top - argc - 1, !.argc = argc, !.block = block, !.iter = 0,
                                        !.instance = Nil, !.klass = "", !.after = ""])]

\* The frame on top is a method's: `this` is the receiver, and constants are
\* looked for in its class, or in itself when it is one and the method is lox.
ReceiverClass(M, recv) ==
    IF Frame(M).native = "" /\ recv[1] \in {"class", "module"} THEN recv[2] ELSE ClassOf(M, recv)
Receive(M, recv) ==
    IF recv = Nil THEN M
    ELSE [PushCref(PushThis(M, recv), ReceiverClass(M, recv)) EXCEPT
            !.frames[Len(M.frames)] = [@ EXCEPT !.instance = recv, !.klass = ReceiverClass(M, recv)]]

\* Back in doCallCallable with the value: the callee and the arguments go.
NativeReturn(M, val) ==
    Push(PopFrame([M EXCEPT !.top = @ - Frame(M).argc - 1]), val)

\* The first half of SETUP_BLOCK: where an error in the block will land.
SetupBlock(M) ==
    [M EXCEPT !.errInfo = Append(@, [frame |-> Len(M.frames), bentry |-> M.blocks + 1]), !.blocks = @ + 1]

\* The closure of a block is made in the caller of the native function that
\* yields: that is where its upvalues are looked for.
CallerFrame(M) == M.frames[Len(M.frames) - 1]

YieldTo(M, clo, args) == CallClosure(PushAll(Push(M, clo), args), clo, Len(args), NoInfo, Len(args))
CallBlock(M, fn, args) == YieldTo(M, Closure(fn, UpvaluesOf(M, fn, CallerFrame(M)), TRUE), args)
Yield(M, fn, args) == CallBlock(CaptureAll(M, fn, CallerFrame(M)), fn, args)

\* Array#each with a block: the next element, if there is one.
EachNext(M) ==
    LET f == Frame(M)
        elems == Read(M, f.args)[2]
    IN  IF f.iter = Len(elems) THEN NativeReturn(M, Read(M, f.args))
        ELSE Yield(SetTop(SetupBlock(M), LAMBDA g : [g EXCEPT !.iter = @ + 1]), f.block, <<elems[f.iter + 1]>>)

-----------------------------------------------------------------------------
(* throwError.                                                                *)

\* The class is looked for among the constants, from where the frame is.
Matches(M, row, class, off) ==
    /\ ~row.isEnsure
    /\ LET found == FindQualified(M, Cref(M), row.class)
       IN  found[1] = "class" /\ IsSubclass(M, class, found[2])
    /\ off > row.ifrom /\ off <= row.ito

\* Jump to a row: native frames go, the others down to this one have gone.
Land(M, fn, i) ==
    Jump([PopNativeFrames(M) EXCEPT !.rows[<<fn, i>>] =
             [thrown |-> M.lastErr, running |-> @.running \/ Funcs[fn].catch[i].isEnsure]],
         Funcs[fn].catch[i].itarget)

\* findThrowJumpLoc: the first row of the frame that catches the class at the
\* offset `off`, else the last ensure row of the chunk, wherever its try block
\* is, unless it is running, else the caller.
CatchingRow(M, fn, class, off) == SelectInSeq(Funcs[fn].catch, LAMBDA row : Matches(M, row, class, off))
LastEnsure(fn) == SelectLastInSeq(Funcs[fn].catch, LAMBDA row : row.isEnsure)
EnsureRuns(M, fn) == M.rows[<<fn, LastEnsure(fn)>>].running
EnsureEnds(M, fn) ==
    IF LastEnsure(fn) = 0 THEN M ELSE [M EXCEPT !.rows[<<fn, LastEnsure(fn)>>].running = FALSE]
RowOrEnsure(M, fn, row) ==
    IF row = 0 /\ LastEnsure(fn) # 0 /\ ~EnsureRuns(M, fn) THEN LastEnsure(fn) ELSE row
RowFor(M, class, off) == RowOrEnsure(M, Frame(M).fn, CatchingRow(M, Frame(M).fn, class, off))

\* One turn of its loop: a frame that does not catch the error goes.
Caught(M, class, off) == RowFor(M, class, off) # 0
Outward(p, class) ==
    IF Caught(p[1], class, p[2]) \/ Len(p[1].frames) = 1 THEN p
    ELSE <<PopFrame([EnsureEnds(p[1], Frame(p[1]).fn) EXCEPT !.top = Frame(p[1]).slots]), Frame(p[1]).start>>
LandOrEnd(M, class, off) ==
    IF Caught(M, class, off) THEN Land(M, Frame(M).fn, RowFor(M, class, off))
    ELSE Fail(EnsureEnds(M, Frame(M).fn), "uncaught")
FindThrowJumpLoc(M, class, off) ==
    LET out[i \in 0..Len(M.frames)] == IF i = 0 THEN <<M, off>> ELSE Outward(out[i - 1], class)
        reached == out[Len(M.frames)]
    IN  LandOrEnd(reached[1], class, reached[2])

\* The second half of SETUP_BLOCK, where an error in the block lands.
LandInNativeAgain(M) ==
    PopFramesTo([M EXCEPT !.blocks = @ - 1], Last(M.errInfo).frame)
LandInNative(M) ==
    LET info == Last(M.errInfo)
    IN  [PopFramesTo([M EXCEPT !.blocks = IF @ >= info.bentry THEN info.bentry - 1 ELSE 0], info.frame)
            EXCEPT !.errInfo = Front(@)]

\* What a native function does when its block ended: every block ends by a
\* throw.  Block#yield pops a value first, however the block ended.
LeaveBlock(M) == IF Frame(M).native = "yield" THEN Pop1(M) ELSE M
Landed(M) == LeaveBlock(LandInNative(M))
BackInNative(M, err) ==
    CASE err[2] = "BlockBreakError" -> NativeReturn(M, Nil)
      [] err[2] = "BlockContinueError" /\ Frame(M).native = "each" -> EachNext(M)
      [] OTHER -> NativeReturn(M, err[3])
\* An error that is no block's end is thrown again, until no block is left.
LeaveBlocks(M) ==
    LET left[i \in 0..Len(M.errInfo)] == IF i = 0 THEN M ELSE Landed(left[i - 1])
    IN  left[Len(M.errInfo)]
EndsBlock(M, err) == err[2] \in BlockErrors /\ M.errInfo # <<>>
PassOn(M, err) == FindThrowJumpLoc(M, err[2], Frame(M).ip)
ThrowError(M, err) ==
    IF EndsBlock(M, err) THEN BackInNative(Landed([M EXCEPT !.lastErr = err]), err)
    ELSE PassOn(LeaveBlocks([M EXCEPT !.lastErr = err]), err)

ThrowNew(M, class) == ThrowError(M, ErrVal(class, Nil))

-----------------------------------------------------------------------------
(* callCallable.  `recv` is Nil in a call of a function.                      *)

\* Numbers of arguments count a splatted array's elements.
ArgCount(M, n) == IF M.splat >= 0 THEN n + M.splat - 1 ELSE n
Args(M, argc) == [i \in 1..argc |-> Peek(M, argc - i)]
WrongArity(f, argc) == argc < f.arity \/ argc > ArityMax(f)

CallFunction(M, clo, argc, info, recv) ==
    CASE FramesFull(M) -> Fail(M, "error")
      [] ~FramesFull(M) /\ WrongArity(Funcs[clo[2]], argc) -> ThrowNew(M, "ArgumentError")
      [] OTHER -> Receive(CallClosure(M, clo, argc, info, -1), recv)

\* yield, Array#each and Block#yield.  A native function that finds the frames
\* full runs without one of its own, and its return pops its caller's.  The last
\* pushes before it sets up the block, and its call is no yield: nothing is taken
\* off the stack after it.
CallYield(M, argc) ==
    CASE FramesFull(M) -> Fail(M, "unmodelled")
      [] ~FramesFull(M) /\ Frame(M).block = 0 -> ThrowNew(PushNative(M, "yield()", argc, 0), "Error")
      [] OTHER -> Yield(SetupBlock(PushNative(M, "yield()", argc, Frame(M).block)), Frame(M).block, Args(M, argc))
BlockYield(M, fn, argc) ==
    LET clo == Closure(fn, <<>>, FALSE)
        s == SetupBlock(PushAll(Push(M, clo), Args(M, argc)))
    IN  IF ~FramesFull(s) /\ WrongArity(Funcs[fn], argc) THEN ThrowNew(s, "ArgumentError") ELSE CallClosure(s, clo, argc, NoInfo, -1)

\* The C functions that are methods, in their frame, and the errors they throw.
NativeError(M, name, argc) ==
    CASE name = "init" /\ argc # 0 -> "ArgumentError"
      [] name = "each" /\ Frame(M).block = 0 -> "Error"
      [] name = "methodMissing" -> "NameError"
      [] name = "opAdd" /\ Peek(M, 0)[1] # "str" -> "TypeError"
      [] OTHER -> ""
CallNative(M, name, recv, argc) ==
    CASE NativeError(M, name, argc) # "" -> ThrowNew(M, NativeError(M, name, argc))
      [] name = "init" /\ argc = 0 -> NativeReturn(M, recv)
      [] name = "each" /\ Frame(M).block # 0 -> EachNext(M)
      [] name = "yield" -> BlockYield(M, recv[2], argc)
      [] name = "opAdd" /\ Peek(M, 0)[1] = "str" -> NativeReturn(M, StrVal(recv[2] \o Peek(M, 0)[2]))
      [] name = "opIndexGet" /\ recv[1] = "array" -> NativeReturn(M, UnpackValue(recv, ToInt(Peek(M, 0)[2])))
      [] OTHER -> Fail(M, "unmodelled")
CallMethod(M, recv, callable, argc, info) ==
    CASE callable[1] = "closure" -> CallFunction(M, callable, argc, info, recv)
      [] callable[1] # "closure" /\ (FramesFull(M) \/ callable \notin NativeMethods) -> Fail(M, "unmodelled")
      [] OTHER -> CallNative(Receive(PushNative(M, callable[2], argc, info.block), recv), callable[2], recv, argc)

\* The instance takes the place of the class.  Error's init keeps the message;
\* an instance of another class of the C code is not made here.
BuiltIn(M, class) == {"Array", "String", "Block", "Class", "Module"} \intersect Range(Chain(M, class)) # {}
CallClass(M, class, argc, info) ==
    LET init == FindIn(M, Chain(M, class), "method", "init")
        obj == <<"obj", Len(M.objects) + 1>>
        made == [Write(M, M.top - argc - 1, obj) EXCEPT !.objects = Append(@, class), !.this = obj]
    IN  CASE BuiltIn(M, class) -> Fail(M, "unmodelled")
          [] ~BuiltIn(M, class) /\ IsSubclass(M, class, "Error") /\ init[1] = "native" ->
                Push([PopThis(PushThis(M, Nil)) EXCEPT !.top = @ - argc - 1],
                     ErrVal(class, IF argc = 0 THEN Nil ELSE Peek(M, argc - 1)))
          [] ~BuiltIn(M, class) /\ IsSubclass(M, class, "Error") /\ init[1] = "closure" -> Fail(M, "unmodelled")
          [] OTHER -> CallMethod(made, obj, init, argc, info)
CallValue(M, callee, argc, info) ==
    CASE callee[1] = "closure" -> CallFunction(M, callee, argc, info, Nil)
      [] callee[1] = "class" -> CallClass(M, callee[2], argc, info)
      [] callee[1] = "bound" -> CallMethod(Write(M, M.top - argc - 1, callee[2]), callee[2], callee[3], argc, info)
      [] callee = <<"native", "yield">> -> CallYield(M, argc)
      [] OTHER -> ThrowNew(Jump(PopN(M, argc), Frame(M).ip - 1), "TypeError")

\* A method that is not there is methodMissing, with its name before the arguments.
OrGetter(M, recv, method, name, argc) ==
    IF method = NoMethod /\ argc = 0 THEN FindGetter(M, recv, name) ELSE method
InvokeFound(M, callable, name, recv, argc, info) ==
    IF callable # NoMethod THEN CallMethod(M, recv, callable, argc, info)
    ELSE CallMethod(PushAll(PopN(M, argc), <<StrVal(name)>> \o Args(M, argc)), recv,
                    FindCallable(M, recv, "methodMissing"), argc + 1, info)
Invoke(M, name, recv, argc, info) ==
    IF ~IsInstanceLike(M, recv) THEN ThrowNew(M, "TypeError")
    ELSE InvokeFound(M, OrGetter(M, recv, FindCallable(M, recv, name), name, argc), name, recv, argc, info)

\* callVMMethod, in an instruction that goes on with the result: when a frame
\* was pushed, `after` says how.
Then(s, frames, after) == IF Len(s.frames) > frames THEN [s EXCEPT !.frames[Len(s.frames)].after = after] ELSE s
Nested(M, after, recv, clo, args) ==
    Then(CallFunction(PushAll(Push(M, recv), args), clo, Len(args), NoInfo, recv), Len(M.frames), after)
Comparisons == {"LESS", "LESS_EQUAL", "GREATER", "GREATER_EQUAL"}
Compare(op, a, b) ==
    CASE op = "LESS" -> Less(a, b) [] op = "LESS_EQUAL" -> ~Less(b, a)
      [] op = "GREATER" -> Less(b, a) [] op = "GREATER_EQUAL" -> ~Less(a, b)
\* What opCmp returned is cut to an int, and compared with 0.
Compared(M, op, result) ==
    IF IsNum(result) THEN PushSwap(M, BoolVal(Compare(op, Whole(ToInt(result[2])), Zero))) ELSE ThrowNew(M, "TypeError")
AfterReturn(after, M) ==
    LET result == Peek(M, 0) IN
    CASE after = "" -> M
      [] after = "get" -> PushSwap(Pop1(M), result)
      [] after = "set" -> PushSwap(PopN(M, 2), Peek(M, 1))
      [] after \in {"eq", "ne"} -> PushSwap(Pop1(M), BoolVal(IsTruthy(result) = (after = "eq")))
      [] after = "added" -> PopN(M, 2)
      [] after \in Comparisons -> Compared(Pop1(M), after, result)

-----------------------------------------------------------------------------
(* The instructions.                                                          *)

Code == Funcs[Frame(m).fn].code
Insn1 == Code[Frame(m).ip]
Running == m.status = "run"
OnInsn == Running /\ Frame(m).ip \in DOMAIN Code

\* The values an instruction expects on the stack: there are assertions.
Needs(in) ==
    CASE in.op \in {"ADD", "SUBTRACT", "MULTIPLY", "DIVIDE", "MODULO", "LESS", "LESS_EQUAL", "GREATER",
                    "GREATER_EQUAL", "EQUAL", "NOT_EQUAL", "AND", "OR", "INDEX_GET", "PROP_SET",
                    "METHOD", "CLASS_METHOD", "GETTER", "SETTER"} -> 2
      [] in.op \in {"NEGATE", "NOT", "PRINT", "POP", "DEFINE_GLOBAL", "SET_GLOBAL", "SET_LOCAL", "SET_UPVALUE",
                    "CLOSE_UPVALUE", "JUMP_IF_FALSE", "JUMP_IF_TRUE", "JUMP_IF_FALSE_PEEK", "JUMP_IF_TRUE_PEEK",
                    "UNPACK_DEFINE_GLOBAL", "BLOCK_RETURN", "RETURN", "ITER", "ITER_NEXT", "THROW", "SPLAT_ARRAY",
                    "CHECK_KEYWORD", "PROP_GET", "SUBCLASS", "IN", "POP_CREF", "SET_CONST", "GET_CONST_UNDER"} -> 1
      [] in.op \in {"POP_N", "ARRAY"} -> in.args[1]
      [] in.op = "BREAK" -> in.args[2]
      [] OTHER -> 0

\* The instruction, read with its operands, does F to the machine.
Exec(ops, F(_, _)) ==
    /\ OnInsn /\ Insn1.op \in ops
    /\ m' = IF m.top < Needs(Insn1) THEN Fail(m, "assert")
            ELSE F(Jump(m, Frame(m).ip + Width(Insn1)), Insn1)
    /\ UNCHANGED <<which, Funcs>>

\* Numbers, strings, arrays, nil and booleans.
Constants ==
    Exec({"CONSTANT", "STRING", "DUPARRAY", "NIL", "TRUE", "FALSE"}, LAMBDA M, in :
        CASE in.op = "CONSTANT" -> Push(M, NumVal(in.args[1]))
          \* the String class and the literal are pushed and called
          [] in.op = "STRING" -> LET s == PushAll(M, <<<<"class", "String">>, StrVal(in.args[1])>>)
                                 IN  Push([s EXCEPT !.top = M.top], StrVal(in.args[1]))
          [] in.op = "DUPARRAY" -> Push(M, ArrayVal([i \in DOMAIN in.args[1] |-> NumVal(in.args[1][i])]))
          [] in.op = "NIL" -> Push(M, Nil)
          [] OTHER -> Push(M, BoolVal(in.op = "TRUE")))

\* The other operators have no method name: a NULL pointer.
MethodNames == [ADD |-> "opAdd", SUBTRACT |-> "opDiff", MULTIPLY |-> "opMul", DIVIDE |-> "opDiv"]
CallOr(M, error, recv, callable) == IF callable = NoMethod THEN ThrowNew(M, error) ELSE CallMethod(M, recv, callable, 1, NoInfo)
OperatorMethod(M, op, a) == IF IsInstanceLike(M, a) THEN FindMethod(M, a, MethodNames[op]) ELSE NoMethod
Operate(M, op, a, b) ==
    LET numbers == IsNum(a) /\ IsNum(b) /\ Foldable(op, b[2]) IN
    CASE numbers /\ Traps(op, b[2]) -> Fail(M, "trap")
      [] numbers /\ ~Traps(op, b[2]) -> PushSwap(Pop1(M), NumVal(Arith(op, a[2], b[2])))
      [] ~numbers /\ IsInstanceLike(M, a) /\ op \notin DOMAIN MethodNames -> Fail(M, "wild")
      [] OTHER -> CallOr(M, CASE IsNum(a) /\ IsNum(b) -> "Error" [] IsInstanceLike(M, a) -> "NameError" [] OTHER -> "TypeError",
                         a, OperatorMethod(M, op, a))
Arithmetic == Exec(BinOps, LAMBDA M, in : Operate(M, in.op, Peek(M, 1), Peek(M, 0)))

\* Numbers, two strings, of which only equality is told here, and whatever has
\* a class: it is asked for opCmp, which no C function is.
CompareBy(M, op, a, b, method) ==
    CASE ~IsInstanceLike(M, a) -> ThrowNew(Pop1(M), "TypeError")
      [] IsInstanceLike(M, a) /\ a[1] = "str" /\ b[1] = "str" ->
            IF a = b THEN PushSwap(M, BoolVal(Compare(op, Zero, Zero))) ELSE Fail(M, "unmodelled")
      [] IsInstanceLike(M, a) /\ {a[1], b[1]} # {"str"} /\ method = NoMethod -> ThrowNew(M, "Error")
      [] OTHER -> Nested(M, op, a, method, <<b>>)
Comparison ==
    Exec(Comparisons, LAMBDA M, in :
        LET b == Peek(M, 0)
            a == Peek(M, 1)
        IN  IF IsNum(a) /\ IsNum(b) THEN PushSwap(Pop1(M), BoolVal(Compare(in.op, a[2], b[2])))
            ELSE CompareBy(Pop1(M), in.op, a, b, FindCallable(M, a, "opCmp")))

\* The methods opEquals of the C code compare what the values are.
Equality ==
    Exec({"EQUAL", "NOT_EQUAL"}, LAMBDA M, in :
        LET rhs == Peek(M, 0)
            lhs == Peek(M, 1)
            equals == IF IsInstanceLike(M, lhs) THEN FindMethod(M, lhs, "opEquals") ELSE NoMethod
        IN  IF equals[1] = "closure"
            THEN Nested(Pop1(M), IF in.op = "EQUAL" THEN "eq" ELSE "ne", lhs, equals, <<rhs>>)
            ELSE PushSwap(Pop1(M), BoolVal((rhs = lhs) = (in.op = "EQUAL"))))

Unary ==
    Exec({"NEGATE", "NOT"}, LAMBDA M, in :
        CASE in.op = "NOT" -> PushSwap(M, BoolVal(~IsTruthy(Peek(M, 0))))
          [] in.op = "NEGATE" /\ IsNum(Peek(M, 0)) -> PushSwap(M, NumVal(Negated(Peek(M, 0)[2])))
          [] OTHER -> ThrowNew(Pop1(M), "TypeError"))

AndOrLeft == Exec({"AND", "OR"}, LAMBDA M, in : Pop1(M))
\* The left side has been tested by the jump before.
AndOr ==
    Exec({"AND", "OR"}, LAMBDA M, in :
        LET rhs == Peek(M, 0)
            lhs == Peek(M, 1)
        IN  PushSwap(Pop1(M), IF in.op = "AND" THEN (IF IsTruthy(rhs) THEN rhs ELSE BoolVal(FALSE))
                              ELSE IF IsTruthy(lhs) \/ IsTruthy(rhs) THEN rhs ELSE lhs))

Pops == Exec({"POP", "POP_N"}, LAMBDA M, in : PopN(M, IF in.op = "POP" THEN 1 ELSE in.args[1]))

PrintOp == Exec({"PRINT"}, LAMBDA M, in : [Pop1(M) EXCEPT !.out = Append(@, Peek(M, 0))])

SetGlobal(M, name, val) == [M EXCEPT !.globals = (name :> val) @@ @]

\* The functions of the language that no program may replace (though an
\* unpacking assignment does not ask), and the globals that are not told here:
\* the other functions and variables of the C code, and the read-only ones, the
\* script's path and the name of the function that runs.
Unredefinable == {"clock", "typeof", "classof", "debugger", "loadScript", "requireScript", "eval", "yield", "blockGiven", "sleep"}
ReadOnly == {"__FILE__", "__DIR__", "__FUNC__"}
Provided == (Unredefinable \ {"yield"})
            \union {"autoload", "exit", "_exit", "atExit", "alias", "newThread", "joinThread", "random",
                    "loadPath", "stdin", "stdout", "stderr"}
GetGlobal(M, name) ==
    CASE name \in ReadOnly \union (Provided \ DOMAIN M.globals) -> Fail(M, "unmodelled")
      [] name \notin ReadOnly /\ name \in DOMAIN M.globals -> Push(M, M.globals[name])
      [] name \notin ReadOnly \union Provided \union DOMAIN M.globals /\ <<"", name>> \in DOMAIN M.consts ->
            Push(M, M.consts[<<"", name>>])
      [] OTHER -> ThrowNew(M, "NameError")
Globals ==
    Exec({"DEFINE_GLOBAL", "SET_GLOBAL", "UNPACK_DEFINE_GLOBAL", "GET_GLOBAL"}, LAMBDA M, in :
        LET name == in.args[1]
            free == name \notin Unredefinable IN
        CASE in.op = "DEFINE_GLOBAL" -> IF free THEN SetGlobal(Pop1(M), name, Peek(M, 0)) ELSE ThrowNew(Pop1(M), "NameError")
          [] in.op = "SET_GLOBAL" -> IF free THEN SetGlobal(M, name, Peek(M, 0)) ELSE ThrowNew(M, "NameError")
          [] in.op = "UNPACK_DEFINE_GLOBAL" -> SetGlobal(M, name, UnpackValue(Peek(M, 0), in.args[2]))
          [] in.op = "GET_GLOBAL" -> GetGlobal(M, name))

\* A constant under a class is its own; nothing is loaded for a name.
Under(M, v, name) ==
    CASE v = Nil -> Own(M, "", name) [] v[1] \in {"class", "module"} -> Own(M, v[2], name) [] OTHER -> NoMethod
Constant(M, val, error) == IF val = NoMethod THEN ThrowNew(M, error) ELSE Push(M, val)
ConstantOp ==
    Exec({"GET_CONST", "GET_CONST_UNDER", "SET_CONST"}, LAMBDA M, in :
        IF in.op = "SET_CONST" THEN AddConstantUnder(M, Cref(M), in.args[1], Peek(M, 0))
        ELSE Constant(IF in.op = "GET_CONST" THEN M ELSE Pop1(M),
                      IF in.op = "GET_CONST" THEN FindConstantUnder(M, Cref(M), in.args[1]) ELSE Under(M, Peek(M, 0), in.args[1]),
                      IF in.op = "GET_CONST" \/ Peek(M, 0)[1] \in {"nil", "class", "module"} THEN "NameError" ELSE "TypeError"))

\* Locals are read from the frame's table, and written to it and to the stack,
\* where the upvalues point.
SetLocalTable(M, slot, val) ==
    SetTop(M, LAMBDA f : [f EXCEPT !.locals = IF slot < Len(@) THEN [@ EXCEPT ![slot + 1] = val]
                                              ELSE @ \o [i \in 1..(slot - Len(@)) |-> Nil] \o <<val>>])
SetLocal(M, slot, val) == Write(SetLocalTable(M, slot, val), Frame(M).slots + slot, val)

\* Room for the variable is made first, so that it does not take the array's.
UnpackSetLocal(M, slot, i) ==
    LET gap == Frame(M).slots + slot - (M.top - 1)
        room == IF gap > 0 THEN gap ELSE 0
        s == PushAll(M, [j \in 1..room |-> Nil])
    IN  IF s.top <= room + i THEN Fail(s, "assert")
        ELSE SetLocal(s, slot, UnpackValue(Peek(s, room + i), i))

Locals ==
    Exec({"GET_LOCAL", "SET_LOCAL", "UNPACK_SET_LOCAL"}, LAMBDA M, in :
        LET slot == in.args[1] IN
        CASE in.op = "SET_LOCAL" -> SetLocal(M, slot, Peek(M, 0))
          [] in.op = "UNPACK_SET_LOCAL" -> UnpackSetLocal(M, slot, in.args[2])
          [] in.op = "GET_LOCAL" /\ slot < Len(Frame(M).locals) -> Push(M, Frame(M).locals[slot + 1])
          [] OTHER -> Push(M, Read(M, Frame(M).slots + slot)))

Upvalues ==
    Exec({"GET_UPVALUE", "SET_UPVALUE", "CLOSE_UPVALUE"}, LAMBDA M, in :
        LET c == Frame(M).ups[in.args[1] + 1]
            cell == M.cells[c]
        IN  \* the block of Block#yield has none: a NULL pointer
            CASE in.op # "CLOSE_UPVALUE" /\ in.args[1] >= Len(Frame(M).ups) -> Fail(M, "wild")
              [] in.op = "GET_UPVALUE" /\ in.args[1] < Len(Frame(M).ups) -> Push(M, IF cell.open THEN Read(M, cell.at) ELSE cell.val)
              [] in.op = "SET_UPVALUE" /\ in.args[1] < Len(Frame(M).ups) /\ cell.open -> Write(M, cell.at, Peek(M, 0))
              [] in.op = "SET_UPVALUE" /\ in.args[1] < Len(Frame(M).ups) /\ ~cell.open -> [M EXCEPT !.cells[c].val = Peek(M, 0)]
              [] OTHER -> Pop1(CloseUpvalues(M, M.top - 1)))

\* The words of the upvalues follow the instruction.
ClosureOp ==
    Exec({"CLOSURE"}, LAMBDA M, in :
        LET fn == in.args[1]
            s == CaptureAll(Push(M, Nil), fn, Frame(M))
        IN  Jump(PushSwap(s, Closure(fn, UpvaluesOf(s, fn, Frame(M)), FALSE)),
                 Frame(M).ip + 2 * Len(Funcs[fn].ups)))

\* An offset counts from the instruction, but a jump's from its operand.
JumpOp ==
    Exec(Jumps, LAMBDA M, in :
        LET s == IF in.op \in {"JUMP_IF_FALSE", "JUMP_IF_TRUE"} THEN Pop1(M) ELSE M
            truthy == IsTruthy(Peek(M, 0))
            taken == CASE in.op = "JUMP" -> TRUE
                       [] in.op \in {"JUMP_IF_TRUE", "JUMP_IF_TRUE_PEEK"} -> truthy
                       [] OTHER -> ~truthy
        IN  CASE taken /\ in.args[1] <= 0 -> Fail(M, "assert")
              [] taken /\ in.args[1] > 0 -> Jump(s, Frame(M).ip + in.args[1] - 1)
              [] OTHER -> s)

LoopOp == Exec({"LOOP"}, LAMBDA M, in : Jump(M, Frame(M).ip - (in.args[1] + 2)))

BreakOp ==
    Exec({"BREAK"}, LAMBDA M, in :
        IF in.args[1] <= 0 THEN Fail(M, "assert")
        ELSE Jump(PopN(M, in.args[2]), Frame(M).ip + in.args[1] - 3))

BlockExit ==
    Exec({"BLOCK_BREAK", "BLOCK_CONTINUE", "BLOCK_RETURN"}, LAMBDA M, in :
        ThrowError(IF in.op = "BLOCK_RETURN" THEN Pop1(M) ELSE M,
            CASE in.op = "BLOCK_BREAK" -> ErrVal("BlockBreakError", Nil)
              [] in.op = "BLOCK_CONTINUE" -> ErrVal("BlockContinueError", LastValue(M))
              [] in.op = "BLOCK_RETURN" -> ErrVal("BlockReturnError", Peek(M, 0))))

\* A frame that returns while any block is active ends that block.
Returned(M, result, after) == IF M.frames = <<>> THEN Fail(M, "done") ELSE AfterReturn(after, Push(M, result))
ReturnOp ==
    Exec({"RETURN"}, LAMBDA M, in :
        IF M.blocks > 0 THEN ThrowError(Pop1(M), ErrVal("BlockContinueError", Peek(M, 0)))
        ELSE Returned([PopFrame(Pop1(M)) EXCEPT !.top = Frame(M).slots], Peek(M, 0), Frame(M).after))

CallOp ==
    Exec({"CALL"}, LAMBDA M, in :
        LET argc == ArgCount(M, in.args[1]) IN
        IF M.top <= argc THEN Fail(M, "assert")
        ELSE CallValue([M EXCEPT !.splat = -1], Peek(M, argc), argc, in.args[2]))

InvokeOp ==
    Exec({"INVOKE"}, LAMBDA M, in :
        LET argc == ArgCount(M, in.args[2]) IN
        IF M.top <= argc THEN Fail(M, "assert")
        ELSE Invoke([M EXCEPT !.splat = -1], in.args[1], Peek(M, argc), argc, in.args[3]))

CheckKeyword ==
    Exec({"CHECK_KEYWORD"}, LAMBDA M, in :
        IF Peek(M, 0) # <<"map">> THEN Fail(M, "assert")
        ELSE Push(M, BoolVal(Read(M, Frame(M).slots + in.args[1]) # Undef)))

Arrays ==
    Exec({"ARRAY", "SPLAT_ARRAY", "INDEX_GET"}, LAMBDA M, in :
        LET n == in.args[1] IN
        CASE in.op = "ARRAY" ->
                Push(PopN(M, n), ArrayVal([i \in 1..n |-> Peek(M, i - 1)]))
          [] in.op = "SPLAT_ARRAY" /\ Peek(M, 0)[1] = "array" ->
                [PushAll(Pop1(M), Peek(M, 0)[2]) EXCEPT !.splat = Len(Peek(M, 0)[2])]
          [] in.op = "SPLAT_ARRAY" /\ Peek(M, 0)[1] # "array" -> ThrowNew(Pop1(M), "TypeError")
          [] OTHER -> CallOr(M, IF IsInstanceLike(M, Peek(M, 1)) THEN "NameError" ELSE "TypeError", Peek(M, 1),
                             FindMethod(M, Peek(M, 1), "opIndexGet")))

\* The iterator of an array takes its place on the stack.
Iteration ==
    Exec({"ITER", "ITER_NEXT"}, LAMBDA M, in :
        LET it == Peek(M, 0) IN
        CASE in.op = "ITER" /\ it[1] = "array" -> PushSwap(M, <<"iter", it[2], 0>>)
          [] in.op = "ITER" /\ it[1] # "array" -> ThrowNew(M, "TypeError")
          [] in.op = "ITER_NEXT" /\ it[1] # "iter" -> Fail(M, "assert")
          [] in.op = "ITER_NEXT" /\ it[1] = "iter" /\ it[3] = Len(it[2]) -> Push(M, Nil)
          [] OTHER -> Push(PushSwap(M, <<"iter", it[2], it[3] + 1>>), it[2][it[3] + 1]))

\* A string that is thrown becomes the message of an Error.
Thrown(v) == CASE v[1] = "error" -> v [] v[1] = "str" -> ErrVal("Error", v) [] OTHER -> ErrVal("TypeError", Nil)
Throwing ==
    Exec({"THROW", "GET_THROWN", "RETHROW_IF_ERR"}, LAMBDA M, in :
        LET row == M.rows[<<Frame(M).fn, in.args[1] + 1>>] IN
        CASE in.op = "THROW" -> ThrowError(Pop1(M), Thrown(Peek(M, 0)))
          [] in.op = "GET_THROWN" -> IF row.thrown[1] # "error" THEN Fail(M, "assert") ELSE Push(M, row.thrown)
          [] in.op = "RETHROW_IF_ERR" -> IF row.running /\ M.lastErr # Nil THEN ThrowError(M, M.lastErr) ELSE M)

\* Fields are the instance's; an error has its message.  A method that is only
\* named becomes a value with its receiver.
FieldOf(M, v, name) ==
    CASE <<v, name>> \in DOMAIN M.fields -> M.fields[<<v, name>>]
      [] v[1] = "error" /\ name = "message" -> v[3]
      [] OTHER -> NoMethod
PropGet(M, v, field, getter, method) ==
    CASE field # NoMethod -> PushSwap(M, field)
      [] field = NoMethod /\ getter # NoMethod -> Nested(M, "get", v, getter, <<>>)
      [] OTHER -> PushSwap(M, IF method = NoMethod THEN Nil ELSE <<"bound", v, method>>)
PropSet(M, v, name, setter, rval) ==
    CASE v[1] \notin {"obj", "class", "module"} -> Fail(M, "unmodelled")
      [] v[1] \in {"obj", "class", "module"} /\ setter # NoMethod -> Nested(M, "set", v, setter, <<rval>>)
      [] OTHER -> PushSwap([Pop1(M) EXCEPT !.fields = (<<v, name>> :> rval) @@ @], rval)
Property(M, op, name, v) ==
    CASE ~IsInstanceLike(M, v) -> ThrowNew(PopN(M, IF op = "PROP_GET" THEN 1 ELSE 2), "TypeError")
      [] IsInstanceLike(M, v) /\ op = "PROP_GET" ->
            PropGet(M, v, FieldOf(M, v, name), FindGetter(M, v, name), FindMethod(M, v, name))
      [] OTHER -> PropSet(M, v, name, FindSetter(M, v, name), Peek(M, 0))
Properties ==
    Exec({"PROP_GET", "PROP_SET"}, LAMBDA M, in :
        Property(M, in.op, in.args[1], Peek(M, IF in.op = "PROP_GET" THEN 0 ELSE 1)))

\* The body of a class or module runs with it as `this` and on the stack.
EnterBody(M, v) == [PushThis(M, v) EXCEPT !.frames[Len(M.frames)].instance = v]
LeaveBody(M) == LET s == PopThis(M) IN [s EXCEPT !.frames[Len(s.frames)].instance = s.this]
EnterClass(M, v) == PushCref(EnterBody(Push(M, v), v), v[2])
\* A class that exists is opened again, unless a superclass is given.
DefineError(op, kind, own, super) ==
    CASE op = "SUBCLASS" /\ super[1] # "class" -> "TypeError"
      [] own[1] \in {"class", "module"} /\ own[1] # kind -> "TypeError"
      [] op = "SUBCLASS" /\ super[1] = "class" /\ own[1] = "class" -> "NameError"
      [] OTHER -> ""
SuperOf(op, super) == CASE op = "CLASS" -> "Object" [] op = "SUBCLASS" -> super[2] [] op = "MODULE" -> ""
Define1(M, op, kind, name, own, super) ==
    CASE DefineError(op, kind, own, super) # "" -> ThrowNew(M, DefineError(op, kind, own, super))
      [] own[1] = kind /\ op # "SUBCLASS" -> EnterClass(M, own)
      [] OTHER -> EnterClass(NewClass(M, kind, name, SuperOf(op, super)), <<kind, PathOf(Cref(M), name)>>)
DefineClass(M, op, name, super) ==
    Define1(M, op, IF op = "MODULE" THEN "module" ELSE "class", name, Own(M, Cref(M), name), super)
ClassOp ==
    Exec({"CLASS", "MODULE", "SUBCLASS", "IN", "POP_CREF"}, LAMBDA M, in :
        LET v == Peek(M, 0) IN
        CASE in.op \in {"CLASS", "MODULE", "SUBCLASS"} ->
                DefineClass(IF in.op = "SUBCLASS" THEN Pop1(M) ELSE M, in.op, in.args[1], v)
          [] in.op = "POP_CREF" ->
                IF v[1] \notin {"class", "module"} \/ Cref(M) # v[2] THEN Fail(M, "assert")
                ELSE LeaveBody(Pop1(PopCref(M)))
          [] in.op = "IN" /\ v[1] \in {"class", "module"} -> EnterBody(M, v)
          [] in.op = "IN" /\ v[1] = "obj" ->
                LET class == <<"class", Meta(v)>> IN EnterBody(PushSwap(SingletonClass(M, v), class), class)
          [] OTHER -> ThrowNew(Pop1(M), "TypeError"))

\* A class is told of the methods it gets, which it may answer with a method of
\* its own.
Tables == [METHOD |-> "method", GETTER |-> "getter", SETTER |-> "setter"]
Defined(M, op, class, name, clo) ==
    IF op = "CLASS_METHOD" THEN DefineStatic(M, class, name, clo) ELSE Define(M, class, Tables[op], name, clo)
Added(M, op, class, name, answer) ==
    IF op = "METHOD" /\ class[1] = "class" /\ answer[1] = "closure"
    THEN Nested(M, "added", class, answer, <<StrVal(name)>>) ELSE Pop1(M)
MethodOp ==
    Exec({"METHOD", "CLASS_METHOD", "GETTER", "SETTER"}, LAMBDA M, in :
        LET class == Peek(M, 1)
            s == Defined(M, in.op, class, in.args[1], Peek(M, 0))
        IN  IF class[1] \notin {"class", "module"} THEN Fail(M, "assert")
            ELSE Added(s, in.op, class, in.args[1], FindStatic(s, class, "methodAdded")))

\* super: what the function's class has above it, for the receiver of the method
\* that runs.  A module is looked for among the superclasses until one is NULL.
Super(M, class, found) ==
    CASE M.this = Nil \/ class = Nil -> Fail(M, "assert")
      [] M.this # Nil /\ class[1] = "module" -> Fail(M, "wild")
      [] M.this # Nil /\ class[1] = "class" /\ found = NoMethod -> ThrowNew(M, "Error")
      [] OTHER -> Push(M, <<"bound", M.this, found>>)
ThisOp ==
    Exec({"GET_THIS", "GET_SUPER"}, LAMBDA M, in :
        LET fn == Frame(M).fn IN
        IF in.op = "GET_THIS" THEN Push(M, M.this)
        ELSE Super(M, M.klass[fn], FindAbove(M, M.this, M.klass[fn][2], IF Funcs[fn].ftype = "GETTER" THEN "getter" ELSE "method",
                                             in.args[1])))

\* The end of the top level.  When the ip is not at an instruction, whatever
\* stands there would be run.
Leave ==
    /\ Running /\ (OnInsn => Insn1.op = "LEAVE")
    /\ m' = IF OnInsn THEN Fail(Jump(m, Frame(m).ip + 1), "done") ELSE Fail(m, "wild")
    /\ UNCHANGED <<which, Funcs>>

-----------------------------------------------------------------------------
\* The thread before anything runs in it.
Idle == [mem |-> <<>>, top |-> 0, last |-> -1, splat |-> -1, cells |-> <<>>, errInfo |-> <<>>, blocks |-> 0,
         rows |-> <<>>, lastErr |-> Nil, globals |-> [n \in {"yield"} |-> <<"native", n>>], out |-> <<>>,
         frames |-> <<>>, status |-> "load", classes |-> BaseClasses, consts |-> BaseConsts, objects |-> <<>>,
         fields |-> NoTable, this |-> Nil, thisStack |-> <<>>, crefs |-> <<>>, klass |-> <<>>]

Init == which \in (DOMAIN Programs) \X BOOLEAN /\ Funcs = <<>> /\ m = Idle

\* loadScript: the program is compiled, and its top level becomes a frame.
Load ==
    /\ m.status = "load"
    /\ \E compiled \in {Compile(Programs[which[1]], which[2])} :
          LET chunks == [fn \in DOMAIN compiled.funcs |-> Chunk(compiled.funcs[fn])]
              refused == compiled.abort \/ compiled.hadError
          IN  /\ Funcs' = chunks
              /\ m' = [Idle EXCEPT
                    !.rows = [r \in CatchRows(chunks) |-> [thrown |-> Nil, running |-> FALSE]],
                    !.klass = [fn \in DOMAIN chunks |-> Nil],
                    !.frames = IF refused THEN <<>>
                               ELSE <<TopFrame(Len(chunks), Last(chunks).max)>>,
                    !.status = CASE compiled.abort -> "abort"
                                 [] ~compiled.abort /\ compiled.hadError -> "rejected"
                                 [] OTHER -> "run"]
    /\ UNCHANGED which

Step == \/ Constants \/ Arithmetic \/ Comparison \/ Equality \/ Unary \/ AndOr \/ Pops \/ PrintOp
        \/ Globals \/ Locals \/ Upvalues \/ ClosureOp \/ JumpOp \/ LoopOp \/ BreakOp \/ BlockExit
        \/ ReturnOp \/ CallOp \/ InvokeOp \/ CheckKeyword \/ Arrays \/ Iteration \/ Throwing \/ Leave
        \/ ConstantOp \/ Properties \/ ClassOp \/ MethodOp \/ ThisOp

Next == Load \/ Step
Spec == Init /\ [][Next]_vars
=============================================================================

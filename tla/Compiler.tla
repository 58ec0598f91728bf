------------------------------ MODULE Compiler ------------------------------
(* compiler.c: from a syntax tree to chunks.                                  *)
(*                                                                            *)
(* A node is a record [k, tok, kids, params, val] (kind, token, children,     *)
(* parameters of a function, value of a literal).  The C functions that emit  *)
(* code change the compiler of the current function and a dozen static        *)
(* variables; here they take that state, S, and return it changed.  S.comps   *)
(* is the chain of compilers, innermost last; S.funcs the functions finished. *)
EXTENDS Optimizer

CONSTANT MaxArgs        \* emitCall refuses more arguments than these (8)

NoNode == [k |-> "NONE", tok |-> "", kids |-> <<>>, params |-> <<>>, val |-> ""]

Cur(S) == Last(S.comps)
SetCur(S, c) == [S EXCEPT !.comps[Len(S.comps)] = c]
Iseq(S) == Cur(S).seq
SetIseq(S, seq) == [S EXCEPT !.comps[Len(S.comps)].seq = seq]
TailOf(S) == Tail1(Iseq(S))
Words(S) == WordCount(Iseq(S).insns)
LocalCount(S) == Len(Cur(S).locals)

\* The error is the current function's and the program's (top).
Error(S) == [S EXCEPT !.comps[Len(S.comps)].hadError = TRUE, !.hadError = TRUE]
Abort(S) == [S EXCEPT !.abort = TRUE]

Emit(S, op, args) ==
    LET seq == Iseq(S)
        in == [Insn(seq.nextId, op, args) EXCEPT !.label = S.labelNext]
    IN  [SetIseq(S, AddInsn(seq, in)) EXCEPT !.labelNext = FALSE]
EmitEach(S, ops) == FoldLeft(LAMBDA s, op : Emit(s, op, <<>>), S, ops)

-----------------------------------------------------------------------------
(* Scopes, locals and upvalues.                                               *)

PushScope(S) == [S EXCEPT !.comps[Len(S.comps)].depth = @ + 1]

Local(name, depth, pop) == [name |-> name, depth |-> depth, up |-> FALSE, pop |-> pop]

AddLocal(S, name, pop) ==
    LET c == Cur(S)
        locals == Append(c.locals, Local(name, c.depth, pop))
    IN  SetCur(S, [c EXCEPT !.locals = locals,
                            !.max = IF Len(locals) > @ THEN Len(locals) ELSE @])
AddFakeLocal(S, pop) == AddLocal(S, "_", pop)

\* The code that ends a function without an explicit return.
EmitReturn(S) ==
    LET c == Cur(S) IN
    CASE c.ftype = "INIT" -> EmitEach(S, <<"GET_THIS", "RETURN">>)
      [] c.ftype = "BLOCK" /\ S.breakBlock ->
            EmitEach(S, IF c.seq.insns = <<>> THEN <<"NIL", "BLOCK_CONTINUE">>
                        ELSE <<"BLOCK_CONTINUE">>)
      [] c.ftype = "BLOCK" ->
            EmitEach(S, IF c.seq.insns = <<>> THEN <<"NIL", "POP", "BLOCK_CONTINUE">>
                        ELSE <<"BLOCK_CONTINUE">>)
      [] OTHER -> EmitEach(S, <<"NIL", "RETURN">>)

\* The locals of the scope leave, the last one first.
PopLocals(S) ==
    LET c == Cur(S)
        stays == LET s == {i \in DOMAIN c.locals : c.locals[i].depth < c.depth}
                 IN  IF s = {} THEN 0 ELSE CHOOSE i \in s : \A j \in s : j <= i
        PopOne(s, l) ==
            IF l.up THEN Emit(s, "CLOSE_UPVALUE", <<>>)
            ELSE IF c.ftype # "BLOCK" /\ l.pop THEN Emit(s, "POP", <<>>) ELSE s
        popped == FoldLeft(PopOne, S, Reverse(SubSeq(c.locals, stays + 1, Len(c.locals))))
    IN  [popped EXCEPT !.comps[Len(S.comps)].locals = SubSeq(@, 1, stays)]

PopScope(S, isFunction) ==
    LET popped == PopLocals(S)
        s == IF isFunction THEN EmitReturn(popped) ELSE popped
    IN  [s EXCEPT !.comps[Len(S.comps)].depth = @ - 1]

\* Slots count from 0; -1 is "not found".  The newest local wins.
ResolveLocal(c, name) ==
    LET at == {i \in DOMAIN c.locals : c.locals[i].name = name}
    IN  IF at = {} THEN -1 ELSE (CHOOSE i \in at : \A j \in at : j <= i) - 1

AddUpvalue(S, level, index, isLocal) ==
    LET up == [index |-> index, isLocal |-> isLocal]
        at == SelectInSeq(S.comps[level].ups, LAMBDA u : u = up)
    IN  IF at # 0 THEN [s |-> S, at |-> at - 1]
        ELSE [s |-> [S EXCEPT !.comps[level].ups = Append(@, up)],
              at |-> Len(S.comps[level].ups)]

\* The variable of an enclosing function, handed down through all the
\* functions in between.
RECURSIVE ResolveUpvalue(_, _, _)
ResolveUpvalue(S, level, name) ==
    IF level = 1 THEN [s |-> S, at |-> -1]
    ELSE
    LET local == ResolveLocal(S.comps[level - 1], name)
        outer == ResolveUpvalue(S, level - 1, name)
    IN  CASE local # -1 ->
                AddUpvalue([S EXCEPT !.comps[level - 1].locals[local + 1].up = TRUE],
                           level, local, TRUE)
          [] local = -1 /\ outer.at # -1 -> AddUpvalue(outer.s, level, outer.at, FALSE)
          [] OTHER -> outer

\* Is the name already declared in the scope that is open?
DeclaredHere(c, name) ==
    \E i \in DOMAIN c.locals :
        /\ c.locals[i].name = name
        /\ \A j \in i..Len(c.locals) : c.locals[j].depth >= c.depth

\* A declared local gets the next slot; globals need no declaration.
DeclareVariable(S, name) ==
    CASE Cur(S).depth = 0 -> S
      [] Cur(S).depth # 0 /\ DeclaredHere(Cur(S), name) -> Error(S)
      [] OTHER -> AddLocal(S, name, TRUE)

\* getSet is "GET" or "SET".
NamedVariable(S, name, getSet) ==
    LET local == ResolveLocal(Cur(S), name)
        up == ResolveUpvalue(S, Len(S.comps), name)
    IN  CASE local # -1 -> Emit(S, getSet \o "_LOCAL", <<local, name>>)
          [] local = -1 /\ up.at # -1 -> Emit(up.s, getSet \o "_UPVALUE", <<up.at, name>>)
          [] OTHER -> Emit(S, getSet \o "_GLOBAL", <<name>>)

-----------------------------------------------------------------------------
(* Jumps.                                                                     *)

EmitJump(S, op) == Emit(S, op, <<0>>)
LabelInsn(seq, id) == Update(seq, id, LAMBDA j : [j EXCEPT !.label = TRUE])

\* The jump `id` reaches the instruction after jumpTo (0: after the tail).  A
\* jump is patched once: there are assertions.
PatchJump(S, id, jumpTo) ==
    LET seq == Iseq(S)
        target == IF jumpTo = 0 THEN Tail1(seq) ELSE jumpTo
        offset == InsnOffset(seq, id, target) + Len(InsnOf(seq, target).args)
    IN  CASE InsnOf(seq, id).args[1] # 0 -> Abort(S)
          [] InsnOf(seq, id).args[1] = 0 /\ NextOf(seq, target) = 0 ->
                [SetIseq(S, Update(seq, id, LAMBDA j : [j EXCEPT !.args[1] = offset, !.toPrev = target]))
                  EXCEPT !.labelNext = TRUE]
          [] OTHER -> SetIseq(S, LabelInsn(Update(seq, id, LAMBDA j : [j EXCEPT !.args[1] = offset, !.to = target]),
                                           target))
PatchJumps1(S, ids) == FoldLeft(LAMBDA s, id : PatchJump(s, id, TailOf(s)), S, ids)

\* `and` and `or`: past the tail, which is taken for the target all the same.
PatchSkip(S, id) ==
    LET seq == Iseq(S)
        offset == InsnOffset(seq, id, Tail1(seq))
    IN  SetIseq(S, LabelInsn(Update(seq, id, LAMBDA j : [j EXCEPT !.args[1] = offset, !.to = Tail1(seq)]),
                            Tail1(seq)))

EmitLoop(S, loopStart) ==
    LET s == Emit(S, "LOOP", <<Words(S) - loopStart + 2>>)
        to == InsnAtOffset(Iseq(s), loopStart - 2)
    IN  IF to = 0 THEN Abort(s)
        ELSE SetIseq(s, LabelInsn(Update(Iseq(s), TailOf(s), LAMBDA j : [j EXCEPT !.to = to]), to))

EmitBreakKeeping(S) == Emit(S, "BREAK", <<0, 0>>)
EmitBreak(S) == Emit(S, "BREAK", <<0, LocalCount(S) - S.loopLocals>>)

\* The breaks between the instruction `start` and the tail go to the tail, or
\* past it.
PatchBreaks(S, start, past) ==
    LET seq == Iseq(S)
        end == Tail1(seq)
        breaks == {i \in InsnIndex(seq, start)..(Len(seq.insns) - 1) :
                      seq.insns[i].op = "BREAK" /\ seq.insns[i].args[1] = 0}
        Offset(i) == InsnOffset(seq, seq.insns[i].id, end)
                         + (IF past THEN Width(InsnOf(seq, end)) ELSE 0)
        patched == [seq EXCEPT !.insns =
                       [i \in DOMAIN @ |-> IF i \in breaks THEN [@[i] EXCEPT !.args[1] = Offset(i)] ELSE @[i]]]
    IN  IF breaks = {} THEN S
        ELSE IF past THEN [SetIseq(S, patched) EXCEPT !.labelNext = TRUE]
        ELSE SetIseq(S, LabelInsn(patched, end))

\* A continue in a foreach block jumps to the pops of the block's locals, which
\* have to be the last instructions.
PatchContinues(S, from, to) ==
    LET seq == Iseq(S)
        first == InsnIndex(seq, from)
        ids == [i \in 1..(InsnIndex(seq, to) - first) |-> seq.insns[first + i - 1].id]
        PatchOne(s, id) ==
            LET in == InsnOf(Iseq(s), id)
                target == Iseq(s).insns[Len(Iseq(s).insns) - in.extra]
            IN  CASE ~in.continue -> s
                  [] in.extra > 0 /\ target.op \notin PopTypes -> Abort(s)
                  [] OTHER -> PatchJump(s, id, target.id)
    IN  FoldLeft(PatchOne, S, ids)

-----------------------------------------------------------------------------
(* Functions.                                                                 *)

NewCompiler(ftype, name, depth) ==
    [ftype |-> ftype, name |-> name, depth |-> depth, seq |-> EmptyIseq, hadError |-> FALSE,
     locals |-> IF ftype = "TOP_LEVEL" THEN <<>> ELSE <<Local("", depth, TRUE)>>,
     max |-> IF ftype = "TOP_LEVEL" THEN 0 ELSE 1,
     ups |-> <<>>, arity |-> 0, defaults |-> <<>>, rest |-> FALSE, kwargs |-> <<>>, blockArg |-> FALSE,
     params |-> <<>>]

\* The words of a chunk: what stands at each offset where an instruction begins.
CopyIseqToChunk(seq) ==
    [o \in {WordOffset(seq, i) : i \in DOMAIN seq.insns} |->
        LET in == InsnOf(seq, InsnAtOffset(seq, o)) IN [op |-> in.op, args |-> in.args]]

EndCompiler(S) ==
    LET s == IF Cur(S).ftype = "TOP_LEVEL" THEN Emit(S, "LEAVE", <<>>) ELSE S
        c == Cur(s)
        seq == IF s.optimize THEN OptimizeIseq(c.seq, FALSE) ELSE c.seq
        func == [code |-> CopyIseqToChunk(seq), catch |-> c.seq.catch, ftype |-> c.ftype,
                 name |-> c.name, ups |-> c.ups, max |-> c.max, arity |-> c.arity,
                 defaults |-> c.defaults, rest |-> c.rest, kwargs |-> c.kwargs,
                 blockArg |-> c.blockArg, params |-> c.params, seq |-> c.seq.insns]
    IN  [s EXCEPT !.comps = Front(@), !.funcs = Append(@, func), !.abort = @ \/ seq.abort]

\* What an upvalue's description looks like to the optimizer: a word of the
\* instruction stream like any other.
WordOp(w) == CASE w = 0 -> "CONSTANT" [] w = 1 -> "ADD" [] w = 2 -> "SUBTRACT" [] OTHER -> "WORD"
EmitWord(S, w) == Emit(S, WordOp(w), <<>>)
EmitUpvalueWords(S, ups) ==
    FoldLeft(LAMBDA s, u : EmitWord(EmitWord(s, IF u.isLocal THEN 1 ELSE 0), u.index), S, ups)

RECURSIVE EmitNode(_, _)
EmitChildren(n, S) == FoldLeft(LAMBDA s, kid : EmitNode(kid, s), S, n.kids)

\* A default is computed unless the argument was given; the machine then skips
\* as many words as it takes.
EmitDefaultArg(p, S) ==
    LET declared == DeclareVariable(S, p.tok)
        slot == LocalCount(declared) - 1
        s == Emit(Emit(EmitNode(p.kids[1], declared), "SET_LOCAL", <<slot, p.tok>>), "POP", <<>>)
        words == InsnWordDiff(Iseq(s), TailOf(S), TailOf(s))
    IN  [s EXCEPT !.comps[Len(s.comps)].defaults = Append(@, words)]

\* A keyword that the call's map does not hold is computed in place.
EmitKeywordArg(p, numParams, S) ==
    LET declared == DeclareVariable(S, p.tok)
        slot == LocalCount(declared) - 1
        checked == EmitJump(Emit(declared, "CHECK_KEYWORD", <<slot, numParams + 1>>), "JUMP_IF_TRUE")
        s == Emit(Emit(EmitChildren(p, checked), "SET_LOCAL", <<slot, p.tok>>), "POP", <<>>)
    IN  PatchJump([s EXCEPT !.comps[Len(s.comps)].kwargs = Append(@, [name |-> p.tok, slot |-> slot])],
                  TailOf(checked), 0)

EmitParam(p, numParams, S) ==
    LET here == Len(S.comps) IN
    CASE p.kind = "REGULAR" -> S
      [] p.kind = "DEFAULT" -> EmitDefaultArg(p, S)
      [] p.kind = "SPLAT" -> [DeclareVariable(S, p.tok) EXCEPT !.comps[here].rest = TRUE]
      [] p.kind = "KWARG" -> EmitKeywordArg(p, numParams, S)
      [] p.kind = "BLOCK" -> [DeclareVariable(S, p.tok) EXCEPT !.comps[here].blockArg = TRUE]

\* The regular parameters take the first slots, whatever their places.
EmitParams(params, S) ==
    LET here == Len(S.comps)
        regular == SelectSeq(params, LAMBDA p : p.kind = "REGULAR")
        s == FoldLeft(LAMBDA t, p : [DeclareVariable(t, p.tok) EXCEPT !.comps[here].arity = @ + 1],
                      S, regular)
        all == FoldLeft(LAMBDA t, p : EmitParam(p, Len(params), t), [s EXCEPT !.comps[here].params = [i \in DOMAIN params |-> params[i].kind]],
                        params)
    IN  IF \E i \in DOMAIN params : params[i].kind = "KWARG" THEN AddFakeLocal(all, TRUE) ELSE all

\* Body and end of a function; its compiler is gone when this is done.
EmitBody(n, ftype, S) ==
    LET outer == Cur(S)
        begun == PushScope([S EXCEPT !.comps = Append(@, NewCompiler(ftype, n.tok, outer.depth))])
        params == EmitParams(n.params, begun)
        body == EmitChildren(n, [params EXCEPT !.loopType = "BLOCK",
                                               !.breakBlock = @ \/ ftype = "BLOCK"])
    IN  EndCompiler(PopScope([body EXCEPT !.loopType = S.loopType,
                                          !.breakBlock = IF ftype = "BLOCK" THEN S.breakBlock ELSE @],
                             TRUE))

MethodOps == [METHOD |-> "METHOD", INIT |-> "METHOD", CLASS_METHOD |-> "CLASS_METHOD",
              GETTER |-> "GETTER", SETTER |-> "SETTER"]

EmitFunction(n, ftype, S) ==
    LET s == EmitBody(n, ftype, S)
        func == Last(s.funcs)
        closure == EmitUpvalueWords(Emit(s, "CLOSURE", <<Len(s.funcs)>>), func.ups)
    IN  CASE ftype = "BLOCK" -> s
          [] ftype = "ANON" -> closure
          [] ftype = "NAMED" -> Emit(NamedVariable(closure, n.tok, "SET"), "POP", <<>>)
          [] ftype \in DOMAIN MethodOps -> Emit(closure, MethodOps[ftype], <<n.tok>>)

EmitMethod(n, S) ==
    LET ftype == CASE n.k = "METHOD_STMT" /\ n.tok = "init" -> "INIT"
                   [] n.k = "METHOD_STMT" /\ n.tok # "init" -> "METHOD"
                   [] n.k = "CLASS_METHOD_STMT" -> "CLASS_METHOD"
                   [] n.k = "GETTER_STMT" -> "GETTER"
                   [] n.k = "SETTER_STMT" -> "SETTER"
    IN  IF S.classes = 0 /\ ~S.inIn THEN Error(S) ELSE EmitFunction(n, ftype, S)

\* argc counts the callee and the regular arguments.
CallInfo(n) ==
    LET Count(kind) == Len(SelectSeq(Tail(n.kids), LAMBDA a : a.k = kind))
        kws == SelectSeq(n.kids, LAMBDA a : a.k = "KWARG_IN_CALL_STMT")
    IN  [argc |-> Len(n.kids) - Count("KWARG_IN_CALL_STMT") - Count("SPLAT_EXPR"),
         kwargs |-> [i \in DOMAIN kws |-> kws[i].tok],
         splat |-> Count("SPLAT_EXPR") > 0, block |-> 0]

EmitCall(n, S) ==
    LET nArgs == Len(n.kids) - 1
        callee == Head(n.kids)
        isMethod == callee.k = "PROP_ACCESS_EXPR"
        s == FoldLeft(LAMBDA t, a : EmitNode(a, t),
                      IF isMethod THEN EmitChildren(callee, S) ELSE EmitNode(callee, S),
                      Tail(n.kids))
    IN  CASE nArgs > MaxArgs -> Error(S)
          [] nArgs <= MaxArgs /\ isMethod -> Emit(s, "INVOKE", <<callee.tok, nArgs, CallInfo(n)>>)
          [] OTHER -> Emit(s, "CALL", <<nArgs, CallInfo(n)>>)

\* The block is compiled after the call instruction, whose call info then gets
\* it; when the call was refused there is none, a NULL pointer.
EmitCallBlock(n, S) ==
    LET called == EmitCall(n.kids[1], S)
        s == EmitFunction(n.kids[2], "BLOCK", called)
        SetBlock(in) == [in EXCEPT !.args[Len(in.args)].block = Len(s.funcs)]
    IN  IF Len(n.kids[1].kids) - 1 > MaxArgs THEN Abort(s)
        ELSE SetIseq(s, Update(Iseq(s), TailOf(called), SetBlock))

EmitClass(n, S) ==
    LET scope == PushScope([S EXCEPT !.classes = @ + 1])
        made == IF n.val = "" THEN Emit(scope, "CLASS", <<n.tok>>)
                ELSE Emit(NamedVariable(scope, n.val, "GET"), "SUBCLASS", <<n.tok>>)
        body == PopScope(EmitChildren(n, AddFakeLocal(made, FALSE)), FALSE)
    IN  [Emit(body, "POP_CREF", <<>>) EXCEPT !.classes = S.classes]

EmitModule(n, S) ==
    LET scope == PushScope(Emit([S EXCEPT !.classes = @ + 1], "MODULE", <<n.tok>>))
    IN  [Emit(PopScope(EmitChildren(n, scope), FALSE), "POP_CREF", <<>>) EXCEPT !.classes = S.classes]

EmitIn(n, S) ==
    LET scope == PushScope([Emit(EmitNode(n.kids[1], S), "IN", <<>>) EXCEPT !.inIn = TRUE])
    IN  [Emit(PopScope(EmitNode(n.kids[2], scope), FALSE), "POP", <<>>) EXCEPT !.inIn = S.inIn]

-----------------------------------------------------------------------------
(* Statements and expressions.                                                *)

BinaryOps == [x \in {"+", "-", "*", "/", "%", "<", "<=", ">", ">=", "==", "!="} |->
    CASE x = "+" -> "ADD" [] x = "-" -> "SUBTRACT" [] x = "*" -> "MULTIPLY" [] x = "/" -> "DIVIDE"
      [] x = "%" -> "MODULO" [] x = "<" -> "LESS" [] x = "<=" -> "LESS_EQUAL" [] x = ">" -> "GREATER"
      [] x = ">=" -> "GREATER_EQUAL" [] x = "==" -> "EQUAL" [] x = "!=" -> "NOT_EQUAL"]
EmitBinaryOp(tok, S) == Emit(S, BinaryOps[tok], <<>>)

EmitBinary(n, S) ==
    LET s == EmitBinaryOp(n.tok, EmitChildren(n, S)) IN
    IF n.k = "BINARY_ASSIGN_EXPR" THEN NamedVariable(s, n.kids[1].tok, "SET") ELSE s

EmitLogical(n, S) ==
    LET op == IF n.tok = "and" THEN "AND" ELSE "OR"
        skip == EmitJump(EmitNode(n.kids[1], S),
                         IF n.tok = "and" THEN "JUMP_IF_FALSE_PEEK" ELSE "JUMP_IF_TRUE_PEEK")
    IN  PatchSkip(Emit(EmitNode(n.kids[2], skip), op, <<>>), TailOf(skip))

EmitUnary(n, S) == Emit(EmitNode(n.kids[1], S), IF n.tok = "-" THEN "NEGATE" ELSE "NOT", <<>>)

EmitLiteral(n, S) ==
    CASE n.tok = "NUMBER" ->
            LET s == Emit(S, "CONSTANT", <<n.val>>)
            IN  SetIseq(s, Update(Iseq(s), TailOf(s), LAMBDA in : [in EXCEPT !.number = TRUE]))
      [] n.tok = "STRING" -> Emit(S, "STRING", <<n.val, 0>>)
      [] n.tok \in {"TRUE", "FALSE", "NIL"} -> Emit(S, n.tok, <<>>)

\* An array of numbers is a constant that is copied; any other is built from
\* its elements, pushed in reverse.
EmitArray(n, S) ==
    IF \A i \in DOMAIN n.kids : n.kids[i].k = "LITERAL_EXPR" /\ n.kids[i].tok = "NUMBER"
      THEN Emit(S, "DUPARRAY", <<[i \in DOMAIN n.kids |-> n.kids[i].val]>>)
      ELSE Emit(EmitChildren([n EXCEPT !.kids = Reverse(@)], S), "ARRAY", <<Len(n.kids)>>)

EmitIf(n, S) ==
    LET test == EmitJump(EmitNode(n.kids[1], S), "JUMP_IF_FALSE")
        then == EmitNode(n.kids[2], PushScope(test))
        else == EmitJump(then, "JUMP")
        both == PatchJump(EmitNode(n.kids[3], PatchJump(else, TailOf(test), 0)), TailOf(else), 0)
    IN  PopScope(IF Len(n.kids) = 2 THEN PatchJump(then, TailOf(test), 0) ELSE both, FALSE)

\* The statics that a loop saves, sets for its block, and puts back.
InLoop(S, type, start) ==
    [S EXCEPT !.loopType = type, !.loopStart = start, !.loopLocals = LocalCount(S)]
AfterLoop(S, old) ==
    [S EXCEPT !.loopType = old.loopType, !.loopStart = old.loopStart, !.loopLocals = old.loopLocals,
              !.breakBlock = old.breakBlock]

EmitWhile(n, S) ==
    LET start == Words(S) + 2
        cond == EmitJump(EmitNode(n.kids[1], [S EXCEPT !.loopStart = start, !.breakBlock = FALSE]),
                         "JUMP_IF_FALSE")
        jump == TailOf(cond)
        test == SetIseq(cond, LabelInsn(Iseq(cond), jump))
        body == EmitNode(n.kids[2], InLoop(PushScope(test), "WHILE", start))
        loop == PatchJump(EmitLoop(body, start), jump, 0)
    IN  PopScope(AfterLoop(PatchBreaks(loop, jump, TRUE), S), FALSE)

\* The increment is part of the code before the jump back: a continue, which
\* jumps to the test, does not run it.
EmitFor(n, S) ==
    LET init == EmitNode(n.kids[1], PushScope(S))
        start == Words(init) + 2
        test == IF n.kids[2] = NoNode THEN Emit(init, "TRUE", <<>>)
                ELSE EmitNode(n.kids[2], [init EXCEPT !.loopStart = start])
        cond == EmitJump(test, "JUMP_IF_FALSE")
        jump == TailOf(cond)
        body == EmitNode(n.kids[4], InLoop(cond, "FOR", start))
        incr == EmitNode(n.kids[3], [body EXCEPT !.loopType = S.loopType, !.loopLocals = S.loopLocals])
        loop == PatchJump(EmitLoop(incr, start), jump, 0)
    IN  PopScope(AfterLoop(PatchBreaks(loop, jump, TRUE), S), FALSE)

ForeachVars(n) == SubSeq(n.kids, 1, Len(n.kids) - 2)

SetForeachVars(n, slots, S) ==
    LET names == ForeachVars(n)
        Set(s, i) == IF Len(names) = 1 THEN Emit(s, "SET_LOCAL", <<slots[i], names[i].tok>>)
                     ELSE Emit(s, "UNPACK_SET_LOCAL", <<slots[i], i - 1, names[i].tok>>)
    IN  FoldLeft(Set, S, [i \in DOMAIN names |-> i])

EmitForeach(n, S) ==
    LET names == ForeachVars(n)
        many == Len(names) > 1
        scope == AddFakeLocal(PushScope(S), TRUE)
        decl == FoldLeft(LAMBDA s, v : DeclareVariable(s, v.tok),
                         IF many THEN AddFakeLocal(scope, TRUE) ELSE scope, names)
        slots == [i \in DOMAIN names |-> LocalCount(decl) - Len(names) + i - 1]
        iter == Emit(EmitNode(n.kids[Len(n.kids) - 1], decl), "ITER", <<>>)
        start == Words(iter) + 2
        next == EmitJump(Emit(iter, "ITER_NEXT", <<>>), "JUMP_IF_FALSE_PEEK")
        vars == SetForeachVars(n, slots, next)
        body == [EmitNode(Last(n.kids), InLoop(vars, "FOREACH", vars.loopStart))
                    EXCEPT !.loopType = S.loopType, !.loopLocals = S.loopLocals]
        continues == PatchContinues(body, TailOf(vars), TailOf(body))
        popped == EmitEach(continues, [i \in 1..(IF many THEN Len(names) + 1 ELSE 1) |-> "POP"])
        loop == PopScope(EmitLoop(popped, start), FALSE)
        done == Emit(PatchJump(loop, TailOf(next), 0), "POP", <<>>)
    IN  Emit(PatchBreaks(done, TailOf(vars), FALSE), "POP", <<>>)

EmitBreakStmt(S) ==
    CASE S.loopType = "NONE" -> Error(S)
      [] S.loopType = "BLOCK" -> Emit(S, "BLOCK_BREAK", <<>>)
      [] OTHER -> EmitBreak(S)

\* The count of words in the chunk that is asked for NIL is always 0: the words
\* are still in the sequence.
EmitContinue(S) ==
    CASE S.loopType = "NONE" -> Error(S)
      [] S.loopType = "BLOCK" -> EmitEach(S, <<"NIL", "POP", "BLOCK_CONTINUE">>)
      [] S.loopType = "FOREACH" ->
            LET s == EmitJump(S, "JUMP")
            IN  SetIseq(s, Update(Iseq(s), TailOf(s),
                            LAMBDA in : [in EXCEPT !.continue = TRUE,
                                                   !.extra = LocalCount(s) - s.loopLocals]))
      [] OTHER -> EmitLoop(S, S.loopStart)

\* var a; var a = e; var a, b = e (e is unpacked).  The expression comes before
\* the declaration.
EmitVar(n, S) ==
    LET uninitialized == n.kids = <<>> \/ Last(n.kids).k = "VAR_STMT"
        names == <<n.tok>> \o [i \in 1..(IF uninitialized THEN 0 ELSE Len(n.kids) - 1) |-> n.kids[i].tok]
        value == IF uninitialized THEN Emit(S, "NIL", <<>>) ELSE EmitNode(Last(n.kids), S)
        space == IF Len(names) > 1 /\ Cur(S).depth > 0 THEN AddFakeLocal(value, TRUE) ELSE value
        Define(s, i) ==
            LET d == DeclareVariable(s, names[i])
                slot == LocalCount(d) - 1
            IN  CASE s.hadError \/ d.hadError -> d
                  [] ~d.hadError /\ Cur(S).depth = 0 /\ Len(names) = 1 -> Emit(d, "DEFINE_GLOBAL", <<names[i]>>)
                  [] ~d.hadError /\ Cur(S).depth = 0 /\ Len(names) > 1 ->
                        Emit(d, "UNPACK_DEFINE_GLOBAL", <<names[i], i - 1>>)
                  [] ~d.hadError /\ Cur(S).depth > 0 /\ Len(names) = 1 -> Emit(d, "SET_LOCAL", <<slot, names[i]>>)
                  [] OTHER -> Emit(d, "UNPACK_SET_LOCAL", <<slot, i - 1, names[i]>>)
    IN  FoldLeft(Define, space, [i \in DOMAIN names |-> i])

EmitAssign(n, S) ==
    LET s == EmitNode(n.kids[2], S) IN
    IF n.kids[1].k = "CONSTANT_EXPR" THEN Emit(s, "SET_CONST", <<n.kids[1].tok>>)
    ELSE NamedVariable(s, n.kids[1].tok, "SET")

EmitPropSetBinop(n, S) ==
    LET access == n.kids[1]
        s == EmitNode(n.kids[2], EmitNode(access, EmitNode(access.kids[1], S)))
    IN  Emit(EmitBinaryOp(n.tok, s), "PROP_SET", <<access.tok>>)

\* breakBlock is the enclosing block's also in a function declared inside it,
\* where the assertion then fails.
EmitReturnStmt(n, S) ==
    LET c == Cur(S)
        value == IF c.ftype = "INIT" THEN Emit(S, "GET_THIS", <<>>) ELSE EmitChildren(n, S)
    IN  CASE n.kids # <<>> /\ S.breakBlock /\ c.ftype # "BLOCK" -> Abort(S)
          [] n.kids # <<>> /\ S.breakBlock /\ c.ftype = "BLOCK" -> Emit(value, "BLOCK_RETURN", <<>>)
          [] n.kids # <<>> /\ ~S.breakBlock -> Emit(value, "RETURN", <<>>)
          [] n.kids = <<>> /\ S.breakBlock -> EmitEach(S, <<"NIL", "BLOCK_RETURN">>)
          [] n.kids = <<>> /\ ~S.breakBlock /\ c.ftype = "BLOCK" -> Emit(S, "BLOCK_CONTINUE", <<>>)
          [] OTHER -> EmitReturn(S)

-----------------------------------------------------------------------------
(* try { } catch (Class e) { } else { } ensure { }: kids[1] is the block, the *)
(* rest CATCH_STMT, TRY_ELSE_STMT and ENSURE_STMT nodes.  T carries the state *)
(* S, the jumps to the end, the jump over the catches, and the row's range.   *)

RowCount(S) == Len(Iseq(S).catch)
AddTryRow(S, row) == SetIseq(S, AddRow(Iseq(S), row))

\* The class's name with what it is under.  A name of three parts gets the
\* pairs of them one after the other, which name nothing.
RECURSIVE CatchName(_, _)
Qualified(name, prefix, suffix) ==
    IF name = <<>> THEN <<prefix, suffix>> ELSE Front(name) \o <<Last(name) \o prefix, suffix>>
CatchName(c, name) ==
    CASE c.kids = <<>> /\ name = <<>> -> <<c.tok>>
      [] c.kids = <<>> /\ name # <<>> -> name
      [] OTHER -> CatchName(c.kids[1], Qualified(name, c.kids[1].tok, c.tok))

EmitCatch(n, i, T) ==
    LET catch == n.kids[i]
        row == RowCount(T.s)
        scope == PushScope(AddTryRow(T.s, CatchRow(T.from, T.to, Words(T.s), CatchName(catch.kids[1], <<>>))))
        bound == IF catch.val = "" THEN scope
                 ELSE NamedVariable(DeclareVariable(Emit(scope, "GET_THROWN", <<row>>), catch.val),
                                    catch.val, "SET")
        body == EmitNode(catch.kids[2], bound)
        jumps == i < Len(n.kids) /\ n.kids[i + 1].k # "ENSURE_STMT"
        s == IF jumps THEN EmitJump(body, "JUMP") ELSE body
    IN  [T EXCEPT !.s = PopScope(s, FALSE), !.jumps = IF jumps THEN Append(@, TailOf(s)) ELSE @]

EmitTryElse(n, i, T) ==
    LET s == PushScope(PatchJump(T.s, Head(T.jumps), TailOf(T.s)))
    IN  [T EXCEPT !.s = PopScope(EmitNode(n.kids[i].kids[1], s), FALSE), !.jumps = Tail(@)]

EmitEnsure(n, i, T) ==
    LET target == Words(T.s)
        row == RowCount(T.s)
        scope == PushScope(AddTryRow(PatchJumps1(T.s, T.jumps), EnsureRow(T.from, T.to, target)))
        body == Emit(EmitNode(n.kids[i].kids[1], scope), "RETHROW_IF_ERR", <<row>>)
    IN  [T EXCEPT !.s = PopScope(body, FALSE), !.jumps = <<>>]

EmitTry(n, S) ==
    LET block == EmitNode(n.kids[1], S)
        onlyEnsure == Len(n.kids) = 2 /\ n.kids[2].k = "ENSURE_STMT"
        s == IF onlyEnsure THEN block ELSE EmitJump(block, "JUMP")
        Handler(T, i) == CASE n.kids[i].k = "CATCH_STMT" -> EmitCatch(n, i, T)
                           [] n.kids[i].k = "TRY_ELSE_STMT" -> EmitTryElse(n, i, T)
                           [] n.kids[i].k = "ENSURE_STMT" -> EmitEnsure(n, i, T)
        T0 == [s |-> s, jumps |-> IF onlyEnsure THEN <<>> ELSE <<TailOf(s)>>,
               from |-> Words(S), to |-> Words(s)]
        done == FoldLeft(Handler, T0, [i \in 1..(Len(n.kids) - 1) |-> i + 1])
    IN  PatchJumps1(done.s, done.jumps)

EmitNode(n, S) ==
    IF Cur(S).hadError \/ S.abort THEN S ELSE
    CASE n.k \in {"STMTLIST_STMT", "GROUPING_EXPR", "KWARG_IN_CALL_STMT"} -> EmitChildren(n, S)
      [] n.k = "NONE" -> S
      [] n.k = "EXPR_STMT" -> Emit(EmitChildren(n, S), "POP", <<>>)
      [] n.k \in {"BINARY_EXPR", "BINARY_ASSIGN_EXPR"} -> EmitBinary(n, S)
      [] n.k = "LOGICAL_EXPR" -> EmitLogical(n, S)
      [] n.k = "UNARY_EXPR" -> EmitUnary(n, S)
      [] n.k = "LITERAL_EXPR" -> EmitLiteral(n, S)
      [] n.k = "ARRAY_EXPR" -> EmitArray(n, S)
      [] n.k = "IF_STMT" -> EmitIf(n, S)
      [] n.k = "WHILE_STMT" -> EmitWhile(n, S)
      [] n.k = "FOR_STMT" -> EmitFor(n, S)
      [] n.k = "FOREACH_STMT" -> EmitForeach(n, S)
      [] n.k = "BREAK_STMT" -> EmitBreakStmt(S)
      [] n.k = "CONTINUE_STMT" -> EmitContinue(S)
      [] n.k = "PRINT_STMT" -> Emit(EmitChildren(n, S), "PRINT", <<>>)
      [] n.k = "VAR_STMT" -> EmitVar(n, S)
      [] n.k = "VARIABLE_EXPR" -> NamedVariable(S, n.tok, "GET")
      [] n.k = "CONSTANT_EXPR" -> Emit(S, "GET_CONST", <<n.tok>>)
      [] n.k = "CONSTANT_LOOKUP_EXPR" ->
            Emit(IF n.kids = <<>> THEN Emit(S, "NIL", <<>>) ELSE EmitChildren(n, S),
                 "GET_CONST_UNDER", <<n.tok>>)
      [] n.k = "ASSIGN_EXPR" -> EmitAssign(n, S)
      [] n.k = "BLOCK_STMT" -> PopScope(EmitChildren(n, PushScope(S)), FALSE)
      [] n.k = "FUNCTION_STMT" -> EmitFunction(n, "NAMED", S)
      [] n.k \in {"METHOD_STMT", "CLASS_METHOD_STMT", "GETTER_STMT", "SETTER_STMT"} -> EmitMethod(n, S)
      [] n.k = "ANON_FN_EXPR" -> EmitFunction(n, "ANON", S)
      [] n.k = "CLASS_STMT" -> EmitClass(n, S)
      [] n.k = "MODULE_STMT" -> EmitModule(n, S)
      [] n.k = "IN_STMT" -> EmitIn(n, S)
      [] n.k = "PROP_ACCESS_EXPR" -> Emit(EmitChildren(n, S), "PROP_GET", <<n.tok>>)
      [] n.k = "PROP_SET_EXPR" -> Emit(EmitChildren(n, S), "PROP_SET", <<n.tok>>)
      [] n.k = "PROP_SET_BINOP_EXPR" -> EmitPropSetBinop(n, S)
      [] n.k = "RETURN_STMT" -> EmitReturnStmt(n, S)
      [] n.k = "THIS_EXPR" -> Emit(S, "GET_THIS", <<>>)
      [] n.k = "SUPER_EXPR" -> Emit(S, "GET_SUPER", <<n.tok>>)
      [] n.k = "CALL_EXPR" -> EmitCall(n, S)
      [] n.k = "CALL_BLOCK_EXPR" -> EmitCallBlock(n, S)
      [] n.k = "TO_BLOCK_EXPR" -> Emit(EmitChildren(n, S), "TO_BLOCK", <<>>)
      [] n.k = "SPLAT_EXPR" -> Emit(EmitChildren(n, S), "SPLAT_ARRAY", <<>>)
      [] n.k = "TRY_STMT" -> EmitTry(n, S)
      [] n.k = "THROW_STMT" -> Emit(EmitChildren(n, S), "THROW", <<>>)
      [] n.k = "INDEX_GET_EXPR" -> Emit(EmitChildren(n, S), "INDEX_GET", <<>>)
      [] n.k = "INDEX_SET_EXPR" -> Emit(EmitChildren(n, S), "INDEX_SET", <<>>)

InitialState(optimize) ==
    [comps |-> <<NewCompiler("TOP_LEVEL", "", 0)>>, funcs |-> <<>>, classes |-> 0, inIn |-> FALSE,
     loopStart |-> -1, loopType |-> "NONE", loopLocals |-> 0, breakBlock |-> FALSE,
     labelNext |-> FALSE, hadError |-> FALSE, abort |-> FALSE, optimize |-> optimize]

\* The functions of the program, the top level last; whether there was an error
\* to report, and whether the compiler itself failed.
CompileNode(program, optimize) ==
    LET s == EndCompiler(EmitNode(program, InitialState(optimize)))
    IN  [funcs |-> s.funcs, hadError |-> s.hadError, abort |-> s.abort]
=============================================================================

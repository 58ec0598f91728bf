----------------------------- MODULE Semantics -----------------------------
(* What a program means, said over its syntax tree with no bytecode, no stack *)
(* and no frames: the yardstick the compiler and the machine are held to.     *)
(*                                                                            *)
(* A variable is a cell; a scope maps names to cells, and a name that is in   *)
(* no scope is a global.  `this` and the class around are cells too, so that  *)
(* a function has those of the place where it is written.  Evaluation takes   *)
(* and returns a store (cells, globals, classes, constants, instances, what   *)
(* was printed) and ends in one of the ways "ok", "throw" and, for            *)
(* statements, "break", "continue" and "return".                              *)
EXTENDS Rationals, Sequences, SequencesExt, FiniteSets, TLC

R(how, val, st, env) == [how |-> how, val |-> val, st |-> st, env |-> env]
Ok(r) == r.how = "ok"

RNil == <<"nil">>
RTruthy(v) == v \notin {RNil, <<"bool", FALSE>>}
RError(class) == <<"error", class, RNil>>

NewCell(r, x, val) ==
    [r EXCEPT !.st.cells = Append(@, val), !.env = (x :> (Len(r.st.cells) + 1)) @@ @]

Known(x, env, st) == x \in DOMAIN env \union DOMAIN st.globals
Lookup(x, env, st) == IF x \in DOMAIN env THEN st.cells[env[x]] ELSE st.globals[x]
Assign(x, val, env, st) ==
    IF x \in DOMAIN env THEN [st EXCEPT !.cells[env[x]] = val]
    ELSE [st EXCEPT !.globals = (x :> val) @@ @]

\* The functions of the language that a program cannot give its own meaning.
Fixed == {"clock", "yield"}
CannotAssign(x, env) == x \in Fixed /\ x \notin DOMAIN env

\* An operand of % loses what follows its point.
Num2(op, x, y) ==
    CASE op = "+" -> <<"num", Plus(x, y)>>   [] op = "-" -> <<"num", Minus(x, y)>>   [] op = "*" -> <<"num", Times(x, y)>>
      [] op = "/" -> <<"num", DividedBy(x, y)>>   [] op = "%" -> <<"num", Rest(x, y)>>
      [] op = "<" -> <<"bool", Less(x, y)>>   [] op = "<=" -> <<"bool", ~Less(y, x)>>
      [] op = ">" -> <<"bool", Less(y, x)>>   [] op = ">=" -> <<"bool", ~Less(x, y)>>

ROrderings == {"<", "<=", ">", ">="}
\* A value, or the error the operator throws.
Apply(op, a, b) ==
    LET numbers == a[1] = "num" /\ b[1] = "num"
        strings == a[1] = "str" /\ b[1] = "str" /\ op = "+"
        byZero == numbers /\ (IF op = "%" THEN ToInt(b[2]) = 0 ELSE op = "/" /\ b[2] = Zero)
    IN  CASE op \in {"==", "!="} -> <<"bool", (a = b) = (op = "==")>>
          [] op \notin {"==", "!="} /\ strings -> <<"str", a[2] \o b[2]>>
          [] op \in ROrderings /\ a[1] = "str" /\ a = b -> Num2(op, Zero, Zero)
          [] op \notin {"==", "!="} /\ ~numbers /\ ~strings /\ ~(op \in ROrderings /\ a[1] = "str" /\ a = b) -> RError("TypeError")
          [] op \notin {"==", "!="} /\ byZero -> RError("Error")
          [] OTHER -> Num2(op, a[2], b[2])
Value(r, v) == [r EXCEPT !.how = IF v[1] = "error" THEN "throw" ELSE "ok", !.val = v]

-----------------------------------------------------------------------------
(* Classes.                                                                   *)

RNone == <<"none">>
RNoTable == [x \in {} |-> RNone]
RClass(super, under) == [super |-> super, under |-> under, method |-> RNoTable, static |-> RNoTable,
                         getter |-> RNoTable, setter |-> RNoTable]
RErrors == {"Error", "TypeError", "NameError", "ArgumentError"}
RClasses == [c \in RErrors \union {"Object"} |->
                RClass(CASE c = "Object" -> "" [] c = "Error" -> "Object" [] OTHER -> "Error", "")]

RECURSIVE Ancestors(_, _), Around(_, _)
Ancestors(st, c) == IF c = "" THEN <<>> ELSE <<c>> \o Ancestors(st, st.classes[c].super)
\* Where a constant is looked for: the classes around, the innermost first,
\* each with its superclasses.
Around(st, c) == IF c = "" THEN <<"">> ELSE Ancestors(st, c) \o Around(st, st.classes[c].under)
RIsA(st, class, super) == Contains(Ancestors(st, class), super)

ThisIn(env, st) == IF "this" \in DOMAIN env THEN st.cells[env["this"]] ELSE RNil
Inside(env, st) == IF "class" \in DOMAIN env THEN st.cells[env["class"]] ELSE ""
FirstWith(names, table, x) ==
    LET having == SelectSeq(names, LAMBDA c : x \in DOMAIN table[c])
    IN  IF having = <<>> THEN RNone ELSE table[Head(having)][x]
Found(st, class, kind, x) == FirstWith(Ancestors(st, class), [c \in DOMAIN st.classes |-> st.classes[c][kind]], x)
ConstAt(st, class, x) == IF <<class, x>> \in DOMAIN st.consts THEN st.consts[<<class, x>>] ELSE RNone
RConst(st, class, x) ==
    LET owners == SelectSeq(Around(st, class), LAMBDA c : <<c, x>> \in DOMAIN st.consts)
    IN  IF owners = <<>> THEN RNone ELSE st.consts[<<Head(owners), x>>]
SetConstant(st, class, x, val) == [st EXCEPT !.consts = (<<class, x>> :> val) @@ @]

\* What answers to a name: an instance by the methods of its class, a class or
\* module by its own.
IsReceiver(v) == v[1] \in {"object", "class", "module"}
ClassIn(v, st) == IF v[1] = "object" THEN st.objects[v[2]] ELSE v[2]
MethodOf(v, x, st) == Found(st, ClassIn(v, st), IF v[1] = "object" THEN "method" ELSE "static", x)
GetterOf(v, x, st) == IF v[1] = "object" THEN Found(st, ClassIn(v, st), "getter", x) ELSE RNone
SetterOf(v, x, st) == IF v[1] = "object" THEN Found(st, ClassIn(v, st), "setter", x) ELSE RNone
OperatorNames == ("+" :> "opAdd") @@ ("-" :> "opDiff") @@ ("*" :> "opMul") @@ ("/" :> "opDiv")
                 @@ ("==" :> "opEquals") @@ ("!=" :> "opEquals")
Overloads(v, op, st) == v[1] = "object" /\ op \in DOMAIN OperatorNames /\ MethodOf(v, OperatorNames[op], st) # RNone

-----------------------------------------------------------------------------
(* Expressions.                                                               *)

\* A function value: its node, and the scope it was made in.
Function(n, env) == <<"function", n, env>>
NoBlock == <<"noblock">>

RECURSIVE Eval(_, _, _, _), EvalAll(_, _, _, _), Run(_, _, _, _), RunAll(_, _, _, _), CallBody(_, _, _, _),
          Bind(_, _, _, _), Loop(_, _, _), ForEach(_, _, _, _), EachBlock(_, _, _), Catches(_, _, _, _)
\* A call of any value, and of a method by its name.
RECURSIVE Apply1(_, _, _, _), Send(_, _, _, _, _)

\* The values of expressions, left to right.
EvalAll(es, env, st, b) ==
    LET first == Eval(Head(es), env, st, b)
        rest == EvalAll(Tail(es), env, first.st, b)
    IN  CASE es = <<>> -> R("ok", <<>>, st, env)
          [] es # <<>> /\ ~Ok(first) -> first
          [] OTHER -> IF Ok(rest) THEN [rest EXCEPT !.val = <<first.val>> \o @] ELSE rest

\* A function that just ends gives nil.
Called(r) ==
    CASE r.how = "return" -> [r EXCEPT !.how = "ok"]
      [] r.how = "ok" -> [r EXCEPT !.val = RNil]
      [] OTHER -> r
\* A block that just ends gives its last value; a break or a continue gives nil.
Yielded(r) ==
    CASE r.how \in {"break", "continue"} -> [r EXCEPT !.how = "ok", !.val = RNil]
      [] r.how = "return" -> [r EXCEPT !.how = "ok"]
      [] OTHER -> r

\* A call's arguments: the positions, and the names of those given by keyword.
\* val[1] is the value of what comes before them.
EvalArgs(f, n, env, st, b) ==
    LET args == SelectSeq(Tail(n.kids), LAMBDA a : a.k # "KWARG_IN_CALL_STMT")
        kw == SelectSeq(Tail(n.kids), LAMBDA a : a.k = "KWARG_IN_CALL_STMT")
        vals == EvalAll(<<f>> \o args \o [i \in DOMAIN kw |-> kw[i].kids[1]], env, st, b)
        call == [pos |-> SubSeq(vals.val, 2, Len(args) + 1),
                 kw |-> [x \in {kw[i].tok : i \in DOMAIN kw} |->
                            vals.val[Len(args) + 1 + (CHOOSE i \in DOMAIN kw : kw[i].tok = x)]]]
    IN  IF Ok(vals) THEN [vals EXCEPT !.val = <<vals.val[1], call>>] ELSE vals

Positional(vals) == [pos |-> vals, kw |-> [x \in {} |-> RNil]]
\* A method runs with its receiver as `this`.
CallMethod1(f, this, call, given, st) ==
    Called(CallBody([f EXCEPT ![3] = ("this" :> (Len(st.cells) + 1)) @@ @], call, given,
                    [st EXCEPT !.cells = Append(@, this)]))

\* A class makes an instance, which init prepares; of an error only the
\* message counts.
Instantiate(class, call, st) ==
    LET obj == <<"object", Len(st.objects) + 1>>
        made == [st EXCEPT !.objects = Append(@, class)]
        init == Found(st, class, "method", "init")
        r == CallMethod1(init, obj, call, NoBlock, made)
    IN  CASE RIsA(st, class, "Error") -> R("ok", <<"error", class, IF call.pos = <<>> THEN RNil ELSE Head(call.pos)>>, st, <<>>)
          [] ~RIsA(st, class, "Error") /\ init # RNone -> IF Ok(r) THEN [r EXCEPT !.val = obj] ELSE r
          [] OTHER -> R(IF call.pos = <<>> THEN "ok" ELSE "throw", IF call.pos = <<>> THEN obj ELSE RError("ArgumentError"), made, <<>>)

Apply1(v, call, given, st) ==
    CASE v[1] = "function" -> Called(CallBody(v, call, given, st))
      [] v[1] = "bound" -> CallMethod1(v[3], v[2], call, given, st)
      [] v[1] = "class" -> Instantiate(v[2], call, st)
      [] OTHER -> R("throw", RError("TypeError"), st, <<>>)

\* A getter may be written as a call; what nobody answers to is methodMissing.
Send(v, x, call, given, st) ==
    LET method == MethodOf(v, x, st)
        getter == GetterOf(v, x, st)
        missing == MethodOf(v, "methodMissing", st)
    IN  CASE ~IsReceiver(v) -> R("throw", RError("TypeError"), st, <<>>)
          [] IsReceiver(v) /\ method # RNone -> CallMethod1(method, v, call, given, st)
          [] IsReceiver(v) /\ method = RNone /\ getter # RNone /\ call.pos = <<>> -> CallMethod1(getter, v, call, given, st)
          [] IsReceiver(v) /\ method = RNone /\ missing # RNone ->
                CallMethod1(missing, v, [call EXCEPT !.pos = <<<<"str", x>>>> \o @], given, st)
          [] OTHER -> R("throw", RError("NameError"), st, <<>>)

\* A property: a field, a getter's value, a method with its receiver, or nil.
Property1(v, x, st) ==
    CASE v[1] = "error" /\ x = "message" -> R("ok", v[3], st, <<>>)
      [] IsReceiver(v) /\ <<v, x>> \in DOMAIN st.fields -> R("ok", st.fields[<<v, x>>], st, <<>>)
      [] IsReceiver(v) /\ <<v, x>> \notin DOMAIN st.fields /\ GetterOf(v, x, st) # RNone ->
            CallMethod1(GetterOf(v, x, st), v, Positional(<<>>), NoBlock, st)
      [] IsReceiver(v) /\ <<v, x>> \notin DOMAIN st.fields /\ GetterOf(v, x, st) = RNone ->
            R("ok", IF MethodOf(v, x, st) = RNone THEN RNil ELSE <<"bound", v, MethodOf(v, x, st)>>, st, <<>>)
      [] OTHER -> R("throw", RError("TypeError"), st, <<>>)
\* A setter's own value is not the assignment's.
SetProperty(v, x, val, st) ==
    LET r == CallMethod1(SetterOf(v, x, st), v, Positional(<<val>>), NoBlock, st) IN
    CASE ~IsReceiver(v) -> R("throw", RError("TypeError"), st, <<>>)
      [] IsReceiver(v) /\ SetterOf(v, x, st) # RNone -> IF Ok(r) THEN [r EXCEPT !.val = val] ELSE r
      [] OTHER -> R("ok", val, [st EXCEPT !.fields = (<<v, x>> :> val) @@ @], <<>>)

\* opCmp says by a number how two things compare; a part of one does not count.
CompareByMethod(op, a, b, st) ==
    LET answer == CallMethod1(MethodOf(a, "opCmp", st), a, Positional(<<b>>), NoBlock, st)
    IN  CASE MethodOf(a, "opCmp", st) = RNone -> R("throw", RError("Error"), st, <<>>)
          [] MethodOf(a, "opCmp", st) # RNone /\ Ok(answer) ->
                Value(answer, IF answer.val[1] = "num" THEN Num2(op, Whole(ToInt(answer.val[2])), Zero) ELSE RError("TypeError"))
          [] OTHER -> answer
BinaryOp(op, a, b, st) ==
    LET sent == Send(a, OperatorNames[op], Positional(<<b>>), NoBlock, st)
    IN  CASE op \in ROrderings /\ IsReceiver(a) -> CompareByMethod(op, a, b, st)
          [] Overloads(a, op, st) /\ (op \notin {"==", "!="} \/ ~Ok(sent)) -> sent
          [] Overloads(a, op, st) /\ op \in {"==", "!="} /\ Ok(sent) -> [sent EXCEPT !.val = <<"bool", RTruthy(@) = (op = "==")>>]
          [] ~Overloads(a, op, st) /\ a[1] = "object" /\ op \notin {"==", "!="} \union ROrderings -> R("throw", RError("NameError"), st, <<>>)
          [] OTHER -> Value(R("ok", RNil, st, <<>>), Apply(op, a, b))

\* env is the scope, b the block that was given to the running function.
Eval(n, env, st, b) ==
    LET kids == EvalAll(n.kids, env, st, b)
        left == Eval(n.kids[1], env, st, b)
        callee == n.kids[1].kids[1]
        class == Inside(env, st)
        Then(r, next) == IF Ok(r) THEN [next EXCEPT !.env = env] ELSE r
        ConstOr(val, error, r) == IF val = RNone THEN [r EXCEPT !.how = "throw", !.val = RError(error)] ELSE [r EXCEPT !.val = val]
    IN
    CASE n.k = "LITERAL_EXPR" ->
            R("ok", CASE n.tok = "NUMBER" -> <<"num", n.val>> [] n.tok = "STRING" -> <<"str", n.val>>
                      [] n.tok = "NIL" -> RNil [] OTHER -> <<"bool", n.tok = "TRUE">>, st, env)
      [] n.k = "GROUPING_EXPR" -> left
      [] n.k = "VARIABLE_EXPR" ->
            IF Known(n.tok, env, st) THEN R("ok", Lookup(n.tok, env, st), st, env)
            ELSE R("throw", RError("NameError"), st, env)
      [] n.k = "BINARY_EXPR" -> Then(kids, BinaryOp(n.tok, kids.val[1], kids.val[2], kids.st))
      [] n.k = "UNARY_EXPR" ->
            Then(left, Value(left, IF n.tok = "!" THEN <<"bool", ~RTruthy(left.val)>>
                                   ELSE Apply("-", <<"num", Zero>>, left.val)))
      [] n.k = "LOGICAL_EXPR" ->
            IF ~Ok(left) \/ RTruthy(left.val) = (n.tok = "or") THEN left ELSE Eval(n.kids[2], env, left.st, b)
      [] n.k = "ARRAY_EXPR" -> Then(kids, [kids EXCEPT !.val = <<"array", kids.val>>])
      [] n.k = "INDEX_GET_EXPR" ->
            Then(kids, IF kids.val[1][1] = "array" THEN [kids EXCEPT !.val = kids.val[1][2][ToInt(kids.val[2][2]) + 1]]
                       ELSE Send(kids.val[1], "opIndexGet", Positional(<<kids.val[2]>>), NoBlock, kids.st))
      [] n.k = "ASSIGN_EXPR" ->
            LET r == Eval(n.kids[2], env, st, b)
            IN  Then(r, IF n.kids[1].k # "CONSTANT_EXPR" /\ CannotAssign(n.kids[1].tok, env) THEN R("throw", RError("NameError"), r.st, env)
                        ELSE [r EXCEPT !.st = IF n.kids[1].k = "CONSTANT_EXPR" THEN SetConstant(r.st, class, n.kids[1].tok, r.val)
                                              ELSE Assign(n.kids[1].tok, r.val, env, r.st)])
      [] n.k = "ANON_FN_EXPR" -> R("ok", Function(n, env), st, env)
      [] n.k = "THIS_EXPR" -> R("ok", ThisIn(env, st), st, env)
      [] n.k = "SUPER_EXPR" ->
            \* what the class around has above it
            LET f == Found(st, st.classes[class].super, "method", n.tok)
                g == Found(st, st.classes[class].super, "getter", n.tok)
                this == ThisIn(env, st)
            IN  ConstOr(CASE f # RNone -> <<"bound", this, f>> [] f = RNone /\ g # RNone -> <<"bound", this, g>> [] OTHER -> RNone,
                        "Error", R("ok", RNil, st, env))
      [] n.k = "CONSTANT_EXPR" -> ConstOr(RConst(st, class, n.tok), "NameError", R("ok", RNil, st, env))
      [] n.k = "CONSTANT_LOOKUP_EXPR" ->
            IF n.kids = <<>> THEN ConstOr(ConstAt(st, "", n.tok), "NameError", R("ok", RNil, st, env))
            ELSE Then(left, IF left.val[1] \in {"class", "module"} THEN ConstOr(ConstAt(left.st, left.val[2], n.tok), "NameError", left)
                            ELSE ConstOr(RNone, "TypeError", left))
      [] n.k = "PROP_ACCESS_EXPR" -> Then(left, Property1(left.val, n.tok, left.st))
      [] n.k = "PROP_SET_EXPR" -> Then(kids, SetProperty(kids.val[1], n.tok, kids.val[2], kids.st))
      [] n.k = "PROP_SET_BINOP_EXPR" ->
            LET obj == Eval(callee, env, st, b)
                old == Property1(obj.val, n.kids[1].tok, obj.st)
                rhs == Eval(n.kids[2], env, old.st, b)
                new == BinaryOp(n.tok, old.val, rhs.val, rhs.st)
            IN  Then(obj, Then(old, Then(rhs, Then(new, SetProperty(obj.val, n.kids[1].tok, new.val, new.st)))))
      [] n.k = "CALL_EXPR" ->
            CASE n.kids[1] = [n.kids[1] EXCEPT !.k = "VARIABLE_EXPR", !.tok = "yield"] ->
                    LET args == EvalAll(Tail(n.kids), env, st, b)
                    IN  Then(args, Yielded(CallBody(b, Positional(args.val), NoBlock, args.st)))
              [] n.kids[1].k = "PROP_ACCESS_EXPR" ->
                    LET args == EvalArgs(callee, n, env, st, b)
                    IN  Then(args, IF args.val[1][1] = "function" /\ n.kids[1].tok = "yield"        \* block.yield
                                   THEN Yielded(CallBody(args.val[1], args.val[2], NoBlock, args.st))
                                   ELSE Send(args.val[1], n.kids[1].tok, args.val[2], NoBlock, args.st))
              [] OTHER -> LET args == EvalArgs(n.kids[1], n, env, st, b)
                          IN  Then(args, Apply1(args.val[1], args.val[2], NoBlock, args.st))
      [] n.k = "CALL_BLOCK_EXPR" ->
            LET isMethod == callee.k = "PROP_ACCESS_EXPR"
                args == EvalArgs(IF isMethod THEN callee.kids[1] ELSE callee, n.kids[1], env, st, b)
                block == Function(n.kids[2], env)
            IN  Then(args, CASE isMethod /\ args.val[1][1] = "array" ->          \* array.each
                                   EachBlock(block, [args EXCEPT !.val = args.val[1][2]], args.val[1])
                             [] isMethod /\ args.val[1][1] # "array" -> Send(args.val[1], callee.tok, args.val[2], block, args.st)
                             [] OTHER -> Apply1(args.val[1], args.val[2], block, args.st))

\* The parameters take the arguments in order, then their defaults.
Bind(ps, call, r, given) ==
    LET p == Head(ps)
        default == Eval(p.kids[1], r.env, r.st, NoBlock)
        byName == p.kind = "KWARG" /\ p.tok \in DOMAIN call.kw
        byPlace == p.kind \in {"REGULAR", "DEFAULT"} /\ call.pos # <<>>
        rest == [call EXCEPT !.pos = IF byPlace THEN Tail(@) ELSE @]
    IN  IF ps = <<>> THEN r
        ELSE Bind(Tail(ps), rest,
                  CASE byPlace -> NewCell(r, p.tok, Head(call.pos))
                    [] byName -> NewCell(r, p.tok, call.kw[p.tok])
                    [] p.kind = "SPLAT" -> NewCell(r, p.tok, <<"array", call.pos>>)
                    [] p.kind = "BLOCK" -> NewCell(r, p.tok, given)
                    [] OTHER -> NewCell([r EXCEPT !.st = default.st], p.tok, default.val),
                  given)

\* A function's body, run with arguments and a block.
CallBody(f, call, given, st) ==
    LET ps == f[2].params
        Kinds(K) == Cardinality({i \in DOMAIN ps : ps[i].kind \in K})
        bound == Bind(ps, call, R("ok", RNil, st, f[3]), given)
    IN  CASE f[1] # "function" -> R("throw", RError("TypeError"), st, <<>>)
          [] f[1] = "function" /\ (\/ Len(call.pos) < Kinds({"REGULAR"})
                                   \/ Len(call.pos) > Kinds({"REGULAR", "DEFAULT"}) /\ Kinds({"SPLAT"}) = 0) ->
                R("throw", RError("ArgumentError"), st, <<>>)
          [] OTHER -> Run(f[2].kids[1], bound.env, bound.st, given)

\* array.each: a break gives nil, a return its value, the end the array.
EachBlock(f, r, whole) ==
    LET body == CallBody(f, Positional(<<Head(r.val)>>), NoBlock, r.st)
    IN  CASE r.val = <<>> -> [r EXCEPT !.val = whole]
          [] r.val # <<>> /\ body.how \in {"ok", "continue"} ->
                EachBlock(f, [body EXCEPT !.how = "ok", !.val = Tail(r.val)], whole)
          [] OTHER -> Yielded(body)

-----------------------------------------------------------------------------
(* Statements.                                                                *)

RunAll(ss, env, st, b) ==
    LET first == Run(Head(ss), env, st, b)
    IN  CASE ss = <<>> -> R("ok", RNil, st, env)
          [] ss # <<>> /\ (~Ok(first) \/ Len(ss) = 1) -> first
          [] OTHER -> RunAll(Tail(ss), first.env, first.st, b)

\* while and for: r is the state before the test.
Loop(n, r, b) ==
    LET while == n.k = "WHILE_STMT"
        test == Eval(n.kids[IF while THEN 1 ELSE 2], r.env, r.st, b)
        body == Run(n.kids[IF while THEN 2 ELSE 4], r.env, test.st, b)
        step == IF while THEN [body EXCEPT !.env = r.env] ELSE Eval(n.kids[3].kids[1], r.env, body.st, b)
    IN  CASE ~Ok(test) -> test
          [] Ok(test) /\ ~RTruthy(test.val) -> test
          [] Ok(test) /\ RTruthy(test.val) /\ body.how \in {"ok", "continue"} ->
                IF Ok(step) \/ step.how = "continue" THEN Loop(n, step, b) ELSE step
          [] OTHER -> IF body.how = "break" THEN [body EXCEPT !.how = "ok"] ELSE body

\* The loop variables are the same cells in every iteration.
ForEach(n, vals, r, b) ==
    LET names == SubSeq(n.kids, 1, Len(n.kids) - 2)
        Part(i) == IF i <= Len(Head(vals)[2]) THEN Head(vals)[2][i] ELSE RNil
        set == FoldLeft(LAMBDA s, i : Assign(names[i].tok, IF Len(names) = 1 THEN Head(vals) ELSE Part(i), r.env, s),
                        r.st, [i \in DOMAIN names |-> i])
        body == Run(Last(n.kids), r.env, set, b)
    IN  CASE vals = <<>> -> [r EXCEPT !.how = "ok"]
          [] vals # <<>> /\ body.how \in {"ok", "continue"} -> ForEach(n, Tail(vals), [body EXCEPT !.env = r.env], b)
          [] OTHER -> IF body.how = "break" THEN [body EXCEPT !.how = "ok"] ELSE body

\* The first handler that fits an error; without an error, the else.
Catches(hs, r, env, b) ==
    LET h == Head(hs)
        class == Eval(h.kids[1], env, r.st, b)
        fits == \/ /\ h.k = "CATCH_STMT" /\ r.how = "throw"
                   /\ class.how = "ok" /\ class.val[1] = "class" /\ RIsA(r.st, r.val[2], class.val[2])
                \/ h.k = "TRY_ELSE_STMT" /\ r.how = "ok"
        bound == IF h.val = "" THEN [r EXCEPT !.env = env] ELSE NewCell([r EXCEPT !.env = env], h.val, r.val)
    IN  CASE hs = <<>> -> r
          [] hs # <<>> /\ fits -> Run(Last(h.kids), bound.env, bound.st, b)
          [] OTHER -> Catches(Tail(hs), r, env, b)

RunTry(n, env, st, b) ==
    LET handlers == SelectSeq(Tail(n.kids), LAMBDA h : h.k # "ENSURE_STMT")
        ensures == SelectSeq(Tail(n.kids), LAMBDA h : h.k = "ENSURE_STMT")
        r == Catches(handlers, Run(n.kids[1], env, st, b), env, b)
        last == Run(ensures[1].kids[1], env, r.st, b)
    IN  IF ensures = <<>> THEN [r EXCEPT !.env = env]
        ELSE IF Ok(last) THEN [r EXCEPT !.st = last.st, !.env = env] ELSE last

\* The body of a class or module, a new one or one that is there, with it as
\* `this`.  A class that is there has its superclass.
RunClass(n, env, st, b) ==
    LET kind == IF n.k = "CLASS_STMT" THEN "class" ELSE "module"
        around == Inside(env, st)
        old == ConstAt(st, around, n.tok)
        super == IF n.val = "" THEN <<"class", IF kind = "class" THEN "Object" ELSE "">> ELSE RConst(st, around, n.val)
        path == IF around = "" THEN n.tok ELSE around \o "::" \o n.tok
        made == IF old # RNone THEN st
                ELSE SetConstant([st EXCEPT !.classes = (path :> RClass(super[2], around)) @@ @], around, n.tok, <<kind, path>>)
        error == CASE super[1] # "class" \/ old[1] \notin {"none", kind} -> "TypeError"
                   [] super[1] = "class" /\ old[1] = kind /\ n.val # "" -> "NameError" [] OTHER -> ""
        body == Run(n.kids[1], ("this" :> (Len(st.cells) + 1)) @@ ("class" :> (Len(st.cells) + 2)) @@ env,
                    [made EXCEPT !.cells = @ \o <<<<kind, path>>, path>>], b)
    IN  CASE error # "" -> R("throw", RError(error), st, env)
          [] error = "" /\ Ok(body) -> R("ok", RNil, body.st, env)
          [] OTHER -> body

\* A method of the class around; the class may have asked to be told of it.
Tables1 == [METHOD_STMT |-> "method", CLASS_METHOD_STMT |-> "static", GETTER_STMT |-> "getter", SETTER_STMT |-> "setter"]
AddMethod(n, class, env, st) ==
    LET kind == Tables1[n.k]
        with == [st EXCEPT !.classes[class] = [@ EXCEPT ![kind] = (n.tok :> Function(n, env)) @@ @]]
        told == Found(with, class, "static", "methodAdded")
        r == CallMethod1(told, <<"class", class>>, Positional(<<<<"str", n.tok>>>>), NoBlock, with)
    IN  CASE n.k # "METHOD_STMT" \/ told = RNone -> R("ok", RNil, with, env)
          [] n.k = "METHOD_STMT" /\ told # RNone -> IF Ok(r) THEN [r EXCEPT !.env = env] ELSE r

Run(n, env, st, b) ==
    LET value == IF n.kids = <<>> THEN R("ok", RNil, st, env) ELSE Eval(Last(n.kids), env, st, b)
        top == env = <<>>
        Declare(r, x, val) == IF top THEN [r EXCEPT !.st = Assign(x, val, env, r.st)] ELSE NewCell(r, x, val)
    IN
    CASE n.k = "NONE" -> R("ok", RNil, st, env)
      [] n.k = "STMTLIST_STMT" -> RunAll(n.kids, env, st, b)
      [] n.k = "BLOCK_STMT" -> [Run(n.kids[1], ("{" :> 0) @@ env, st, b) EXCEPT !.env = env]
      [] n.k = "EXPR_STMT" -> IF Ok(value) THEN [value EXCEPT !.env = env] ELSE value
      [] n.k = "PRINT_STMT" ->
            IF Ok(value) THEN [value EXCEPT !.st.out = Append(@, value.val), !.env = env] ELSE value
      [] n.k = "VAR_STMT" ->
            IF ~Ok(value) THEN value
            ELSE IF top /\ CannotAssign(n.tok, env) THEN [value EXCEPT !.how = "throw", !.val = RError("NameError")]
            ELSE Declare([value EXCEPT !.env = env], n.tok, value.val)
      [] n.k = "FUNCTION_STMT" ->
            IF CannotAssign(n.tok, <<>>) THEN R("throw", RError("NameError"), st, env)
            ELSE R("ok", RNil, Assign(n.tok, Function(n, env), <<>>, st), env)
      [] n.k = "IF_STMT" ->
            LET test == Eval(n.kids[1], env, st, b)
            IN  CASE ~Ok(test) -> test
                  [] Ok(test) /\ RTruthy(test.val) -> Run(n.kids[2], env, test.st, b)
                  [] Ok(test) /\ ~RTruthy(test.val) /\ Len(n.kids) = 3 -> Run(n.kids[3], env, test.st, b)
                  [] OTHER -> R("ok", RNil, test.st, env)
      [] n.k = "WHILE_STMT" -> [Loop(n, R("ok", RNil, st, env), b) EXCEPT !.env = env]
      [] n.k = "FOR_STMT" ->
            LET init == Run(n.kids[1], ("{" :> 0) @@ env, st, b) IN [Loop(n, init, b) EXCEPT !.env = env]
      [] n.k = "FOREACH_STMT" ->
            LET arr == Eval(n.kids[Len(n.kids) - 1], env, st, b)
                vars == FoldLeft(LAMBDA r, x : NewCell(r, x.tok, RNil), [arr EXCEPT !.env = ("{" :> 0) @@ env],
                                 SubSeq(n.kids, 1, Len(n.kids) - 2))
            IN  IF Ok(arr) THEN [ForEach(n, arr.val[2], vars, b) EXCEPT !.env = env] ELSE arr
      [] n.k = "BREAK_STMT" -> R("break", RNil, st, env)
      [] n.k = "CONTINUE_STMT" -> R("continue", RNil, st, env)
      [] n.k = "RETURN_STMT" -> IF Ok(value) THEN [value EXCEPT !.how = "return"] ELSE value
      [] n.k = "THROW_STMT" ->
            IF ~Ok(value) THEN value
            ELSE [value EXCEPT !.how = "throw", !.val = CASE @[1] = "error" -> @
                                                          [] @[1] = "str" -> <<"error", "Error", @>>
                                                          [] OTHER -> RError("TypeError")]
      [] n.k = "TRY_STMT" -> RunTry(n, env, st, b)
      [] n.k \in {"CLASS_STMT", "MODULE_STMT"} -> RunClass(n, env, st, b)
      [] n.k \in DOMAIN Tables1 -> AddMethod(n, Inside(env, st), env, st)

\* What a program prints, and whether an error stopped it.
Reference(program) ==
    LET start == [cells |-> <<>>, globals |-> RNoTable, out |-> <<>>, classes |-> RClasses,
                  consts |-> [p \in {""} \X DOMAIN RClasses |-> <<"class", p[2]>>], objects |-> <<>>, fields |-> RNoTable]
        r == Run(program, <<>>, start, NoBlock)
    IN  [out |-> r.st.out, uncaught |-> r.how = "throw"]
=============================================================================

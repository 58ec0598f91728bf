----------------------------- MODULE MCLanguage -----------------------------
(* Programs for the compiler and the machine, by families: every choice of a  *)
(* family is a program, compiled with and without the optimizer.              *)
EXTENDS Language, Semantics, Frontend

Is(x, n) == Bin(Var(x), "==", Num(n))
Add(x, n) == Bin(Var(x), "+", Num(n))

\* A loop over x = 1, 2, 3.
LoopOver(kind, x, body) ==
    CASE kind = "while" -> <<Decl(x, Num(0)), While(Bin(Var(x), "<", Num(3)), <<Set(x, Add(x, 1))>> \o body)>>
      [] kind = "for" -> <<For(Decl(x, Num(1)), Bin(Var(x), "<", Num(4)), Set(x, Add(x, 1)), body)>>
      [] kind = "foreach" -> <<Foreach(<<x>>, Ary(<<Num(1), Num(2), Num(3)>>), body)>>
      [] kind = "each" -> <<Each(Ary(<<Num(1), Num(2), Num(3)>>), x, body)>>
Jumping(kind) == CASE kind = "break" -> <<Break>> [] kind = "continue" -> <<Continue>>
                   [] kind = "return" -> <<Return(Num(7))>> [] kind = "throw" -> <<Throw(Err)>> [] kind = "none" -> <<>>

\* Two loops, and a jump out of each; with a local of the body or without.
LoopBody(x, jump, local, inner) ==
    (IF local THEN <<Decl("l" , Add(x, 10))>> ELSE <<>>)
    \o inner \o <<If(Is(x, 2), Jumping(jump)), Print1(IF local THEN Var("l") ELSE Var(x))>>
Loops == {"while", "for", "foreach", "each"} \X {"while", "for", "foreach", "each", "none"} \X {"break", "continue", "none"}
         \X {"break", "continue", "none"} \X BOOLEAN
LoopProgram(p) ==
    LET inner == IF p[2] = "none" THEN <<>> ELSE LoopOver(p[2], "j", LoopBody("j", p[4], p[5], <<>>))
    IN  Prog(LoopOver(p[1], "i", LoopBody("i", p[3], p[5], inner)) \o <<Print1(Str("end"))>>)

\* What is left out goes wrong: see the findings and the hazards.
LoopConforms(p) ==
    /\ p[2] = "none" => p[4] = "none"
    /\ ~(p[1] = "for" /\ p[3] = "continue") /\ ~(p[2] = "for" /\ p[4] = "continue")
    /\ "each" \in {p[1], p[2]} => ~p[5]
    /\ p[1] = "each" => p[2] \in {"none", "each"}
    /\ p[3] = "continue" => ~p[5] /\ p[2] # "while"
    /\ p[4] = "continue" => ~p[5] /\ <<p[1], p[2]>> # <<"foreach", "foreach">>
    /\ p[3] = "break" /\ p[5] => <<p[1], p[2]>> # <<"foreach", "while">>
LoopPrograms == [p \in {q \in Loops : LoopConforms(q)} |-> LoopProgram(p)]

\* A try with its handlers, twice, in a function.
TryBodies == {"none", "throw", "type", "call", "return", "break", "nested", "div"}
TryBody(b) ==
    CASE b = "throw" -> <<Throw(Err)>>
      [] b = "type" -> <<Throw(Call(Const("TypeError"), <<Str("m")>>))>>
      [] b = "call" -> <<Expr(Call(Var("t"), <<>>))>>
      [] b = "return" -> <<Return(Num(5))>>
      [] b = "break" -> <<Break>>
      [] b = "nested" -> <<Try(<<Throw(Err)>>, <<CatchOnly("TypeError", <<Print1(Str("no"))>>)>>)>>
      [] b = "div" -> <<Expr(Bin(Num(6), "/", Var("i")))>>
      [] OTHER -> <<>>
Handlers == {"error", "type", "both", "var", "else", "ensure", "catchensure", "all", "rethrow"}
HandlersOf(h) ==
    LET c(cls) == CatchOnly(cls, <<Print1(Str(cls))>>) IN
    CASE h = "error" -> <<c("Error")>>
      [] h = "type" -> <<c("TypeError")>>
      [] h = "both" -> <<c("TypeError"), c("Error")>>
      [] h = "var" -> <<Catch("Error", "e", <<Decl("z", Num(1)), Print1(Var("z"))>>)>>
      [] h = "else" -> <<c("Error"), Else(<<Print1(Str("else"))>>)>>
      [] h = "ensure" -> <<Ensure(<<Print1(Str("ens"))>>)>>
      [] h = "catchensure" -> <<c("TypeError"), Ensure(<<Print1(Str("ens"))>>)>>
      [] h = "all" -> <<c("Error"), Else(<<Print1(Str("else"))>>), Ensure(<<Print1(Str("ens"))>>)>>
      [] h = "rethrow" -> <<Catch("Error", "e", <<Throw(Var("e"))>>)>>
Tries == TryBodies \X Handlers \X {"none", "while", "each", "foreach"} \X BOOLEAN
TryProgram(p) ==
    LET try == Try(<<Print1(Var("i"))>> \o TryBody(p[1]) \o <<Print1(Str("last"))>>, HandlersOf(p[2]))
        body == CASE p[3] = "none" -> <<Decl("i", Num(0)), try, Print1(Str("after"))>>
                  [] p[3] = "while" -> <<Decl("i", Un("-", Num(1))),
                                         While(Bin(Var("i"), "<", Num(1)), <<Set("i", Add("i", 1)), try, Print1(Str("after"))>>)>>
                  [] p[3] = "foreach" -> <<Foreach(<<"i">>, Ary(<<Num(0), Num(1)>>), <<try, Print1(Str("after"))>>)>>
                  [] p[3] = "each" -> <<Each(Ary(<<Num(0), Num(1)>>), "i", <<try, Print1(Str("after"))>>)>>
    IN  Prog(<<Fun("t", <<>>, <<Throw(Call(Const("TypeError"), <<Str("m")>>))>>)>>
             \o IF p[4] THEN <<Fun("f", <<>>, body),
                               Try(<<Print1(Call(Var("f"), <<>>))>>, <<CatchOnly("Error", <<Print1(Str("out"))>>)>>)>> ELSE body)
TryConforms(p) ==
    /\ p[1] = "break" => p[3] # "none"
    /\ p[1] = "return" => p[4]
    /\ p[1] \in {"break", "return"} => p[2] \notin {"ensure", "catchensure", "all"}
    /\ p[1] # "div" /\ p[3] # "each"
    /\ p[3] = "while" => ~p[4]
TryPrograms == [p \in {q \in Tries : TryConforms(q)} |-> TryProgram(p)]

\* Closures: which variable is captured, and what happens to it.
Idx(a, i) == N("INDEX_GET_EXPR", "", <<Var(a), Num(i)>>)
Ret(e) == <<Return(e)>>
ClosureKinds == {<<k>> : k \in {"counter", "pair", "deep", "param"}} \union ({"iter"} \X {"while", "for", "foreach"} \X (1..3) \X BOOLEAN)
ClosureProgram(p) ==
    CASE p[1] = "counter" -> Prog(<<Fun("mk", <<Param("n")>>, <<Return(Anon(<<>>, <<Set("n", Add("n", 1)), Return(Var("n"))>>))>>),
                                 Decl("a", Call(Var("mk"), <<Num(0)>>)), Decl("b", Call(Var("mk"), <<Num(5)>>)),
                                 Print1(Call(Var("a"), <<>>)), Print1(Call(Var("b"), <<>>)), Print1(Call(Var("a"), <<>>))>>)
      [] p[1] = "pair" -> Prog(<<Fun("mk", <<>>, <<Decl("u", Num(9)), Decl("x", Num(1)),
                                                   Set("get", Anon(<<>>, Ret(Var("x")))),
                                                    Set("set", Anon(<<Param("v")>>, <<Set("x", Var("v"))>>)),
                                               Print1(Call(Var("get"), <<>>)),
                                               Expr(Call(Var("set"), <<Num(2)>>)), Print1(Call(Var("get"), <<>>)), Return(Var("u"))>>),
                              Print1(Call(Var("mk"), <<>>)), Expr(Call(Var("set"), <<Num(3)>>)), Print1(Call(Var("get"), <<>>))>>)
      [] p[1] = "deep" -> Prog(<<Fun("f", <<Param("a")>>,
                                     Ret(Anon(<<Param("b")>>,
                                              Ret(Anon(<<Param("c")>>, Ret(Bin(Bin(Var("a"), "-", Var("b")), "-", Var("c")))))))),
                              Decl("g", Call(Var("f"), <<Num(100)>>)), Decl("h", Call(Var("g"), <<Num(20)>>)),
                              Print1(Call(Var("h"), <<Num(3)>>)), Print1(Call(Call(Var("g"), <<Num(1)>>), <<Num(2)>>))>>)
      [] p[1] = "param" -> Prog(<<Fun("f", <<Param("a"), ParamD("b", Num(4))>>,
                                      <<Decl("c", Anon(<<>>, Ret(Bin(Var("a"), "*", Var("b"))))), Return(Var("c"))>>),
                              Decl("g", Call(Var("f"), <<Num(5)>>)), Decl("h", Call(Var("f"), <<Num(6), Num(7)>>)),
                              Print1(Call(Var("g"), <<>>)), Print1(Call(Var("h"), <<>>))>>)
      [] OTHER -> LET body == LoopOver(p[2], "i",
                                       <<Decl("j", Add("i", 10)),
                                         If(Is("i", p[3]), <<Set("g", Anon(<<>>, <<Set("j", Add("j", 1)), Return(Var("j"))>>))>>)>>)
                  IN  Prog((IF p[4] THEN <<Fun("f", <<>>, body \o <<Decl("w", Num(50)), Print1(Var("w"))>>),
                                           Expr(Call(Var("f"), <<>>))>> ELSE body)
                           \o <<Print1(Call(Var("g"), <<>>)), Print1(Call(Var("g"), <<>>))>>)
ClosurePrograms == [p \in ClosureKinds |-> ClosureProgram(p)]

\* Calls: the kinds of parameters, the positions and keywords given.
ParamLists == [none |-> <<>>, one |-> <<Param("a")>>, default |-> <<Param("a"), ParamD("b", Bin(Num(2), "+", Var("a")))>>,
               defaults |-> <<ParamD("a", Num(1)), ParamD("b", Num(2))>>, rest |-> <<Param("a"), ParamS("b")>>,
               keyword |-> <<Param("a"), ParamK("b", Num(3))>>, keywords |-> <<ParamK("a", Num(4)), ParamK("b", Var("a"))>>,
               all |-> <<Param("a"), ParamD("b", Num(2)), ParamS("c")>>]
Kw(x, e) == N("KWARG_IN_CALL_STMT", x, <<e>>)
Calls == (DOMAIN ParamLists) \X (0..3) \X {<<>>, <<"b">>, <<"a", "b">>} \X BOOLEAN
CallProgram(p) ==
    LET ps == ParamLists[p[1]]
        args == [i \in 1..p[2] |-> Num(10 * i)] \o [i \in DOMAIN p[3] |-> Kw(p[3][i], Num(90 + i))]
        local == IF p[4] THEN <<Decl("l", Num(7))>> ELSE <<>>
        body == local \o [i \in DOMAIN ps |-> Print1(Var(ps[i].tok))] \o (IF p[4] THEN <<Print1(Var("l"))>> ELSE <<>>) \o <<Return(Num(6))>>
    IN  Prog(<<Fun("f", ps, body),
               Print1(Bin(Num(1), "+", Call(Var("f"), args))), Print1(Str("end"))>>)
HasKw(ps) == {ps[i].tok : i \in {j \in DOMAIN ps : ps[j].kind = "KWARG"}}
\* Positions must not reach into the keywords: they would be taken.
CallConforms(p) ==
    LET ps == ParamLists[p[1]]
        regular == Len(SelectSeq(ps, LAMBDA q : q.kind = "REGULAR"))
    IN  /\ \A i \in DOMAIN p[3] : p[3][i] \in HasKw(ps)
        /\ HasKw(ps) # {} => p[2] = regular \/ p[2] + Len(p[3]) \notin regular..Len(ps)
CallPrograms == [p \in {q \in Calls : CallConforms(q)} |-> CallProgram(p)]

\* Blocks: how they are called, and how they end.
BlockBodies == {"print", "return", "break", "continue", "capture", "local", "if"}
BlockBody(k) ==
    CASE k = "print" -> <<Print1(Var("x"))>>
      [] k = "return" -> <<Print1(Var("x")), Return(Add("x", 5)), Print1(Str("no"))>>
      [] k = "break" -> <<If(Is("x", 2), <<Break>>), Print1(Var("x"))>>
      [] k = "continue" -> <<If(Is("x", 2), <<Continue>>), Print1(Var("x"))>>
      [] k = "capture" -> <<Print1(Bin(Var("x"), "+", Var("o")))>>
      [] k = "local" -> <<Decl("l", Add("x", 1)), Print1(Var("l"))>>
      [] k = "if" -> <<IfElse(Is("x", 2), <<Print1(Str("two"))>>, <<Print1(Var("x"))>>)>>
Callers == {"each", "yield", "twice", "blk", "blktwice", "pass"}
Caller(k) ==
    CASE k = "yield" -> <<Fun("y", <<>>, <<Print1(Call(Var("yield"), <<Num(2)>>)), Return(Num(8))>>)>>
      [] k = "twice" -> <<Fun("y", <<>>, <<Expr(Call(Var("yield"), <<Num(1)>>)), Print1(Call(Var("yield"), <<Num(2)>>)), Return(Num(8))>>)>>
      [] k = "blk" -> <<Fun("y", <<ParamB("b")>>, <<Print1(Call(Prop(Var("b"), "yield"), <<Num(2)>>)), Return(Num(8))>>)>>
      [] k = "blktwice" -> <<Fun("y", <<ParamB("b")>>,
                                 <<Expr(Call(Prop(Var("b"), "yield"), <<Num(1)>>)),
                                   Expr(Call(Prop(Var("b"), "yield"), <<Num(2)>>)), Return(Num(8))>>)>>
      [] k = "pass" -> <<Fun("y", <<>>, <<Each(Ary(<<Num(1), Num(2)>>), "z", <<Expr(Call(Var("yield"), <<Var("z")>>))>>),
                                          Return(Num(8))>>)>>
      [] OTHER -> <<>>
Blocks == Callers \X BlockBodies \X BOOLEAN
BlockProgram(p) ==
    LET call == IF p[1] = "each" THEN Call(Prop(Ary(<<Num(1), Num(2), Num(3)>>), "each"), <<>>) ELSE Call(Var("y"), <<>>)
        body == <<Decl("o", Num(100)), Print1(WithBlock(call, <<Param("x")>>, BlockBody(p[2]))), Print1(Str("end"))>>
    IN  Prog(Caller(p[1]) \o IF p[3] THEN <<Fun("f", <<>>, body), Expr(Call(Var("f"), <<>>))>> ELSE body)
BlockConforms(p) == (p[2] = "capture" => ~p[3]) /\ (p[2] = "local" => p[1] # "each")
BlockPrograms == [p \in {q \in Blocks : BlockConforms(q)} |-> BlockProgram(p)]
\* Constants: expressions to fold, and tests that are known.
Half == [Num(1) EXCEPT !.val = Fraction(1, 2)]
Operators == {"+", "-", "*", "/", "%", "<", "=="}
Operands == [seven |-> Num(7), two |-> Num(2), zero |-> Num(0), half |-> Half, v |-> Var("v"), no |-> False1]
Foldings == Operators \X Operators \X (DOMAIN Operands) \X (DOMAIN Operands) \X BOOLEAN
\* A rest by a half divides by zero.
FoldConforms(p) ==
    /\ p[1] \in {"-", "/", "%", "<"} /\ p[2] \in {"-", "/", "%"}
    /\ p[3] \in {"two", "zero", "v"} /\ p[4] \in {"half", "zero", "two"} /\ ~("%" \in {p[1], p[2]} /\ p[4] = "half")
FoldProgram(p) ==
    LET x == Operands[p[3]] y == Operands[p[4]]
        e == IF p[5] THEN Bin(Bin(Num(9), p[1], x), p[2], y) ELSE Bin(Num(9), p[1], Bin(x, p[2], y))
    IN  Prog(<<Decl("v", Num(4)), Expr(Num(3)), Print1(e), Print1(Str("end"))>>)
FoldPrograms == [p \in {q \in Foldings : FoldConforms(q)} |-> FoldProgram(p)]

Tests == [true |-> True1, false |-> False1, nil |-> Nil1, one |-> Num(1), var |-> Var("v"), not |-> Un("!", True1),
          less |-> Bin(Num(1), "<", Num(2))]
Uses == {"if", "else", "while", "and", "or", "not", "inif", "inwhile", "infun", "flag"}
TestProgram(p) ==
    LET t == Tests[p[1]]
        ie == IfElse(t, <<Print1(Num(1)), Expr(Num(4))>>, <<Print1(Num(2))>>)
    IN  Prog(<<Decl("v", Num(4))>> \o (
        CASE p[2] = "if" -> <<If(t, <<Print1(Num(1))>>)>>
          [] p[2] = "else" -> <<ie>>
          [] p[2] = "while" -> <<While(t, <<Print1(Num(1)), Break>>)>>
          [] p[2] = "and" -> <<Print1(Logic(t, "and", Num(5)))>>
          [] p[2] = "or" -> <<Print1(Logic(t, "or", Num(5)))>>
          [] p[2] = "not" -> <<Print1(Un("!", t))>>
          [] p[2] = "inif" -> <<If(Var("v"), <<ie>>)>>
          [] p[2] = "inwhile" -> <<Decl("i", Num(0)), While(Bin(Var("i"), "<", Num(2)), <<Set("i", Add("i", 1)), ie>>)>>
          [] p[2] = "flag" -> <<Decl("b", True1), While(Logic(t, "and", Var("b")), <<Set("b", False1)>>)>>
          [] p[2] = "infun" -> <<Fun("f", <<>>, <<Decl("l", Num(6)), ie, Print1(Var("l"))>>), Expr(Call(Var("f"), <<>>))>>)
        \o <<Print1(Str("end"))>>)
TestConforms(p) == p[2] \in {"inwhile", "inif"} => p[1] \notin {"true", "one"}
TestPrograms == [p \in {q \in (DOMAIN Tests) \X Uses : TestConforms(q)} |-> TestProgram(p)]
-----------------------------------------------------------------------------

\* An error, or a return, that leaves blocks in a function; the caller catches.
Escapes == (Callers \ {"pass"}) \X {"throw", "call", "return", "break"} \X {"once", "each", "function"}
EscapeProgram(p) ==
    LET leave == CASE p[2] = "throw" -> <<Throw(Err)>> [] p[2] = "call" -> <<Expr(Call(Var("t"), <<>>))>>
                   [] p[2] = "return" -> <<Return(Num(7))>> [] p[2] = "break" -> <<Break>>
        body == <<Print1(Var("x")), If(Is("x", 2), leave)>>
        call == IF p[1] = "each" THEN Call(Prop(Ary(<<Num(1), Num(2), Num(3)>>), "each"), <<>>) ELSE Call(Var("y"), <<>>)
        block == WithBlock(call, <<Param("x")>>, body)
        inner == CASE p[3] = "once" -> <<Print1(block)>>
                   [] p[3] = "each" -> <<Each(Ary(<<Num(5), Num(6)>>), "w", <<Print1(block), Print1(Var("w"))>>)>>
                   [] p[3] = "function" -> <<Expr(Call(Var("g"), <<>>))>>
    IN  Prog(Caller(p[1]) \o <<Fun("t", <<>>, <<Throw(Call(Const("TypeError"), <<Str("m")>>))>>),
                               Fun("g", <<>>, <<Print1(block), Print1(Str("g"))>>),
                               Fun("f", <<>>, inner \o <<Print1(Str("after"))>>),
                               Try(<<Expr(Call(Var("f"), <<>>))>>, <<CatchOnly("Error", <<Print1(Str("caught"))>>)>>),
                               Print1(Str("end"))>>)
\* A function that returns while the outer block is active would end it.
EscapeConforms(p) == p[3] = "each" /\ p[1] # "each" => p[2] \notin {"return", "break"}
EscapePrograms == [p \in {q \in Escapes : EscapeConforms(q)} |-> EscapeProgram(p)]

\* Classes.  Three levels: which of them define what is looked for, and how
\* it is asked for; each that has it above it adds what that says.
Field(x) == Prop(This1, x)
AddTo(e, n) == Bin(e, "+", Num(n))
New(c, as) == Call(Const(c), as)
New1(c, as) == Call(c, as)
Ask(o, x, as) == Call(Prop(o, x), as)
Lookups == {{"A"}, {"A", "B"}, {"A", "C"}, {"A", "B", "C"}} \X {"method", "bound", "getter", "static", "operator"} \X BOOLEAN
LookupProgram(p) ==
    LET base == [A |-> 1, B |-> 10, C |-> 100]
        body(c) == IF c = "A" \/ ~p[3] THEN Ret(AddTo(Field("x"), base[c])) ELSE Ret(AddTo(SuperCall("m", <<>>), base[c]))
        def(c) == CASE p[2] \in {"method", "bound"} -> Method("m", <<>>, body(c))
                    [] p[2] = "getter" -> Getter("m", body(c))
                    [] p[2] = "static" -> ClassMethod("m", <<>>, Ret(Num(base[c])))
                    [] p[2] = "operator" -> Method("opAdd", <<Param("y")>>,
                          Ret(IF c = "A" \/ ~p[3] THEN Bin(Var("y"), "+", Num(base[c]))
                              ELSE AddTo(SuperCall("opAdd", <<Var("y")>>), base[c])))
        defs(c) == IF c \in p[1] THEN <<def(c)>> ELSE <<>>
        ask(c) == CASE p[2] = "method" -> <<Print1(Call(Prop(New(c, <<Num(5)>>), "m"), <<>>))>>
                    [] p[2] = "bound" -> <<Decl("f", Prop(New(c, <<Num(6)>>), "m")), Print1(Call(Var("f"), <<>>))>>
                    [] p[2] = "getter" -> <<Print1(Prop(New(c, <<Num(7)>>), "m"))>>
                    [] p[2] = "static" -> <<Print1(Call(Prop(Const(c), "m"), <<>>))>>
                    [] p[2] = "operator" -> <<Print1(Bin(New(c, <<Num(8)>>), "+", Num(2)))>>
    IN  Prog(<<Class0("A", <<Method("init", <<Param("x")>>, <<SetProp(This1, "x", Var("x"))>>)>> \o defs("A")),
               Class("B", "A", defs("B")), Class("C", "B", defs("C"))>> \o ask("A") \o ask("B") \o ask("C"))
LookupPrograms == [p \in {q \in Lookups : q[2] = "static" => ~q[3]} |-> LookupProgram(p)]

\* Errors of the program's classes: thrown out of methods, which handler fits,
\* and whose fields are there after it.
InFunction(b) == <<Fun("f", <<>>, b), Expr(Call(Var("f"), <<>>))>>
Shield(b) == Try(b, <<CatchOnly("Error", <<Print1(Str("out"))>>)>>)
Thrown1 == {"Mine", "Yours", "TypeError"} \X {"Mine", "Yours", "Error", "NameError"}
               \X {"method", "init", "getter", "setter", "operator", "equals", "compare"}
ThrownProgram(p) ==
    LET throw == <<Throw(New(p[1], <<Str("m")>>))>>
        o == New("O", <<>>)
        def == CASE p[3] = "method" -> Method("go", <<>>, throw) [] p[3] = "init" -> Method("init", <<>>, throw)
                 [] p[3] = "getter" -> Getter("go", throw) [] p[3] = "setter" -> Setter("go", "v", throw)
                 [] p[3] = "operator" -> Method("opAdd", <<Param("y")>>, throw)
                 [] p[3] = "equals" -> Method("opEquals", <<Param("y")>>, throw)
                 [] p[3] = "compare" -> Method("opCmp", <<Param("y")>>, throw)
        use == CASE p[3] = "method" -> Expr(Call(Prop(o, "go"), <<>>)) [] p[3] = "init" -> Expr(o)
                 [] p[3] = "getter" -> Print1(Prop(o, "go")) [] p[3] = "setter" -> SetProp(o, "go", Num(1))
                 [] p[3] = "operator" -> Print1(Bin(o, "+", Num(1))) [] p[3] = "equals" -> Print1(Bin(o, "==", Num(1)))
                 [] p[3] = "compare" -> Print1(Bin(o, "<", Num(1)))
    IN  Prog(<<Class("Mine", "Error", <<>>), Class("Yours", "Mine", <<>>), Class0("O", <<def>>),
               Class0("T", <<Method("run", <<>>, <<SetProp(This1, "a", Num(1)),
                                                   Try(<<use>>, <<Catch(p[2], "e", <<Print1(Prop(Var("e"), "message"))>>)>>),
                                                   Return(Field("a"))>>)>>),
               Shield(<<Print1(Call(Prop(New("T", <<>>), "run"), <<>>))>>), Print1(Str("end"))>>)
ThrownPrograms == [p \in Thrown1 |-> ThrownProgram(p)]

\* The rest of what classes do.
ClassKinds == {"fields", "setter", "missing", "unknown", "index", "equals", "nested", "reopen", "added", "recursion", "blocks",
               "loops", "closures", "module", "strings", "constants", "arity", "redefined", "qualified", "compared", "fixed"}
ClassProgram(k) ==
    CASE k = "fields" ->
            Prog(<<Class0("P",
                          <<Method("init", <<Param("x"), ParamD("y", Num(2))>>,
                                   <<SetProp(This1, "x", Var("x")), SetProp(This1, "y", Var("y")), Return0>>)>>),
                   Decl("a", New("P", <<Num(1)>>)), Decl("b", New("P", <<Num(3), Num(4)>>)),
                   SetProp(Var("a"), "x", AddTo(Prop(Var("b"), "y"), 5)), PropAdd(Var("b"), "x", "*", Num(6)),
                   Print1(Prop(Var("a"), "x")), Print1(Prop(Var("b"), "x")), Print1(Prop(Var("a"), "z")),
                   Print1(Bin(Var("a"), "==", Var("b"))), Print1(Bin(Var("a"), "==", Var("a")))>>)
      [] k = "setter" ->
            Prog(<<Class0("P",
                          <<Getter("v", Ret(AddTo(Field("w"), 1))),
                            Setter("v", "n", <<SetProp(This1, "w", Bin(Var("n"), "*", Num(2))), Return(Num(0))>>)>>),
                   Class("Q", "P", <<Getter("v", Ret(AddTo(SuperCall("v", <<>>), 100)))>>), Decl("q", New("Q", <<>>)),
                   Print1(N("PROP_SET_EXPR", "v", <<Var("q"), Num(4)>>)), Print1(Prop(Var("q"), "v")),
                   PropAdd(Var("q"), "v", "+", Num(1)), Print1(Prop(Var("q"), "w")), Print1(Ask(Var("q"), "v", <<>>))>>)
      [] k = "missing" ->
            Prog(<<Class0("G",
                          <<Method("methodMissing", <<Param("name"), ParamS("rest")>>,
                                   <<Print1(Var("name")), Print1(Var("rest")), Return(Num(7))>>),
                            ClassMethod("methodMissing", <<Param("name")>>, Ret(Var("name")))>>),
                   Print1(Ask(New("G", <<>>), "foo", <<Num(4), Num(5)>>)), Print1(Ask(Const("G"), "bar", <<>>)),
                   Print1(Ask(New("G", <<>>), "baz", <<>>))>>)
      [] k = "unknown" ->
            Prog(<<Class0("G", <<>>)>> \o InFunction(<<Try(<<Expr(Ask(New("G", <<>>), "foo", <<Num(1)>>))>>,
                                                           <<CatchOnly("NameError", <<Print1(Str("no"))>>)>>),
                                                       Shield(<<Expr(Ask(Const("G"), "foo", <<>>))>>),
                                                       Shield(<<Print1(Bin(New("G", <<>>), "-", Num(1)))>>),
                                                       Shield(<<Expr(New("Nowhere", <<>>))>>),
                                                       Shield(<<Print1(Under1(Const("G"), "Nowhere"))>>),
                                                       Shield(<<Print1(Prop(Num(3), "x"))>>),
                                                       Shield(<<Expr(Ask(Num(3), "x", <<Num(1)>>))>>),
                                                       Shield(<<SetProp(Num(3), "x", Num(1))>>), Print1(Str("end"))>>))
      [] k = "index" ->
            Prog(<<Class0("V", <<Method("opIndexGet", <<Param("i")>>, Ret(AddTo(Var("i"), 30)))>>),
                   Decl("v", New("V", <<>>)), Print1(Idx("v", 4))>>)
      [] k = "equals" ->
            Prog(<<Class0("V",
                          <<Method("init", <<Param("x")>>, <<SetProp(This1, "x", Var("x"))>>),
                            Method("opEquals", <<Param("o")>>,
                                   <<Print1(Str("eq")), Return(Bin(Field("x"), "==", Prop(Var("o"), "x")))>>)>>),
                   Decl("a", New("V", <<Num(1)>>)),
                   If(Bin(Var("a"), "==", New("V", <<Num(1)>>)), <<Print1(Str("same"))>>),
                   Print1(Bin(Var("a"), "!=", New("V", <<Num(1)>>))),
                   Print1(Bin(Num(3), "+", Prop(New("V", <<New("V", <<Num(4)>>)>>), "x")))>>)
      [] k = "compared" ->
            Prog(<<Class0("V",
                          <<Method("init", <<Param("x")>>, <<SetProp(This1, "x", Var("x"))>>),
                            Method("opCmp", <<Param("n")>>,
                                   <<Print1(Str("cmp")), Return(Bin(Field("x"), "-", Var("n")))>>)>>),
                   Class("W", "V", <<Method("opCmp", <<Param("n")>>, Ret(Str("no")))>>), Class0("U", <<>>),
                   Module1("M", <<ClassMethod("opCmp", <<Param("n")>>, Ret(Var("n")))>>), Decl("a", New("V", <<Num(4)>>))>>
                 \o [i \in 1..4 |-> Print1(Bin(Var("a"), <<"<", "<=", ">", ">=">>[i], Num(4)))]
                 \o <<Print1(Bin(Var("a"), "<", [Num(1) EXCEPT !.val = Fraction(9, 2)])), Print1(Bin(Var("a"), "<", Num(5))),
                      Print1(Bin(Const("M"), ">", Num(2))), Print1(Bin(Str("s"), "<=", Str("s")))>>
                 \o InFunction(<<Shield(<<Print1(Bin(Num(1), "+", Bin(New("W", <<Num(1)>>), "<", Num(5))))>>),
                                 Shield(<<Print1(Bin(New("U", <<>>), ">=", Num(1)))>>),
                                 Shield(<<Print1(Bin(Num(1), "<", Var("a")))>>), Print1(Str("end"))>>))
      [] k = "fixed" ->
            Prog(InFunction(<<Shield(<<Set("clock", Num(1))>>), Decl("clock", Num(2)), Set("clock", Num(3)), Print1(Var("clock"))>>)
                 \o <<Decl("clock", Num(4)), Print1(Str("no"))>>)
      [] k = "nested" ->
            Prog(<<Module1("M",
                           <<SetConst("K", Num(3)),
                             Class0("In",
                                    <<Method("get", <<>>, Ret(Const("K"))),
                                      Method("other", <<>>, Ret(New("Out", <<>>)))>>),
                             Class0("Out", <<Method("k", <<>>, Ret(Under1(Const("M"), "K")))>>)>>),
                   SetConst("K", Num(8)), Decl("i", New1(Under1(Const("M"), "In"), <<>>)),
                   Print1(Ask(Var("i"), "get", <<>>)), Print1(Ask(Ask(Var("i"), "other", <<>>), "k", <<>>)),
                   Print1(Under1(Const("M"), "K")), Print1(TopConst("K")), Print1(Const("K"))>>)
      [] k = "reopen" ->
            Prog(<<Class0("A", <<Method("m", <<>>, Ret(Num(1)))>>), Decl("a", New("A", <<>>)),
                   Class0("A", <<Method("n", <<>>, Ret(AddTo(Ask(This1, "m", <<>>), 1)))>>),
                   Print1(Ask(Var("a"), "n", <<>>)), Class0("A", <<Method("m", <<>>, Ret(Num(5)))>>),
                   Print1(Ask(Var("a"), "n", <<>>)), Module1("M", <<SetConst("X", Num(1))>>),
                   Module1("M", <<ClassMethod("x", <<>>, Ret(Const("X")))>>), Print1(Ask(Const("M"), "x", <<>>)),
                   Shield(<<Class("A", "Object", <<>>)>>), Shield(<<Module1("A", <<>>)>>)>>)
      [] k = "added" ->
            Prog(<<Class0("A",
                          <<ClassMethod("methodAdded", <<Param("name")>>, <<Print1(Var("name"))>>),
                            Method("one", <<>>, <<>>), Getter("g", Ret(Num(1)))>>),
                   Class("B", "A", <<Method("two", <<>>, Ret(Num(2)))>>), Print1(Ask(New("B", <<>>), "two", <<>>)),
                   Print1(Ask(New("A", <<>>), "one", <<>>))>>)
      [] k = "recursion" ->
            Prog(<<Class0("F",
                          <<Method("fact", <<Param("n")>>,
                                   <<If(Bin(Var("n"), "<", Num(2)), <<Return(Num(1))>>),
                                     Return(Bin(Var("n"), "*", Ask(This1, "fact", <<Bin(Var("n"), "-", Num(1))>>)))>>),
                            ClassMethod("sum", <<Param("n")>>,
                                        <<If(Is("n", 0), <<Return(Num(0))>>),
                                          Return(Bin(Var("n"), "+", Ask(This1, "sum", <<Bin(Var("n"), "-", Num(1))>>)))>>)>>),
                   Print1(Ask(New("F", <<>>), "fact", <<Num(4)>>)), Print1(Ask(Const("F"), "sum", <<Num(3)>>))>>)
      [] k = "blocks" ->
            Prog(<<Class0("L",
                          <<Method("two", <<>>,
                                   <<Expr(Call(Var("yield"), <<Num(1)>>)), Print1(Call(Var("yield"), <<Num(2)>>)),
                                     Return(Field("f"))>>),
                            Method("both", <<ParamB("b")>>,
                                   <<Print1(Ask(Var("b"), "yield", <<Num(3)>>)), Return(Num(9))>>)>>),
                   Decl("l", New("L", <<>>)), SetProp(Var("l"), "f", Num(8)), Decl("o", Num(100)),
                   Print1(WithBlock(Ask(Var("l"), "two", <<>>), <<Param("x")>>,
                                    <<If(Is("x", 1), <<Continue>>), Print1(Bin(Var("x"), "+", Var("o"))),
                                      Return(Num(6))>>)),
                   Print1(WithBlock(Ask(Var("l"), "both", <<>>), <<Param("x")>>, <<Print1(Var("x")), Return(Num(4))>>)),
                   Shield(<<Expr(Ask(Var("l"), "two", <<>>))>>),
                   Shield(<<Expr(WithBlock(Ask(Var("l"), "two", <<>>), <<Param("x")>>, <<Throw(Err)>>))>>),
                   Print1(Prop(Var("l"), "f"))>>)
      [] k = "loops" ->
            Prog(<<Class0("L",
                          <<Method("init", <<>>, <<SetProp(This1, "n", Num(0))>>),
                            Method("run", <<>>,
                                   <<While(True1,
                                           <<PropAdd(This1, "n", "+", Num(1)),
                                             If(Bin(Field("n"), "==", Num(3)), <<Break>>), Print1(Field("n"))>>),
                                     Foreach(<<"i">>, Ary(<<Num(1), Num(2)>>),
                                             <<Decl("d", Bin(Var("i"), "*", Field("n"))), Print1(Var("d"))>>),
                                     Each(Ary(<<Num(5), Num(6)>>), "x",
                                          <<If(Is("x", 6), <<Break>>), Print1(Var("x"))>>),
                                     Return(This1)>>)>>),
                   Print1(Prop(Ask(New("L", <<>>), "run", <<>>), "n"))>>)
      [] k = "closures" ->
            Prog(<<Class0("K",
                          <<Method("init", <<Param("s")>>, <<SetProp(This1, "s", Var("s"))>>),
                            Method("mk", <<Param("d")>>,
                                   <<Decl("t", Field("s")),
                                     Return(Anon(<<>>, <<Set("t", Bin(Var("t"), "+", Var("d"))), Return(Var("t"))>>))>>)>>),
                   Decl("c", Ask(New("K", <<Num(10)>>), "mk", <<Num(3)>>)), Print1(Call(Var("c"), <<>>)),
                   Print1(Call(Var("c"), <<>>)),
                   Fun("f", <<Param("z")>>,
                       <<Class0("Local", <<Method("z", <<>>, Ret(Var("z")))>>), Return(New("Local", <<>>))>>),
                   Print1(Ask(Call(Var("f"), <<Num(4)>>), "z", <<>>))>>)
      [] k = "module" ->
            Prog(<<Module1("M",
                           <<Module1("N", <<ClassMethod("id", <<Param("x")>>, Ret(Var("x")))>>),
                             ClassMethod("go", <<Param("x")>>, Ret(AddTo(Ask(Const("N"), "id", <<Var("x")>>), 1)))>>),
                   Print1(Ask(Const("M"), "go", <<Num(4)>>)), Print1(Ask(Under1(Const("M"), "N"), "id", <<Num(5)>>))>>
                 \o InFunction(<<Shield(<<Expr(Call(Const("M"), <<>>))>>)>>))
      [] k = "strings" ->
            Prog(InFunction(<<Decl("s", Str("a")), Print1(Bin(Bin(Var("s"), "+", Str("b")), "+", Var("s"))),
                              Print1(Bin(Bin(Var("s"), "+", Str("")), "==", Str("a"))),
                              Shield(<<Print1(Bin(Var("s"), "+", Num(1)))>>),
                              Shield(<<Print1(Bin(Num(1), "+", Var("s")))>>)>>))
      [] k = "constants" ->
            Prog(<<SetConst("X", Num(1)),
                   Class0("A",
                          <<SetConst("Y", AddTo(Const("X"), 1)), SetConst("X", Num(5)), Print1(Const("X")),
                            Method("xy", <<>>, Ret(Bin(Const("X"), "+", Const("Y"))))>>),
                   Print1(Ask(New("A", <<>>), "xy", <<>>)), Print1(Bin(Under1(Const("A"), "X"), "-", Const("X"))),
                   Print1(Under1(Under1(TopConst("A"), "Y"), "Z"))>>)
      [] k = "qualified" ->
            Prog(<<Module1("M", <<Class("E", "Error", <<>>), Class0("In", <<SetConst("X", Num(1))>>)>>),
                   Class("E", "TypeError", <<>>),
                   Try(<<Throw(New1(Under1(Const("M"), "E"), <<Str("m")>>))>>,
                       <<CatchOnly("E", <<Print1(Str("no"))>>),
                         CatchIn(Under1(Const("M"), "Q"), "", <<Print1(Str("no"))>>),
                         CatchIn(Under1(Under1(Const("M"), "In"), "X"), "", <<>>),
                         CatchIn(Under1(Const("M"), "E"), "e", <<Print1(Prop(Var("e"), "message"))>>)>>),
                   Try(<<Throw(New("E", <<Str("n")>>))>>,
                       <<CatchIn(Under1(Const("M"), "E"), "", <<Print1(Str("no"))>>),
                         CatchIn(TopConst("E"), "e", <<Print1(Prop(Var("e"), "message"))>>)>>),
                   Print1(Under1(Under1(Const("M"), "In"), "X"))>>)
      [] k = "arity" ->
            Prog(<<Class0("A",
                          <<Method("m", <<Param("x")>>, Ret(Var("x"))),
                            Method("n", <<>>, <<Shield(<<Expr(Ask(This1, "m", <<>>))>>), Return(Field("f"))>>)>>),
                   Decl("a", New("A", <<>>)), SetProp(Var("a"), "f", Num(2))>>
                 \o InFunction(<<Shield(<<Expr(Ask(Var("a"), "m", <<Num(1), Num(2)>>))>>)>>)
                 \o <<Print1(Ask(Var("a"), "n", <<>>))>>)
      [] k = "redefined" ->
            Prog(<<Class0("A", <<Method("m", <<>>, Ret(Num(1))), Method("m", <<>>, Ret(Num(2)))>>),
                   Decl("a", New("A", <<>>)), Decl("f", Prop(Var("a"), "m")),
                   Class0("A", <<Method("m", <<>>, Ret(Num(3)))>>), Print1(Call(Var("f"), <<>>)),
                   Print1(Ask(Var("a"), "m", <<>>)), SetProp(Var("a"), "m", Num(4)), Print1(Prop(Var("a"), "m")),
                   Print1(Ask(Var("a"), "m", <<>>))>>)
ClassPrograms == [k \in ClassKinds |-> ClassProgram(k)]

\* The programs of a run, each named by its family and the choices in it.
Conforming ==
    LET keys == {[loop |-> p] : p \in DOMAIN LoopPrograms} \union {[try |-> p] : p \in DOMAIN TryPrograms}
                \union {[closure |-> p] : p \in DOMAIN ClosurePrograms} \union {[call |-> p] : p \in DOMAIN CallPrograms}
                \union {[block |-> p] : p \in DOMAIN BlockPrograms} \union {[fold |-> p] : p \in DOMAIN FoldPrograms}
                \union {[test |-> p] : p \in DOMAIN TestPrograms} \union {[escape |-> p] : p \in DOMAIN EscapePrograms}
                \union {[lookup |-> p] : p \in DOMAIN LookupPrograms} \union {[thrown |-> p] : p \in DOMAIN ThrownPrograms}
                \union {[class |-> p] : p \in DOMAIN ClassPrograms}
        Of(k) == CASE DOMAIN k = {"loop"} -> LoopPrograms[k.loop] [] DOMAIN k = {"try"} -> TryPrograms[k.try]
                   [] DOMAIN k = {"closure"} -> ClosurePrograms[k.closure] [] DOMAIN k = {"call"} -> CallPrograms[k.call]
                   [] DOMAIN k = {"block"} -> BlockPrograms[k.block] [] DOMAIN k = {"fold"} -> FoldPrograms[k.fold]
                   [] DOMAIN k = {"test"} -> TestPrograms[k.test] [] DOMAIN k = {"escape"} -> EscapePrograms[k.escape]
                   [] DOMAIN k = {"lookup"} -> LookupPrograms[k.lookup] [] DOMAIN k = {"thrown"} -> ThrownPrograms[k.thrown]
                   [] DOMAIN k = {"class"} -> ClassPrograms[k.class]
    IN  [k \in keys |-> Of(k)]

\* A break over an expression that the optimizer takes away.
BreakOverUnused ==
    [p \in {"break over an unused constant"} |->
        Prog(<<While(True1, <<Break, Expr(Num(3))>>), Print1(Str("end"))>>)]

\* A function that returns, called in a block.
ReturnInBlock ==
    [p \in {"return in a block"} |->
        Prog(<<Fun("g", <<>>, <<Return(Num(3))>>),
               Each(Ary(<<Num(1), Num(2)>>), "x", <<Print1(Call(Var("g"), <<>>))>>), Print1(Str("end"))>>)]
=============================================================================

------------------------------- MODULE Parser -------------------------------
(* parser.c: from tokens to a syntax tree, by recursive descent.  The C       *)
(* functions share a parser and a scanner; here they take that state, p, and  *)
(* return it changed, with what they made in p.node.  A parse error is a      *)
(* longjmp: p.err is set, and whatever would still follow changes nothing     *)
(* that is looked at.  The source does not come in lines (getMoreSourceFn is  *)
(* NULL): that is how scripts are parsed.                                     *)
EXTENDS Scanner, Syntax

NoToken == Token("", "", <<>>)
\* got: what the last match took, "" when it took nothing.
InitParser(source) ==
    [sc |-> InitScanner(source), peekBuf |-> <<>>, current |-> NoToken, previous |-> NoToken,
     inCallExpr |-> FALSE, err |-> FALSE, got |-> "", node |-> <<>>]

Give(p, node) == [p EXCEPT !.node = node]
None == N("NONE", "", <<>>)
Bad(p) == [p EXCEPT !.err = TRUE, !.got = "", !.node = None]
Lexeme(tok) == IF tok.t = "identifier" THEN tok.v ELSE tok.t
IsCapital(tok) == tok.c = "Word"

\* Scans until there are n tokens to come, or the end.
RECURSIVE FillPeek(_, _)
FillPeek(p, n) ==
    IF Len(p.peekBuf) >= n \/ (p.peekBuf # <<>> /\ Last(p.peekBuf).t = "EOF") THEN p
    ELSE LET scan == ScanToken(p.sc)
         IN  FillPeek([p EXCEPT !.sc = scan.sc, !.peekBuf = Append(@, scan.tok)], n)
PeekTokN(p, n) == IF Len(p.peekBuf) < n THEN Last(p.peekBuf) ELSE p.peekBuf[n]

Advance(p) ==
    LET q == FillPeek(p, 1)
        tok == Head(q.peekBuf)
        moved == [q EXCEPT !.previous = p.current, !.current = tok, !.peekBuf = Tail(@)]
    IN  IF p.err THEN p ELSE IF tok.t = "ERROR" THEN Bad(moved) ELSE moved
Check(p, t) == ~p.err /\ p.current.t = t
Consume(p, t) == IF Check(p, t) THEN Advance(p) ELSE Bad(p)
Match(p, t) == IF Check(p, t) THEN [Advance(p) EXCEPT !.got = t] ELSE [p EXCEPT !.got = ""]
RECURSIVE MatchAny(_, _)
MatchAny(p, ts) ==
    IF ts = <<>> THEN [p EXCEPT !.got = ""]
    ELSE LET q == Match(p, Head(ts)) IN IF q.got # "" THEN q ELSE MatchAny(q, Tail(ts))
\* Is the token followed by the others?
Followed(p, t, ts) ==
    Check(p, t) /\ LET q == FillPeek(p, Len(ts)) IN \A i \in DOMAIN ts : PeekTokN(q, i).t = ts[i]

IsAtEnd(p) == p.err \/ p.previous.t = "EOF" \/ Check(p, "EOF")

RECURSIVE Declaration(_), Expression(_), Assignment(_), Statements(_, _), ClassOrModuleBody(_, _)

-----------------------------------------------------------------------------
(* Statements.                                                                *)

\* A list of statements up to a brace: blockStatements, and blockStmts for the
\* body of a function.
Statements(p, list) ==
    IF IsAtEnd(p) \/ Check(p, "}") THEN Give(Consume(p, "}"), N("STMTLIST_STMT", "", list))
    ELSE LET q == Declaration(p) IN Statements(q, Append(list, q.node))
WrapInBlock(p) == Give(p, N("BLOCK_STMT", "", <<p.node>>))
Braced(p) == WrapInBlock(Statements(Consume(p, "{"), <<>>))
Parenthesized(p) == Consume(Expression(Consume(p, "(")), ")")

PrintStatement(p) == LET e == Expression(p) IN Give(Consume(e, ";"), N("PRINT_STMT", "", <<e.node>>))
ThrowStatement(p) == LET e == Expression(p) IN Give(Consume(e, ";"), N("THROW_STMT", "", <<e.node>>))
ContinueStatement(p) == Give(Consume(p, ";"), N("CONTINUE_STMT", "", <<>>))
BreakStatement(p) == Give(Consume(p, ";"), N("BREAK_STMT", "", <<>>))
ReturnStatement(p) ==
    LET bare == Match(p, ";")
        e == Expression(bare)
    IN  IF bare.got # "" THEN Give(bare, N("RETURN_STMT", "", <<>>))
        ELSE Give(Consume(e, ";"), N("RETURN_STMT", "", <<e.node>>))

ExpressionStatement(p, expectSemi) ==
    LET e == Expression(p)
    IN  Give(IF expectSemi THEN Consume(e, ";") ELSE e, N("EXPR_STMT", "", <<e.node>>))

\* The names of a foreach, up to `in`; without one, the loop ends where no
\* name follows a comma.
RECURSIVE ForeachNames(_, _)
ForeachNames(p, names) ==
    LET name == Match(p, "identifier")
        next == MatchAny(name, <<"in", ",">>)
        all == Append(names, N("VARIABLE_EXPR", Lexeme(name.previous), <<>>))
    IN  CASE name.got = "" -> Give(name, names)
          [] name.got # "" /\ (IsCapital(name.previous) \/ next.got = "") -> Give(Bad(name), names)
          [] name.got # "" /\ ~IsCapital(name.previous) /\ next.got = "in" -> Give(next, all)
          [] OTHER -> ForeachNames(next, all)
ForeachStatement(p) ==
    LET names == ForeachNames(Consume(p, "("), <<>>)
        e == Expression(names)
        body == Braced(Consume(e, ")"))
    IN  Give(body, N("FOREACH_STMT", "", names.node \o <<e.node, body.node>>))

RECURSIVE IfStatement(_)
IfStatement(p) ==
    LET cond == Parenthesized(p)
        then == Braced(cond)
        else == Match(then, "else")
        other == IF Check(else, "if") THEN IfStatement(Advance(else)) ELSE Braced(else)
    IN  IF else.got = "" THEN Give(else, N("IF_STMT", "", <<cond.node, then.node>>))
        ELSE Give(other, N("IF_STMT", "", <<cond.node, then.node, other.node>>))

WhileStatement(p) ==
    LET cond == Parenthesized(p)
        body == Braced(cond)
    IN  Give(body, N("WHILE_STMT", "", <<cond.node, body.node>>))

\* A part of a for that is left out is NULL.
ForStatement(p) ==
    LET open == Consume(p, "(")
        none == Match(open, ";")
        init == CASE none.got # "" -> Give(none, None)
                  [] none.got = "" /\ Check(none, "var") -> Declaration(none)
                  [] OTHER -> ExpressionStatement(none, TRUE)
        noTest == Match(init, ";")
        test == IF noTest.got # "" THEN Give(noTest, None) ELSE Expression(noTest)
        tested == IF noTest.got # "" THEN test ELSE Consume(test, ";")
        incr == IF Check(tested, ")") THEN Give(tested, None) ELSE ExpressionStatement(tested, FALSE)
        body == Braced(Consume(incr, ")"))
    IN  Give(body, N("FOR_STMT", "", <<init.node, test.node, incr.node, body.node>>))

\* catch (Class) { } or catch (Class e) { }.
RECURSIVE Catches1(_, _)
Catches1(p, catches) ==
    LET catch == Match(p, "catch")
        class == Expression(Consume(catch, "("))
        var == Match(class, "identifier")
        body == Braced(Consume(var, ")"))
    IN  IF catch.got = "" THEN Give(catch, catches)
        ELSE Catches1(body, Append(catches, [N("CATCH_STMT", "catch", <<class.node, body.node>>) EXCEPT
                 !.val = IF var.got = "" THEN "" ELSE Lexeme(var.previous)]))
TryStatement(p) ==
    LET block == Braced(p)
        catches == Catches1(block, <<>>)
        else == Match(catches, "else")
        elseBody == Braced(IF catches.node = <<>> THEN Bad(else) ELSE else)
        elsed == IF else.got = "" THEN Give(else, catches.node)
                 ELSE Give(elseBody, Append(catches.node, N("TRY_ELSE_STMT", "", <<elseBody.node>>)))
        ensure == Match(elsed, "ensure")
        ensureBody == Braced(ensure)
        handlers == IF ensure.got = "" THEN elsed
                    ELSE Give(ensureBody, Append(elsed.node, N("ENSURE_STMT", "", <<ensureBody.node>>)))
    IN  Give(handlers, N("TRY_STMT", "", <<block.node>> \o handlers.node))

InStatement(p) ==
    LET object == Parenthesized(p)
        body == ClassOrModuleBody(Consume(object, "{"), <<>>)
    IN  Give(Consume(body, "}"), N("IN_STMT", "", <<object.node, body.node>>))

Statement(p) ==
    LET q == MatchAny(p, <<"print", "foreach", "if", "while", "for", "try", "throw", "continue",
                           "break", "return", "in">>)
    IN  CASE q.got = "print" -> PrintStatement(q) [] q.got = "foreach" -> ForeachStatement(q)
          [] q.got = "if" -> IfStatement(q) [] q.got = "while" -> WhileStatement(q)
          [] q.got = "for" -> ForStatement(q) [] q.got = "try" -> TryStatement(q)
          [] q.got = "throw" -> ThrowStatement(q) [] q.got = "continue" -> ContinueStatement(q)
          [] q.got = "break" -> BreakStatement(q) [] q.got = "return" -> ReturnStatement(q)
          [] q.got = "in" -> InStatement(q) [] q.got = "" -> ExpressionStatement(q, TRUE)

-----------------------------------------------------------------------------
(* Functions, classes, modules, variables.                                    *)

\* The parameters made so far are in list, kw tells of a keyword among them.  A
\* block parameter must be the last.
RECURSIVE ParamList(_, _, _)
ParamList(p, list, kw) ==
    LET q == MatchAny(p, <<"identifier", "*", "&">>)
        named == IF q.got = "identifier" THEN q ELSE Consume(q, "identifier")
        x == Lexeme(named.previous)
        equal == Match(named, "=")
        colon == Match(equal, ":")
        default == Expression(IF colon.got = "" THEN equal ELSE colon)
        required == Check(colon, ")") \/ Check(colon, ",")
        More(r, param, k) ==
            LET comma == Match(r, ",") IN
            IF comma.got = "" THEN Give(comma, Append(list, param)) ELSE ParamList(comma, Append(list, param), k)
    IN  CASE p.err \/ q.got = "" -> Give(q, list)
          [] q.got = "&" -> IF Check(named, ")") THEN ParamList(named, Append(list, ParamB(x)), kw)
                            ELSE Give(Bad(named), list)
          [] q.got = "*" -> More(IF kw THEN Bad(q) ELSE named, ParamS(x), kw)
          [] q.got = "identifier" /\ equal.got # "" ->
                IF kw THEN Give(Bad(equal), list) ELSE More(default, ParamD(x, default.node), kw)
          [] q.got = "identifier" /\ colon.got # "" ->
                IF required THEN More(colon, [kind |-> "KWARG", tok |-> x, kids |-> <<>>], TRUE)
                ELSE More(default, ParamK(x, default.node), TRUE)
          [] OTHER -> More(IF kw THEN Bad(colon) ELSE colon, Param(x), kw)

\* A block need not have a list of parameters.
FunctionParams(p, kind) ==
    LET bare == kind = "BLOCK" /\ Check(p, "{")
        params == ParamList(IF bare THEN p ELSE Consume(p, "("), <<>>, FALSE)
        setter == kind = "SETTER" /\ (Len(params.node) # 1 \/ params.node[1].kind # "REGULAR")
        done == IF setter THEN Bad(params) ELSE params
    IN  CASE kind = "GETTER" -> Give(p, <<>>)
          [] kind # "GETTER" /\ kind = "BLOCK" /\ params.node = <<>> /\ Check(done, "{") -> done
          [] OTHER -> Consume(done, ")")

NodeKinds == [NAMED |-> "FUNCTION_STMT", METHOD |-> "METHOD_STMT", CLASS_METHOD |-> "CLASS_METHOD_STMT",
              GETTER |-> "GETTER_STMT", SETTER |-> "SETTER_STMT", ANON |-> "ANON_FN_EXPR", BLOCK |-> "ANON_FN_EXPR"]
FunDeclaration(p, kind) ==
    LET named == IF kind \in {"ANON", "BLOCK"} THEN p ELSE Consume(p, "identifier")
        params == FunctionParams(IF kind = "SETTER" THEN Consume(named, "=") ELSE named, kind)
        body == Braced(params)
    IN  Give(body, [N(NodeKinds[kind], Lexeme(named.previous), <<body.node>>) EXCEPT !.params = params.node])

\* The body of a class, a module or an `in`, up to its brace.
ClassOrModuleBody(p, list) ==
    LET Is2(ts) == Followed(p, "identifier", ts)
        q == CASE Is2(<<"(">>) -> FunDeclaration(p, "METHOD")
               [] Is2(<<"=", "(">>) -> FunDeclaration(p, "SETTER")
               [] Is2(<<"{">>) -> FunDeclaration(p, "GETTER")
               [] Followed(p, "class", <<"identifier", "(">>) -> FunDeclaration(Advance(p), "CLASS_METHOD")
               [] OTHER -> Declaration(p)
    IN  IF IsAtEnd(p) \/ Check(p, "}") THEN WrapInBlock(Give(p, N("STMTLIST_STMT", "", list)))
        ELSE ClassOrModuleBody(q, Append(list, q.node))

ClassDeclaration(p) ==
    LET name == Consume(p, "identifier")
        less == Match(IF IsCapital(name.previous) THEN name ELSE Bad(name), "<")
        super == IF less.got = "" THEN less ELSE Consume(less, "identifier")
        body == ClassOrModuleBody(Consume(super, "{"), <<>>)
    IN  Give(Consume(body, "}"), [N("CLASS_STMT", Lexeme(name.previous), <<body.node>>) EXCEPT
                                     !.val = IF less.got = "" THEN "" ELSE Lexeme(super.previous)])
ModuleDeclaration(p) ==
    LET name == Consume(p, "identifier")
        body == ClassOrModuleBody(Consume(IF IsCapital(name.previous) THEN name ELSE Bad(name), "{"), <<>>)
    IN  Give(Consume(body, "}"), N("MODULE_STMT", Lexeme(name.previous), <<body.node>>))

RECURSIVE MoreVars(_, _)
MoreVars(p, vars) ==
    LET comma == Match(p, ",")
        name == Consume(comma, "identifier")
    IN  IF comma.got = "" THEN Give(comma, vars)
        ELSE MoreVars(name, Append(vars, N("VAR_STMT", Lexeme(name.previous), <<>>)))
VarDeclaration(p) ==
    LET name == Consume(p, "identifier")
        vars == MoreVars(IF IsCapital(name.previous) THEN Bad(name) ELSE name, <<>>)
        equal == Match(vars, "=")
        e == Expression(equal)
        x == Lexeme(name.previous)
    IN  IF equal.got = "" THEN Give(Consume(equal, ";"), N("VAR_STMT", x, vars.node))
        ELSE Give(Consume(e, ";"), N("VAR_STMT", x, Append(vars.node, e.node)))

Declaration(p) ==
    LET q == MatchAny(p, <<"var", "class", "module">>) IN
    CASE q.got = "var" -> VarDeclaration(q)
      [] q.got = "" /\ Followed(p, "fun", <<"identifier">>) -> FunDeclaration(Advance(p), "NAMED")
      [] q.got = "class" -> ClassDeclaration(q)
      [] q.got = "module" -> ModuleDeclaration(q)
      [] OTHER -> Statement(q)

-----------------------------------------------------------------------------
(* Expressions.                                                               *)

\* A splat is one only among the arguments of a call.
Expression(p) ==
    LET splat == IF p.inCallExpr THEN Match(p, "*") ELSE [p EXCEPT !.got = ""]
        amp == Match(splat, "&")
        e == Assignment(amp)
    IN  CASE splat.got # "" -> Give(e, N("SPLAT_EXPR", "*", <<e.node>>))
          [] splat.got = "" /\ amp.got # "" -> Give(e, N("TO_BLOCK_EXPR", "&", <<e.node>>))
          [] OTHER -> e

\* The levels of the binary operators, the loosest first.  From the fifth on an
\* operator before `=` belongs to an assignment.
BinaryLevels == <<<<"or">>, <<"and">>, <<"==", "!=">>, <<"<", "<=", ">", ">=">>,
                  <<"+", "-">>, <<"|", "&", "^", "<<", ">>">>, <<"*", "/", "%">>>>
AssignOps == {"+", "-", "/", "*", "%", "<<", ">>", "|", "^", "&"}
CheckAssignOp(p) == p.current.t \in AssignOps /\ Followed(p, p.current.t, <<"=">>)
TakeOperator(p, level) ==
    IF level >= 5 /\ CheckAssignOp(p) THEN [p EXCEPT !.got = ""] ELSE MatchAny(p, BinaryLevels[level])

RECURSIVE Unary1(_), Binary(_, _), BinaryRest(_, _)
Binary(p, level) ==
    IF level > Len(BinaryLevels) THEN Unary1(p) ELSE BinaryRest(Binary(p, level + 1), level)
BinaryRest(left, level) ==
    LET op == TakeOperator(left, level)
        right == Binary(op, level + 1)
        kind == IF level <= 2 THEN "LOGICAL_EXPR" ELSE "BINARY_EXPR"
    IN  IF op.got = "" THEN op
        ELSE BinaryRest(Give(right, N(kind, op.got, <<left.node, right.node>>)), level)

\* a = b, o.p = b, a[i] = b, a += b, o.p += b; to the right first.
Assignment(p) ==
    LET left == Binary(p, 1)
        lval == left.node
        equal == Match(left, "=")
        op == Advance(left)
        right == Assignment(IF equal.got = "" THEN Advance(op) ELSE equal)
        Assigned(kind, tok, kids) == Give(right, N(kind, tok, Append(kids, right.node)))
    IN  CASE equal.got # "" /\ lval.k \in {"VARIABLE_EXPR", "CONSTANT_EXPR"} -> Assigned("ASSIGN_EXPR", "=", <<lval>>)
          [] equal.got # "" /\ lval.k = "PROP_ACCESS_EXPR" -> Assigned("PROP_SET_EXPR", lval.tok, lval.kids)
          [] equal.got # "" /\ lval.k = "INDEX_GET_EXPR" -> Assigned("INDEX_SET_EXPR", lval.tok, lval.kids)
          [] equal.got = "" /\ CheckAssignOp(equal) /\ lval.k = "PROP_ACCESS_EXPR" ->
                Assigned("PROP_SET_BINOP_EXPR", op.previous.t, <<lval>>)
          [] equal.got = "" /\ CheckAssignOp(equal) /\ lval.k = "VARIABLE_EXPR" ->
                Assigned("BINARY_ASSIGN_EXPR", op.previous.t, <<lval>>)
          [] equal.got = "" /\ ~CheckAssignOp(equal) -> equal
          [] OTHER -> Bad(right)

RECURSIVE CallRest(_), Arguments(_, _, _)

\* The value of a string: its pieces one after the other.
Piece(u) == CASE u.c \in {"text", "word", "Word"} -> u.v [] u.c = "digits" -> ToString(u.v) [] OTHER -> u.c
TextOf(units) == FoldLeft(LAMBDA t, u : t \o Piece(u), "", units)
StringLiteral(units) == [N("LITERAL_EXPR", "STRING", <<>>) EXCEPT !.val = TextOf(units)]

\* Concatenated to the right.
RECURSIVE StringTogetherNodes(_)
StringTogetherNodes(nodes) ==
    IF Len(nodes) = 1 THEN nodes[1] ELSE N("BINARY_EXPR", "+", <<nodes[1], StringTogetherNodes(Tail(nodes))>>)

\* "a${e}b" is "a" + (String(e) + "b").  What is between ${ and the first },
\* wherever that stands, is parsed by a parser of its own, which does not look
\* whether anything is left after the expression.  After a part that is whole, a
\* ${ without its } is followed through a NULL pointer: that too is an error here.
RECURSIVE Interpolated(_, _, _)
Interpolated(p, units, nodes) ==
    LET begins == {i \in 1..(Len(units) - 1) : units[i].c = "$" /\ units[i + 1].c = "{"}
        begin == CHOOSE i \in begins : \A j \in begins : i <= j
        ends == {i \in begin..Len(units) : units[i].c = "}"}
        end == CHOOSE i \in ends : \A j \in ends : i <= j
        inner == Expression(Advance(InitParser(SubSeq(units, begin + 2, end - 1))))
        string == N("CALL_EXPR", "", <<N("CONSTANT_EXPR", "String", <<>>), inner.node>>)
    IN  CASE begins = {} \/ (ends = {} /\ nodes = <<>>) -> Give(p, StringTogetherNodes(Append(nodes, StringLiteral(units))))
          [] begins # {} /\ ends = {} /\ nodes # <<>> -> Bad(p)
          [] OTHER -> IF inner.err THEN Bad(p)
                      ELSE Interpolated(p, SubSeq(units, end + 1, Len(units)),
                                        nodes \o <<StringLiteral(SubSeq(units, 1, begin - 1)), string>>)

\* a::B::C, ::B::C.
RECURSIVE DiceRest(_)
DiceRest(p) ==
    LET dice == Match(p, "::")
        name == Consume(dice, "identifier")
    IN  IF dice.got = "" THEN dice
        ELSE DiceRest(Give(name, N("CONSTANT_LOOKUP_EXPR", Lexeme(name.previous), <<p.node>>)))
Name(p) ==
    DiceRest(Give(p, N(IF IsCapital(p.previous) THEN "CONSTANT_EXPR" ELSE "VARIABLE_EXPR", Lexeme(p.previous), <<>>)))
TopConstant(p) ==
    LET name == Consume(p, "identifier")
    IN  DiceRest(Give(name, N("CONSTANT_LOOKUP_EXPR", Lexeme(name.previous), <<>>)))
This(p) ==
    LET dice == Match(p, "::")
        name == Consume(dice, "identifier")
        this == N("THIS_EXPR", "this", <<>>)
    IN  IF dice.got = "" THEN Give(dice, this)
        ELSE Give(name, N("CONSTANT_LOOKUP_EXPR", Lexeme(name.previous), <<this>>))
Super1(p) ==
    LET name == Consume(Consume(p, "."), "identifier")
        x == Lexeme(name.previous)
    IN  Give(name, N("SUPER_EXPR", x, <<N("TOKEN", x, <<>>)>>))

\* Commas between the elements may be missing, or too many.
RECURSIVE ArrayRest(_, _)
ArrayRest(p, elements) ==
    LET q == MatchAny(p, <<"]", ",">>)
        e == Expression(q)
    IN  CASE p.err \/ q.got = "]" -> Give(q, N("ARRAY_EXPR", "", elements))
          [] ~p.err /\ q.got = "," -> ArrayRest(q, elements)
          [] OTHER -> ArrayRest(e, Append(elements, e.node))
RECURSIVE MapRest(_, _)
MapRest(p, pairs) ==
    LET key == Expression(p)
        value == Expression(Consume(key, ":"))
        comma == Match(value, ",")
        all == pairs \o <<key.node, value.node>>
    IN  CASE Check(p, "}") -> Give(Advance(p), N("MAP_EXPR", "", pairs))
          [] ~Check(p, "}") /\ comma.got # "" -> MapRest(comma, all)
          [] OTHER -> Give(Consume(comma, "}"), N("MAP_EXPR", "", all))
Grouping(p) == LET e == Expression(p) IN Give(Consume(e, ")"), N("GROUPING_EXPR", "", <<e.node>>))

LiteralKinds == [nil |-> "NIL", true |-> "TRUE", false |-> "FALSE"]
Primary(p) ==
    LET q == MatchAny(p, <<"string", "static", "number", "nil", "true", "false", "identifier", "::", "[">>)
        r == MatchAny(p, <<"(", "super", "this", "fun">>)
        tok == q.previous
        Lit(kind, val) == Give(q, [N("LITERAL_EXPR", kind, <<>>) EXCEPT !.val = val])
    IN  CASE q.got = "string" -> Interpolated(q, tok.v, <<>>)
          [] q.got = "static" -> Lit("STATIC", TextOf(tok.v))
          [] q.got = "number" -> Lit("NUMBER", tok.v)
          [] q.got \in DOMAIN LiteralKinds -> Give(q, N("LITERAL_EXPR", LiteralKinds[q.got], <<>>))
          [] q.got = "identifier" -> Name(q)
          [] q.got = "::" -> TopConstant(q)
          [] q.got = "[" -> ArrayRest(q, <<>>)
          [] q.got = "" /\ Followed(p, "%", <<"{">>) -> MapRest(Advance(Advance(p)), <<>>)
          [] q.got = "" /\ Followed(p, "%", <<"string">>) -> Give(Advance(Advance(p)), N("LITERAL_EXPR", "REGEX", <<>>))
          [] r.got = "(" -> Grouping(r)
          [] r.got = "super" -> Super1(r)
          [] r.got = "this" -> This(r)
          [] r.got = "fun" -> FunDeclaration(r, "ANON")
          [] OTHER -> Bad(p)
Unary1(p) ==
    LET op == MatchAny(p, <<"!", "-">>)
        e == Unary1(op)
        primary == Primary(op)
    IN  IF op.got # "" THEN Give(e, N("UNARY_EXPR", op.got, <<e.node>>))
        ELSE [CallRest(primary) EXCEPT !.inCallExpr = primary.inCallExpr]

\* After a keyword argument only keyword arguments and a block may follow.
Arguments(p, list, kw) ==
    LET keyword == Followed(p, "identifier", <<":">>)
        name == Advance(p)
        e == Expression(IF keyword THEN Advance(name) ELSE p)
        all == Append(list, IF keyword THEN N("KWARG_IN_CALL_STMT", Lexeme(name.previous), <<e.node>>) ELSE e.node)
        comma == Match(e, ",")
    IN  CASE kw /\ ~keyword /\ ~Check(p, "&") -> Give(Bad(p), list)
          [] comma.got # "" /\ (kw => keyword \/ Check(p, "&")) -> Arguments(comma, all, kw \/ keyword)
          [] OTHER -> Give(comma, all)

CallActual(p, callee) ==
    LET none == Match(p, ")")
        args == IF none.got # "" THEN Give(none, <<>>) ELSE Arguments(p, <<>>, FALSE)
        closed == IF none.got # "" THEN args ELSE Consume(args, ")")
        call == N("CALL_EXPR", "", <<callee>> \o args.node)
        arrow == Match(closed, "->")
        block == FunDeclaration(arrow, "BLOCK")
    IN  IF arrow.got = "" THEN Give(arrow, call) ELSE Give(block, N("CALL_BLOCK_EXPR", "", <<call, block.node>>))

\* Calls, properties and indexes, from left to right; inCallExpr is put back
\* only at the end of them all.
CallRest(p) ==
    LET q == MatchAny(p, <<"(", ".", "[">>)
        name == Consume(q, "identifier")
        index == Expression(q)
    IN  CASE q.got = "(" -> CallRest(CallActual([q EXCEPT !.inCallExpr = TRUE], p.node))
          [] q.got = "." -> CallRest(Give(name, N("PROP_ACCESS_EXPR", Lexeme(name.previous), <<p.node>>)))
          [] q.got = "[" -> CallRest(Give(Consume(index, "]"), N("INDEX_GET_EXPR", "", <<p.node, index.node>>)))
          [] q.got = "" -> q

-----------------------------------------------------------------------------
\* The program: a list of declarations, or an error.
RECURSIVE ParseRest(_, _)
ParseRest(p, list) ==
    IF IsAtEnd(p) THEN Give(p, N("STMTLIST_STMT", "", list))
    ELSE LET q == Declaration(p) IN ParseRest(q, Append(list, q.node))
Parse(source) == ParseRest(Advance(InitParser(source)), <<>>)
=============================================================================

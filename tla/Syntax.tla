------------------------------- MODULE Syntax -------------------------------
(* Syntax trees as programs are written down here (nodes.c): a node has a     *)
(* kind, its token, its children, a function's parameters and a literal's     *)
(* value, a class's superclass or the variable of a catch.                    *)
EXTENDS Sequences, Rationals

N(k, tok, kids) == [k |-> k, tok |-> tok, kids |-> kids, params |-> <<>>, val |-> ""]
Num(v) == [N("LITERAL_EXPR", "NUMBER", <<>>) EXCEPT !.val = Whole(v)]
Str(v) == [N("LITERAL_EXPR", "STRING", <<>>) EXCEPT !.val = v]
True1 == N("LITERAL_EXPR", "TRUE", <<>>)
False1 == N("LITERAL_EXPR", "FALSE", <<>>)
Nil1 == N("LITERAL_EXPR", "NIL", <<>>)
Var(x) == N("VARIABLE_EXPR", x, <<>>)
Const(x) == N("CONSTANT_EXPR", x, <<>>)
Bin(a, op, b) == N("BINARY_EXPR", op, <<a, b>>)
Logic(a, op, b) == N("LOGICAL_EXPR", op, <<a, b>>)
Un(op, a) == N("UNARY_EXPR", op, <<a>>)
Set(x, e) == N("EXPR_STMT", "", <<N("ASSIGN_EXPR", "=", <<Var(x), e>>)>>)
Expr(e) == N("EXPR_STMT", "", <<e>>)
Print1(e) == N("PRINT_STMT", "", <<e>>)
Block(ss) == N("BLOCK_STMT", "", <<N("STMTLIST_STMT", "", ss)>>)
If(c, t) == N("IF_STMT", "", <<c, Block(t)>>)
IfElse(c, t, e) == N("IF_STMT", "", <<c, Block(t), Block(e)>>)
While(c, b) == N("WHILE_STMT", "", <<c, Block(b)>>)
For(i, t, s, b) == N("FOR_STMT", "", <<i, t, s, Block(b)>>)
Foreach(xs, e, b) == N("FOREACH_STMT", "", [i \in DOMAIN xs |-> Var(xs[i])] \o <<e, Block(b)>>)
Ary(es) == N("ARRAY_EXPR", "", es)
Decl(x, e) == N("VAR_STMT", x, <<e>>)
Decl0(x) == N("VAR_STMT", x, <<>>)
Break == N("BREAK_STMT", "", <<>>)
Continue == N("CONTINUE_STMT", "", <<>>)
Return(e) == N("RETURN_STMT", "", <<e>>)
Return0 == N("RETURN_STMT", "", <<>>)
Throw(e) == N("THROW_STMT", "", <<e>>)
Call(f, as) == N("CALL_EXPR", "", <<f>> \o as)
Param(x) == [kind |-> "REGULAR", tok |-> x, kids |-> <<>>]
ParamD(x, e) == [kind |-> "DEFAULT", tok |-> x, kids |-> <<e>>]
ParamK(x, e) == [kind |-> "KWARG", tok |-> x, kids |-> <<e>>]
ParamS(x) == [kind |-> "SPLAT", tok |-> x, kids |-> <<>>]
ParamB(x) == [kind |-> "BLOCK", tok |-> x, kids |-> <<>>]
Fun(f, ps, b) == [N("FUNCTION_STMT", f, <<Block(b)>>) EXCEPT !.params = ps]
Anon(ps, b) == [N("ANON_FN_EXPR", "fun", <<Block(b)>>) EXCEPT !.params = ps]
Prop(o, p) == N("PROP_ACCESS_EXPR", p, <<o>>)
WithBlock(c, ps, b) == N("CALL_BLOCK_EXPR", "", <<c, Anon(ps, b)>>)
Each(e, x, b) == Expr(WithBlock(Call(Prop(e, "each"), <<>>), <<Param(x)>>, b))
CatchIn(c, x, b) == [N("CATCH_STMT", "catch", <<c, Block(b)>>) EXCEPT !.val = x]
Catch(cls, x, b) == CatchIn(Const(cls), x, b)
CatchOnly(cls, b) == Catch(cls, "", b)
Else(b) == N("TRY_ELSE_STMT", "", <<Block(b)>>)
Ensure(b) == N("ENSURE_STMT", "", <<Block(b)>>)
Try(b, hs) == N("TRY_STMT", "", <<Block(b)>> \o hs)
Class(c, super, b) == [N("CLASS_STMT", c, <<Block(b)>>) EXCEPT !.val = super]
Class0(c, b) == N("CLASS_STMT", c, <<Block(b)>>)
Module1(c, b) == N("MODULE_STMT", c, <<Block(b)>>)
Method(f, ps, b) == [N("METHOD_STMT", f, <<Block(b)>>) EXCEPT !.params = ps]
ClassMethod(f, ps, b) == [N("CLASS_METHOD_STMT", f, <<Block(b)>>) EXCEPT !.params = ps]
Getter(f, b) == N("GETTER_STMT", f, <<Block(b)>>)
Setter(f, x, b) == [N("SETTER_STMT", f, <<Block(b)>>) EXCEPT !.params = <<Param(x)>>]
Under1(e, c) == N("CONSTANT_LOOKUP_EXPR", c, <<e>>)
TopConst(c) == N("CONSTANT_LOOKUP_EXPR", c, <<>>)
SetConst(c, e) == Expr(N("ASSIGN_EXPR", "=", <<Const(c), e>>))
PropAdd(o, p, op, e) == Expr(N("PROP_SET_BINOP_EXPR", op, <<Prop(o, p), e>>))
SetProp(o, p, e) == Expr(N("PROP_SET_EXPR", p, <<o, e>>))
This1 == N("THIS_EXPR", "this", <<>>)
SuperCall(m, as) == Call(N("SUPER_EXPR", m, <<N("TOKEN", m, <<>>)>>), as)
Prog(ss) == N("STMTLIST_STMT", "", ss)
Err == Call(Const("Error"), <<Str("m")>>)
=============================================================================

------------------------------- MODULE Source -------------------------------
(* How a program is written: the text of a tree, with no more parentheses     *)
(* than the grammar of the language needs and no more blanks than keep words  *)
(* apart.  It is the reader's side of the grammar, not the program's.         *)
EXTENDS Syntax, SequencesExt

Unit(c, v) == <<[c |-> c, v |-> v]>>
Is1(c) == Unit(c, "")
W(x) == Unit("word", x)
CapW(x) == Unit("Word", x)
Marked(s) == FlattenSeq([i \in DOMAIN s |-> Is1(s[i])])
Quoted(v) == Is1("\"") \o (IF v = "" THEN <<>> ELSE Unit("text", v)) \o Is1("\"")

\* A mark of two characters is two units.
Op(tok) == CASE tok \in {"and", "or"} -> Is1(" ") \o W(tok) \o Is1(" ")
             [] tok = "==" -> Marked(<<"=", "=">>) [] tok = "!=" -> Marked(<<"!", "=">>)
             [] tok = "<=" -> Marked(<<"<", "=">>) [] tok = ">=" -> Marked(<<">", "=">>)
             [] OTHER -> Is1(tok)

\* How tightly an expression binds: an operand that binds less is in parentheses.
Binds == [or |-> 1, and |-> 2, eq |-> 3, cmp |-> 4, add |-> 5, mul |-> 7, un |-> 8, post |-> 9]
Level(n) ==
    CASE n.k \in {"ASSIGN_EXPR", "PROP_SET_EXPR", "PROP_SET_BINOP_EXPR", "BINARY_ASSIGN_EXPR"} -> 0
      [] n.k = "LOGICAL_EXPR" -> IF n.tok = "or" THEN Binds.or ELSE Binds.and
      [] n.k = "BINARY_EXPR" -> CASE n.tok \in {"==", "!="} -> Binds.eq
                                  [] n.tok \in {"<", "<=", ">", ">="} -> Binds.cmp
                                  [] n.tok \in {"+", "-"} -> Binds.add
                                  [] OTHER -> Binds.mul
      [] n.k = "UNARY_EXPR" -> Binds.un
      [] OTHER -> Binds.post

Literal(n) ==
    CASE n.tok = "STRING" -> Quoted(n.val)
      [] n.tok = "TRUE" -> W("true") [] n.tok = "FALSE" -> W("false") [] n.tok = "NIL" -> W("nil")
      [] n.tok = "NUMBER" ->
            LET top == n.val[1] bottom == n.val[2] IN
            Unit("digits", top \div bottom)
            \o IF bottom = 1 THEN <<>> ELSE Is1(".") \o Unit("digits", ((top % bottom) * 10) \div bottom)

Commas(texts) ==
    FlattenSeq([i \in DOMAIN texts |-> IF i = 1 THEN texts[1] ELSE Is1(",") \o texts[i]])
Parens(t) == Is1("(") \o t \o Is1(")")

RECURSIVE Text(_)
TextAt(n, level) == IF Level(n) < level THEN Parens(Text(n)) ELSE Text(n)
Listed(ns) == Commas([i \in DOMAIN ns |-> Text(ns[i])])
Written(ns) == FlattenSeq([i \in DOMAIN ns |-> Text(ns[i])])
ParamText(p) ==
    CASE p.kind = "REGULAR" -> W(p.tok)
      [] p.kind = "DEFAULT" -> W(p.tok) \o Is1("=") \o Text(p.kids[1])
      [] p.kind = "KWARG" -> W(p.tok) \o Is1(":") \o Written(p.kids)
      [] p.kind = "SPLAT" -> Is1("*") \o W(p.tok)
      [] p.kind = "BLOCK" -> Is1("&") \o W(p.tok)
Params1(ps) == Parens(Commas([i \in DOMAIN ps |-> ParamText(ps[i])]))
Bound1(n) == IF n.val = "" THEN <<>> ELSE Is1(" ") \o W(n.val)
Ends == Is1(";") \o Is1("\n")

\* The superclass of a class is a name, not a node.
Statement1(n) ==
    CASE n.k = "EXPR_STMT" -> Text(n.kids[1]) \o Ends
      [] n.k = "PRINT_STMT" -> W("print") \o Is1(" ") \o Text(n.kids[1]) \o Ends
      [] n.k = "VAR_STMT" -> W("var") \o Is1(" ") \o W(n.tok)
                             \o (IF n.kids = <<>> THEN <<>> ELSE Is1("=") \o Text(n.kids[1])) \o Ends
      [] n.k = "STMTLIST_STMT" -> Written(n.kids)
      [] n.k = "BLOCK_STMT" -> Is1("{") \o Is1("\n") \o Written(n.kids) \o Is1("}") \o Is1("\n")
      [] n.k = "IF_STMT" -> W("if") \o Parens(Text(n.kids[1])) \o Text(n.kids[2])
                            \o (IF Len(n.kids) = 2 THEN <<>> ELSE W("else") \o Is1(" ") \o Text(n.kids[3]))
      [] n.k = "WHILE_STMT" -> W("while") \o Parens(Text(n.kids[1])) \o Text(n.kids[2])
      [] n.k = "FOR_STMT" -> W("for") \o Is1("(") \o Text(n.kids[1]) \o Text(n.kids[2]) \o Is1(";")
                             \o Text(n.kids[3].kids[1]) \o Is1(")") \o Text(n.kids[4])
      [] n.k = "FOREACH_STMT" -> W("foreach") \o Is1("(") \o Listed(SubSeq(n.kids, 1, Len(n.kids) - 2))
                                 \o Is1(" ") \o W("in") \o Is1(" ") \o Text(n.kids[Len(n.kids) - 1]) \o Is1(")")
                                 \o Text(n.kids[Len(n.kids)])
      [] n.k = "BREAK_STMT" -> W("break") \o Ends
      [] n.k = "CONTINUE_STMT" -> W("continue") \o Ends
      [] n.k = "RETURN_STMT" -> W("return") \o Is1(" ") \o Written(n.kids) \o Ends
      [] n.k = "THROW_STMT" -> W("throw") \o Is1(" ") \o Text(n.kids[1]) \o Ends
      [] n.k = "TRY_STMT" -> W("try") \o Written(n.kids)
      [] n.k = "CATCH_STMT" -> W("catch") \o Parens(Text(n.kids[1]) \o Bound1(n)) \o Text(n.kids[2])
      [] n.k = "TRY_ELSE_STMT" -> W("else") \o Text(n.kids[1])
      [] n.k = "ENSURE_STMT" -> W("ensure") \o Text(n.kids[1])
      [] n.k = "CLASS_STMT" -> W("class") \o Is1(" ") \o CapW(n.tok)
                               \o (IF n.val = "" THEN <<>> ELSE Is1("<") \o CapW(n.val)) \o Written(n.kids)
      [] n.k = "MODULE_STMT" -> W("module") \o Is1(" ") \o CapW(n.tok) \o Written(n.kids)
      [] n.k = "METHOD_STMT" -> W(n.tok) \o Params1(n.params) \o Written(n.kids)
      [] n.k = "CLASS_METHOD_STMT" -> W("class") \o Is1(" ") \o W(n.tok) \o Params1(n.params) \o Written(n.kids)
      [] n.k = "GETTER_STMT" -> W(n.tok) \o Written(n.kids)
      [] n.k = "SETTER_STMT" -> W(n.tok) \o Is1("=") \o Params1(n.params) \o Written(n.kids)
      [] n.k = "FUNCTION_STMT" -> W("fun") \o Is1(" ") \o W(n.tok) \o Params1(n.params) \o Written(n.kids)

Expression1(n) ==
    LET level == Level(n) IN
    CASE n.k = "LITERAL_EXPR" -> Literal(n)
      [] n.k = "VARIABLE_EXPR" -> W(n.tok)
      [] n.k = "CONSTANT_EXPR" -> CapW(n.tok)
      [] n.k \in {"LOGICAL_EXPR", "BINARY_EXPR"} ->
            TextAt(n.kids[1], level) \o Op(n.tok) \o TextAt(n.kids[2], level + 1)
      [] n.k = "UNARY_EXPR" -> Is1(n.tok) \o TextAt(n.kids[1], level)
      [] n.k = "ASSIGN_EXPR" -> Text(n.kids[1]) \o Is1("=") \o Text(n.kids[2])
      [] n.k = "ARRAY_EXPR" -> Is1("[") \o Listed(n.kids) \o Is1("]")
      [] n.k = "CALL_EXPR" -> TextAt(n.kids[1], level) \o Parens(Listed(Tail(n.kids)))
      [] n.k = "KWARG_IN_CALL_STMT" -> W(n.tok) \o Is1(":") \o Text(n.kids[1])
      [] n.k = "PROP_ACCESS_EXPR" -> TextAt(n.kids[1], level) \o Is1(".") \o W(n.tok)
      [] n.k = "PROP_SET_EXPR" ->
            TextAt(n.kids[1], Binds.post) \o Is1(".") \o W(n.tok) \o Is1("=") \o Text(n.kids[2])
      [] n.k = "PROP_SET_BINOP_EXPR" -> Text(n.kids[1]) \o Marked(<<n.tok, "=">>) \o Text(n.kids[2])
      [] n.k = "THIS_EXPR" -> W("this")
      [] n.k = "SUPER_EXPR" -> W("super") \o Is1(".") \o W(n.tok)
      [] n.k = "CONSTANT_LOOKUP_EXPR" ->
            (IF n.kids = <<>> THEN <<>> ELSE Text(n.kids[1])) \o Marked(<<":", ":">>) \o CapW(n.tok)
      [] n.k = "INDEX_GET_EXPR" -> TextAt(n.kids[1], level) \o Is1("[") \o Text(n.kids[2]) \o Is1("]")
      [] n.k = "CALL_BLOCK_EXPR" -> Text(n.kids[1]) \o Marked(<<"-", ">">>) \o Params1(n.kids[2].params) \o Written(n.kids[2].kids)
      [] n.k = "ANON_FN_EXPR" -> W("fun") \o Params1(n.params) \o Written(n.kids)

Statements1 == {"EXPR_STMT", "PRINT_STMT", "VAR_STMT", "STMTLIST_STMT", "BLOCK_STMT", "IF_STMT", "WHILE_STMT",
                "FOR_STMT", "FOREACH_STMT", "BREAK_STMT", "CONTINUE_STMT", "RETURN_STMT", "THROW_STMT", "TRY_STMT",
                "CATCH_STMT", "TRY_ELSE_STMT", "ENSURE_STMT", "FUNCTION_STMT", "CLASS_STMT", "MODULE_STMT",
                "METHOD_STMT", "CLASS_METHOD_STMT", "GETTER_STMT", "SETTER_STMT"}
Text(n) == IF n.k \in Statements1 THEN Statement1(n) ELSE Expression1(n)
=============================================================================

------------------------------ MODULE Frontend ------------------------------
(* The compiler from the text of a program: scanner, parser, code.            *)
EXTENDS Parser, Source, Compiler

\* A source that does not parse is refused before any code is made.
CompileText(text, optimize) ==
    LET parsed == Parse(text)
    IN  IF parsed.err THEN [funcs |-> <<>>, hadError |-> TRUE, abort |-> FALSE]
        ELSE CompileNode(parsed.node, optimize)

\* A program given as a tree is written down first.
CompileSource(program, optimize) ==
    LET text == Text(program) IN CompileText(text, optimize)
=============================================================================

------------------------------ MODULE Scanner ------------------------------
(* scanner.c: from a text to tokens.  A text is a sequence of units [c, v]: a *)
(* punctuation mark, a blank or a newline is its own class c; a run of        *)
(* letters is one unit of class "word", or "Word" when it begins with a       *)
(* capital, with the name in v; a run of digits is "digits", with the number  *)
(* in v; any other piece of a string or a comment is "text".                  *)
EXTENDS Sequences, SequencesExt, Rationals

Keywords == {"and", "class", "module", "else", "false", "for", "fun", "if", "nil", "try", "catch",
             "throw", "ensure", "or", "print", "return", "super", "this", "true", "var", "while",
             "continue", "break", "in", "foreach", "__END__"}
Marks == {"(", ")", "{", "}", "[", "]", ";", ":", ",", "-", "+", "/", "%", "*", "|", "^", "&", "!", "=", "<", ">"}
\* A mark that goes on with the next character is a longer token.
LongMarks == <<<<":", ":", "::">>, <<"-", ">", "->">>, <<"!", "=", "!=">>, <<"=", "=", "==">>,
               <<"<", "=", "<=">>, <<"<", "<", "<<">>, <<">", "=", ">=">>, <<">", ">", ">>">>>>

InitScanner(source) == [source |-> source, at |-> 1, line |-> 1, afterDot |-> FALSE, ended |-> FALSE]

SourceEnds(sc) == sc.ended \/ sc.at > Len(sc.source)
Class1(sc, i) == IF i > Len(sc.source) THEN "" ELSE sc.source[i].c
Char(sc) == Class1(sc, sc.at)
CharNext(sc) == IF SourceEnds(sc) THEN "" ELSE Class1(sc, sc.at + 1)
Skip(sc, n) == [sc EXCEPT !.at = @ + n]

\* The first place, not before the scanner's, that passes the test, or the end.
FirstAt(sc, Test(_)) ==
    LET at == {i \in sc.at..Len(sc.source) : Test(i)}
    IN  IF at = {} THEN Len(sc.source) + 1 ELSE CHOOSE i \in at : \A j \in at : i <= j
\* Going there, over the newlines on the way.
SkipTo(sc, i) ==
    [sc EXCEPT !.at = i,
               !.line = @ + Cardinality({j \in sc.at..(i - 1) : Class1(sc, j) = "\n"})]

\* A token has a type (its characters, for marks and keywords) and, for the
\* others, what it stands for.  After a dot every word is a name.
Token(t, c, v) == [t |-> t, c |-> c, v |-> v]
EndToken == Token("EOF", "", <<>>)
MakeToken(sc, tok) ==
    IF tok.t = "__END__" THEN [tok |-> EndToken, sc |-> [sc EXCEPT !.ended = TRUE, !.afterDot = FALSE]]
    ELSE [tok |-> tok, sc |-> [sc EXCEPT !.afterDot = tok.t = "."]]
ErrorToken(sc) == [tok |-> Token("ERROR", "", <<>>), sc |-> sc]

RECURSIVE SkipWhitespace(_)
SkipWhitespace(sc) ==
    LET lineEnd == FirstAt(sc, LAMBDA i : Class1(sc, i) = "\n")
        inside == Skip(sc, 2)
        commentEnd == FirstAt(inside, LAMBDA i : Class1(sc, i) = "*" /\ Class1(sc, i + 1) = "/") + 2
    IN  CASE Char(sc) = " " -> SkipWhitespace(Skip(sc, 1))
          [] Char(sc) = "\n" -> SkipWhitespace(SkipTo(sc, sc.at + 1))
          [] Char(sc) = "/" /\ CharNext(sc) = "/" -> SkipWhitespace(SkipTo(sc, lineEnd))
          [] Char(sc) = "/" /\ CharNext(sc) = "*" -> SkipWhitespace(SkipTo(sc, commentEnd))
          [] OTHER -> sc

\* The name is compared with "__LINE__" only as far as it goes: every beginning
\* of it is the number of the line too.
LineNames == {"_", "__", "__L", "__LI", "__LIN", "__LINE", "__LINE_", "__LINE__"}
Identifier(sc) ==
    LET unit == sc.source[sc.at]
        past == Skip(sc, 1)
    IN  CASE ~sc.afterDot /\ unit.v \in Keywords -> MakeToken(past, Token(unit.v, "", <<>>))
          [] unit.v \in LineNames -> MakeToken(past, Token("number", "", Whole(sc.line)))
          [] OTHER -> MakeToken(past, Token("identifier", unit.c, unit.v))

\* A fraction has one digit.
Number(sc) ==
    LET whole == Whole(sc.source[sc.at].v)
        fraction == Fraction(sc.source[sc.at + 2].v, 10)
    IN  IF CharNext(sc) = "." /\ Class1(sc, sc.at + 2) = "digits"
          THEN MakeToken(Skip(sc, 3), Token("number", "", Plus(whole, fraction)))
          ELSE MakeToken(Skip(sc, 1), Token("number", "", whole))

\* The text up to the next quote of the kind that began it; the token is of the
\* type t.  A quote after a backslash is part of a "text" unit.
QuotedString(sc, t) ==
    LET quote == Char(sc)
        start == Skip(sc, 1)
        end == FirstAt(start, LAMBDA i : Class1(sc, i) = quote)
    IN  IF end > Len(sc.source) THEN ErrorToken(SkipTo(sc, end))
        ELSE MakeToken(Skip(SkipTo(start, end), 1), Token(t, "", SubSeq(sc.source, start.at, end - 1)))

\* <<<NAME, the lines up to one that begins with NAME; what follows it on its
\* line is scanned again.
HeredocString(sc) ==
    LET first == SkipTo(sc, FirstAt(sc, LAMBDA i : Class1(sc, i) = "\n") + 1)
        name == SubSeq(sc.source, sc.at, first.at - 2)
        last == FirstAt(first, LAMBDA i : /\ i = first.at \/ Class1(sc, i - 1) = "\n"
                                         /\ SubSeq(sc.source, i, i + Len(name) - 1) = name)
    IN  IF name = <<>> \/ last > Len(sc.source) THEN ErrorToken(SkipTo(sc, last))
        ELSE MakeToken(Skip(SkipTo(first, last), Len(name)),
                       Token("string", "", SubSeq(sc.source, first.at, last - 1)))

RECURSIVE ScanToken(_)
ScanToken(sc0) ==
    LET sc == SkipWhitespace(sc0)
        c == Char(sc)
        long == SelectInSeq(LongMarks, LAMBDA m : m[1] = c /\ m[2] = CharNext(sc))
        heredoc == c = "<" /\ CharNext(sc) = "<" /\ Class1(sc, sc.at + 2) = "<"
        static == c = "word" /\ sc.source[sc.at].v = "s" /\ CharNext(sc) = "'"
        Mark(t, n) == MakeToken(Skip(sc, n), Token(t, "", <<>>))
    IN  CASE SourceEnds(sc) -> MakeToken(sc, EndToken)
          [] c = "digits" -> Number(sc)
          [] c = "." /\ sc.afterDot -> ScanToken(Skip(sc, 2))
          [] c = "." /\ ~sc.afterDot -> Mark(".", 1)
          [] c \in {"\"", "'"} -> QuotedString(sc, "string")
          [] static -> QuotedString(Skip(sc, 1), "static")
          [] heredoc -> HeredocString(Skip(sc, 3))
          [] c \in Marks /\ ~heredoc -> IF long = 0 THEN Mark(c, 1) ELSE Mark(LongMarks[long][3], 2)
          [] c \in {"word", "Word"} /\ ~static -> Identifier(sc)
          [] OTHER -> ErrorToken(sc)
=============================================================================

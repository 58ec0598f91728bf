------------------------------ MODULE MCLoxMap ------------------------------
(* Small instances of LoxMap for TLC. *)
EXTENDS LoxMap

\* Characters a..d.  In four slots a, b and d share a home and c has the last
\* one; in eight, b parts from a and d, so growth reorders the entries.
MCHash == [c \in {"a", "b", "c", "d"} |->
             CASE c = "a" -> 0 [] c = "b" -> 4 [] c = "c" -> 3 [] c = "d" -> 8]

\* In four slots a and b share the last home and c has the first, so that the
\* probes, and the entries a deletion moves, go round the end of the array; in
\* two and in eight slots the homes are others.
WrapHash == [c \in {"a", "b", "c"} |-> CASE c = "a" -> 3 [] c = "b" -> 7 [] c = "c" -> 0]

MCFirstChars(n) == [k \in 1..n |-> CASE k = 1 -> "a" [] k = 2 -> "b" [] k = 3 -> "c" [] k = 4 -> "d"]
ThreeKeys == MCFirstChars(3)
FourKeys == MCFirstChars(4)
=============================================================================

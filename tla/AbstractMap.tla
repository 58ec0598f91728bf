---------------------------- MODULE AbstractMap ----------------------------
(***************************************************************************)
(* What a Map object promises a lox program: each map is a partial function *)
(* from characters to values, and every operation answers from it.         *)
(***************************************************************************)
CONSTANTS Maps, Chars, Values, Nil

VARIABLES dict,  \* the function each map stands for
          ret    \* the answer to the last operation

TypeOK ==
  /\ \A m \in Maps : /\ DOMAIN dict[m] \subseteq Chars
                     /\ \A c \in DOMAIN dict[m] : dict[m][c] \in Values
  /\ ret \in Values \cup {Nil} \cup BOOLEAN

Nothing == [c \in {} |-> Nil]
Init == dict = [m \in Maps |-> Nothing] /\ ret = Nil

Merge(f, g) == [c \in DOMAIN f \cup DOMAIN g |-> IF c \in DOMAIN g THEN g[c] ELSE f[c]]
Without(f, c) == [d \in DOMAIN f \ {c} |-> f[d]]

Become(m, f) == dict' = [dict EXCEPT ![m] = f]

Set(m, c, v) == Become(m, Merge(dict[m], [d \in {c} |-> v])) /\ ret' = v
Get(m, c) == /\ ret' = IF c \in DOMAIN dict[m] THEN dict[m][c] ELSE Nil
             /\ UNCHANGED dict
Delete(m, c) == Become(m, Without(dict[m], c)) /\ ret' = (c \in DOMAIN dict[m])
Clear(m) == Become(m, Nothing) /\ ret' = Nil
Dup(m, o) == Become(m, dict[o]) /\ ret' = Nil
MergeWith(m, o) == Become(m, Merge(dict[m], dict[o])) /\ ret' = Nil

Next == \E m \in Maps :
  \/ \E c \in Chars : \/ Get(m, c) \/ Delete(m, c)
                      \/ \E v \in Values : Set(m, c, v)
  \/ Clear(m)
  \/ \E o \in Maps \ {m} : Dup(m, o) \/ MergeWith(m, o)

Spec == Init /\ [][Next]_<<dict, ret>>
=============================================================================

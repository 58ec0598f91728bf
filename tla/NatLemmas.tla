------------------------------ MODULE NatLemmas ------------------------------
(***************************************************************************)
(* Facts about the natural numbers the other proofs cite: a nonempty set   *)
(* has a least member; induction, stated over sets of numbers; and that a  *)
(* function defined by recursion over an interval exists.                  *)
(***************************************************************************)
EXTENDS Integers, WellFoundedInduction, TLAPS

(* getSignal's choice, and the end of every probe: a nonempty set of       *)
(* naturals has a least member. *)
LEMMA LeastMember ==
  ASSUME NEW S \in SUBSET Nat, S # {}
  PROVE  \E n \in S : \A m \in S : n <= m
<1> DEFINE R == OpToRel(<, Nat)
<1>1. IsWellFoundedOn(R, Nat)
  BY NatLessThanWellFounded
<1>2. \A x, y \in Nat : y < x => <<y, x>> \in R
  BY DEF OpToRel
<1> HIDE DEF R
<1>3. \E x \in S : \A y \in S : ~ (<<y, x>> \in R)
  BY <1>1, WFMin
<1>4. PICK n \in S : \A y \in S : ~ (<<y, n>> \in R)
  BY <1>3
<1>5. ASSUME NEW m \in S PROVE n <= m
  <2>1. n \in Nat /\ m \in Nat
    OBVIOUS
  <2>2. ~(m < n)
    BY <1>2, <1>4, <2>1
  <2>3. QED
    BY <2>1, <2>2
<1>6. QED
  BY <1>5

(* Induction: a set of naturals with 0 and every successor is all of them. *)
LEMMA InductiveSet ==
  ASSUME NEW S \in SUBSET Nat, 0 \in S, \A n \in S : n + 1 \in S
  PROVE  S = Nat
<1> SUFFICES ASSUME S # Nat PROVE FALSE
  OBVIOUS
<1>1. Nat \ S # {} /\ Nat \ S \in SUBSET Nat
  OBVIOUS
<1>2. PICK n \in Nat \ S : \A m \in Nat \ S : n <= m
  BY <1>1, LeastMember
<1>3. n # 0 /\ n - 1 \in Nat /\ ~(n <= n - 1)
  OBVIOUS
<1>4. n - 1 \in S
  BY <1>2, <1>3
<1>5. (n - 1) + 1 \in S
  BY <1>4
<1>6. QED
  BY <1>2, <1>5

(* A loop over 0..N: what holds at the start and is kept by every step     *)
(* holds throughout. *)
LEMMA CountingUp ==
  ASSUME NEW N \in Nat, NEW S, 0 \in S, \A i \in 0..N-1 : i \in S => i + 1 \in S
  PROVE  \A i \in 0..N : i \in S
<1> DEFINE T == {n \in Nat : n <= N => n \in S}
<1>1. 0 \in T
  OBVIOUS
<1>2. ASSUME NEW n \in T PROVE n + 1 \in T
  <2>1. CASE n + 1 <= N
    BY <2>1
  <2>2. CASE ~(n + 1 <= N)
    BY <2>2
  <2>3. QED
    BY <2>1, <2>2
<1>3. T = Nat
  <2> HIDE DEF T
  <2>1. T \in SUBSET Nat
    BY DEF T
  <2>2. QED
    BY <1>1, <1>2, <2>1, InductiveSet
<1>4. QED
  BY <1>3

\* f lists the states of a loop from base on: after i rounds, f[i].
Iterates(f, N, S, base, step) ==
  /\ f \in [0..N -> S]
  /\ f[0] = base
  /\ \A i \in 0..N-1 : f[i + 1] = step[<<f[i], i>>]

(* The states of a loop over 0..N whose every step is a function of the    *)
(* state and the index form a function: what a recursive definition over   *)
(* an interval chooses. *)
LEMMA Recursion ==
  ASSUME NEW N \in Nat, NEW S, NEW base \in S, NEW step \in [S \X (0..N-1) -> S]
  PROVE  \E f : Iterates(f, N, S, base, step)
<1> DEFINE Good(f, n) == f[0] = base /\ \A i \in 0..n-1 : f[i + 1] = step[<<f[i], i>>]
           T == {n \in 0..N : \E f \in [0..n -> S] : Good(f, n)}
<1>1. 0 \in T
  <2>1. [i \in 0..0 |-> base] \in [0..0 -> S] /\ Good([i \in 0..0 |-> base], 0)
    OBVIOUS
  <2> HIDE DEF Good
  <2>2. \E f \in [0..0 -> S] : Good(f, 0)
    BY <2>1
  <2>3. QED
    BY <2>2
<1>2. ASSUME NEW n \in 0..N-1, n \in T PROVE n + 1 \in T
  <2>1. PICK f \in [0..n -> S] : Good(f, n)
    BY <1>2
  <2>2. <<f[n], n>> \in S \X (0..N-1)
    OBVIOUS
  <2>3. step[<<f[n], n>>] \in S
    BY <2>2
  <2> DEFINE g == [i \in 0..n+1 |-> IF i = n + 1 THEN step[<<f[n], n>>] ELSE f[i]]
  <2>4. g \in [0..n+1 -> S]
    BY <2>3
  <2>5. Good(g, n + 1)
    <3>1. g[0] = base
      BY <2>1
    <3>2. ASSUME NEW i \in 0..(n+1)-1 PROVE g[i + 1] = step[<<g[i], i>>]
      <4>1. CASE i = n
        <5>1. n + 1 \in 0..n+1 /\ n \in 0..n+1 /\ n # n + 1
          OBVIOUS
        <5>2. g[n + 1] = step[<<f[n], n>>] /\ g[n] = f[n]
          BY <5>1
        <5>3. QED
          BY <4>1, <5>2
      <4>2. CASE i # n
        <5>1. i \in 0..n-1 /\ i + 1 # n + 1 /\ i # n + 1 /\ i + 1 \in 0..n+1 /\ i \in 0..n+1
          BY <4>2
        <5>2. g[i + 1] = f[i + 1] /\ g[i] = f[i]
          BY <5>1
        <5>3. QED
          BY <2>1, <5>1, <5>2
      <4>3. QED
        BY <4>1, <4>2
    <3>3. QED
      BY <3>1, <3>2
  <2>6. n + 1 \in 0..N
    OBVIOUS
  <2>7. QED
    BY <2>4, <2>5, <2>6
<1>3. N \in T
  <2> HIDE DEF T
  <2>1. \A i \in 0..N : i \in T
    BY <1>1, <1>2, CountingUp
  <2>2. QED
    BY <2>1
<1>4. PICK f \in [0..N -> S] : Good(f, N)
  BY <1>3
<1>5. Iterates(f, N, S, base, step)
  BY <1>4 DEF Iterates
<1>6. QED
  BY <1>5
=============================================================================

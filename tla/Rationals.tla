------------------------------ MODULE Rationals ------------------------------
(* Numbers of the language: doubles, taken for the fractions they are exact    *)
(* for.  A fraction is <<n, d>> with d > 0 and nothing to cancel.              *)
EXTENDS Integers

Magnitude(n) == IF n < 0 THEN -n ELSE n
Divides(g, n) == n % g = 0
Fraction(n, d) ==
    LET top == IF d < 0 THEN -n ELSE n
        g == CHOOSE i \in 1..Magnitude(d) :
                /\ Divides(i, Magnitude(n)) /\ Divides(i, Magnitude(d))
                /\ \A j \in (i + 1)..Magnitude(d) : ~(Divides(j, Magnitude(n)) /\ Divides(j, Magnitude(d)))
    IN  <<IF top < 0 THEN -(Magnitude(n) \div g) ELSE Magnitude(n) \div g, Magnitude(d) \div g>>

Whole(n) == <<n, 1>>
Zero == Whole(0)

\* The conversion to int cuts off what follows the point; so does C's division.
Quotient(n, d) == LET q == Magnitude(n) \div Magnitude(d) IN IF (n < 0) = (d < 0) THEN q ELSE -q
ToInt(a) == Quotient(a[1], a[2])

Negated(a) == <<-a[1], a[2]>>
Plus(a, b) == Fraction(a[1] * b[2] + b[1] * a[2], a[2] * b[2])
Minus(a, b) == Plus(a, Negated(b))
Times(a, b) == Fraction(a[1] * b[1], a[2] * b[2])
DividedBy(a, b) == Fraction(a[1] * b[2], a[2] * b[1])
Rest(a, b) == LET x == ToInt(a) y == ToInt(b) IN Whole(x - y * Quotient(x, y))
Less(a, b) == a[1] * b[2] < b[1] * a[2]
=============================================================================

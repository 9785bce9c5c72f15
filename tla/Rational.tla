------------------------------ MODULE Rational ------------------------------
(* Rational numbers <<numerator, denominator>>, reduced, with a positive    *)
(* denominator: the exact arithmetic that stands for the double precision   *)
(* of the histograms and of the running statistics.                         *)
EXTENDS Integers

RECURSIVE Gcd(_, _)
Gcd(m, n) == IF n = 0 THEN m ELSE Gcd(n, m % n)

AbsInt(n) == IF n < 0 THEN -n ELSE n

Reduced(n, d) ==
  IF d = 1 THEN <<n, d>>
  ELSE LET g == Gcd(d, AbsInt(n) % d) IN <<n \div g, d \div g>>

Whole(n) == <<n, 1>>
Zero == Whole(0)
Half == <<1, 2>>

Plus(p, q) == Reduced(p[1] * q[2] + q[1] * p[2], p[2] * q[2])
Negated(p) == <<-p[1], p[2]>>
Minus(p, q) == Plus(p, Negated(q))
Times(p, q) == Reduced(p[1] * q[1], p[2] * q[2])
Over(p, q) ==
  IF q[1] > 0 THEN Reduced(p[1] * q[2], p[2] * q[1])
              ELSE Reduced(-p[1] * q[2], -p[2] * q[1])
Scaled(n, p) == Reduced(n * p[1], p[2])

Below(p, q) == p[1] * q[2] < q[1] * p[2]
AtMost(p, q) == p[1] * q[2] <= q[1] * p[2]
Smaller(p, q) == IF AtMost(p, q) THEN p ELSE q
Larger(p, q) == IF AtMost(p, q) THEN q ELSE p

Floor(p) == p[1] \div p[2]
Ceiling(p) == -((-p[1]) \div p[2])
=============================================================================

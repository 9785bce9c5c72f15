------------------------------ MODULE RunStats ------------------------------
(***************************************************************************)
(* RunStats: count, mean, central moments and extremes of a set of values,  *)
(* updated one value at a time and merged without the values.               *)
(***************************************************************************)
EXTENDS Rational, Sequences, SequencesExt

(* 1 / the smallest positive double, with which m_max starts. *)
CONSTANT TinyInv

ASSUME RunStatsAssumption == TinyInv \in Nat \ {0}

(* No largest double: min is not looked at while count is 0. *)
EmptyStats(accumulate) ==
  [count |-> 0, eta |-> Zero, rho |-> Zero, tau |-> Zero, phi |-> Zero,
   min |-> Zero, max |-> <<1, TinyInv>>, acc |-> Zero, accumulate |-> accumulate]

Power(p, k) == FoldLeft(LAMBDA a, i : Times(a, p), Whole(1), [i \in 1 .. k |-> i])

SumOf(terms) == FoldLeft(Plus, Zero, terms)

push(s, x) ==
  LET n == s.count
      delta == Minus(x, s.eta)
      dn == Over(delta, Whole(n + 1))
      dn2 == Times(dn, dn)
      term == Scaled(n, Times(delta, dn))
      m == n + 1
  IN  [s EXCEPT
        !.count = m,
        !.min = IF n = 0 THEN x ELSE Smaller(s.min, x),
        !.max = IF n = 0 THEN x ELSE Larger(s.max, x),
        !.acc = IF s.accumulate THEN Plus(s.acc, x) ELSE s.acc,
        !.eta = Plus(s.eta, dn),
        !.phi = SumOf(<<s.phi, Scaled(m * m - 3 * m + 3, Times(term, dn2)),
                        Scaled(6, Times(dn2, s.rho)), Scaled(-4, Times(dn, s.tau))>>),
        !.tau = SumOf(<<s.tau, Scaled(m - 2, Times(term, dn)), Scaled(-3, Times(dn, s.rho))>>),
        !.rho = Plus(s.rho, term)]

pushAll(s, values) == FoldLeft(push, s, values)

SumAccumulated(s) == IF s.accumulate THEN s.acc ELSE Scaled(s.count, s.eta)

(* Mutant: the third moment without the term that mixes the second ones. *)
Merged_NoCrossTerm(a, b) ==
  LET n == a.count + b.count
      delta == Minus(b.eta, a.eta)
      ab == a.count * b.count
  IN  IF n = 0 THEN EmptyStats(FALSE)
      ELSE
       [count |-> n,
        eta |-> Over(Plus(Scaled(a.count, a.eta), Scaled(b.count, b.eta)), Whole(n)),
        rho |-> SumOf(<<a.rho, b.rho, Over(Scaled(ab, Power(delta, 2)), Whole(n))>>),
        tau |-> SumOf(<<a.tau, b.tau,
                  Over(Scaled(ab * (a.count - b.count), Power(delta, 3)), Whole(n * n))>>),
        phi |-> Plus(a.phi, b.phi),
        min |-> IF a.count = 0 THEN b.min ELSE IF b.count = 0 THEN a.min ELSE Smaller(a.min, b.min),
        max |-> Larger(a.max, b.max),
        acc |-> IF a.accumulate \/ b.accumulate
                THEN Plus(SumAccumulated(a), SumAccumulated(b)) ELSE Zero,
        accumulate |-> a.accumulate \/ b.accumulate]

(* operator+ *)
Merged(a, b) ==
  LET n == a.count + b.count
      delta == Minus(b.eta, a.eta)
      ab == a.count * b.count
  IN  IF n = 0 THEN EmptyStats(FALSE)
      ELSE
       [count |-> n,
        eta |-> Over(Plus(Scaled(a.count, a.eta), Scaled(b.count, b.eta)), Whole(n)),
        rho |-> SumOf(<<a.rho, b.rho, Over(Scaled(ab, Power(delta, 2)), Whole(n))>>),
        tau |-> SumOf(<<a.tau, b.tau,
                  Over(Scaled(ab * (a.count - b.count), Power(delta, 3)), Whole(n * n)),
                  Scaled(3, Over(Times(delta, Minus(Scaled(a.count, b.rho),
                                                    Scaled(b.count, a.rho))), Whole(n)))>>),
        phi |-> SumOf(<<a.phi, b.phi,
                  Over(Scaled(ab * (a.count * a.count - ab + b.count * b.count), Power(delta, 4)),
                       Whole(n * n * n)),
                  Scaled(6, Over(Times(Power(delta, 2),
                                       Plus(Scaled(a.count * a.count, b.rho),
                                            Scaled(b.count * b.count, a.rho))), Whole(n * n))),
                  Scaled(4, Over(Times(delta, Minus(Scaled(a.count, b.tau),
                                                    Scaled(b.count, a.tau))), Whole(n)))>>),
        min |-> IF a.count = 0 THEN b.min ELSE IF b.count = 0 THEN a.min ELSE Smaller(a.min, b.min),
        max |-> Larger(a.max, b.max),
        acc |-> IF a.accumulate \/ b.accumulate
                THEN Plus(SumAccumulated(a), SumAccumulated(b)) ELSE Zero,
        accumulate |-> a.accumulate \/ b.accumulate]

variance(s) == IF s.count <= 1 THEN Zero ELSE Over(s.rho, Whole(s.count - 1))
=============================================================================

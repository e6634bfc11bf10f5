--------------------------- MODULE MCUnivariateRec ---------------------------
(* TLC instance of UnivariateRec: small functions over the field of 31 elements. *)
EXTENDS UnivariateRec

Polynomials == {Trim(<<a, b, c>>) : a, b, c \in 0 .. 3}

Rational(num, den) == Normalize([num |-> Trim(num), den |-> Trim(den)])

\* Quotients of degree at most one, reduced
Quotients ==
  {Rational(<<a, b>>, d) : a \in 0 .. 3, b \in {0, 1, 5}, d \in {<<1>>, <<1, 21>>, <<0, 1>>}}

\* Ordinary functions, and what they become where a coefficient vanishes
Family ==
  {Rational(<<1, 2, 1>>, <<1>>), Rational(<<1, 0, 1>>, <<1>>), Rational(<<0, 2>>, <<1, 21>>),
   Rational(<<1, 2>>, <<0, 1>>), Rational(<<3>>, <<1, 21>>), Rational(<<0>>, <<1>>)}

Single(S) == {<<f>> : f \in S}

MCFunctions ==
  [newton |-> Single({[num |-> p, den |-> <<1>>] : p \in Polynomials}),
   thiele |-> Single(Quotients), linear |-> Single(Quotients),
   unirec |-> {<<Rational(<<0, 3>>, <<1>>), f>> : f \in Family},
   laurent |-> {<<Rational(<<0, 3>>, <<1>>), f>> : f \in Family}]
=============================================================================

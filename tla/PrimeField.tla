----------------------------- MODULE PrimeField -----------------------------
(***************************************************************************)
(* Arithmetic modulo a prime, univariate polynomials and matrices over the *)
(* prime field (src/include/fflow/ffmod.h, common.hh, polynomial.hh,       *)
(* rational_function.cc, matrix.cc).  A number is reduced, 0 .. P - 1.  A  *)
(* polynomial is the sequence of its coefficients, the constant first, and *)
(* its degree is its length less one, also when the last ones are zero.    *)
(***************************************************************************)
EXTENDS Integers, SequencesExt

CONSTANT P \* the prime

ASSUME PrimeAssumption == P \in Nat \ {0, 1} /\ \A a, b \in 2 .. P - 1 : a * b # P

Field == 0 .. P - 1
FAILED == -1 \* is not a number of the field

Sub(a, b) == (a - b) % P
Product(a, b) == (a * b) % P
MulInv(a) == CHOOSE b \in Field : (a * b) % P = 1
Quotient(a, b) == Product(a, MulInv(b))
Power(a, n) == IF n = 0 THEN 1 ELSE (a ^ n) % P

-----------------------------------------------------------------------------
(* Polynomials *)

Zero == <<0>>
Degree(p) == Len(p) - 1
Coeff(p, j) == IF j + 1 \in DOMAIN p THEN p[j + 1] ELSE 0

\* remove_high_zeroes
Trim(p) ==
  LET n == CHOOSE n \in 1 .. Len(p) :
             /\ \A k \in n + 1 .. Len(p) : p[k] = 0
             /\ n = 1 \/ p[n] # 0
  IN  SubSeq(p, 1, n)

\* UPoly::eval
Value(p, x) == FoldRight(LAMBDA c, v : (c + v * x) % P, p, 0)

\* The exponent of the first term of p, its length if there is none
MinDegree(p) ==
  LET k == SelectInSeq(p, LAMBDA c : c # 0) IN IF k = 0 THEN Len(p) ELSE k - 1

Combine(a, p, q) == \* a * p + q, of the larger of the two lengths
  [k \in 1 .. (IF Len(p) > Len(q) THEN Len(p) ELSE Len(q)) |->
     (a * Coeff(p, k - 1) + Coeff(q, k - 1)) % P] \o <<>> \* as a tuple TLC has it computed once

\* (t - x) * p
TimesLinear(p, x) == Combine((-x) % P, p, <<0>> \o p)

-----------------------------------------------------------------------------
(* Rational functions *)

(* URationalFunction::normalize: common powers of the variable drop out,   *)
(* and the first coefficient of the denominator is one.                    *)
Normalize(f) ==
  LET nmin == MinDegree(f.num)
      dmin == MinDegree(f.den)
      r == IF nmin < dmin THEN nmin ELSE dmin
      inv == MulInv(f.den[dmin + 1])
      Scaled(p) == Trim([k \in 1 .. Len(p) - r |-> Product(p[k + r], inv)])
  IN  CASE dmin = Len(f.den) -> [num |-> Zero, den |-> Zero]
        [] dmin < Len(f.den) /\ nmin = Len(f.num) -> [num |-> Zero, den |-> <<1>>]
        [] OTHER -> [num |-> Scaled(f.num), den |-> Scaled(f.den)]

\* f(x), FAILED at a pole
ValueOf(f, x) ==
  IF Value(f.den, x) = 0 THEN FAILED ELSE Quotient(Value(f.num, x), Value(f.den, x))

(* laurent_expansion_learn: the power of the variable that f starts with. *)
(* The last coefficient is not looked at.                                  *)
FirstPower(f) == MinDegree(Front(f.num)) - MinDegree(Front(f.den))

(* laurent_expansion: the coefficients of f from the power pref to the     *)
(* power order, for f with a denominator that starts at the power 0, or at *)
(* the power - pref if pref is negative.                                   *)
Expansion(f, order, pref) ==
  LET num == SubSeq(f.num, 1 + (IF pref > 0 THEN pref ELSE 0), Len(f.num))
      den == SubSeq(f.den, 1 + (IF pref > 0 THEN 0 ELSE -pref), Len(f.den))
      next(i, c) == Sub(Coeff(num, i),
                        FoldLeft(LAMBDA s, j : (s + c[i - j + 1] * Coeff(den, j)) % P,
                                 0, [j \in 1 .. i |-> j]))
  IN  FoldLeft(LAMBDA c, i : Append(c, next(i, c)), <<Coeff(num, 0)>>,
               [i \in 1 .. order - pref |-> i])

-----------------------------------------------------------------------------
(* Matrices: sequences of rows of equal length *)

Cols(m) == Len(m[1])

\* MatrixView::toRowEcholon: the rows and, in r, the pivots found so far
EchelonColumn(s, k) ==
  LET rows == {p \in s.r + 1 .. Len(s.m) : s.m[p][k] # 0}
      p == CHOOSE p \in rows : \A q \in rows : p <= q
      inv == MulInv(s.m[p][k])
      m == [s.m EXCEPT ![s.r + 1] = [j \in DOMAIN s.m[p] |-> Product(s.m[p][j], inv)],
                       ![p] = IF p = s.r + 1
                              THEN [j \in DOMAIN s.m[p] |-> Product(s.m[p][j], inv)]
                              ELSE s.m[s.r + 1]]
      Minus(i) == Combine((-m[i][k]) % P, m[s.r + 1], m[i])
  IN  IF rows = {} THEN s
      ELSE [m |-> [i \in DOMAIN m |-> IF i > s.r + 1 THEN Minus(i) ELSE m[i]] \o <<>>,
            r |-> s.r + 1]

RowEchelon(m) ==
  FoldLeft(EchelonColumn, [m |-> m \o <<>>, r |-> 0], [k \in 1 .. Cols(m) |-> k]).m

\* The column of the first entry of a row that is not zero, 0 if there is none
Pivot(row) == SelectInSeq(row, LAMBDA c : c # 0)

\* MatrixView::toReducedRowEcholon: the pivot of row r cleared in the rows above it
BackSubstitute(m, r) ==
  LET p == Pivot(m[r]) IN
  [i \in DOMAIN m |-> IF p # 0 /\ i < r THEN Combine((-m[i][p]) % P, m[r], m[i]) ELSE m[i]] \o <<>>

ReducedRowEchelon(m) ==
  FoldLeft(BackSubstitute, RowEchelon(m), [i \in DOMAIN m |-> Len(m) + 1 - i])

\* MatrixView::isZeroDimSystem: one solution
IsZeroDim(m) ==
  \A j \in DOMAIN m : \A i \in 1 .. Cols(m) - 1 : m[j][i] = (IF i = j THEN 1 ELSE 0)
=============================================================================

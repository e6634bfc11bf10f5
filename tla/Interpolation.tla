---------------------------- MODULE Interpolation ----------------------------
(***************************************************************************)
(* The reconstruction of univariate functions over a prime field           *)
(* (src/univariate_reconstruction.cc): Newton's interpolation of a         *)
(* polynomial, Thiele's of a rational function, and a linear system for a  *)
(* rational function of known degrees.  Each is given as what it is before *)
(* the first value is read and as what reading a value does to it, the     *)
(* value being FAILED where the function cannot be evaluated.              *)
(***************************************************************************)
EXTENDS PrimeField

CONSTANTS Stride,   \* SAMPLING_STRIDE
          X0,       \* the first point
          NChecks,  \* n_checks: values that must agree
          NSingular \* n_singular: values that may fail

ASSUME SamplingAssumption ==
  /\ Stride \in 1 .. P - 1 /\ X0 \in Field /\ NChecks \in Nat \ {0} /\ NSingular \in Nat

Next1(x) == (x + Stride) % P

Success(e) == [e EXCEPT !.status = "success"]
Failure(e) == [e EXCEPT !.status = "failed"]
Running(e) == e.status = "running"

\* Puts v at place i, which is there or is the next one
Store(s, i, v) == IF i <= Len(s) THEN [s EXCEPT ![i] = v] ELSE Append(s, v)

-----------------------------------------------------------------------------
(* Newton: ai[1] + ai[2] (t - xi[1]) + ai[3] (t - xi[1]) (t - xi[2]) + ... *)

NewtonStart(maxdeg, beyond) ==
  [of |-> "newton", status |-> "running", i |-> 0, ev |-> 0, x |-> X0, checks |-> 0,
   ai |-> <<0>>, xi |-> <<X0>>, maxdeg |-> maxdeg, beyond |-> beyond]

(* NewtonUPoly::evalNewtonSystemRow: the value at x of the first row terms *)
(* and of the product that the next coefficient multiplies.                *)
NewtonRow(e, x, row) ==
  FoldLeft(LAMBDA s, j : [value |-> (s.value + e.ai[j] * s.term) % P,
                          term |-> Product(s.term, Sub(x, e.xi[j]))],
           [value |-> 0, term |-> 1], [j \in 1 .. row |-> j])

\* NewtonUPoly::toStdRep
NewtonPoly(e) ==
  FoldRight(LAMBDA j, p : Combine(1, <<e.ai[j]>>, TimesLinear(p, e.xi[j])),
            [j \in 1 .. Len(e.ai) |-> j], Zero)

\* Mutant of Confirmed: zeros between coefficients that are not zero add up.
ConfirmedEver(e, a) == IF a = 0 /\ e.i > 0 THEN e.checks + 1 ELSE e.checks

\* How many coefficients in a row are zero
Confirmed(e, a) == IF a = 0 /\ e.i > 0 THEN e.checks + 1 ELSE 0

NewtonAccept(e, y) ==
  LET row == NewtonRow(e, e.x, e.i)
      a == Quotient(Sub(y, row.value), row.term)
      checks == Confirmed(e, a)
      stored == [e EXCEPT !.checks = checks, !.ai = Store(e.ai, e.i + 1, a),
                          !.xi = Store(e.xi, e.i + 1, e.x)]
  IN  CASE checks >= NChecks -> Success(e)
        [] checks < NChecks /\ ~e.beyond /\ e.i = e.maxdeg -> Success(stored)
        [] checks < NChecks /\ (e.beyond \/ e.i # e.maxdeg) ->
             IF (a # 0 /\ Degree(stored.ai) > e.maxdeg) \/ e.i = e.maxdeg + NChecks
             THEN Failure(stored)
             ELSE [stored EXCEPT !.i = @ + 1, !.ev = 0, !.x = Next1(e.x)]

\* UPolyReconstruction::reconstruct
NewtonRead(e, y) ==
  CASE y # FAILED -> NewtonAccept(e, y)
    [] y = FAILED /\ e.ev = NSingular -> Failure(e)
    [] y = FAILED /\ e.ev # NSingular -> [e EXCEPT !.ev = @ + 1, !.x = Next1(e.x)]

-----------------------------------------------------------------------------
(* Thiele: ai[1] + (t - xi[1]) / (ai[2] + (t - xi[2]) / (ai[3] + ...)) *)

ThieleStart(maxterms) ==
  [of |-> "thiele", status |-> "running", i |-> 0, ev |-> 0, x |-> X0,
   checks |-> 0, ev2 |-> 0, ai |-> <<0>>, xi |-> <<X0>>, maxterms |-> maxterms]

\* ThieleURationalFunction::safe_eval
SafeEval(e, x) ==
  LET n == Len(e.ai)
      f == FoldRight(LAMBDA j, q : [num |-> (q.den * Sub(x, e.xi[j]) + e.ai[j] * q.num) % P,
                                    den |-> q.num],
                     [j \in 1 .. n - 1 |-> j], [num |-> e.ai[n], den |-> 1])
  IN  IF f.den = 0 THEN FAILED ELSE Quotient(f.num, f.den)

\* ThieleURationalFunction::evalThieleSystemCoeff, for the term after the first i
ThieleCoeff(e, x, y, i) ==
  LET step(q, j) ==
        LET num == Sub(q.num, e.ai[j] * q.den) IN
        [num |-> Product(q.den, Sub(x, e.xi[j])), den |-> num, ok |-> q.ok /\ num # 0]
      q == FoldLeft(step, [num |-> Sub(x, e.xi[1]), den |-> Sub(y, e.ai[1]), ok |-> TRUE],
                    [j \in 1 .. i - 1 |-> j + 1])
  IN  CASE i = 0 -> y
        [] i > 0 /\ (~q.ok \/ q.den = 0) -> FAILED
        [] i > 0 /\ q.ok /\ q.den # 0 -> Quotient(q.num, q.den)

\* ThieleURationalFunction::toStdRep
ThieleFunction(e) ==
  LET n == Len(e.ai) IN
  Normalize(FoldRight(LAMBDA j, f : [num |-> Combine(e.ai[j], f.num, TimesLinear(f.den, e.xi[j])),
                                     den |-> f.num],
                      [j \in 1 .. n - 1 |-> j], [num |-> <<e.ai[n]>>, den |-> <<1>>]))

\* The term cannot be fixed at this point: the next point is tried.
ThieleRetry(e) ==
  IF e.ev = NSingular THEN Failure(e)
  ELSE [e EXCEPT !.ev = @ + 1, !.x = (e.x + 1) % P, !.checks = 0]

\* fun_.remove_high_zeroes()
ThieleDone(e) ==
  LET ai == Trim(e.ai) IN Success([e EXCEPT !.ai = ai, !.xi = SubSeq(@, 1, Len(ai))])

ThieleTerm(e, y) ==
  LET a == ThieleCoeff(e, e.x, y, e.i)
      yrec == SafeEval(e, e.x)
      stored == [e EXCEPT !.ai = Store(e.ai, e.i + 1, a), !.xi = Store(e.xi, e.i + 1, e.x)]
  IN  CASE y = FAILED \/ yrec = FAILED -> ThieleRetry(e)
        [] y # FAILED /\ yrec = y ->
             IF NChecks = 1 THEN ThieleDone(e)
             ELSE [e EXCEPT !.checks = 1, !.ev2 = 0, !.x = Next1(e.x)]
        [] yrec # FAILED /\ y # FAILED /\ yrec # y ->
             CASE a \in {0, FAILED} -> ThieleRetry(e)
               [] a \notin {0, FAILED} ->
                    IF Len(e.ai) >= e.maxterms \/ e.i + 1 = e.maxterms + NChecks THEN Failure(e)
                    ELSE [stored EXCEPT !.i = @ + 1, !.ev = 0, !.x = Next1(e.x)]

\* Mutant of ThieleCheck: a value that cannot be had counts as one that agrees.
ThieleCheckLax(e, y) ==
  CASE y = FAILED \/ SafeEval(e, e.x) = y ->
         IF e.checks + 1 >= NChecks THEN ThieleDone(e)
         ELSE [e EXCEPT !.checks = @ + 1, !.ev2 = 0, !.x = Next1(e.x)]
    [] y # FAILED /\ SafeEval(e, e.x) # y -> ThieleRetry(e)

\* The other values that must agree
ThieleCheck(e, y) ==
  CASE y = FAILED ->
         IF e.ev2 = NSingular THEN Failure(e)
         ELSE [e EXCEPT !.ev2 = @ + 1, !.x = Next1(e.x)]
    [] y # FAILED /\ SafeEval(e, e.x) = y ->
         IF e.checks + 1 >= NChecks THEN ThieleDone(e)
         ELSE [e EXCEPT !.checks = @ + 1, !.ev2 = 0, !.x = Next1(e.x)]
    [] y # FAILED /\ SafeEval(e, e.x) # y -> ThieleRetry(e)

\* URatFunReconstruction::reconstruct
ThieleRead(e, y) == IF e.checks = 0 THEN ThieleTerm(e, y) ELSE ThieleCheck(e, y)

-----------------------------------------------------------------------------
(* A function with the known degrees numdeg and dendeg.  Its numerator is  *)
(* known to start at the power nummin, its denominator starts with one.    *)

LinearStart(numdeg, dendeg, nummin, nchecks, nsingular) ==
  [of |-> "linear", status |-> "running", i |-> 0, ev |-> 0, x |-> X0, rows |-> <<>>,
   numdeg |-> numdeg, dendeg |-> dendeg, nummin |-> nummin,
   nsingular |-> nsingular,
   eqs |-> (numdeg + 1 - nummin) + dendeg + nchecks,
   num |-> Zero, den |-> <<1>>]

Powers(x, first, last) == [k \in 1 .. last - first + 1 |-> Power(x, first + k - 1)]

\* The equation for the coefficients that the value y at x gives
Equation(e, y) ==
  Powers(e.x, e.nummin, e.numdeg)
    \o [k \in 1 .. e.dendeg |-> Product(y, Power(e.x, k))] \o <<y>>

Solved(e, rows) ==
  LET m == ReducedRowEchelon(rows)
      n == e.numdeg + 1 - e.nummin
  IN  IF ~IsZeroDim(m) THEN Failure(e)
      ELSE [Success(e) EXCEPT
              !.num = [k \in 1 .. e.nummin |-> 0] \o [k \in 1 .. n |-> m[k][Cols(m)]],
              !.den = <<1>> \o [k \in 1 .. e.dendeg |-> Sub(0, m[n + k][Cols(m)])]]

LinearAccept(e, y) ==
  LET rows == Append(e.rows, Equation(e, y)) IN
  IF Len(rows) = e.eqs THEN Solved(e, rows)
  ELSE [e EXCEPT !.rows = rows, !.ev = 0, !.x = Next1(e.x)]

\* URatFunNumDenRecoHighDegs::reconstruct
LinearRead(e, y) ==
  CASE y # FAILED -> LinearAccept(e, y)
    [] y = FAILED /\ e.ev = e.nsingular -> Failure(e)
    [] y = FAILED /\ e.ev # e.nsingular -> [e EXCEPT !.ev = @ + 1, !.x = Next1(e.x)]

\* URatFunNumDemReconstruction: the numerator may start with any power
NumDenStart(numdeg, dendeg) == LinearStart(numdeg, dendeg, 0, NChecks, NSingular)

-----------------------------------------------------------------------------
Read(e, y) ==
  CASE e.of = "newton" -> NewtonRead(e, y)
    [] e.of = "thiele" -> ThieleRead(e, y)
    [] e.of = "linear" -> LinearRead(e, y)

\* writeResult, getFunction
Result(e) ==
  CASE e.of = "newton" -> [num |-> NewtonPoly(e), den |-> <<1>>]
    [] e.of = "thiele" -> ThieleFunction(e)
    [] e.of = "linear" -> [num |-> e.num, den |-> e.den]
=============================================================================

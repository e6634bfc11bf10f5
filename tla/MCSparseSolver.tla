--------------------------- MODULE MCSparseSolver ---------------------------
(***************************************************************************)
(* Five equations for five unknowns modulo 7.  The last two say that the   *)
(* unknown 4 vanishes and 3 is a multiple of 5, the third one follows from *)
(* the first and the fourth.  At the points                                *)
(*   g1, g2  that is all;                                                  *)
(*   u       the last equation follows from the one before;                *)
(*   i       there is no solution;                                         *)
(*   s       the unknown 4 does not vanish, and 1 depends on nothing;      *)
(*   z       a coefficient is zero.                                        *)
(***************************************************************************)
EXTENDS SparseSolver

Row(cols, values) == [j \in Range(cols) |-> values[CHOOSE k \in DOMAIN cols : cols[k] = j]]
System(a, b, c, d, e) ==
  <<Row(<<1, 4, 5, 6>>, a), Row(<<2, 3, 4, 5, 6>>, b), Row(<<1, 3, 4, 5, 6>>, c),
    Row(<<3, 4, 5>>, d), Row(<<3, 4, 5>>, e)>>

MCSystems ==
  [g1 |-> System(<<1, 2, 3, 4>>, <<1, 1, 2, 1, 3>>, <<1, 1, 4, 6, 4>>, <<1, 2, 3>>, <<2, 1, 6>>),
   g2 |-> System(<<3, 1, 2, 1>>, <<2, 1, 1, 3, 1>>, <<3, 1, 2, 4, 1>>, <<1, 1, 2>>, <<3, 1, 6>>),
   u  |-> System(<<1, 1, 2, 2>>, <<2, 1, 1, 3, 1>>, <<1, 1, 3, 5, 2>>, <<1, 2, 3>>, <<2, 4, 6>>),
   i  |-> System(<<1, 2, 3, 4>>, <<1, 1, 2, 1, 3>>, <<1, 1, 4, 6, 5>>, <<1, 2, 3>>, <<2, 1, 6>>),
   s  |-> System(<<1, 1, 4, 3>>, <<1, 1, 2, 1, 3>>, <<2, 1, 4, 4, 6>>, <<1, 2, 3>>, <<2, 1, 1>>),
   z  |-> System(<<1, 2, 3, 4>>, <<1, 1, 2, 1, 3>>, <<1, 1, 4, 6, 4>>, <<1, 2, 3>>, <<2, 0, 6>>)]

MCSettings ==
  LET With14(f) == [needed |-> {1, 4}, flags |-> f, maxcol |-> END, weight |-> <<>>] IN
  {[With14({}) EXCEPT !.needed = {1}], With14({"zeroopt"}), With14({"zeroopt", "nonhomog"}),
   With14({"sparse", "homog"}), [With14({"sparse", "nobacksubst"}) EXCEPT !.maxcol = 3]}
=============================================================================

-------------------------- MODULE MCFunctionNodes --------------------------
(***************************************************************************)
(* Expressions in two variables, x and y, with small numbers (2), numbers  *)
(* of several instructions (5), those that are the smaller prime or lie    *)
(* between the two (7, 9), and those that are no machine numbers (12, and  *)
(* the products of numbers): factors with powers, products and quotients   *)
(* of up to three of them, signs before factors, sums, and powers of sums  *)
(* in products.                                                            *)
(* Each is in a list with another one, that has its numbers and powers     *)
(* before or after.                                                        *)
(***************************************************************************)
EXTENDS Integers, Sequences

Lexeme(s, n) == [type |-> s, val |-> n]
Sign(s) == Lexeme(s, 0)
Num(n) == [input |-> <<Lexeme("digits", n)>>, tree |-> [op |-> "num", n |-> n]]
Var(v) == [input |-> <<Lexeme("name", v)>>, tree |-> [op |-> "var", v |-> v]]

Inverse1(t) == [op |-> "inverse", of |-> <<t>>]
PowerTree(t, e) ==
  CASE e >= 0 -> [op |-> "power", of |-> <<t>>, n |-> e]
    [] OTHER -> Inverse1([op |-> "power", of |-> <<t>>, n |-> -e])
PowerSigns(e) ==
  <<Sign("^")>> \o (IF e < 0 THEN <<Sign("("), Sign("-"), Lexeme("digits", -e), Sign(")")>>
                    ELSE <<Lexeme("digits", e)>>)
ToPower(f, e) == [input |-> f.input \o PowerSigns(e), tree |-> PowerTree(f.tree, e)]
Paren(f) == [input |-> <<Sign("(")>> \o f.input \o <<Sign(")")>>, tree |-> f.tree]
MinusOf(f) == [input |-> <<Sign("-")>> \o f.input, tree |-> [op |-> "minus", of |-> <<f.tree>>]]
PlusOf(f) == [input |-> <<Sign("+")>> \o f.input, tree |-> f.tree]

\* The reciprocal; that of a power of a sum is the power with the other exponent
Reciprocal(t) ==
  IF t.op = "inverse" /\ t.of[1].op = "power" /\ t.of[1].of[1].op = "sum" THEN t.of[1] ELSE Inverse1(t)

\* The product of f and g, written with a sign or none, or the quotient
Joined(f, sign, g) ==
  [input |-> f.input \o (IF sign = "" THEN <<>> ELSE <<Sign(sign)>>) \o g.input,
   tree |-> [op |-> "product", of |-> <<f.tree, IF sign = "/" THEN Reciprocal(g.tree) ELSE g.tree>>]]
Added(f, sign, g) ==
  [input |-> f.input \o <<Sign(sign)>> \o g.input,
   tree |-> [op |-> "sum", of |-> <<f.tree, IF sign = "-" THEN [op |-> "minus", of |-> <<g.tree>>] ELSE g.tree>>]]

Numbers == {Num(2), Num(5), Num(7), Num(9), Num(12)}
Variables == {Var(0), Var(1)}
Powered(fs, es) == {ToPower(f, e) : f \in fs, e \in es}
SimpleFactors == Numbers \cup Variables \cup Powered({Num(5), Num(12), Var(0)}, {-1, 2})
                   \cup {ToPower(Num(7), -2)}
Few == {Num(2), Num(12), Var(0), ToPower(Var(0), -1)}
Products(fs, gs) == {Joined(f, sign, g) : f \in fs, sign \in {"", "*", "/"}, g \in gs}
Sums(fs, gs) == {Added(f, sign, g) : f \in fs, sign \in {"+", "-"}, g \in gs}
Signed(fs) == {MinusOf(f) : f \in fs} \cup {PlusOf(f) : f \in fs}

Pairs == Products(SimpleFactors, SimpleFactors)
Triples == Products(Products(Few, Few), Few)
SmallSums == Sums(Few \cup Signed(Few), Few \cup Signed(Few))
Powers2 == Powered({Paren(s) : s \in Sums({Var(0), Num(2)}, {Var(1), Num(12)})}, {-1, 0, 1, 2})
SignedProducts == {Joined(f, sign, g) : f \in Few, sign \in {"*", "/"}, g \in Signed(Few)}
Mixed == Products(Powers2, Few) \cup Products(Few, Powers2)
All == SimpleFactors \cup Signed(SimpleFactors) \cup Pairs \cup {MinusOf(f) : f \in Products(Few, Few)} \cup Triples
         \cup SmallSums \cup Mixed \cup Sums(Products(Few, Powers2), {Var(0)}) \cup SignedProducts
         \cup Sums(Sums(Few, Few), Few) \cup Powered({Paren(Added(Var(0), "+", Num(2)))}, {5})
         \cup {Paren(f) : f \in Numbers}

Other == Added(Joined(Joined(Num(12), "*", ToPower(Var(0), 2)), "/", Num(5)), "-", ToPower(Var(1), 3))
MCExpressions == {<<e, Other>> : e \in All}

Integer(n) == [num |-> n, den |-> 1]

MCNumberLists == {<<[num |-> 3, den |-> 2], [num |-> -12, den |-> 5]>>, <<[num |-> 1, den |-> 3], [num |-> 4, den |-> 1]>>}
MCRatFunctions == {<<[num |-> <<Integer(-3), [num |-> 1, den |-> 2]>>, den |-> <<Integer(2), Integer(0), Integer(3)>>],
                  [num |-> <<[num |-> 4, den |-> 5]>>, den |-> <<Integer(1), Integer(1)>>]>>}
MCMaps == {<<[num |-> <<4>>, den |-> <<1>>]>>, <<[num |-> <<1, 3>>, den |-> <<2, 1>>], [num |-> <<2>>, den |-> <<3>>]>>}
MCInputs == [expressions |-> {<<x, 2>> : x \in {0, 3}},
             numbers |-> {<<0>>}, functions |-> {<<x>> : x \in 0 .. 6},
             coeffs |-> {<<a, b, 2, x>> : a \in {0, 1}, b \in {0, 3}, x \in {0, 1, 4}}]
=============================================================================

--------------------------- MODULE FunctionNodes ---------------------------
(***************************************************************************)
(* Nodes that evaluate functions (src/src/alg_functions.cc): expressions,  *)
(* numbers, rational functions with coefficients that are given or read    *)
(* from another node, and how they are made (src/src/capi.cc) or changed   *)
(* (src/mathlink/fflowmlink.cc).  The data a node has in a context keeps   *)
(* what it computed modulo the last prime, until the prime changes.        *)
(*                                                                         *)
(* The functions have one variable; those of several are evaluated in the  *)
(* same way, one variable after the other.  A number with a denominator that the     *)
(* prime divides keeps the residue of the number before it, as in the      *)
(* code, and a function without terms is left out.                         *)
(***************************************************************************)
EXTENDS RatExpr

CONSTANTS Expressions, \* lists of expressions: [input, tree], see Meaning
          NumberLists, \* of rational numbers
          Functions,   \* lists of [num, den], the coefficients of which are rational numbers
          Maps,        \* lists of [num, den], the coefficients of which are places in an input
          Inputs,      \* of each kind of node, the lists it may be given
          Primes,
          Workers,     \* contexts of worker threads
          MaxCalls     \* bound on the calls after the node is made

Main == 0
NoNode == [kind |-> "none"]
NoData == [mod |-> -1]
NewData(vals) == [mod |-> 0, vals |-> vals]
NoAnswer == [kind |-> "none"]

VARIABLES
  node,   \* the node, with what it was made from
  data,   \* of each context: [mod, vals], or NoData
  answer, \* of the evaluation that just returned
  calls

vars == <<node, data, answer, calls>>

Init == node = NoNode /\ data = [c \in {Main} \cup Workers |-> NoData] /\ answer = NoAnswer /\ calls = 0

-----------------------------------------------------------------------------
(* Values modulo a prime *)

(* rat_mod of each number of a list: when there is none it leaves the      *)
(* result as it was, which is that of the number before.                   *)
Residues(qs, p) ==
  LET Residue(z, q) == IF q.den % p = 0 THEN z ELSE Times(q.num % p, Inverse0(q.den, p), p)
  IN  Tail(FoldLeft(LAMBDA zs, q : Append(zs, Residue(Last(zs), q)), <<0>>, qs))

\* The value of a polynomial, and HornerRatFunPtr::eval, which fails where the denominator vanishes
Horner(cs, x, p) == FoldRight(LAMBDA c, v : (c + Times(v, x, p)) % p, cs, 0)
RatFunValue(f, x, p) ==
  IF Horner(f.den, x, p) = 0 THEN {}
  ELSE {Times(Horner(f.num, x, p), Inverse0(Horner(f.den, x, p), p), p)}

\* The list of some results; none if one of them is missing
Together(rs) == IF {} \in Range(rs) THEN {} ELSE {[i \in DOMAIN rs |-> CHOOSE v \in rs[i] : TRUE]}

-----------------------------------------------------------------------------
(* The nodes, and how they are made; a list that is not accepted makes none *)

Make(n, vals) ==
  /\ node' = n /\ data' = [data EXCEPT ![Main] = NewData(vals)]
  /\ UNCHANGED <<answer, calls>>

\* The numbers, before any prime
Unset(qs) == [i \in DOMAIN qs |-> 0]

NewExpressions ==
  \E list \in Expressions :
    \E c \in Compiled([i \in DOMAIN list |-> list[i].input]) :
      Make([kind |-> "expressions", code |-> c.code, qs |-> c.big, vp |-> c.vp,
            size |-> MaxStackSize(c.code), list |-> list],
           Unset(c.big))

NewNumbers == \E qs \in NumberLists : Make([kind |-> "numbers", qs |-> qs], Unset(qs))
NewFunctions == \E fs \in Functions : Make([kind |-> "functions", fs |-> fs], <<>>)
NewFromCoeffs ==
  \E fs \in Maps :
    /\ \A in \in Inputs["coeffs"], i \in DOMAIN fs :
         Range(fs[i].num) \cup Range(fs[i].den) \subseteq 1 .. Len(in) - 1
    /\ Make([kind |-> "coeffs", fs |-> fs], <<>>)

NewNode ==
  /\ node = NoNode
  /\ NewExpressions \/ NewNumbers \/ NewFunctions \/ NewFromCoeffs

\* The powers of variables that an evaluation starts with
Powers(in, p) ==
  [j \in DOMAIN node.vp |->
     LET z == in[node.vp[j][1] + 1]
         e == node.vp[j][2]
     IN  CASE e >= 0 -> {PowerOf(z, e, p)}
           [] e < 0 /\ z = 0 -> {}
           [] OTHER -> {Inverse0(PowerOf(z, -e, p), p)}]

\* AnalyticExpression::evaluate: the results, and the highest stack
Expressed(in, vals, p) ==
  LET Run(code, powers) == Execute(code, [at |-> 1, stack |-> <<>>, high |-> 0, ok |-> TRUE],
                                   [in |-> in, big |-> vals, vp |-> powers], p)
      All(powers) == [i \in DOMAIN node.code |-> Run(node.code[i], powers)]
      Ended(all) == [out |-> Together([i \in DOMAIN all |-> IF all[i].ok THEN {Last(all[i].stack)} ELSE {}]),
                     high |-> Max({all[i].high : i \in DOMAIN all})]
  IN  {Ended(All(powers)) : powers \in Together(Powers(in, p))}

\* Mutant of SetMod: the data of a context is set once
SetModOnce(d, vals, p) == IF d.mod # 0 THEN d ELSE [mod |-> p, vals |-> vals]

\* reset_mod_, init_mod_: the data is that of the prime
SetMod(d, vals, p) == IF d.mod = p THEN d ELSE [mod |-> p, vals |-> vals]

OfFunctions(fs, Coefficients(_)) ==
  [i \in DOMAIN fs |-> [num |-> Coefficients(fs[i].num), den |-> Coefficients(fs[i].den)]]

\* What the data of a context is after an evaluation, with the inputs in
Computed(d, in, p) ==
  CASE node.kind \in {"expressions", "numbers"} -> SetMod(d, Residues(node.qs, p), p)
    [] node.kind = "functions" -> SetMod(d, OfFunctions(node.fs, LAMBDA qs : Residues(qs, p)), p)
    [] node.kind = "coeffs" ->
         [mod |-> 0, vals |-> OfFunctions(node.fs, LAMBDA places : [k \in DOMAIN places |-> in[places[k]]])]

\* clone_data, in a context that has none
Data(c) == IF data[c] = NoData THEN NewData(<<>>) ELSE data[c]

\* evaluate of the four kinds, in a context
Evaluate(c, in, p) ==
  /\ node # NoNode /\ calls < MaxCalls /\ calls' = calls + 1
  /\ in \in Inputs[node.kind]
  /\ \E d \in {Computed(Data(c), in, p)} :
       LET x == Last(in)
           Values(fs) == Together([i \in DOMAIN fs |-> RatFunValue(fs[i], x, p)])
           e == CASE node.kind = "expressions" -> Expressed(in, d.vals, p)
                  [] node.kind = "numbers" -> {[out |-> {d.vals}, high |-> 0]}
                  [] OTHER -> {[out |-> Values(d.vals), high |-> 0]}
       IN  /\ data' = [data EXCEPT ![c] = d]
           /\ answer' = [kind |-> node.kind, in |-> in, p |-> p, 
                        out |-> UNION {r.out : r \in e}, high |-> Max({0} \cup {r.high : r \in e})]
  /\ UNCHANGED node

(* New numbers of a node, as many as it had: what was computed from the    *)
(* old ones is dropped in all contexts.                                    *)
ChangeNumbers(qs) ==
  /\ node.kind = "numbers" /\ calls < MaxCalls /\ calls' = calls + 1
  /\ Len(qs) = Len(node.qs)
  /\ node' = [node EXCEPT !.qs = qs]
  /\ data' = [c \in DOMAIN data |-> IF c = Main THEN [data[Main] EXCEPT !.mod = 0] ELSE NoData]
  /\ answer' = NoAnswer

Next ==
  \/ NewNode
  \/ \E c \in {Main} \cup Workers, p \in Primes, in \in UNION Range(Inputs) : Evaluate(c, in, p)
  \/ \E qs \in NumberLists : ChangeNumbers(qs)

Spec == Init /\ [][Next]_vars

-----------------------------------------------------------------------------
(* Properties *)

(* The meaning of an expression modulo a prime: none where it divides by   *)
(* zero.                                                                   *)
RECURSIVE Meaning(_, _, _)
Meaning(t, in, p) ==
  LET of == IF "of" \in DOMAIN t THEN [i \in DOMAIN t.of |-> Meaning(t.of[i], in, p)] ELSE <<>>
      v(i) == CHOOSE w \in of[i] : TRUE
      all == [i \in DOMAIN of |-> v(i)]
  IN  CASE t.op = "num" -> {t.n % p}
        [] t.op = "var" -> {in[t.v + 1]}
        [] {} \in Range(of) -> {}
        [] t.op = "sum" -> {FoldLeft(LAMBDA a, b : (a + b) % p, 0, all)}
        [] t.op = "product" -> {FoldLeft(LAMBDA a, b : (a * b) % p, 1, all)}
        [] t.op = "minus" -> {(-v(1)) % p}
        [] t.op = "inverse" -> {b \in 1 .. p - 1 : (v(1) * b) % p = 1}
        [] t.op = "power" -> {IF t.n = 0 THEN 1 ELSE (v(1) ^ t.n) % p}

QuotientMod(q, p) == CHOOSE b \in 0 .. p - 1 : (q.den * b - q.num) % p = 0

\* What a node without expressions should answer, if no number of it has a
\* denominator that vanishes
Wanted(a) ==
  LET x == Last(a.in)
      Value(cs) == FoldLeft(LAMBDA v, k : (v + cs[k] * (IF k = 1 THEN 1 ELSE x ^ (k - 1))) % a.p, 0, [k \in DOMAIN cs |-> k])
      Ratio(f) == {b \in 0 .. a.p - 1 : Value(f.den) # 0 /\ (b * Value(f.den)) % a.p = Value(f.num)}
      Mods(qs) == [k \in DOMAIN qs |-> QuotientMod(qs[k], a.p)]
      Chosen(places) == [k \in DOMAIN places |-> a.in[places[k]]]
  IN  CASE a.kind = "numbers" -> {Mods(node.qs)}
        [] a.kind = "functions" -> Together([i \in DOMAIN node.fs |->
                                     Ratio([num |-> Mods(node.fs[i].num), den |-> Mods(node.fs[i].den)])])
        [] a.kind = "coeffs" -> Together([i \in DOMAIN node.fs |->
                                  Ratio([num |-> Chosen(node.fs[i].num), den |-> Chosen(node.fs[i].den)])])

RECURSIVE Parts(_)
Parts(t) == {t} \cup IF "of" \in DOMAIN t THEN UNION {Parts(t.of[i]) : i \in DOMAIN t.of} ELSE {}

\* An integer is pushed as it is, also if it is not below a prime of 32 bits
\* (ratexpr_parser.cc:283).  It is answered so if no operation follows.
KnownUnreduced(e) ==
  \A t \in Parts(e.tree) : t.op \in {"num", "product", "inverse", "minus"} \/ (t.op = "power" /\ t.n = 1)

\* The sign in a/-b or a/+b is taken for the factor that is divided by, so that b
\* multiplies (ratexpr_parser.cc:611).
KnownQuotientSign(e) ==
  \E k \in 1 .. Len(e.input) - 1 : e.input[k].type = "/" /\ e.input[k + 1].type \in {"+", "-"}

\* A quotient by integers that the prime divides: the rational number has no
\* residue and keeps another one's, and the power of an integer is tested for zero
\* before it is reduced (alg_functions.cc:91, 356).
KnownVanishing(e, in, p) ==
  \E t \in Parts(e.tree) :
    /\ t.op = "inverse" /\ "var" \notin {u.op : u \in Parts(t)} /\ "sum" \notin {u.op : u \in Parts(t)}
    /\ Meaning(t, in, p) = {}

\* Exponents are taken modulo 2^32 (integer_math.cc:44).
KnownExponent(e) == \E t \in Parts(e.tree) : t.op = "power" /\ t.n >= Width

\* The answer of a list of expressions, but for the four known cases
ExpressionsMean(a) ==
  LET Known(e) == KnownQuotientSign(e) \/ KnownVanishing(e, a.in, a.p) \/ KnownExponent(e)
      Means(e, v) == \E w \in Meaning(e.tree, a.in, a.p) :
                       v = w \/ (v % a.p = w /\ KnownUnreduced(e))
  IN  /\ \A out \in a.out, i \in DOMAIN node.list : Means(node.list[i], out[i]) \/ Known(node.list[i])
      /\ a.out = {} => \E e \in Range(node.list) : Meaning(e.tree, a.in, a.p) = {} \/ Known(e)

(* A node answers what its functions are at the point and modulo the prime *)
(* of the call, and fails exactly where one of them divides by zero: the   *)
(* signs, the precedence, the numbers taken into a coefficient, the places *)
(* of numbers and powers shared by a list, and the values a context keeps  *)
(* from another prime or from numbers that were changed all come in        *)
(* (ratexpr_parser.cc:423, alg_functions.cc:263).  Four cases are          *)
(* excepted, each by its name above: an integer alone that is not below    *)
(* the prime, which is answered unreduced; a sign after a quotient's sign; *)
(* a quotient by integers that the prime divides; exponents of 2^32 and    *)
(* more.                                                                   *)
MeansWhatItSays ==
  answer # NoAnswer =>
    IF answer.kind = "expressions" THEN ExpressionsMean(answer) ELSE answer.out = Wanted(answer)

(* The machine stays on the stack it was given, whose size was worked out  *)
(* by another walk through the instructions that does not know how many    *)
(* operands a sum or a product has (alg_functions.cc:419).                 *)
StackFits ==
  answer # NoAnswer /\ answer.kind = "expressions" => answer.high <= node.size
=============================================================================

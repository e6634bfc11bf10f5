------------------------------ MODULE RatExpr ------------------------------
(***************************************************************************)
(* Rational expressions: from lexemes to tokens and to the instructions of *)
(* a stack machine (src/src/ratexpr_parser.cc), and that machine           *)
(* (AnalyticExpression in src/src/alg_functions.cc).                       *)
(*                                                                         *)
(* A lexeme is the name of a variable, a run of digits, or a sign; the     *)
(* blanks between them are skipped.  A name is the longest that matches,   *)
(* so that lexemes are what is written.  Numbers in instructions count     *)
(* from 0, positions in sequences from 1.                                  *)
(***************************************************************************)
EXTENDS Integers, SequencesExt, FiniteSetsExt

CONSTANTS Base,       \* values of an instruction (256)
          MachineMax, \* the largest integer of 18 digits; it may be larger than a prime
          CoeffMax,   \* the largest coefficient kept as a machine number (2^62)
          Width       \* values of an exponent of the machine (2^32)

\* InstrType
ADD == 0
MUL == 1
NEG == 2
POW == 3
VAR == 4
NEGPOW == 5
SMALLNUM == 6
MEDNUM == 7
BIGNUM == 8
VARPOW == 9
END == 10

TypeAt(s, i) == IF i \in DOMAIN s THEN s[i].type ELSE "END"
Token(type, val) == [type |-> type, val |-> val]

-----------------------------------------------------------------------------
(* The tokenizer *)

(* The exponent after the name of a variable, which is read with it, and   *)
(* how many lexemes that takes; none, if what follows is no integer.       *)
Exponent(s) ==
  LET open == TypeAt(s, 2) = "("
      i == IF open THEN 3 ELSE 2
      neg == TypeAt(s, i) = "-"
      j == IF neg THEN i + 1 ELSE i
  IN  IF TypeAt(s, j) = "digits" /\ (open => TypeAt(s, j + 1) = ")")
      THEN {[used |-> IF open THEN j + 1 ELSE j, val |-> IF neg THEN -s[j].val ELSE s[j].val]}
      ELSE {}

\* next_token, to the end of an input; nothing if it has an invalid token
RECURSIVE Tokens(_)
Before(tokens, rest) == {tokens \o t : t \in Tokens(rest)}
Tokens(s) ==
  CASE s = <<>> -> {<<Token("END", 0)>>}
    [] TypeAt(s, 1) = "name" /\ TypeAt(s, 2) = "^" ->
         UNION {Before(<<[type |-> "VARPOW", var |-> s[1].val, exponent |-> e.val]>>,
                       SubSeq(s, e.used + 2, Len(s))) : e \in Exponent(Tail(s))}
    [] TypeAt(s, 1) = "name" /\ TypeAt(s, 2) # "^" -> Before(<<Token("VAR", s[1].val)>>, Tail(s))
    [] TypeAt(s, 1) = "digits" ->
         Before(<<Token(IF s[1].val <= MachineMax THEN "MACHINT" ELSE "BIGINT", s[1].val)>>, Tail(s))
    [] TypeAt(s, 1) \in {"+", "-", "*", "/", "^", "(", ")"} -> Before(<<Token(s[1].type, 0)>>, Tail(s))
    [] OTHER -> {}

\* The powers of variables in the tokens of all inputs, sorted by variable and exponent
VarPows(inputs) ==
  LET powers == {<<t.var, t.exponent>> : t \in {u \in UNION {Range(i) : i \in Range(inputs)} : u.type = "VARPOW"}}
  IN  SetToSortSeq(powers, LAMBDA a, b : a[1] < b[1] \/ (a[1] = b[1] /\ a[2] < b[2]))

-----------------------------------------------------------------------------
(* Rational coefficients *)

Magnitude(n) == IF n < 0 THEN -n ELSE n
Reduced(num, den) ==
  LET g == Max({k \in 1 .. Magnitude(den) : num % k = 0 /\ Magnitude(den) % k = 0})
  IN  [num |-> (IF den < 0 THEN -num ELSE num) \div g, den |-> Magnitude(den) \div g]
TimesNum(q, n) == Reduced(q.num * n, q.den)
OverNum(q, n) == Reduced(q.num, q.den * n) \* a zero ends the program (mpq_div)
Whole(n) == [num |-> n, den |-> 1]

-----------------------------------------------------------------------------
(* The parser: s has the tokens tk of an input and the next one, at; the   *)
(* powers of variables; the instructions and the big numbers so far.  When *)
(* it fails, at is 0.                                                      *)

Failed(s) == s.at = 0
Fail(s) == [s EXCEPT !.at = 0]
Type(s) == s.tk[s.at].type
Skip(s, n) == [s EXCEPT !.at = @ + n]
Emit(s, instrs) == [s EXCEPT !.code = @ \o instrs]

Digits(n) ==
  LET size == Min({k \in 1 .. n : n < Base ^ k})
  IN  [k \in 1 .. size |-> (n \div Base ^ (size - k)) % Base]

\* push_machinenum
EmitNum(s, n) ==
  LET a == Magnitude(n) IN
  Emit(s, (IF a < Base THEN <<SMALLNUM, a>> ELSE <<MEDNUM, Len(Digits(a))>> \o Digits(a))
            \o (IF n < 0 THEN <<NEG>> ELSE <<>>))

\* push_bignum
EmitBig(s, q) ==
  LET known == SelectInSeq(s.big, LAMBDA r : r = q)
      index == IF known = 0 THEN Len(s.big) ELSE known - 1
  IN  Emit(EmitNum([s EXCEPT !.big = IF known = 0 THEN Append(@, q) ELSE @], index), <<BIGNUM>>)

\* push_exponent
EmitExponent(s, e) ==
  CASE e = 1 -> s
    [] e # 1 /\ e >= 0 -> Emit(EmitNum(s, e), <<POW>>)
    [] OTHER -> Emit(EmitNum(s, -e), <<NEGPOW>>)

\* get_exponent, which is 1 if there is none
GetExponent(s) ==
  LET open == TypeAt(s.tk, s.at + 1) = "("
      i == s.at + (IF open THEN 2 ELSE 1)
      neg == TypeAt(s.tk, i) = "-"
      j == IF neg THEN i + 1 ELSE i
  IN  CASE Type(s) # "^" -> [s |-> s, val |-> 1]
        [] Type(s) = "^" /\ TypeAt(s.tk, j) = "MACHINT" /\ (open => TypeAt(s.tk, j + 1) = ")") ->
             [s |-> [s EXCEPT !.at = IF open THEN j + 2 ELSE j + 1],
              val |-> IF neg THEN -s.tk[j].val ELSE s.tk[j].val]
        [] OTHER -> [s |-> Fail(s), val |-> 1]

\* parse_factor, in a term f: its state, coefficient and number of factors
Factor(f, s) == [f EXCEPT !.s = s, !.n = @ + 1]

VarFactor(f, sign, index, instr) ==
  LET s == Emit(EmitNum(f.s, index), <<instr>>)
  IN  Factor(f, Skip(IF sign = -1 THEN Emit(EmitNum(s, 1), <<NEGPOW>>) ELSE s, 1))

NumFactor(f, sign) ==
  LET n == f.s.tk[f.s.at].val
      e == GetExponent(Skip(f.s, 1))
      exponent == e.val * sign
      pushed == IF Type(f.s) = "MACHINT" THEN EmitNum(e.s, n) ELSE EmitBig(e.s, Whole(n))
  IN  CASE Failed(e.s) -> [f EXCEPT !.s = e.s]
        [] ~Failed(e.s) /\ exponent = 1 -> [f EXCEPT !.s = e.s, !.coeff = TimesNum(@, n)]
        [] ~Failed(e.s) /\ exponent = -1 -> [f EXCEPT !.s = e.s, !.coeff = OverNum(@, n)]
        [] OTHER -> Factor(f, EmitExponent(pushed, exponent))

RECURSIVE ParseExpr(_), ParseFactor(_, _), ParseTerm(_, _)
Closed(f, sign, s) ==
  IF Failed(s) \/ Type(s) # ")" THEN [f EXCEPT !.s = Fail(s)]
  ELSE LET e == GetExponent(Skip(s, 1))
       IN  Factor(f, IF Failed(e.s) THEN e.s ELSE EmitExponent(e.s, e.val * sign))

ParseFactor(f, sign) ==
  LET t == f.s.tk[f.s.at] IN
  CASE t.type = "VAR" -> VarFactor(f, sign, t.val, VAR)
    [] t.type = "VARPOW" ->
         VarFactor(f, sign, SelectInSeq(f.s.vp, LAMBDA v : v = <<t.var, t.exponent>>) - 1, VARPOW)
    [] t.type \in {"MACHINT", "BIGINT"} -> NumFactor(f, sign)
    [] t.type = "(" -> Closed(f, sign, ParseExpr(Skip(f.s, 1)))
    [] t.type = "+" -> [f EXCEPT !.s = Skip(@, 1)]
    [] t.type = "-" -> [f EXCEPT !.s = Skip(@, 1), !.coeff = TimesNum(@, -1)]
    [] OTHER -> [f EXCEPT !.s = Fail(@)]

\* implicit_times_allowed
ImplicitTimes(s) == Type(s) \in {"VAR", "VARPOW", "MACHINT", "BIGINT", "("}

RECURSIVE Factors(_)
Factors(f) ==
  CASE Failed(f.s) -> f
    [] ~Failed(f.s) /\ Type(f.s) = "*" -> Factors(ParseFactor([f EXCEPT !.s = Skip(@, 1)], 1))
    [] ~Failed(f.s) /\ Type(f.s) = "/" -> Factors(ParseFactor([f EXCEPT !.s = Skip(@, 1)], -1))
    [] ~Failed(f.s) /\ ImplicitTimes(f.s) -> Factors(ParseFactor(f, 1))
    [] OTHER -> f

\* The rest of parse_term: the coefficient, and how many factors there are
TermEnd(f) ==
  LET unit == f.coeff.den = 1 /\ Magnitude(f.coeff.num) = 1
      kept == f.coeff.den = 1 /\ Magnitude(f.coeff.num) <= CoeffMax
      pushed == CASE unit /\ f.n > 0 -> f
                  [] unit /\ f.n = 0 -> Factor(f, EmitNum(f.s, f.coeff.num))
                  [] ~unit /\ kept -> Factor(f, EmitNum(f.s, f.coeff.num))
                  [] OTHER -> Factor(f, EmitBig(f.s, f.coeff))
      product == IF pushed.n > 1 THEN Emit(EmitNum(pushed.s, pushed.n), <<MUL>>) ELSE pushed.s
  IN  IF unit /\ f.n > 0 /\ f.coeff.num = -1 THEN Emit(product, <<NEG>>) ELSE product

ParseTerm(s, sign) ==
  LET End(f) == IF Failed(f.s) THEN f.s ELSE TermEnd(f)
  IN  End(Factors(ParseFactor([s |-> s, coeff |-> Whole(sign), n |-> 0], 1)))

\* parse_expr, after n terms
RECURSIVE Terms(_, _)
Terms(s, n) ==
  CASE Failed(s) -> s
    [] ~Failed(s) /\ Type(s) = "+" -> Terms(ParseTerm(Skip(s, 1), 1), n + 1)
    [] ~Failed(s) /\ Type(s) = "-" -> Terms(ParseTerm(Skip(s, 1), -1), n + 1)
    [] OTHER -> IF n > 1 THEN Emit(EmitNum(s, n), <<ADD>>) ELSE s
ParseExpr(s) == Terms(ParseTerm(s, 1), 1)

\* parse
Parse(s) ==
  LET End(t) == IF Failed(t) \/ Type(t) # "END" THEN Fail(t) ELSE Emit(t, <<END>>)
  IN  End(ParseExpr(s))

\* What an input that is parsed with result s adds to the others; the list, if all were right
Parsed(c, s) == [ok |-> c.ok /\ ~Failed(s), code |-> Append(c.code, s.code), big |-> s.big]
Accepted(c, powers) == IF c.ok THEN {[code |-> c.code, big |-> c.big, vp |-> powers]} ELSE {}

\* parse_ratexpr_list: what it makes of the inputs; nothing if one of them is wrong
Compiled(inputs) ==
  LET Start(c, t, powers) == [tk |-> t, at |-> 1, code |-> <<>>, big |-> c.big, vp |-> powers]
      Codes(tk, powers) == Accepted(FoldLeft(LAMBDA c, t : Parsed(c, Parse(Start(c, t, powers))),
                                             [ok |-> TRUE, code |-> <<>>, big |-> <<>>], tk), powers)
      lists == {tk \in [DOMAIN inputs -> UNION {Tokens(i) : i \in Range(inputs)}] :
                  \A i \in DOMAIN inputs : tk[i] \in Tokens(inputs[i])}
  IN  UNION {Codes(tk, VarPows(tk)) : tk \in lists}

-----------------------------------------------------------------------------
(* The machine *)

Times(a, b, p) == ((a % p) * (b % p)) % p
PowerOf(a, n, p) == FoldLeft(LAMBDA r, k : Times(r, a, p), 1, [k \in 1 .. n % Width |-> k])
Inverse0(a, p) == IF a % p = 0 THEN 0 ELSE CHOOSE b \in 1 .. p - 1 : Times(a, b, p) = 1

\* The number after a MEDNUM and its length, at position i
NumberAt(code, i) == FoldLeft(LAMBDA v, d : v * Base + d, 0, SubSeq(code, i + 1, i + code[i]))

(* evaluate: m is the machine, with the stack, the highest it has been,    *)
(* and whether it has not failed; d is what it reads: the inputs, the big  *)
(* numbers and the powers of variables.                                    *)
Push(m, i, n, v) ==
  LET stack == Append(SubSeq(m.stack, 1, Len(m.stack) - n), v)
  IN  [m EXCEPT !.at = i, !.stack = stack, !.high = IF Len(stack) > @ THEN Len(stack) ELSE @]

Step(code, m, d, p) ==
  LET Top(k) == m.stack[Len(m.stack) - k]
      next == m.at + 1
      operands == SubSeq(m.stack, Len(m.stack) - Top(0), Len(m.stack) - 1)
  IN  CASE code[m.at] = ADD ->
             Push(m, next, Top(0) + 1, FoldLeft(LAMBDA a, b : (a + b) % p, Last(operands), Front(operands)))
        [] code[m.at] = MUL ->
             Push(m, next, Top(0) + 1, FoldLeft(LAMBDA a, b : Times(a, b, p), Last(operands), Front(operands)))
        [] code[m.at] = NEG -> Push(m, next, 1, (-Top(0)) % p)
        [] code[m.at] = POW -> Push(m, next, 2, PowerOf(Top(1), Top(0), p))
        [] code[m.at] = NEGPOW ->
             IF Top(1) = 0 THEN [m EXCEPT !.ok = FALSE]
             ELSE Push(m, next, 2, Inverse0(PowerOf(Top(1), Top(0), p), p))
        [] code[m.at] = VAR -> Push(m, next, 1, d.in[Top(0) + 1])
        [] code[m.at] = BIGNUM -> Push(m, next, 1, d.big[Top(0) + 1])
        [] code[m.at] = VARPOW -> Push(m, next, 1, d.vp[Top(0) + 1])
        [] code[m.at] = SMALLNUM -> Push(m, next + 1, 0, code[next])
        [] code[m.at] = MEDNUM -> Push(m, next + code[next] + 1, 0, NumberAt(code, next))

RECURSIVE Execute(_, _, _, _)
Execute(code, m, d, p) ==
  IF ~m.ok \/ code[m.at] = END THEN m ELSE Execute(code, Step(code, m, d, p), d, p)

\* Mutant of Pops: a machine number of several bytes is not counted
PopsWithoutMednum(instr) == IF instr = MEDNUM THEN 1 ELSE
  CASE instr \in {ADD, MUL} -> 3 [] instr \in {POW, NEGPOW} -> 2
    [] instr \in {NEG, VAR, BIGNUM, VARPOW} -> 1 [] OTHER -> 0

\* compute_max_stack_size_: sums and products are taken to have two operands
Pops(instr) ==
  CASE instr \in {ADD, MUL} -> 3 [] instr \in {POW, NEGPOW} -> 2
    [] instr \in {NEG, VAR, BIGNUM, VARPOW} -> 1 [] OTHER -> 0
RECURSIVE StackSize(_, _, _, _)
StackSize(code, i, stack, highest) ==
  LET new == stack - Pops(code[i]) + 1
      next == CASE code[i] = SMALLNUM -> i + 2
                [] code[i] = MEDNUM -> i + code[i + 1] + 2
                [] OTHER -> i + 1
  IN  IF code[i] = END THEN highest
      ELSE StackSize(code, next, new, IF new > highest THEN new ELSE highest)
MaxStackSize(codes) == FoldLeft(LAMBDA n, code : StackSize(code, 1, 0, n), 0, codes)
=============================================================================

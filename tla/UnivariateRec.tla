---------------------------- MODULE UnivariateRec ----------------------------
(***************************************************************************)
(* Univariate reconstruction: of a function by itself, and as the node     *)
(* that reconstructs, or expands, the outputs of a subgraph in one         *)
(* variable at each value of the others                                    *)
(* (src/subgraph_reconstruct.cc, BaseSubgraphUniRec).  The node learns the *)
(* degrees of its outputs with Thiele's interpolation and then solves a    *)
(* linear system for each output at each point.  Whatever it reads of the  *)
(* subgraph goes through a cache that is emptied at each new point.        *)
(*                                                                         *)
(* One step of this machine reads one value.                               *)
(***************************************************************************)
EXTENDS Interpolation, FiniteSets

CONSTANTS Points,    \* of the other variables
          Functions, \* of each kind: what the NOut outputs of the subgraph may be
          Kinds,     \* subset of {"newton", "thiele", "linear", "unirec", "laurent"}
          NOut,      \* outputs of the subgraph
          BadAt,     \* values of the variable where it may fail though it has no pole
          MaxBad,    \* bound on how many
          MaxDegree, \* max_degree
          Order,     \* of the expansion
          MaxCalls   \* bound on the calls to the node

ASSUME UnivariateAssumption ==
  /\ \A k \in Kinds : \A fs \in Functions[k] : \A j \in DOMAIN fs : Normalize(fs[j]) = fs[j]
  /\ BadAt \subseteq Field /\ NOut \in Nat \ {0} /\ MaxDegree \in Nat /\ Order \in Nat /\ MaxCalls \in Nat

VARIABLES
  kind,
  fun,      \* of each point: the outputs of the subgraph as functions of the variable
  bad,      \* of each point: where the subgraph fails though they have no pole
  e,        \* the reconstruction in progress
  seen,     \* the values it has read, with their places
  failures, \* how many it could not read
  job,      \* "idle", "learn", "evaluate" or, without a node, "direct"
  call,     \* the point, the context, and the output that is next
  calls,
  oks,      \* how many times in a row the node has learned
  rfdata,   \* of each output: the degrees and the first power, <<>> before the first learning
  tot,      \* what the learning in progress has found
  ratrec,   \* of each output: the coefficients that are not zero
  nparsout,
  cache,    \* of each context: the vectors of values by the variable
  prefexp,  \* of each context: the power that values are multiplied with
  xout,     \* the values written
  answer    \* "none", "ok" or "failed"

vars == <<kind, fun, bad, e, seen, failures, job, call, calls, oks, rfdata, tot,
          ratrec, nparsout, cache, prefexp, xout, answer>>
lessonVars == <<oks, rfdata, tot, ratrec, nparsout>>

Contexts == {"main", "worker"}
Outputs == 1 .. NOut
Direct == {"newton", "thiele", "linear"}
NoSize == -1 \* nothing has been learned
Idle == [status |-> "none"]
NoCall == [point |-> "none", ctxt |-> "main", idx |-> 0]

Init ==
  /\ kind \in Kinds
  /\ fun \in [IF kind \in Direct THEN {CHOOSE p \in Points : TRUE} ELSE Points -> Functions[kind]]
  /\ bad \in [DOMAIN fun -> {b \in SUBSET BadAt : Cardinality(b) <= MaxBad}]
  /\ e = Idle /\ seen = {} /\ failures = 0
  /\ job = "idle" /\ call = NoCall /\ calls = 0
  /\ oks = 0 /\ rfdata = <<>> /\ tot = 0 /\ ratrec = <<>> /\ nparsout = NoSize
  /\ cache = [c \in Contexts |-> <<>>] /\ prefexp = [c \in Contexts |-> 0]
  /\ xout = <<>> /\ answer = "none"

-----------------------------------------------------------------------------
(* What is read *)

\* What the first value of an entry says: nothing is known, or it cannot be evaluated
INVALID_ID == -2
Invalid == <<INVALID_ID>>
Failed == <<FAILED>>

\* The subgraph at x: all its outputs, or FAILED
Evaluated(p, x) ==
  LET v == [k \in DOMAIN fun[p] |-> ValueOf(fun[p][k], x)] IN
  IF x \in bad[p] \/ \E k \in DOMAIN v : v[k] = FAILED THEN Failed ELSE v

\* ExpAlgorithmRatFun: the entry at x, made or filled if it is not valid
Entry(c, p, x) ==
  IF x \in DOMAIN cache[c] /\ cache[c][x] # Invalid THEN cache[c][x] ELSE Evaluated(p, x)

\* ExpAlgorithmRatFun::evaluate
ValueRead(c, p, x, idx) ==
  LET v == Entry(c, p, x) IN
  IF v = Failed THEN FAILED ELSE Product(v[idx], Power(x, prefexp[c]))

\* Mutant of Invalidated: what was read at the last point stays known.
InvalidatedNot(entries) == entries

\* ExpAlgorithmRatFun::new_xpoint
Invalidated(entries) == [x \in DOMAIN entries |-> Invalid]

-----------------------------------------------------------------------------
(* A function by itself *)

Reconstruct ==
  /\ kind \in Direct /\ job = "idle" /\ answer = "none"
  /\ job' = "direct"
  /\ CASE kind = "newton" -> \E b \in BOOLEAN : e' = NewtonStart(MaxDegree, b)
       [] kind = "thiele" -> e' = ThieleStart(2 * MaxDegree + 1)
       [] kind = "linear" -> \E n, d \in 0 .. MaxDegree : e' = NumDenStart(n, d)
  /\ call' = [point |-> CHOOSE p \in Points : TRUE, ctxt |-> "main", idx |-> 1]
  /\ UNCHANGED <<kind, fun, bad, seen, failures, calls, lessonVars, cache, prefexp, xout, answer>>

Reads(y) ==
  /\ e' = Read(e, y)
  /\ seen' = (IF y = FAILED THEN seen ELSE seen \cup {<<e.x, y>>})
  /\ failures' = (IF y = FAILED THEN failures + 1 ELSE failures)

DirectRead ==
  /\ job = "direct" /\ Running(e)
  /\ LET v == Evaluated(call.point, e.x) IN Reads(IF v = Failed THEN FAILED ELSE v[1])
  /\ UNCHANGED <<kind, fun, bad, job, call, calls, lessonVars, cache, prefexp, xout, answer>>

DirectDone ==
  /\ job = "direct" /\ ~Running(e)
  /\ job' = "idle" /\ answer' = (IF e.status = "success" THEN "ok" ELSE "failed")
  /\ e' = Idle /\ seen' = {} /\ failures' = 0 /\ call' = NoCall
  /\ UNCHANGED <<kind, fun, bad, calls, lessonVars, cache, prefexp, xout>>

-----------------------------------------------------------------------------
(* The node *)

NodeRead ==
  /\ job \in {"learn", "evaluate"} /\ Running(e)
  /\ LET c == call.ctxt
         v == Entry(c, call.point, e.x)
     IN  /\ cache' = [cache EXCEPT ![c] = [x \in DOMAIN @ \cup {e.x} |-> IF x = e.x THEN v ELSE @[x]]]
         /\ Reads(ValueRead(c, call.point, e.x, call.idx))
  /\ UNCHANGED <<kind, fun, bad, job, call, calls, lessonVars, prefexp, xout, answer>>

\* The call at point p with the data of context c
Begin(what, p, c) ==
  /\ kind \notin Direct /\ job = "idle" /\ calls < MaxCalls
  /\ job' = what /\ calls' = calls + 1
  /\ call' = [point |-> p, ctxt |-> c, idx |-> 1]
  /\ seen' = {} /\ failures' = 0 /\ xout' = <<>> /\ answer' = "none"
  /\ cache' = [cache EXCEPT ![c] = Invalidated(@)]
  /\ UNCHANGED <<kind, fun, bad>>

End(ans) ==
  /\ job' = "idle" /\ answer' = ans
  /\ e' = Idle /\ seen' = {} /\ failures' = 0
  /\ UNCHANGED <<kind, fun, bad, call, calls, cache>>

Fails == End("failed") /\ UNCHANGED <<rfdata, ratrec, nparsout, prefexp, xout>>

Thiele == ThieleStart(2 * MaxDegree + 1)

\* learn_all asks for two successes in a row; the user may ask again.
Learn(p) ==
  /\ Begin("learn", p, "main")
  /\ e' = Thiele /\ tot' = 0
  /\ oks' = (IF oks = 2 THEN 0 ELSE oks)
  /\ ratrec' = (IF kind = "laurent" THEN ratrec ELSE [k \in Outputs |-> [num |-> {}, den |-> {}]])
  /\ UNCHANGED <<rfdata, nparsout, prefexp>>

Support(p) == {k \in 0 .. Degree(p) : p[k + 1] # 0}

\* The degrees and the first power of f; of zero the expansion has no terms
Degrees(f) ==
  [num_deg |-> Degree(f.num), den_deg |-> Degree(f.den),
   pref |-> IF kind = "laurent" /\ f.num = Zero THEN Order + 1 ELSE FirstPower(f)]

\* How many values the output adds to those of the node
Size(f) ==
  IF kind = "laurent"
  THEN LET pref == Degrees(f).pref IN IF pref > Order THEN 0 ELSE Order - pref + 1
  ELSE Cardinality(Support(f.num)) + Cardinality(Support(f.den))

\* A later learning finds the degrees of the first.
Agrees(first, idx, d) == first \/ rfdata[idx] = d

\* learnFromGraph, when an output has been reconstructed
LearnOutput ==
  /\ job = "learn" /\ e.status = "success"
  /\ LET f == Result(e)
         d == Degrees(f)
         first == nparsout = NoSize
         idx == call.idx
     IN  IF Agrees(first, idx, d)
         THEN /\ rfdata' = (IF first THEN Store(rfdata, idx, d) ELSE rfdata)
              /\ ratrec' = (IF kind = "laurent" THEN ratrec
                            ELSE [ratrec EXCEPT ![idx] = [num |-> Support(f.num),
                                                          den |-> Support(f.den)]])
              /\ UNCHANGED <<prefexp, xout>>
              /\ IF idx < NOut
                 THEN /\ call' = [call EXCEPT !.idx = @ + 1]
                      /\ e' = Thiele /\ seen' = {} /\ failures' = 0
                      /\ tot' = tot + Size(f)
                      /\ UNCHANGED <<kind, fun, bad, job, calls, oks, nparsout, cache, answer>>
                 ELSE /\ nparsout' = (IF first THEN tot + Size(f) ELSE nparsout)
                      /\ tot' = 0 /\ oks' = oks + 1
                      /\ End("ok")
         ELSE Fails /\ tot' = 0 /\ oks' = 0

LearnFails ==
  /\ job = "learn" /\ e.status = "failed"
  /\ Fails /\ tot' = 0 /\ oks' = 0

(* What is solved for an output: it starts with the power d.pref if that   *)
(* is positive, and is multiplied with a power otherwise.                  *)
System(d) ==
  IF d.pref > 0 THEN LinearStart(d.num_deg, d.den_deg, d.pref, 0, 0)
  ELSE LinearStart(d.num_deg, d.den_deg + d.pref, 0, 0, 0)

\* The expansion leaves an output out whose first power is too high.
Skipped(idx) == kind = "laurent" /\ rfdata[idx].pref > Order

\* The reconstruction starts with the first output from idx that is not left out.
StartOutput(idx, c, written) ==
  LET rest == {k \in idx .. NOut : ~Skipped(k)} IN
  IF rest = {}
  THEN /\ End("ok") /\ xout' = written
       /\ UNCHANGED <<lessonVars, prefexp>>
  ELSE LET k == CHOOSE k \in rest : \A l \in rest : k <= l
           pref == rfdata[k].pref
       IN  /\ call' = [call EXCEPT !.idx = k]
           /\ e' = System(rfdata[k]) /\ seen' = {} /\ failures' = 0
           /\ prefexp' = [prefexp EXCEPT ![c] = IF pref > 0 THEN 0 ELSE -pref]
           /\ xout' = written
           /\ UNCHANGED <<kind, fun, bad, job, calls, lessonVars, cache, answer>>

Evaluate(p, c) ==
  /\ oks = 2
  /\ Begin("evaluate", p, c)
  /\ e' = [status |-> "start"]
  /\ UNCHANGED <<lessonVars, prefexp>>

EvaluateFirst ==
  /\ job = "evaluate" /\ e.status = "start"
  /\ StartOutput(1, call.ctxt, <<>>)

Ordered(s) == SetToSortSeq(s, LAMBDA a, b : a < b)

\* The coefficients of the powers that the last learning has found
Written(f, idx) ==
  LET d == rfdata[idx]
      den_pref == IF d.pref < 0 THEN -d.pref ELSE 0
      num == Ordered(ratrec[idx].num)
      den == Ordered(ratrec[idx].den)
  IN  CASE kind = "laurent" ->
             (IF d.pref > 0 THEN Expansion(f, Order, d.pref)
              ELSE Expansion(f, Order - d.pref, 0))
        [] kind = "unirec" ->
             [k \in DOMAIN num |-> Coeff(f.num, num[k])]
               \o [k \in DOMAIN den |-> Coeff(f.den, den[k] - den_pref)]

\* num_deg and den_deg are compared with the degrees of ratrec_
DegreesKept(f, idx) ==
  LET d == rfdata[idx]
      TopOf(s) == CHOOSE k \in s \cup {0} : \A l \in s : l <= k
  IN  kind = "laurent"
      \/ /\ Degree(f.num) = TopOf(ratrec[idx].num)
         /\ Degree(f.den) - (IF d.pref < 0 THEN d.pref ELSE 0) = TopOf(ratrec[idx].den)

\* evaluateFromGraph, when an output has been reconstructed
EvaluateOutput ==
  /\ job = "evaluate" /\ e.status = "success"
  /\ LET f == Result(e)
         all == xout \o Written(f, call.idx)
     IN  IF DegreesKept(f, call.idx) /\ (kind = "laurent" \/ Len(all) <= nparsout)
         THEN StartOutput(call.idx + 1, call.ctxt, all)
         ELSE Fails /\ UNCHANGED <<oks, tot>>

EvaluateFails ==
  /\ job = "evaluate" /\ e.status = "failed"
  /\ Fails /\ UNCHANGED <<oks, tot>>

Next ==
  \/ Reconstruct \/ DirectRead \/ DirectDone \/ NodeRead
  \/ \E p \in Points : Learn(p) \/ \E c \in Contexts : Evaluate(p, c)
  \/ LearnOutput \/ LearnFails \/ EvaluateFirst \/ EvaluateOutput \/ EvaluateFails

Spec == Init /\ [][Next]_vars

-----------------------------------------------------------------------------
Agree(f, x, y) == Value(f.num, x) = Product(y, Value(f.den, x))

\* The points that no coefficient of the result needs
Spare ==
  Cardinality(seen) - (CASE e.of = "newton" -> Len(Trim(e.ai))
                         [] e.of = "thiele" -> e.i
                         [] e.of = "linear" -> e.eqs - NChecks)

(***************************************************************************)
(* A reconstruction that succeeds has found a function with all the values *)
(* it has read, NChecks of them beyond those that fix its coefficients     *)
(* (unless the degree is bounded and needs no check).  Newton's fails only *)
(* for a degree that is too high or for more values missing than NSingular.*)
(* Known exception: the linear system does not notice an equation too many *)
(* that contradicts the others (isZeroDimSystem looks at the columns of    *)
(* the unknowns only), and answers zero.                                   *)
(***************************************************************************)
KnownZero == e.of = "linear" /\ e.num = [k \in DOMAIN e.num |-> 0]

Reconstructs ==
  /\ job = "direct" /\ e.status = "success" =>
       /\ \A s \in seen : Agree(Result(e), s[1], s[2]) \/ KnownZero
       /\ Spare >= NChecks \/ (e.of = "newton" /\ ~e.beyond)
  /\ e.status = "failed" /\ e.of = "newton" =>
       failures > NSingular \/ Degree(fun[call.point][1].num) > e.maxdeg

\* The reduced form of the power k of the variable times f
Shifted(f, k) == Normalize([num |-> [j \in 1 .. k |-> 0] \o f.num, den |-> f.den])

(* The degrees that were learned are enough for f. *)
Covers(d, f) ==
  LET g == Shifted(f, IF d.pref < 0 THEN -d.pref ELSE 0) IN
  /\ f # [num |-> Zero, den |-> <<1>>]
  /\ g.den[1] # 0
  /\ Degree(g.num) <= d.num_deg
  /\ Degree(g.den) <= d.den_deg - (IF d.pref < 0 THEN -d.pref ELSE 0)
  /\ d.pref > 0 => MinDegree(g.num) >= d.pref

\* The coefficients of f where the learned ones are, or its expansion
Expected(f, idx) ==
  LET d == rfdata[idx]
      k == IF d.pref < 0 THEN -d.pref ELSE 0
  IN  IF Skipped(idx) THEN <<>> ELSE Written(Shifted(f, k), idx)

(***************************************************************************)
(* When a call of the node answers, the values it has written are the      *)
(* coefficients of the outputs of the subgraph at the point of this call,  *)
(* in the order and number that was learned, whatever failed and whatever  *)
(* was read at other points or in another context before.  It cannot be so *)
(* where the degrees that were learned at special points are too low, for  *)
(* nothing is checked there.                                               *)
(***************************************************************************)
OwnCoefficients ==
  job = "idle" /\ answer = "ok" /\ oks = 2 /\ xout # <<>> =>
    LET f == fun[call.point] IN
    (\A k \in Outputs : Skipped(k) \/ Covers(rfdata[k], f[k])) =>
      xout = FoldLeft(LAMBDA s, k : s \o Expected(f[k], k), <<>>, [k \in Outputs |-> k])
=============================================================================

---------------------------- MODULE SubgraphNodes ----------------------------
(***************************************************************************)
(* The nodes that evaluate another graph, at points made of their own      *)
(* input and of variables that they sample themselves                      *)
(* (src/subgraph.cc, cached_subgraph.cc, subgraph_fit.cc, alg_linear_fit.cc*)
(* and the multivariate part of subgraph_reconstruct.cc).  What they       *)
(* remember of an evaluation lies in data that each context has, but for   *)
(* the cache of a cached subgraph and what was learned.                    *)
(*                                                                         *)
(* The values of the graph at a point are that point.  One step of this    *)
(* machine evaluates the graph at most once.                               *)
(***************************************************************************)
EXTENDS Naturals, Sequences, FiniteSets

CONSTANTS Xs,        \* values of the inputs of the node, numbers other than 0
          Mods,      \* primes, numbers other than 0
          Workers,   \* contexts other than the main one
          NodeKinds, \* the kinds of nodes that are made
          MaxFails,  \* bound on the points where the graph fails
          MaxSteps   \* bound on the calls

ASSUME SubgraphAssumption == MaxFails \in Nat /\ MaxSteps \in Nat

VARIABLES
  graph,   \* the graph: its count of users, the other ones, whether it may change, its sizes
  node,    \* the node, NoNode before it is made and after it is deleted
  fails,   \* the points where the graph fails
  memo,    \* of each context: the last point of a memoized subgraph
  local,   \* of each context: its cache
  shared,  \* cache_ of a cached subgraph
  fitted,  \* of each context: the cache of a fit by sample point
  work,    \* the call in progress
  asked,   \* what its values are to be
  xout,    \* what it has written
  answer,  \* "none", "ok" or "failed"
  known,   \* points evaluated by a cached subgraph in a context that is there
  steps

nodeVars == <<graph, node, fails, memo, local, shared, fitted, work, asked, xout, answer, known, steps>>
dataVars == <<memo, local, shared, fitted, known>>

NoNode == [kind |-> "none"]
NoWork == [op |-> "none"]
AllCtxts == {"main"} \cup Workers

-----------------------------------------------------------------------------
(* Points *)

NoTau == 0
Taus == 1 .. 3
At(x, tau, m) == [x |-> x, tau |-> tau, m |-> m]
SamplePts == [x : Xs, tau : {NoTau} \cup Taus, m : Mods]

\* copy_input_params: the key of the caches
Key(x, m) == At(x, NoTau, m)

(* What the graph returns for the coefficients of a reconstruction: the    *)
(* terms of each of two outputs that are not zero.  One may vanish at a    *)
(* point modulo a prime, but never the last one, which has the degree.     *)
FirstPrime == CHOOSE m \in Mods : \A n \in Mods : m <= n
TermsAt(x, m, i) == IF x = i /\ m = FirstPrime THEN <<2>> ELSE <<1, 2>>
NoTerms == <<<<>>, <<>>>>

-----------------------------------------------------------------------------
(* Making and deleting nodes *)

\* How many variables a kind samples
Aux(kind) ==
  CASE kind \in {"fit", "multifit"} -> 1 [] kind = "rec" -> 2 [] OTHER -> 0

Init ==
  /\ graph \in [learned : {TRUE}, mutable : {TRUE}, users : {0}, others : {0}, nin : 1 .. 3, nout : {2}]
  /\ node = NoNode
  /\ fails \in {s \in SUBSET SamplePts : Cardinality(s) <= MaxFails}
  /\ memo = [c \in AllCtxts |-> <<>>]
  /\ local = [c \in AllCtxts |-> <<>>]
  /\ shared = {}
  /\ fitted = [c \in AllCtxts |-> <<>>]
  /\ work = NoWork /\ asked = <<>> /\ xout = <<>> /\ answer = "none" /\ known = {} /\ steps = 0

Idle == work = NoWork /\ steps < MaxSteps
Step == steps' = steps + 1

\* init_subgraph: the graph can be evaluated and each input has the right length
Accepted(kind, npars) ==
  /\ graph.learned
  /\ IF npars = <<>> THEN graph.nin = Aux(kind)
     ELSE \A j \in DOMAIN npars : npars[j] + Aux(kind) = graph.nin

\* What the kinds ask for besides: SubgraphRec::init, SubgraphFit::init, SubgraphMultiFit::init
Suits(kind) ==
  CASE kind = "rec" -> Aux(kind) >= 2
    [] kind = "fit" -> graph.nout = 2
    [] kind = "multifit" -> graph.nout >= 2
    [] OTHER -> TRUE

\* nparsout; that of what is to be learned is not known yet
Outputs(kind, npars) ==
  CASE kind = "map" -> Len(npars) * graph.nout
    [] kind \in {"fit", "multifit", "rec"} -> 0
    [] OTHER -> graph.nout

\* g->set_immutable(); g->subgraph_count_ += 1
Used(g) == [g EXCEPT !.users = @ + 1, !.mutable = FALSE]

\* dec_subgraph_count_
Unused(g) == [g EXCEPT !.users = @ - 1, !.mutable = (g.users = 1)]

\* A node that the kind refuses after it has used the graph is deleted again.
NewNode(kind, npars) ==
  /\ Idle /\ node = NoNode /\ Step
  /\ IF Accepted(kind, npars) /\ Suits(kind)
     THEN /\ node' = [kind |-> kind, nparsin |-> npars, nparsout |-> Outputs(kind, npars),
                      learned |-> kind \notin {"fit", "multifit", "rec"}, terms |-> NoTerms]
          /\ graph' = Used(graph) /\ answer' = "ok"
     ELSE /\ answer' = "failed" /\ node' = node
          /\ graph' = (IF Accepted(kind, npars) THEN Unused(Used(graph)) ELSE graph)
  /\ memo' = [c \in AllCtxts |-> <<>>] /\ local' = [c \in AllCtxts |-> <<>>]
  /\ fitted' = [c \in AllCtxts |-> <<>>] /\ shared' = {} /\ known' = {}
  /\ xout' = <<>>
  /\ UNCHANGED <<fails, work, asked>>

\* ~SubGraph
DeleteNode ==
  /\ Idle /\ node # NoNode /\ Step
  /\ node' = NoNode /\ graph' = Unused(graph)
  /\ xout' = <<>> /\ answer' = "none"
  /\ UNCHANGED <<fails, work, asked, dataVars>>

\* Another node comes to use the graph, or goes.
OtherUser ==
  /\ Idle /\ Step
  /\ \/ graph.others = 0 /\ graph' = [Used(graph) EXCEPT !.others = 1]
     \/ graph.others = 1 /\ graph' = [Unused(graph) EXCEPT !.others = 0]
  /\ UNCHANGED <<node, fails, work, asked, xout, answer, dataVars>>

\* A graph that may change gets another output node, or has to learn.
ChangeGraph ==
  /\ Idle /\ graph.mutable /\ Step
  /\ \E n \in 1 .. 3, k \in 1 .. 2, l \in BOOLEAN :
       graph' = [graph EXCEPT !.nin = n, !.nout = k, !.learned = l]
  /\ UNCHANGED <<node, fails, work, asked, xout, answer, dataVars>>

-----------------------------------------------------------------------------
(* Calls *)

\* A call in context c, at one value for each input of the node
Start(op, c, x, m, rows, values) ==
  /\ Idle /\ node # NoNode /\ Step
  /\ work' = [op |-> op, ctxt |-> c, x |-> x, m |-> m, rows |-> rows]
  /\ asked' = values
  /\ xout' = <<>> /\ answer' = "none"
  /\ UNCHANGED <<graph, node, fails, memo, local, shared, known>>

End(ans) == work' = NoWork /\ answer' = ans

More(rest) == work' = [work EXCEPT !.rows = rest] /\ UNCHANGED answer

\* What is read of the graph
Returned(pt) == pt \notin fails
Garbage == At(0, NoTau, 0)

\* SimpleSubGraph, SubGraphMap: one evaluation for each input
EvaluateMap(c, xs, m) ==
  /\ node.kind \in {"simple", "map"} /\ Len(xs) = (IF node.kind = "map" THEN Len(node.nparsin) ELSE 1)
  /\ LET pts == [j \in DOMAIN xs |-> Key(xs[j], m)] IN Start("evaluate", c, xs[1], m, pts, pts)
  /\ UNCHANGED fitted

MapStep ==
  /\ work.op = "evaluate" /\ node.kind \in {"simple", "map"}
  /\ LET pt == Head(work.rows) IN
     IF Returned(pt)
     THEN /\ xout' = Append(xout, pt)
          /\ IF Len(work.rows) = 1 THEN End("ok") ELSE More(Tail(work.rows))
     ELSE End("failed") /\ UNCHANGED xout
  /\ UNCHANGED <<graph, node, fails, asked, dataVars, steps>>

\* Mutant of SamePoint: the prime is forgotten.
SamePointOnly(entry, pt) == entry.point.x = pt.x

\* mod.n() == data.mod_ && std::equal(xin[0], xin[0]+nin, data.xin_.get())
SamePoint(entry, pt) == entry.point = pt

(* MemoizedSubGraph: the last point and its values are kept, also when the *)
(* evaluation has failed and the values are what was in the memory.        *)
Memoized(c, x, m) ==
  /\ Idle /\ node.kind = "memoized" /\ Step /\ asked' = <<Key(x, m)>>
  /\ LET pt == Key(x, m) IN
     IF memo[c] # <<>> /\ SamePoint(Head(memo[c]), pt)
     THEN /\ xout' = <<Head(memo[c]).value>> /\ answer' = "ok"
          /\ UNCHANGED memo
     ELSE LET v == IF Returned(pt) THEN pt ELSE Garbage IN
          /\ xout' = <<v>> /\ answer' = (IF Returned(pt) THEN "ok" ELSE "failed")
          /\ memo' = [memo EXCEPT ![c] = <<[point |-> pt, value |-> v]>>]
  /\ UNCHANGED <<graph, node, fails, local, shared, fitted, work, known>>

\* The values that the caches have for a key, the shared one first
Cached(c, pt) ==
  IF pt \in shared THEN {pt}
  ELSE IF local[c] # <<>> /\ pt \in Head(local[c]) THEN {pt} ELSE {}

\* CachedSubGraph: values are looked up, or computed and kept in the context
CachedCall(c, x, m) ==
  /\ Idle /\ node.kind = "cached" /\ Step /\ asked' = <<Key(x, m)>>
  /\ LET pt == Key(x, m)
         made == IF local[c] = <<>> /\ pt \notin shared THEN <<{}>> ELSE local[c]
     IN  IF Cached(c, pt) # {}
         THEN /\ xout' = <<pt>> /\ answer' = "ok"
              /\ local' = [local EXCEPT ![c] = made] /\ UNCHANGED known
         ELSE IF Returned(pt)
         THEN /\ xout' = <<pt>> /\ answer' = "ok" /\ known' = known \cup {<<c, pt>>}
              /\ local' = [local EXCEPT ![c] = <<Head(made) \cup {pt}>>]
         ELSE /\ xout' = <<>> /\ answer' = "failed"
              /\ local' = [local EXCEPT ![c] = made] /\ UNCHANGED known
  /\ UNCHANGED <<graph, node, fails, memo, shared, fitted, work>>

\* Mutant of Collected: the cache of the main context stays where it is.
CollectedOfWorkers == Workers

\* The contexts whose caches are merged, the main one among them
Collected == AllCtxts

(* fflowml_alg_cached_subgraph_merge, and UIntCache::merge_caches: what a  *)
(* context has computed is there for all.                                  *)
MergeCaches ==
  /\ Idle /\ node.kind = "cached" /\ Step
  /\ shared' = shared \cup UNION {Head(local[c]) : c \in {d \in Collected : local[d] # <<>>}}
  /\ local' = [c \in AllCtxts |-> IF c \in Collected THEN <<>> ELSE local[c]]
  /\ known' = AllCtxts \X {k[2] : k \in known}
  /\ answer' = "none" /\ xout' = <<>>
  /\ UNCHANGED <<graph, node, fails, memo, fitted, work, asked>>

\* CachedFromSubGraph of another graph: the shared cache, or nothing
FromCache(x, m) ==
  /\ Idle /\ node.kind = "cached" /\ Step /\ asked' = <<Key(x, m)>>
  /\ LET pt == Key(x, m) IN
     IF pt \in shared THEN xout' = <<pt>> /\ answer' = "ok" ELSE xout' = <<>> /\ answer' = "failed"
  /\ UNCHANGED <<graph, node, fails, dataVars, work>>

\* clone_data: the data of a worker is made again from that of the main context
CloneData(c) ==
  /\ Idle /\ node # NoNode /\ Step /\ c \in Workers
  /\ memo' = [memo EXCEPT ![c] = <<>>] /\ local' = [local EXCEPT ![c] = <<>>]
  /\ fitted' = [fitted EXCEPT ![c] = <<>>]
  /\ known' = {k \in known : k[1] # c \/ k[2] \in shared}
  /\ xout' = <<>> /\ answer' = "none"
  /\ UNCHANGED <<graph, node, fails, shared, work, asked>>

-----------------------------------------------------------------------------
(* Fits: equations at sample points, solved for each value of the input *)

\* The equations of the fits, <<fit, equation>>
Equations(j) == IF j = 1 THEN <<<<1, 1>>, <<1, 2>>, <<1, 3>>>> ELSE <<<<2, 1>>, <<2, 2>>>>

\* All of them, in the order in which they are filled
AllRows == IF node.kind = "multifit" THEN Equations(1) \o Equations(2) ELSE Equations(1)

\* Those that were found to be independent
NeededRows ==
  IF node.kind = "multifit" THEN <<<<1, 1>>, <<1, 3>>, <<2, 1>>, <<2, 2>>>>
  ELSE <<<<1, 1>>, <<1, 2>>>>

\* Mutant of NewPoint: the values of the last point stay valid.
NewPointNot(entries) == entries

\* cache.set_first_value_entries(INVALID_ID)
NewPoint(entries) == [tau \in DOMAIN entries |-> <<>>]

\* Learning uses all equations, an evaluation those that are independent.
CallFit(op, c, x, m) ==
  /\ node.kind \in {"fit", "multifit"}
  /\ op = "learn" => c = "main"
  /\ op = "evaluate" => node.learned
  /\ LET rows == IF op = "learn" THEN AllRows ELSE NeededRows IN
     Start(op, c, x, m, rows, [k \in DOMAIN rows |-> At(x, rows[k][2], m)])
  /\ fitted' = [fitted EXCEPT ![c] = NewPoint(@)]

(* fill_matrix and fill_equation: the graph is evaluated unless a fit has  *)
(* done so at the same sample point; a simple fit has no cache.            *)
FillRow ==
  /\ work.op \in {"learn", "evaluate"} /\ node.kind \in {"fit", "multifit"}
  /\ LET c == work.ctxt
         tau == Head(work.rows)[2]
         pt == At(work.x, tau, work.m)
         there == node.kind = "multifit" /\ tau \in DOMAIN fitted[c] /\ fitted[c][tau] # <<>>
         v == IF there THEN Head(fitted[c][tau]) ELSE pt
     IN  IF there \/ Returned(pt)
         THEN /\ xout' = Append(xout, v)
              /\ fitted' = (IF node.kind = "fit" THEN fitted
                            ELSE [fitted EXCEPT ![c] =
                                    [t \in DOMAIN @ \cup {tau} |-> IF t = tau THEN <<v>> ELSE @[t]]])
              /\ IF Len(work.rows) > 1
                 THEN More(Tail(work.rows)) /\ UNCHANGED node
                 ELSE /\ End("ok")
                      /\ node' = (IF work.op = "learn" THEN [node EXCEPT !.learned = TRUE] ELSE node)
         ELSE /\ End("failed") /\ UNCHANGED <<xout, fitted>>
              /\ node' = (IF work.op = "learn" THEN [node EXCEPT !.learned = FALSE] ELSE node)
  /\ UNCHANGED <<graph, fails, memo, local, shared, known, asked, steps>>

-----------------------------------------------------------------------------
(* SubgraphRec: the coefficients of the outputs as functions of the        *)
(* sampled variables.  Its points are generated again from the degrees     *)
(* that were learned, and only the number of all coefficients is compared. *)

CoefficientsOf(x, i, ts) == [k \in 1 .. Len(ts) |-> <<x, i, ts[k]>>]
Coefficients(x, terms) == CoefficientsOf(x, 1, terms[1]) \o CoefficientsOf(x, 2, terms[2])

Count(terms) == Len(terms[1]) + Len(terms[2])

\* Learning goes over the total degrees, the degrees in each variable, and all points.
CallRec(op, c, x, m) ==
  /\ node.kind = "rec"
  /\ op = "learn" => c = "main"
  /\ op = "evaluate" => node.learned
  /\ Start(op, c, x, m, IF op = "learn" THEN <<1, 2, 3>> ELSE <<3>>, Coefficients(x, node.terms))
  /\ UNCHANGED fitted

\* Mutant of SameCount: fewer coefficients than were learned are taken.
SameCountOrLess(terms) == Count(terms) <= node.nparsout

\* nout_count != nparsout
SameCount(terms) == Count(terms) = node.nparsout

RecFails ==
  /\ End("failed") /\ UNCHANGED xout
  /\ node' = (IF work.op = "evaluate" THEN node
              ELSE [node EXCEPT !.nparsout = IF Len(work.rows) = 1 THEN 0 ELSE @, !.learned = FALSE])

RecDone(x, terms) ==
  IF work.op = "learn"
  THEN /\ End("ok") /\ UNCHANGED xout
       /\ node' = [node EXCEPT !.terms = terms, !.nparsout = Count(terms), !.learned = TRUE]
  ELSE /\ UNCHANGED node
       /\ IF SameCount(terms) THEN End("ok") /\ xout' = Coefficients(x, terms)
          ELSE End("failed") /\ UNCHANGED xout

RecStep ==
  /\ work.op \in {"learn", "evaluate"} /\ node.kind = "rec"
  /\ IF ~Returned(At(work.x, Head(work.rows), work.m)) THEN RecFails
     ELSE IF Len(work.rows) > 1 THEN More(Tail(work.rows)) /\ UNCHANGED <<node, xout>>
     ELSE RecDone(work.x, <<TermsAt(work.x, work.m, 1), TermsAt(work.x, work.m, 2)>>)
  /\ UNCHANGED <<graph, fails, asked, dataVars, steps>>

-----------------------------------------------------------------------------
Next ==
  \/ \E k \in NodeKinds, n \in {<<>>, <<1>>, <<2>>, <<1, 1>>, <<1, 2>>} : NewNode(k, n)
  \/ DeleteNode \/ OtherUser \/ ChangeGraph
  \/ \E c \in AllCtxts, m \in Mods :
       \/ \E xs \in Xs \X Xs : EvaluateMap(c, xs, m)
       \/ \E x \in Xs : \/ EvaluateMap(c, <<x>>, m) \/ Memoized(c, x, m) \/ CachedCall(c, x, m)
                       \/ \E op \in {"learn", "evaluate"} : CallFit(op, c, x, m) \/ CallRec(op, c, x, m)
  \/ \E x \in Xs, m \in Mods : FromCache(x, m)
  \/ \E c \in Workers : CloneData(c)
  \/ MapStep \/ MergeCaches \/ FillRow \/ RecStep

Spec == Init /\ [][Next]_nodeVars

-----------------------------------------------------------------------------
(***************************************************************************)
(* A node that answers has the values that the graph has at the point and  *)
(* prime of this call, at each of the points it samples, whatever it keeps *)
(* of other calls, primes and contexts, and whatever failed before.  Known *)
(* exceptions: the memo of an evaluation that failed is used like another, *)
(* and coefficients of a reconstruction that are not those that were       *)
(* learned, but as many, take their places.                                *)
(***************************************************************************)
KnownGarbage == node.kind = "memoized" /\ xout = <<Garbage>>
KnownCount == node.kind = "rec" /\ Len(xout) = Len(asked)

AnswersOwnPoint ==
  answer = "ok" /\ work = NoWork /\ xout # <<>> => xout = asked \/ KnownGarbage \/ KnownCount

(***************************************************************************)
(* What a cached subgraph has computed in a context is not computed again  *)
(* there, and after a merge not in any context, nor missed by a node that  *)
(* reads the shared cache.  Data of a worker that is made again loses what *)
(* only it had.                                                            *)
(***************************************************************************)
NothingForgotten ==
  \A k \in known : k[2] \in shared \/ (local[k[1]] # <<>> /\ k[2] \in Head(local[k[1]]))
=============================================================================

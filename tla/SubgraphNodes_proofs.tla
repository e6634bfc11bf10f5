------------------------ MODULE SubgraphNodes_proofs ------------------------
(***************************************************************************)
(* Proofs about SubgraphNodes: nodes that evaluate another graph answer    *)
(* with values of their own point, and a cached subgraph forgets nothing,  *)
(* for every set of inputs, primes and workers, every set of kinds and any *)
(* bound on the calls and the points where the graph fails.                *)
(*                                                                         *)
(* CacheInv is what the caches of a cached subgraph keep.  AnswerInv is    *)
(* what a call in progress relies on: what it has written and the points   *)
(* that are left make up what was asked for, the values by sample point    *)
(* are those of this point, and the coefficients of a reconstruction that  *)
(* were learned are as many as its outputs.                                *)
(***************************************************************************)
EXTENDS SubgraphNodes, SequenceTheorems, TLAPS

-----------------------------------------------------------------------------
(* The caches of a cached subgraph *)

CacheInv ==
  /\ DOMAIN local = AllCtxts
  /\ \A k \in known : k[1] \in AllCtxts
  /\ NothingForgotten

LEMMA CacheInit == Init => CacheInv
  BY DEF Init, CacheInv, NothingForgotten

LEMMA CallKeepsCache ==
  ASSUME CacheInv, NEW c \in AllCtxts, NEW x, NEW m, CachedCall(c, x, m)
  PROVE  CacheInv'
  <1> DEFINE pt == Key(x, m)
             made == IF local[c] = <<>> /\ pt \notin shared THEN <<{}>> ELSE local[c]
             more == <<Head(made) \cup {pt}>>
  <1>1. CASE UNCHANGED known /\ local' = [local EXCEPT ![c] = made] /\ shared' = shared
    <2> USE DEF CacheInv
    <2>1. DOMAIN local' = AllCtxts /\ \A k \in known' : k[1] \in AllCtxts
      BY <1>1
    <2>2. \A d \in AllCtxts : local'[d] = (IF d = c THEN made ELSE local[d])
      BY <1>1
    <2>3. \A k \in known : local[k[1]] # <<>> => local'[k[1]] = local[k[1]]
      BY <2>2
    <2>4. NothingForgotten'
      BY <1>1, <2>3 DEF NothingForgotten
    <2> QED
      BY <2>1, <2>4
  <1>2. CASE known' = known \cup {<<c, pt>>} /\ local' = [local EXCEPT ![c] = more] /\ shared' = shared
             /\ Cached(c, pt) = {}
    <2> USE DEF CacheInv
    <2>1. DOMAIN local' = AllCtxts
      BY <1>2
    <2>2. ASSUME NEW k \in known' PROVE k[1] \in AllCtxts /\ (k = <<c, pt>> \/ k \in known)
      BY <1>2
    <2>3. \A d \in AllCtxts : local'[d] = (IF d = c THEN more ELSE local[d])
      BY <1>2
    <2>4. Head(more) = Head(made) \cup {pt} /\ more # <<>>
      OBVIOUS
    <2>5. local[c] # <<>> => Head(made) = Head(local[c])
      OBVIOUS
    <2>6. \A k \in known' : k[2] \in shared \/ (local'[k[1]] # <<>> /\ k[2] \in Head(local'[k[1]]))
      <3> SUFFICES ASSUME NEW k \in known', k[2] \notin shared
                   PROVE  local'[k[1]] # <<>> /\ k[2] \in Head(local'[k[1]])
        OBVIOUS
      <3> HIDE DEF pt, made, more
      <3>1. CASE k = <<c, pt>>
        <4>1. k[1] = c /\ k[2] = pt
          BY <3>1
        <4>2. local'[c] = more
          BY <2>3
        <4> QED
          BY <4>1, <4>2, <2>4
      <3>2. CASE k \in known
        <4>1. local[k[1]] # <<>> /\ k[2] \in Head(local[k[1]])
          BY <3>2 DEF NothingForgotten
        <4> QED
          BY <4>1, <2>2, <2>3, <2>4, <2>5
      <3> QED
        BY <3>1, <3>2, <2>2
    <2> QED
      BY <1>2, <2>1, <2>2, <2>6 DEF NothingForgotten
  <1> QED
    BY <1>1, <1>2 DEF CachedCall

LEMMA MergeKeepsCache ==
  ASSUME CacheInv, MergeCaches
  PROVE  CacheInv'
  <1> DEFINE all == UNION {Head(local[c]) : c \in {d \in Collected : local[d] # <<>>}}
  <1>1. Collected = AllCtxts
    BY DEF Collected
  <1>2. DOMAIN local' = AllCtxts /\ \A k \in known' : k[1] \in AllCtxts
    BY DEF MergeCaches
  <1>3. ASSUME NEW k \in known' PROVE k[2] \in shared'
    <2>1. PICK j \in known : k[2] = j[2]
      BY DEF MergeCaches
    <2>2. j[2] \in shared \/ j[2] \in all
      BY <1>1 DEF CacheInv, NothingForgotten
    <2> QED
      BY <2>1, <2>2 DEF MergeCaches
  <1> QED
    BY <1>2, <1>3 DEF CacheInv, NothingForgotten

LEMMA CloneKeepsCache ==
  ASSUME CacheInv, NEW c, CloneData(c)
  PROVE  CacheInv'
  <1>1. DOMAIN local' = AllCtxts /\ known' \subseteq known
    BY DEF CloneData, CacheInv
  <1>2. \A k \in known' : k[1] # c \/ k[2] \in shared
    BY DEF CloneData
  <1>3. \A d \in AllCtxts : d # c => local'[d] = local[d]
    BY DEF CloneData, CacheInv
  <1> QED
    BY <1>1, <1>2, <1>3 DEF CloneData, CacheInv, NothingForgotten

LEMMA CacheStep == CacheInv /\ [Next]_nodeVars => CacheInv'
  <1> SUFFICES ASSUME CacheInv, [Next]_nodeVars PROVE CacheInv'
    OBVIOUS
  <1> DEFINE Same == local' = local /\ known' = known /\ shared' = shared
  <1>1. Same => CacheInv'
    BY DEF CacheInv, NothingForgotten
  <1>2. CASE \E k \in NodeKinds, n \in {<<>>, <<1>>, <<2>>, <<1, 1>>, <<1, 2>>} : NewNode(k, n)
    BY <1>2 DEF NewNode, CacheInv, NothingForgotten
  <1>3. CASE DeleteNode \/ OtherUser \/ ChangeGraph
    <2>1. UNCHANGED dataVars
      <3>1. DeleteNode => UNCHANGED dataVars
        BY DEF DeleteNode
      <3>2. OtherUser => UNCHANGED dataVars
        BY DEF OtherUser
      <3>3. ChangeGraph => UNCHANGED dataVars
        BY DEF ChangeGraph
      <3> QED
        BY <1>3, <3>1, <3>2, <3>3
    <2> QED
      BY <2>1, <1>1 DEF dataVars
  <1>3a. CASE MapStep \/ FillRow \/ RecStep
    <2>1. CASE MapStep
      BY <2>1, <1>1 DEF MapStep, dataVars
    <2>2. CASE FillRow
      BY <2>2, <1>1 DEF FillRow
    <2>3. CASE RecStep
      BY <2>3, <1>1 DEF RecStep, dataVars
    <2> QED
      BY <1>3a, <2>1, <2>2, <2>3
  <1>4. ASSUME NEW c \in AllCtxts, NEW m \in Mods, NEW xs, EvaluateMap(c, xs, m) PROVE Same
    BY <1>4 DEF EvaluateMap, Start
  <1>5. ASSUME NEW c \in AllCtxts, NEW m \in Mods, NEW x,
               Memoized(c, x, m) \/ (\E op \in {"learn", "evaluate"} : CallFit(op, c, x, m) \/ CallRec(op, c, x, m))
        PROVE  Same
    BY <1>5 DEF Memoized, CallFit, CallRec, Start
  <1>6. ASSUME NEW x, NEW m, FromCache(x, m) PROVE Same
    BY <1>6 DEF FromCache, dataVars
  <1>7. CASE UNCHANGED nodeVars
    BY <1>7, <1>1 DEF nodeVars
  <1> HIDE DEF Same
  <1> QED
    <2>1. ASSUME NEW c \in AllCtxts, NEW m \in Mods,
                 \/ \E xs \in Xs \X Xs : EvaluateMap(c, xs, m)
                 \/ \E x \in Xs : \/ EvaluateMap(c, <<x>>, m) \/ Memoized(c, x, m) \/ CachedCall(c, x, m)
                                 \/ \E op \in {"learn", "evaluate"} : CallFit(op, c, x, m) \/ CallRec(op, c, x, m)
          PROVE  CacheInv'
      BY <2>1, <1>1, <1>4, <1>5, CallKeepsCache
    <2>2. ASSUME NEW c \in Workers, CloneData(c) PROVE CacheInv'
      BY <2>2, CloneKeepsCache
    <2>3. ASSUME NEW x \in Xs, NEW m \in Mods, FromCache(x, m) PROVE CacheInv'
      BY <2>3, <1>1, <1>6
    <2> QED
      BY <1>2, <1>3, <1>3a, <1>7, <2>1, <2>2, <2>3, MergeKeepsCache DEF Next

(***************************************************************************)
(* What a cached subgraph (src/cached_subgraph.cc) has computed in a       *)
(* context is not computed again there, and after a merge is in the cache  *)
(* that all contexts and other nodes read.                                 *)
(***************************************************************************)
THEOREM CachesForgetNothing == Spec => []NothingForgotten
  <1>1. CacheInv => NothingForgotten
    BY DEF CacheInv
  <1> QED
    BY CacheInit, CacheStep, <1>1, PTL DEF Spec

-----------------------------------------------------------------------------
(* The answers *)

Equation == {1, 2} \X Taus
Points(x, rows, m) == [k \in DOMAIN rows |-> At(x, rows[k][2], m)]

NodeShape ==
  node = NoNode \/ node = [kind |-> node.kind, nparsin |-> node.nparsin, nparsout |-> node.nparsout,
                           learned |-> node.learned, terms |-> node.terms]

\* The coefficients that were learned are as many as the outputs.
NodeOK ==
  node.kind = "rec" => /\ node.nparsout \in Nat /\ node.terms \in Seq({1, 2}) \X Seq({1, 2})
                       /\ node.learned => node.nparsout = Count(node.terms)

\* A memo has the value of its own point, or garbage if that evaluation failed.
MemoOK ==
  /\ DOMAIN memo = AllCtxts
  /\ \A c \in AllCtxts : memo[c] # <<>> => Head(memo[c]).value \in {Head(memo[c]).point, Garbage}

\* What is written, and what is left to evaluate, is what was asked for.
MapOK ==
  /\ work.op = "evaluate" /\ xout \in Seq(SamplePts)
  /\ work.rows \in Seq(SamplePts) /\ work.rows # <<>>
  /\ asked = xout \o work.rows

\* Besides, what is remembered of a sample point is of this point and prime.
FitOK ==
  /\ xout \in Seq(SamplePts)
  /\ work.rows \in Seq(Equation) /\ work.rows # <<>>
  /\ asked = xout \o Points(work.x, work.rows, work.m)
  /\ \A tau \in DOMAIN fitted[work.ctxt] :
       fitted[work.ctxt][tau] # <<>> => Head(fitted[work.ctxt][tau]) = At(work.x, tau, work.m)

RecOK == xout = <<>> /\ (work.op = "evaluate" => Len(asked) = node.nparsout)

WorkShape ==
  /\ work = [op |-> work.op, ctxt |-> work.ctxt, x |-> work.x, m |-> work.m, rows |-> work.rows]
  /\ work.op \in {"learn", "evaluate"} /\ work.ctxt \in AllCtxts /\ work.x \in Xs /\ work.m \in Mods

WorkOK ==
  work # NoWork => /\ answer = "none" /\ WorkShape
                   /\ node.kind \in {"simple", "map"} => MapOK
                   /\ node.kind \in {"fit", "multifit"} => FitOK
                   /\ node.kind = "rec" => RecOK

AnswerInv ==
  /\ NodeShape /\ NodeOK /\ MemoOK /\ DOMAIN fitted = AllCtxts /\ WorkOK /\ AnswersOwnPoint

LEMMA OneMore ==
  ASSUME NEW S, NEW xs \in Seq(S), NEW r \in Seq(S), r # <<>>
  PROVE  /\ Append(xs, Head(r)) \in Seq(S) /\ Tail(r) \in Seq(S)
         /\ xs \o r = Append(xs, Head(r)) \o Tail(r)
         /\ Len(r) = 1 => xs \o r = Append(xs, Head(r))
         /\ Len(r) # 1 => Tail(r) # <<>>
  <1> DEFINE more == Append(xs, Head(r))
             left == Tail(r)
  <1>1. Head(r) = r[1] /\ Head(r) \in S /\ left \in Seq(S) /\ Len(left) = Len(r) - 1
        /\ \A i \in 1 .. Len(left) : left[i] = r[i + 1]
    BY HeadTailProperties
  <1>2. more \in Seq(S) /\ Len(more) = Len(xs) + 1 /\ more[Len(xs) + 1] = Head(r)
        /\ \A i \in 1 .. Len(xs) : more[i] = xs[i]
    BY <1>1, AppendProperties
  <1>3. Len(xs) \in Nat /\ Len(r) \in Nat /\ Len(left) \in Nat /\ Len(r) # 0
    BY <1>1, LenProperties, EmptySeq
  <1> HIDE DEF more, left
  <1>4. xs \o r \in Seq(S) /\ Len(xs \o r) = Len(xs) + Len(r)
        /\ \A i \in 1 .. Len(xs) + Len(r) : (xs \o r)[i] = IF i <= Len(xs) THEN xs[i] ELSE r[i - Len(xs)]
    BY ConcatProperties
  <1>5. more \o left \in Seq(S) /\ Len(more \o left) = Len(more) + Len(left)
        /\ \A i \in 1 .. Len(more) + Len(left) :
             (more \o left)[i] = IF i <= Len(more) THEN more[i] ELSE left[i - Len(more)]
    BY <1>1, <1>2, ConcatProperties
  <1>6. ASSUME NEW i \in 1 .. Len(xs) + Len(r) PROVE (xs \o r)[i] = (more \o left)[i]
    <2>1. CASE i <= Len(xs)
      BY <2>1, <1>1, <1>2, <1>3, <1>4, <1>5
    <2>2. CASE i = Len(xs) + 1
      BY <2>2, <1>1, <1>2, <1>3, <1>4, <1>5
    <2>3. CASE i > Len(xs) + 1
      <3>1. i - Len(more) \in 1 .. Len(left) /\ (i - Len(more)) + 1 = i - Len(xs)
        BY <2>3, <1>1, <1>2, <1>3
      <3>2. left[i - Len(more)] = r[i - Len(xs)]
        BY <3>1, <1>1
      <3> QED
        BY <3>2, <2>3, <1>1, <1>2, <1>3, <1>4, <1>5
    <2>4. i <= Len(xs) \/ i = Len(xs) + 1 \/ i > Len(xs) + 1
      BY <1>3
    <2> QED
      BY Zenon, <2>1, <2>2, <2>3, <2>4
  <1>7. xs \o r = more \o left
    <2>1. Len(xs \o r) = Len(more \o left)
      BY <1>1, <1>2, <1>3, <1>4, <1>5
    <2> QED
      BY <2>1, <1>4, <1>5, <1>6, SeqEqual
  <1>8. Len(r) = 1 => left = <<>>
    BY <1>1, EmptySeq
  <1>9. Len(r) # 1 => left # <<>>
    BY <1>1, <1>3, EmptySeq
  <1>10. Len(r) = 1 => xs \o r = more
    BY <1>2, <1>7, <1>8, ConcatEmptySeq
  <1> QED
    BY <1>1, <1>2, <1>7, <1>9, <1>10 DEF more, left

LEMMA PointsOf ==
  ASSUME NEW x \in Xs, NEW m \in Mods, NEW rows \in Seq(Equation), rows # <<>>
  PROVE  /\ Points(x, rows, m) \in Seq(SamplePts) /\ Points(x, rows, m) # <<>>
         /\ Len(Points(x, rows, m)) = Len(rows)
         /\ Head(rows)[2] \in Taus
         /\ Head(Points(x, rows, m)) = At(x, Head(rows)[2], m)
         /\ Tail(Points(x, rows, m)) = Points(x, Tail(rows), m)
  <1> DEFINE P(r) == Points(x, r, m)
  <1>1. ASSUME NEW r \in Seq(Equation)
        PROVE  P(r) \in Seq(SamplePts) /\ Len(P(r)) = Len(r) /\ \A k \in 1 .. Len(r) : P(r)[k] = At(x, r[k][2], m)
    <2>1. Len(r) \in Nat /\ DOMAIN r = 1 .. Len(r)
      BY LenProperties
    <2>2. ASSUME NEW k \in 1 .. Len(r) PROVE At(x, r[k][2], m) \in SamplePts
      <3>1. r[k] \in Equation
        BY ElementOfSeq
      <3> QED
        BY <3>1 DEF Equation, At, SamplePts
    <2> QED
      BY <2>1, <2>2 DEF Points
  <1>2. Head(rows) = rows[1] /\ Head(rows) \in Equation /\ Tail(rows) \in Seq(Equation) /\ Len(Tail(rows)) = Len(rows) - 1
        /\ \A i \in 1 .. Len(Tail(rows)) : Tail(rows)[i] = rows[i + 1]
    BY HeadTailProperties
  <1>3. Len(rows) \in Nat /\ Len(rows) # 0
    BY LenProperties, EmptySeq
  <1>4. P(rows) \in Seq(SamplePts) /\ P(rows) # <<>> /\ Len(P(rows)) = Len(rows)
    BY <1>1, <1>3, EmptySeq
  <1>5. Head(P(rows)) = P(rows)[1] /\ Tail(P(rows)) \in Seq(SamplePts) /\ Len(Tail(P(rows))) = Len(rows) - 1
        /\ \A i \in 1 .. Len(Tail(P(rows))) : Tail(P(rows))[i] = P(rows)[i + 1]
    BY <1>4, HeadTailProperties
  <1>6. Head(P(rows)) = At(x, Head(rows)[2], m)
    BY <1>1, <1>2, <1>3, <1>5
  <1>7. P(Tail(rows)) \in Seq(SamplePts) /\ Len(P(Tail(rows))) = Len(rows) - 1
        /\ \A k \in 1 .. Len(rows) - 1 : P(Tail(rows))[k] = At(x, Tail(rows)[k][2], m)
    <2> DEFINE t == Tail(rows)
    <2>1. t \in Seq(Equation) /\ Len(t) = Len(rows) - 1
      BY <1>2
    <2> HIDE DEF t, P
    <2>2. P(t) \in Seq(SamplePts) /\ Len(P(t)) = Len(t) /\ \A k \in 1 .. Len(t) : P(t)[k] = At(x, t[k][2], m)
      BY <2>1, <1>1
    <2>3. P(t) \in Seq(SamplePts) /\ Len(P(t)) = Len(rows) - 1
          /\ \A k \in 1 .. Len(rows) - 1 : P(t)[k] = At(x, t[k][2], m)
      BY <2>1, <2>2
    <2> QED
      BY <2>3 DEF t
  <1>8. ASSUME NEW i \in 1 .. Len(rows) - 1 PROVE Tail(P(rows))[i] = P(Tail(rows))[i]
    <2>1. i + 1 \in 1 .. Len(rows)
      BY <1>3
    <2>2. P(rows)[i + 1] = At(x, rows[i + 1][2], m)
      BY <2>1, <1>1
    <2> QED
      BY <2>2, <1>2, <1>5, <1>7
  <1>9. Tail(P(rows)) = P(Tail(rows))
    BY <1>5, <1>7, <1>8, SeqEqual
  <1>10. Head(rows)[2] \in Taus
    BY <1>2 DEF Equation
  <1> QED
    BY <1>4, <1>6, <1>9, <1>10

LEMMA CountIsLength ==
  ASSUME NEW x, NEW t \in Seq({1, 2}) \X Seq({1, 2})
  PROVE  Count(t) \in Nat /\ Len(Coefficients(x, t)) = Count(t)
  <1>1. t[1] \in Seq({1, 2}) /\ t[2] \in Seq({1, 2})
    OBVIOUS
  <1>2. Len(t[1]) \in Nat /\ Len(t[2]) \in Nat
    BY <1>1, LenProperties
  <1> DEFINE U == {<<x, i, n>> : i \in {1, 2}, n \in {1, 2}}
  <1>3. ASSUME NEW i \in {1, 2}
        PROVE  CoefficientsOf(x, i, t[i]) \in Seq(U) /\ Len(CoefficientsOf(x, i, t[i])) = Len(t[i])
    <2>1. t[i] \in Seq({1, 2}) /\ Len(t[i]) \in Nat
      BY <1>1, <1>2
    <2>2. \A k \in 1 .. Len(t[i]) : <<x, i, t[i][k]>> \in U
      BY <2>1, ElementOfSeq
    <2> HIDE DEF U
    <2> QED
      BY <2>1, <2>2 DEF CoefficientsOf
  <1> HIDE DEF U
  <1>4. Len(Coefficients(x, t)) = Len(CoefficientsOf(x, 1, t[1])) + Len(CoefficientsOf(x, 2, t[2]))
    BY <1>3, ConcatProperties DEF Coefficients
  <1>5. Len(CoefficientsOf(x, 1, t[1])) = Len(t[1]) /\ Len(CoefficientsOf(x, 2, t[2])) = Len(t[2])
    BY <1>3
  <1>6. Count(t) = Len(t[1]) + Len(t[2])
    BY DEF Count
  <1>7. Len(Coefficients(x, t)) = Count(t)
    BY Zenon, <1>4, <1>5, <1>6
  <1>8. Count(t) \in Nat
    BY <1>2, <1>6
  <1> QED
    BY <1>7, <1>8

LEMMA TermsAreTerms == \A x, m, i : TermsAt(x, m, i) \in Seq({1, 2})
  <1>1. <<2>> \in Seq({1, 2}) /\ <<1, 2>> \in Seq({1, 2})
    OBVIOUS
  <1> QED
    BY <1>1 DEF TermsAt

-----------------------------------------------------------------------------
(* Steps without a call in progress *)

LEMMA AnswerInit == Init => AnswerInv
  BY DEF Init, AnswerInv, NodeShape, NodeOK, NoNode, MemoOK, WorkOK, AnswersOwnPoint

LEMMA IdleStep ==
  ASSUME AnswerInv, work = NoWork, UNCHANGED work, NodeShape', NodeOK', MemoOK', DOMAIN fitted' = AllCtxts,
         answer' = "ok" /\ xout' # <<>> => (xout' = asked' \/ KnownGarbage' \/ KnownCount')
  PROVE  AnswerInv'
  BY DEF AnswerInv, WorkOK, AnswersOwnPoint

LEMMA NewNodeAnswers ==
  ASSUME AnswerInv, NEW k, NEW n, NewNode(k, n)
  PROVE  AnswerInv'
  <1>1. work = NoWork /\ UNCHANGED work /\ xout' = <<>>
    BY DEF NewNode, Idle
  <1>2. DOMAIN fitted' = AllCtxts /\ MemoOK'
    BY DEF NewNode, MemoOK
  <1>3. CASE node' = [kind |-> k, nparsin |-> n, nparsout |-> Outputs(k, n),
                      learned |-> k \notin {"fit", "multifit", "rec"}, terms |-> NoTerms]
    <2>1. NodeShape'
      BY <1>3 DEF NodeShape
    <2>2. ASSUME k = "rec" PROVE Outputs(k, n) = 0
      BY <2>2 DEF Outputs
    <2>3. NoTerms \in Seq({1, 2}) \X Seq({1, 2})
      <3>1. <<>> \in Seq({1, 2})
        OBVIOUS
      <3> QED
        BY <3>1 DEF NoTerms
    <2>4. node'.kind = k /\ node'.nparsout = Outputs(k, n) /\ node'.terms = NoTerms
          /\ (k = "rec" => node'.learned = FALSE)
      BY <1>3
    <2>5. NodeOK'
      BY <2>2, <2>3, <2>4 DEF NodeOK
    <2> QED
      BY <1>1, <1>2, <2>1, <2>5, IdleStep
  <1>4. CASE node' = node
    BY <1>1, <1>2, <1>4, IdleStep DEF AnswerInv, NodeShape, NodeOK
  <1> QED
    BY <1>3, <1>4 DEF NewNode

LEMMA DeleteNodeAnswers == AnswerInv /\ DeleteNode => AnswerInv'
  <1> SUFFICES ASSUME AnswerInv, DeleteNode PROVE AnswerInv'
    OBVIOUS
  <1>1. work = NoWork /\ UNCHANGED work /\ xout' = <<>> /\ node' = NoNode /\ memo' = memo /\ fitted' = fitted
    BY DEF DeleteNode, Idle, dataVars
  <1>2. NodeShape' /\ NodeOK'
    BY <1>1 DEF NodeShape, NodeOK, NoNode
  <1> QED
    BY <1>1, <1>2, IdleStep DEF AnswerInv, MemoOK

LEMMA GraphAnswers == AnswerInv /\ (OtherUser \/ ChangeGraph) => AnswerInv'
  <1> SUFFICES ASSUME AnswerInv, OtherUser \/ ChangeGraph PROVE AnswerInv'
    OBVIOUS
  <1>1. UNCHANGED <<node, work, asked, xout, answer, memo, fitted>>
    <2>1. OtherUser => UNCHANGED <<node, work, asked, xout, answer, memo, fitted>>
      BY DEF OtherUser, dataVars
    <2>2. ChangeGraph => UNCHANGED <<node, work, asked, xout, answer, memo, fitted>>
      <3>1. ChangeGraph => UNCHANGED <<node, work, asked, xout, answer>> /\ UNCHANGED dataVars
        BY Zenon DEF ChangeGraph, Step, dataVars
      <3> QED
        BY <3>1 DEF dataVars
    <2> QED
      BY <2>1, <2>2
  <1> QED
    BY <1>1 DEF AnswerInv, NodeShape, NodeOK, MemoOK, WorkOK, WorkShape, MapOK, FitOK, RecOK,
                AnswersOwnPoint, KnownGarbage, KnownCount

LEMMA MemoizedAnswers ==
  ASSUME AnswerInv, NEW c \in AllCtxts, NEW x, NEW m, Memoized(c, x, m)
  PROVE  AnswerInv'
  <1> DEFINE pt == Key(x, m)
             v == IF Returned(pt) THEN pt ELSE Garbage
             entry == [point |-> pt, value |-> v]
  <1>1. work = NoWork /\ UNCHANGED <<work, node, fitted>> /\ node.kind = "memoized" /\ asked' = <<pt>>
    BY DEF Memoized, Idle
  <1>2. NodeShape' /\ NodeOK'
    BY <1>1 DEF AnswerInv, NodeShape, NodeOK
  <1>3. CASE memo[c] # <<>> /\ SamePoint(Head(memo[c]), pt) /\ xout' = <<Head(memo[c]).value>> /\ memo' = memo
    <2>1. Head(memo[c]).value \in {pt, Garbage}
      BY <1>3 DEF AnswerInv, MemoOK, SamePoint
    <2>2. xout' = asked' \/ xout' = <<Garbage>>
      BY <2>1, <1>1, <1>3
    <2>3. MemoOK'
      BY <1>3 DEF AnswerInv, MemoOK
    <2> HIDE DEF pt
    <2> QED
      BY <1>1, <1>2, <2>2, <2>3, IdleStep DEF AnswerInv, KnownGarbage
  <1>4. CASE xout' = <<v>> /\ memo' = [memo EXCEPT ![c] = <<entry>>]
    <2>1. v \in {pt, Garbage} /\ Head(<<entry>>) = entry /\ entry.value = v /\ entry.point = pt
      OBVIOUS
    <2> HIDE DEF pt, v, entry
    <2>2. DOMAIN memo' = AllCtxts /\ \A d \in AllCtxts : memo'[d] = (IF d = c THEN <<entry>> ELSE memo[d])
      BY <1>4 DEF AnswerInv, MemoOK
    <2>3. MemoOK'
      BY <2>1, <2>2 DEF AnswerInv, MemoOK
    <2>4. xout' = asked' \/ xout' = <<Garbage>>
      BY <2>1, <1>1, <1>4
    <2> QED
      BY <1>1, <1>2, <2>3, <2>4, IdleStep DEF AnswerInv, KnownGarbage
  <1> QED
    BY <1>3, <1>4 DEF Memoized

LEMMA CachedAnswers ==
  ASSUME AnswerInv, NEW x, NEW m, FromCache(x, m) \/ \E c \in AllCtxts : CachedCall(c, x, m)
  PROVE  AnswerInv'
  <1>1. ASSUME NEW c \in AllCtxts, CachedCall(c, x, m)
        PROVE  /\ work = NoWork /\ UNCHANGED <<work, node, fitted, memo>>
               /\ xout' = asked' \/ xout' = <<>>
    BY <1>1 DEF CachedCall, Idle
  <1>2. ASSUME FromCache(x, m)
        PROVE  /\ work = NoWork /\ UNCHANGED <<work, node, fitted, memo>>
               /\ xout' = asked' \/ xout' = <<>>
    BY <1>2 DEF FromCache, Idle, dataVars
  <1>3. /\ work = NoWork /\ UNCHANGED <<work, node, fitted, memo>>
        /\ xout' = asked' \/ xout' = <<>>
    BY <1>1, <1>2
  <1> QED
    BY <1>3, IdleStep DEF AnswerInv, NodeShape, NodeOK, MemoOK

LEMMA DataAnswers ==
  ASSUME AnswerInv, MergeCaches \/ \E c \in Workers : CloneData(c)
  PROVE  AnswerInv'
  <1>1. ASSUME MergeCaches
        PROVE  work = NoWork /\ UNCHANGED <<work, node, fitted, memo>> /\ xout' = <<>>
    BY <1>1 DEF MergeCaches, Idle
  <1>2. ASSUME NEW c \in Workers, CloneData(c)
        PROVE  /\ work = NoWork /\ UNCHANGED <<work, node>> /\ xout' = <<>>
               /\ fitted' = [fitted EXCEPT ![c] = <<>>] /\ memo' = [memo EXCEPT ![c] = <<>>]
    BY <1>2 DEF CloneData, Idle
  <1>3. ASSUME MergeCaches PROVE AnswerInv'
    BY <1>1, <1>3, IdleStep DEF AnswerInv, NodeShape, NodeOK, MemoOK
  <1>4. ASSUME NEW c \in Workers, CloneData(c) PROVE AnswerInv'
    <2>1. DOMAIN fitted' = AllCtxts /\ MemoOK'
      BY <1>2, <1>4 DEF AnswerInv, MemoOK
    <2> QED
      BY <2>1, <1>2, <1>4, IdleStep DEF AnswerInv, NodeShape, NodeOK
  <1> QED
    BY <1>3, <1>4

-----------------------------------------------------------------------------
(* The beginning of a call *)

LEMMA WorkOf ==
  ASSUME NEW op \in {"learn", "evaluate"}, NEW c \in AllCtxts, NEW x \in Xs, NEW m \in Mods, NEW rows, NEW values,
         Start(op, c, x, m, rows, values)
  PROVE  /\ work' # NoWork /\ WorkShape'
         /\ work'.op = op /\ work'.ctxt = c /\ work'.x = x /\ work'.m = m /\ work'.rows = rows
         /\ asked' = values /\ xout' = <<>> /\ answer' = "none" /\ UNCHANGED <<node, memo>>
  <1>1. work' = [op |-> op, ctxt |-> c, x |-> x, m |-> m, rows |-> rows]
    BY DEF Start
  <1>2. work'.op = op /\ work'.ctxt = c /\ work'.x = x /\ work'.m = m /\ work'.rows = rows
    BY <1>1
  <1>3. NoWork.op = "none"
    BY DEF NoWork
  <1>4. work' # NoWork
    BY <1>2, <1>3
  <1>5. WorkShape'
    BY <1>1, <1>2 DEF WorkShape
  <1> QED
    BY <1>2, <1>4, <1>5 DEF Start

LEMMA KeysArePoints == \A x \in Xs, m \in Mods : Key(x, m) \in SamplePts
  BY DEF Key, At, SamplePts

LEMMA EvaluateMapAnswers ==
  ASSUME AnswerInv, NEW c \in AllCtxts, NEW m \in Mods, NEW xs \in Seq(Xs), xs # <<>>, EvaluateMap(c, xs, m)
  PROVE  AnswerInv'
  <1> DEFINE pts == [j \in DOMAIN xs |-> Key(xs[j], m)]
  <1>1. Len(xs) \in Nat /\ DOMAIN xs = 1 .. Len(xs) /\ Len(xs) # 0 /\ \A j \in 1 .. Len(xs) : xs[j] \in Xs
    BY LenProperties, EmptySeq, ElementOfSeq
  <1>2. pts \in Seq(SamplePts) /\ Len(pts) = Len(xs)
    BY <1>1, KeysArePoints
  <1>3. pts # <<>>
    BY <1>1, <1>2, EmptySeq
  <1>4. Start("evaluate", c, xs[1], m, pts, pts) /\ fitted' = fitted /\ node.kind \in {"simple", "map"}
    BY DEF EvaluateMap
  <1> HIDE DEF pts
  <1>5. xs[1] \in Xs
    BY <1>1
  <1>6. /\ work' # NoWork /\ WorkShape'
        /\ work'.op = "evaluate" /\ work'.rows = pts
        /\ asked' = pts /\ xout' = <<>> /\ answer' = "none" /\ UNCHANGED <<node, memo>>
    BY <1>4, <1>5, WorkOf
  <1>7. <<>> \in Seq(SamplePts) /\ <<>> \o pts = pts
    BY <1>2, ConcatEmptySeq, EmptySeq
  <1>8. MapOK'
    BY <1>2, <1>3, <1>6, <1>7 DEF MapOK
  <1>9. WorkOK'
    BY <1>4, <1>6, <1>8 DEF WorkOK
  <1> QED
    BY <1>4, <1>6, <1>9 DEF AnswerInv, NodeShape, NodeOK, MemoOK, AnswersOwnPoint

LEMMA RowsAreEquations ==
  /\ AllRows \in Seq(Equation) /\ AllRows # <<>>
  /\ NeededRows \in Seq(Equation) /\ NeededRows # <<>>
  <1>1. <<1, 1>> \in Equation /\ <<1, 2>> \in Equation /\ <<1, 3>> \in Equation /\ <<2, 1>> \in Equation /\ <<2, 2>> \in Equation
    BY DEF Equation, Taus
  <1> HIDE DEF Equation
  <1>2. \A a, b, c, d \in Equation : <<a, b, c>> \in Seq(Equation) /\ <<a, b>> \in Seq(Equation)
                                     /\ <<a, b, c, d>> \in Seq(Equation)
    OBVIOUS
  <1>3. \A a, b, c, d : Len(<<a, b, c>>) = 3 /\ Len(<<a, b>>) = 2 /\ Len(<<a, b, c, d>>) = 4 /\ Len(<<>>) = 0
    OBVIOUS
  <1>4. Equations(1) \in Seq(Equation) /\ Equations(2) \in Seq(Equation) /\ Len(Equations(1)) = 3 /\ Len(Equations(2)) = 2
    BY <1>1, <1>2, <1>3 DEF Equations
  <1>5. Equations(1) \o Equations(2) \in Seq(Equation) /\ Len(Equations(1) \o Equations(2)) = 5
    <2>1. Len(Equations(1) \o Equations(2)) = Len(Equations(1)) + Len(Equations(2))
          /\ Equations(1) \o Equations(2) \in Seq(Equation)
      BY <1>4, ConcatProperties
    <2>2. 3 + 2 = 5
      OBVIOUS
    <2> QED
      BY Zenon, <2>1, <2>2, <1>4
  <1>6. AllRows \in Seq(Equation) /\ AllRows # <<>>
    BY <1>3, <1>4, <1>5 DEF AllRows
  <1>7. NeededRows \in Seq(Equation) /\ NeededRows # <<>>
    BY <1>1, <1>2, <1>3 DEF NeededRows
  <1> QED
    BY <1>6, <1>7

LEMMA CallFitAnswers ==
  ASSUME AnswerInv, NEW op \in {"learn", "evaluate"}, NEW c \in AllCtxts, NEW x \in Xs, NEW m \in Mods,
         CallFit(op, c, x, m)
  PROVE  AnswerInv'
  <1> DEFINE rows == IF op = "learn" THEN AllRows ELSE NeededRows
  <1>1. rows \in Seq(Equation) /\ rows # <<>>
    BY RowsAreEquations
  <1>2. Start(op, c, x, m, rows, Points(x, rows, m)) /\ node.kind \in {"fit", "multifit"}
        /\ fitted' = [fitted EXCEPT ![c] = NewPoint(fitted[c])]
    BY DEF CallFit, Points
  <1> HIDE DEF rows
  <1>3. /\ work' # NoWork /\ WorkShape' /\ work'.ctxt = c /\ work'.x = x /\ work'.m = m /\ work'.rows = rows
        /\ asked' = Points(x, rows, m) /\ xout' = <<>> /\ answer' = "none" /\ UNCHANGED <<node, memo>>
    BY <1>2, WorkOf
  <1>4. DOMAIN fitted' = AllCtxts /\ fitted'[c] = NewPoint(fitted[c])
    BY <1>2 DEF AnswerInv
  <1>5. \A tau \in DOMAIN fitted'[c] : fitted'[c][tau] = <<>>
    BY <1>4 DEF NewPoint
  <1>6. <<>> \in Seq(SamplePts) /\ <<>> \o Points(x, rows, m) = Points(x, rows, m)
    BY <1>1, PointsOf, ConcatEmptySeq, EmptySeq
  <1>7. FitOK'
    <2>1. work'.rows \in Seq(Equation) /\ work'.rows # <<>> /\ xout' \in Seq(SamplePts)
      BY <1>1, <1>3, <1>6
    <2>2. asked' = xout' \o Points(work'.x, work'.rows, work'.m)
      BY <1>3, <1>6
    <2>3. \A tau \in DOMAIN fitted'[work'.ctxt] : fitted'[work'.ctxt][tau] = <<>>
      BY <1>3, <1>5
    <2> QED
      BY <2>1, <2>2, <2>3 DEF FitOK
  <1>8. WorkOK'
    BY <1>2, <1>3, <1>7 DEF WorkOK
  <1> QED
    BY <1>3, <1>4, <1>8 DEF AnswerInv, NodeShape, NodeOK, MemoOK, AnswersOwnPoint

LEMMA CallRecAnswers ==
  ASSUME AnswerInv, NEW op \in {"learn", "evaluate"}, NEW c \in AllCtxts, NEW x \in Xs, NEW m \in Mods,
         CallRec(op, c, x, m)
  PROVE  AnswerInv'
  <1> DEFINE rows == IF op = "learn" THEN <<1, 2, 3>> ELSE <<3>>
             values == Coefficients(x, node.terms)
  <1>1. Start(op, c, x, m, rows, values) /\ node.kind = "rec" /\ fitted' = fitted
        /\ (op = "evaluate" => node.learned)
    BY DEF CallRec
  <1>2. op = "evaluate" => Len(values) = node.nparsout
    BY <1>1, CountIsLength DEF AnswerInv, NodeOK
  <1> HIDE DEF rows, values
  <1>3. /\ work' # NoWork /\ WorkShape' /\ work'.op = op
        /\ asked' = values /\ xout' = <<>> /\ answer' = "none" /\ UNCHANGED <<node, memo>>
    BY <1>1, WorkOf
  <1>4. RecOK'
    BY <1>2, <1>3 DEF RecOK
  <1>5. WorkOK'
    BY <1>1, <1>3, <1>4 DEF WorkOK
  <1> QED
    BY <1>1, <1>3, <1>5 DEF AnswerInv, NodeShape, NodeOK, MemoOK, AnswersOwnPoint

-----------------------------------------------------------------------------
(* The steps of a call *)

LEMMA ShapeKept ==
  ASSUME WorkShape, work # NoWork, NEW rest, More(rest)
  PROVE  /\ WorkShape' /\ work' # NoWork /\ answer' = answer
         /\ work'.op = work.op /\ work'.ctxt = work.ctxt /\ work'.x = work.x /\ work'.m = work.m /\ work'.rows = rest
  <1>1. work' = [work EXCEPT !.rows = rest] /\ answer' = answer
    BY DEF More
  <1>2. work' = [op |-> work.op, ctxt |-> work.ctxt, x |-> work.x, m |-> work.m, rows |-> rest]
    BY <1>1 DEF WorkShape
  <1>3. work'.op = work.op /\ work'.ctxt = work.ctxt /\ work'.x = work.x /\ work'.m = work.m /\ work'.rows = rest
    BY <1>2
  <1>4. NoWork.op = "none" /\ work.op # "none"
    BY DEF NoWork, WorkShape
  <1>5. WorkShape'
    BY <1>2, <1>3 DEF WorkShape
  <1> QED
    BY <1>1, <1>3, <1>4, <1>5

LEMMA Working ==
  ASSUME AnswerInv, work.op \in {"learn", "evaluate"}
  PROVE  /\ work # NoWork /\ answer = "none" /\ WorkShape
         /\ node.kind \in {"simple", "map"} => MapOK
         /\ node.kind \in {"fit", "multifit"} => FitOK
         /\ node.kind = "rec" => RecOK
  <1>1. work # NoWork
    BY DEF NoWork
  <1> QED
    BY <1>1 DEF AnswerInv, WorkOK

LEMMA EndAnswers ==
  ASSUME AnswerInv, NEW ans, End(ans), NodeShape', NodeOK', MemoOK', DOMAIN fitted' = AllCtxts,
         ans = "ok" /\ xout' # <<>> => (xout' = asked' \/ KnownCount')
  PROVE  AnswerInv'
  BY DEF End, AnswerInv, WorkOK, AnswersOwnPoint

LEMMA MapStepAnswers == AnswerInv /\ MapStep => AnswerInv'
  <1> SUFFICES ASSUME AnswerInv, MapStep PROVE AnswerInv'
    OBVIOUS
  <1> DEFINE pt == Head(work.rows)
  <1>1. work.op = "evaluate" /\ node.kind \in {"simple", "map"} /\ UNCHANGED <<node, asked, memo, fitted>>
    BY DEF MapStep, dataVars
  <1>2. work # NoWork /\ answer = "none" /\ WorkShape /\ MapOK
    BY <1>1, Working
  <1>3. NodeShape' /\ NodeOK' /\ MemoOK' /\ DOMAIN fitted' = AllCtxts
    BY <1>1 DEF AnswerInv, NodeShape, NodeOK, MemoOK
  <1>4. /\ Append(xout, pt) \in Seq(SamplePts) /\ Tail(work.rows) \in Seq(SamplePts)
        /\ asked = Append(xout, pt) \o Tail(work.rows)
        /\ Len(work.rows) = 1 => asked = Append(xout, pt)
        /\ Len(work.rows) # 1 => Tail(work.rows) # <<>>
    <2>1. xout \in Seq(SamplePts) /\ work.rows \in Seq(SamplePts) /\ work.rows # <<>> /\ asked = xout \o work.rows
      BY <1>2 DEF MapOK
    <2> DEFINE r == work.rows
    <2> HIDE DEF r
    <2>2. xout \in Seq(SamplePts) /\ r \in Seq(SamplePts) /\ r # <<>> /\ asked = xout \o r
      BY <2>1 DEF r
    <2>3. /\ Append(xout, Head(r)) \in Seq(SamplePts) /\ Tail(r) \in Seq(SamplePts)
          /\ xout \o r = Append(xout, Head(r)) \o Tail(r)
          /\ Len(r) = 1 => xout \o r = Append(xout, Head(r))
          /\ Len(r) # 1 => Tail(r) # <<>>
      BY <2>2, OneMore
    <2> QED
      BY <2>2, <2>3 DEF r
  <1>5. CASE End("failed")
    BY <1>3, <1>5, EndAnswers
  <1>6. CASE xout' = Append(xout, pt) /\ Len(work.rows) = 1 /\ End("ok")
    BY <1>1, <1>3, <1>4, <1>6, EndAnswers
  <1>7. CASE xout' = Append(xout, pt) /\ Len(work.rows) # 1 /\ More(Tail(work.rows))
    <2>1. /\ WorkShape' /\ work' # NoWork /\ answer' = "none"
          /\ work'.op = work.op /\ work'.rows = Tail(work.rows)
      BY <1>2, <1>7, ShapeKept
    <2>2. MapOK'
      BY <2>1, <1>1, <1>4, <1>7 DEF MapOK
    <2>3. WorkOK'
      BY <2>1, <2>2, <1>1 DEF WorkOK
    <2> QED
      BY <2>1, <2>3, <1>3 DEF AnswerInv, AnswersOwnPoint
  <1> QED
    BY <1>5, <1>6, <1>7 DEF MapStep

LEMMA FillRowAnswers == AnswerInv /\ FillRow => AnswerInv'
  <1> SUFFICES ASSUME AnswerInv, FillRow PROVE AnswerInv'
    OBVIOUS
  <1> DEFINE c == work.ctxt
             tau == Head(work.rows)[2]
             pt == At(work.x, tau, work.m)
             there == node.kind = "multifit" /\ tau \in DOMAIN fitted[c] /\ fitted[c][tau] # <<>>
             v == IF there THEN Head(fitted[c][tau]) ELSE pt
             kept == [t \in DOMAIN fitted[c] \cup {tau} |-> IF t = tau THEN <<v>> ELSE fitted[c][t]]
             rest == Tail(work.rows)
  <1>1. work.op \in {"learn", "evaluate"} /\ node.kind \in {"fit", "multifit"} /\ UNCHANGED <<asked, memo>>
    BY DEF FillRow
  <1>2. work # NoWork /\ answer = "none" /\ WorkShape /\ FitOK
    BY <1>1, Working
  <1>3. v = pt
    BY <1>2 DEF FitOK
  <1>4. /\ work.rows \in Seq(Equation) /\ work.rows # <<>> /\ rest \in Seq(Equation)
        /\ Append(xout, pt) \in Seq(SamplePts)
        /\ asked = Append(xout, pt) \o Points(work.x, rest, work.m)
        /\ Len(work.rows) = 1 => asked = Append(xout, pt)
        /\ Len(work.rows) # 1 => rest # <<>>
    <2> DEFINE p == Points(work.x, work.rows, work.m)
    <2>1. /\ p \in Seq(SamplePts) /\ p # <<>> /\ Len(p) = Len(work.rows)
          /\ Head(p) = pt /\ Tail(p) = Points(work.x, rest, work.m)
      BY <1>2, PointsOf DEF FitOK, WorkShape
    <2>2. xout \in Seq(SamplePts) /\ asked = xout \o p
          /\ work.rows \in Seq(Equation) /\ work.rows # <<>>
      BY <1>2 DEF FitOK
    <2> HIDE DEF p, pt
    <2>3. /\ Append(xout, Head(p)) \in Seq(SamplePts)
          /\ xout \o p = Append(xout, Head(p)) \o Tail(p)
          /\ Len(p) = 1 => xout \o p = Append(xout, Head(p))
      BY <2>1, <2>2, OneMore
    <2>4. rest \in Seq(Equation) /\ (Len(work.rows) # 1 => rest # <<>>)
      BY <2>2, OneMore, EmptySeq
    <2> QED
      BY <2>1, <2>2, <2>3, <2>4
  <1>5. MemoOK'
    BY <1>1 DEF AnswerInv, MemoOK
  <1>6. /\ node' = node \/ node' = [node EXCEPT !.learned = TRUE] \/ node' = [node EXCEPT !.learned = FALSE]
    BY DEF FillRow
  <1>7. node'.kind = node.kind /\ NodeShape' /\ NodeOK'
    <2>1. node = [kind |-> node.kind, nparsin |-> node.nparsin, nparsout |-> node.nparsout,
                  learned |-> node.learned, terms |-> node.terms]
      BY <1>1 DEF AnswerInv, NodeShape, NoNode
    <2>2. PICK l : node' = [kind |-> node.kind, nparsin |-> node.nparsin, nparsout |-> node.nparsout,
                            learned |-> l, terms |-> node.terms]
      BY <2>1, <1>6
    <2>3. node'.kind = node.kind /\ node'.nparsin = node.nparsin /\ node'.nparsout = node.nparsout
          /\ node'.learned = l /\ node'.terms = node.terms
      BY <2>2
    <2>4. NodeShape'
      BY <2>2, <2>3 DEF NodeShape
    <2>5. NodeOK'
      BY <2>3, <1>1 DEF NodeOK
    <2> QED
      BY <2>3, <2>4, <2>5
  <1>8. CASE End("failed") /\ UNCHANGED fitted
    BY <1>5, <1>7, <1>8, EndAnswers DEF AnswerInv
  <1>9. CASE /\ xout' = Append(xout, v)
             /\ fitted' = fitted \/ fitted' = [fitted EXCEPT ![c] = kept]
             /\ \/ Len(work.rows) # 1 /\ More(rest)
                \/ Len(work.rows) = 1 /\ End("ok")
    <2>1. DOMAIN fitted' = AllCtxts /\ (fitted'[c] = fitted[c] \/ fitted'[c] = kept)
      BY <1>2, <1>9 DEF AnswerInv, WorkShape
    <2>2. \A t \in DOMAIN fitted[c] : fitted[c][t] # <<>> => Head(fitted[c][t]) = At(work.x, t, work.m)
      BY <1>2 DEF FitOK
    <2>3. \A t \in DOMAIN fitted'[c] : fitted'[c][t] # <<>> => Head(fitted'[c][t]) = At(work.x, t, work.m)
      <3>1. CASE fitted'[c] = fitted[c]
        BY <2>2, <3>1
      <3>2. CASE fitted'[c] = kept
        <4>1. kept[tau] = <<pt>> /\ Head(<<pt>>) = pt
          BY <1>3
        <4>2. DOMAIN kept = DOMAIN fitted[c] \cup {tau} /\ \A t \in DOMAIN kept : t # tau => kept[t] = fitted[c][t]
          OBVIOUS
        <4> HIDE DEF kept, v
        <4> QED
          BY <4>1, <4>2, <3>2, <2>2
      <3> QED
        BY Zenon, <2>1, <3>1, <3>2
    <2> HIDE DEF v, kept, rest, pt
    <2>4. CASE Len(work.rows) = 1 /\ End("ok")
      <3>1. xout' = asked'
        BY <1>1, <1>3, <1>4, <1>9, <2>4
      <3> QED
        BY <1>5, <1>7, <2>1, <2>4, <3>1, EndAnswers
    <2>5. CASE Len(work.rows) # 1 /\ More(rest)
      <3>1. /\ WorkShape' /\ work' # NoWork /\ answer' = "none" /\ work'.ctxt = c
            /\ work'.x = work.x /\ work'.m = work.m /\ work'.rows = rest
        BY <1>2, <2>5, ShapeKept
      <3>2. asked' = xout' \o Points(work'.x, work'.rows, work'.m)
        BY <3>1, <1>1, <1>3, <1>4, <1>9
      <3>3. \A t \in DOMAIN fitted'[work'.ctxt] :
              fitted'[work'.ctxt][t] # <<>> => Head(fitted'[work'.ctxt][t]) = At(work'.x, t, work'.m)
        BY <3>1, <2>3
      <3>4. FitOK'
        BY <3>1, <3>2, <3>3, <1>3, <1>4, <1>9, <2>5 DEF FitOK
      <3>5. WorkOK'
        BY <3>1, <3>4, <1>1, <1>7 DEF WorkOK
      <3> QED
        BY <3>1, <3>5, <2>1, <1>5, <1>7 DEF AnswerInv, AnswersOwnPoint
    <2> QED
      BY <1>9, <2>4, <2>5
  <1>10. (Len(work.rows) > 1 /\ Len(work.rows) # 1) \/ (Len(work.rows) = 1 /\ ~(Len(work.rows) > 1))
    <2>1. Len(work.rows) \in Nat /\ Len(work.rows) # 0
      BY <1>4, LenProperties, EmptySeq
    <2> DEFINE n == Len(work.rows)
    <2> HIDE DEF n
    <2>2. n \in Nat /\ n # 0
      BY <2>1 DEF n
    <2>3. (n > 1 /\ n # 1) \/ (n = 1 /\ ~(n > 1))
      BY <2>2
    <2> QED
      BY <2>3 DEF n
  <1>11. CASE there \/ Returned(pt)
    <2>1. /\ xout' = Append(xout, v)
          /\ fitted' = (IF node.kind = "fit" THEN fitted ELSE [fitted EXCEPT ![c] = kept])
      BY <1>11 DEF FillRow
    <2>2. IF Len(work.rows) > 1 THEN More(rest) ELSE End("ok")
      BY <1>11 DEF FillRow
    <2> HIDE DEF v, kept, rest, pt, there
    <2>3. fitted' = fitted \/ fitted' = [fitted EXCEPT ![c] = kept]
      BY <2>1
    <2>4. (Len(work.rows) # 1 /\ More(rest)) \/ (Len(work.rows) = 1 /\ End("ok"))
      BY Zenon, <2>2, <1>10
    <2> QED
      BY <1>9, <2>1, <2>3, <2>4
  <1>12. CASE ~(there \/ Returned(pt))
    BY <1>8, <1>12 DEF FillRow
  <1> QED
    BY <1>11, <1>12

LEMMA RecStepAnswers == AnswerInv /\ RecStep => AnswerInv'
  <1> SUFFICES ASSUME AnswerInv, RecStep PROVE AnswerInv'
    OBVIOUS
  <1> DEFINE x == work.x
             terms == <<TermsAt(work.x, work.m, 1), TermsAt(work.x, work.m, 2)>>
  <1>1. work.op \in {"learn", "evaluate"} /\ node.kind = "rec" /\ UNCHANGED <<asked, memo, fitted>>
    BY DEF RecStep, dataVars
  <1>2. work # NoWork /\ answer = "none" /\ WorkShape /\ RecOK
    BY <1>1, Working
  <1>3. MemoOK' /\ DOMAIN fitted' = AllCtxts
    BY <1>1 DEF AnswerInv, MemoOK
  <1>4. node = [kind |-> node.kind, nparsin |-> node.nparsin, nparsout |-> node.nparsout,
                learned |-> node.learned, terms |-> node.terms]
    BY <1>1 DEF AnswerInv, NodeShape, NoNode
  <1>5. terms \in Seq({1, 2}) \X Seq({1, 2})
    BY TermsAreTerms
  <1>6. Count(terms) \in Nat /\ Len(Coefficients(x, terms)) = Count(terms)
    BY <1>5, CountIsLength
  <1>7. NodeShape /\ NodeOK
    BY DEF AnswerInv
  <1> HIDE DEF terms, x
  <1>8. CASE RecFails
    <2>1. End("failed") /\ xout' = <<>>
      BY <1>2, <1>8 DEF RecFails, RecOK
    <2>2. CASE node' = node
      BY <1>3, <1>7, <2>1, <2>2, EndAnswers DEF NodeShape, NodeOK
    <2>3. CASE node' = [node EXCEPT !.nparsout = IF Len(work.rows) = 1 THEN 0 ELSE @, !.learned = FALSE]
      <3> DEFINE n == IF Len(work.rows) = 1 THEN 0 ELSE node.nparsout
      <3>1. n \in Nat
        BY <1>1, <1>7 DEF NodeOK
      <3>2. node' = [node EXCEPT !.nparsout = n, !.learned = FALSE]
        BY <2>3
      <3> HIDE DEF n
      <3>3. node' = [kind |-> node.kind, nparsin |-> node.nparsin, nparsout |-> n,
                     learned |-> FALSE, terms |-> node.terms]
        BY <3>2, <1>4
      <3>4. node'.kind = node.kind /\ node'.nparsin = node.nparsin /\ node'.nparsout = n
            /\ node'.learned = FALSE /\ node'.terms = node.terms
        BY <3>3
      <3>5. NodeShape'
        BY <3>3, <3>4 DEF NodeShape
      <3>6. NodeOK'
        BY <3>1, <3>4, <1>1, <1>7 DEF NodeOK
      <3> QED
        BY <1>3, <2>1, <3>5, <3>6, EndAnswers
    <2> QED
      BY <1>8, <2>2, <2>3 DEF RecFails
  <1>9. CASE More(Tail(work.rows)) /\ UNCHANGED <<node, xout>>
    <2>1. WorkShape' /\ work' # NoWork /\ answer' = "none" /\ work'.op = work.op
      BY <1>2, <1>9, ShapeKept
    <2>2. RecOK'
      BY <2>1, <1>1, <1>2, <1>9 DEF RecOK
    <2>3. WorkOK'
      BY <2>1, <2>2, <1>1, <1>9 DEF WorkOK
    <2> QED
      BY <2>1, <2>3, <1>3, <1>7, <1>9 DEF AnswerInv, AnswersOwnPoint, NodeShape, NodeOK
  <1>10. CASE RecDone(x, terms) /\ work.op = "learn"
    <2>1. End("ok") /\ xout' = <<>>
          /\ node' = [node EXCEPT !.terms = terms, !.nparsout = Count(terms), !.learned = TRUE]
      BY <1>2, <1>10 DEF RecDone, RecOK
    <2>2. node' = [kind |-> node.kind, nparsin |-> node.nparsin, nparsout |-> Count(terms),
                   learned |-> TRUE, terms |-> terms]
      BY <2>1, <1>4
    <2>3. node'.kind = node.kind /\ node'.nparsin = node.nparsin /\ node'.nparsout = Count(terms)
          /\ node'.learned = TRUE /\ node'.terms = terms
      BY <2>2
    <2>4. NodeShape'
      BY <2>2, <2>3 DEF NodeShape
    <2>5. NodeOK'
      BY <2>3, <1>5, <1>6 DEF NodeOK
    <2> QED
      BY <1>3, <2>1, <2>4, <2>5, EndAnswers
  <1>11. CASE RecDone(x, terms) /\ work.op # "learn"
    <2>1. work.op = "evaluate" /\ node' = node
      BY <1>1, <1>11 DEF RecDone
    <2>2. NodeShape' /\ NodeOK'
      BY <2>1, <1>7 DEF NodeShape, NodeOK
    <2>3. CASE SameCount(terms) /\ End("ok") /\ xout' = Coefficients(x, terms)
      <3>1. Len(xout') = Len(asked')
        BY <1>1, <1>2, <1>6, <2>1, <2>3 DEF SameCount, RecOK
      <3>2. KnownCount'
        BY <3>1, <2>1, <1>1 DEF KnownCount
      <3> QED
        BY <1>3, <2>2, <2>3, <3>2, EndAnswers
    <2>4. CASE End("failed") /\ UNCHANGED xout
      BY <1>3, <2>2, <2>4, EndAnswers
    <2> QED
      BY <1>11, <2>3, <2>4 DEF RecDone
  <1> QED
    <2>1. RecFails \/ (More(Tail(work.rows)) /\ UNCHANGED <<node, xout>>) \/ RecDone(x, terms)
      BY DEF RecStep, x, terms
    <2> QED
      BY <2>1, <1>8, <1>9, <1>10, <1>11

-----------------------------------------------------------------------------
LEMMA AnswerStep == AnswerInv /\ [Next]_nodeVars => AnswerInv'
  <1> SUFFICES ASSUME AnswerInv, [Next]_nodeVars PROVE AnswerInv'
    OBVIOUS
  <1>1. ASSUME NEW c \in AllCtxts, NEW m \in Mods, NEW xs \in Xs \X Xs, EvaluateMap(c, xs, m)
        PROVE  AnswerInv'
    <2>1. PICK a \in Xs, b \in Xs : xs = <<a, b>>
      OBVIOUS
    <2>2. <<a, b>> \in Seq(Xs) /\ <<a, b>> # <<>>
      OBVIOUS
    <2> QED
      BY <1>1, <2>1, <2>2, EvaluateMapAnswers
  <1>2. ASSUME NEW c \in AllCtxts, NEW m \in Mods, NEW x \in Xs, EvaluateMap(c, <<x>>, m)
        PROVE  AnswerInv'
    <2>1. <<x>> \in Seq(Xs) /\ <<x>> # <<>>
      OBVIOUS
    <2> QED
      BY <1>2, <2>1, EvaluateMapAnswers
  <1>3. ASSUME NEW c \in AllCtxts, NEW m \in Mods, NEW x \in Xs,
               \/ Memoized(c, x, m) \/ CachedCall(c, x, m)
               \/ \E op \in {"learn", "evaluate"} : CallFit(op, c, x, m) \/ CallRec(op, c, x, m)
        PROVE  AnswerInv'
    BY <1>3, MemoizedAnswers, CachedAnswers, CallFitAnswers, CallRecAnswers
  <1>4. ASSUME NEW x \in Xs, NEW m \in Mods, FromCache(x, m) PROVE AnswerInv'
    BY <1>4, CachedAnswers
  <1>5. CASE UNCHANGED nodeVars
    BY <1>5 DEF nodeVars, AnswerInv, NodeShape, NodeOK, MemoOK, WorkOK, WorkShape, MapOK, FitOK, RecOK,
                AnswersOwnPoint, KnownGarbage, KnownCount
  <1>6. ASSUME NEW k \in NodeKinds, NEW n, NewNode(k, n) PROVE AnswerInv'
    BY <1>6, NewNodeAnswers
  <1>7. ASSUME MergeCaches \/ \E c \in Workers : CloneData(c) PROVE AnswerInv'
    BY <1>7, DataAnswers
  <1>8. ASSUME NEW c \in AllCtxts, NEW m \in Mods,
               \/ \E xs \in Xs \X Xs : EvaluateMap(c, xs, m)
               \/ \E x \in Xs : \/ EvaluateMap(c, <<x>>, m) \/ Memoized(c, x, m) \/ CachedCall(c, x, m)
                               \/ \E op \in {"learn", "evaluate"} : CallFit(op, c, x, m) \/ CallRec(op, c, x, m)
        PROVE  AnswerInv'
    BY <1>8, <1>1, <1>2, <1>3
  <1> QED
    BY <1>4, <1>5, <1>6, <1>7, <1>8, DeleteNodeAnswers, GraphAnswers, MapStepAnswers, FillRowAnswers, RecStepAnswers DEF Next

(***************************************************************************)
(* A node that evaluates a graph (src/subgraph.cc, cached_subgraph.cc,     *)
(* subgraph_fit.cc, subgraph_reconstruct.cc) answers with the values of    *)
(* its own point and prime, but for the two cases that AnswersOwnPoint     *)
(* names, in every order of calls, contexts and failures.                  *)
(***************************************************************************)
THEOREM AnswersAreOwn == Spec => []AnswersOwnPoint
  <1>1. AnswerInv => AnswersOwnPoint
    BY DEF AnswerInv
  <1> QED
    BY AnswerInit, AnswerStep, <1>1, PTL DEF Spec
=============================================================================

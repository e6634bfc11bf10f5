--------------------------- MODULE Session_proofs ---------------------------
(***************************************************************************)
(* Proofs about Session: the counts of the references to a graph, for any  *)
(* number of graphs, nodes, evaluators and calls.                          *)
(***************************************************************************)
EXTENDS Session, FiniteSetTheorems, SequenceTheorems, TLAPS

-----------------------------------------------------------------------------
(* Types *)

NodeRec == [stamp : Nat, uses : Graphs \cup {None}, mutable : BOOLEAN]
GraphRec == [refs : Nat, subs : Nat, attached : BOOLEAN, id : Ids,
             mutable : BOOLEAN, learned : BOOLEAN, out : NodeIds \cup {None},
             nodes : [NodeIds -> NodeRec]]
GraphFuns == [Graphs -> GraphRec]
DataFuns == [Contexts -> [Ids -> [NodeIds -> Nat]]]

LEMMA NoNodeType == NoNode \in NodeRec
  BY DEF NoNode, NodeRec, None

LEMMA FreedType == Freed \in GraphRec
  BY NoNodeType, SessionAssumption DEF Freed, GraphRec, Ids, None

LEMMA GraphsFinite == IsFiniteSet(Graphs) /\ Graphs \subseteq Nat \ {0}
  BY FS_Interval, SessionAssumption DEF Graphs

-----------------------------------------------------------------------------
(* Counting the nodes that hold a graph *)

Mem(gs) == {g \in Graphs : gs[g].refs > 0}

HeldBy(gs, S, h) == {x \in S \X NodeIds : gs[x[1]].nodes[x[2]].uses = h}

LEMMA HeldByFinite ==
  ASSUME NEW gs, NEW S \in SUBSET Graphs, NEW h
  PROVE  /\ IsFiniteSet(HeldBy(gs, S, h))
         /\ Holders(gs, S, h) = Cardinality(HeldBy(gs, S, h))
         /\ Holders(gs, S, h) \in Nat
  <1>1. IsFiniteSet(S)
    BY GraphsFinite, FS_Subset
  <1>2. IsFiniteSet(S \X NodeIds)
    BY <1>1, FS_Product, SessionAssumption
  <1>3. IsFiniteSet(HeldBy(gs, S, h))
    BY <1>2, FS_Subset DEF HeldBy
  <1>. QED
    BY <1>3, FS_CardinalityType DEF Holders, HeldBy

LEMMA HoldersSplit ==
  ASSUME NEW gs, NEW S \in SUBSET Graphs, NEW T \in SUBSET Graphs, S \cap T = {}, NEW h
  PROVE  Holders(gs, S \cup T, h) = Holders(gs, S, h) + Holders(gs, T, h)
  <1>1. /\ HeldBy(gs, S \cup T, h) = HeldBy(gs, S, h) \cup HeldBy(gs, T, h)
        /\ HeldBy(gs, S, h) \cap HeldBy(gs, T, h) = {}
    BY DEF HeldBy
  <1>2. Cardinality(HeldBy(gs, S, h) \cap HeldBy(gs, T, h)) = 0
    BY <1>1, FS_EmptySet
  <1>3. Cardinality(HeldBy(gs, S \cup T, h))
          = Cardinality(HeldBy(gs, S, h)) + Cardinality(HeldBy(gs, T, h))
              - Cardinality(HeldBy(gs, S, h) \cap HeldBy(gs, T, h))
    BY <1>1, HeldByFinite, FS_Union
  <1>4. /\ Holders(gs, S, h) = Cardinality(HeldBy(gs, S, h)) /\ Holders(gs, S, h) \in Nat
        /\ Holders(gs, T, h) = Cardinality(HeldBy(gs, T, h)) /\ Holders(gs, T, h) \in Nat
        /\ Holders(gs, S \cup T, h) = Cardinality(HeldBy(gs, S \cup T, h))
        /\ Holders(gs, S \cup T, h) \in Nat
    BY HeldByFinite
  <1>. QED
    BY <1>2, <1>3, <1>4

LEMMA HoldersGrow ==
  ASSUME NEW gs, NEW T \in SUBSET Graphs, NEW S \in SUBSET T, NEW h
  PROVE  Holders(gs, S, h) <= Holders(gs, T, h)
  <1>1. T = S \cup (T \ S) /\ S \cap (T \ S) = {} /\ S \in SUBSET Graphs /\ T \ S \in SUBSET Graphs
    OBVIOUS
  <1>2. Holders(gs, T, h) = Holders(gs, S, h) + Holders(gs, T \ S, h)
    BY <1>1, HoldersSplit
  <1>. QED
    BY <1>1, <1>2, HeldByFinite

\* Only the references that the nodes hold count.
LEMMA HoldersSame ==
  ASSUME NEW gs, NEW hs, NEW S \in SUBSET Graphs, NEW h,
         \A g \in S : \A n \in NodeIds : gs[g].nodes[n].uses = hs[g].nodes[n].uses
  PROVE  Holders(gs, S, h) = Holders(hs, S, h)
  <1>1. HeldBy(gs, S, h) = HeldBy(hs, S, h)
    BY DEF HeldBy
  <1>. QED
    BY <1>1, HeldByFinite

LEMMA HoldersNone ==
  ASSUME NEW gs, NEW S \in SUBSET Graphs, NEW h
  PROVE  Holders(gs, S, h) = 0 <=>
           \A g \in S : \A n \in NodeIds : gs[g].nodes[n].uses # h
  <1>1. Holders(gs, S, h) = 0 <=> HeldBy(gs, S, h) = {}
    BY HeldByFinite, FS_EmptySet
  <1>2. HeldBy(gs, S, h) = {} <=> \A g \in S : \A n \in NodeIds : gs[g].nodes[n].uses # h
    <2>1. ASSUME NEW g \in S, NEW n \in NodeIds, gs[g].nodes[n].uses = h
          PROVE  <<g, n>> \in HeldBy(gs, S, h)
      BY <2>1 DEF HeldBy
    <2>. QED
      BY <2>1 DEF HeldBy
  <1>. QED
    BY <1>1, <1>2

\* One reference more or less.
LEMMA HoldersOneMore ==
  ASSUME NEW gs, NEW hs, NEW S \in SUBSET Graphs, NEW g \in S, NEW n \in NodeIds,
         NEW h \in Graphs, gs[g].nodes[n].uses = None, hs[g].nodes[n].uses = h,
         \A i \in S : \A m \in NodeIds :
            (i # g \/ m # n) => gs[i].nodes[m].uses = hs[i].nodes[m].uses,
         NEW k \in Graphs
  PROVE  Holders(hs, S, k) = Holders(gs, S, k) + Once(h)[k]
  <1>0. h # None /\ k # None
    BY GraphsFinite DEF None
  <1>1. CASE k = h
    <2>0. \A i \in S : \A m \in NodeIds :
             hs[i].nodes[m].uses = k <=> (gs[i].nodes[m].uses = k \/ (i = g /\ m = n))
      BY <1>0, <1>1
    <2>1. /\ HeldBy(hs, S, k) = HeldBy(gs, S, k) \cup {<<g, n>>}
          /\ <<g, n>> \notin HeldBy(gs, S, k)
      BY <1>0, <2>0 DEF HeldBy
    <2>2. IsFiniteSet(HeldBy(gs, S, k))
      BY HeldByFinite
    <2>3. Cardinality(HeldBy(hs, S, k)) = Cardinality(HeldBy(gs, S, k)) + 1
      BY <2>1, <2>2, FS_AddElement
    <2>. QED
      BY <1>1, <2>3, HeldByFinite DEF Once
  <1>2. CASE k # h
    <2>1. \A i \in S : \A m \in NodeIds :
             hs[i].nodes[m].uses = k <=> gs[i].nodes[m].uses = k
      BY <1>0, <1>2
    <2>2. HeldBy(hs, S, k) = HeldBy(gs, S, k)
      BY <2>1 DEF HeldBy
    <2>. QED
      BY <1>2, <2>2, HeldByFinite DEF Once
  <1>. QED
    BY <1>1, <1>2
-----------------------------------------------------------------------------
(* Dropping references *)

\* The graphs gs with r[h] references and s[h] uses of each h that are not
\* held by nodes.
Counted(gs, r, s) ==
  \A h \in Graphs :
    /\ gs[h].refs = Holders(gs, Mem(gs), h) + r[h]
    /\ gs[h].subs = Holders(gs, Mem(gs), h) + s[h]
    /\ gs[h].subs > 0 => ~gs[h].mutable
    /\ gs[h].refs = 0 => gs[h] = Freed

Counts == [Graphs -> Nat]

DownTo0(gs, refs, S) ==
  \A h \in Graphs :
    gs[h].refs > 0 /\ gs[h].refs = refs[h] + Holders(gs, S, h) => h \in S

LEMMA DestroyedIsLeast ==
  ASSUME NEW gs, NEW refs
  PROVE  Destroyed(gs, refs)
           = {g \in Graphs : \A S \in SUBSET Graphs : DownTo0(gs, refs, S) => g \in S}
  BY DEF Destroyed, DownTo0

LEMMA DestroyedIsCounted ==
  ASSUME NEW gs \in GraphFuns, NEW r \in Counts, NEW s \in Counts,
         Counted(gs, r, s), NEW refs \in Counts,
         \A h \in Graphs : refs[h] <= r[h],
         NEW gone, gone = Destroyed(gs, refs)
  PROVE  /\ gone \subseteq Mem(gs)
         /\ \A h \in Mem(gs) :
              h \in gone <=> gs[h].refs = refs[h] + Holders(gs, gone, h)
  <1>0. /\ gone = {g \in Graphs : \A S \in SUBSET Graphs : DownTo0(gs, refs, S) => g \in S}
        /\ gone \in SUBSET Graphs /\ Mem(gs) \in SUBSET Graphs
    BY DestroyedIsLeast DEF Mem
  <1>1. gone \subseteq Mem(gs)
    BY <1>0 DEF DownTo0, Mem
  <1>2. \A h \in Graphs : /\ gs[h].refs \in Nat /\ refs[h] \in Nat /\ r[h] \in Nat
                          /\ gs[h].refs = Holders(gs, Mem(gs), h) + r[h]
                          /\ refs[h] <= r[h]
    BY DEF Counted, GraphFuns, GraphRec, Counts
  \* what is held by destroyed graphs is never more than what there is
  <1>3. ASSUME NEW h \in Graphs, NEW S \in SUBSET gone,
               gs[h].refs = refs[h] + Holders(gs, S, h)
        PROVE  gs[h].refs = refs[h] + Holders(gs, gone, h)
    <2>1. Holders(gs, S, h) <= Holders(gs, gone, h)
      BY <1>0, HoldersGrow
    <2>2. Holders(gs, gone, h) <= Holders(gs, Mem(gs), h)
      BY <1>0, <1>1, HoldersGrow
    <2>3. /\ Holders(gs, S, h) \in Nat /\ Holders(gs, gone, h) \in Nat
          /\ Holders(gs, Mem(gs), h) \in Nat
      BY <1>0, HeldByFinite
    <2>. QED
      BY <1>2, <1>3, <2>1, <2>2, <2>3
  \* so the destroyed graphs are closed
  <1>4. ASSUME NEW h \in Mem(gs), gs[h].refs = refs[h] + Holders(gs, gone, h)
        PROVE  h \in gone
    <2> SUFFICES ASSUME NEW S \in SUBSET Graphs, DownTo0(gs, refs, S) PROVE h \in S
      BY <1>0
    <2>1. gone \subseteq S
      BY <1>0
    <2> DEFINE T == S \cap Mem(gs)
    <2>2. gone \subseteq T /\ T \subseteq Mem(gs) /\ T \in SUBSET Graphs
      BY <1>0, <1>1, <2>1
    <2>3. Holders(gs, S, h) = Holders(gs, T, h)
      <3>1. Holders(gs, S, h) = Holders(gs, T, h) + Holders(gs, S \ T, h)
        <4>1. S = T \cup (S \ T) /\ T \cap (S \ T) = {} /\ S \ T \in SUBSET Graphs
          OBVIOUS
        <4>. QED
          BY <2>2, <4>1, HoldersSplit
      <3>2. \A g \in S \ T : \A n \in NodeIds : gs[g].nodes[n].uses # h
        <4> SUFFICES ASSUME NEW g \in S \ T, NEW n \in NodeIds PROVE gs[g].nodes[n].uses # h
          OBVIOUS
        <4>1. g \in Graphs /\ ~(gs[g].refs > 0)
          BY DEF Mem
        <4>2. gs[g] = Freed
          BY <1>2, <4>1 DEF Counted
        <4>3. gs[g].nodes[n].uses = None
          BY <4>2 DEF Freed, NoNode
        <4>. QED
          BY <1>0, <4>3, GraphsFinite DEF None
      <3>3. Holders(gs, S \ T, h) = 0
        BY <3>2, HoldersNone
      <3>. QED
        BY <2>2, <3>1, <3>3, HeldByFinite
    <2>4. gs[h].refs = refs[h] + Holders(gs, T, h)
      <3>1. Holders(gs, gone, h) <= Holders(gs, T, h)
        BY <2>2, HoldersGrow
      <3>2. Holders(gs, T, h) <= Holders(gs, Mem(gs), h)
        BY <1>0, <2>2, HoldersGrow
      <3>3. /\ Holders(gs, T, h) \in Nat /\ Holders(gs, gone, h) \in Nat
            /\ Holders(gs, Mem(gs), h) \in Nat
        BY <1>0, <2>2, HeldByFinite
      <3>4. h \in Graphs
        BY <1>0
      <3>. QED
        BY <1>2, <1>4, <3>1, <3>2, <3>3, <3>4
    <2>. QED
      BY <1>0, <2>3, <2>4 DEF DownTo0, Mem
  \* and nothing else is destroyed
  <1>5. ASSUME NEW h \in gone PROVE gs[h].refs = refs[h] + Holders(gs, gone, h)
    <2> DEFINE S == {g \in gone : gs[g].refs = refs[g] + Holders(gs, gone, g)}
    <2>1. S \in SUBSET gone /\ S \in SUBSET Graphs
      BY <1>0
    <2>2. ASSUME NEW g \in Graphs, gs[g].refs > 0, gs[g].refs = refs[g] + Holders(gs, S, g)
          PROVE  g \in S
      <3>1. gs[g].refs = refs[g] + Holders(gs, gone, g)
        BY <1>3, <2>1, <2>2
      <3>2. g \in gone
        BY <1>4, <2>2, <3>1 DEF Mem
      <3>. QED
        BY <3>1, <3>2
    <2>3. DownTo0(gs, refs, S)
      BY <2>2 DEF DownTo0
    <2>4. h \in S
      BY <1>0, <2>1, <2>3
    <2>. QED
      BY <2>4
  <1>. QED
    BY <1>1, <1>4, <1>5

LEMMA FreedFields ==
  /\ Freed.refs = 0 /\ Freed.subs = 0 /\ Freed.attached = FALSE /\ Freed.mutable = TRUE
  /\ \A n \in NodeIds : Freed.nodes[n] = NoNode
  BY DEF Freed

LEMMA SameRecord ==
  ASSUME NEW x \in GraphRec, NEW y \in GraphRec,
         x.refs = y.refs, x.subs = y.subs, x.attached = y.attached, x.id = y.id,
         x.mutable = y.mutable, x.learned = y.learned, x.out = y.out, x.nodes = y.nodes
  PROVE  x = y
  BY DEF GraphRec

LEMMA DropFields ==
  ASSUME NEW gs \in GraphFuns, NEW refs, NEW subs, NEW h \in Graphs,
         NEW gone, gone = Destroyed(gs, refs), NEW d, d = Drop(gs, refs, subs)
  PROVE  /\ h \in gone => d[h] = Freed
         /\ h \notin gone =>
              /\ d[h].refs = gs[h].refs - refs[h] - Holders(gs, gone, h)
              /\ d[h].subs = gs[h].subs - (subs[h] + Holders(gs, gone, h))
              /\ d[h].mutable = (gs[h].mutable \/
                   (subs[h] + Holders(gs, gone, h) > 0
                    /\ gs[h].subs = subs[h] + Holders(gs, gone, h)))
              /\ d[h].attached = gs[h].attached /\ d[h].id = gs[h].id
              /\ d[h].learned = gs[h].learned /\ d[h].out = gs[h].out
              /\ d[h].nodes = gs[h].nodes
              /\ (d[h].refs \in Nat /\ d[h].subs \in Nat => d[h] \in GraphRec)
  <1> DEFINE R == gs[h].refs - refs[h] - Holders(gs, gone, h)
             U == gs[h].subs - (subs[h] + Holders(gs, gone, h))
             B == gs[h].mutable \/ (subs[h] + Holders(gs, gone, h) > 0
                                    /\ gs[h].subs = subs[h] + Holders(gs, gone, h))
  <1>1. d[h] = IF h \in gone THEN Freed
               ELSE [gs[h] EXCEPT !.refs = R, !.subs = U, !.mutable = B]
    BY Zenon DEF Drop
  <1>2. gs[h] \in GraphRec /\ B \in BOOLEAN
    BY DEF GraphFuns
  <1>. HIDE DEF R, U, B
  <1>4. ASSUME h \notin gone
        PROVE  /\ d[h].refs = R /\ d[h].subs = U /\ d[h].mutable = B
               /\ d[h].attached = gs[h].attached /\ d[h].id = gs[h].id
               /\ d[h].learned = gs[h].learned /\ d[h].out = gs[h].out
               /\ d[h].nodes = gs[h].nodes
               /\ (R \in Nat /\ U \in Nat => d[h] \in GraphRec)
    <2>1. d[h] = [gs[h] EXCEPT !.refs = R, !.subs = U, !.mutable = B]
      BY <1>1, <1>4
    <2>. QED
      BY <1>2, <2>1 DEF GraphRec
  <1>. QED
    BY <1>1, <1>4 DEF R, U, B

LEMMA DropType ==
  ASSUME NEW gs, NEW refs, NEW subs, NEW d, d = Drop(gs, refs, subs),
         \A h \in Graphs : d[h] \in GraphRec
  PROVE  d \in GraphFuns
  <1> DEFINE gone == Destroyed(gs, refs)
             U(h) == subs[h] + Holders(gs, gone, h)
             E(h) == IF h \in gone THEN Freed
                     ELSE [gs[h] EXCEPT !.refs = @ - refs[h] - Holders(gs, gone, h),
                               !.subs = @ - U(h),
                               !.mutable = @ \/ (U(h) > 0 /\ gs[h].subs = U(h))]
  <1>1. d = [h \in Graphs |-> E(h)]
    BY Zenon DEF Drop
  <1>. HIDE DEF E
  <1>. QED
    BY <1>1 DEF GraphFuns

Minus(r, refs) == [h \in Graphs |-> r[h] - refs[h]]

\* Dropping references destroys what nobody holds any more, and the counts of
\* the others stay exact.
LEMMA DropCounts ==
  ASSUME NEW gs \in GraphFuns, NEW r \in Counts, NEW s \in Counts,
         Counted(gs, r, s), NEW refs \in Counts, NEW subs \in Counts,
         \A h \in Graphs : refs[h] <= r[h] /\ subs[h] <= s[h] /\ r[h] - refs[h] >= s[h] - subs[h],
         NEW gone, gone = Destroyed(gs, refs), NEW d, d = Drop(gs, refs, subs)
  PROVE  /\ d \in GraphFuns /\ Minus(r, refs) \in Counts /\ Minus(s, subs) \in Counts
         /\ Mem(d) = Mem(gs) \ gone
         /\ Counted(d, Minus(r, refs), Minus(s, subs))
         /\ gone \subseteq Mem(gs)
         /\ \A h \in gone : r[h] = refs[h]
         /\ \A h \in Graphs \ gone :
              /\ d[h].attached = gs[h].attached /\ d[h].id = gs[h].id
              /\ d[h].learned = gs[h].learned /\ d[h].out = gs[h].out
              /\ d[h].nodes = gs[h].nodes
  <1>1. /\ gone \subseteq Mem(gs)
        /\ \A h \in Mem(gs) :
              h \in gone <=> gs[h].refs = refs[h] + Holders(gs, gone, h)
    BY DestroyedIsCounted
  <1>2. Mem(gs) \subseteq Graphs /\ gone \subseteq Graphs
    BY <1>1 DEF Mem
  <1>0. PICK rest : rest = Mem(gs) \ gone
    OBVIOUS
  <1>3. \A h \in Graphs :
          /\ Holders(gs, Mem(gs), h) = Holders(gs, gone, h) + Holders(gs, rest, h)
          /\ Holders(gs, gone, h) \in Nat /\ Holders(gs, rest, h) \in Nat
    <2>1. Mem(gs) = gone \cup rest /\ gone \cap rest = {}
          /\ gone \in SUBSET Graphs /\ rest \in SUBSET Graphs
      BY <1>0, <1>1, <1>2
    <2>. QED
      BY <2>1, HoldersSplit, HeldByFinite
  <1>4. \A h \in Graphs :
          /\ r[h] \in Nat /\ s[h] \in Nat /\ refs[h] \in Nat /\ subs[h] \in Nat
          /\ gs[h].refs \in Nat /\ gs[h].subs \in Nat
          /\ gs[h].refs = Holders(gs, gone, h) + Holders(gs, rest, h) + r[h]
          /\ gs[h].subs = Holders(gs, gone, h) + Holders(gs, rest, h) + s[h]
          /\ gs[h].subs > 0 => ~gs[h].mutable
          /\ gs[h].refs = 0 => gs[h] = Freed
    BY <1>3 DEF Counted, Counts, GraphFuns, GraphRec
  <1>5. ASSUME NEW h \in gone
        PROVE  Holders(gs, rest, h) = 0 /\ r[h] = refs[h] /\ s[h] = subs[h]
    <2>1. h \in Graphs /\ gs[h].refs = refs[h] + Holders(gs, gone, h)
      BY <1>1, <1>2
    <2>2. /\ refs[h] <= r[h] /\ subs[h] <= s[h] /\ r[h] - refs[h] >= s[h] - subs[h]
          /\ r[h] \in Nat /\ s[h] \in Nat /\ refs[h] \in Nat /\ subs[h] \in Nat
          /\ gs[h].refs = Holders(gs, gone, h) + Holders(gs, rest, h) + r[h]
          /\ Holders(gs, gone, h) \in Nat /\ Holders(gs, rest, h) \in Nat
      BY <1>3, <1>4, <2>1
    <2>. QED
      BY <2>1, <2>2
  <1>6. \A h \in Graphs \ gone :
          /\ d[h].refs = Holders(gs, rest, h) + (r[h] - refs[h])
          /\ d[h].subs = Holders(gs, rest, h) + (s[h] - subs[h])
          /\ d[h].refs \in Nat /\ d[h].subs \in Nat
          /\ d[h].subs > 0 => ~d[h].mutable
          /\ d[h] \in GraphRec
          /\ d[h].refs > 0 <=> h \in Mem(gs)
    <2> SUFFICES ASSUME NEW h \in Graphs, h \notin gone
                 PROVE  /\ d[h].refs = Holders(gs, rest, h) + (r[h] - refs[h])
                        /\ d[h].subs = Holders(gs, rest, h) + (s[h] - subs[h])
                        /\ d[h].refs \in Nat /\ d[h].subs \in Nat
                        /\ d[h].subs > 0 => ~d[h].mutable
                        /\ d[h] \in GraphRec
                        /\ d[h].refs > 0 <=> h \in Mem(gs)
      OBVIOUS
    <2>1. /\ d[h].refs = gs[h].refs - refs[h] - Holders(gs, gone, h)
          /\ d[h].subs = gs[h].subs - (subs[h] + Holders(gs, gone, h))
          /\ d[h].mutable = (gs[h].mutable \/
                   (subs[h] + Holders(gs, gone, h) > 0
                    /\ gs[h].subs = subs[h] + Holders(gs, gone, h)))
          /\ (d[h].refs \in Nat /\ d[h].subs \in Nat => d[h] \in GraphRec)
      BY DropFields
    <2>2. /\ d[h].refs = Holders(gs, rest, h) + (r[h] - refs[h])
          /\ d[h].subs = Holders(gs, rest, h) + (s[h] - subs[h])
          /\ d[h].refs \in Nat /\ d[h].subs \in Nat
      BY <1>3, <1>4, <2>1
    <2>3. d[h].subs > 0 => ~d[h].mutable
      <3>1. ASSUME d[h].subs > 0
            PROVE  gs[h].subs > 0 /\ gs[h].subs # subs[h] + Holders(gs, gone, h)
        BY <1>3, <1>4, <2>2, <3>1
      <3>2. d[h].subs > 0 => ~gs[h].mutable
        BY <1>4, <3>1
      <3>. QED
        BY <2>1, <3>1, <3>2, Zenon
    <2>4. d[h].refs > 0 <=> h \in Mem(gs)
      <3>1. h \in Mem(gs) <=> gs[h].refs > 0
        BY DEF Mem
      <3>2. h \in Mem(gs) => gs[h].refs # refs[h] + Holders(gs, gone, h)
        BY <1>1
      <3>3. /\ refs[h] \in Nat /\ gs[h].refs \in Nat
            /\ Holders(gs, gone, h) \in Nat /\ d[h].refs \in Nat
            /\ d[h].refs = gs[h].refs - refs[h] - Holders(gs, gone, h)
        BY <1>3, <1>4, <2>1, <2>2
      <3>. QED
        BY <3>1, <3>2, <3>3
    <2>. QED
      BY <2>1, <2>2, <2>3, <2>4
  <1>7. \A h \in gone : d[h] = Freed
    BY <1>2, DropFields
  <1>8. d \in GraphFuns
    <2>1. \A h \in Graphs : d[h] \in GraphRec
      BY <1>6, <1>7, FreedType
    <2>. QED
      BY <2>1, DropType
  <1>9. Mem(d) = rest
    <2>1. \A h \in gone : ~(d[h].refs > 0)
      BY <1>7, FreedFields
    <2>2. Mem(d) = {h \in Graphs : d[h].refs > 0}
      BY DEF Mem
    <2>. QED
      BY <1>0, <1>2, <1>6, <2>1, <2>2
  <1>10. \A h \in Graphs : Holders(d, rest, h) = Holders(gs, rest, h)
    <2>1. rest \in SUBSET Graphs /\ \A g \in rest : g \notin gone
      BY <1>0, <1>2
    <2>2. \A g \in rest : d[g].nodes = gs[g].nodes
      BY <2>1, DropFields
    <2>. QED
      BY <2>1, <2>2, HoldersSame
  <1>11. Minus(r, refs) \in Counts /\ Minus(s, subs) \in Counts
    BY <1>4 DEF Minus, Counts
  <1>12. Counted(d, Minus(r, refs), Minus(s, subs))
    <2> SUFFICES ASSUME NEW h \in Graphs
                 PROVE  /\ d[h].refs = Holders(gs, rest, h) + (r[h] - refs[h])
                        /\ d[h].subs = Holders(gs, rest, h) + (s[h] - subs[h])
                        /\ d[h].subs > 0 => ~d[h].mutable
                        /\ d[h].refs = 0 => d[h] = Freed
      BY <1>9, <1>10 DEF Counted, Minus
    <2>1. CASE h \in gone
      <3>1. /\ d[h] = Freed /\ d[h].refs = 0 /\ d[h].subs = 0
        BY <1>7, <2>1, FreedFields
      <3>2. /\ Holders(gs, rest, h) = 0 /\ r[h] = refs[h] /\ s[h] = subs[h]
            /\ refs[h] \in Nat /\ subs[h] \in Nat
        BY <1>4, <1>5, <2>1
      <3>. QED
        BY <3>1, <3>2
    <2>2. CASE h \notin gone
      <3>1. ASSUME d[h].refs = 0 PROVE d[h] = Freed
        <4>1. h \notin Mem(gs) /\ gs[h].refs = 0 /\ gs[h] = Freed
          BY <1>4, <1>6, <2>2, <3>1 DEF Mem
        <4>2. gs[h] \in GraphRec /\ d[h] \in GraphRec
          BY <1>8 DEF GraphFuns
        <4>3. d[h].subs = 0
          BY <1>3, <1>4, <1>6, <2>2, <3>1
        <4>4. d[h].mutable = gs[h].mutable
          <5>1. gs[h].subs = 0 /\ gs[h].mutable = TRUE
            BY <4>1, FreedFields
          <5>2. d[h].mutable = (gs[h].mutable \/
                   (subs[h] + Holders(gs, gone, h) > 0
                    /\ gs[h].subs = subs[h] + Holders(gs, gone, h)))
            BY <2>2, DropFields
          <5>. QED
            BY <5>1, <5>2, Zenon
        <4>5. /\ d[h].attached = gs[h].attached /\ d[h].id = gs[h].id
              /\ d[h].learned = gs[h].learned /\ d[h].out = gs[h].out
              /\ d[h].nodes = gs[h].nodes
          BY <2>2, DropFields
        <4>6. d[h].refs = gs[h].refs /\ d[h].subs = gs[h].subs
          BY <3>1, <4>1, <4>3, FreedFields
        <4>. QED
          BY <4>1, <4>2, <4>4, <4>5, <4>6, SameRecord
      <3>. QED
        BY <1>6, <2>2, <3>1
    <2>. QED
      BY <2>1, <2>2
  <1>13. \A h \in Graphs \ gone :
              /\ d[h].attached = gs[h].attached /\ d[h].id = gs[h].id
              /\ d[h].learned = gs[h].learned /\ d[h].out = gs[h].out
              /\ d[h].nodes = gs[h].nodes
    BY DropFields
  <1>. QED
    BY <1>0, <1>1, <1>5, <1>8, <1>9, <1>11, <1>12, <1>13

Plus(r, h) == [k \in Graphs |-> r[k] + Once(h)[k]]

LEMMA OnceCounts ==
  \A h : /\ Once(h) \in Counts
         /\ \A k \in Graphs : Once(h)[k] = IF k = h THEN 1 ELSE 0
  BY DEF Once, Counts

LEMMA PlusCounts ==
  ASSUME NEW r \in Counts, NEW h
  PROVE  /\ Plus(r, h) \in Counts
         /\ \A k \in Graphs : Plus(r, h)[k] = r[k] + Once(h)[k]
         /\ Minus(Plus(r, h), Once(h)) = r
  <1>1. \A k \in Graphs : r[k] \in Nat /\ Once(h)[k] \in Nat
    BY OnceCounts DEF Counts
  <1>2. \A k \in Graphs : Plus(r, h)[k] = r[k] + Once(h)[k]
    BY DEF Plus
  <1>3. \A k \in Graphs : Minus(Plus(r, h), Once(h))[k] = r[k]
    BY <1>1, <1>2 DEF Minus
  <1>4. Plus(r, h) \in Counts
    BY <1>1 DEF Plus, Counts
  <1>5. Minus(Plus(r, h), Once(h)) \in Counts
    <2>1. \A k \in Graphs : Plus(r, h)[k] - Once(h)[k] \in Nat
      BY <1>1, <1>2
    <2>. QED
      BY <2>1 DEF Minus, Counts
  <1>. QED
    BY <1>2, <1>3, <1>4, <1>5 DEF Counts

-----------------------------------------------------------------------------
(* What the operations change in the counts *)

SameUses(gs, hs, S) ==
  \A g \in S : \A n \in NodeIds : gs[g].nodes[n].uses = hs[g].nodes[n].uses

LEMMA CountedSame ==
  ASSUME NEW gs \in GraphFuns, NEW hs \in GraphFuns, NEW r, NEW s, Counted(gs, r, s),
         SameUses(gs, hs, Graphs),
         \A h \in Graphs : /\ hs[h].refs = gs[h].refs /\ hs[h].subs = gs[h].subs
                           /\ hs[h].mutable = gs[h].mutable
                           /\ gs[h].refs = 0 => hs[h] = gs[h]
  PROVE  Counted(hs, r, s) /\ Mem(hs) = Mem(gs)
  <1>1. Mem(hs) = Mem(gs) /\ Mem(gs) \in SUBSET Graphs
    BY DEF Mem
  <1>2. \A h \in Graphs : Holders(hs, Mem(hs), h) = Holders(gs, Mem(gs), h)
    BY <1>1, HoldersSame DEF SameUses
  <1>. QED
    BY <1>1, <1>2 DEF Counted

\* Somebody who is not a node takes a reference to h.
LEMMA TakeCounts ==
  ASSUME NEW gs \in GraphFuns, NEW hs \in GraphFuns, NEW r \in Counts, NEW s \in Counts,
         Counted(gs, r, s), NEW h \in Mem(gs), SameUses(gs, hs, Graphs),
         hs[h].refs = gs[h].refs + 1, hs[h].subs = gs[h].subs + 1, ~hs[h].mutable,
         \A k \in Graphs \ {h} : hs[k] = gs[k]
  PROVE  Counted(hs, Plus(r, h), Plus(s, h)) /\ Mem(hs) = Mem(gs)
  <1>1. /\ h \in Graphs /\ gs[h].refs > 0
        /\ \A k \in Graphs : gs[k].refs \in Nat /\ r[k] \in Nat /\ s[k] \in Nat
    BY DEF Mem, GraphFuns, GraphRec, Counts
  <1>2. Mem(hs) = Mem(gs) /\ Mem(gs) \in SUBSET Graphs
    BY <1>1 DEF Mem
  <1>3. \A k \in Graphs : /\ Holders(hs, Mem(hs), k) = Holders(gs, Mem(gs), k)
                          /\ Holders(gs, Mem(gs), k) \in Nat
    BY <1>2, HoldersSame, HeldByFinite DEF SameUses
  <1>4. \A k \in Graphs : /\ Plus(r, h)[k] = IF k = h THEN r[k] + 1 ELSE r[k]
                          /\ Plus(s, h)[k] = IF k = h THEN s[k] + 1 ELSE s[k]
    BY <1>1, PlusCounts, OnceCounts
  <1>. QED
    BY <1>1, <1>2, <1>3, <1>4 DEF Counted

\* A node of g takes over a reference to h, or gives it back.
LEMMA HoldCounts ==
  ASSUME NEW gs \in GraphFuns, NEW hs \in GraphFuns, NEW r \in Counts, NEW s \in Counts,
         NEW h \in Graphs, NEW g \in Mem(gs), NEW n \in NodeIds,
         gs[g].nodes[n].uses = None, hs[g].nodes[n].uses = h,
         \A i \in Graphs : \A m \in NodeIds :
            (i # g \/ m # n) => gs[i].nodes[m].uses = hs[i].nodes[m].uses,
         \A i \in Graphs : /\ hs[i].refs = gs[i].refs /\ hs[i].subs = gs[i].subs
                           /\ hs[i].mutable = gs[i].mutable
                           /\ i # g => hs[i] = gs[i]
  PROVE  /\ Mem(hs) = Mem(gs)
         /\ Counted(gs, Plus(r, h), Plus(s, h)) => Counted(hs, r, s)
         /\ Counted(hs, r, s) => Counted(gs, Plus(r, h), Plus(s, h))
  <1>1. Mem(hs) = Mem(gs) /\ Mem(gs) \in SUBSET Graphs /\ g \in Graphs
    BY DEF Mem
  <1>2. \A k \in Graphs :
          Holders(hs, Mem(hs), k) = Holders(gs, Mem(gs), k) + Once(h)[k]
    BY <1>1, HoldersOneMore
  <1>3. \A k \in Graphs :
          /\ Once(h)[k] \in Nat /\ r[k] \in Nat /\ s[k] \in Nat
          /\ Holders(gs, Mem(gs), k) \in Nat
          /\ Plus(r, h)[k] = r[k] + Once(h)[k] /\ Plus(s, h)[k] = s[k] + Once(h)[k]
    BY <1>1, OnceCounts, PlusCounts, HeldByFinite DEF Counts
  <1>4. \A k \in Graphs :
          /\ Holders(hs, Mem(hs), k) + r[k] = Holders(gs, Mem(gs), k) + Plus(r, h)[k]
          /\ Holders(hs, Mem(hs), k) + s[k] = Holders(gs, Mem(gs), k) + Plus(s, h)[k]
    BY <1>2, <1>3
  <1>5. gs[g].refs # 0 /\ hs[g].refs # 0
    BY <1>1 DEF Mem, GraphFuns, GraphRec
  <1>. QED
    BY <1>1, <1>4, <1>5 DEF Counted

LEMMA NewGraphCounts ==
  ASSUME NEW gs \in GraphFuns, NEW hs \in GraphFuns, NEW r \in Counts, NEW s \in Counts,
         Counted(gs, r, s), NEW g \in Graphs, g \notin Mem(gs),
         hs[g].refs = 1, hs[g].subs = 0, \A n \in NodeIds : hs[g].nodes[n].uses = None,
         \A k \in Graphs \ {g} : hs[k] = gs[k]
  PROVE  Counted(hs, Plus(r, g), s) /\ Mem(hs) = Mem(gs) \cup {g} /\ r[g] = 0 /\ s[g] = 0
  <1>1. \A k \in Graphs : /\ gs[k].refs \in Nat /\ r[k] \in Nat /\ s[k] \in Nat
                          /\ gs[k].subs \in Nat
    BY DEF GraphFuns, GraphRec, Counts
  <1>2. /\ Mem(hs) = Mem(gs) \cup {g} /\ Mem(gs) \in SUBSET Graphs
        /\ {g} \in SUBSET Graphs /\ Mem(gs) \cap {g} = {} /\ gs[g].refs = 0
    BY <1>1 DEF Mem
  <1>3. \A k \in Graphs : /\ Holders(hs, Mem(hs), k) = Holders(gs, Mem(gs), k)
                          /\ Holders(gs, Mem(gs), k) \in Nat
    <2> SUFFICES ASSUME NEW k \in Graphs
                 PROVE  /\ Holders(hs, Mem(hs), k) = Holders(gs, Mem(gs), k)
                        /\ Holders(gs, Mem(gs), k) \in Nat
      OBVIOUS
    <2>1. Holders(hs, Mem(hs), k) = Holders(hs, Mem(gs), k) + Holders(hs, {g}, k)
      BY <1>2, HoldersSplit
    <2>2. Holders(hs, Mem(gs), k) = Holders(gs, Mem(gs), k)
      BY <1>2, HoldersSame
    <2>3. Holders(hs, {g}, k) = 0
      <3>1. PICK T \in SUBSET Graphs : T = {g}
        BY <1>2
      <3>2. \A i \in T : \A n \in NodeIds : hs[i].nodes[n].uses # k
        BY <3>1, GraphsFinite DEF None
      <3>. QED
        BY <3>1, <3>2, HoldersNone
    <2>. QED
      BY <1>2, <2>1, <2>2, <2>3, HeldByFinite
  <1>4. \A k \in Graphs : Plus(r, g)[k] = IF k = g THEN r[k] + 1 ELSE r[k]
    BY <1>1, PlusCounts, OnceCounts
  <1>5. /\ gs[g].refs = Holders(gs, Mem(gs), g) + r[g]
        /\ gs[g].subs = Holders(gs, Mem(gs), g) + s[g]
        /\ gs[g] = Freed
    BY <1>2 DEF Counted
  <1>6. Holders(gs, Mem(gs), g) = 0 /\ r[g] = 0 /\ s[g] = 0
    BY <1>1, <1>2, <1>3, <1>5, FreedFields
  <1>7. ASSUME NEW k \in Graphs
        PROVE  /\ hs[k].refs = Holders(hs, Mem(hs), k) + Plus(r, g)[k]
               /\ hs[k].subs = Holders(hs, Mem(hs), k) + s[k]
               /\ hs[k].subs > 0 => ~hs[k].mutable
               /\ hs[k].refs = 0 => hs[k] = Freed
    <2>1. CASE k = g
      BY <1>1, <1>3, <1>4, <1>6, <2>1
    <2>2. CASE k # g
      BY <1>3, <1>4, <2>2 DEF Counted
    <2>. QED
      BY <2>1, <2>2
  <1>. QED
    BY <1>2, <1>6, <1>7 DEF Counted

-----------------------------------------------------------------------------
(* No cycles *)

\* In every set of graphs in memory one holds none of them, and one is held by
\* none of them.
Acyclic(gs) ==
  \A S \in SUBSET Mem(gs) : S # {} =>
    /\ \E g \in S : \A n \in NodeIds : gs[g].nodes[n].uses \notin S
    /\ \E g \in S : \A h \in S : \A n \in NodeIds : gs[h].nodes[n].uses # g

LEMMA AcyclicLess ==
  ASSUME NEW gs, NEW hs, Acyclic(gs), Mem(hs) \subseteq Mem(gs),
         \A g \in Mem(hs) : \A n \in NodeIds :
            hs[g].nodes[n].uses \in {gs[g].nodes[n].uses, None}
  PROVE  Acyclic(hs)
  <1> SUFFICES ASSUME NEW S \in SUBSET Mem(hs), S # {}
               PROVE  /\ \E g \in S : \A n \in NodeIds : hs[g].nodes[n].uses \notin S
                      /\ \E g \in S : \A h \in S : \A n \in NodeIds :
                           hs[h].nodes[n].uses # g
    BY DEF Acyclic
  <1>0. None \notin S
    BY GraphsFinite DEF Mem, None
  <1>1. S \in SUBSET Mem(gs)
    OBVIOUS
  <1>2. PICK g \in S : \A n \in NodeIds : gs[g].nodes[n].uses \notin S
    BY <1>1 DEF Acyclic
  <1>3. \A n \in NodeIds : hs[g].nodes[n].uses \notin S
    BY <1>0, <1>2
  <1>4. PICK k \in S : \A h \in S : \A n \in NodeIds : gs[h].nodes[n].uses # k
    BY <1>1 DEF Acyclic
  <1>5. \A h \in S : \A n \in NodeIds : hs[h].nodes[n].uses # k
    BY <1>0, <1>4
  <1>. QED
    BY <1>3, <1>5

\* A graph that nobody holds may take any other graph.
LEMMA AcyclicMore ==
  ASSUME NEW gs, NEW hs, Acyclic(gs), NEW g \in Graphs, Mem(hs) \subseteq Mem(gs) \cup {g},
         \A h \in Mem(hs) : \A n \in NodeIds : hs[h].nodes[n].uses # g,
         \A h \in Mem(hs) \ {g} : \A n \in NodeIds :
            hs[h].nodes[n].uses = gs[h].nodes[n].uses
  PROVE  Acyclic(hs)
  <1> SUFFICES ASSUME NEW S \in SUBSET Mem(hs), S # {}
               PROVE  /\ \E i \in S : \A n \in NodeIds : hs[i].nodes[n].uses \notin S
                      /\ \E i \in S : \A h \in S : \A n \in NodeIds :
                           hs[h].nodes[n].uses # i
    BY DEF Acyclic
  <1>1. CASE g \notin S
    <2>1. S \in SUBSET Mem(gs)
      BY <1>1
    <2>2. \A h \in S : \A n \in NodeIds : hs[h].nodes[n].uses = gs[h].nodes[n].uses
      BY <1>1
    <2>3. PICK i \in S : \A n \in NodeIds : gs[i].nodes[n].uses \notin S
      BY <2>1 DEF Acyclic
    <2>4. PICK k \in S : \A h \in S : \A n \in NodeIds : gs[h].nodes[n].uses # k
      BY <2>1 DEF Acyclic
    <2>5. \A n \in NodeIds : hs[i].nodes[n].uses \notin S
      BY <2>2, <2>3
    <2>6. \A h \in S : \A n \in NodeIds : hs[h].nodes[n].uses # k
      BY <2>2, <2>4
    <2>. QED
      BY <2>5, <2>6
  <1>2. CASE g \in S
    <2>1. \E i \in S : \A h \in S : \A n \in NodeIds : hs[h].nodes[n].uses # i
      BY <1>2
    <2>2. CASE S = {g}
      BY <2>1, <2>2
    <2>3. CASE S # {g}
      <3> DEFINE T == S \ {g}
      <3>1. T \in SUBSET Mem(gs) /\ T # {}
        BY <1>2, <2>3
      <3>2. PICK i \in T : \A n \in NodeIds : gs[i].nodes[n].uses \notin T
        BY <3>1 DEF Acyclic
      <3>3. \A n \in NodeIds : hs[i].nodes[n].uses \notin S
        BY <3>2
      <3>. QED
        BY <2>1, <3>3
    <2>. QED
      BY <2>2, <2>3
  <1>. QED
    BY <1>1, <1>2

-----------------------------------------------------------------------------
(* Updates of one graph *)

WithNode(gs, g, n, x) == [gs EXCEPT ![g].nodes[n] = x]
NodeMutable(gs, g, n, b) == [gs EXCEPT ![g].nodes[n].mutable = b]
Taken(gs, h) == [gs EXCEPT ![h].refs = @ + 1, ![h].subs = @ + 1, ![h].mutable = FALSE]

LEMMA SetNodeFields ==
  ASSUME NEW gs \in GraphFuns, NEW g \in Graphs, NEW n \in NodeIds, NEW x \in NodeRec
  PROVE  LET hs == WithNode(gs, g, n, x)
         IN  /\ hs \in GraphFuns /\ \A k \in Graphs \ {g} : hs[k] = gs[k]
             /\ hs[g].nodes[n] = x
             /\ \A m \in NodeIds \ {n} : hs[g].nodes[m] = gs[g].nodes[m]
             /\ hs[g].refs = gs[g].refs /\ hs[g].subs = gs[g].subs
             /\ hs[g].attached = gs[g].attached /\ hs[g].id = gs[g].id
             /\ hs[g].mutable = gs[g].mutable /\ hs[g].learned = gs[g].learned
             /\ hs[g].out = gs[g].out
  <1>1. PICK y \in GraphRec : y = gs[g]
    BY DEF GraphFuns
  <1>2. PICK z : z = [y EXCEPT !.nodes[n] = x]
    OBVIOUS
  <1>3. /\ z \in GraphRec /\ z.nodes = [y.nodes EXCEPT ![n] = x]
        /\ z.refs = y.refs /\ z.subs = y.subs /\ z.attached = y.attached /\ z.id = y.id
        /\ z.mutable = y.mutable /\ z.learned = y.learned /\ z.out = y.out
    BY <1>2 DEF GraphRec
  <1>4. y.nodes \in [NodeIds -> NodeRec]
    BY DEF GraphRec
  <1>5. PICK hs : hs = [gs EXCEPT ![g] = z]
    OBVIOUS
  <1>6. hs \in GraphFuns /\ hs[g] = z /\ \A k \in Graphs \ {g} : hs[k] = gs[k]
    BY <1>3, <1>5 DEF GraphFuns
  <1>7. hs = WithNode(gs, g, n, x)
    BY <1>1, <1>2, <1>5 DEF WithNode
  <1>8. /\ hs \in GraphFuns /\ \A k \in Graphs \ {g} : hs[k] = gs[k]
        /\ hs[g].nodes[n] = x
        /\ \A m \in NodeIds \ {n} : hs[g].nodes[m] = gs[g].nodes[m]
        /\ hs[g].refs = gs[g].refs /\ hs[g].subs = gs[g].subs
        /\ hs[g].attached = gs[g].attached /\ hs[g].id = gs[g].id
        /\ hs[g].mutable = gs[g].mutable /\ hs[g].learned = gs[g].learned
        /\ hs[g].out = gs[g].out
    BY <1>1, <1>3, <1>4, <1>6
  <1>. QED
    BY <1>7, <1>8, Zenon

LEMMA SetMutableFields ==
  ASSUME NEW gs \in GraphFuns, NEW g \in Graphs, NEW n \in NodeIds, NEW b \in BOOLEAN
  PROVE  LET hs == NodeMutable(gs, g, n, b)
         IN  /\ hs \in GraphFuns /\ \A k \in Graphs \ {g} : hs[k] = gs[k]
             /\ \A m \in NodeIds : /\ hs[g].nodes[m].uses = gs[g].nodes[m].uses
                                   /\ hs[g].nodes[m].stamp = gs[g].nodes[m].stamp
             /\ hs[g].refs = gs[g].refs /\ hs[g].subs = gs[g].subs
             /\ hs[g].attached = gs[g].attached /\ hs[g].id = gs[g].id
             /\ hs[g].mutable = gs[g].mutable /\ hs[g].learned = gs[g].learned
             /\ hs[g].out = gs[g].out
  <1>1. PICK y \in NodeRec : y = gs[g].nodes[n]
    BY DEF GraphFuns, GraphRec
  <1>2. PICK x : x = [y EXCEPT !.mutable = b]
    OBVIOUS
  <1>3. x \in NodeRec /\ x.uses = y.uses /\ x.stamp = y.stamp
    BY <1>2 DEF NodeRec
  <1>4. NodeMutable(gs, g, n, b) = WithNode(gs, g, n, x)
    BY <1>1, <1>2 DEF NodeMutable, WithNode
  <1>5. PICK hs : hs = WithNode(gs, g, n, x)
    OBVIOUS
  <1>6. /\ hs \in GraphFuns /\ \A k \in Graphs \ {g} : hs[k] = gs[k]
        /\ hs[g].nodes[n] = x
        /\ \A m \in NodeIds \ {n} : hs[g].nodes[m] = gs[g].nodes[m]
        /\ hs[g].refs = gs[g].refs /\ hs[g].subs = gs[g].subs
        /\ hs[g].attached = gs[g].attached /\ hs[g].id = gs[g].id
        /\ hs[g].mutable = gs[g].mutable /\ hs[g].learned = gs[g].learned
        /\ hs[g].out = gs[g].out
    BY <1>3, <1>5, SetNodeFields
  <1>7. \A m \in NodeIds : /\ hs[g].nodes[m].uses = gs[g].nodes[m].uses
                           /\ hs[g].nodes[m].stamp = gs[g].nodes[m].stamp
    BY <1>1, <1>3, <1>6
  <1>. QED
    BY <1>4, <1>5, <1>6, <1>7, Zenon

LEMMA TakenFields ==
  ASSUME NEW gs \in GraphFuns, NEW h \in Graphs
  PROVE  LET hs == Taken(gs, h)
         IN  /\ hs \in GraphFuns /\ \A k \in Graphs \ {h} : hs[k] = gs[k]
             /\ hs[h].refs = gs[h].refs + 1 /\ hs[h].subs = gs[h].subs + 1
             /\ hs[h].mutable = FALSE
             /\ hs[h].attached = gs[h].attached /\ hs[h].id = gs[h].id
             /\ hs[h].learned = gs[h].learned /\ hs[h].out = gs[h].out
             /\ hs[h].nodes = gs[h].nodes
  <1>1. PICK y \in GraphRec : y = gs[h]
    BY DEF GraphFuns
  <1>2. PICK a \in Nat, b \in Nat : a = y.refs + 1 /\ b = y.subs + 1
    BY DEF GraphRec
  <1>3. PICK z : z = [y EXCEPT !.refs = a, !.subs = b, !.mutable = FALSE]
    OBVIOUS
  <1>4. /\ z \in GraphRec /\ z.nodes = y.nodes /\ z.refs = a /\ z.subs = b
        /\ z.attached = y.attached /\ z.id = y.id
        /\ z.mutable = FALSE /\ z.learned = y.learned /\ z.out = y.out
    BY <1>3 DEF GraphRec
  <1>5. PICK hs : hs = [gs EXCEPT ![h] = z]
    OBVIOUS
  <1>6. hs \in GraphFuns /\ hs[h] = z /\ \A k \in Graphs \ {h} : hs[k] = gs[k]
    BY <1>4, <1>5 DEF GraphFuns
  <1>7. hs = Taken(gs, h)
    BY <1>1, <1>2, <1>3, <1>5 DEF Taken
  <1>. QED
    BY <1>1, <1>2, <1>4, <1>6, <1>7, Zenon

-----------------------------------------------------------------------------
(* The invariant *)

EvalsOf(h) == Cardinality({e \in Evaluators : ext[e].graph = h})
Uses == [h \in Graphs |-> EvalsOf(h)]
Listing(gs, h) == IF gs[h].attached THEN 1 ELSE 0
Refs == [h \in Graphs |-> EvalsOf(h) + Listing(graph, h)]

EvalRec == [graph : Graphs \cup {None}, threads : Nat, synched : SUBSET Workers]

SessionTypes ==
  /\ table \in Seq(Graphs \cup {None}) /\ Len(table) <= MaxGraphs
  /\ free \in Seq(Ids)
  /\ graph \in GraphFuns
  /\ data \in [Contexts -> [Ids -> [NodeIds -> Nat]]]
  /\ nsub \in Nat
  /\ ext \in [Evaluators -> EvalRec]
  /\ \A e \in Evaluators : ext[e] # NoEvaluator => ext[e].graph # None
  /\ ended \in BOOLEAN /\ stamp \in Nat

\* The table lists the graphs that are attached to the session, each at its id.
TableInv ==
  /\ \A id \in Ids : GraphExists(id) => graph[At(id)].attached /\ graph[At(id)].id = id
  /\ \A g \in Graphs :
       graph[g].attached => GraphExists(graph[g].id) /\ At(graph[g].id) = g

FreeInv ==
  /\ \A k \in 1 .. Len(free) : free[k] < Len(table) /\ ~GraphExists(free[k])
  /\ \A k, l \in 1 .. Len(free) : free[k] = free[l] => k = l

SessionInv ==
  /\ SessionTypes /\ TableInv /\ FreeInv
  /\ Counted(graph, Refs, Uses) /\ Acyclic(graph)
  /\ DataFits /\ NothingLeft

LEMMA EvalsFinite ==
  \A h : /\ IsFiniteSet({e \in Evaluators : ext[e].graph = h})
         /\ EvalsOf(h) \in Nat
  <1> SUFFICES ASSUME NEW h
               PROVE  /\ IsFiniteSet({e \in Evaluators : ext[e].graph = h})
                      /\ EvalsOf(h) \in Nat
    OBVIOUS
  <1>1. IsFiniteSet({e \in Evaluators : ext[e].graph = h})
    BY SessionAssumption, FS_Subset
  <1>. QED
    BY <1>1, FS_CardinalityType DEF EvalsOf

LEMMA RefsCounts ==
  /\ Uses \in Counts /\ Refs \in Counts
  /\ \A h \in Graphs : /\ Uses[h] = EvalsOf(h) /\ EvalsOf(h) \in Nat
                       /\ Refs[h] = Uses[h] + Listing(graph, h)
  <1>1. \A h \in Graphs : EvalsOf(h) \in Nat /\ Listing(graph, h) \in Nat
    BY EvalsFinite DEF Listing
  <1>. QED
    BY <1>1 DEF Uses, Refs, Counts

\* A graph that the table lists is in memory, at one place of the table.
LEMMA ListedGraph ==
  ASSUME SessionInv, NEW id \in Ids, GraphExists(id)
  PROVE  /\ At(id) \in Mem(graph) /\ At(id) \in Graphs
         /\ graph[At(id)].attached /\ graph[At(id)].id = id
         /\ id + 1 \in 1 .. Len(table)
  <1>1. id + 1 \in 1 .. Len(table)
    BY DEF GraphExists, SessionInv, SessionTypes, Ids
  <1>2. At(id) \in Graphs
    BY <1>1 DEF GraphExists, At, SessionInv, SessionTypes
  <1>3. graph[At(id)].attached /\ graph[At(id)].id = id
    BY DEF SessionInv, TableInv
  <1>4. /\ graph[At(id)].refs = Holders(graph, Mem(graph), At(id)) + Refs[At(id)]
        /\ Holders(graph, Mem(graph), At(id)) \in Nat
    BY <1>2, HeldByFinite DEF SessionInv, Counted, Mem
  <1>5. Refs[At(id)] > 0 /\ Refs[At(id)] \in Nat
    BY <1>2, <1>3, RefsCounts DEF Listing
  <1>. QED
    BY <1>1, <1>2, <1>3, <1>4, <1>5 DEF Mem

-----------------------------------------------------------------------------
(* Parts that most steps keep *)

LEMMA TableKept ==
  ASSUME SessionInv, UNCHANGED <<table, free>>,
         \A g \in Graphs : /\ graph'[g].attached = graph[g].attached
                           /\ graph[g].attached => graph'[g].id = graph[g].id
  PROVE  TableInv' /\ FreeInv'
  <1>1. \A id : (GraphExists(id))' = GraphExists(id) /\ (At(id))' = At(id)
    BY DEF GraphExists, At
  <1>2. FreeInv'
    BY <1>1 DEF SessionInv, FreeInv
  <1>3. \A id \in Ids : GraphExists(id) => At(id) \in Graphs
    BY ListedGraph
  <1>4. ASSUME NEW id \in Ids, (GraphExists(id))'
        PROVE  graph'[(At(id))'].attached /\ graph'[(At(id))'].id = id
    BY <1>1, <1>3, <1>4 DEF SessionInv, TableInv
  <1>5. ASSUME NEW g \in Graphs, graph'[g].attached
        PROVE  (GraphExists(graph[g].id))' /\ (At(graph[g].id))' = g /\ graph'[g].id = graph[g].id
    BY <1>1, <1>5 DEF SessionInv, TableInv
  <1>. QED
    BY <1>2, <1>4, <1>5 DEF TableInv

\* The data of a node
StampAt(id, n) == IF GraphExists(id) THEN graph[At(id)].nodes[n].stamp ELSE None

LEMMA DataFitsStamps ==
  DataFits <=> \A id \in Ids, n \in NodeIds, c \in Contexts :
                 data[c][id][n] \in IF c = 0 THEN {StampAt(id, n)} ELSE {StampAt(id, n), None}
  BY DEF DataFits, StampAt

LEMMA DataFitsStampsNext ==
  DataFits' <=> \A id \in Ids, n \in NodeIds, c \in Contexts :
                 data'[c][id][n] \in IF c = 0 THEN {StampAt(id, n)'} ELSE {StampAt(id, n)', None}
  BY DEF DataFits, StampAt

LEMMA StampKept ==
  ASSUME SessionInv, UNCHANGED table, NEW id \in Ids, NEW n \in NodeIds,
         GraphExists(id) => graph'[At(id)].nodes[n].stamp = graph[At(id)].nodes[n].stamp
  PROVE  StampAt(id, n)' = StampAt(id, n)
  BY DEF StampAt, GraphExists, At

LEMMA DataKept ==
  ASSUME SessionInv, UNCHANGED <<table, data>>,
         \A g \in Graphs : graph[g].attached => \A n \in NodeIds :
            graph'[g].nodes[n].stamp = graph[g].nodes[n].stamp
  PROVE  DataFits'
  <1>1. \A id \in Ids, n \in NodeIds : StampAt(id, n)' = StampAt(id, n)
    BY StampKept, ListedGraph
  <1>. QED
    BY <1>1, DataFitsStamps, DataFitsStampsNext DEF SessionInv

\* The data of one node are written in the main context and deleted in the
\* others.
LEMMA DataOfOneNode ==
  ASSUME SessionInv, UNCHANGED table, NEW i \in Ids, NEW m \in NodeIds,
         \A id \in Ids, n \in NodeIds : id # i \/ n # m =>
            (GraphExists(id) => graph'[At(id)].nodes[n].stamp = graph[At(id)].nodes[n].stamp),
         \A c \in Contexts, id \in Ids, n \in NodeIds :
            id # i \/ n # m => data'[c][id][n] = data[c][id][n],
         data'[0][i][m] = StampAt(i, m)',
         \A c \in Workers : data'[c][i][m] = None
  PROVE  DataFits'
  <1>1. \A id \in Ids, n \in NodeIds : id # i \/ n # m => StampAt(id, n)' = StampAt(id, n)
    BY StampKept
  <1>2. \A c \in Contexts : c = 0 \/ c \in Workers
    BY SessionAssumption DEF Contexts, Workers
  <1>3. ASSUME NEW id \in Ids, NEW n \in NodeIds, NEW c \in Contexts
        PROVE  data'[c][id][n] \in IF c = 0 THEN {StampAt(id, n)'} ELSE {StampAt(id, n)', None}
    <2>1. CASE id = i /\ n = m
      BY <1>2, <2>1
    <2>2. CASE id # i \/ n # m
      <3>1. data'[c][id][n] = data[c][id][n] /\ StampAt(id, n)' = StampAt(id, n)
        BY <1>1, <2>2
      <3>2. data[c][id][n] \in IF c = 0 THEN {StampAt(id, n)} ELSE {StampAt(id, n), None}
        BY DataFitsStamps DEF SessionInv
      <3>. QED
        BY <3>1, <3>2
    <2>. QED
      BY <2>1, <2>2
  <1>. QED
    BY <1>3, DataFitsStampsNext

\* Nothing is deleted with graphs that have left the session.
LEMMA WithoutNothing ==
  ASSUME NEW d \in DataFuns, NEW gs, NEW gone, \A g \in gone : ~gs[g].attached
  PROVE  WithoutNodesOf(d, gs, gone) = d
  <1>1. WithoutNodesOf(d, gs, gone)
          = [c \in Contexts |-> [i \in Ids |-> [n \in NodeIds |-> d[c][i][n]]]]
    BY DEF WithoutNodesOf
  <1>. QED
    BY <1>1 DEF DataFuns

\* References are dropped and the table stays.
LEMMA DropStep ==
  ASSUME SessionInv, NEW gs \in GraphFuns, NEW r \in Counts, NEW s \in Counts,
         Counted(gs, r, s), NEW refs \in Counts, NEW subs \in Counts,
         \A h \in Graphs : /\ refs[h] <= r[h] /\ subs[h] <= s[h]
                           /\ r[h] - refs[h] = Uses'[h] + Listing(gs, h)
                           /\ s[h] - subs[h] = Uses'[h],
         Uses' \in Counts, Acyclic(gs), NEW gone, gone = Destroyed(gs, refs),
         graph' = Drop(gs, refs, subs)
  PROVE  /\ graph' \in GraphFuns /\ Counted(graph, Refs, Uses)' /\ Acyclic(graph)'
         /\ gone \subseteq Mem(gs) /\ \A h \in gone : ~gs[h].attached
         /\ \A h \in gone : graph'[h] = Freed
         /\ \A h \in Graphs \ gone :
              /\ graph'[h].attached = gs[h].attached /\ graph'[h].id = gs[h].id
              /\ graph'[h].nodes = gs[h].nodes
         /\ \A h \in Graphs : graph'[h].attached = gs[h].attached
  <1>0. \A h \in Graphs : /\ Uses'[h] \in Nat /\ Listing(gs, h) \in Nat /\ r[h] \in Nat
                          /\ refs[h] \in Nat /\ s[h] \in Nat /\ subs[h] \in Nat
    BY DEF Counts, Listing
  <1>1. \A h \in Graphs : r[h] - refs[h] >= s[h] - subs[h]
    BY <1>0
  <1>2. /\ graph' \in GraphFuns
        /\ Mem(graph') = Mem(gs) \ gone
        /\ Counted(graph', Minus(r, refs), Minus(s, subs))
        /\ gone \subseteq Mem(gs)
        /\ \A h \in gone : r[h] = refs[h]
        /\ \A h \in Graphs \ gone :
              /\ graph'[h].attached = gs[h].attached /\ graph'[h].id = gs[h].id
              /\ graph'[h].nodes = gs[h].nodes
    BY <1>1, DropCounts
  <1>3. \A h \in gone : h \in Graphs /\ ~gs[h].attached
    <2> SUFFICES ASSUME NEW h \in gone PROVE h \in Graphs /\ ~gs[h].attached
      OBVIOUS
    <2>1. h \in Graphs /\ r[h] = refs[h]
      BY <1>2 DEF Mem
    <2>2. Listing(gs, h) = 0
      BY <1>0, <2>1
    <2>. QED
      BY <2>1, <2>2 DEF Listing
  <1>4. \A h \in gone : graph'[h] = Freed
    BY <1>3, DropFields
  <1>5. \A h \in Graphs : graph'[h].attached = gs[h].attached
    <2>1. \A h \in Graphs : gs[h].attached \in BOOLEAN
      BY DEF GraphFuns, GraphRec
    <2>. QED
      BY <1>2, <1>3, <1>4, <2>1, FreedFields
  <1>6. /\ Refs' = [h \in Graphs |-> Uses'[h] + Listing(gs, h)]
        /\ Uses' = [h \in Graphs |-> Uses'[h]]
    <2>1. \A h \in Graphs : Listing(graph', h) = Listing(gs, h)
      BY <1>5 DEF Listing
    <2>. QED
      BY <2>1 DEF Refs, Uses
  <1>7. Minus(r, refs) = Refs' /\ Minus(s, subs) = Uses'
    BY <1>6 DEF Minus
  <1>8. Acyclic(graph')
    <2>1. \A g \in Mem(graph') : graph'[g].nodes = gs[g].nodes
      BY <1>2 DEF Mem
    <2>. QED
      BY <1>2, <2>1, AcyclicLess
  <1>. QED
    BY <1>2, <1>3, <1>4, <1>5, <1>7, <1>8

LEMMA EvalsSame ==
  ASSUME \A e \in Evaluators : ext'[e].graph = ext[e].graph
  PROVE  Uses' = Uses /\ Uses' \in Counts
  <1>1. \A h : EvalsOf(h)' = EvalsOf(h)
    BY DEF EvalsOf
  <1>. QED
    BY <1>1, RefsCounts DEF Uses

LEMMA EvalsTake ==
  ASSUME NEW e \in Evaluators, NEW g \in Graphs, ext[e].graph = None, ext'[e].graph = g,
         \A f \in Evaluators \ {e} : ext'[f].graph = ext[f].graph
  PROVE  Uses' = Plus(Uses, g) /\ Uses' \in Counts
  <1>1. ASSUME NEW h \in Graphs PROVE EvalsOf(h)' = EvalsOf(h) + Once(g)[h]
    <2>1. h # None
      BY GraphsFinite DEF None
    <2>2. PICK S : S = {f \in Evaluators : ext[f].graph = h}
      OBVIOUS
    <2>3. PICK T : T = {f \in Evaluators : ext'[f].graph = h}
      OBVIOUS
    <2>4. /\ IsFiniteSet(S) /\ Cardinality(S) \in Nat
          /\ EvalsOf(h) = Cardinality(S) /\ EvalsOf(h)' = Cardinality(T)
      BY <2>2, <2>3, EvalsFinite DEF EvalsOf
    <2>5. CASE h = g
      <3>1. T = S \cup {e} /\ e \notin S
        BY <2>1, <2>2, <2>3, <2>5
      <3>2. Cardinality(T) = Cardinality(S) + 1
        BY <2>4, <3>1, FS_AddElement
      <3>. QED
        BY <2>4, <2>5, <3>2, OnceCounts
    <2>6. CASE h # g
      <3>1. T = S
        BY <2>1, <2>2, <2>3, <2>6
      <3>. QED
        BY <2>4, <2>6, <3>1, OnceCounts
    <2>. QED
      BY <2>5, <2>6
  <1>2. Uses' = Plus(Uses, g)
    BY <1>1 DEF Uses, Plus
  <1>. QED
    BY <1>2, RefsCounts, PlusCounts

LEMMA EvalsDrop ==
  ASSUME NEW e \in Evaluators, NEW g \in Graphs, ext[e].graph = g, ext'[e].graph = None,
         \A f \in Evaluators \ {e} : ext'[f].graph = ext[f].graph
  PROVE  /\ Uses' \in Counts
         /\ \A h \in Graphs : Uses[h] = Uses'[h] + Once(g)[h]
  <1>1. ASSUME NEW h \in Graphs
        PROVE  EvalsOf(h) = EvalsOf(h)' + Once(g)[h] /\ EvalsOf(h)' \in Nat
    <2>1. h # None
      BY GraphsFinite DEF None
    <2>2. PICK S : S = {f \in Evaluators : ext[f].graph = h}
      OBVIOUS
    <2>3. PICK T : T = {f \in Evaluators : ext'[f].graph = h}
      OBVIOUS
    <2>4. /\ IsFiniteSet(S) /\ Cardinality(S) \in Nat
          /\ EvalsOf(h) = Cardinality(S) /\ EvalsOf(h)' = Cardinality(T)
      BY <2>2, <2>3, EvalsFinite DEF EvalsOf
    <2>5. CASE h = g
      <3>1. S = T \cup {e} /\ e \notin T
        BY <2>1, <2>2, <2>3, <2>5
      <3>2. IsFiniteSet(T)
        BY <2>4, <3>1, FS_Subset
      <3>3. Cardinality(S) = Cardinality(T) + 1 /\ Cardinality(T) \in Nat
        BY <3>1, <3>2, FS_AddElement, FS_CardinalityType
      <3>. QED
        BY <2>4, <2>5, <3>3, OnceCounts
    <2>6. CASE h # g
      <3>1. T = S
        BY <2>1, <2>2, <2>3, <2>6
      <3>. QED
        BY <2>4, <2>6, <3>1, OnceCounts
    <2>. QED
      BY <2>5, <2>6
  <1>. QED
    BY <1>1 DEF Uses, Counts

\* A step that changes only marks, stamps and outputs of a graph.
LEMMA GraphKept ==
  ASSUME SessionInv, graph' \in GraphFuns,
         \A e \in Evaluators : ext'[e].graph = ext[e].graph,
         \A g \in Graphs : /\ graph'[g].refs = graph[g].refs /\ graph'[g].subs = graph[g].subs
                           /\ graph'[g].attached = graph[g].attached
                           /\ graph'[g].mutable = graph[g].mutable
                           /\ graph[g].refs = 0 => graph'[g] = graph[g],
         SameUses(graph, graph', Graphs)
  PROVE  Counted(graph, Refs, Uses)' /\ Acyclic(graph)'
  <1>1. Uses' = Uses
    BY EvalsSame
  <1>2. Refs' = Refs
    <2>1. \A h \in Graphs : Listing(graph', h) = Listing(graph, h)
      BY DEF Listing
    <2>2. Refs' = [h \in Graphs |-> Uses'[h] + Listing(graph', h)]
          /\ Refs = [h \in Graphs |-> Uses[h] + Listing(graph, h)]
      BY DEF Refs, Uses
    <2>. QED
      BY <1>1, <2>1, <2>2
  <1>3. Counted(graph', Refs, Uses) /\ Mem(graph') = Mem(graph)
    BY CountedSame DEF SessionInv, SessionTypes
  <1>4. Acyclic(graph')
    <2>1. \A g \in Mem(graph') : \A n \in NodeIds :
            graph'[g].nodes[n].uses \in {graph[g].nodes[n].uses, None}
      BY <1>3 DEF SameUses, Mem
    <2>. QED
      BY <1>3, <2>1, AcyclicLess DEF SessionInv
  <1>. QED
    BY <1>1, <1>2, <1>3, <1>4

-----------------------------------------------------------------------------
(* Updates of the data *)

WithDatum(d, c, id, n, v) == [d EXCEPT ![c][id][n] = v]

LEMMA ContextZero ==
  /\ 0 \in Contexts /\ \A c \in Contexts : c = 0 \/ c \in Workers
  /\ \A c \in Workers : c \in Contexts /\ c # 0
  BY SessionAssumption DEF Contexts, Workers

LEMMA SetDatumFields ==
  ASSUME NEW d \in DataFuns, NEW c \in Contexts, NEW id \in Ids, NEW n \in NodeIds,
         NEW v \in Nat
  PROVE  /\ WithDatum(d, c, id, n, v) \in DataFuns
         /\ WithDatum(d, c, id, n, v)[c][id][n] = v
         /\ \A b \in Contexts, i \in Ids, m \in NodeIds : b # c \/ i # id \/ m # n =>
              WithDatum(d, c, id, n, v)[b][i][m] = d[b][i][m]
  <1>1. PICK x \in [NodeIds -> Nat] : x = [d[c][id] EXCEPT ![n] = v]
    BY DEF DataFuns
  <1>2. PICK y \in [Ids -> [NodeIds -> Nat]] : y = [d[c] EXCEPT ![id] = x]
    BY DEF DataFuns
  <1>3. PICK z : z = [d EXCEPT ![c] = y]
    OBVIOUS
  <1>4. z = WithDatum(d, c, id, n, v)
    BY <1>1, <1>2, <1>3 DEF WithDatum
  <1>5. z \in DataFuns /\ z[c] = y /\ \A b \in Contexts \ {c} : z[b] = d[b]
    BY <1>3 DEF DataFuns
  <1>6. y[id] = x /\ \A i \in Ids \ {id} : y[i] = d[c][i]
    BY <1>2 DEF DataFuns
  <1>7. x[n] = v /\ \A m \in NodeIds \ {n} : x[m] = d[c][id][m]
    BY <1>1 DEF DataFuns
  <1>. QED
    BY <1>4, <1>5, <1>6, <1>7

\* A new node: there are no data at its place in any context.
LEMMA DataOfNewNode ==
  ASSUME SessionInv, UNCHANGED table, NEW id \in Ids, NEW n \in NodeIds,
         GraphExists(id), ~NodeExists(id, n), data' = WithDatum(data, 0, id, n, stamp + 1),
         graph'[At(id)].nodes[n].stamp = stamp + 1,
         \A i \in Ids, m \in NodeIds : i # id \/ m # n =>
            (GraphExists(i) => graph'[At(i)].nodes[m].stamp = graph[At(i)].nodes[m].stamp)
  PROVE  DataFits' /\ data' \in DataFuns
  <1>1. /\ data' \in DataFuns /\ data'[0][id][n] = stamp + 1
        /\ \A b \in Contexts, i \in Ids, m \in NodeIds : b # 0 \/ i # id \/ m # n =>
              data'[b][i][m] = data[b][i][m]
    <2>1. stamp + 1 \in Nat /\ data \in DataFuns
      BY DEF SessionInv, SessionTypes, DataFuns
    <2>. QED
      BY <2>1, ContextZero, SetDatumFields
  <1>2. data'[0][id][n] = StampAt(id, n)'
    BY <1>1 DEF StampAt, GraphExists, At
  <1>3. \A c \in Workers : data'[c][id][n] = None
    <2> SUFFICES ASSUME NEW c \in Workers PROVE data'[c][id][n] = None
      OBVIOUS
    <2>1. c \in Contexts /\ c # 0
      BY SessionAssumption DEF Contexts, Workers
    <2>2. data'[c][id][n] = data[c][id][n]
      BY <1>1, <2>1
    <2>3. StampAt(id, n) = None
      BY DEF StampAt, NodeExists, NoNode
    <2>. QED
      BY <2>1, <2>2, <2>3, DataFitsStamps DEF SessionInv
  <1>4. \A c \in Contexts, i \in Ids, m \in NodeIds : i # id \/ m # n =>
           data'[c][i][m] = data[c][i][m]
    BY <1>1
  <1>. QED
    BY <1>1, <1>2, <1>3, <1>4, DataOfOneNode

-----------------------------------------------------------------------------
(* The operations *)

LEMMA NewNodeInv ==
  ASSUME SessionInv, NEW id \in Ids, NEW n \in NodeIds, NewNode(id, n)
  PROVE  SessionInv'
  <1>0. /\ GraphExists(id) /\ ~NodeExists(id, n) /\ AddNode(graph, id, n, None)
        /\ UNCHANGED <<table, free, nsub, ext, ended>> /\ ~ended
    BY DEF NewNode, Called
  <1>1. PICK g \in Graphs : g = At(id) /\ g \in Mem(graph) /\ graph[g].attached /\ graph[g].id = id
    BY <1>0, ListedGraph
  <1>2. PICK x : x = [NoNode EXCEPT !.stamp = stamp + 1, !.uses = None]
    OBVIOUS
  <1>3. x \in NodeRec /\ x.uses = None /\ x.stamp = stamp + 1
    <2>1. PICK k \in Nat : k = stamp + 1
      BY DEF SessionInv, SessionTypes
    <2>. QED
      BY <1>2, <2>1 DEF NoNode, NodeRec
  <1>4. graph' = WithNode(graph, g, n, x)
    BY <1>0, <1>1, <1>2 DEF AddNode, WithNode
  <1>5. graph \in GraphFuns /\ graph[g].nodes[n] = NoNode /\ graph[g].refs # 0
    BY <1>0, <1>1 DEF NodeExists, SessionInv, SessionTypes, Mem
  <1>6. /\ graph' \in GraphFuns /\ \A k \in Graphs \ {g} : graph'[k] = graph[k]
        /\ graph'[g].nodes[n] = x
        /\ \A m \in NodeIds \ {n} : graph'[g].nodes[m] = graph[g].nodes[m]
        /\ graph'[g].refs = graph[g].refs /\ graph'[g].subs = graph[g].subs
        /\ graph'[g].attached = graph[g].attached /\ graph'[g].id = graph[g].id
        /\ graph'[g].mutable = graph[g].mutable
    BY <1>3, <1>4, <1>5, SetNodeFields
  <1>7. SameUses(graph, graph', Graphs)
    BY <1>3, <1>5, <1>6 DEF SameUses, NoNode
  <1>8. Counted(graph, Refs, Uses)' /\ Acyclic(graph)'
    BY <1>0, <1>5, <1>6, <1>7, GraphKept
  <1>9. TableInv' /\ FreeInv'
    BY <1>0, <1>6, TableKept
  <1>10. DataFits' /\ data' \in DataFuns
    <2>1. data' = WithDatum(data, 0, id, n, stamp + 1)
      BY <1>0 DEF AddNode, WithDatum
    <2>2. \A i \in Ids, m \in NodeIds : i # id \/ m # n =>
            (GraphExists(i) => graph'[At(i)].nodes[m].stamp = graph[At(i)].nodes[m].stamp)
      BY <1>1, <1>6, ListedGraph
    <2>. QED
      BY <1>0, <1>1, <1>3, <1>6, <2>1, <2>2, DataOfNewNode
  <1>11. stamp' \in Nat
    BY <1>0 DEF AddNode, SessionInv, SessionTypes
  <1>. QED
    BY <1>0, <1>6, <1>8, <1>9, <1>10, <1>11 DEF SessionInv, SessionTypes, DataFuns, NothingLeft

\* Only the output node of a graph, or the mark of one of its nodes, changes.
LEMMA MarksInv ==
  ASSUME SessionInv, ~ended, UNCHANGED <<table, free, data, nsub, ext, ended, stamp>>,
         NEW g \in Mem(graph), graph' \in GraphFuns,
         \A k \in Graphs \ {g} : graph'[k] = graph[k],
         graph'[g].refs = graph[g].refs, graph'[g].subs = graph[g].subs,
         graph'[g].attached = graph[g].attached, graph'[g].id = graph[g].id,
         graph'[g].mutable = graph[g].mutable,
         \A m \in NodeIds : /\ graph'[g].nodes[m].uses = graph[g].nodes[m].uses
                            /\ graph'[g].nodes[m].stamp = graph[g].nodes[m].stamp
  PROVE  SessionInv'
  <1>1. g \in Graphs /\ graph[g].refs # 0
    BY DEF Mem
  <1>2. SameUses(graph, graph', Graphs)
    BY <1>1 DEF SameUses
  <1>3. Counted(graph, Refs, Uses)' /\ Acyclic(graph)'
    BY <1>1, <1>2, GraphKept
  <1>4. TableInv' /\ FreeInv'
    BY <1>1, TableKept
  <1>5. DataFits'
    BY <1>1, DataKept
  <1>. QED
    BY <1>3, <1>4, <1>5 DEF SessionInv, SessionTypes, NothingLeft

LEMMA SetOutputNodeInv ==
  ASSUME SessionInv, NEW id \in Ids, NEW n \in NodeIds, SetOutputNode(id, n)
  PROVE  SessionInv'
  <1>0. /\ GraphExists(id) /\ ~ended /\ UNCHANGED <<table, free, data, nsub, ext, ended, stamp>>
        /\ graph' = [graph EXCEPT ![At(id)].out = n, ![At(id)].learned = TRUE]
    BY DEF SetOutputNode, Called, NodeExists
  <1>1. PICK g \in Graphs : g = At(id) /\ g \in Mem(graph)
    BY <1>0, ListedGraph
  <1>2. PICK y \in GraphRec : y = graph[g]
    BY DEF GraphFuns, SessionInv, SessionTypes
  <1>3. PICK z : z = [y EXCEPT !.out = n, !.learned = TRUE]
    OBVIOUS
  <1>4. /\ z \in GraphRec /\ z.nodes = y.nodes /\ z.refs = y.refs /\ z.subs = y.subs
        /\ z.attached = y.attached /\ z.id = y.id /\ z.mutable = y.mutable
    BY <1>3 DEF GraphRec
  <1>5. graph' = [graph EXCEPT ![g] = z] /\ graph \in GraphFuns
    BY <1>0, <1>1, <1>2, <1>3 DEF SessionInv, SessionTypes
  <1>6. graph' \in GraphFuns /\ graph'[g] = z /\ \A k \in Graphs \ {g} : graph'[k] = graph[k]
    BY <1>4, <1>5 DEF GraphFuns
  <1>. QED
    BY <1>0, <1>1, <1>2, <1>4, <1>6, MarksInv

LEMMA SetNodeMutableInv ==
  ASSUME SessionInv, NEW id \in Ids, NEW n \in NodeIds, SetNodeMutable(id, n)
  PROVE  SessionInv'
  <1>0. /\ GraphExists(id) /\ ~ended /\ UNCHANGED <<table, free, data, nsub, ext, ended, stamp>>
        /\ graph' = NodeMutable(graph, At(id), n, TRUE)
    BY DEF SetNodeMutable, Called, NodeExists, NodeMutable
  <1>1. PICK g \in Graphs : g = At(id) /\ g \in Mem(graph)
    BY <1>0, ListedGraph
  <1>2. PICK b \in BOOLEAN : b = TRUE
    OBVIOUS
  <1>4. graph \in GraphFuns /\ graph' = NodeMutable(graph, g, n, b)
    BY <1>0, <1>1, <1>2 DEF SessionInv, SessionTypes
  <1>3. /\ graph' \in GraphFuns /\ \A k \in Graphs \ {g} : graph'[k] = graph[k]
        /\ \A m \in NodeIds : /\ graph'[g].nodes[m].uses = graph[g].nodes[m].uses
                              /\ graph'[g].nodes[m].stamp = graph[g].nodes[m].stamp
        /\ graph'[g].refs = graph[g].refs /\ graph'[g].subs = graph[g].subs
        /\ graph'[g].attached = graph[g].attached /\ graph'[g].id = graph[g].id
        /\ graph'[g].mutable = graph[g].mutable
    BY <1>4, SetMutableFields
  <1>. QED
    BY <1>0, <1>1, <1>3, MarksInv

LEMMA ChangeNodeInv ==
  ASSUME SessionInv, NEW id \in Ids, NEW n \in NodeIds, ChangeNode(id, n)
  PROVE  SessionInv'
  <1>0. /\ GraphExists(id) /\ ~ended /\ UNCHANGED <<table, free, nsub, ext, ended>>
        /\ stamp' = stamp + 1
        /\ graph' = [graph EXCEPT ![At(id)].nodes[n].stamp = stamp + 1]
        /\ data' = WithDatum(Invalidated(id, n), 0, id, n, stamp + 1)
    BY DEF ChangeNode, Called, NodeExists, WithDatum
  <1>1. PICK g \in Graphs : g = At(id) /\ g \in Mem(graph) /\ graph[g].id = id
    BY <1>0, ListedGraph
  <1>2. graph \in GraphFuns /\ graph[g].refs # 0 /\ data \in DataFuns
    BY <1>1 DEF SessionInv, SessionTypes, Mem, DataFuns
  <1>3. PICK k \in Nat : k = stamp + 1
    BY DEF SessionInv, SessionTypes
  <1>4. PICK y \in NodeRec : y = graph[g].nodes[n]
    BY <1>2 DEF GraphFuns, GraphRec
  <1>5. PICK x : x = [y EXCEPT !.stamp = k]
    OBVIOUS
  <1>6. x \in NodeRec /\ x.uses = y.uses /\ x.stamp = k
    BY <1>5 DEF NodeRec
  <1>7. graph' = WithNode(graph, g, n, x)
    BY <1>0, <1>1, <1>3, <1>4, <1>5 DEF WithNode
  <1>8. /\ graph' \in GraphFuns /\ \A j \in Graphs \ {g} : graph'[j] = graph[j]
        /\ graph'[g].nodes[n] = x
        /\ \A m \in NodeIds \ {n} : graph'[g].nodes[m] = graph[g].nodes[m]
        /\ graph'[g].refs = graph[g].refs /\ graph'[g].subs = graph[g].subs
        /\ graph'[g].attached = graph[g].attached /\ graph'[g].id = graph[g].id
        /\ graph'[g].mutable = graph[g].mutable
    BY <1>2, <1>6, <1>7, SetNodeFields
  <1>9. SameUses(graph, graph', Graphs)
    BY <1>4, <1>6, <1>8 DEF SameUses
  <1>10. Counted(graph, Refs, Uses)' /\ Acyclic(graph)'
    BY <1>0, <1>2, <1>8, <1>9, GraphKept
  <1>11. TableInv' /\ FreeInv'
    BY <1>0, <1>8, TableKept
  <1>12. /\ Invalidated(id, n) \in DataFuns
         /\ \A c \in Workers : Invalidated(id, n)[c][id][n] = None
         /\ \A c \in Contexts, i \in Ids, m \in NodeIds : i # id \/ m # n =>
              Invalidated(id, n)[c][i][m] = data[c][i][m]
    <2>1. \A c \in Contexts : data[c] \in [Ids -> [NodeIds -> Nat]]
      BY <1>2 DEF DataFuns
    <2>2. \A c \in Contexts : Invalidated(id, n)[c]
             = IF c \in Workers THEN [data[c] EXCEPT ![id][n] = None] ELSE data[c]
      BY DEF Invalidated
    <2>3. ASSUME NEW c \in Contexts
          PROVE  /\ Invalidated(id, n)[c] \in [Ids -> [NodeIds -> Nat]]
                 /\ c \in Workers => Invalidated(id, n)[c][id][n] = None
                 /\ \A i \in Ids, m \in NodeIds : i # id \/ m # n =>
                      Invalidated(id, n)[c][i][m] = data[c][i][m]
      <3>1. PICK d \in [Ids -> [NodeIds -> Nat]] : d = data[c]
        BY <2>1
      <3>2. PICK z : z = [d EXCEPT ![id][n] = None]
        OBVIOUS
      <3>3. /\ z \in [Ids -> [NodeIds -> Nat]] /\ z[id][n] = None
            /\ \A i \in Ids, m \in NodeIds : i # id \/ m # n => z[i][m] = d[i][m]
        BY <3>2 DEF None
      <3>4. Invalidated(id, n)[c] = IF c \in Workers THEN z ELSE d
        BY <2>2, <3>1, <3>2
      <3>. QED
        BY <3>1, <3>3, <3>4
    <2>5. Invalidated(id, n) \in DataFuns
      <3>1. Invalidated(id, n) = [c \in Contexts |-> Invalidated(id, n)[c]]
        BY DEF Invalidated
      <3>. QED
        BY <2>3, <3>1 DEF DataFuns
    <2>6. Workers \subseteq Contexts
      BY SessionAssumption DEF Workers, Contexts
    <2>. QED
      BY <2>3, <2>5, <2>6
  <1>13. /\ data' \in DataFuns /\ data'[0][id][n] = k
         /\ \A b \in Contexts, i \in Ids, m \in NodeIds : b # 0 \/ i # id \/ m # n =>
              data'[b][i][m] = Invalidated(id, n)[b][i][m]
    BY <1>0, <1>3, <1>12, ContextZero, SetDatumFields
  <1>14. DataFits'
    <2>1. data'[0][id][n] = StampAt(id, n)'
      BY <1>0, <1>1, <1>6, <1>8, <1>13 DEF StampAt, GraphExists, At
    <2>2. \A c \in Workers : data'[c][id][n] = None
      <3>1. \A c \in Workers : c \in Contexts /\ c # 0
        BY SessionAssumption DEF Workers, Contexts
      <3>. QED
        BY <1>12, <1>13, <3>1
    <2>3. \A c \in Contexts, i \in Ids, m \in NodeIds : i # id \/ m # n =>
            data'[c][i][m] = data[c][i][m]
      BY <1>12, <1>13
    <2>4. \A i \in Ids, m \in NodeIds : i # id \/ m # n =>
            (GraphExists(i) => graph'[At(i)].nodes[m].stamp = graph[At(i)].nodes[m].stamp)
      BY <1>1, <1>8, ListedGraph
    <2>. QED
      BY <1>0, <2>1, <2>2, <2>3, <2>4, DataOfOneNode
  <1>15. stamp' \in Nat
    BY <1>0, <1>3
  <1>. QED
    BY <1>0, <1>8, <1>10, <1>11, <1>13, <1>14, <1>15
       DEF SessionInv, SessionTypes, DataFuns, NothingLeft

-----------------------------------------------------------------------------
(* Contexts and evaluators *)

LEMMA SharedPoints ==
  ASSUME SessionInv, NEW id \in Ids, NEW c \in Workers
  PROVE  /\ Shared(data, id, c) \in DataFuns
         /\ \A b \in Contexts, i \in Ids, m \in NodeIds :
              Shared(data, id, c)[b][i][m] \in {data[b][i][m], data[0][i][m]}
  <1>0. data \in DataFuns /\ c \in Contexts
    BY ContextZero DEF SessionInv, SessionTypes, DataFuns
  <1>1. CASE Shared(data, id, c) = data
    BY <1>0, <1>1
  <1>2. CASE Shared(data, id, c) # data
    <2>1. PICK n : n = graph[At(id)].out
      OBVIOUS
    <2>2. GraphExists(id) /\ n # None /\ Shared(data, id, c) = WithDatum(data, c, id, n, data[0][id][n])
      BY <1>2, <2>1 DEF Shared, WithDatum
    <2>3. n \in NodeIds
      <3>1. At(id) \in Graphs
        BY <2>2, ListedGraph
      <3>. QED
        BY <2>1, <2>2, <3>1 DEF SessionInv, SessionTypes, GraphFuns, GraphRec
    <2>4. PICK v \in Nat : v = data[0][id][n]
      BY <1>0, <2>3, ContextZero DEF DataFuns
    <2>5. PICK d : d = WithDatum(data, c, id, n, v)
      OBVIOUS
    <2>6. /\ d \in DataFuns /\ d[c][id][n] = v
          /\ \A b \in Contexts, i \in Ids, m \in NodeIds : b # c \/ i # id \/ m # n =>
               d[b][i][m] = data[b][i][m]
      BY <1>0, <2>3, <2>5, SetDatumFields
    <2>7. Shared(data, id, c) = d
      BY <2>2, <2>4, <2>5
    <2>. QED
      BY <2>4, <2>6, <2>7
  <1>. QED
    BY <1>1, <1>2

\* Contexts take copies of the data of the main context.
LEMMA CopiesFit ==
  ASSUME SessionInv, UNCHANGED <<table, graph>>,
         \A b \in Contexts, i \in Ids, m \in NodeIds :
            data'[b][i][m] \in {data[b][i][m], data[0][i][m]}
  PROVE  DataFits'
  <1>1. \A id \in Ids, n \in NodeIds : StampAt(id, n)' = StampAt(id, n)
    BY DEF StampAt, GraphExists, At
  <1>2. ASSUME NEW id \in Ids, NEW n \in NodeIds, NEW c \in Contexts
        PROVE  data'[c][id][n] \in IF c = 0 THEN {StampAt(id, n)'} ELSE {StampAt(id, n)', None}
    <2>1. data[0][id][n] = StampAt(id, n)
      BY ContextZero, DataFitsStamps DEF SessionInv
    <2>2. data[c][id][n] \in IF c = 0 THEN {StampAt(id, n)} ELSE {StampAt(id, n), None}
      BY DataFitsStamps DEF SessionInv
    <2>3. data'[c][id][n] \in {data[c][id][n], data[0][id][n]}
      OBVIOUS
    <2>. QED
      BY <1>1, <2>1, <2>2, <2>3
  <1>. QED
    BY <1>2, DataFitsStampsNext

LEMMA SubcontextsType ==
  ASSUME SessionInv, NEW k \in Workers, Subcontexts(k)
  PROVE  nsub' \in Nat
  BY SessionAssumption DEF Subcontexts, SessionInv, SessionTypes, Workers

LEMMA ParallelCallInv ==
  ASSUME SessionInv, NEW id \in Ids, NEW k \in Workers, ParallelCall(id, k)
  PROVE  SessionInv'
  <1>0. /\ ~ended /\ data' = SharedTo(id, k) /\ Subcontexts(k)
        /\ UNCHANGED <<table, free, graph, ext, ended, stamp>>
    BY DEF ParallelCall, Called
  <1>1. /\ data' \in DataFuns
        /\ \A b \in Contexts, i \in Ids, m \in NodeIds :
              data'[b][i][m] \in {data[b][i][m], data[0][i][m]}
    <2>1. \A b \in Contexts : data'[b] = IF b \in 1 .. k THEN Shared(data, id, b)[b] ELSE data[b]
      BY <1>0 DEF SharedTo
    <2>2. \A b \in 1 .. k : b \in Workers
      BY SessionAssumption DEF Workers
    <2>3. data \in DataFuns
      BY DEF SessionInv, SessionTypes, DataFuns
    <2>4. ASSUME NEW b \in Contexts
          PROVE  /\ data'[b] \in [Ids -> [NodeIds -> Nat]]
                 /\ \A i \in Ids, m \in NodeIds : data'[b][i][m] \in {data[b][i][m], data[0][i][m]}
      <3>1. CASE b \in 1 .. k
        <4>1. PICK d \in DataFuns : d = Shared(data, id, b)
          BY <2>2, <3>1, SharedPoints
        <4>2. \A i \in Ids, m \in NodeIds : d[b][i][m] \in {data[b][i][m], data[0][i][m]}
          BY <2>2, <3>1, <4>1, SharedPoints
        <4>3. data'[b] = d[b]
          BY <2>1, <3>1, <4>1
        <4>. QED
          BY <4>1, <4>2, <4>3 DEF DataFuns
      <3>2. CASE b \notin 1 .. k
        BY <2>1, <2>3, <3>2 DEF DataFuns
      <3>. QED
        BY <3>1, <3>2
    <2>5. data' = [b \in Contexts |-> data'[b]]
      BY <1>0 DEF SharedTo
    <2>. QED
      BY <2>4, <2>5 DEF DataFuns
  <1>2. Counted(graph, Refs, Uses)' /\ Acyclic(graph)'
    BY <1>0, GraphKept DEF SessionInv, SessionTypes, SameUses
  <1>3. TableInv' /\ FreeInv'
    BY <1>0, TableKept
  <1>4. DataFits'
    BY <1>0, <1>1, CopiesFit
  <1>5. nsub' \in Nat
    BY <1>0, SubcontextsType
  <1>. QED
    BY <1>0, <1>1, <1>2, <1>3, <1>4, <1>5 DEF SessionInv, SessionTypes, DataFuns, NothingLeft

LEMMA EvaluateExtInv ==
  ASSUME SessionInv, NEW e \in Evaluators, NEW t \in Workers, EvaluateExt(e, t)
  PROVE  SessionInv'
  <1>0. /\ ~ended /\ ext[e] # NoEvaluator
        /\ UNCHANGED <<table, free, graph, nsub, ended, stamp>>
    BY DEF EvaluateExt, Called
  <1>1. PICK g \in Graphs : g = ext[e].graph
    BY <1>0 DEF SessionInv, SessionTypes, EvalRec
  <1>2. PICK i \in Ids : i = graph[g].id
    BY DEF SessionInv, SessionTypes, GraphFuns, GraphRec
  <1>3. /\ data' \in DataFuns
        /\ \A b \in Contexts, j \in Ids, m \in NodeIds :
              data'[b][j][m] \in {data[b][j][m], data[0][j][m]}
    <2>1. data' = data \/ data' = Shared(data, i, t)
      BY <1>1, <1>2 DEF EvaluateExt
    <2>2. data \in DataFuns
      BY DEF SessionInv, SessionTypes, DataFuns
    <2>. QED
      BY <2>1, <2>2, SharedPoints
  <1>4. /\ ext' \in [Evaluators -> EvalRec]
        /\ \A f \in Evaluators : ext'[f].graph = ext[f].graph
        /\ \A f \in Evaluators : ext'[f] # NoEvaluator => ext'[f].graph # None
    <2>1. PICK x \in EvalRec : x = ext[e]
      BY DEF SessionInv, SessionTypes
    <2>2. PICK S \in SUBSET Workers : S = x.synched \cup {t}
      BY DEF EvalRec
    <2>3. PICK y : y = [x EXCEPT !.synched = S]
      OBVIOUS
    <2>4. y \in EvalRec /\ y.graph = x.graph
      BY <2>3 DEF EvalRec
    <2>5. ext' = ext \/ ext' = [ext EXCEPT ![e] = y]
      BY <2>1, <2>2, <2>3 DEF EvaluateExt
    <2>6. ext \in [Evaluators -> EvalRec] /\ x.graph # None
          /\ \A f \in Evaluators : ext[f] # NoEvaluator => ext[f].graph # None
      BY <1>0, <2>1 DEF SessionInv, SessionTypes
    <2>. QED
      BY <2>1, <2>4, <2>5, <2>6
  <1>5. Counted(graph, Refs, Uses)' /\ Acyclic(graph)'
    BY <1>0, <1>4, GraphKept DEF SessionInv, SessionTypes, SameUses
  <1>6. TableInv' /\ FreeInv'
    BY <1>0, TableKept
  <1>7. DataFits'
    BY <1>0, <1>3, CopiesFit
  <1>. QED
    BY <1>0, <1>3, <1>4, <1>5, <1>6, <1>7 DEF SessionInv, SessionTypes, DataFuns, NothingLeft

LEMMA BeginExtInv ==
  ASSUME SessionInv, NEW e \in Evaluators, NEW id \in Ids, NEW k \in Workers,
         BeginExt(e, id, k)
  PROVE  SessionInv'
  <1>0. /\ ~ended /\ GraphExists(id) /\ ext[e] = NoEvaluator /\ Subcontexts(k)
        /\ ext' = [ext EXCEPT ![e] = [graph |-> At(id), threads |-> k, synched |-> {}]]
        /\ graph' = Taken(graph, At(id))
        /\ UNCHANGED <<table, free, data, ended, stamp>>
    BY DEF BeginExt, Called, CanBeEvaluated, Taken
  <1>1. PICK g \in Mem(graph) : g = At(id) /\ g \in Graphs /\ graph[g].attached
    BY <1>0, ListedGraph
  <1>2. graph \in GraphFuns /\ graph' = Taken(graph, g)
    BY <1>0, <1>1 DEF SessionInv, SessionTypes
  <1>3. /\ graph' \in GraphFuns /\ \A j \in Graphs \ {g} : graph'[j] = graph[j]
        /\ graph'[g].refs = graph[g].refs + 1 /\ graph'[g].subs = graph[g].subs + 1
        /\ ~graph'[g].mutable
        /\ graph'[g].attached = graph[g].attached /\ graph'[g].id = graph[g].id
        /\ graph'[g].nodes = graph[g].nodes
    BY <1>1, <1>2, TakenFields
  <1>4. SameUses(graph, graph', Graphs)
    BY <1>3 DEF SameUses
  <1>5. /\ ext' \in [Evaluators -> EvalRec] /\ ext[e].graph = None /\ ext'[e].graph = g
        /\ \A f \in Evaluators \ {e} : ext'[f].graph = ext[f].graph
        /\ \A f \in Evaluators : ext'[f] # NoEvaluator => ext'[f].graph # None
    <2>1. PICK y : y = [graph |-> g, threads |-> k, synched |-> {}]
      OBVIOUS
    <2>2. y \in EvalRec /\ y.graph = g /\ g # None
      BY <1>1, <2>1, GraphsFinite, SessionAssumption DEF EvalRec, Workers, None
    <2>3. ext' = [ext EXCEPT ![e] = y]
      BY <1>0, <1>1, <2>1
    <2>4. ext \in [Evaluators -> EvalRec]
          /\ \A f \in Evaluators : ext[f] # NoEvaluator => ext[f].graph # None
      BY DEF SessionInv, SessionTypes
    <2>5. ext[e].graph = None
      BY <1>0 DEF NoEvaluator
    <2>6. ext'[e] = y /\ \A f \in Evaluators \ {e} : ext'[f] = ext[f]
      BY <2>3, <2>4
    <2>. QED
      BY <2>2, <2>3, <2>4, <2>5, <2>6
  <1>6. Uses' = Plus(Uses, g) /\ Uses' \in Counts
    BY <1>1, <1>5, EvalsTake
  <1>7. Counted(graph', Plus(Refs, g), Plus(Uses, g)) /\ Mem(graph') = Mem(graph)
    <2>1. Counted(graph, Refs, Uses) /\ Refs \in Counts /\ Uses \in Counts
      BY RefsCounts DEF SessionInv
    <2>. QED
      BY <1>2, <1>3, <1>4, <2>1, TakeCounts
  <1>8. Refs' = Plus(Refs, g)
    <2>1. \A h \in Graphs : /\ Listing(graph', h) = Listing(graph, h)
                            /\ Listing(graph, h) \in Nat
      BY <1>3 DEF Listing
    <2>2. /\ Refs' = [h \in Graphs |-> Uses'[h] + Listing(graph', h)]
          /\ Plus(Refs, g) = [h \in Graphs |-> (Uses[h] + Listing(graph, h)) + Once(g)[h]]
      BY DEF Refs, Uses, Plus
    <2>3. \A h \in Graphs : /\ Uses'[h] = Uses[h] + Once(g)[h]
                            /\ Uses[h] \in Nat /\ Once(g)[h] \in Nat
      BY <1>6, RefsCounts, OnceCounts DEF Plus, Counts
    <2>. QED
      BY <2>1, <2>2, <2>3
  <1>9. Counted(graph, Refs, Uses)'
    BY <1>6, <1>7, <1>8
  <1>10. Acyclic(graph)'
    <2>1. \A h \in Mem(graph') : \A n \in NodeIds :
            graph'[h].nodes[n].uses \in {graph[h].nodes[n].uses, None}
      BY <1>4 DEF SameUses, Mem
    <2>. QED
      BY <1>7, <2>1, AcyclicLess DEF SessionInv
  <1>11. TableInv' /\ FreeInv'
    BY <1>0, <1>3, TableKept
  <1>12. DataFits'
    BY <1>0, <1>3, DataKept
  <1>13. nsub' \in Nat
    BY <1>0, SubcontextsType
  <1>. QED
    BY <1>0, <1>3, <1>5, <1>9, <1>10, <1>11, <1>12, <1>13
       DEF SessionInv, SessionTypes, NothingLeft

LEMMA EndExtInv ==
  ASSUME SessionInv, NEW e \in Evaluators, EndExt(e)
  PROVE  SessionInv'
  <1>0. /\ ~ended /\ ext[e] # NoEvaluator /\ ext' = [ext EXCEPT ![e] = NoEvaluator]
        /\ UNCHANGED <<table, free, nsub, ended, stamp>>
    BY DEF EndExt, Called
  <1>1. PICK g \in Graphs : g = ext[e].graph
    BY <1>0 DEF SessionInv, SessionTypes, EvalRec
  <1>2. PICK gone : gone = Destroyed(graph, Once(g))
    OBVIOUS
  <1>3. graph' = Drop(graph, Once(g), Once(g)) /\ data' = WithoutNodesOf(data, graph, gone)
    BY <1>1, <1>2 DEF EndExt
  <1>4. /\ ext' \in [Evaluators -> EvalRec] /\ ext'[e].graph = None
        /\ \A f \in Evaluators \ {e} : ext'[f].graph = ext[f].graph
        /\ \A f \in Evaluators : ext'[f] # NoEvaluator => ext'[f].graph # None
    <2>1. NoEvaluator \in EvalRec /\ NoEvaluator.graph = None
      BY DEF NoEvaluator, EvalRec, None
    <2>. QED
      BY <1>0, <2>1 DEF SessionInv, SessionTypes
  <1>5. /\ Uses' \in Counts
        /\ \A h \in Graphs : Uses[h] = Uses'[h] + Once(g)[h]
    BY <1>1, <1>4, EvalsDrop
  <1>6. /\ Refs \in Counts /\ Uses \in Counts /\ Once(g) \in Counts /\ graph \in GraphFuns
        /\ Counted(graph, Refs, Uses) /\ Acyclic(graph)
    BY RefsCounts, OnceCounts DEF SessionInv, SessionTypes
  <1>7. \A h \in Graphs : /\ Once(g)[h] <= Refs[h] /\ Once(g)[h] <= Uses[h]
                          /\ Refs[h] - Once(g)[h] = Uses'[h] + Listing(graph, h)
                          /\ Uses[h] - Once(g)[h] = Uses'[h]
    <2>1. \A h \in Graphs : /\ Refs[h] = Uses[h] + Listing(graph, h) /\ Uses[h] \in Nat
                            /\ Once(g)[h] \in Nat /\ Uses'[h] \in Nat /\ Listing(graph, h) \in Nat
      BY <1>5, <1>6, RefsCounts DEF Counts, Listing
    <2>. QED
      BY <1>5, <2>1
  <1>8. /\ graph' \in GraphFuns /\ Counted(graph, Refs, Uses)' /\ Acyclic(graph)'
        /\ \A h \in gone : ~graph[h].attached
        /\ \A h \in Graphs \ gone :
              /\ graph'[h].attached = graph[h].attached /\ graph'[h].id = graph[h].id
              /\ graph'[h].nodes = graph[h].nodes
        /\ \A h \in Graphs : graph'[h].attached = graph[h].attached
    BY <1>2, <1>3, <1>5, <1>6, <1>7, DropStep
  <1>9. data' = data
    BY <1>3, <1>8, WithoutNothing DEF SessionInv, SessionTypes, DataFuns
  <1>10. TableInv' /\ FreeInv'
    BY <1>0, <1>8, TableKept
  <1>11. DataFits'
    BY <1>0, <1>8, <1>9, DataKept
  <1>. QED
    BY <1>0, <1>4, <1>8, <1>9, <1>10, <1>11 DEF SessionInv, SessionTypes, NothingLeft

-----------------------------------------------------------------------------
(* Deleted nodes *)

LEMMA ErasedPoints ==
  ASSUME SessionInv, NEW id \in Ids, NEW n \in NodeIds
  PROVE  /\ Erased(id, n) \in DataFuns
         /\ \A c \in Contexts : Erased(id, n)[c][id][n] = None
         /\ \A c \in Contexts, i \in Ids, m \in NodeIds : i # id \/ m # n =>
              Erased(id, n)[c][i][m] = data[c][i][m]
  <1>1. \A c \in Contexts : Erased(id, n)[c] = [data[c] EXCEPT ![id][n] = None]
    BY DEF Erased
  <1>2. ASSUME NEW c \in Contexts
        PROVE  /\ Erased(id, n)[c] \in [Ids -> [NodeIds -> Nat]]
               /\ Erased(id, n)[c][id][n] = None
               /\ \A i \in Ids, m \in NodeIds : i # id \/ m # n =>
                    Erased(id, n)[c][i][m] = data[c][i][m]
    <2>1. PICK d \in [Ids -> [NodeIds -> Nat]] : d = data[c]
      BY DEF SessionInv, SessionTypes
    <2>2. PICK z : z = [d EXCEPT ![id][n] = None]
      OBVIOUS
    <2>3. /\ z \in [Ids -> [NodeIds -> Nat]] /\ z[id][n] = None
          /\ \A i \in Ids, m \in NodeIds : i # id \/ m # n => z[i][m] = d[i][m]
      BY <2>2 DEF None
    <2>. QED
      BY <1>1, <2>1, <2>2, <2>3
  <1>3. Erased(id, n) = [c \in Contexts |-> Erased(id, n)[c]]
    BY DEF Erased
  <1>. QED
    BY <1>2, <1>3 DEF DataFuns

\* The graphs after the node n of the graph at id is deleted
NodeGone(id, n) == [graph EXCEPT ![At(id)].nodes[n] = NoNode,
                                 ![At(id)].out = IF @ = n THEN None ELSE @]

LEMMA NodeGoneFields ==
  ASSUME SessionInv, NEW id \in Ids, NEW n \in NodeIds, NodeExists(id, n),
         NEW g, g = At(id), NEW gs, gs = NodeGone(id, n)
  PROVE  /\ g \in Mem(graph) /\ g \in Graphs /\ graph[g].attached /\ graph[g].id = id
         /\ gs \in GraphFuns /\ \A k \in Graphs \ {g} : gs[k] = graph[k]
         /\ gs[g].nodes[n] = NoNode
         /\ \A m \in NodeIds \ {n} : gs[g].nodes[m] = graph[g].nodes[m]
         /\ gs[g].refs = graph[g].refs /\ gs[g].subs = graph[g].subs
         /\ gs[g].attached = graph[g].attached /\ gs[g].id = graph[g].id
         /\ gs[g].mutable = graph[g].mutable
  <1>1. g \in Mem(graph) /\ g \in Graphs /\ graph[g].attached /\ graph[g].id = id
    BY ListedGraph DEF NodeExists
  <1>2. graph \in GraphFuns
    BY DEF SessionInv, SessionTypes
  <1>3. PICK y \in GraphRec : y = graph[g]
    BY <1>1, <1>2 DEF GraphFuns
  <1>4. PICK o \in NodeIds \cup {None} : o = IF y.out = n THEN None ELSE y.out
    BY DEF GraphRec
  <1>5. PICK z : z = [y EXCEPT !.nodes[n] = NoNode, !.out = o]
    OBVIOUS
  <1>6. /\ z.nodes = [y.nodes EXCEPT ![n] = NoNode]
        /\ z.refs = y.refs /\ z.subs = y.subs /\ z.attached = y.attached /\ z.id = y.id
        /\ z.mutable = y.mutable
    BY <1>5 DEF GraphRec
  <1>7. y.nodes \in [NodeIds -> NodeRec]
    BY DEF GraphRec
  <1>8. z \in GraphRec
    <2>1. PICK f \in [NodeIds -> NodeRec] : f = [y.nodes EXCEPT ![n] = NoNode]
      BY <1>7, NoNodeType
    <2>2. z = [y EXCEPT !.nodes = f, !.out = o]
      BY <1>5, <2>1 DEF GraphRec
    <2>. QED
      BY <2>2 DEF GraphRec
  <1>9. gs = [graph EXCEPT ![g] = z]
    BY <1>2, <1>3, <1>4, <1>5 DEF NodeGone
  <1>10. gs \in GraphFuns /\ gs[g] = z /\ \A k \in Graphs \ {g} : gs[k] = graph[k]
    BY <1>1, <1>2, <1>8, <1>9 DEF GraphFuns
  <1>11. z.nodes[n] = NoNode /\ \A m \in NodeIds \ {n} : z.nodes[m] = y.nodes[m]
    BY <1>6, <1>7
  <1>12. /\ gs[g].nodes[n] = NoNode
         /\ \A m \in NodeIds \ {n} : gs[g].nodes[m] = graph[g].nodes[m]
         /\ gs[g].refs = graph[g].refs /\ gs[g].subs = graph[g].subs
         /\ gs[g].attached = graph[g].attached /\ gs[g].id = graph[g].id
         /\ gs[g].mutable = graph[g].mutable
    BY <1>3, <1>6, <1>10, <1>11
  <1>. QED
    BY <1>1, <1>10, <1>12

LEMMA DeleteNodeInv ==
  ASSUME SessionInv, NEW id \in Ids, NEW n \in NodeIds, DeleteNode(id, n)
  PROVE  SessionInv'
  <1>0. /\ ~ended /\ NodeExists(id, n) /\ GraphExists(id)
        /\ UNCHANGED <<table, free, nsub, ext, ended, stamp>>
    BY DEF DeleteNode, Called, NodeExists
  <1>1. PICK g : g = At(id)
    OBVIOUS
  <1>2. PICK h : h = graph[g].nodes[n].uses
    OBVIOUS
  <1>3. PICK gs : gs = NodeGone(id, n)
    OBVIOUS
  <1>4. PICK gone : gone = IF h = None THEN {} ELSE Destroyed(gs, Once(h))
    OBVIOUS
  <1>5. /\ graph' = IF h = None THEN gs ELSE Drop(gs, Once(h), Once(h))
        /\ data' = WithoutNodesOf(Erased(id, n), gs, gone)
    BY <1>1, <1>2, <1>3, <1>4 DEF DeleteNode, NodeGone
  <1>6. /\ g \in Mem(graph) /\ g \in Graphs /\ graph[g].attached /\ graph[g].id = id
        /\ gs \in GraphFuns /\ \A k \in Graphs \ {g} : gs[k] = graph[k]
        /\ gs[g].nodes[n] = NoNode
        /\ \A m \in NodeIds \ {n} : gs[g].nodes[m] = graph[g].nodes[m]
        /\ gs[g].refs = graph[g].refs /\ gs[g].subs = graph[g].subs
        /\ gs[g].attached = graph[g].attached /\ gs[g].id = graph[g].id
        /\ gs[g].mutable = graph[g].mutable
    BY <1>0, <1>1, <1>3, NodeGoneFields
  <1>7. /\ h \in Graphs \cup {None} /\ gs[g].nodes[n].uses = None
        /\ graph \in GraphFuns /\ graph[g].refs # 0
    BY <1>2, <1>6 DEF SessionInv, SessionTypes, GraphFuns, GraphRec, NodeRec, NoNode, Mem
  <1>8. \A i \in Graphs : \A m \in NodeIds :
           (i # g \/ m # n) => gs[i].nodes[m].uses = graph[i].nodes[m].uses
    BY <1>6
  <1>9. /\ graph' \in GraphFuns /\ Counted(graph, Refs, Uses)' /\ Acyclic(graph)'
        /\ \A k \in gone : ~gs[k].attached
        /\ \A k \in Graphs \ gone :
              /\ graph'[k].attached = gs[k].attached /\ graph'[k].id = gs[k].id
              /\ graph'[k].nodes = gs[k].nodes
        /\ \A k \in Graphs : graph'[k].attached = gs[k].attached
    <2>1. CASE h = None
      <3>1. graph' = gs /\ gone = {}
        BY <1>4, <1>5, <2>1
      <3>2. SameUses(graph, graph', Graphs)
        BY <1>2, <1>7, <1>8, <2>1, <3>1 DEF SameUses
      <3>3. Counted(graph, Refs, Uses)' /\ Acyclic(graph)'
        BY <1>0, <1>6, <1>7, <3>1, <3>2, GraphKept
      <3>. QED
        BY <1>6, <3>1, <3>3
    <2>2. CASE h # None
      <3>1. h \in Graphs /\ graph' = Drop(gs, Once(h), Once(h)) /\ gone = Destroyed(gs, Once(h))
        BY <1>4, <1>5, <1>7, <2>2
      <3>2. /\ Refs \in Counts /\ Uses \in Counts /\ Once(h) \in Counts
            /\ Counted(graph, Refs, Uses) /\ Acyclic(graph)
            /\ Plus(Refs, h) \in Counts /\ Plus(Uses, h) \in Counts
        BY RefsCounts, OnceCounts, PlusCounts DEF SessionInv
      <3>3. Counted(gs, Plus(Refs, h), Plus(Uses, h)) /\ Mem(gs) = Mem(graph)
        <4>1. \A i \in Graphs : /\ graph[i].refs = gs[i].refs /\ graph[i].subs = gs[i].subs
                                /\ graph[i].mutable = gs[i].mutable
                                /\ i # g => graph[i] = gs[i]
          BY <1>6
        <4>2. g \in Mem(gs)
          BY <1>6 DEF Mem
        <4>. QED
          BY <1>2, <1>6, <1>7, <1>8, <3>1, <3>2, <4>1, <4>2, HoldCounts
      <3>4. Acyclic(gs)
        <4>1. \A k \in Mem(gs) : \A m \in NodeIds :
                gs[k].nodes[m].uses \in {graph[k].nodes[m].uses, None}
          BY <1>7, <1>8 DEF Mem
        <4>. QED
          BY <3>2, <3>3, <4>1, AcyclicLess
      <3>5. Uses' = Uses
        BY <1>0, EvalsSame
      <3>6. \A k \in Graphs : /\ Once(h)[k] <= Plus(Refs, h)[k] /\ Once(h)[k] <= Plus(Uses, h)[k]
                              /\ Plus(Refs, h)[k] - Once(h)[k] = Uses'[k] + Listing(gs, k)
                              /\ Plus(Uses, h)[k] - Once(h)[k] = Uses'[k]
        <4>1. \A k \in Graphs : /\ Plus(Refs, h)[k] = Refs[k] + Once(h)[k]
                                /\ Plus(Uses, h)[k] = Uses[k] + Once(h)[k]
          BY <3>2, PlusCounts
        <4>2. \A k \in Graphs : /\ Refs[k] = Uses[k] + Listing(graph, k) /\ Refs[k] \in Nat
                                /\ Uses[k] \in Nat /\ Once(h)[k] \in Nat
                                /\ Listing(gs, k) = Listing(graph, k)
          BY <1>6, <3>2, RefsCounts DEF Counts, Listing
        <4>. QED
          BY <3>5, <4>1, <4>2
      <3>. QED
        BY <1>6, <3>1, <3>2, <3>3, <3>4, <3>5, <3>6, DropStep
    <2>. QED
      BY <2>1, <2>2
  <1>10. data' = Erased(id, n)
    BY <1>5, <1>9, ErasedPoints, WithoutNothing
  <1>11. TableInv' /\ FreeInv'
    <2>1. \A k \in Graphs : /\ graph'[k].attached = graph[k].attached
                            /\ graph[k].attached => graph'[k].id = graph[k].id
      BY <1>6, <1>9
    <2>. QED
      BY <1>0, <2>1, TableKept
  <1>12. DataFits'
    <2>1. g \notin gone /\ graph'[g].nodes = gs[g].nodes
      BY <1>6, <1>9
    <2>2. data'[0][id][n] = StampAt(id, n)'
      <3>1. data'[0][id][n] = None
        BY <1>10, ContextZero, ErasedPoints
      <3>2. graph'[g].nodes[n].stamp = None
        BY <1>6, <2>1 DEF NoNode
      <3>3. StampAt(id, n)' = graph'[g].nodes[n].stamp
        BY <1>0, <1>1 DEF StampAt, GraphExists, At
      <3>. QED
        BY <3>1, <3>2, <3>3
    <2>3. \A c \in Workers : data'[c][id][n] = None
      BY <1>10, ContextZero, ErasedPoints
    <2>4. \A c \in Contexts, i \in Ids, m \in NodeIds : i # id \/ m # n =>
            data'[c][i][m] = data[c][i][m]
      BY <1>10, ErasedPoints
    <2>5. ASSUME NEW i \in Ids, NEW m \in NodeIds, i # id \/ m # n, GraphExists(i)
          PROVE  graph'[At(i)].nodes[m].stamp = graph[At(i)].nodes[m].stamp
      <3>1. At(i) \in Graphs /\ graph[At(i)].attached /\ graph[At(i)].id = i
        BY <2>5, ListedGraph
      <3>2. gs[At(i)].attached /\ At(i) \notin gone /\ graph'[At(i)].nodes = gs[At(i)].nodes
        BY <1>6, <1>9, <3>1
      <3>3. At(i) # g \/ m # n
        BY <1>6, <2>5, <3>1
      <3>. QED
        BY <1>6, <3>1, <3>2, <3>3
    <2>. QED
      BY <1>0, <2>2, <2>3, <2>4, <2>5, DataOfOneNode
  <1>. QED
    BY <1>0, <1>9, <1>10, <1>11, <1>12, ErasedPoints
       DEF SessionInv, SessionTypes, DataFuns, NothingLeft

-----------------------------------------------------------------------------
(* New subgraph nodes *)

LEMMA InUseFields ==
  ASSUME SessionInv, NEW h \in Mem(graph), NEW gs, gs = InUse(h)
  PROVE  /\ h \in Graphs /\ graph \in GraphFuns
         /\ gs \in GraphFuns /\ \A k \in Graphs \ {h} : gs[k] = graph[k]
         /\ gs[h].refs = graph[h].refs + 1 /\ gs[h].subs = graph[h].subs + 1
         /\ ~gs[h].mutable
         /\ gs[h].attached = graph[h].attached /\ gs[h].id = graph[h].id
         /\ \A k \in Graphs, m \in NodeIds :
              /\ gs[k].nodes[m].uses = graph[k].nodes[m].uses
              /\ gs[k].nodes[m].stamp = graph[k].nodes[m].stamp
  <1>1. h \in Graphs /\ graph \in GraphFuns
    BY DEF Mem, SessionInv, SessionTypes
  <1>2. PICK hs : hs = Taken(graph, h)
    OBVIOUS
  <1>3. /\ hs \in GraphFuns /\ \A k \in Graphs \ {h} : hs[k] = graph[k]
        /\ hs[h].refs = graph[h].refs + 1 /\ hs[h].subs = graph[h].subs + 1
        /\ hs[h].mutable = FALSE
        /\ hs[h].attached = graph[h].attached /\ hs[h].id = graph[h].id
        /\ hs[h].nodes = graph[h].nodes
    BY <1>1, <1>2, TakenFields
  <1>4. CASE graph[h].out = None
    <2>1. gs = hs
      BY <1>2, <1>4 DEF InUse, Taken
    <2>. QED
      BY <1>1, <1>3, <2>1
  <1>5. CASE graph[h].out # None
    <2>1. PICK n \in NodeIds : n = graph[h].out
      BY <1>1, <1>5 DEF GraphFuns, GraphRec
    <2>2. PICK b \in BOOLEAN : b = FALSE
      OBVIOUS
    <2>3. gs = NodeMutable(hs, h, n, b)
      BY <1>2, <1>5, <2>1, <2>2 DEF InUse, Taken, NodeMutable
    <2>4. /\ gs \in GraphFuns /\ \A k \in Graphs \ {h} : gs[k] = hs[k]
          /\ \A m \in NodeIds : /\ gs[h].nodes[m].uses = hs[h].nodes[m].uses
                                /\ gs[h].nodes[m].stamp = hs[h].nodes[m].stamp
          /\ gs[h].refs = hs[h].refs /\ gs[h].subs = hs[h].subs
          /\ gs[h].attached = hs[h].attached /\ gs[h].id = hs[h].id
          /\ gs[h].mutable = hs[h].mutable
      BY <1>1, <1>3, <2>3, SetMutableFields
    <2>. QED
      BY <1>1, <1>3, <2>4
  <1>. QED
    BY <1>4, <1>5

LEMMA InUseCounts ==
  ASSUME SessionInv, NEW h \in Mem(graph), NEW gs, gs = InUse(h)
  PROVE  /\ Counted(gs, Plus(Refs, h), Plus(Uses, h)) /\ Mem(gs) = Mem(graph)
         /\ Acyclic(gs)
  <1>1. /\ Counted(graph, Refs, Uses) /\ Refs \in Counts /\ Uses \in Counts /\ Acyclic(graph)
    BY RefsCounts DEF SessionInv
  <1>2. SameUses(graph, gs, Graphs)
    BY InUseFields DEF SameUses
  <1>3. Counted(gs, Plus(Refs, h), Plus(Uses, h)) /\ Mem(gs) = Mem(graph)
    BY <1>1, <1>2, InUseFields, TakeCounts
  <1>4. \A k \in Mem(gs) : \A m \in NodeIds :
          gs[k].nodes[m].uses \in {graph[k].nodes[m].uses, None}
    BY <1>2 DEF SameUses, Mem
  <1>. QED
    BY <1>1, <1>3, <1>4, AcyclicLess

\* The graph does not accept the node.
LEMMA NodeRefusedInv ==
  ASSUME SessionInv, ~ended, NEW h \in Mem(graph),
         UNCHANGED <<table, free, data, nsub, ext, ended, stamp>>,
         graph' = Drop(InUse(h), Once(h), Once(h))
  PROVE  SessionInv'
  <1>1. PICK gs : gs = InUse(h)
    OBVIOUS
  <1>2. PICK gone : gone = Destroyed(gs, Once(h))
    OBVIOUS
  <1>3. /\ h \in Graphs /\ gs \in GraphFuns /\ \A k \in Graphs \ {h} : gs[k] = graph[k]
        /\ gs[h].attached = graph[h].attached /\ gs[h].id = graph[h].id
        /\ \A k \in Graphs, m \in NodeIds : gs[k].nodes[m].stamp = graph[k].nodes[m].stamp
    BY <1>1, InUseFields
  <1>4. /\ Counted(gs, Plus(Refs, h), Plus(Uses, h)) /\ Acyclic(gs)
        /\ Plus(Refs, h) \in Counts /\ Plus(Uses, h) \in Counts /\ Once(h) \in Counts
        /\ Uses' = Uses /\ Uses' \in Counts
    BY <1>1, InUseCounts, RefsCounts, PlusCounts, OnceCounts, EvalsSame
  <1>5. \A k \in Graphs : /\ Once(h)[k] <= Plus(Refs, h)[k] /\ Once(h)[k] <= Plus(Uses, h)[k]
                          /\ Plus(Refs, h)[k] - Once(h)[k] = Uses'[k] + Listing(gs, k)
                          /\ Plus(Uses, h)[k] - Once(h)[k] = Uses'[k]
    <2>1. \A k \in Graphs : /\ Plus(Refs, h)[k] = Refs[k] + Once(h)[k]
                            /\ Plus(Uses, h)[k] = Uses[k] + Once(h)[k]
      BY RefsCounts, PlusCounts
    <2>2. \A k \in Graphs : /\ Refs[k] = Uses[k] + Listing(graph, k) /\ Refs[k] \in Nat
                            /\ Uses[k] \in Nat /\ Once(h)[k] \in Nat
                            /\ Listing(gs, k) = Listing(graph, k)
      BY <1>3, RefsCounts, OnceCounts DEF Counts, Listing
    <2>. QED
      BY <1>4, <2>1, <2>2
  <1>6. /\ graph' \in GraphFuns /\ Counted(graph, Refs, Uses)' /\ Acyclic(graph)'
        /\ \A k \in gone : ~gs[k].attached
        /\ \A k \in Graphs \ gone :
              /\ graph'[k].attached = gs[k].attached /\ graph'[k].id = gs[k].id
              /\ graph'[k].nodes = gs[k].nodes
        /\ \A k \in Graphs : graph'[k].attached = gs[k].attached
    BY <1>1, <1>2, <1>3, <1>4, <1>5, DropStep
  <1>7. \A k \in Graphs : /\ graph'[k].attached = graph[k].attached
                          /\ graph[k].attached =>
                               /\ graph'[k].id = graph[k].id
                               /\ \A m \in NodeIds :
                                    graph'[k].nodes[m].stamp = graph[k].nodes[m].stamp
    BY <1>3, <1>6
  <1>8. TableInv' /\ FreeInv' /\ DataFits'
    BY <1>7, TableKept, DataKept
  <1>. QED
    BY <1>6, <1>8 DEF SessionInv, SessionTypes, NothingLeft

\* A graph that accepts nodes is used by no graph, and does not use itself.
LEMMA NodeAcceptedInv ==
  ASSUME SessionInv, ~ended, NEW id \in Ids, NEW n \in NodeIds, NEW id2 \in Ids,
         GraphExists(id), GraphExists(id2), ~NodeExists(id, n),
         NEW h, h = At(id2), InUse(h)[At(id)].mutable, AddNode(InUse(h), id, n, h),
         UNCHANGED <<table, free, nsub, ext, ended>>
  PROVE  SessionInv'
  <1>1. h \in Mem(graph) /\ h \in Graphs /\ h # None
    BY ListedGraph, GraphsFinite DEF None
  <1>2. PICK gs : gs = InUse(h)
    OBVIOUS
  <1>3. PICK g \in Graphs : g = At(id) /\ g \in Mem(graph) /\ graph[g].attached /\ graph[g].id = id
    BY ListedGraph
  <1>4. /\ gs \in GraphFuns /\ graph \in GraphFuns /\ \A k \in Graphs \ {h} : gs[k] = graph[k]
        /\ ~gs[h].mutable
        /\ gs[h].attached = graph[h].attached /\ gs[h].id = graph[h].id
        /\ \A k \in Graphs, m \in NodeIds :
              /\ gs[k].nodes[m].uses = graph[k].nodes[m].uses
              /\ gs[k].nodes[m].stamp = graph[k].nodes[m].stamp
    BY <1>1, <1>2, InUseFields
  <1>5. /\ Counted(gs, Plus(Refs, h), Plus(Uses, h)) /\ Mem(gs) = Mem(graph)
        /\ Refs \in Counts /\ Uses \in Counts
    BY <1>1, <1>2, InUseCounts, RefsCounts
  <1>6. g # h /\ gs[g] = graph[g] /\ graph[g].mutable
    BY <1>2, <1>3, <1>4
  <1>7. PICK x : x = [NoNode EXCEPT !.stamp = stamp + 1, !.uses = h]
    OBVIOUS
  <1>8. x \in NodeRec /\ x.uses = h /\ x.stamp = stamp + 1
    <2>1. PICK k \in Nat : k = stamp + 1
      BY DEF SessionInv, SessionTypes
    <2>. QED
      BY <1>1, <1>7, <2>1 DEF NoNode, NodeRec
  <1>9. graph' = WithNode(gs, g, n, x)
    BY <1>2, <1>3, <1>7 DEF AddNode, WithNode
  <1>10. /\ graph' \in GraphFuns /\ \A k \in Graphs \ {g} : graph'[k] = gs[k]
         /\ graph'[g].nodes[n] = x
         /\ \A m \in NodeIds \ {n} : graph'[g].nodes[m] = gs[g].nodes[m]
         /\ graph'[g].refs = gs[g].refs /\ graph'[g].subs = gs[g].subs
         /\ graph'[g].attached = gs[g].attached /\ graph'[g].id = gs[g].id
         /\ graph'[g].mutable = gs[g].mutable
    BY <1>4, <1>8, <1>9, SetNodeFields
  <1>11. gs[g].nodes[n].uses = None
    BY <1>3, <1>6 DEF NodeExists, NoNode
  <1>12. \A i \in Graphs : \A m \in NodeIds :
           (i # g \/ m # n) => gs[i].nodes[m].uses = graph'[i].nodes[m].uses
    BY <1>10
  <1>13. Counted(graph', Refs, Uses) /\ Mem(graph') = Mem(graph)
    <2>1. \A i \in Graphs : /\ graph'[i].refs = gs[i].refs /\ graph'[i].subs = gs[i].subs
                            /\ graph'[i].mutable = gs[i].mutable
                            /\ i # g => graph'[i] = gs[i]
      BY <1>10
    <2>2. g \in Mem(gs) /\ graph'[g].nodes[n].uses = h
      BY <1>3, <1>5, <1>8, <1>10
    <2>. QED
      BY <1>1, <1>4, <1>5, <1>10, <1>11, <1>12, <2>1, <2>2, HoldCounts
  <1>14. Refs' = Refs /\ Uses' = Uses
    <2>1. Uses' = Uses
      BY EvalsSame
    <2>2. \A k \in Graphs : Listing(graph', k) = Listing(graph, k)
      BY <1>4, <1>10 DEF Listing
    <2>3. Refs' = [k \in Graphs |-> Uses'[k] + Listing(graph', k)]
          /\ Refs = [k \in Graphs |-> Uses[k] + Listing(graph, k)]
      BY DEF Refs, Uses
    <2>. QED
      BY <2>1, <2>2, <2>3
  <1>15. Acyclic(graph')
    <2>1. Holders(graph, Mem(graph), g) = 0
      <3>1. /\ graph[g].subs = Holders(graph, Mem(graph), g) + Uses[g]
            /\ graph[g].subs > 0 => ~graph[g].mutable
        BY DEF SessionInv, Counted
      <3>2. ~(graph[g].subs > 0) /\ graph[g].subs \in Nat
        BY <1>4, <1>6, <3>1 DEF GraphFuns, GraphRec
      <3>3. Holders(graph, Mem(graph), g) \in Nat /\ Uses[g] \in Nat
        BY <1>5, HeldByFinite DEF Mem, Counts
      <3>. QED
        BY <3>1, <3>2, <3>3
    <2>2. Mem(graph) \in SUBSET Graphs
      BY DEF Mem
    <2>3. \A k \in Mem(graph) : \A m \in NodeIds : graph[k].nodes[m].uses # g
      BY <2>1, <2>2, HoldersNone
    <2>4. \A k \in Mem(graph') : \A m \in NodeIds : graph'[k].nodes[m].uses # g
      BY <1>4, <1>6, <1>8, <1>10, <1>12, <1>13, <2>2, <2>3
    <2>5. \A k \in Mem(graph') \ {g} : \A m \in NodeIds :
            graph'[k].nodes[m].uses = graph[k].nodes[m].uses
      BY <1>4, <1>12, <1>13, <2>2
    <2>6. Acyclic(graph) /\ Mem(graph') \subseteq Mem(graph) \cup {g}
      BY <1>13 DEF SessionInv
    <2>. QED
      BY <2>4, <2>5, <2>6, AcyclicMore
  <1>16. TableInv' /\ FreeInv'
    BY <1>4, <1>10, TableKept
  <1>17. DataFits' /\ data' \in DataFuns
    <2>1. data' = WithDatum(data, 0, id, n, stamp + 1)
      BY DEF AddNode, WithDatum
    <2>2. graph'[At(id)].nodes[n].stamp = stamp + 1
      BY <1>3, <1>8, <1>10
    <2>3. \A i \in Ids, m \in NodeIds : i # id \/ m # n =>
            (GraphExists(i) => graph'[At(i)].nodes[m].stamp = graph[At(i)].nodes[m].stamp)
      <3> SUFFICES ASSUME NEW i \in Ids, NEW m \in NodeIds, i # id \/ m # n, GraphExists(i)
                   PROVE  graph'[At(i)].nodes[m].stamp = graph[At(i)].nodes[m].stamp
        OBVIOUS
      <3>1. At(i) \in Graphs /\ graph[At(i)].id = i
        BY ListedGraph
      <3>2. At(i) # g \/ m # n
        BY <1>3, <3>1
      <3>3. graph'[At(i)].nodes[m] = gs[At(i)].nodes[m]
        BY <1>10, <3>1, <3>2
      <3>. QED
        BY <1>4, <3>1, <3>3
    <2>. QED
      BY <2>1, <2>2, <2>3, DataOfNewNode
  <1>18. stamp' \in Nat
    BY DEF AddNode, SessionInv, SessionTypes
  <1>. QED
    BY <1>10, <1>13, <1>14, <1>15, <1>16, <1>17, <1>18
       DEF SessionInv, SessionTypes, DataFuns, NothingLeft

LEMMA NewSubgraphNodeInv ==
  ASSUME SessionInv, NEW id \in Ids, NEW n \in NodeIds, NEW id2 \in Ids,
         NewSubgraphNode(id, n, id2)
  PROVE  SessionInv'
  <1>1. PICK h : h = At(id2)
    OBVIOUS
  <1>2. /\ ~ended /\ GraphExists(id) /\ GraphExists(id2) /\ ~NodeExists(id, n)
        /\ UNCHANGED <<table, free, nsub, ext, ended>>
    BY DEF NewSubgraphNode, Called
  <1>3. CASE InUse(h)[At(id)].mutable
    <2>1. AddNode(InUse(h), id, n, h)
      BY <1>1, <1>3 DEF NewSubgraphNode
    <2>. QED
      BY <1>1, <1>2, <1>3, <2>1, NodeAcceptedInv
  <1>4. CASE ~InUse(h)[At(id)].mutable
    <2>1. graph' = Drop(InUse(h), Once(h), Once(h)) /\ UNCHANGED <<data, stamp>>
      BY <1>1, <1>4 DEF NewSubgraphNode
    <2>2. h \in Mem(graph)
      BY <1>1, <1>2, ListedGraph
    <2>. QED
      BY <1>2, <2>1, <2>2, NodeRefusedInv
  <1>. QED
    BY <1>3, <1>4

-----------------------------------------------------------------------------
(* The table *)

\* A graph that is listed nowhere takes an id that is not in use.
LEMMA ListedMore ==
  ASSUME SessionInv, NEW g \in Graphs, ~graph[g].attached, NEW id \in Ids, ~GraphExists(id),
         \A i \in Ids : /\ (GraphExists(i))' <=> i = id \/ GraphExists(i)
                        /\ (GraphExists(i))' => (At(i))' = IF i = id THEN g ELSE At(i),
         graph'[g].attached, graph'[g].id = id,
         \A k \in Graphs \ {g} : graph'[k] = graph[k], graph' \in GraphFuns
  PROVE  TableInv'
  <1>1. ASSUME NEW i \in Ids, (GraphExists(i))'
        PROVE  graph'[(At(i))'].attached /\ graph'[(At(i))'].id = i
    <2>1. CASE i = id
      BY <2>1
    <2>2. CASE i # id
      <3>1. GraphExists(i) /\ (At(i))' = At(i)
        BY <1>1, <2>2
      <3>2. At(i) \in Graphs /\ graph[At(i)].attached /\ graph[At(i)].id = i
        BY <3>1, ListedGraph
      <3>3. graph'[At(i)] = graph[At(i)]
        BY <3>2
      <3>. QED
        BY <3>1, <3>2, <3>3
    <2>. QED
      BY <2>1, <2>2
  <1>2. ASSUME NEW k \in Graphs, graph'[k].attached
        PROVE  (GraphExists(graph[k].id))' /\ (At(graph[k].id))' = k
    <2>1. PICK i \in Ids : i = graph'[k].id
      BY DEF GraphFuns, GraphRec
    <2>2. (GraphExists(i))' /\ (At(i))' = k
      <3>1. CASE k = g
        BY <2>1, <3>1
      <3>2. CASE k # g
        <4>1. graph[k].attached /\ graph[k].id = i
          BY <1>2, <2>1, <3>2
        <4>2. GraphExists(i) /\ At(i) = k
          BY <4>1 DEF SessionInv, TableInv
        <4>. QED
          BY <4>2
      <3>. QED
        BY <3>1, <3>2
    <2>. QED
      BY <2>1, <2>2 DEF GraphExists, At
  <1>. QED
    BY <1>1, <1>2 DEF TableInv

\* An id is taken off the table.
LEMMA ListedLess ==
  ASSUME SessionInv, NEW id \in Ids, GraphExists(id),
         \A i \in Ids : /\ (GraphExists(i))' <=> i # id /\ GraphExists(i)
                        /\ i # id /\ GraphExists(i) => (At(i))' = At(i),
         ~graph'[At(id)].attached, graph' \in GraphFuns,
         \A k \in Graphs : /\ graph'[k].attached => graph[k].attached
                           /\ graph[k].attached /\ k # At(id) =>
                                graph'[k].attached /\ graph'[k].id = graph[k].id
  PROVE  TableInv'
  <1>1. ASSUME NEW i \in Ids, (GraphExists(i))'
        PROVE  graph'[(At(i))'].attached /\ graph'[(At(i))'].id = i
    <2>1. GraphExists(i) /\ (At(i))' = At(i) /\ i # id
      BY <1>1
    <2>2. At(i) \in Graphs /\ graph[At(i)].attached /\ graph[At(i)].id = i /\ graph[At(id)].id = id
      BY <2>1, ListedGraph
    <2>. QED
      BY <2>1, <2>2
  <1>2. ASSUME NEW k \in Graphs, graph'[k].attached
        PROVE  (GraphExists(graph[k].id))' /\ (At(graph[k].id))' = k
    <2>1. graph[k].attached /\ k # At(id) /\ graph'[k].id = graph[k].id
      BY <1>2
    <2>2. PICK i \in Ids : i = graph'[k].id
      BY DEF GraphFuns, GraphRec
    <2>3. GraphExists(i) /\ At(i) = k
      BY <2>1, <2>2 DEF SessionInv, TableInv
    <2>4. (GraphExists(i))' /\ (At(i))' = k
      BY <2>1, <2>3
    <2>. QED
      BY <2>2, <2>4 DEF GraphExists, At
  <1>. QED
    BY <1>1, <1>2 DEF TableInv

LEMMA NewGraphFields ==
  ASSUME NEW id \in Ids
  PROVE  /\ NewGraphAt(id) \in GraphRec
         /\ NewGraphAt(id).refs = 1 /\ NewGraphAt(id).subs = 0 /\ NewGraphAt(id).attached
         /\ NewGraphAt(id).id = id
         /\ \A n \in NodeIds : NewGraphAt(id).nodes[n] = NoNode
  <1>1. PICK y \in GraphRec : y = Freed
    BY FreedType
  <1>2. PICK z : z = [y EXCEPT !.refs = 1, !.attached = TRUE, !.id = id]
    OBVIOUS
  <1>3. /\ z \in GraphRec /\ z.refs = 1 /\ z.subs = y.subs /\ z.attached /\ z.id = id
        /\ z.nodes = y.nodes
    BY <1>2 DEF GraphRec
  <1>4. z = NewGraphAt(id)
    BY <1>1, <1>2 DEF NewGraphAt
  <1>. QED
    BY <1>1, <1>3, <1>4, FreedFields

\* The id that a new graph takes: one that was freed, or the next
TakesId(g, id) ==
  IF free # <<>>
  THEN id = Last(free) /\ table' = [table EXCEPT ![id + 1] = g] /\ free' = Front(free)
  ELSE id = Len(table) /\ table' = Append(table, g) /\ free' = free

LEMMA NewIdTable ==
  ASSUME SessionInv, NEW g \in Graphs, NEW id \in Ids, TakesId(g, id)
  PROVE  /\ ~GraphExists(id)
         /\ table' \in Seq(Graphs \cup {None}) /\ Len(table') <= MaxGraphs
         /\ free' \in Seq(Ids)
         /\ \A i \in Ids : /\ (GraphExists(i))' <=> i = id \/ GraphExists(i)
                           /\ (GraphExists(i))' => (At(i))' = IF i = id THEN g ELSE At(i)
         /\ FreeInv'
  <1>0. /\ table \in Seq(Graphs \cup {None}) /\ Len(table) <= MaxGraphs /\ free \in Seq(Ids)
        /\ Len(table) \in Nat /\ Len(free) \in Nat /\ id \in Nat /\ id + 1 <= MaxGraphs
        /\ MaxGraphs \in Nat /\ g # None
        /\ \A i \in Ids : i \in Nat /\ i < MaxGraphs
    BY SessionAssumption, GraphsFinite DEF SessionInv, SessionTypes, Ids, None
  <1>1. CASE free # <<>>
    <2>1. /\ Len(free) >= 1 /\ id = free[Len(free)] /\ id < Len(table) /\ ~GraphExists(id)
          /\ free' = SubSeq(free, 1, Len(free) - 1) /\ table' = [table EXCEPT ![id + 1] = g]
      <3>1. Len(free) >= 1
        BY <1>0, <1>1
      <3>2. id = free[Len(free)]
        BY <1>1 DEF Last, TakesId
      <3>. QED
        BY <1>0, <1>1, <3>1, <3>2 DEF SessionInv, FreeInv, Front, TakesId
    <2>2. /\ table' \in Seq(Graphs \cup {None}) /\ Len(table') = Len(table)
          /\ table'[id + 1] = g
          /\ \A j \in 1 .. Len(table) : j # id + 1 => table'[j] = table[j]
      BY <1>0, <2>1
    <2>3. /\ free' \in Seq(Ids) /\ Len(free') = Len(free) - 1
          /\ \A k \in 1 .. Len(free) - 1 : free'[k] = free[k]
      <3>1. PICK k \in Int : k = Len(free) - 1
        BY <1>0
      <3>2. free' = SubSeq(free, 1, k) /\ \A l \in 1 .. k : free[l] \in Ids
        BY <1>0, <2>1, <3>1
      <3>3. /\ SubSeq(free, 1, k) \in Seq(Ids)
            /\ Len(SubSeq(free, 1, k)) = IF 1 <= k THEN k - 1 + 1 ELSE 0
            /\ \A l \in 1 .. k - 1 + 1 : SubSeq(free, 1, k)[l] = free[1 + l - 1]
        BY <3>2, SubSeqProperties
      <3>4. \A l \in 1 .. k : l \in 1 .. k - 1 + 1 /\ 1 + l - 1 = l
        BY <3>1
      <3>. QED
        BY <1>0, <2>1, <3>1, <3>2, <3>3, <3>4
    <2>4. \A i \in Ids :
                 /\ (GraphExists(i))' <=> i = id \/ GraphExists(i)
                 /\ (GraphExists(i))' => (At(i))' = IF i = id THEN g ELSE At(i)
      <3> SUFFICES ASSUME NEW i \in Ids
                   PROVE  /\ (GraphExists(i))' <=> i = id \/ GraphExists(i)
                          /\ (GraphExists(i))' => (At(i))' = IF i = id THEN g ELSE At(i)
        OBVIOUS
      <3>1. CASE i < Len(table)
        <4>1. i + 1 \in 1 .. Len(table) /\ (i # id => i + 1 # id + 1)
          BY <1>0, <3>1
        <4>. QED
          BY <1>0, <2>2, <3>1, <4>1 DEF GraphExists, At
      <3>2. CASE ~(i < Len(table))
        BY <1>0, <2>1, <2>2, <3>2 DEF GraphExists
      <3>. QED
        BY <3>1, <3>2
    <2>6. FreeInv'
      <3>1. ASSUME NEW k \in 1 .. Len(free')
            PROVE  free'[k] < Len(table') /\ ~(GraphExists(free[k]))'
        <4>0. PICK i : i = free[k]
          OBVIOUS
        <4>1. k \in 1 .. Len(free) /\ k # Len(free) /\ Len(free) \in 1 .. Len(free)
              /\ free'[k] = free[k]
          <5>1. PICK l \in Nat : l = Len(free) /\ l >= 1
            BY <1>0, <2>1
          <5>2. k \in 1 .. l - 1 /\ \A j \in 1 .. l - 1 : free'[j] = free[j]
            BY <2>3, <5>1
          <5>3. k \in 1 .. l /\ k # l /\ l \in 1 .. l
            BY <5>1, <5>2
          <5>. QED
            BY <5>1, <5>2, <5>3
        <4>2. free[k] < Len(table) /\ ~GraphExists(free[k]) /\ free[k] # id /\ free[k] \in Ids
          BY <1>0, <2>1, <4>1 DEF SessionInv, FreeInv
        <4>3. i \in Ids /\ ~(GraphExists(i))' /\ free'[k] = i
          BY <2>4, <4>0, <4>1, <4>2
        <4>. QED
          BY <2>2, <4>0, <4>2, <4>3 DEF GraphExists
      <3>2. \A k, l \in 1 .. Len(free') : free'[k] = free'[l] => k = l
        BY <1>0, <2>3 DEF SessionInv, FreeInv
      <3>. QED
        BY <3>1, <3>2 DEF FreeInv
    <2>. QED
      BY <1>0, <2>1, <2>2, <2>3, <2>4, <2>6
  <1>2. CASE free = <<>>
    <2>1. id = Len(table) /\ table' = Append(table, g) /\ free' = free
      BY <1>2 DEF TakesId
    <2>2. /\ table' \in Seq(Graphs \cup {None}) /\ Len(table') = Len(table) + 1
          /\ table'[id + 1] = g
          /\ \A j \in 1 .. Len(table) : table'[j] = table[j]
      BY <1>0, <2>1
    <2>3. ~GraphExists(id)
      BY <1>0, <2>1 DEF GraphExists
    <2>4. \A i \in Ids : (GraphExists(i))' <=> i = id \/ GraphExists(i)
      BY <1>0, <2>1, <2>2 DEF GraphExists
    <2>5. \A i \in Ids : (GraphExists(i))' => (At(i))' = IF i = id THEN g ELSE At(i)
      BY <1>0, <2>1, <2>2 DEF GraphExists, At
    <2>6. FreeInv'
      BY <1>2, <2>1 DEF FreeInv
    <2>. QED
      BY <1>0, <2>1, <2>2, <2>3, <2>4, <2>5, <2>6
  <1>. QED
    BY <1>1, <1>2

LEMMA NoDataType == NoData \in [NodeIds -> Nat] /\ \A n \in NodeIds : NoData[n] = None
  <1>1. NoData \in [NodeIds -> Nat]
    BY DEF NoData, None
  <1>. QED
    BY <1>1 DEF NoData

LEMMA NewGraphInv ==
  ASSUME SessionInv, NewGraph
  PROVE  SessionInv'
  <1>0. ~ended /\ UNCHANGED <<nsub, ext, ended, stamp>>
    BY DEF NewGraph, Called
  <1>1. PICK g \in Graphs \ InMemory, id \in Ids :
          /\ graph' = [graph EXCEPT ![g] = NewGraphAt(id)]
          /\ TakesId(g, id)
          /\ data' = [data EXCEPT ![0][id] = NoData]
    BY DEF NewGraph, TakesId
  <1>2. /\ ~GraphExists(id)
        /\ table' \in Seq(Graphs \cup {None}) /\ Len(table') <= MaxGraphs
        /\ free' \in Seq(Ids)
        /\ \A i \in Ids : /\ (GraphExists(i))' <=> i = id \/ GraphExists(i)
                          /\ (GraphExists(i))' => (At(i))' = IF i = id THEN g ELSE At(i)
        /\ FreeInv'
    BY <1>1, NewIdTable
  <1>3. /\ graph \in GraphFuns /\ g \notin Mem(graph)
        /\ Refs \in Counts /\ Uses \in Counts
        /\ Counted(graph, Refs, Uses) /\ Acyclic(graph) /\ data \in DataFuns
    BY RefsCounts DEF SessionInv, SessionTypes, Mem, InMemory, DataFuns
  <1>4. PICK x \in GraphRec :
          /\ x = NewGraphAt(id) /\ x.refs = 1 /\ x.subs = 0 /\ x.attached /\ x.id = id
          /\ \A n \in NodeIds : x.nodes[n] = NoNode
    BY NewGraphFields
  <1>5. graph' \in GraphFuns /\ graph'[g] = x /\ \A k \in Graphs \ {g} : graph'[k] = graph[k]
    <2>1. graph' = [graph EXCEPT ![g] = x]
      BY <1>1, <1>4
    <2>. QED
      BY <1>3, <2>1 DEF GraphFuns
  <1>6. \A n \in NodeIds : graph'[g].nodes[n].uses = None
    BY <1>4, <1>5 DEF NoNode
  <1>7. /\ Counted(graph', Plus(Refs, g), Uses) /\ Mem(graph') = Mem(graph) \cup {g}
        /\ Refs[g] = 0 /\ Uses[g] = 0
    BY <1>3, <1>4, <1>5, <1>6, NewGraphCounts
  <1>8. ~graph[g].attached
    <2>1. Listing(graph, g) = 0
      BY <1>7, RefsCounts DEF Listing
    <2>. QED
      BY <2>1 DEF Listing
  <1>9. Uses' = Uses /\ Refs' = Plus(Refs, g)
    <2>1. Uses' = Uses
      BY <1>0, EvalsSame
    <2>2. \A k \in Graphs : /\ Listing(graph', k) = Listing(graph, k) + Once(g)[k]
                            /\ Listing(graph, k) \in Nat /\ Once(g)[k] \in Nat /\ Uses[k] \in Nat
      BY <1>3, <1>4, <1>5, <1>8, OnceCounts DEF Listing, Counts
    <2>3. Refs' = [k \in Graphs |-> Uses'[k] + Listing(graph', k)]
          /\ Plus(Refs, g) = [k \in Graphs |-> (Uses[k] + Listing(graph, k)) + Once(g)[k]]
      BY DEF Refs, Uses, Plus
    <2>. QED
      BY <2>1, <2>2, <2>3
  <1>10. Acyclic(graph')
    <2>1. Holders(graph, Mem(graph), g) = 0
      <3>1. graph[g].subs = Holders(graph, Mem(graph), g) + Uses[g] /\ graph[g].refs = 0
        BY <1>3 DEF Counted, Mem, GraphFuns, GraphRec
      <3>2. graph[g] = Freed /\ Holders(graph, Mem(graph), g) \in Nat
        BY <1>3, <3>1, HeldByFinite DEF Counted, Mem
      <3>. QED
        BY <1>7, <3>1, <3>2, FreedFields
    <2>2. Mem(graph) \in SUBSET Graphs
      BY DEF Mem
    <2>3. \A k \in Mem(graph) : \A n \in NodeIds : graph[k].nodes[n].uses # g
      BY <2>1, <2>2, HoldersNone
    <2>4. \A k \in Mem(graph') : \A n \in NodeIds : graph'[k].nodes[n].uses # g
      BY <1>5, <1>6, <1>7, <2>2, <2>3, GraphsFinite DEF None
    <2>5. \A k \in Mem(graph') \ {g} : \A n \in NodeIds :
            graph'[k].nodes[n].uses = graph[k].nodes[n].uses
      BY <1>5, <1>7, <2>2
    <2>. QED
      BY <1>3, <1>7, <2>4, <2>5, AcyclicMore
  <1>11. TableInv'
    BY <1>2, <1>4, <1>5, <1>8, ListedMore
  <1>12. /\ data' \in DataFuns
         /\ \A n \in NodeIds : data'[0][id][n] = None
         /\ \A c \in Contexts, i \in Ids, n \in NodeIds : c # 0 \/ i # id =>
              data'[c][i][n] = data[c][i][n]
    <2>1. PICK z \in [NodeIds -> Nat] : z = NoData /\ \A n \in NodeIds : z[n] = None
      BY NoDataType
    <2>2. PICK d \in [Ids -> [NodeIds -> Nat]] : d = data[0]
      BY <1>3, ContextZero DEF DataFuns
    <2>3. PICK y \in [Ids -> [NodeIds -> Nat]] : y = [d EXCEPT ![id] = z]
      OBVIOUS
    <2>4. data' = [data EXCEPT ![0] = y]
      BY <1>1, <2>1, <2>2, <2>3
    <2>5. data' \in DataFuns /\ data'[0] = y /\ \A c \in Contexts \ {0} : data'[c] = data[c]
      BY <1>3, <2>4, ContextZero DEF DataFuns
    <2>6. y[id] = z /\ \A i \in Ids \ {id} : y[i] = d[i]
      BY <2>3
    <2>. QED
      BY <2>1, <2>2, <2>5, <2>6
  <1>13. DataFits'
    <2>1. ASSUME NEW i \in Ids, NEW n \in NodeIds, NEW c \in Contexts
          PROVE  data'[c][i][n] \in IF c = 0 THEN {StampAt(i, n)'} ELSE {StampAt(i, n)', None}
      <3>1. data[c][i][n] \in IF c = 0 THEN {StampAt(i, n)} ELSE {StampAt(i, n), None}
        BY DataFitsStamps DEF SessionInv
      <3>2. CASE i = id
        <4>1. StampAt(i, n) = None
          BY <1>2, <3>2 DEF StampAt
        <4>2. StampAt(i, n)' = None
          BY <1>2, <1>4, <1>5, <3>2 DEF StampAt, NoNode
        <4>3. data'[c][i][n] = None
          BY <1>12, <3>1, <3>2, <4>1
        <4>. QED
          BY <4>2, <4>3
      <3>3. CASE i # id
        <4>1. data'[c][i][n] = data[c][i][n]
          BY <1>12, <3>3
        <4>2. StampAt(i, n)' = StampAt(i, n)
          <5>1. CASE GraphExists(i)
            <6>1. (GraphExists(i))' /\ (At(i))' = At(i)
              BY <1>2, <3>3, <5>1
            <6>2. At(i) \in Graphs /\ graph[At(i)].attached
              BY <5>1, ListedGraph
            <6>3. graph'[At(i)] = graph[At(i)]
              BY <1>5, <1>8, <6>2
            <6>. QED
              BY <5>1, <6>1, <6>3 DEF StampAt
          <5>2. CASE ~GraphExists(i)
            BY <1>2, <3>3, <5>2 DEF StampAt
          <5>. QED
            BY <5>1, <5>2
        <4>. QED
          BY <3>1, <4>1, <4>2
      <3>. QED
        BY <3>2, <3>3
    <2>. QED
      BY <2>1, DataFitsStampsNext
  <1>. QED
    BY <1>0, <1>2, <1>5, <1>7, <1>9, <1>10, <1>11, <1>12, <1>13
       DEF SessionInv, SessionTypes, DataFuns, NothingLeft

LEMMA DetachedFields ==
  ASSUME NEW gs \in GraphFuns, NEW g \in Graphs, NEW hs, hs = Detached(gs, g)
  PROVE  /\ hs \in GraphFuns /\ \A k \in Graphs \ {g} : hs[k] = gs[k]
         /\ ~hs[g].attached
         /\ hs[g].refs = gs[g].refs /\ hs[g].subs = gs[g].subs /\ hs[g].id = gs[g].id
         /\ hs[g].mutable = gs[g].mutable /\ hs[g].nodes = gs[g].nodes
  <1>1. PICK y \in GraphRec : y = gs[g]
    BY DEF GraphFuns
  <1>2. PICK z : z = [y EXCEPT !.attached = FALSE]
    OBVIOUS
  <1>3. /\ z \in GraphRec /\ ~z.attached /\ z.refs = y.refs /\ z.subs = y.subs /\ z.id = y.id
        /\ z.mutable = y.mutable /\ z.nodes = y.nodes
    BY <1>2 DEF GraphRec
  <1>4. hs = [gs EXCEPT ![g] = z]
    BY <1>1, <1>2 DEF Detached
  <1>5. hs \in GraphFuns /\ hs[g] = z /\ \A k \in Graphs \ {g} : hs[k] = gs[k]
    BY <1>3, <1>4 DEF GraphFuns
  <1>. QED
    BY <1>1, <1>3, <1>5

\* The id that is given back
LEMMA FreedIdTable ==
  ASSUME SessionInv, NEW id \in Ids, GraphExists(id),
         table' = [table EXCEPT ![id + 1] = None], free' = Append(free, id)
  PROVE  /\ table' \in Seq(Graphs \cup {None}) /\ Len(table') <= MaxGraphs
         /\ free' \in Seq(Ids)
         /\ \A i \in Ids : /\ (GraphExists(i))' <=> i # id /\ GraphExists(i)
                           /\ i # id /\ GraphExists(i) => (At(i))' = At(i)
         /\ FreeInv'
  <1>0. /\ table \in Seq(Graphs \cup {None}) /\ Len(table) <= MaxGraphs /\ free \in Seq(Ids)
        /\ Len(table) \in Nat /\ Len(free) \in Nat /\ id \in Nat /\ id < Len(table)
        /\ \A i \in Ids : i \in Nat
    BY SessionAssumption DEF SessionInv, SessionTypes, Ids, GraphExists
  <1>1. /\ table' \in Seq(Graphs \cup {None}) /\ Len(table') = Len(table)
        /\ table'[id + 1] = None
        /\ \A j \in 1 .. Len(table) : j # id + 1 => table'[j] = table[j]
    BY <1>0
  <1>2. /\ free' \in Seq(Ids) /\ Len(free') = Len(free) + 1
        /\ free'[Len(free) + 1] = id
        /\ \A k \in 1 .. Len(free) : free'[k] = free[k]
    BY <1>0
  <1>3. \A i \in Ids : /\ (GraphExists(i))' <=> i # id /\ GraphExists(i)
                       /\ i # id /\ GraphExists(i) => (At(i))' = At(i)
    <2> SUFFICES ASSUME NEW i \in Ids
                 PROVE  /\ (GraphExists(i))' <=> i # id /\ GraphExists(i)
                        /\ i # id /\ GraphExists(i) => (At(i))' = At(i)
      OBVIOUS
    <2>1. CASE i < Len(table)
      <3>1. i + 1 \in 1 .. Len(table) /\ (i # id => i + 1 # id + 1)
        BY <1>0, <2>1
      <3>. QED
        BY <1>0, <1>1, <2>1, <3>1 DEF GraphExists, At
    <2>2. CASE ~(i < Len(table))
      BY <1>0, <1>1, <2>2 DEF GraphExists
    <2>. QED
      BY <2>1, <2>2
  <1>4. \A k \in 1 .. Len(free) : /\ free[k] \in Ids /\ free[k] < Len(table) /\ free[k] # id
                                  /\ ~GraphExists(free[k])
    BY <1>0 DEF SessionInv, FreeInv
  <1>5. PICK l \in Nat : l = Len(free)
    BY <1>0
  <1>6. \A k \in 1 .. Len(free') : k \in 1 .. l \/ k = l + 1
    BY <1>2, <1>5
  <1>7. ASSUME NEW k \in 1 .. Len(free')
        PROVE  \E i \in Ids : free'[k] = i /\ i < Len(table) /\ ~(GraphExists(i))'
    <2>1. CASE k = l + 1
      BY <1>0, <1>2, <1>3, <1>5, <2>1
    <2>2. CASE k \in 1 .. l
      BY <1>2, <1>3, <1>4, <1>5, <2>2
    <2>. QED
      BY <1>6, <2>1, <2>2
  <1>8. ASSUME NEW k \in 1 .. Len(free'), NEW j \in 1 .. Len(free'), free'[k] = free'[j]
        PROVE  k = j
    <2>1. CASE k = l + 1 /\ j = l + 1
      BY <2>1
    <2>2. CASE k \in 1 .. l /\ j = l + 1
      BY <1>2, <1>4, <1>5, <1>8, <2>2
    <2>3. CASE k = l + 1 /\ j \in 1 .. l
      BY <1>2, <1>4, <1>5, <1>8, <2>3
    <2>4. CASE k \in 1 .. l /\ j \in 1 .. l
      BY <1>2, <1>5, <1>8, <2>4 DEF SessionInv, FreeInv
    <2>. QED
      BY <1>6, <2>1, <2>2, <2>3, <2>4
  <1>9. FreeInv'
    <2>1. ASSUME NEW k \in 1 .. Len(free')
          PROVE  free'[k] < Len(table') /\ ~(GraphExists(free[k]))'
      <3>1. PICK i \in Ids : free'[k] = i /\ i < Len(table) /\ ~(GraphExists(i))'
        BY <1>7
      <3>. QED
        BY <1>1, <3>1 DEF GraphExists
    <2>. QED
      BY <1>8, <2>1 DEF FreeInv
  <1>. QED
    BY <1>0, <1>1, <1>2, <1>3, <1>9

LEMMA DeleteGraphInv ==
  ASSUME SessionInv, NEW id \in Ids, DeleteGraph(id)
  PROVE  SessionInv'
  <1>0. /\ ~ended /\ GraphExists(id) /\ UNCHANGED <<nsub, ext, ended, stamp>>
        /\ table' = [table EXCEPT ![id + 1] = None] /\ free' = Append(free, id)
    BY DEF DeleteGraph, Called
  <1>1. PICK g \in Graphs :
          g = At(id) /\ g \in Mem(graph) /\ graph[g].attached /\ graph[g].id = id
    BY <1>0, ListedGraph
  <1>2. PICK gs : gs = Detached(graph, g)
    OBVIOUS
  <1>3. PICK gone : gone = Destroyed(gs, Once(g))
    OBVIOUS
  <1>4. /\ graph' = Drop(gs, Once(g), Never)
        /\ data' = [c \in Contexts |-> [WithoutNodesOf(data, gs, gone)[c] EXCEPT ![id] = NoData]]
    BY <1>1, <1>2, <1>3 DEF DeleteGraph
  <1>5. /\ graph \in GraphFuns /\ data \in DataFuns /\ Refs \in Counts /\ Uses \in Counts
        /\ Counted(graph, Refs, Uses) /\ Acyclic(graph)
        /\ Uses' = Uses /\ Uses' \in Counts /\ Once(g) \in Counts /\ Never \in Counts
    BY <1>0, RefsCounts, EvalsSame, OnceCounts DEF SessionInv, SessionTypes, DataFuns, Never
  <1>6. /\ gs \in GraphFuns /\ \A k \in Graphs \ {g} : gs[k] = graph[k]
        /\ ~gs[g].attached
        /\ gs[g].refs = graph[g].refs /\ gs[g].subs = graph[g].subs /\ gs[g].id = graph[g].id
        /\ gs[g].mutable = graph[g].mutable /\ gs[g].nodes = graph[g].nodes
    BY <1>2, <1>5, DetachedFields
  <1>7. Counted(gs, Refs, Uses) /\ Mem(gs) = Mem(graph)
    <2>1. SameUses(graph, gs, Graphs)
      BY <1>6 DEF SameUses
    <2>2. graph[g].refs # 0
      BY <1>1 DEF Mem
    <2>. QED
      BY <1>5, <1>6, <2>1, <2>2, CountedSame
  <1>8. Acyclic(gs)
    <2>1. \A k \in Mem(gs) : \A n \in NodeIds :
            gs[k].nodes[n].uses \in {graph[k].nodes[n].uses, None}
      BY <1>6 DEF Mem
    <2>. QED
      BY <1>5, <1>7, <2>1, AcyclicLess
  <1>9. \A k \in Graphs : /\ Once(g)[k] <= Refs[k] /\ Never[k] <= Uses[k]
                          /\ Refs[k] - Once(g)[k] = Uses'[k] + Listing(gs, k)
                          /\ Uses[k] - Never[k] = Uses'[k]
    <2>1. \A k \in Graphs : /\ Never[k] = 0 /\ Uses[k] \in Nat
                            /\ Refs[k] = Uses[k] + Listing(graph, k)
      BY <1>5, RefsCounts, OnceCounts, GraphsFinite DEF Never, Counts, None
    <2>2. \A k \in Graphs : /\ Listing(graph, k) = Listing(gs, k) + Once(g)[k]
                            /\ Listing(gs, k) \in Nat /\ Once(g)[k] \in Nat
      BY <1>1, <1>6, OnceCounts DEF Listing
    <2>. QED
      BY <1>5, <2>1, <2>2
  <1>10. /\ graph' \in GraphFuns /\ Counted(graph, Refs, Uses)' /\ Acyclic(graph)'
         /\ \A k \in gone : ~gs[k].attached
         /\ \A k \in Graphs \ gone :
              /\ graph'[k].attached = gs[k].attached /\ graph'[k].id = gs[k].id
              /\ graph'[k].nodes = gs[k].nodes
         /\ \A k \in Graphs : graph'[k].attached = gs[k].attached
    BY <1>3, <1>4, <1>5, <1>6, <1>7, <1>8, <1>9, DropStep
  <1>11. /\ table' \in Seq(Graphs \cup {None}) /\ Len(table') <= MaxGraphs
         /\ free' \in Seq(Ids)
         /\ \A i \in Ids : /\ (GraphExists(i))' <=> i # id /\ GraphExists(i)
                           /\ i # id /\ GraphExists(i) => (At(i))' = At(i)
         /\ FreeInv'
    BY <1>0, FreedIdTable
  <1>12. \A k \in Graphs : k # g /\ graph[k].attached =>
           /\ graph'[k].attached /\ graph'[k].id = graph[k].id
           /\ graph'[k].nodes = graph[k].nodes
    BY <1>6, <1>10
  <1>13. TableInv'
    <2>1. ~graph'[At(id)].attached
      BY <1>1, <1>6, <1>10
    <2>2. \A k \in Graphs : /\ graph'[k].attached => graph[k].attached
                            /\ graph[k].attached /\ k # At(id) =>
                                 graph'[k].attached /\ graph'[k].id = graph[k].id
      BY <1>1, <1>6, <1>10, <1>12
    <2>. QED
      BY <1>0, <1>10, <1>11, <2>1, <2>2, ListedLess
  <1>14. /\ data' \in DataFuns
         /\ \A c \in Contexts, n \in NodeIds : data'[c][id][n] = None
         /\ \A c \in Contexts, i \in Ids \ {id}, n \in NodeIds :
              data'[c][i][n] = data[c][i][n]
    <2>1. data' = [c \in Contexts |-> [data[c] EXCEPT ![id] = NoData]]
      BY <1>4, <1>5, <1>10, WithoutNothing
    <2>2. ASSUME NEW c \in Contexts
          PROVE  /\ data'[c] \in [Ids -> [NodeIds -> Nat]]
                 /\ \A n \in NodeIds : data'[c][id][n] = None
                 /\ \A i \in Ids \ {id} : data'[c][i] = data[c][i]
      <3>1. PICK d \in [Ids -> [NodeIds -> Nat]] : d = data[c]
        BY <1>5 DEF DataFuns
      <3>2. data'[c] = [d EXCEPT ![id] = NoData]
        BY <2>1, <3>1
      <3>. QED
        BY <3>1, <3>2, NoDataType
    <2>. QED
      BY <2>1, <2>2 DEF DataFuns
  <1>15. DataFits'
    <2>1. ASSUME NEW i \in Ids, NEW n \in NodeIds, NEW c \in Contexts
          PROVE  data'[c][i][n] \in IF c = 0 THEN {StampAt(i, n)'} ELSE {StampAt(i, n)', None}
      <3>1. CASE i = id
        <4>1. StampAt(i, n)' = None
          BY <1>11, <3>1 DEF StampAt
        <4>. QED
          BY <1>14, <3>1, <4>1
      <3>2. CASE i # id
        <4>1. data'[c][i][n] = data[c][i][n]
          BY <1>14, <3>2
        <4>2. data[c][i][n] \in IF c = 0 THEN {StampAt(i, n)} ELSE {StampAt(i, n), None}
          BY DataFitsStamps DEF SessionInv
        <4>3. StampAt(i, n)' = StampAt(i, n)
          <5>1. CASE GraphExists(i)
            <6>1. (GraphExists(i))' /\ (At(i))' = At(i)
              BY <1>11, <3>2, <5>1
            <6>2. At(i) \in Graphs /\ graph[At(i)].attached /\ At(i) # g
              BY <1>1, <3>2, <5>1, ListedGraph
            <6>3. graph'[At(i)].nodes = graph[At(i)].nodes
              BY <1>12, <6>2
            <6>. QED
              BY <5>1, <6>1, <6>3 DEF StampAt
          <5>2. CASE ~GraphExists(i)
            BY <1>11, <5>2 DEF StampAt
          <5>. QED
            BY <5>1, <5>2
        <4>. QED
          BY <4>1, <4>2, <4>3
      <3>. QED
        BY <3>1, <3>2
    <2>. QED
      BY <2>1, DataFitsStampsNext
  <1>. QED
    BY <1>0, <1>5, <1>10, <1>11, <1>13, <1>14, <1>15
       DEF SessionInv, SessionTypes, DataFuns, NothingLeft

-----------------------------------------------------------------------------
(* The end of the session *)

LEMMA EndSessionInv ==
  ASSUME SessionInv, EndSession
  PROVE  SessionInv'
  <1>1. PICK listed : listed = [g \in Graphs |-> IF g \in Range(table) THEN 1 ELSE 0]
    OBVIOUS
  <1>2. /\ \A e \in Evaluators : ext[e] = NoEvaluator
        /\ graph' = Drop(graph, listed, Never)
        /\ table' = <<>> /\ free' = <<>> /\ nsub' = 0
        /\ data' = [c \in Contexts |-> [i \in Ids |-> NoData]]
        /\ ended' = TRUE /\ UNCHANGED <<ext, stamp>>
    BY <1>1 DEF EndSession
  <1>3. /\ graph \in GraphFuns /\ Refs \in Counts /\ Uses \in Counts /\ Never \in Counts
        /\ Counted(graph, Refs, Uses) /\ Acyclic(graph)
    BY RefsCounts, OnceCounts DEF SessionInv, SessionTypes, Never
  <1>4. \A k \in Graphs : EvalsOf(k) = 0
    <2> SUFFICES ASSUME NEW k \in Graphs PROVE EvalsOf(k) = 0
      OBVIOUS
    <2>1. {e \in Evaluators : ext[e].graph = k} = {}
      BY <1>2, GraphsFinite DEF NoEvaluator, None
    <2>. QED
      BY <2>1, FS_EmptySet DEF EvalsOf
  <1>5. \A k \in Graphs : k \in Range(table) <=> graph[k].attached
    <2>1. ASSUME NEW k \in Graphs, k \in Range(table) PROVE graph[k].attached
      <3>1. PICK j \in 1 .. Len(table) : table[j] = k
        BY <2>1 DEF Range, SessionInv, SessionTypes
      <3>2. PICK id \in Ids : j = id + 1
        <4>1. j - 1 \in Ids /\ j = (j - 1) + 1
          BY <3>1, SessionAssumption DEF SessionInv, SessionTypes, Ids
        <4>. QED
          BY <4>1
      <3>3. GraphExists(id) /\ At(id) = k
        BY <3>1, <3>2, SessionAssumption, GraphsFinite
           DEF GraphExists, At, None, Ids, SessionInv, SessionTypes
      <3>. QED
        BY <3>3, ListedGraph
    <2>2. ASSUME NEW k \in Graphs, graph[k].attached PROVE k \in Range(table)
      <3>1. PICK id \in Ids : id = graph[k].id
        BY <1>3 DEF GraphFuns, GraphRec
      <3>2. GraphExists(id) /\ At(id) = k
        BY <2>2, <3>1 DEF SessionInv, TableInv
      <3>3. id + 1 \in 1 .. Len(table)
        BY <3>2, ListedGraph
      <3>. QED
        BY <3>2, <3>3 DEF At, Range, SessionInv, SessionTypes
    <2>. QED
      BY <2>1, <2>2
  <1>6. \A k \in Graphs : /\ Refs[k] = listed[k] /\ Uses[k] = 0 /\ Never[k] = 0
                          /\ listed[k] \in Nat
    <2>1. \A k \in Graphs : listed[k] = Listing(graph, k) /\ listed[k] \in Nat
      BY <1>1, <1>5 DEF Listing
    <2>2. \A k \in Graphs : Never[k] = 0
      BY OnceCounts, GraphsFinite DEF Never, None
    <2>3. \A k \in Graphs : Uses[k] = 0 /\ Refs[k] = Uses[k] + Listing(graph, k)
      BY <1>4, RefsCounts
    <2>. QED
      BY <2>1, <2>2, <2>3
  <1>7. listed \in Counts
    BY <1>1, <1>6 DEF Counts
  <1>8. PICK gone : gone = Destroyed(graph, listed)
    OBVIOUS
  <1>9. /\ graph' \in GraphFuns /\ Mem(graph') \subseteq Mem(graph)
        /\ Counted(graph', Minus(Refs, listed), Minus(Uses, Never))
        /\ \A h \in Graphs \ gone : graph'[h].nodes = graph[h].nodes
        /\ Mem(graph') \cap gone = {}
    <2>1. \A h \in Graphs : /\ listed[h] <= Refs[h] /\ Never[h] <= Uses[h]
                            /\ Refs[h] - listed[h] >= Uses[h] - Never[h]
      BY <1>6
    <2>2. /\ graph' \in GraphFuns /\ Mem(graph') = Mem(graph) \ gone
          /\ Counted(graph', Minus(Refs, listed), Minus(Uses, Never))
          /\ \A h \in Graphs \ gone : graph'[h].nodes = graph[h].nodes
      BY <1>2, <1>3, <1>7, <1>8, <2>1, DropCounts
    <2>. QED
      BY <2>2
  \* nothing holds the graph that none of the others holds
  <1>10. Mem(graph') = {}
    <2> SUFFICES ASSUME Mem(graph') # {} PROVE FALSE
      OBVIOUS
    <2>1. Acyclic(graph')
      <3>1. \A k \in Mem(graph') : \A n \in NodeIds :
              graph'[k].nodes[n].uses \in {graph[k].nodes[n].uses, None}
        BY <1>9 DEF Mem
      <3>. QED
        BY <1>3, <1>9, <3>1, AcyclicLess
    <2>2. PICK k \in Mem(graph') : \A h \in Mem(graph') : \A n \in NodeIds :
            graph'[h].nodes[n].uses # k
      BY <2>1 DEF Acyclic
    <2>3. k \in Graphs /\ graph'[k].refs > 0 /\ Mem(graph') \in SUBSET Graphs
      BY DEF Mem
    <2>4. Holders(graph', Mem(graph'), k) = 0
      BY <2>2, <2>3, HoldersNone
    <2>5. Minus(Refs, listed)[k] = 0
      BY <1>6, <2>3 DEF Minus
    <2>6. graph'[k].refs = Holders(graph', Mem(graph'), k) + Minus(Refs, listed)[k]
      BY <1>9, <2>3 DEF Counted
    <2>. QED
      BY <2>3, <2>4, <2>5, <2>6
  <1>11. \A k \in Graphs : graph'[k] = Freed
    <2>1. \A k \in Graphs : graph'[k].refs \in Nat /\ ~(graph'[k].refs > 0)
      BY <1>9, <1>10 DEF Mem, GraphFuns, GraphRec
    <2>2. \A k \in Graphs : graph'[k].refs = 0
      BY <2>1
    <2>. QED
      BY <1>9, <2>2 DEF Counted
  <1>12. \A k \in Graphs : ~graph'[k].attached
    BY <1>11, FreedFields
  <1>13. \A k \in Graphs : Minus(Refs, listed)[k] = Refs'[k] /\ Minus(Uses, Never)[k] = Uses'[k]
    <2>1. \A k \in Graphs : Uses'[k] = 0
      <3>1. Uses' = Uses
        BY <1>2, EvalsSame
      <3>. QED
        BY <1>6, <3>1
    <2>2. \A k \in Graphs : Listing(graph', k) = 0
      BY <1>12 DEF Listing
    <2>3. Refs' = [k \in Graphs |-> Uses'[k] + Listing(graph', k)]
      BY DEF Refs, Uses
    <2>4. \A k \in Graphs : Refs'[k] = 0
      BY <2>1, <2>2, <2>3
    <2>5. \A k \in Graphs : Minus(Refs, listed)[k] = 0 /\ Minus(Uses, Never)[k] = 0
      BY <1>6 DEF Minus
    <2>. QED
      BY <2>1, <2>4, <2>5
  <1>14. Counted(graph, Refs, Uses)'
    BY <1>9, <1>13 DEF Counted
  <1>15. Acyclic(graph)'
    BY <1>10 DEF Acyclic
  <1>16. \A i : ~(GraphExists(i))' \/ i < 0
    BY <1>2 DEF GraphExists
  <1>17. TableInv' /\ FreeInv'
    <2>1. \A i \in Ids : ~(GraphExists(i))'
      BY <1>16, SessionAssumption DEF Ids
    <2>. QED
      BY <1>2, <1>12, <2>1 DEF TableInv, FreeInv
  <1>18. DataFits'
    <2>1. \A i \in Ids, n \in NodeIds : StampAt(i, n)' = None
      BY <1>16, SessionAssumption DEF Ids, StampAt
    <2>2. \A c \in Contexts, i \in Ids, n \in NodeIds : data'[c][i][n] = None
      BY <1>2, NoDataType
    <2>. QED
      BY <2>1, <2>2, DataFitsStampsNext
  <1>19. SessionTypes'
    <2>1. data' \in DataFuns
      BY <1>2, NoDataType DEF DataFuns
    <2>2. table' \in Seq(Graphs \cup {None}) /\ Len(table') <= MaxGraphs /\ free' \in Seq(Ids)
      BY <1>2, SessionAssumption
    <2>. QED
      BY <1>2, <1>9, <2>1, <2>2 DEF SessionInv, SessionTypes, DataFuns
  <1>20. NothingLeft'
    BY <1>10 DEF NothingLeft, InMemory, Mem
  <1>. QED
    BY <1>14, <1>15, <1>17, <1>18, <1>19, <1>20 DEF SessionInv

-----------------------------------------------------------------------------
(* The invariant of the specification *)

LEMMA InitInv == Init => SessionInv
  <1> SUFFICES ASSUME Init PROVE SessionInv
    OBVIOUS
  <1>1. graph = [g \in Graphs |-> Freed] /\ \A g \in Graphs : graph[g] = Freed
    BY DEF Init
  <1>2. Mem(graph) = {} /\ InMemory = {}
    BY <1>1, FreedFields DEF Mem, InMemory
  <1>3. \A g \in Graphs : EvalsOf(g) = 0
    <2> SUFFICES ASSUME NEW g \in Graphs PROVE EvalsOf(g) = 0
      OBVIOUS
    <2>1. {e \in Evaluators : ext[e].graph = g} = {}
      BY GraphsFinite DEF Init, NoEvaluator, None
    <2>. QED
      BY <2>1, FS_EmptySet DEF EvalsOf
  <1>4. \A g \in Graphs : Refs[g] = 0 /\ Uses[g] = 0
    <2>1. \A g \in Graphs : Listing(graph, g) = 0
      BY <1>1, FreedFields DEF Listing
    <2>. QED
      BY <1>3, <2>1, RefsCounts
  <1>5. Counted(graph, Refs, Uses)
    <2>1. \A g \in Graphs : Holders(graph, Mem(graph), g) = 0
      <3>1. PICK S \in SUBSET Graphs : S = Mem(graph) /\ S = {}
        BY <1>2
      <3>2. \A g \in Graphs : Holders(graph, S, g) = 0
        BY <3>1, HoldersNone
      <3>. QED
        BY <3>1, <3>2
    <2>. QED
      BY <1>1, <1>4, <2>1, FreedFields DEF Counted
  <1>6. Acyclic(graph)
    BY <1>2 DEF Acyclic
  <1>7. \A id \in Ids : ~GraphExists(id)
    BY SessionAssumption DEF Init, GraphExists, Ids
  <1>8. TableInv /\ FreeInv
    BY <1>1, <1>7, FreedFields DEF Init, TableInv, FreeInv
  <1>9. DataFits
    <2>1. \A id \in Ids, n \in NodeIds : StampAt(id, n) = None
      BY <1>7 DEF StampAt
    <2>2. \A c \in Contexts, id \in Ids, n \in NodeIds : data[c][id][n] = None
      BY NoDataType DEF Init
    <2>. QED
      BY <2>1, <2>2, DataFitsStamps
  <1>10. SessionTypes
    <2>1. data \in DataFuns
      BY NoDataType DEF Init, DataFuns
    <2>2. table \in Seq(Graphs \cup {None}) /\ Len(table) <= MaxGraphs /\ free \in Seq(Ids)
      BY SessionAssumption DEF Init
    <2>3. graph \in GraphFuns
      BY <1>1, FreedType DEF GraphFuns
    <2>4. NoEvaluator \in EvalRec
      BY DEF NoEvaluator, EvalRec, None
    <2>5. /\ ext \in [Evaluators -> EvalRec]
          /\ \A e \in Evaluators : ext[e] # NoEvaluator => ext[e].graph # None
      BY <2>4 DEF Init
    <2>6. nsub \in Nat /\ ended \in BOOLEAN /\ stamp \in Nat
      BY DEF Init
    <2>. QED
      BY <2>1, <2>2, <2>3, <2>5, <2>6 DEF SessionTypes, DataFuns
  <1>. QED
    BY <1>2, <1>5, <1>6, <1>8, <1>9, <1>10 DEF SessionInv, NothingLeft

LEMMA StutterInv == SessionInv /\ UNCHANGED vars => SessionInv'
  <1> SUFFICES ASSUME SessionInv, UNCHANGED vars PROVE SessionInv'
    OBVIOUS
  <1>0. UNCHANGED <<table, free, graph, data, nsub, ext, ended, stamp>>
    BY DEF vars
  <1>1. Counted(graph, Refs, Uses)' /\ Acyclic(graph)'
    BY <1>0, GraphKept DEF SessionInv, SessionTypes, SameUses
  <1>2. TableInv' /\ FreeInv' /\ DataFits'
    BY <1>0, TableKept, DataKept
  <1>3. SessionTypes' /\ NothingLeft'
    BY <1>0 DEF SessionInv, SessionTypes, NothingLeft, InMemory
  <1>. QED
    BY <1>1, <1>2, <1>3 DEF SessionInv

LEMMA NextInv == SessionInv /\ [Next]_vars => SessionInv'
  <1> SUFFICES ASSUME SessionInv, [Next]_vars PROVE SessionInv'
    OBVIOUS
  <1>1. CASE NewGraph
    BY <1>1, NewGraphInv
  <1>2. CASE EndSession
    BY <1>2, EndSessionInv
  <1>3. ASSUME NEW id \in Ids, DeleteGraph(id) PROVE SessionInv'
    BY <1>3, DeleteGraphInv
  <1>4. ASSUME NEW id \in Ids, NEW n \in NodeIds,
               NewNode(id, n) \/ DeleteNode(id, n) \/ SetOutputNode(id, n)
                 \/ SetNodeMutable(id, n) \/ ChangeNode(id, n)
        PROVE  SessionInv'
    BY <1>4, NewNodeInv, DeleteNodeInv, SetOutputNodeInv, SetNodeMutableInv, ChangeNodeInv
  <1>5. ASSUME NEW id \in Ids, NEW n \in NodeIds, NEW id2 \in Ids, NewSubgraphNode(id, n, id2)
        PROVE  SessionInv'
    BY <1>5, NewSubgraphNodeInv
  <1>6. ASSUME NEW id \in Ids, NEW k \in Workers, ParallelCall(id, k) PROVE SessionInv'
    BY <1>6, ParallelCallInv
  <1>7. ASSUME NEW id \in Ids, NEW e \in Evaluators, NEW k \in Workers, BeginExt(e, id, k)
        PROVE  SessionInv'
    BY <1>7, BeginExtInv
  <1>8. ASSUME NEW e \in Evaluators, EndExt(e) PROVE SessionInv'
    BY <1>8, EndExtInv
  <1>9. ASSUME NEW e \in Evaluators, NEW t \in Workers, EvaluateExt(e, t) PROVE SessionInv'
    BY <1>9, EvaluateExtInv
  <1>10. CASE UNCHANGED vars
    BY <1>10, StutterInv
  <1>. QED
    BY <1>1, <1>2, <1>3, <1>4, <1>5, <1>6, <1>7, <1>8, <1>9, <1>10 DEF Next

\* The inductive invariant.
THEOREM SessionInvariant == Spec => []SessionInv
  BY InitInv, NextInv, PTL DEF Spec

-----------------------------------------------------------------------------
(* The properties *)

LEMMA InvCountsExact == SessionInv => CountsExact
  <1> SUFFICES ASSUME SessionInv, NEW g \in Graphs
               PROVE  LET evals == Cardinality({e \in Evaluators : ext[e].graph = g})
                          users == Holders(graph, InMemory, g) + evals
                          listed == Cardinality({i \in DOMAIN table : table[i] = g})
                      IN /\ graph[g].refs = users + listed
                         /\ graph[g].subs = users
                         /\ users > 0 => ~graph[g].mutable
    BY DEF CountsExact
  <1>1. InMemory = Mem(graph) /\ Mem(graph) \in SUBSET Graphs
    BY DEF InMemory, Mem
  <1>2. PICK S : S = {i \in DOMAIN table : table[i] = g}
    OBVIOUS
  <1>3. Cardinality(S) = Listing(graph, g)
    <2>1. DOMAIN table = 1 .. Len(table) /\ Len(table) \in Nat /\ Len(table) <= MaxGraphs
      BY DEF SessionInv, SessionTypes
    <2>2. ASSUME NEW j \in S
          PROVE  graph[g].attached /\ j = graph[g].id + 1
      <3>1. j \in 1 .. Len(table) /\ table[j] = g
        BY <1>2, <2>1
      <3>2. PICK id \in Ids : j = id + 1
        <4>1. j - 1 \in Ids /\ j = (j - 1) + 1
          BY <2>1, <3>1, SessionAssumption DEF Ids
        <4>. QED
          BY <4>1
      <3>3. GraphExists(id) /\ At(id) = g
        BY <2>1, <3>1, <3>2, SessionAssumption, GraphsFinite DEF GraphExists, At, None, Ids
      <3>. QED
        BY <3>2, <3>3, ListedGraph
    <2>3. CASE graph[g].attached
      <3>1. PICK id \in Ids : id = graph[g].id
        BY DEF SessionInv, SessionTypes, GraphFuns, GraphRec
      <3>2. GraphExists(id) /\ At(id) = g
        BY <2>3, <3>1 DEF SessionInv, TableInv
      <3>3. id + 1 \in S
        BY <1>2, <2>1, <3>2, ListedGraph DEF At
      <3>4. S = {id + 1}
        BY <2>2, <3>1, <3>3
      <3>5. Cardinality({id + 1}) = 1
        BY FS_Singleton
      <3>. QED
        BY <2>3, <3>4, <3>5 DEF Listing
    <2>4. CASE ~graph[g].attached
      <3>1. S = {}
        BY <2>2, <2>4
      <3>. QED
        BY <2>4, <3>1, FS_EmptySet DEF Listing
    <2>. QED
      BY <2>3, <2>4
  <1>4. /\ graph[g].refs = Holders(graph, Mem(graph), g) + Refs[g]
        /\ graph[g].subs = Holders(graph, Mem(graph), g) + Uses[g]
        /\ graph[g].subs > 0 => ~graph[g].mutable
    BY DEF SessionInv, Counted
  <1>5. /\ Uses[g] = EvalsOf(g) /\ Refs[g] = Uses[g] + Listing(graph, g) /\ Uses[g] \in Nat
        /\ Listing(graph, g) \in Nat /\ Holders(graph, Mem(graph), g) \in Nat
    BY <1>1, RefsCounts, HeldByFinite DEF Listing
  <1>6. Cardinality({e \in Evaluators : ext[e].graph = g}) = EvalsOf(g)
    BY DEF EvalsOf
  <1>7. graph[g].refs = (Holders(graph, Mem(graph), g) + EvalsOf(g)) + Cardinality(S)
    BY <1>3, <1>4, <1>5
  <1>8. graph[g].subs = Holders(graph, Mem(graph), g) + EvalsOf(g)
    BY <1>4, <1>5
  <1>. QED
    BY <1>1, <1>2, <1>4, <1>6, <1>7, <1>8

\* A graph is in memory as long as the table, a node or an evaluator refers to
\* it and no longer, and immutable as long as it is used, in every sequence of
\* calls (RefCountedPtr, subgraph_count_, init_subgraph, ~Graph).
THEOREM ReferencesExact == Spec => []CountsExact
  BY SessionInvariant, InvCountsExact, PTL

LEMMA InvNoCycles == SessionInv => NoCycles
  <1> SUFFICES ASSUME SessionInv, NEW S \in SUBSET InMemory, S # {}
               PROVE  \E g \in S : \A n \in NodeIds : graph[g].nodes[n].uses \notin S
    BY DEF NoCycles
  <1>1. S \in SUBSET Mem(graph) /\ Acyclic(graph)
    BY DEF InMemory, Mem, SessionInv
  <1>. QED
    BY <1>1 DEF Acyclic

\* No graph evaluates itself through its subgraphs (init_subgraph, new_node).
THEOREM NoGraphInItself == Spec => []NoCycles
  BY SessionInvariant, InvNoCycles, PTL

\* The data at an id are those of the node that is there, in the main context,
\* and those or none in the workers', however ids of graphs and nodes are
\* reused and whenever deleted graphs are destroyed (delete_graph, ~Node,
\* invalidate_subctxt_alg_data, sync_graph_data).
THEOREM DataOfTheNode == Spec => []DataFits
  <1>1. SessionInv => DataFits
    BY DEF SessionInv
  <1>. QED
    BY <1>1, SessionInvariant, PTL

\* When the session goes, every graph goes with it (~Session).
THEOREM NothingLeftBehind == Spec => []NothingLeft
  <1>1. SessionInv => NothingLeft
    BY DEF SessionInv
  <1>. QED
    BY <1>1, SessionInvariant, PTL
=============================================================================

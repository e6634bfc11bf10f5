--------------------------- MODULE FlowGraph_proofs ---------------------------
(* Theorems about FlowGraph, for every number of slots, set of widths and     *)
(* number of users.                                                           *)
EXTENDS FlowGraph, FiniteSetTheorems, SequenceTheorems, TLAPS

USE SlotsAssumption, WidthsAssumption, UsersAssumption

-----------------------------------------------------------------------------
(* Facts about the operators *)

LEMMA NodeTypes ==
  /\ DeadNode \in Node
  /\ \A w \in Widths : InputNode(w) \in Node
  BY DEF DeadNode, InputNode, Node, Slots

LEMMA NodeUpdates ==
  ASSUME NEW n \in Node, NEW b \in BOOLEAN, NEW w \in Widths
  PROVE  /\ [n EXCEPT !.mutable = b] \in Node
         /\ [n EXCEPT !.learned = b] \in Node
         /\ [n EXCEPT !.nparsout = w] \in Node
         /\ [n EXCEPT !.learned = b, !.nparsout = w] \in Node
         /\ [n EXCEPT !.nparsout = w, !.depth = 0] \in Node
  BY DEF Node

LEMMA OtherFields ==
  ASSUME NEW n \in Node, NEW b \in BOOLEAN, NEW w \in Widths
  PROVE  /\ [n EXCEPT !.mutable = b].live = n.live
         /\ [n EXCEPT !.mutable = b].learned = n.learned
         /\ [n EXCEPT !.nparsout = w].live = n.live
         /\ [n EXCEPT !.nparsout = w].learned = n.learned
  BY DEF Node

LEMMA WithInputNodeType ==
  ASSUME nodes \in [Slots -> Node]
  PROVE  WithInputNode \in [Slots -> Node]
  BY NodeTypes DEF WithInputNode, Slots

LEMMA DepsInSlots == \A id : Deps(id) \subseteq Slots
  BY DEF Deps

\* A listing is a sequence.
LEMMA ListingIsSeq ==
  ASSUME NEW S \in SUBSET Slots, NEW s \in Listings(S)
  PROVE  s \in Seq(Slots)
  <1>0. IsFiniteSet(Slots)
    BY FS_Interval DEF Slots
  <1>1. IsFiniteSet(S)
    BY <1>0, FS_Subset
  <1>2. Cardinality(S) \in Nat
    BY <1>1, FS_CardinalityType
  <1>3. s \in [1 .. Cardinality(S) -> Slots]
    BY DEF Listings
  <1>. QED
    BY <1>2, <1>3

\* A sequence without its last element
LEMMA WithoutLast ==
  ASSUME NEW s \in Seq(Slots), Len(s) # 0
  PROVE  /\ Len(SubSeq(s, 1, Len(s) - 1)) = Len(s) - 1
         /\ \A k \in 1 .. Len(s) - 1 : SubSeq(s, 1, Len(s) - 1)[k] = s[k]
  <1>1. PICK m \in Nat : m = Len(s) - 1
    OBVIOUS
  <1>2. \A i \in 1 .. m : s[i] \in Slots
    BY <1>1
  <1>3. /\ Len(SubSeq(s, 1, m)) = IF 1 <= m THEN m - 1 + 1 ELSE 0
        /\ \A k \in 1 .. m - 1 + 1 : SubSeq(s, 1, m)[k] = s[1 + k - 1]
    BY <1>2, SubSeqProperties
  <1>4. (IF 1 <= m THEN m - 1 + 1 ELSE 0) = m /\ m - 1 + 1 = m
    OBVIOUS
  <1>5. \A k \in 1 .. m : s[1 + k - 1] = s[k]
    OBVIOUS
  <1>. QED
    BY <1>1, <1>3, <1>4, <1>5

-----------------------------------------------------------------------------
(* Type correctness *)

LEMMA TypeInit == Init => TypeOK
  <1> SUFFICES ASSUME Init PROVE TypeOK
    OBVIOUS
  <1>1. nodes \in [Slots -> Node]
    BY NodeTypes DEF Init
  <1>2. size \in 0 .. MaxSlots /\ marksSize \in 0 .. MaxSlots
    BY DEF Init
  <1>3. free \in Seq(Slots) /\ seq \in Seq(Slots)
    BY DEF Init
  <1>4. gNout \in Widths /\ out \in Slots \cup {NoId} /\ marks \subseteq Slots
    BY DEF Init
  <1>5. subUsers \in 0 .. MaxUsers /\ extUsers \in 0 .. MaxUsers
    BY DEF Init
  <1>6. /\ gMutable \in BOOLEAN /\ gLearned \in BOOLEAN
        /\ setFailed \in BOOLEAN /\ health \in {"ok", "astray", "dead"}
    BY DEF Init
  <1>. QED
    BY <1>1, <1>2, <1>3, <1>4, <1>5, <1>6 DEF TypeOK

LEMMA TypeNext == TypeOK /\ [Next]_graphVars => TypeOK'
  <1> SUFFICES ASSUME TypeOK, [Next]_graphVars PROVE TypeOK'
    OBVIOUS
  <1>. USE DEF TypeOK
  <1>1. ASSUME NEW w \in Widths, SetInputVars(w) PROVE TypeOK'
    <2>1. nodes' \in [Slots -> Node]
      <3>1. CASE nodes' = nodes
        BY <3>1
      <3>2. CASE nodes' = [nodes EXCEPT ![0] = InputNode(w)]
        BY <3>2, NodeTypes
      <3>3. CASE nodes' = [nodes EXCEPT ![0].nparsout = w, ![0].depth = 0]
        BY <3>3, NodeUpdates DEF Slots
      <3>. QED
        BY <1>1, <3>1, <3>2, <3>3 DEF SetInputVars
    <2>2. size' \in 0 .. MaxSlots /\ health' \in {"ok", "astray", "dead"}
      BY <1>1 DEF SetInputVars
    <2>. QED
      BY <1>1, <2>1, <2>2 DEF SetInputVars
  <1>2. ASSUME NEW ins \in SUBSET Slots, NEW w \in Widths,
               NEW learns \in BOOLEAN, NewNode(ins, w, learns)
        PROVE  TypeOK'
    <2>1. nodes' \in [Slots -> Node]
      <3>1. PICK d \in 1 .. MaxSlots : nodes' = [i \in Slots |->
              IF i = NewNodeId THEN Fresh(ins, w, learns, d)
              ELSE IF i \in ins THEN [WithInputNode[i] EXCEPT !.mutable = FALSE]
              ELSE WithInputNode[i]]
        BY <1>2 DEF NewNode
      <3>2. [j \in Slots |-> IF j \in ins THEN nodes[j].nparsout ELSE 0]
              \in [Slots -> Widths]
        BY DEF Node
      <3>3. \A i \in Slots : [WithInputNode[i] EXCEPT !.mutable = FALSE] \in Node
        BY WithInputNodeType, NodeUpdates
      <3>4. Fresh(ins, w, learns, d) \in Node
        BY <3>2 DEF Node, Fresh
      <3>. QED
        BY <3>1, <3>3, <3>4, WithInputNodeType
    <2>2. free' \in Seq(Slots) /\ size' \in 0 .. MaxSlots
      <3>1. CASE free = <<>>
        BY <1>2, <3>1 DEF NewNode, NewNodeId, Slots
      <3>2. CASE free # <<>>
        <4>1. \A k \in 1 .. Len(free) - 1 : free[k] \in Slots
          OBVIOUS
        <4>2. SubSeq(free, 1, Len(free) - 1) \in Seq(Slots)
          BY <4>1, SubSeqProperties
        <4>. QED
          BY <1>2, <3>2, <4>2 DEF NewNode
      <3>. QED
        BY <3>1, <3>2
    <2>. QED
      BY <1>2, <2>1, <2>2 DEF NewNode
  <1>3. ASSUME NEW id \in Slots, DeleteNode(id) PROVE TypeOK'
    <2>1. nodes' \in [Slots -> Node]
      BY <1>3, NodeTypes DEF DeleteNode
    <2>2. free' \in Seq(Slots)
      BY <1>3 DEF DeleteNode
    <2>. QED
      BY <1>3, <2>1, <2>2 DEF DeleteNode
  <1>4. ASSUME NEW id \in Slots, SetOutputNode(id) PROVE TypeOK'
    <2>1. CASE Die
      BY <2>1 DEF Die
    <2>2. CASE ~Die
      <3>1. marks' \subseteq Slots /\ marksSize' \in 0 .. MaxSlots
        BY <1>4, <2>2, DepsInSlots DEF SetOutputNode
      <3>2. seq' \in Seq(Slots)
        BY <1>4, <2>2, DepsInSlots, ListingIsSeq
           DEF SetOutputNode, ByDepth, Ascending
      <3>3. /\ out' \in Slots \cup {NoId} /\ gLearned' \in BOOLEAN
            /\ gNout' \in Widths /\ setFailed' \in BOOLEAN
        BY <1>4, <2>2 DEF SetOutputNode, Node
      <3>. QED
        BY <1>4, <2>2, <3>1, <3>2, <3>3 DEF SetOutputNode
    <2>. QED
      BY <2>1, <2>2
  <1>5. ASSUME Evaluate PROVE TypeOK'
    BY <1>5 DEF Evaluate, Die
  <1>6. ASSUME NEW ok \in BOOLEAN, NEW w \in Widths, NEW g \in Widths,
               Learn(ok, w, g)
        PROVE  TypeOK'
    <2>1. CASE Die
      BY <2>1 DEF Die
    <2>2. CASE ~Die
      <3>1. out \in Slots
        BY <1>6 DEF Learn, CanBeEvaluated
      <3>2. nodes' \in [Slots -> Node]
        <4>1. CASE nodes' = [nodes EXCEPT ![out].learned = TRUE]
          BY <3>1, <4>1, NodeUpdates
        <4>2. CASE nodes' = [nodes EXCEPT ![out].learned = ok,
                                          ![out].nparsout = w]
          <5>1. nodes' = [nodes EXCEPT ![out] =
                    [nodes[out] EXCEPT !.learned = ok, !.nparsout = w]]
            BY <3>1, <4>2
          <5>. QED
            BY <3>1, <5>1, NodeUpdates
        <4>. QED
          BY <1>6, <2>2, <4>1, <4>2 DEF Learn
      <3>. QED
        BY <1>6, <2>2, <3>2 DEF Learn
    <2>. QED
      BY <2>1, <2>2
  <1>7. ASSUME NEW id \in Slots, NEW w \in Widths, ResetNeededVars(id, w)
        PROVE  TypeOK'
    <2>1. nodes' \in [Slots -> Node]
      BY <1>7, NodeUpdates DEF ResetNeededVars
    <2>. QED
      BY <1>7, <2>1 DEF ResetNeededVars
  <1>8. ASSUME NEW id \in Slots, SetNodeMutable(id) PROVE TypeOK'
    <2>1. nodes' \in [Slots -> Node]
      BY <1>8, NodeUpdates DEF SetNodeMutable
    <2>. QED
      BY <1>8, <2>1 DEF SetNodeMutable
  <1>9. ASSUME PruneGraph PROVE TypeOK'
    <2>1. CASE Die
      BY <2>1 DEF Die
    <2>2. CASE ~Die
      <3>1. PICK garbage \in SUBSET Unmarkable :
              /\ nodes' = Pruned(Removed(garbage))
              /\ \E s \in Ascending(Removed(garbage)) : free' = free \o s
              /\ health' = IF Unmarkable # {} \/ setFailed
                           THEN "astray" ELSE health
              /\ UNCHANGED <<size, out, marks, marksSize, seq, gMutable,
                             gLearned, gNout, subUsers, extUsers, setFailed>>
        BY <1>9, <2>2 DEF PruneGraph
      <3>2. nodes' \in [Slots -> Node]
        BY <3>1, NodeTypes, NodeUpdates DEF Pruned
      <3>3. free' \in Seq(Slots)
        BY <3>1, ListingIsSeq DEF Ascending, Removed
      <3>. QED
        BY <3>1, <3>2, <3>3
    <2>. QED
      BY <2>1, <2>2
  <1>10. ASSUME UseAsSubgraph PROVE TypeOK'
    <2>1. nodes' \in [Slots -> Node]
      BY <1>10, NodeUpdates DEF UseAsSubgraph
    <2>2. subUsers' \in 0 .. MaxUsers
      BY <1>10 DEF UseAsSubgraph
    <2>3. /\ UNCHANGED <<size, free, out, marks, marksSize, seq, gLearned,
                         gNout, extUsers, setFailed, health>>
          /\ gMutable' = FALSE
      BY <1>10 DEF UseAsSubgraph
    <2>. QED
      BY <2>1, <2>2, <2>3
  <1>11. ASSUME DropSubgraph PROVE TypeOK'
    BY <1>11 DEF DropSubgraph
  <1>12. ASSUME BeginExtEval PROVE TypeOK'
    <2>1. extUsers' \in 0 .. MaxUsers
      BY <1>12 DEF BeginExtEval
    <2>. QED
      BY <1>12, <2>1 DEF BeginExtEval, CanBeEvaluated
  <1>13. ASSUME EndExtEval PROVE TypeOK'
    BY <1>13 DEF EndExtEval
  <1>14. CASE UNCHANGED graphVars
    BY <1>14 DEF graphVars
  <1>. QED
    BY <1>1, <1>2, <1>3, <1>4, <1>5, <1>6, <1>7, <1>8, <1>9, <1>10, <1>11,
       <1>12, <1>13, <1>14 DEF Next

\* The state of a graph always has the types of its fields, in particular no
\* user count is decremented below zero.
THEOREM TypeCorrect == Spec => []TypeOK
  BY TypeInit, TypeNext, PTL DEF Spec
-----------------------------------------------------------------------------
(* The structure of a graph *)

\* In every set of nodes there is one that none of them reads: no node reaches
\* itself through its inputs.
Acyclic ==
  health = "ok" =>
    \A S \in SUBSET Live : S # {} => \E i \in S : \A j \in S : i \notin nodes[j].ins

\* The marks of a selection that succeeded are the output node and nodes that
\* it needs, with their inputs.
MarksClosed ==
  health = "ok" /\ ~setFailed /\ out # NoId =>
    /\ out \in marks
    /\ \A i \in marks : nodes[i].live /\ nodes[i].ins \subseteq marks
    /\ \A i \in marks \ {out} : \E j \in marks : i \in nodes[j].ins

StructInv == /\ TypeOK /\ FreeListExact /\ InputsPinned /\ WidthsAgree
             /\ Acyclic /\ MarksClosed

\* Slots and their contents as before: so is the free list
LEMMA FreeKept ==
  ASSUME TypeOK, FreeListExact, health # "dead", UNCHANGED <<size, free>>,
         \A i \in Slots : nodes'[i].live = nodes[i].live
  PROVE  FreeListExact'
  <1>1. Live' = Live
    BY DEF Live
  <1>2. {i \in Slots : i < size /\ ~nodes[i].live}'
          = {i \in Slots : i < size /\ ~nodes[i].live}
    OBVIOUS
  <1>3. Elems(free)' = Elems(free)
    BY DEF Elems
  <1>. QED
    BY <1>1, <1>2, <1>3 DEF FreeListExact

\* No node gets inputs: no cycle appears
LEMMA AcyclicKept ==
  ASSUME Acyclic, health' = "ok" => health = "ok",
         \A i \in Slots : nodes'[i].live =>
            nodes[i].live /\ nodes'[i].ins = nodes[i].ins
  PROVE  Acyclic'
  <1> SUFFICES ASSUME health' = "ok", NEW S \in SUBSET (Live'), S # {}
               PROVE  \E i \in S : \A j \in S : i \notin nodes'[j].ins
    BY DEF Acyclic
  <1>1. S \subseteq Live
    BY DEF Live
  <1>2. PICK i \in S : \A j \in S : i \notin nodes[j].ins
    BY <1>1 DEF Acyclic
  <1>3. \A j \in S : nodes'[j].ins = nodes[j].ins
    BY DEF Live
  <1>. QED
    BY <1>2, <1>3

\* The marked nodes stay, with their inputs
LEMMA MarksKept ==
  ASSUME MarksClosed, health' = "ok" => health = "ok",
         UNCHANGED <<marks, out, setFailed>>, marks \subseteq Slots,
         \A i \in marks : nodes[i].live =>
            nodes'[i].live /\ nodes'[i].ins = nodes[i].ins
  PROVE  MarksClosed'
  <1> SUFFICES ASSUME health' = "ok", ~setFailed', out' # NoId
               PROVE  /\ out \in marks
                      /\ \A i \in marks : nodes'[i].live /\ nodes'[i].ins \subseteq marks
                      /\ \A i \in marks \ {out} : \E j \in marks : i \in nodes'[j].ins
    BY DEF MarksClosed, NoId
  <1>1. /\ out \in marks
        /\ \A i \in marks : nodes[i].live /\ nodes[i].ins \subseteq marks
        /\ \A i \in marks \ {out} : \E j \in marks : i \in nodes[j].ins
    BY DEF MarksClosed
  <1>2. \A i \in marks : nodes'[i].live /\ nodes'[i].ins = nodes[i].ins
    BY <1>1
  <1>. QED
    BY <1>1, <1>2

\* Nobody reads a mutable node
LEMMA MutableUnread ==
  ASSUME InputsPinned, health = "ok", NEW id \in Slots, nodes[id].mutable
  PROVE  \A i \in Live : id \notin nodes[i].ins
  BY DEF InputsPinned

\* Steps that change the length, the depth or the flags of one node, which
\* nobody reads if the length or the flag mutable changes
LEMMA OneNodeKeeps ==
  ASSUME StructInv, health # "dead", NEW id \in Slots,
         health' = health,
         UNCHANGED <<size, free, out, marks, setFailed>>,
         \A i \in Slots \ {id} : nodes'[i] = nodes[i],
         nodes'[id].live = nodes[id].live, nodes'[id].ins = nodes[id].ins,
         nodes'[id].nparsin = nodes[id].nparsin,
         health = "ok" =>
           \/ \A i \in Live : id \notin nodes[i].ins
           \/ nodes'[id].nparsout = nodes[id].nparsout /\ ~nodes'[id].mutable
  PROVE  /\ FreeListExact' /\ InputsPinned' /\ WidthsAgree'
         /\ Acyclic' /\ MarksClosed'
  <1>1. \A i \in Slots : /\ nodes'[i].live = nodes[i].live
                         /\ nodes'[i].ins = nodes[i].ins
                         /\ nodes'[i].nparsin = nodes[i].nparsin
    OBVIOUS
  <1>2. FreeListExact'
    BY <1>1, FreeKept DEF StructInv
  <1>3. Acyclic'
    BY <1>1, AcyclicKept DEF StructInv
  <1>4. MarksClosed'
    BY <1>1, MarksKept DEF StructInv, TypeOK
  <1>5. ASSUME health' = "ok", NEW i \in Live', NEW j \in nodes'[i].ins
        PROVE  /\ nodes'[j].live /\ ~nodes'[j].mutable
               /\ nodes'[i].nparsin[j] = nodes'[j].nparsout
    <2>1. i \in Live /\ i \in Slots /\ j \in nodes[i].ins
      BY <1>1, <1>5 DEF Live
    <2>2. j \in Slots
      BY <2>1 DEF StructInv, TypeOK, Node
    <2>3. /\ nodes[j].live /\ ~nodes[j].mutable
          /\ nodes[i].nparsin[j] = nodes[j].nparsout
      BY <1>5, <2>1 DEF StructInv, InputsPinned, WidthsAgree
    <2>4. CASE j = id
      BY <1>1, <1>5, <2>1, <2>3, <2>4
    <2>5. CASE j # id
      BY <1>1, <2>1, <2>2, <2>3, <2>5
    <2>. QED
      BY <2>4, <2>5
  <1>6. InputsPinned'
    BY <1>5 DEF InputsPinned
  <1>7. WidthsAgree'
    BY <1>5 DEF WidthsAgree
  <1>. QED
    BY <1>2, <1>3, <1>4, <1>6, <1>7

\* Steps that leave the nodes alone
LEMMA NodesUntouched ==
  ASSUME StructInv, UNCHANGED <<nodes, size, free, out, marks, setFailed>>,
         health' = health
  PROVE  /\ FreeListExact' /\ InputsPinned' /\ WidthsAgree'
         /\ Acyclic' /\ MarksClosed'
  <1>1. Live' = Live
    BY DEF Live
  <1>. QED
    BY <1>1 DEF StructInv, FreeListExact, InputsPinned, WidthsAgree, Acyclic,
                MarksClosed, Elems, Live

\* After a crash nothing is claimed
LEMMA DeadKeeps ==
  ASSUME health' = "dead"
  PROVE  /\ FreeListExact' /\ InputsPinned' /\ WidthsAgree'
         /\ Acyclic' /\ MarksClosed'
  BY DEF FreeListExact, InputsPinned, WidthsAgree, Acyclic, MarksClosed

LEMMA StructInit == Init => StructInv
  <1> SUFFICES ASSUME Init PROVE StructInv
    OBVIOUS
  <1>1. Live = {}
    BY DEF Init, Live, DeadNode
  <1>2. FreeListExact
    BY <1>1 DEF Init, FreeListExact, Elems, Slots
  <1>3. MarksClosed
    BY DEF Init, MarksClosed
  <1>4. InputsPinned /\ WidthsAgree /\ Acyclic
    BY <1>1 DEF InputsPinned, WidthsAgree, Acyclic
  <1>. QED
    BY TypeInit, <1>2, <1>3, <1>4 DEF StructInv

-----------------------------------------------------------------------------
(* Operations that change the structure *)

LEMMA SetInputVarsKeeps ==
  ASSUME StructInv, NEW w \in Widths, SetInputVars(w)
  PROVE  /\ FreeListExact' /\ InputsPinned' /\ WidthsAgree'
         /\ Acyclic' /\ MarksClosed'
  <1>1. CASE size = 0
    <2>1. /\ nodes' = [nodes EXCEPT ![0] = InputNode(w)] /\ size' = 1
          /\ UNCHANGED <<free, out, marks, setFailed, health>> /\ health # "dead"
      BY <1>1 DEF SetInputVars
    <2>2. Live = {} /\ Elems(free) = {}
      BY <1>1, <2>1 DEF StructInv, FreeListExact, TypeOK, Live, Slots
    <2>3. 0 \in Slots /\ nodes'[0] = InputNode(w)
      BY <2>1 DEF StructInv, TypeOK, Slots
    <2>4. \A i \in Slots : nodes'[i].live <=> i = 0
      BY <2>1, <2>2, <2>3 DEF StructInv, TypeOK, Live, InputNode, DeadNode
    <2>5. nodes'[0].ins = {}
      BY <2>3 DEF InputNode, DeadNode
    <2>6. Live' = {0}
      BY <2>3, <2>4 DEF Live
    <2>7. Elems(free') = {}
      BY <2>1, <2>2 DEF Elems
    <2>8. {i \in Slots : i < size' /\ ~nodes'[i].live} = {}
      BY <2>1, <2>4 DEF Slots
    <2>9. \A k, l \in 1 .. Len(free') : free'[k] = free'[l] => k = l
      BY <2>1 DEF StructInv, FreeListExact
    <2>10. FreeListExact'
      <3>1. \A i \in Live' : i < size'
        BY <2>1, <2>6
      <3>2. Elems(free') = {i \in Slots : i < size' /\ ~nodes'[i].live}
        BY <2>7, <2>8
      <3>. QED
        BY <2>9, <3>1, <3>2 DEF FreeListExact
    <2>11. InputsPinned' /\ WidthsAgree' /\ Acyclic'
      BY <2>5, <2>6 DEF InputsPinned, WidthsAgree, Acyclic
    <2>12. MarksClosed'
      <3> SUFFICES ASSUME health = "ok", ~setFailed, out # NoId PROVE FALSE
        BY <2>1 DEF MarksClosed, NoId
      <3>1. out \in marks /\ out \in Slots /\ nodes[out].live
        BY DEF StructInv, MarksClosed, TypeOK
      <3>. QED
        BY <2>2, <3>1 DEF Live
    <2>. QED
      BY <2>10, <2>11, <2>12
  <1>2. CASE size # 0 /\ ~nodes[0].live
    BY <1>2, DeadKeeps DEF SetInputVars
  <1>3. CASE size # 0 /\ nodes[0].live
    <2>1. /\ nodes' = [nodes EXCEPT ![0].nparsout = w, ![0].depth = 0]
          /\ nodes[0].mutable
          /\ UNCHANGED <<size, free, out, marks, setFailed, health>>
          /\ health # "dead"
      BY <1>3 DEF SetInputVars
    <2>2. /\ 0 \in Slots
          /\ \A i \in Slots \ {0} : nodes'[i] = nodes[i]
          /\ nodes'[0] = [nodes[0] EXCEPT !.nparsout = w, !.depth = 0]
      <3>1. 0 \in Slots
        BY DEF Slots
      <3>2. DOMAIN nodes = Slots
        BY DEF StructInv, TypeOK
      <3>3. nodes' = [nodes EXCEPT ![0] =
                        [nodes[0] EXCEPT !.nparsout = w, !.depth = 0]]
        BY <2>1, <3>1, <3>2
      <3>. QED
        BY <3>1, <3>2, <3>3
    <2>3. /\ nodes'[0].live = nodes[0].live /\ nodes'[0].ins = nodes[0].ins
          /\ nodes'[0].nparsin = nodes[0].nparsin
      BY <2>2 DEF StructInv, TypeOK, Node
    <2>4. health = "ok" => \A i \in Live : 0 \notin nodes[i].ins
      BY <2>1, <2>2, MutableUnread DEF StructInv
    <2>. QED
      BY <2>1, <2>2, <2>3, <2>4, OneNodeKeeps
  <1>. QED
    BY <1>1, <1>2, <1>3

\* The slot that new_node fills is empty
LEMMA NewSlotIsEmpty ==
  ASSUME StructInv, NEW ins \in SUBSET Slots, NEW w \in Widths,
         NEW learns \in BOOLEAN, NewNode(ins, w, learns)
  PROVE  /\ NewNodeId \in Slots /\ ~nodes[NewNodeId].live
         /\ size = 0 => Live = {} /\ free = <<>> /\ NewNodeId = 1
  <1> DEFINE n == NewNodeId
  <1>2. n \in Slots /\ health # "dead"
    BY DEF NewNode
  <1>3. /\ Elems(free) = {i \in Slots : i < size /\ ~nodes[i].live}
        /\ \A k, l \in 1 .. Len(free) : free[k] = free[l] => k = l
        /\ \A i \in Live : i < size
        /\ size \in Nat /\ free \in Seq(Slots)
    BY <1>2 DEF StructInv, FreeListExact, TypeOK
  <1>4. size = 0 => Live = {} /\ free = <<>> /\ n = 1
    <2> SUFFICES ASSUME size = 0 PROVE Live = {} /\ free = <<>> /\ n = 1
      OBVIOUS
    <2>1. Live = {}
      BY <1>3 DEF Live, Slots
    <2>2. Elems(free) = {}
      BY <1>3 DEF Slots
    <2>3. free = <<>>
      <3> SUFFICES ASSUME free # <<>> PROVE FALSE
        OBVIOUS
      <3>1. Len(free) \in Nat \ {0}
        BY <1>3
      <3>2. free[1] \in Elems(free)
        BY <3>1 DEF Elems
      <3>. QED
        BY <2>2, <3>2
    <2>. QED
      BY <2>1, <2>3 DEF NewNodeId
  <1>5. ~nodes[n].live
    <2>1. CASE free = <<>>
      BY <1>2, <1>3, <1>4, <2>1 DEF NewNodeId, Live
    <2>2. CASE free # <<>>
      <3>1. n \in Elems(free)
        BY <1>3, <2>2 DEF NewNodeId, Elems
      <3>. QED
        BY <1>3, <3>1
    <2>. QED
      BY <2>1, <2>2
  <1>. QED
    BY <1>2, <1>4, <1>5

LEMMA NewNodeKeeps ==
  ASSUME StructInv, NEW ins \in SUBSET Slots, NEW w \in Widths,
         NEW learns \in BOOLEAN, NewNode(ins, w, learns)
  PROVE  /\ FreeListExact' /\ InputsPinned' /\ WidthsAgree'
         /\ Acyclic' /\ MarksClosed'
         /\ \A i \in Slots : nodes[i].live =>
               nodes'[i].live /\ nodes'[i].learned = nodes[i].learned
  <1> DEFINE n == NewNodeId
  <1>1. PICK d \in 1 .. MaxSlots :
          nodes' = [i \in Slots |->
            IF i = NewNodeId THEN Fresh(ins, w, learns, d)
            ELSE IF i \in ins THEN [WithInputNode[i] EXCEPT !.mutable = FALSE]
            ELSE WithInputNode[i]]
    BY DEF NewNode
  <1>2. /\ n \in Slots /\ ins \subseteq Live /\ health # "dead"
        /\ UNCHANGED <<out, marks, setFailed, health>>
    BY DEF NewNode
  <1>3. /\ Elems(free) = {i \in Slots : i < size /\ ~nodes[i].live}
        /\ \A k, l \in 1 .. Len(free) : free[k] = free[l] => k = l
        /\ \A i \in Live : i < size
        /\ size \in Nat /\ free \in Seq(Slots)
    BY <1>2 DEF StructInv, FreeListExact, TypeOK
  <1>4. size = 0 => Live = {} /\ free = <<>> /\ n = 1
    BY NewSlotIsEmpty
  <1>5. ~nodes[n].live
    BY NewSlotIsEmpty
  <1>6. n \notin ins
    BY <1>2, <1>5 DEF Live
  <1>7. \A i \in Slots : nodes[i] \in Node
    BY DEF StructInv, TypeOK
  <1>8. nodes'[n] = Fresh(ins, w, learns, d)
    BY <1>1, <1>2
  <1>9. ASSUME NEW i \in Slots, nodes[i].live
        PROVE  /\ nodes'[i].live /\ nodes'[i].ins = nodes[i].ins
               /\ nodes'[i].nparsin = nodes[i].nparsin
               /\ nodes'[i].nparsout = nodes[i].nparsout
               /\ nodes'[i].learned = nodes[i].learned
               /\ ~nodes[i].mutable \/ i \in ins => ~nodes'[i].mutable
    <2>1. size # 0 /\ WithInputNode = nodes
      BY <1>4, <1>9 DEF Live, WithInputNode
    <2>2. i # n
      BY <1>5, <1>9
    <2>3. nodes'[i] = IF i \in ins THEN [nodes[i] EXCEPT !.mutable = FALSE]
                      ELSE nodes[i]
      BY <1>1, <2>1, <2>2
    <2>. QED
      BY <1>7, <1>9, <2>3 DEF Node
  <1>10. ASSUME NEW i \in Slots, ~nodes[i].live, i # n
         PROVE  /\ nodes'[i].live <=> (i = 0 /\ size = 0)
                /\ i = 0 /\ size = 0 => nodes'[i].ins = {}
    <2>1. nodes'[i] = WithInputNode[i]
      BY <1>1, <1>2, <1>10 DEF Live
    <2>2. CASE size = 0 /\ i = 0
      <3>1. nodes'[i] = InputNode(0)
        BY <2>1, <2>2 DEF WithInputNode, StructInv, TypeOK
      <3>. QED
        BY <2>2, <3>1 DEF InputNode, DeadNode
    <2>3. CASE ~(size = 0 /\ i = 0)
      <3>1. nodes'[i] = nodes[i]
        BY <2>1, <2>3 DEF WithInputNode, StructInv, TypeOK
      <3>. QED
        BY <1>10, <2>3, <3>1
    <2>. QED
      BY <2>2, <2>3
  <1>11. nodes'[n].live /\ nodes'[n].ins = ins
    BY <1>8 DEF Fresh
  <1>12. \A i \in Slots : nodes'[i].live <=>
            nodes[i].live \/ i = n \/ (i = 0 /\ size = 0)
    BY <1>9, <1>10, <1>11
  <1>13. FreeListExact'
    <2>1. CASE free = <<>>
      <3>1. free' = <<>> /\ size' = n + 1 /\ n = IF size = 0 THEN 1 ELSE size
        BY <2>1 DEF NewNode, NewNodeId
      <3>2. \A i \in Slots : i < size => nodes[i].live
        BY <1>3, <2>1 DEF Elems
      <3>3. \A i \in Slots : i < size' => nodes'[i].live
        BY <1>3, <1>12, <3>1, <3>2 DEF Slots
      <3>4. \A i \in Slots : nodes'[i].live => i < size'
        BY <1>3, <1>12, <3>1 DEF Slots, Live
      <3>5. {i \in Slots : i < size' /\ ~nodes'[i].live} = {}
        BY <3>3
      <3>6. Elems(free') = {}
        BY <3>1 DEF Elems
      <3>. QED
        BY <3>1, <3>4, <3>5, <3>6 DEF FreeListExact, Live, Elems
    <2>2. CASE free # <<>>
      <3>1. /\ free' = SubSeq(free, 1, Len(free) - 1) /\ size' = size
            /\ n = free[Len(free)] /\ size # 0
        BY <1>4, <2>2 DEF NewNode, NewNodeId
      <3>2. Len(free) \in Nat \ {0}
        BY <1>3, <2>2
      <3>3. /\ Len(free') = Len(free) - 1
            /\ \A k \in 1 .. Len(free) - 1 : free'[k] = free[k]
        BY <1>3, <3>1, <3>2, WithoutLast
      <3>4. Elems(free') = Elems(free) \ {n}
        <4>1. ASSUME NEW k \in 1 .. Len(free')
              PROVE  free'[k] \in Elems(free) \ {n}
          BY <1>3, <3>1, <3>2, <3>3 DEF Elems
        <4>2. ASSUME NEW k \in 1 .. Len(free), free[k] # n
              PROVE  free[k] \in Elems(free')
          <5>1. k \in 1 .. Len(free')
            BY <3>1, <3>2, <3>3, <4>2
          <5>. QED
            BY <3>3, <5>1 DEF Elems
        <4>. QED
          BY <4>1, <4>2 DEF Elems
      <3>5. {i \in Slots : i < size' /\ ~nodes'[i].live}
              = {i \in Slots : i < size /\ ~nodes[i].live} \ {n}
        BY <1>12, <3>1
      <3>6. \A k, l \in 1 .. Len(free') : free'[k] = free'[l] => k = l
        BY <1>3, <3>2, <3>3
      <3>7. n < size
        BY <1>3, <3>1, <3>2 DEF Elems
      <3>8. \A i \in Slots : nodes'[i].live => i < size'
        BY <1>3, <1>12, <3>1, <3>7 DEF Live
      <3>. QED
        BY <1>3, <3>4, <3>5, <3>6, <3>8 DEF FreeListExact, Live, Elems
    <2>. QED
      BY <2>1, <2>2
  <1>14. ASSUME health' = "ok", NEW i \in Live', NEW j \in nodes'[i].ins
         PROVE  /\ nodes'[j].live /\ ~nodes'[j].mutable
                /\ nodes'[i].nparsin[j] = nodes'[j].nparsout
    <2>1. i \in Slots /\ nodes'[i].live /\ health = "ok"
      BY <1>2, <1>14 DEF Live
    <2>2. CASE i = n
      <3>1. j \in ins /\ j \in Slots /\ nodes[j].live
        BY <1>2, <1>11, <1>14, <2>2 DEF Live
      <3>2. nodes'[i].nparsin[j] = nodes[j].nparsout
        BY <1>8, <2>2, <3>1 DEF Fresh
      <3>. QED
        BY <1>9, <3>1, <3>2
    <2>3. CASE i # n /\ nodes[i].live
      <3>1. j \in nodes[i].ins /\ j \in Slots
        BY <1>7, <1>9, <1>14, <2>1, <2>3 DEF Node
      <3>2. /\ nodes[j].live /\ ~nodes[j].mutable
            /\ nodes[i].nparsin[j] = nodes[j].nparsout
        BY <2>1, <2>3, <3>1 DEF StructInv, InputsPinned, WidthsAgree, Live
      <3>. QED
        BY <1>9, <2>1, <2>3, <3>1, <3>2
    <2>4. CASE i # n /\ ~nodes[i].live
      BY <1>10, <1>14, <2>1, <2>4
    <2>. QED
      BY <2>2, <2>3, <2>4
  <1>15. InputsPinned' /\ WidthsAgree'
    BY <1>14 DEF InputsPinned, WidthsAgree
  <1>16. Acyclic'
    <2> SUFFICES ASSUME health' = "ok", NEW S \in SUBSET (Live'), S # {}
                 PROVE  \E i \in S : \A j \in S : i \notin nodes'[j].ins
      BY DEF Acyclic
    <2>1. \A i \in Slots : n \notin nodes[i].ins \/ ~nodes[i].live
      BY <1>2, <1>5 DEF StructInv, InputsPinned, Live
    <2>2. ASSUME NEW j \in S PROVE n \notin nodes'[j].ins
      <3>1. j \in Slots /\ nodes'[j].live
        BY DEF Live
      <3>2. CASE j = n
        BY <1>6, <1>11, <3>2
      <3>3. CASE nodes[j].live
        BY <1>9, <2>1, <3>1, <3>3
      <3>4. CASE j # n /\ ~nodes[j].live
        BY <1>10, <3>1, <3>4
      <3>. QED
        BY <3>2, <3>3, <3>4
    <2>3. CASE n \in S
      BY <2>2, <2>3
    <2>4. CASE n \notin S /\ size = 0
      <3>1. \A j \in S : nodes'[j].ins = {}
        BY <1>4, <1>10, <1>12, <2>4 DEF Live
      <3>. QED
        BY <3>1
    <2>5. CASE n \notin S /\ size # 0
      <3>1. S \subseteq Live
        BY <1>12, <2>5 DEF Live
      <3>2. PICK i \in S : \A j \in S : i \notin nodes[j].ins
        BY <1>2, <3>1 DEF StructInv, Acyclic
      <3>3. \A j \in S : nodes'[j].ins = nodes[j].ins
        BY <1>9, <3>1 DEF Live
      <3>. QED
        BY <3>2, <3>3
    <2>. QED
      BY <2>3, <2>4, <2>5
  <1>17. MarksClosed'
    BY <1>2, <1>9, MarksKept DEF StructInv, TypeOK
  <1>. QED
    BY <1>9, <1>13, <1>15, <1>16, <1>17

LEMMA DeleteNodeKeeps ==
  ASSUME StructInv, NEW id \in Slots, DeleteNode(id)
  PROVE  /\ FreeListExact' /\ InputsPinned' /\ WidthsAgree'
         /\ Acyclic' /\ MarksClosed'
  <1>1. /\ health # "dead" /\ nodes[id].live /\ nodes[id].mutable
        /\ out' = IF id = out THEN NoId ELSE out
        /\ nodes' = [nodes EXCEPT ![id] = DeadNode]
        /\ free' = Append(free, id)
        /\ UNCHANGED <<size, marks, setFailed, health>>
    BY DEF DeleteNode, Live
  <1>2. /\ \A i \in Slots \ {id} : nodes'[i] = nodes[i]
        /\ ~nodes'[id].live
    BY <1>1 DEF StructInv, TypeOK, DeadNode
  <1>3. \A i \in Slots : nodes'[i].live =>
           i # id /\ nodes[i].live /\ nodes'[i] = nodes[i]
    BY <1>2
  <1>4. FreeListExact'
    <2>1. /\ Elems(free) = {i \in Slots : i < size /\ ~nodes[i].live}
          /\ \A k, l \in 1 .. Len(free) : free[k] = free[l] => k = l
          /\ \A i \in Live : i < size
          /\ free \in Seq(Slots) /\ Len(free) \in Nat
      <3>1. free \in Seq(Slots)
        BY DEF StructInv, TypeOK
      <3>2. FreeListExact
        BY DEF StructInv
      <3>. QED
        BY <1>1, <3>1, <3>2 DEF FreeListExact
    <2>2. /\ Len(free') = Len(free) + 1 /\ free'[Len(free) + 1] = id
          /\ \A k \in 1 .. Len(free) : free'[k] = free[k]
      BY <1>1, <2>1
    <2>3. Elems(free') = Elems(free) \cup {id}
      <3>1. \A k \in 1 .. Len(free') : free'[k] \in Elems(free) \cup {id}
        BY <2>1, <2>2 DEF Elems
      <3>2. \A k \in 1 .. Len(free) : free[k] \in Elems(free')
        BY <2>1, <2>2 DEF Elems
      <3>3. id \in Elems(free')
        BY <2>1, <2>2 DEF Elems
      <3>. QED
        BY <3>1, <3>2, <3>3 DEF Elems
    <2>4. id < size
      BY <1>1, <2>1 DEF Live
    <2>5. {i \in Slots : i < size' /\ ~nodes'[i].live}
            = {i \in Slots : i < size /\ ~nodes[i].live} \cup {id}
      BY <1>1, <1>2, <2>4
    <2>6. \A k \in 1 .. Len(free) : free[k] # id
      BY <1>1, <2>1 DEF Elems
    <2>7. \A k, l \in 1 .. Len(free') : free'[k] = free'[l] => k = l
      BY <2>1, <2>2, <2>6
    <2>8. \A i \in Live' : i < size'
      BY <1>1, <1>3, <2>1 DEF Live
    <2>9. Elems(free') = {i \in Slots : i < size' /\ ~nodes'[i].live}
      BY <2>1, <2>3, <2>5
    <2>. QED
      BY <2>7, <2>8, <2>9 DEF FreeListExact
  <1>5. health = "ok" => \A i \in Live : id \notin nodes[i].ins
    BY <1>1, MutableUnread DEF StructInv
  <1>6. ASSUME health' = "ok", NEW i \in Live', NEW j \in nodes'[i].ins
        PROVE  /\ nodes'[j].live /\ ~nodes'[j].mutable
               /\ nodes'[i].nparsin[j] = nodes'[j].nparsout
    <2>1. i \in Live /\ nodes'[i] = nodes[i] /\ j \in nodes[i].ins
      BY <1>3, <1>6 DEF Live
    <2>2. j \in Slots /\ j # id
      BY <1>1, <1>5, <1>6, <2>1 DEF StructInv, TypeOK, Node, Live
    <2>3. nodes'[j] = nodes[j]
      BY <1>2, <2>2
    <2>. QED
      BY <1>1, <1>6, <2>1, <2>3 DEF StructInv, InputsPinned, WidthsAgree
  <1>7. InputsPinned' /\ WidthsAgree'
    BY <1>6 DEF InputsPinned, WidthsAgree
  <1>8. Acyclic'
    BY <1>1, <1>3, AcyclicKept DEF StructInv
  <1>9. MarksClosed'
    <2>1. CASE id = out \/ out = NoId
      BY <1>1, <2>1 DEF MarksClosed, NoId
    <2>2. CASE id # out /\ out # NoId
      <3> SUFFICES ASSUME health = "ok", ~setFailed
                   PROVE  MarksClosed'
        BY <1>1 DEF MarksClosed
      <3>1. out' = out
        BY <1>1, <2>2
      <3>2. \A i \in marks \ {out} : \E j \in marks :
              nodes[j].live /\ i \in nodes[j].ins
        BY <2>2 DEF StructInv, MarksClosed
      <3>3. id \notin marks
        BY <1>5, <2>2, <3>2 DEF Live, StructInv, TypeOK
      <3>4. \A i \in marks : nodes'[i] = nodes[i]
        BY <1>2, <3>3 DEF StructInv, TypeOK
      <3>. QED
        BY <1>1, <3>1, <3>4, MarksKept DEF StructInv, TypeOK
    <2>. QED
      BY <2>1, <2>2
  <1>. QED
    BY <1>4, <1>7, <1>8, <1>9

\* What a node depends on: itself, inputs of members, and nothing else
LEMMA DepsClosed ==
  ASSUME TypeOK, NEW id \in Slots
  PROVE  /\ id \in Deps(id)
         /\ \A i \in Deps(id) : nodes[i].ins \subseteq Deps(id)
         /\ \A i \in Deps(id) \ {id} : \E j \in Deps(id) : i \in nodes[j].ins
  <1>1. id \in Deps(id)
    BY DEF Deps
  <1>2. ASSUME NEW i \in Deps(id), NEW j \in nodes[i].ins
        PROVE  j \in Deps(id)
    <2>1. i \in Slots /\ j \in Slots
      BY <1>2, DepsInSlots DEF TypeOK, Node
    <2>2. ASSUME NEW S \in SUBSET Slots, id \in S, Closed(S)
          PROVE  j \in S
      BY <1>2, <2>2 DEF Deps, Closed
    <2>. QED
      BY <2>1, <2>2 DEF Deps
  <1>3. ASSUME NEW i \in Deps(id) \ {id},
               \A j \in Deps(id) : i \notin nodes[j].ins
        PROVE  FALSE
    <2> DEFINE S == Deps(id) \ {i}
    <2>1. S \in SUBSET Slots /\ id \in S
      BY <1>1, DepsInSlots
    <2>2. Closed(S)
      BY <1>2, <1>3 DEF Closed
    <2>. QED
      BY <2>1, <2>2 DEF Deps
  <1>. QED
    BY <1>1, <1>2, <1>3

LEMMA SetOutputNodeKeeps ==
  ASSUME StructInv, NEW id \in Slots, SetOutputNode(id)
  PROVE  /\ FreeListExact' /\ InputsPinned' /\ WidthsAgree'
         /\ Acyclic' /\ MarksClosed'
  <1>1. CASE \E i \in Deps(id) : ~nodes[i].live
    BY <1>1, DeadKeeps DEF SetOutputNode, Die
  <1>2. CASE \A i \in Deps(id) : nodes[i].live
    <2>1. UNCHANGED <<nodes, size, free, health>> /\ marks' = Deps(id)
      BY <1>2 DEF SetOutputNode
    <2>2. Live' = Live
      BY <2>1 DEF Live
    <2>3. FreeListExact' /\ InputsPinned' /\ WidthsAgree' /\ Acyclic'
      BY <2>1, <2>2 DEF StructInv, FreeListExact, InputsPinned, WidthsAgree,
                        Acyclic, Elems
    <2>4. setFailed' \/ out' = id
      BY <1>2 DEF SetOutputNode
    <2>5. MarksClosed'
      <3>1. CASE setFailed'
        BY <3>1 DEF MarksClosed
      <3>2. CASE out' = id
        <4>1. /\ id \in Deps(id)
              /\ \A i \in Deps(id) : nodes[i].live /\ nodes[i].ins \subseteq Deps(id)
              /\ \A i \in Deps(id) \ {id} : \E j \in Deps(id) : i \in nodes[j].ins
          BY <1>2, DepsClosed DEF StructInv
        <4>2. PICK D \in SUBSET Slots : D = Deps(id)
          BY DepsInSlots
        <4>. QED
          BY <2>1, <3>2, <4>1, <4>2 DEF MarksClosed
      <3>. QED
        BY <2>4, <3>1, <3>2
    <2>. QED
      BY <2>3, <2>5
  <1>. QED
    BY <1>1, <1>2

\* The nodes that prune_graph erases are listed once each
LEMMA AscendingLists ==
  ASSUME NEW S \in SUBSET Slots, NEW s \in Ascending(S)
  PROVE  /\ s \in Seq(Slots) /\ Elems(s) = S
         /\ \A k, l \in 1 .. Len(s) : s[k] = s[l] => k = l
  <1>1. s \in Listings(S) /\ \A k, l \in DOMAIN s : k < l => s[k] < s[l]
    BY DEF Ascending
  <1>2. s \in Seq(Slots)
    BY <1>1, ListingIsSeq
  <1>3. Elems(s) = S
    BY <1>1 DEF Listings
  <1>4. ASSUME NEW k \in 1 .. Len(s), NEW l \in 1 .. Len(s), s[k] = s[l]
        PROVE  k = l
    <2>1. k \in DOMAIN s /\ l \in DOMAIN s /\ k \in Int /\ l \in Int
      BY <1>2
    <2>2. s[k] \in Int /\ s[l] \in Int
      BY <1>2 DEF Slots
    <2>3. ~(k < l) /\ ~(l < k)
      BY <1>1, <1>4, <2>1, <2>2
    <2>. QED
      BY <2>1, <2>3
  <1>. QED
    BY <1>2, <1>3, <1>4

LEMMA PruneGraphKeeps ==
  ASSUME StructInv, PruneGraph
  PROVE  /\ FreeListExact' /\ InputsPinned' /\ WidthsAgree'
         /\ Acyclic' /\ MarksClosed'
  <1>1. CASE Die
    BY <1>1, DeadKeeps DEF Die
  <1>2. CASE ~Die
    <2>1. PICK garbage \in SUBSET Unmarkable :
            /\ out # NoId /\ out \notin Removed(garbage)
            /\ nodes' = Pruned(Removed(garbage))
            /\ \E s \in Ascending(Removed(garbage)) : free' = free \o s
            /\ health' = IF Unmarkable # {} \/ setFailed
                         THEN "astray" ELSE health
            /\ UNCHANGED <<size, out, marks, marksSize, seq, gMutable,
                           gLearned, gNout, subUsers, extUsers, setFailed>>
      BY <1>2 DEF PruneGraph
    <2>2. PICK R \in SUBSET Slots : R = Removed(garbage)
      BY DEF Removed
    <2>3. health # "dead" /\ \A i \in Slots : i < size => nodes[i].live
      BY <1>2 DEF PruneGraph
    <2>4. \A i \in Live : i < size
      BY <2>3 DEF StructInv, FreeListExact
    <2>5. nodes' = [i \in Slots |-> IF i \in R THEN DeadNode
                      ELSE IF i = out THEN [nodes[i] EXCEPT !.mutable = TRUE]
                      ELSE nodes[i]]
      BY <2>1, <2>2 DEF Pruned
    <2>6. \A i \in Slots : nodes[i] \in Node
      BY DEF StructInv, TypeOK
    <2>7. ASSUME NEW i \in Slots, i \notin R
          PROVE  /\ nodes'[i].live = nodes[i].live
                 /\ nodes'[i].ins = nodes[i].ins
                 /\ nodes'[i].nparsin = nodes[i].nparsin
                 /\ nodes'[i].nparsout = nodes[i].nparsout
                 /\ i # out => nodes'[i].mutable = nodes[i].mutable
      BY <2>5, <2>6, <2>7 DEF Node
    <2>8. \A i \in R : ~nodes'[i].live /\ i < size
      BY <2>2, <2>5 DEF DeadNode, Removed
    <2>9. FreeListExact'
      <3>1. PICK s \in Ascending(R) : free' = free \o s
        BY <2>1, <2>2
      <3>2. free = <<>>
        <4>1. Elems(free) = {}
          BY <2>3 DEF StructInv, FreeListExact
        <4>2. free \in Seq(Slots)
          BY DEF StructInv, TypeOK
        <4> SUFFICES ASSUME free # <<>> PROVE FALSE
          OBVIOUS
        <4>3. Len(free) \in Nat \ {0}
          BY <4>2
        <4>. QED
          BY <4>1, <4>3 DEF Elems
      <3>3. free' = s
        BY <3>1, <3>2, AscendingLists
      <3>4. Elems(free') = R /\ \A k, l \in 1 .. Len(free') : free'[k] = free'[l] => k = l
        BY <3>3, AscendingLists
      <3>5. {i \in Slots : i < size' /\ ~nodes'[i].live} = R
        BY <2>1, <2>3, <2>7, <2>8
      <3>6. \A i \in Live' : i < size'
        BY <2>1, <2>4, <2>7, <2>8 DEF Live
      <3>. QED
        BY <3>4, <3>5, <3>6 DEF FreeListExact
    <2>10. CASE health' # "ok"
      BY <2>9, <2>10 DEF InputsPinned, WidthsAgree, Acyclic, MarksClosed
    <2>11. CASE health' = "ok"
      <3>1. health = "ok" /\ Unmarkable = {} /\ ~setFailed
        BY <2>1, <2>11
      <3>2. /\ out \in marks /\ marks \subseteq Slots
            /\ \A i \in marks : nodes[i].live /\ nodes[i].ins \subseteq marks
            /\ \A i \in marks \ {out} : \E j \in marks : i \in nodes[j].ins
        BY <2>1, <3>1 DEF StructInv, MarksClosed, TypeOK
      <3>3. \A i \in Slots : i < size => i < marksSize
        <4> SUFFICES ASSUME NEW i \in Slots, i < size, ~(i < marksSize)
                     PROVE  FALSE
          OBVIOUS
        <4>1. i \in Int /\ marksSize \in Int
          BY DEF Slots, StructInv, TypeOK
        <4>2. i \in Unmarkable
          BY <4>1 DEF Unmarkable
        <4>. QED
          BY <3>1, <4>2
      <3>4. \A i \in marks : i \notin R
        BY <2>2, <2>4, <3>2, <3>3 DEF Removed, Live
      <3>5. \A i \in Live' : i \in marks /\ i \notin R
        BY <2>1, <2>2, <2>4, <2>7, <2>8, <3>1 DEF Removed, Live
      <3>6. \A i \in marks : out \notin nodes[i].ins
        <4>1. marks \in SUBSET Live /\ marks # {}
          BY <3>2 DEF Live
        <4>2. PICK i \in marks : \A j \in marks : i \notin nodes[j].ins
          BY <3>1, <4>1 DEF StructInv, Acyclic
        <4>3. i = out
          BY <3>2, <4>2
        <4>. QED
          BY <4>2, <4>3
      <3>7. ASSUME NEW i \in Live', NEW j \in nodes'[i].ins
            PROVE  /\ nodes'[j].live /\ ~nodes'[j].mutable
                   /\ nodes'[i].nparsin[j] = nodes'[j].nparsout
        <4>1. i \in marks /\ i \in Slots /\ i \in Live /\ i \notin R
          BY <3>2, <3>5 DEF Live
        <4>2. j \in nodes[i].ins /\ j \in marks /\ j \notin R /\ j \in Slots
          BY <2>7, <3>2, <3>4, <4>1
        <4>3. j # out
          BY <3>6, <4>1, <4>2
        <4>4. /\ nodes[j].live /\ ~nodes[j].mutable
              /\ nodes[i].nparsin[j] = nodes[j].nparsout
          BY <3>1, <4>1, <4>2 DEF StructInv, InputsPinned, WidthsAgree
        <4>. QED
          BY <2>7, <4>1, <4>2, <4>3, <4>4
      <3>8. InputsPinned' /\ WidthsAgree'
        BY <3>7 DEF InputsPinned, WidthsAgree
      <3>9. Acyclic'
        BY <2>7, <2>8, <3>1, AcyclicKept DEF StructInv
      <3>10. MarksClosed'
        BY <2>1, <2>7, <3>1, <3>2, <3>4, MarksKept DEF StructInv
      <3>. QED
        BY <2>9, <3>8, <3>9, <3>10
    <2>. QED
      BY <2>10, <2>11
  <1>. QED
    BY <1>1, <1>2

-----------------------------------------------------------------------------
(* Every step *)

LEMMA LearnKeeps ==
  ASSUME StructInv, NEW ok \in BOOLEAN, NEW w \in Widths, NEW g \in Widths,
         Learn(ok, w, g)
  PROVE  /\ FreeListExact' /\ InputsPinned' /\ WidthsAgree'
         /\ Acyclic' /\ MarksClosed'
  <1>1. CASE Die
    BY <1>1, DeadKeeps DEF Die
  <1>2. CASE ~Die
    <2>1. out \in Slots /\ nodes[out].mutable /\ health # "dead"
      BY DEF Learn, CanBeEvaluated, StructInv, TypeOK
    <2>2. UNCHANGED <<size, free, out, marks, setFailed, health>>
      BY <1>2 DEF Learn
    <2>3. DOMAIN nodes = Slots /\ nodes[out] \in Node
      BY <2>1 DEF StructInv, TypeOK
    <2>4. PICK m \in {[nodes[out] EXCEPT !.learned = TRUE],
                      [nodes[out] EXCEPT !.learned = ok, !.nparsout = w]} :
            nodes' = [nodes EXCEPT ![out] = m]
      BY <1>2, <2>1, <2>3 DEF Learn
    <2>5. /\ m.live = nodes[out].live /\ m.ins = nodes[out].ins
          /\ m.nparsin = nodes[out].nparsin
      BY <2>3, <2>4 DEF Node
    <2>6. /\ \A i \in Slots \ {out} : nodes'[i] = nodes[i]
          /\ nodes'[out] = m
      BY <2>1, <2>3, <2>4
    <2>7. health = "ok" => \A i \in Live : out \notin nodes[i].ins
      BY <2>1, MutableUnread DEF StructInv
    <2>. QED
      BY <2>1, <2>2, <2>5, <2>6, <2>7, OneNodeKeeps
  <1>. QED
    BY <1>1, <1>2

LEMMA StructNext == StructInv /\ [Next]_graphVars => StructInv'
  <1> SUFFICES ASSUME StructInv, [Next]_graphVars
               PROVE  /\ FreeListExact' /\ InputsPinned' /\ WidthsAgree'
                      /\ Acyclic' /\ MarksClosed'
    BY TypeNext DEF StructInv
  <1>1. ASSUME NEW w \in Widths, SetInputVars(w)
        PROVE  FreeListExact' /\ InputsPinned' /\ WidthsAgree' /\ Acyclic' /\ MarksClosed'
    BY <1>1, SetInputVarsKeeps
  <1>2. ASSUME NEW ins \in SUBSET Slots, NEW w \in Widths,
               NEW learns \in BOOLEAN, NewNode(ins, w, learns)
        PROVE  FreeListExact' /\ InputsPinned' /\ WidthsAgree' /\ Acyclic' /\ MarksClosed'
    BY <1>2, NewNodeKeeps
  <1>3. ASSUME NEW id \in Slots, DeleteNode(id)
        PROVE  FreeListExact' /\ InputsPinned' /\ WidthsAgree' /\ Acyclic' /\ MarksClosed'
    BY <1>3, DeleteNodeKeeps
  <1>4. ASSUME NEW id \in Slots, SetOutputNode(id)
        PROVE  FreeListExact' /\ InputsPinned' /\ WidthsAgree' /\ Acyclic' /\ MarksClosed'
    BY <1>4, SetOutputNodeKeeps
  <1>5. CASE Evaluate
    BY <1>5, DeadKeeps DEF Evaluate, Die
  <1>6. ASSUME NEW ok \in BOOLEAN, NEW w \in Widths, NEW g \in Widths,
               Learn(ok, w, g)
        PROVE  FreeListExact' /\ InputsPinned' /\ WidthsAgree' /\ Acyclic' /\ MarksClosed'
    BY <1>6, LearnKeeps
  <1>7. ASSUME NEW id \in Slots, NEW w \in Widths, ResetNeededVars(id, w)
        PROVE  FreeListExact' /\ InputsPinned' /\ WidthsAgree' /\ Acyclic' /\ MarksClosed'
    <2>1. /\ health # "dead" /\ nodes[id].mutable
          /\ nodes' = [nodes EXCEPT ![id].nparsout = w]
          /\ UNCHANGED <<size, free, out, marks, setFailed, health>>
      BY <1>7 DEF ResetNeededVars
    <2>2. nodes[id] \in Node /\ DOMAIN nodes = Slots
      BY DEF StructInv, TypeOK
    <2>3. /\ \A i \in Slots \ {id} : nodes'[i] = nodes[i]
          /\ nodes'[id].live = nodes[id].live /\ nodes'[id].ins = nodes[id].ins
          /\ nodes'[id].nparsin = nodes[id].nparsin
      BY <2>1, <2>2 DEF Node
    <2>4. health = "ok" => \A i \in Live : id \notin nodes[i].ins
      BY <2>1, MutableUnread DEF StructInv
    <2>. QED
      BY <2>1, <2>3, <2>4, OneNodeKeeps
  <1>8. ASSUME NEW id \in Slots, SetNodeMutable(id)
        PROVE  FreeListExact' /\ InputsPinned' /\ WidthsAgree' /\ Acyclic' /\ MarksClosed'
    <2>1. /\ health # "dead" /\ ~Used(id)
          /\ nodes' = [nodes EXCEPT ![id].mutable = TRUE]
          /\ UNCHANGED <<size, free, out, marks, setFailed, health>>
      BY <1>8 DEF SetNodeMutable
    <2>2. nodes[id] \in Node /\ DOMAIN nodes = Slots
      BY DEF StructInv, TypeOK
    <2>3. /\ \A i \in Slots \ {id} : nodes'[i] = nodes[i]
          /\ nodes'[id].live = nodes[id].live /\ nodes'[id].ins = nodes[id].ins
          /\ nodes'[id].nparsin = nodes[id].nparsin
      BY <2>1, <2>2 DEF Node
    <2>4. \A i \in Live : id \notin nodes[i].ins
      BY <2>1 DEF Used
    <2>. QED
      BY <2>1, <2>3, <2>4, OneNodeKeeps
  <1>9. CASE PruneGraph
    BY <1>9, PruneGraphKeeps
  <1>10. CASE UseAsSubgraph
    <2>1. /\ health # "dead"
          /\ UNCHANGED <<size, free, out, marks, setFailed, health>>
      BY <1>10 DEF UseAsSubgraph
    <2>2. CASE out = NoId
      BY <1>10, <2>1, <2>2, NodesUntouched DEF UseAsSubgraph
    <2>3. CASE out # NoId
      <3>1. out \in Slots /\ nodes' = [nodes EXCEPT ![out].mutable = FALSE]
        BY <1>10, <2>3 DEF UseAsSubgraph, StructInv, TypeOK
      <3>2. nodes[out] \in Node /\ DOMAIN nodes = Slots
        BY <3>1 DEF StructInv, TypeOK
      <3>3. /\ \A i \in Slots \ {out} : nodes'[i] = nodes[i]
            /\ nodes'[out].live = nodes[out].live
            /\ nodes'[out].ins = nodes[out].ins
            /\ nodes'[out].nparsin = nodes[out].nparsin
            /\ nodes'[out].nparsout = nodes[out].nparsout
            /\ ~nodes'[out].mutable
        BY <3>1, <3>2 DEF Node
      <3>. QED
        BY <2>1, <3>1, <3>3, OneNodeKeeps
    <2>. QED
      BY <2>2, <2>3
  <1>11. CASE DropSubgraph
    BY <1>11, NodesUntouched DEF DropSubgraph
  <1>12. CASE BeginExtEval
    BY <1>12, NodesUntouched DEF BeginExtEval
  <1>13. CASE EndExtEval
    BY <1>13, NodesUntouched DEF EndExtEval
  <1>14. CASE UNCHANGED graphVars
    BY <1>14, NodesUntouched DEF graphVars
  <1>. QED
    BY <1>1, <1>2, <1>3, <1>4, <1>5, <1>6, <1>7, <1>8, <1>9, <1>10, <1>11,
       <1>12, <1>13, <1>14 DEF Next

LEMMA StructCorrect == Spec => []StructInv
  BY StructInit, StructNext, PTL DEF Spec

\* The free list is exact after any sequence of calls: no slot is lost or given
\* away twice by new_node, delete_node and prune_graph.
THEOREM SlotsAccountedFor == Spec => []FreeListExact
  <1>1. StructInv => FreeListExact
    BY DEF StructInv
  <1>. QED
    BY <1>1, StructCorrect, PTL

\* No call removes a node that another one reads, or makes it mutable.
THEOREM InputsStay == Spec => []InputsPinned
  <1>1. StructInv => InputsPinned
    BY DEF StructInv
  <1>. QED
    BY <1>1, StructCorrect, PTL

\* A node reads each input with the length that it has.
THEOREM LengthsMatch == Spec => []WidthsAgree
  <1>1. StructInv => WidthsAgree
    BY DEF StructInv
  <1>. QED
    BY <1>1, StructCorrect, PTL

-----------------------------------------------------------------------------
(* What has learned *)

\* The output node is there, and the flag of the graph is its flag
OutKnown == out # NoId => nodes[out].live /\ gLearned = nodes[out].learned

\* The nodes that a successful selection has marked have learned
MarksLearned ==
  health = "ok" /\ ~setFailed /\ out # NoId =>
    \A i \in marks \ {out} : nodes[i].learned

ReadyInv == StructInv /\ OutKnown /\ MarksLearned

\* Output node and marked nodes keep their flags
LEMMA FlagsKept ==
  ASSUME ReadyInv, UNCHANGED <<out, marks, setFailed, gLearned>>,
         health' = "ok" => health = "ok",
         out # NoId => /\ nodes'[out].live
                       /\ nodes'[out].learned = nodes[out].learned,
         health' = "ok" => \A i \in marks : nodes[i].live =>
                              nodes'[i].learned = nodes[i].learned
  PROVE  OutKnown' /\ MarksLearned'
  <1>1. OutKnown'
    BY DEF ReadyInv, OutKnown, NoId
  <1>2. MarksLearned'
    <2> SUFFICES ASSUME health' = "ok", ~setFailed, out # NoId,
                        NEW i \in marks \ {out}
                 PROVE  nodes'[i].learned
      BY DEF MarksLearned, NoId
    <2>1. nodes[i].live /\ nodes[i].learned
      BY DEF ReadyInv, StructInv, MarksClosed, MarksLearned
    <2>. QED
      BY <2>1
  <1>. QED
    BY <1>1, <1>2

LEMMA ReadyInit == Init => ReadyInv
  BY StructInit DEF Init, ReadyInv, OutKnown, MarksLearned

LEMMA LearnReady ==
  ASSUME ReadyInv, NEW ok \in BOOLEAN, NEW w \in Widths, NEW g \in Widths,
         Learn(ok, w, g)
  PROVE  OutKnown' /\ MarksLearned'
  <1>1. CASE Die
    BY <1>1, FlagsKept DEF Die, ReadyInv, OutKnown
  <1>2. CASE ~Die
    <2>1. /\ out \in Slots /\ out # NoId
          /\ UNCHANGED <<out, marks, setFailed, health>>
      BY <1>2 DEF Learn, CanBeEvaluated, ReadyInv, StructInv, TypeOK
    <2>2. DOMAIN nodes = Slots /\ nodes[out] \in Node /\ nodes[out].live
      BY <2>1 DEF ReadyInv, StructInv, TypeOK, OutKnown
    <2>3. PICK m \in {[nodes[out] EXCEPT !.learned = TRUE],
                      [nodes[out] EXCEPT !.learned = ok, !.nparsout = w]} :
            nodes' = [nodes EXCEPT ![out] = m] /\ gLearned' = m.learned
      <3>1. CASE nodes[out].learns
        <4>1. /\ nodes' = [nodes EXCEPT ![out].learned = ok, ![out].nparsout = w]
              /\ gLearned' = ok
          BY <1>2, <3>1 DEF Learn
        <4>2. [nodes[out] EXCEPT !.learned = ok, !.nparsout = w].learned = ok
          BY <2>2 DEF Node
        <4>3. nodes' = [nodes EXCEPT ![out] =
                          [nodes[out] EXCEPT !.learned = ok, !.nparsout = w]]
          BY <2>1, <2>2, <4>1
        <4>. QED
          BY <4>1, <4>2, <4>3
      <3>2. CASE ~nodes[out].learns
        <4>1. nodes' = [nodes EXCEPT ![out].learned = TRUE] /\ gLearned' = TRUE
          BY <3>2 DEF Learn
        <4>2. [nodes[out] EXCEPT !.learned = TRUE].learned = TRUE
          BY <2>2 DEF Node
        <4>. QED
          BY <4>1, <4>2
      <3>. QED
        BY <3>1, <3>2
    <2>4. m.live
      BY <2>2, <2>3 DEF Node
    <2>5. nodes'[out] = m /\ \A i \in Slots \ {out} : nodes'[i] = nodes[i]
      BY <2>1, <2>2, <2>3
    <2>6. OutKnown'
      BY <2>1, <2>3, <2>4, <2>5 DEF OutKnown
    <2>7. MarksLearned'
      BY <2>1, <2>5 DEF MarksLearned, ReadyInv, StructInv, TypeOK, NoId
    <2>. QED
      BY <2>6, <2>7
  <1>. QED
    BY <1>1, <1>2

LEMMA SetOutputNodeReady ==
  ASSUME ReadyInv, NEW id \in Slots, SetOutputNode(id)
  PROVE  OutKnown' /\ MarksLearned'
  <1>1. CASE \E i \in Deps(id) : ~nodes[i].live
    BY <1>1, FlagsKept DEF SetOutputNode, Die, ReadyInv, OutKnown
  <1>2. CASE \A i \in Deps(id) : nodes[i].live
    <2>1. nodes' = nodes /\ health' = health /\ marks' = Deps(id)
      BY <1>2 DEF SetOutputNode
    <2>2. CASE NotLearned(id) = {} /\ out' = id
                 /\ gLearned' = nodes[id].learned
      <3>1. nodes[id].live
        BY DEF SetOutputNode, Live
      <3>2. \A i \in Deps(id) \ {id} : nodes[i].learned
        BY <2>2 DEF NotLearned
      <3>3. PICK D \in SUBSET Slots : D = Deps(id)
        BY DepsInSlots
      <3>. QED
        BY <2>1, <2>2, <3>1, <3>2, <3>3 DEF OutKnown, MarksLearned
    <2>3. CASE setFailed' /\ out' = out /\ gLearned' = gLearned
      BY <2>1, <2>3 DEF ReadyInv, OutKnown, MarksLearned, NoId
    <2>. QED
      BY <1>2, <2>2, <2>3 DEF SetOutputNode
  <1>. QED
    BY <1>1, <1>2

LEMMA PruneGraphReady ==
  ASSUME ReadyInv, PruneGraph
  PROVE  OutKnown' /\ MarksLearned'
  <1>1. CASE Die
    BY <1>1, FlagsKept DEF Die, ReadyInv, OutKnown
  <1>2. CASE ~Die
    <2>1. PICK garbage \in SUBSET Unmarkable :
            /\ out # NoId /\ out \notin Removed(garbage)
            /\ nodes' = Pruned(Removed(garbage))
            /\ health' = IF Unmarkable # {} \/ setFailed
                         THEN "astray" ELSE health
            /\ UNCHANGED <<size, out, marks, marksSize, seq, gMutable,
                           gLearned, gNout, subUsers, extUsers, setFailed>>
      BY <1>2 DEF PruneGraph
    <2>2. PICK R \in SUBSET Slots : R = Removed(garbage)
      BY DEF Removed
    <2>3. nodes' = [i \in Slots |-> IF i \in R THEN DeadNode
                      ELSE IF i = out THEN [nodes[i] EXCEPT !.mutable = TRUE]
                      ELSE nodes[i]]
      BY <2>1, <2>2 DEF Pruned
    <2>4. ASSUME NEW i \in Slots, i \notin R
          PROVE  /\ nodes'[i].live = nodes[i].live
                 /\ nodes'[i].learned = nodes[i].learned
      <3>1. nodes[i] \in Node
        BY DEF ReadyInv, StructInv, TypeOK
      <3>. QED
        BY <2>3, <2>4, <3>1 DEF Node
    <2>5. /\ nodes'[out].live
          /\ nodes'[out].learned = nodes[out].learned
      BY <2>1, <2>2, <2>4 DEF ReadyInv, OutKnown, StructInv, TypeOK
    <2>6. ASSUME health' = "ok", NEW i \in marks, nodes[i].live
          PROVE  nodes'[i].learned = nodes[i].learned
      <3>1. i \in Slots /\ Unmarkable = {} /\ health # "dead"
        BY <2>1, <2>6 DEF ReadyInv, StructInv, TypeOK, PruneGraph
      <3>2. i < size
        BY <2>6, <3>1 DEF ReadyInv, StructInv, FreeListExact, Live
      <3>3. i < marksSize
        <4>1. i \in Int /\ marksSize \in Int
          BY <3>1 DEF Slots, ReadyInv, StructInv, TypeOK
        <4>. QED
          BY <3>1, <3>2, <4>1 DEF Unmarkable
      <3>4. i \notin R
        BY <2>2, <2>6, <3>3 DEF Removed
      <3>. QED
        BY <2>4, <3>1, <3>4
    <2>. QED
      BY <2>1, <2>5, <2>6, FlagsKept
  <1>. QED
    BY <1>1, <1>2

LEMMA ReadyNext == ReadyInv /\ [Next]_graphVars => ReadyInv'
  <1> SUFFICES ASSUME ReadyInv, [Next]_graphVars PROVE OutKnown' /\ MarksLearned'
    BY StructNext DEF ReadyInv
  <1>0. /\ DOMAIN nodes = Slots /\ \A i \in Slots : nodes[i] \in Node
        /\ marks \subseteq Slots /\ out \in Slots \cup {NoId}
        /\ out # NoId => out \in Slots /\ nodes[out].live
        /\ \A i \in Slots : nodes[i].live /\ health # "dead" => i < size
    BY DEF ReadyInv, StructInv, TypeOK, OutKnown, FreeListExact, Live
  <1>1. ASSUME NEW w \in Widths, SetInputVars(w)
        PROVE  OutKnown' /\ MarksLearned'
    <2>1. /\ UNCHANGED <<out, marks, setFailed, gLearned>> /\ health # "dead"
          /\ health' = "ok" => health = "ok"
      BY <1>1 DEF SetInputVars
    <2>2. ASSUME NEW i \in Slots, nodes[i].live
          PROVE  nodes'[i].live /\ nodes'[i].learned = nodes[i].learned
      <3>1. i < size /\ i \in Nat
        BY <1>0, <2>1, <2>2 DEF Slots
      <3>2. size # 0
        BY <3>1
      <3>3. CASE nodes' = nodes
        BY <2>2, <3>3
      <3>4. CASE nodes' = [nodes EXCEPT ![0].nparsout = w, ![0].depth = 0]
        <4>1. nodes' = [nodes EXCEPT ![0] =
                          [nodes[0] EXCEPT !.nparsout = w, !.depth = 0]]
          BY <1>0, <3>4 DEF Slots
        <4>. QED
          BY <1>0, <2>2, <4>1 DEF Node
      <3>. QED
        BY <1>1, <3>2, <3>3, <3>4 DEF SetInputVars
    <2>. QED
      BY <1>0, <2>1, <2>2, FlagsKept
  <1>2. ASSUME NEW ins \in SUBSET Slots, NEW w \in Widths,
               NEW learns \in BOOLEAN, NewNode(ins, w, learns)
        PROVE  OutKnown' /\ MarksLearned'
    <2>1. UNCHANGED <<out, marks, setFailed, gLearned, health>>
      BY <1>2 DEF NewNode
    <2>2. \A i \in Slots : nodes[i].live =>
             nodes'[i].live /\ nodes'[i].learned = nodes[i].learned
      BY <1>2, NewNodeKeeps DEF ReadyInv
    <2>. QED
      BY <1>0, <2>1, <2>2, FlagsKept
  <1>3. ASSUME NEW id \in Slots, DeleteNode(id)
        PROVE  OutKnown' /\ MarksLearned'
    <2>1. CASE out = id \/ out = NoId
      BY <1>3, <2>1 DEF DeleteNode, OutKnown, MarksLearned, NoId
    <2>2. CASE out # id /\ out # NoId
      <3>1. /\ UNCHANGED <<out, marks, setFailed, gLearned, health>>
            /\ nodes' = [nodes EXCEPT ![id] = DeadNode]
        BY <1>3, <2>2 DEF DeleteNode
      <3>2. \A i \in Slots \ {id} : nodes'[i] = nodes[i]
        BY <1>0, <3>1
      <3>3. ASSUME health' = "ok", ~setFailed PROVE id \notin marks
        <4>1. \A i \in Live : id \notin nodes[i].ins
          BY <1>3, <3>1, <3>3, MutableUnread DEF DeleteNode, ReadyInv, StructInv
        <4>2. \A i \in marks \ {out} : \E j \in marks :
                nodes[j].live /\ i \in nodes[j].ins
          BY <2>2, <3>1, <3>3 DEF ReadyInv, StructInv, MarksClosed
        <4>. QED
          BY <1>0, <2>2, <4>1, <4>2 DEF Live
      <3>4. OutKnown'
        BY <1>0, <2>2, <3>1, <3>2 DEF ReadyInv, OutKnown
      <3>5. MarksLearned'
        <4> SUFFICES ASSUME health' = "ok", ~setFailed, NEW i \in marks \ {out}
                     PROVE  nodes'[i].learned
          BY <3>1 DEF MarksLearned, NoId
        <4>. QED
          BY <1>0, <2>2, <3>1, <3>2, <3>3 DEF ReadyInv, MarksLearned
      <3>. QED
        BY <3>4, <3>5
    <2>. QED
      BY <2>1, <2>2
  <1>4. ASSUME NEW id \in Slots, SetOutputNode(id) PROVE OutKnown' /\ MarksLearned'
    BY <1>4, SetOutputNodeReady
  <1>5. CASE Evaluate
    BY <1>0, <1>5, FlagsKept DEF Evaluate, Die
  <1>6. ASSUME NEW ok \in BOOLEAN, NEW w \in Widths, NEW g \in Widths,
               Learn(ok, w, g)
        PROVE  OutKnown' /\ MarksLearned'
    BY <1>6, LearnReady
  <1>7. ASSUME NEW id \in Slots, NEW m \in Node,
               UNCHANGED <<out, marks, setFailed, gLearned, health>>,
               nodes' = [nodes EXCEPT ![id] = m],
               m.live = nodes[id].live, m.learned = nodes[id].learned
        PROVE  OutKnown' /\ MarksLearned'
    <2>1. \A i \in Slots : /\ nodes'[i].live = nodes[i].live
                           /\ nodes'[i].learned = nodes[i].learned
      BY <1>0, <1>7
    <2>. QED
      BY <1>0, <1>7, <2>1, FlagsKept
  <1>8. ASSUME NEW id \in Slots, NEW w \in Widths, ResetNeededVars(id, w)
        PROVE  OutKnown' /\ MarksLearned'
    <2> DEFINE m == [nodes[id] EXCEPT !.nparsout = w]
    <2>1. m \in Node /\ m.live = nodes[id].live /\ m.learned = nodes[id].learned
      BY <1>0, NodeUpdates, OtherFields
    <2>2. nodes' = [nodes EXCEPT ![id] = m]
      BY <1>8 DEF ResetNeededVars
    <2>. QED
      BY <1>7, <1>8, <2>1, <2>2 DEF ResetNeededVars
  <1>9. ASSUME NEW id \in Slots, SetNodeMutable(id) PROVE OutKnown' /\ MarksLearned'
    <2> DEFINE m == [nodes[id] EXCEPT !.mutable = TRUE]
    <2>1. m \in Node /\ m.live = nodes[id].live /\ m.learned = nodes[id].learned
      BY <1>0, NodeUpdates, OtherFields
    <2>2. nodes' = [nodes EXCEPT ![id] = m]
      BY <1>9 DEF SetNodeMutable
    <2>. QED
      BY <1>7, <1>9, <2>1, <2>2 DEF SetNodeMutable
  <1>10. CASE PruneGraph
    BY <1>10, PruneGraphReady
  <1>11. CASE UseAsSubgraph
    <2>1. CASE out = NoId
      BY <1>0, <1>11, <2>1, FlagsKept DEF UseAsSubgraph
    <2>2. CASE out # NoId
      <3> DEFINE m == [nodes[out] EXCEPT !.mutable = FALSE]
      <3>1. m \in Node /\ m.live = nodes[out].live /\ m.learned = nodes[out].learned
        BY <1>0, <2>2, NodeUpdates, OtherFields
      <3>2. nodes' = [nodes EXCEPT ![out] = m]
        BY <1>11, <2>2 DEF UseAsSubgraph
      <3>. QED
        BY <1>0, <1>7, <1>11, <2>2, <3>1, <3>2 DEF UseAsSubgraph
    <2>. QED
      BY <2>1, <2>2
  <1>12. CASE DropSubgraph
    BY <1>0, <1>12, FlagsKept DEF DropSubgraph
  <1>13. CASE BeginExtEval
    BY <1>0, <1>13, FlagsKept DEF BeginExtEval
  <1>14. CASE EndExtEval
    BY <1>0, <1>14, FlagsKept DEF EndExtEval
  <1>15. CASE UNCHANGED graphVars
    BY <1>0, <1>15, FlagsKept DEF graphVars
  <1>. QED
    BY <1>1, <1>2, <1>3, <1>4, <1>5, <1>6, <1>8, <1>9, <1>10, <1>11, <1>12,
       <1>13, <1>14, <1>15 DEF Next

LEMMA ReadyInvReady == ReadyInv => ReadyToEvaluate
  <1> SUFFICES ASSUME ReadyInv, out # NoId
               PROVE  /\ gLearned = nodes[out].learned
                      /\ health = "ok" /\ ~setFailed =>
                           \A i \in Deps(out) \ {out} : nodes[i].learned
    BY DEF ReadyToEvaluate
  <1>1. gLearned = nodes[out].learned
    BY DEF ReadyInv, OutKnown
  <1>2. ASSUME health = "ok", ~setFailed, NEW i \in Deps(out) \ {out}
        PROVE  nodes[i].learned
    <2>1. out \in marks /\ marks \in SUBSET Slots /\ Closed(marks)
      BY <1>2 DEF ReadyInv, StructInv, MarksClosed, TypeOK, Closed
    <2>2. i \in marks
      BY <2>1 DEF Deps
    <2>. QED
      BY <1>2, <2>2 DEF ReadyInv, MarksLearned
  <1>. QED
    BY <1>1, <1>2

\* graph_can_be_evaluated, which looks at the output node only, is enough: the
\* other nodes of the evaluation have learned, and the flag of the graph is the
\* flag of its output node.
THEOREM EvaluatedNodesLearned == Spec => []ReadyToEvaluate
  BY ReadyInit, ReadyNext, ReadyInvReady, PTL DEF Spec

-----------------------------------------------------------------------------
(* A graph in use as a subgraph *)

\* It is immutable, and so is its output node.
InUse ==
  subUsers > 0 => ~gMutable /\ (out # NoId => ~nodes[out].mutable)

LEMMA InUseNext == ReadyInv /\ InUse /\ [Next]_graphVars => InUse'
  <1> SUFFICES ASSUME ReadyInv, InUse, [Next]_graphVars, subUsers' > 0
               PROVE  ~gMutable' /\ (out' # NoId => ~nodes'[out'].mutable)
    BY DEF InUse
  <1>0. /\ DOMAIN nodes = Slots /\ \A i \in Slots : nodes[i] \in Node
        /\ subUsers \in Nat /\ extUsers \in Nat /\ out \in Slots \cup {NoId}
    BY DEF ReadyInv, StructInv, TypeOK
  <1>1. CASE UseAsSubgraph
    <2>1. CASE out = NoId
      BY <1>1, <2>1 DEF UseAsSubgraph
    <2>2. CASE out # NoId
      <3>1. nodes' = [nodes EXCEPT ![out] = [nodes[out] EXCEPT !.mutable = FALSE]]
        BY <1>1, <2>2 DEF UseAsSubgraph
      <3>2. nodes'[out] = [nodes[out] EXCEPT !.mutable = FALSE] /\ nodes[out] \in Node
        BY <1>0, <2>2, <3>1
      <3>3. ~nodes'[out].mutable
        BY <3>2 DEF Node
      <3>. QED
        BY <1>1, <3>3 DEF UseAsSubgraph
    <2>. QED
      BY <2>1, <2>2
  <1>2. CASE DropSubgraph
    <2>1. subUsers > 0 /\ subUsers + extUsers # 1
      BY <1>0, <1>2 DEF DropSubgraph
    <2>2. gMutable' = gMutable /\ out' = out /\ nodes' = nodes
      <3>1. gMutable' = (gMutable \/ subUsers + extUsers = 1) /\ gMutable \in BOOLEAN
        BY <1>2 DEF DropSubgraph, ReadyInv, StructInv, TypeOK
      <3>. QED
        BY <2>1, <3>1, <1>2 DEF DropSubgraph
    <2>. QED
      BY <2>1, <2>2 DEF InUse
  <1>3. CASE EndExtEval
    <2>1. subUsers > 0 /\ subUsers + extUsers # 1
      BY <1>0, <1>3 DEF EndExtEval
    <2>2. gMutable' = gMutable /\ out' = out /\ nodes' = nodes
      <3>1. gMutable' = (gMutable \/ subUsers + extUsers = 1) /\ gMutable \in BOOLEAN
        BY <1>3 DEF EndExtEval, ReadyInv, StructInv, TypeOK
      <3>. QED
        BY <2>1, <3>1, <1>3 DEF EndExtEval
    <2>. QED
      BY <2>1, <2>2 DEF InUse
  <1>4. CASE BeginExtEval
    BY <1>4 DEF BeginExtEval, InUse
  <1>5. CASE UNCHANGED <<nodes, out, gMutable, subUsers>>
    BY <1>5 DEF InUse
  <1>6. CASE Evaluate \/ UNCHANGED graphVars
    BY <1>5, <1>6 DEF Evaluate, Die, graphVars
  <1>7. ASSUME NEW id \in Slots, DeleteNode(id)
        PROVE  ~gMutable' /\ (out' # NoId => ~nodes'[out'].mutable)
    <2>1. /\ subUsers' = subUsers /\ gMutable' = gMutable
          /\ nodes[id].mutable /\ nodes' = [nodes EXCEPT ![id] = DeadNode]
          /\ out' # NoId => out' = out
      BY <1>7 DEF DeleteNode
    <2>. QED
      BY <1>0, <2>1 DEF InUse
  <1>8. ASSUME NEW id \in Slots, NEW w \in Widths, ResetNeededVars(id, w)
        PROVE  ~gMutable' /\ (out' # NoId => ~nodes'[out'].mutable)
    <2>1. /\ subUsers' = subUsers /\ gMutable' = gMutable /\ out' = out
          /\ nodes[id].mutable /\ nodes' = [nodes EXCEPT ![id] = [nodes[id] EXCEPT !.nparsout = w]]
      BY <1>8 DEF ResetNeededVars
    <2>. QED
      BY <1>0, <2>1 DEF InUse
  <1>9. CASE \E ok \in BOOLEAN, w, g \in Widths : Learn(ok, w, g)
    <2>1. out # NoId /\ nodes[out].mutable /\ subUsers' = subUsers
      BY <1>9 DEF Learn, CanBeEvaluated, Die
    <2>. QED
      BY <2>1 DEF InUse
  <1>10. CASE gMutable /\ subUsers' = subUsers
    BY <1>10 DEF InUse
  <1>11. CASE \/ \E w \in Widths : SetInputVars(w)
              \/ \E ins \in SUBSET Slots, w \in Widths, learns \in BOOLEAN : NewNode(ins, w, learns)
              \/ \E id \in Slots : SetOutputNode(id) \/ SetNodeMutable(id)
              \/ PruneGraph
    BY <1>10, <1>11 DEF SetInputVars, NewNode, SetOutputNode, SetNodeMutable, PruneGraph, Die
  <1>. QED
    BY <1>1, <1>2, <1>3, <1>4, <1>6, <1>7, <1>8, <1>9, <1>11 DEF Next

\* The nodes below an immutable output node are immutable.
LEMMA BelowIsImmutable ==
  ASSUME ReadyInv, health = "ok", out # NoId, ~nodes[out].mutable, NEW i \in Deps(out)
  PROVE  i \in Slots /\ ~nodes[i].mutable
  <1> DEFINE S == {out} \cup {k \in Slots : nodes[k].live /\ ~nodes[k].mutable}
  <1>0. out \in Slots /\ nodes[out].live /\ \A k \in Slots : nodes[k] \in Node
    BY DEF ReadyInv, StructInv, TypeOK, OutKnown
  <1>1. S \in SUBSET Slots
    BY <1>0
  <1>2. ASSUME NEW k \in S, NEW j \in nodes[k].ins PROVE j \in S
    <2>1. k \in Live /\ nodes[k].ins \subseteq Slots
      BY <1>0, <1>2 DEF Live, Node
    <2>2. nodes[j].live /\ ~nodes[j].mutable
      BY <2>1 DEF ReadyInv, StructInv, InputsPinned
    <2>. QED
      BY <2>1, <2>2
  <1>3. out \in S /\ Closed(S)
    BY <1>2 DEF Closed
  <1>4. i \in S /\ i \in Slots
    BY <1>1, <1>3 DEF Deps
  <1>. QED
    BY <1>4

(***************************************************************************)
(* What another graph evaluates does not change under it, although         *)
(* delete_node and the setters of algorithms do not ask whether the graph  *)
(* is in use: they ask the nodes, and every node below the output node is  *)
(* immutable (init_subgraph, delete_node, Session::learn).                 *)
(***************************************************************************)
THEOREM SubgraphsAreFrozen == Spec => FrozenWhileSubgraph
  <1> DEFINE Frozen == subUsers > 0 /\ out # NoId /\ health = "ok" =>
                         /\ out' = out /\ gNout' = gNout /\ gLearned' = gLearned
                         /\ seq' = seq
                         /\ \A i \in Deps(out) : nodes'[i] = nodes[i]
  <1>1. ReadyInv /\ InUse /\ [Next]_graphVars => [Frozen]_graphVars
    <2> SUFFICES ASSUME ReadyInv, InUse, Next, subUsers > 0, out # NoId, health = "ok"
                 PROVE  /\ out' = out /\ gNout' = gNout /\ gLearned' = gLearned
                        /\ seq' = seq
                        /\ \A i \in Deps(out) : nodes'[i] = nodes[i]
      OBVIOUS
    <2>0. /\ ~gMutable /\ ~nodes[out].mutable
          /\ \A i \in Deps(out) : i \in Slots /\ ~nodes[i].mutable
      BY BelowIsImmutable DEF InUse
    <2>1. DOMAIN nodes = Slots /\ \A i \in Slots : nodes[i] \in Node
      BY DEF ReadyInv, StructInv, TypeOK
    <2>2. CASE UseAsSubgraph
      <3>1. nodes' = [nodes EXCEPT ![out].mutable = FALSE]
        BY <2>2 DEF UseAsSubgraph
      <3>2. \A n \in Node : ~n.mutable => [n EXCEPT !.mutable = FALSE] = n
        BY DEF Node
      <3>3. \A i \in Deps(out) : nodes'[i] = nodes[i]
        BY <2>0, <2>1, <3>1, <3>2
      <3>. QED
        BY <2>2, <3>3 DEF UseAsSubgraph
    <2>3. CASE DropSubgraph \/ BeginExtEval \/ EndExtEval \/ Evaluate
      BY <2>3 DEF DropSubgraph, BeginExtEval, EndExtEval, Evaluate, Die
    <2>4. ASSUME NEW id \in Slots, DeleteNode(id)
          PROVE  /\ out' = out /\ gNout' = gNout /\ gLearned' = gLearned
                 /\ seq' = seq
                 /\ \A i \in Deps(out) : nodes'[i] = nodes[i]
      <3>1. id # out /\ id \notin Deps(out)
        BY <2>0, <2>4 DEF DeleteNode
      <3>2. nodes' = [nodes EXCEPT ![id] = DeadNode]
        BY <2>4 DEF DeleteNode
      <3>3. \A i \in Deps(out) : nodes'[i] = nodes[i]
        BY <2>0, <2>1, <3>1, <3>2
      <3>. QED
        BY <2>4, <3>1, <3>3 DEF DeleteNode
    <2>5. ASSUME NEW id \in Slots, NEW w \in Widths, ResetNeededVars(id, w)
          PROVE  /\ out' = out /\ gNout' = gNout /\ gLearned' = gLearned
                 /\ seq' = seq
                 /\ \A i \in Deps(out) : nodes'[i] = nodes[i]
      <3>1. id \notin Deps(out)
        BY <2>0, <2>5 DEF ResetNeededVars
      <3>2. nodes' = [nodes EXCEPT ![id].nparsout = w]
        BY <2>5 DEF ResetNeededVars
      <3>3. \A i \in Deps(out) : nodes'[i] = nodes[i]
        BY <2>0, <2>1, <3>1, <3>2
      <3>. QED
        BY <2>5, <3>3 DEF ResetNeededVars
    <2>6. ~(\E ok \in BOOLEAN, w, g \in Widths : Learn(ok, w, g))
      BY <2>0 DEF Learn
    <2>7. ~\/ \E w \in Widths : SetInputVars(w)
           \/ \E ins \in SUBSET Slots, w \in Widths, learns \in BOOLEAN : NewNode(ins, w, learns)
           \/ \E id \in Slots : SetOutputNode(id) \/ SetNodeMutable(id)
           \/ PruneGraph
      BY <2>0 DEF SetInputVars, NewNode, SetOutputNode, SetNodeMutable, PruneGraph
    <2>. QED
      BY <2>2, <2>3, <2>4, <2>5, <2>6, <2>7 DEF Next
  <1>2. Init => InUse
    BY DEF Init, InUse
  <1>. QED
    BY ReadyInit, ReadyNext, InUseNext, <1>1, <1>2, PTL DEF Spec, FrozenWhileSubgraph

-----------------------------------------------------------------------------
(* The computation sequence *)

\* The input node is the only one of depth zero that others read.
DepthsGrow ==
  health = "ok" /\ InputIntact =>
    /\ \A i \in Live : \A j \in nodes[i].ins : nodes[j].depth < nodes[i].depth
    /\ size > 0 => nodes[0].ins = {} /\ nodes[0].depth = 0

\* The sequence lists the marked nodes by depth.
SeqByDepth ==
  health = "ok" /\ InputIntact /\ ~setFailed /\ out # NoId =>
    /\ Elems(seq) = marks
    /\ \A k, l \in 1 .. Len(seq) : k < l => nodes[seq[k]].depth <= nodes[seq[l]].depth

OrderInv == StructInv /\ DepthsGrow /\ SeqByDepth

\* Steps that make no node and change no depth
LEMMA OrderKept ==
  ASSUME OrderInv, StructInv', health' = "ok" => health = "ok", out' \in {out, NoId},
         UNCHANGED <<size, marks, setFailed, seq>>,
         health' = "ok" /\ InputIntact' =>
           /\ InputIntact
           /\ \A i \in Slots : nodes'[i].live =>
                /\ nodes[i].live
                /\ nodes'[i].ins = nodes[i].ins /\ nodes'[i].depth = nodes[i].depth
  PROVE  DepthsGrow' /\ SeqByDepth'
  <1>1. DepthsGrow'
    <2> SUFFICES ASSUME health' = "ok", InputIntact'
                 PROVE  /\ \A i \in Live' : \A j \in nodes'[i].ins :
                             nodes'[j].depth < nodes'[i].depth
                        /\ size' > 0 => nodes'[0].ins = {} /\ nodes'[0].depth = 0
      BY DEF DepthsGrow
    <2>1. ASSUME NEW i \in Live', NEW j \in nodes'[i].ins
          PROVE  nodes'[j].depth < nodes'[i].depth
      <3>1. i \in Slots /\ nodes'[i].live /\ nodes'[i] \in Node
        BY DEF Live, StructInv, TypeOK
      <3>2. j \in Slots /\ nodes'[j].live
        BY <3>1 DEF Node, StructInv, InputsPinned
      <3>3. i \in Live /\ j \in nodes[i].ins
        BY <3>1 DEF Live
      <3>4. nodes[j].depth < nodes[i].depth
        BY <3>3 DEF OrderInv, DepthsGrow
      <3>. QED
        BY <3>1, <3>2, <3>4
    <2>2. ASSUME size' > 0 PROVE nodes'[0].ins = {} /\ nodes'[0].depth = 0
      <3>1. 0 \in Slots /\ nodes'[0].live
        BY <2>2 DEF Slots, InputIntact
      <3>. QED
        BY <2>2, <3>1 DEF OrderInv, DepthsGrow
    <2>. QED
      BY <2>1, <2>2
  <1>2. SeqByDepth'
    <2> SUFFICES ASSUME health' = "ok", InputIntact', ~setFailed', out' # NoId
                 PROVE  /\ Elems(seq) = marks
                        /\ \A k, l \in 1 .. Len(seq) :
                             k < l => nodes'[seq[k]].depth <= nodes'[seq[l]].depth
      BY DEF SeqByDepth, Elems
    <2>1. out' = out /\ out # NoId
      BY DEF NoId
    <2>2. /\ Elems(seq) = marks
          /\ \A k, l \in 1 .. Len(seq) : k < l => nodes[seq[k]].depth <= nodes[seq[l]].depth
      BY <2>1 DEF OrderInv, SeqByDepth
    <2>3. \A i \in marks : i \in Slots /\ nodes'[i].live
      BY DEF StructInv, MarksClosed, TypeOK
    <2>4. \A k \in 1 .. Len(seq) : nodes'[seq[k]].depth = nodes[seq[k]].depth
      BY <2>2, <2>3 DEF Elems
    <2>. QED
      BY <2>2, <2>4
  <1>. QED
    BY <1>1, <1>2

LEMMA NoOutputWithoutNodes ==
  ASSUME StructInv, health = "ok", ~setFailed, Live = {}
  PROVE  out = NoId
  <1> SUFFICES ASSUME out # NoId PROVE FALSE
    OBVIOUS
  <1>1. out \in marks /\ out \in Slots /\ nodes[out].live
    BY DEF StructInv, MarksClosed, TypeOK
  <1>. QED
    BY <1>1 DEF Live

LEMMA SetInputVarsOrder ==
  ASSUME OrderInv, StructInv', NEW w \in Widths, SetInputVars(w)
  PROVE  DepthsGrow' /\ SeqByDepth'
  <1>0. DOMAIN nodes = Slots /\ 0 \in Slots /\ nodes[0] \in Node
    BY DEF OrderInv, StructInv, TypeOK, Slots
  <1>1. CASE size = 0
    <2>1. /\ nodes' = [nodes EXCEPT ![0] = InputNode(w)]
          /\ health' = health /\ health # "dead" /\ out' = out /\ setFailed' = setFailed
      BY <1>1 DEF SetInputVars
    <2>2. Live = {}
      BY <1>1, <2>1 DEF OrderInv, StructInv, FreeListExact, Live, Slots
    <2>3. nodes'[0] = InputNode(w) /\ \A i \in Slots \ {0} : ~nodes'[i].live
      BY <1>0, <2>1, <2>2 DEF Live
    <2>4. nodes'[0].ins = {} /\ nodes'[0].depth = 0
      BY <2>3 DEF InputNode, DeadNode
    <2>5. \A i \in Live' : nodes'[i].ins = {}
      BY <2>3, <2>4 DEF Live
    <2>6. DepthsGrow'
      BY <2>4, <2>5 DEF DepthsGrow
    <2>7. SeqByDepth'
      BY <2>1, <2>2, NoOutputWithoutNodes DEF SeqByDepth, OrderInv, NoId
    <2>. QED
      BY <2>6, <2>7
  <1>2. CASE size # 0 /\ ~nodes[0].live
    BY <1>2 DEF SetInputVars, DepthsGrow, SeqByDepth
  <1>3. CASE size # 0 /\ nodes[0].live
    <2>1. /\ nodes' = [nodes EXCEPT ![0].nparsout = w, ![0].depth = 0]
          /\ UNCHANGED <<size, out, marks, seq, setFailed, health>>
      BY <1>3 DEF SetInputVars
    <2>2. nodes' = [nodes EXCEPT ![0] = [nodes[0] EXCEPT !.nparsout = w, !.depth = 0]]
      BY <1>0, <2>1
    <2>3. /\ nodes'[0].live = nodes[0].live /\ nodes'[0].input = nodes[0].input
          /\ nodes'[0].ins = nodes[0].ins /\ nodes'[0].depth = 0
          /\ \A i \in Slots \ {0} : nodes'[i] = nodes[i]
      BY <1>0, <2>2 DEF Node
    <2>4. InputIntact' => InputIntact
      BY <2>1, <2>3 DEF InputIntact
    <2>5. health = "ok" /\ InputIntact => nodes[0].depth = 0
      <3>1. size > 0
        BY <1>3 DEF OrderInv, StructInv, TypeOK
      <3>. QED
        BY <3>1 DEF OrderInv, DepthsGrow
    <2>. QED
      BY <2>1, <2>3, <2>4, <2>5, OrderKept
  <1>. QED
    BY <1>1, <1>2, <1>3

LEMMA NewNodeOrder ==
  ASSUME OrderInv, StructInv', NEW ins \in SUBSET Slots, NEW w \in Widths,
         NEW learns \in BOOLEAN, NewNode(ins, w, learns)
  PROVE  DepthsGrow' /\ SeqByDepth'
  <1> DEFINE n == NewNodeId
  <1>1. PICK d \in 1 .. MaxSlots :
          /\ IsDepth(d, ins)
          /\ nodes' = [i \in Slots |->
               IF i = NewNodeId THEN Fresh(ins, w, learns, d)
               ELSE IF i \in ins THEN [WithInputNode[i] EXCEPT !.mutable = FALSE]
               ELSE WithInputNode[i]]
    BY DEF NewNode
  <1>2. /\ ins \subseteq Live
        /\ UNCHANGED <<out, marks, seq, setFailed, health>>
        /\ size' = size \/ size' = n + 1
    BY DEF NewNode
  <1>3. /\ n \in Slots /\ ~nodes[n].live
        /\ size = 0 => Live = {} /\ n = 1
    BY NewSlotIsEmpty DEF OrderInv
  <1>4. /\ 0 \in Slots /\ size \in Nat
        /\ \A i \in Slots : nodes[i] \in Node
    BY DEF OrderInv, StructInv, TypeOK, Slots
  <1>5. nodes'[n].input = FALSE /\ nodes'[n].ins = ins /\ nodes'[n].depth = d
    BY <1>1, <1>3 DEF Fresh
  <1>6. CASE size = 0
    <2>1. ins = {} /\ n # 0
      BY <1>2, <1>3, <1>6
    <2>2. \A i \in Slots \ {n} : nodes'[i] = IF i = 0 THEN InputNode(0) ELSE nodes[i]
      BY <1>1, <1>6, <2>1 DEF WithInputNode, OrderInv, StructInv, TypeOK
    <2>3. nodes'[0].ins = {} /\ nodes'[0].depth = 0
      BY <1>4, <2>1, <2>2 DEF InputNode, DeadNode
    <2>4. \A i \in Slots \ {0, n} : ~nodes'[i].live
      BY <1>3, <1>6, <2>2 DEF Live
    <2>5. \A i \in Live' : nodes'[i].ins = {}
      BY <1>5, <2>1, <2>3, <2>4 DEF Live
    <2>6. DepthsGrow'
      BY <2>3, <2>5 DEF DepthsGrow
    <2>7. SeqByDepth'
      BY <1>2, <1>3, <1>6, NoOutputWithoutNodes DEF SeqByDepth, OrderInv, NoId
    <2>. QED
      BY <2>6, <2>7
  <1>7. CASE size # 0
    <2>1. \A i \in Slots \ {n} : nodes'[i] = IF i \in ins THEN [nodes[i] EXCEPT !.mutable = FALSE]
                                             ELSE nodes[i]
      BY <1>1, <1>7 DEF WithInputNode
    <2>2. \A i \in Slots \ {n} : /\ nodes'[i].live = nodes[i].live
                                /\ nodes'[i].input = nodes[i].input
                                /\ nodes'[i].ins = nodes[i].ins
                                /\ nodes'[i].depth = nodes[i].depth
      BY <1>4, <2>1 DEF Node
    <2>3. ASSUME InputIntact' PROVE n # 0 /\ InputIntact
      <3>1. size' > 0
        BY <1>2, <1>3, <1>4, <1>7 DEF Slots
      <3>2. nodes'[0].input /\ nodes'[0].live
        BY <2>3, <3>1 DEF InputIntact
      <3>. QED
        BY <1>4, <1>5, <2>2, <3>2 DEF InputIntact
    <2>4. DepthsGrow'
      <3> SUFFICES ASSUME health' = "ok", InputIntact'
                   PROVE  /\ \A i \in Live' : \A j \in nodes'[i].ins :
                               nodes'[j].depth < nodes'[i].depth
                          /\ nodes'[0].ins = {} /\ nodes'[0].depth = 0
        BY DEF DepthsGrow
      <3>1. health = "ok" /\ InputIntact /\ n # 0
        BY <1>2, <2>3
      <3>2. nodes'[0].ins = {} /\ nodes'[0].depth = 0
        BY <1>4, <1>7, <2>2, <3>1 DEF OrderInv, DepthsGrow
      <3>3. ASSUME NEW i \in Live', NEW j \in nodes'[i].ins
            PROVE  nodes'[j].depth < nodes'[i].depth
        <4>1. CASE i = n
          <5>1. j \in ins /\ j # n /\ j \in Slots /\ nodes[j].depth < d
            BY <1>1, <1>2, <1>3, <1>5, <3>3, <4>1 DEF IsDepth, Live
          <5>. QED
            BY <1>5, <2>2, <4>1, <5>1
        <4>2. CASE i # n
          <5>1. i \in Slots /\ i \in Live /\ j \in nodes[i].ins
            BY <2>2, <3>3, <4>2 DEF Live
          <5>2. j \in Slots /\ nodes[j].live
            BY <1>4, <3>1, <5>1 DEF Node, OrderInv, StructInv, InputsPinned
          <5>3. j # n
            BY <1>3, <5>2
          <5>4. nodes[j].depth < nodes[i].depth
            BY <3>1, <5>1 DEF OrderInv, DepthsGrow
          <5>. QED
            BY <2>2, <4>2, <5>1, <5>2, <5>3, <5>4
        <4>. QED
          BY <4>1, <4>2
      <3>. QED
        BY <3>2, <3>3
    <2>5. SeqByDepth'
      <3> SUFFICES ASSUME health = "ok", InputIntact, ~setFailed, out # NoId
                   PROVE  /\ Elems(seq) = marks
                          /\ \A k, l \in 1 .. Len(seq) :
                               k < l => nodes'[seq[k]].depth <= nodes'[seq[l]].depth
        BY <1>2, <2>3 DEF SeqByDepth, Elems, NoId
      <3>1. /\ Elems(seq) = marks
            /\ \A k, l \in 1 .. Len(seq) : k < l => nodes[seq[k]].depth <= nodes[seq[l]].depth
        BY DEF OrderInv, SeqByDepth
      <3>2. \A i \in marks : i \in Slots /\ i # n
        BY <1>3 DEF OrderInv, StructInv, MarksClosed, TypeOK
      <3>3. \A k \in 1 .. Len(seq) : nodes'[seq[k]].depth = nodes[seq[k]].depth
        BY <2>2, <3>1, <3>2 DEF Elems
      <3>. QED
        BY <3>1, <3>3
    <2>. QED
      BY <2>4, <2>5
  <1>. QED
    BY <1>6, <1>7

LEMMA SetOutputNodeOrder ==
  ASSUME OrderInv, NEW id \in Slots, SetOutputNode(id)
  PROVE  DepthsGrow' /\ SeqByDepth'
  <1>1. CASE \E i \in Deps(id) : ~nodes[i].live
    BY <1>1 DEF SetOutputNode, Die, DepthsGrow, SeqByDepth
  <1>2. CASE \A i \in Deps(id) : nodes[i].live
    <2>1. UNCHANGED <<nodes, size, health>> /\ marks' = Deps(id)
      BY <1>2 DEF SetOutputNode
    <2>2. DepthsGrow'
      BY <2>1 DEF OrderInv, DepthsGrow, InputIntact, Live
    <2>3. CASE setFailed'
      BY <2>2, <2>3 DEF SeqByDepth
    <2>4. CASE seq' \in ByDepth(Deps(id))
      <3>1. PICK D \in SUBSET Slots : D = Deps(id)
        BY DepsInSlots
      <3>2. PICK s \in Listings(D) :
              /\ s = seq'
              /\ \A k, l \in DOMAIN s : k < l => nodes[s[k]].depth <= nodes[s[l]].depth
        BY <2>4, <3>1 DEF ByDepth
      <3>3. s \in Seq(Slots)
        BY <3>2, ListingIsSeq
      <3>4. Elems(s) = D
        BY <3>2 DEF Listings
      <3>5. \A k, l \in 1 .. Len(s) : k < l => nodes[s[k]].depth <= nodes[s[l]].depth
        BY <3>2, <3>3
      <3>6. Elems(seq') = marks'
        BY <2>1, <3>1, <3>2, <3>4
      <3>7. SeqByDepth'
        BY <2>1, <3>2, <3>5, <3>6 DEF SeqByDepth, Elems
      <3>. QED
        BY <2>2, <3>7
    <2>. QED
      BY <1>2, <2>3, <2>4 DEF SetOutputNode
  <1>. QED
    BY <1>1, <1>2

\* The fields that the order of the nodes depends on.
LEMMA OrderFieldsOfFlag ==
  ASSUME NEW n \in Node, NEW b
  PROVE  /\ [n EXCEPT !.mutable = b].live = n.live
         /\ [n EXCEPT !.mutable = b].input = n.input
         /\ [n EXCEPT !.mutable = b].ins = n.ins
         /\ [n EXCEPT !.mutable = b].depth = n.depth
  BY DEF Node

LEMMA OrderFieldsOfLength ==
  ASSUME NEW n \in Node, NEW w
  PROVE  /\ [n EXCEPT !.nparsout = w].live = n.live
         /\ [n EXCEPT !.nparsout = w].input = n.input
         /\ [n EXCEPT !.nparsout = w].ins = n.ins
         /\ [n EXCEPT !.nparsout = w].depth = n.depth
  BY DEF Node

LEMMA OrderNext == OrderInv /\ [Next]_graphVars => OrderInv'
  <1> SUFFICES ASSUME OrderInv, StructInv', [Next]_graphVars PROVE DepthsGrow' /\ SeqByDepth'
    BY StructNext DEF OrderInv
  <1>0. /\ DOMAIN nodes = Slots /\ \A i \in Slots : nodes[i] \in Node
        /\ out \in Slots \cup {NoId} /\ 0 \in Slots
    BY DEF OrderInv, StructInv, TypeOK, Slots
  <1>1. ASSUME NEW w \in Widths, SetInputVars(w) PROVE DepthsGrow' /\ SeqByDepth'
    BY <1>1, SetInputVarsOrder
  <1>2. ASSUME NEW ins \in SUBSET Slots, NEW w \in Widths,
               NEW learns \in BOOLEAN, NewNode(ins, w, learns)
        PROVE  DepthsGrow' /\ SeqByDepth'
    BY <1>2, NewNodeOrder
  <1>3. ASSUME NEW id \in Slots, DeleteNode(id) PROVE DepthsGrow' /\ SeqByDepth'
    <2>1. /\ nodes' = [nodes EXCEPT ![id] = DeadNode]
          /\ out' = IF id = out THEN NoId ELSE out
          /\ UNCHANGED <<size, marks, seq, setFailed, health>>
      BY <1>3 DEF DeleteNode
    <2>2. ~nodes'[id].live /\ \A i \in Slots \ {id} : nodes'[i] = nodes[i]
      BY <1>0, <2>1 DEF DeadNode
    <2>3. InputIntact' => InputIntact
      BY <1>0, <2>1, <2>2 DEF InputIntact
    <2>. QED
      BY <2>1, <2>2, <2>3, OrderKept
  <1>4. ASSUME NEW id \in Slots, SetOutputNode(id) PROVE DepthsGrow' /\ SeqByDepth'
    BY <1>4, SetOutputNodeOrder
  \* steps that change no more than flags and lengths of one node
  <1>5. ASSUME NEW id \in Slots, NEW m \in Node,
               UNCHANGED <<size, out, marks, seq, setFailed, health>>,
               nodes' = [nodes EXCEPT ![id] = m], m.live = nodes[id].live,
               m.input = nodes[id].input, m.ins = nodes[id].ins, m.depth = nodes[id].depth
        PROVE  DepthsGrow' /\ SeqByDepth'
    <2>1. \A i \in Slots : /\ nodes'[i].live = nodes[i].live
                           /\ nodes'[i].input = nodes[i].input
                           /\ nodes'[i].ins = nodes[i].ins
                           /\ nodes'[i].depth = nodes[i].depth
      BY <1>0, <1>5
    <2>2. InputIntact' => InputIntact
      BY <1>0, <1>5, <2>1 DEF InputIntact
    <2>. QED
      BY <1>5, <2>1, <2>2, OrderKept
  <1>6. CASE UNCHANGED <<nodes, size, out, marks, seq, setFailed>> /\ health' \in {health, "dead"}
    <2>1. InputIntact' => InputIntact
      BY <1>6 DEF InputIntact
    <2>. QED
      BY <1>6, <2>1, OrderKept
  <1>7. CASE Evaluate
    BY <1>6, <1>7 DEF Evaluate, Die
  <1>8. ASSUME NEW ok \in BOOLEAN, NEW w \in Widths, NEW g \in Widths, Learn(ok, w, g)
        PROVE  DepthsGrow' /\ SeqByDepth'
    <2>1. CASE Die
      BY <1>6, <2>1 DEF Die
    <2>2. CASE ~Die
      <3>1. out \in Slots /\ nodes[out] \in Node
        BY <1>0, <1>8 DEF Learn, CanBeEvaluated
      <3>2. PICK m \in {[nodes[out] EXCEPT !.learned = TRUE],
                        [nodes[out] EXCEPT !.learned = ok, !.nparsout = w]} :
              nodes' = [nodes EXCEPT ![out] = m]
        BY <1>0, <1>8, <2>2, <3>1 DEF Learn
      <3>3. /\ m \in Node /\ m.live = nodes[out].live /\ m.input = nodes[out].input
            /\ m.ins = nodes[out].ins /\ m.depth = nodes[out].depth
        BY <3>1, <3>2 DEF Node
      <3>. QED
        BY <1>5, <1>8, <2>2, <3>1, <3>2, <3>3 DEF Learn
    <2>. QED
      BY <2>1, <2>2
  <1>9. ASSUME NEW id \in Slots, NEW w \in Widths, ResetNeededVars(id, w)
        PROVE  DepthsGrow' /\ SeqByDepth'
    <2> DEFINE m == [nodes[id] EXCEPT !.nparsout = w]
    <2>1. /\ m \in Node /\ m.live = nodes[id].live /\ m.input = nodes[id].input
          /\ m.ins = nodes[id].ins /\ m.depth = nodes[id].depth
      <3>1. nodes[id] \in Node
        BY <1>0
      <3>2. m \in Node
        BY <3>1 DEF Node
      <3>. QED
        BY <3>1, <3>2, OrderFieldsOfLength, Zenon
    <2>2. nodes' = [nodes EXCEPT ![id] = m]
      BY <1>9 DEF ResetNeededVars
    <2>. QED
      BY <1>5, <1>9, <2>1, <2>2 DEF ResetNeededVars
  <1>10. ASSUME NEW id \in Slots, SetNodeMutable(id) PROVE DepthsGrow' /\ SeqByDepth'
    <2> DEFINE m == [nodes[id] EXCEPT !.mutable = TRUE]
    <2>1. /\ m \in Node /\ m.live = nodes[id].live /\ m.input = nodes[id].input
          /\ m.ins = nodes[id].ins /\ m.depth = nodes[id].depth
      <3>1. nodes[id] \in Node
        BY <1>0
      <3>2. m \in Node
        BY <3>1 DEF Node
      <3>. QED
        BY <3>1, <3>2, OrderFieldsOfFlag, Zenon
    <2>2. nodes' = [nodes EXCEPT ![id] = m]
      BY <1>10 DEF SetNodeMutable
    <2>. QED
      BY <1>5, <1>10, <2>1, <2>2 DEF SetNodeMutable
  <1>11. CASE PruneGraph
    <2>1. CASE Die
      BY <1>6, <2>1 DEF Die
    <2>2. CASE ~Die
      <3>1. PICK garbage \in SUBSET Unmarkable :
              /\ nodes' = Pruned(Removed(garbage))
              /\ health' = IF Unmarkable # {} \/ setFailed THEN "astray" ELSE health
              /\ UNCHANGED <<size, out, marks, seq, setFailed>>
        BY <1>11, <2>2 DEF PruneGraph
      <3>2. PICK R : R = Removed(garbage)
        OBVIOUS
      <3>3. \A i \in Slots : nodes'[i].live =>
              /\ nodes[i].live /\ nodes'[i].input = nodes[i].input
              /\ nodes'[i].ins = nodes[i].ins /\ nodes'[i].depth = nodes[i].depth
        <4> SUFFICES ASSUME NEW i \in Slots, nodes'[i].live
                     PROVE  /\ nodes[i].live /\ nodes'[i].input = nodes[i].input
                            /\ nodes'[i].ins = nodes[i].ins
                            /\ nodes'[i].depth = nodes[i].depth
          OBVIOUS
        <4>1. nodes'[i] = IF i \in R THEN DeadNode
                          ELSE IF i = out THEN [nodes[i] EXCEPT !.mutable = TRUE]
                          ELSE nodes[i]
          BY <3>1, <3>2 DEF Pruned
        <4>2. i \notin R
          BY <4>1 DEF DeadNode
        <4>3. CASE i = out
          BY <1>0, <4>1, <4>2, <4>3, OrderFieldsOfFlag
        <4>4. CASE i # out
          BY <4>1, <4>2, <4>4
        <4>. QED
          BY <4>3, <4>4
      <3>4. InputIntact' => InputIntact
        BY <1>0, <3>1, <3>3 DEF InputIntact
      <3>. QED
        BY <3>1, <3>3, <3>4, OrderKept
    <2>. QED
      BY <2>1, <2>2
  <1>12. CASE UseAsSubgraph
    <2>1. CASE out = NoId
      BY <1>6, <1>12, <2>1 DEF UseAsSubgraph
    <2>2. CASE out # NoId
      <3> DEFINE m == [nodes[out] EXCEPT !.mutable = FALSE]
      <3>1. /\ out \in Slots
            /\ m \in Node /\ m.live = nodes[out].live /\ m.input = nodes[out].input
            /\ m.ins = nodes[out].ins /\ m.depth = nodes[out].depth
        <4>1. out \in Slots /\ nodes[out] \in Node
          BY <1>0, <2>2
        <4>2. m \in Node
          BY <4>1 DEF Node
        <4>. QED
          BY <4>1, <4>2, OrderFieldsOfFlag, Zenon
      <3>2. nodes' = [nodes EXCEPT ![out] = m]
        BY <1>12, <2>2 DEF UseAsSubgraph
      <3>. QED
        BY <1>5, <1>12, <3>1, <3>2 DEF UseAsSubgraph
    <2>. QED
      BY <2>1, <2>2
  <1>13. CASE DropSubgraph \/ BeginExtEval \/ EndExtEval \/ UNCHANGED graphVars
    BY <1>6, <1>13 DEF DropSubgraph, BeginExtEval, EndExtEval, graphVars
  <1>. QED
    BY <1>1, <1>2, <1>3, <1>4, <1>7, <1>8, <1>9, <1>10, <1>11, <1>12, <1>13 DEF Next

\* After a selection that succeeded the marked nodes are those that the output
\* depends on.
LEMMA MarksAreDeps ==
  ASSUME StructInv, health = "ok", ~setFailed, out # NoId
  PROVE  marks = Deps(out) /\ marks \subseteq Live
  <1>1. /\ out \in marks /\ marks \in SUBSET Slots /\ marks \subseteq Live /\ out \in Slots
        /\ \A i \in marks : nodes[i].ins \subseteq marks
        /\ \A i \in marks \ {out} : \E j \in marks : i \in nodes[j].ins
    BY DEF StructInv, MarksClosed, TypeOK, Live
  <1>2. Deps(out) \subseteq marks
    BY <1>1 DEF Deps, Closed
  <1>3. /\ out \in Deps(out)
        /\ \A i \in Deps(out) : nodes[i].ins \subseteq Deps(out)
    BY <1>1, DepsClosed DEF StructInv
  <1> DEFINE S == marks \ Deps(out)
  <1>4. ASSUME S # {} PROVE FALSE
    <2>1. S \in SUBSET Live
      BY <1>1
    <2>2. PICK i \in S : \A j \in S : i \notin nodes[j].ins
      BY <1>4, <2>1 DEF StructInv, Acyclic
    <2>3. PICK j \in marks : i \in nodes[j].ins
      BY <1>1, <1>3
    <2>. QED
      BY <1>3, <2>2, <2>3
  <1>. QED
    BY <1>1, <1>2, <1>4

LEMMA OrderIsTopological == OrderInv => SeqIsTopological
  <1> SUFFICES ASSUME OrderInv, health = "ok", InputIntact, ~setFailed, out # NoId
               PROVE  /\ Elems(seq) = Deps(out)
                      /\ Elems(seq) \subseteq Live
                      /\ \A k \in 1 .. Len(seq) : \A j \in nodes[seq[k]].ins :
                            \E l \in 1 .. k - 1 : seq[l] = j
    BY DEF SeqIsTopological
  <1>1. /\ Elems(seq) = marks
        /\ \A k, l \in 1 .. Len(seq) : k < l => nodes[seq[k]].depth <= nodes[seq[l]].depth
    BY DEF OrderInv, SeqByDepth
  <1>2. marks = Deps(out) /\ marks \subseteq Live
    BY MarksAreDeps DEF OrderInv
  <1>3. ASSUME NEW k \in 1 .. Len(seq), NEW j \in nodes[seq[k]].ins
        PROVE  \E l \in 1 .. k - 1 : seq[l] = j
    <2>1. seq[k] \in marks /\ seq[k] \in Live
      BY <1>1, <1>2 DEF Elems
    <2>2. j \in marks
      BY <2>1 DEF OrderInv, StructInv, MarksClosed
    <2>3. PICK l \in 1 .. Len(seq) : seq[l] = j
      BY <1>1, <2>2 DEF Elems
    <2>4. nodes[seq[l]].depth < nodes[seq[k]].depth
      BY <2>1, <2>3 DEF OrderInv, DepthsGrow
    <2>5. nodes[seq[l]].depth \in Nat /\ nodes[seq[k]].depth \in Nat
      <3>1. seq[k] \in Slots /\ j \in Slots
        BY <1>2, <2>1, <2>2 DEF Live
      <3>2. nodes[seq[k]] \in Node /\ nodes[j] \in Node
        BY <3>1 DEF OrderInv, StructInv, TypeOK
      <3>. QED
        BY <2>3, <3>2 DEF Node
    <2>6. l # k /\ ~(k < l)
      BY <1>1, <2>4, <2>5
    <2>7. l \in 1 .. k - 1
      BY <2>6
    <2>. QED
      BY <2>3, <2>7
  <1>. QED
    BY <1>1, <1>2, <1>3

LEMMA OrderStart == Init => OrderInv
  BY StructInit DEF Init, OrderInv, DepthsGrow, SeqByDepth, Live, DeadNode

(***************************************************************************)
(* evaluate_comput_seq_ reads the inputs of a node from the buffers that   *)
(* it has filled before.  set_output_node computes the sequence once, from *)
(* depths that set_input_vars changes later and that new_node computes     *)
(* from the nodes of its day; after any calls it is still the list of what *)
(* the output needs, each node after its inputs, unless the selection had  *)
(* failed or the input node is gone.                                       *)
(***************************************************************************)
THEOREM SequenceStaysInOrder == Spec => []SeqIsTopological
  BY OrderStart, OrderNext, OrderIsTopological, PTL DEF Spec
=============================================================================

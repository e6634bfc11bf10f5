------------------------------ MODULE FlowGraph ------------------------------
(***************************************************************************)
(* One dataflow graph of a session (class Graph of src/graph.cc): its      *)
(* node slots, the flags of the node algorithms, the output node, and the  *)
(* computation sequence the evaluation follows.  The clients of the C API  *)
(* call the operations in any order; a call that the code refuses with an  *)
(* error and without touching the state is a disabled action.              *)
(*                                                                         *)
(* Node payloads are abstracted to what the operations read: which nodes   *)
(* feed a node, the length of its output list (nparsout), the length it    *)
(* expects of each input (nparsin), its depth and its flags.               *)
(***************************************************************************)
EXTENDS Integers, Sequences, FiniteSets

CONSTANTS MaxSlots,   \* bound on nodes_.size()
          Widths,     \* lengths an output list can have
          MaxUsers    \* bound on subgraph nodes and on external evaluators

ASSUME SlotsAssumption == MaxSlots \in Nat /\ MaxSlots > 1
ASSUME WidthsAssumption == Widths \subseteq Nat /\ 0 \in Widths
ASSUME UsersAssumption == MaxUsers \in Nat

Slots == 0 .. MaxSlots - 1
NoId == MaxSlots            \* ALG_NO_ID, no slot has this id

VARIABLES
  nodes,      \* nodes_: the slots, a dead record for a null pointer
  size,       \* nodes_.size()
  free,       \* free_node_slots_, last in first out
  out,        \* out_node_
  marks,      \* ids with mark_nodes_[id] # 0
  marksSize,  \* mark_nodes_.size()
  seq,        \* comput_seq_
  gMutable,   \* the IS_IMMUTABLE_ flag of the graph, negated
  gLearned,   \* the HAS_LEARNED_ flag of the graph
  gNout,      \* nparsout of the graph
  subUsers,   \* SubGraph algorithms that use this graph
  extUsers,   \* GraphExtParallelEvaluator objects that use this graph
  setFailed,  \* history: the last set_output_node that ran its body failed
  health      \* "ok"; "astray" once prune_graph went by marks that are not
              \* the output node's; "dead" once a null node was dereferenced

graphVars == <<nodes, size, free, out, marks, marksSize, seq, gMutable,
               gLearned, gNout, subUsers, extUsers, setFailed, health>>

-----------------------------------------------------------------------------
(* Nodes *)

Node == [live : BOOLEAN, input : BOOLEAN, ins : SUBSET Slots,
         nparsin : [Slots -> Widths], nparsout : Widths, depth : Nat,
         mutable : BOOLEAN, learns : BOOLEAN, learned : BOOLEAN]

\* nodes_[id] after reset(), or never filled
DeadNode == [live |-> FALSE, input |-> FALSE, ins |-> {},
             nparsin |-> [i \in Slots |-> 0], nparsout |-> 0, depth |-> 0,
             mutable |-> TRUE, learns |-> FALSE, learned |-> FALSE]

\* The node of an InputAlgorithm: born learned, never evaluated
InputNode(w) == [DeadNode EXCEPT !.live = TRUE, !.input = TRUE,
                                 !.learned = TRUE, !.nparsout = w]

Live == {i \in Slots : nodes[i].live}

\* i is an input of some node
Used(i) == \E j \in Live : i \in nodes[j].ins

Closed(S) == \A i \in S : nodes[i].ins \subseteq S

\* mark_node_and_deps_: the least set that holds id and the inputs of its
\* members
Deps(id) == {i \in Slots : \A S \in SUBSET Slots :
                              id \in S /\ Closed(S) => i \in S}

Elems(s) == {s[k] : k \in 1 .. Len(s)}

\* The sequences that list S once each, without and with an order
Listings(S) == {s \in [1 .. Cardinality(S) -> S] : Elems(s) = S}
Ascending(S) == {s \in Listings(S) :
                   \A k, l \in DOMAIN s : k < l => s[k] < s[l]}
\* Mutant of ByDepth: the sort is left out
IdOrder(S) == Ascending(S)
\* std::sort by depth_ is not stable: nodes of one depth come in any order
ByDepth(S) == {s \in Listings(S) :
                 \A k, l \in DOMAIN s :
                    k < l => nodes[s[k]].depth <= nodes[s[l]].depth}

\* graph_can_be_evaluated
CanBeEvaluated(checkLearned) ==
  out # NoId /\ (checkLearned => nodes[out].learned)

\* The input node is in its slot.  delete_node and prune_graph can remove it,
\* and then its slot is given to an ordinary node.
InputIntact == size > 0 => nodes[0].live /\ nodes[0].input

Die == /\ health' = "dead"
       /\ UNCHANGED <<nodes, size, free, out, marks, marksSize, seq, gMutable,
                      gLearned, gNout, subUsers, extUsers, setFailed>>

-----------------------------------------------------------------------------
Init ==
  /\ nodes = [i \in Slots |-> DeadNode]
  /\ size = 0 /\ free = <<>>
  /\ out = NoId /\ marks = {} /\ marksSize = 0 /\ seq = <<>>
  /\ gMutable = TRUE /\ gLearned = FALSE /\ gNout = 0
  /\ subUsers = 0 /\ extUsers = 0
  /\ setFailed = FALSE /\ health = "ok"

\* set_input_vars
SetInputVars(w) ==
  /\ health # "dead" /\ gMutable
  /\ IF size = 0
     THEN /\ nodes' = [nodes EXCEPT ![0] = InputNode(w)]
          /\ size' = 1
          /\ UNCHANGED health
     ELSE IF ~nodes[0].live
     THEN health' = "dead" /\ UNCHANGED <<nodes, size>>
     ELSE /\ nodes[0].mutable
          /\ nodes' = [nodes EXCEPT ![0].nparsout = w, ![0].depth = 0]
          /\ UNCHANGED <<size, health>>
  /\ UNCHANGED <<free, out, marks, marksSize, seq, gMutable, gLearned, gNout,
                 subUsers, extUsers, setFailed>>

\* peek_new_node_id, and the id get_free_node_id_ hands out
NewNodeId == IF free # <<>> THEN free[Len(free)]
             ELSE IF size = 0 THEN 1 ELSE size

\* get_free_node_id_ creates the input node of a graph that has none
WithInputNode == IF size = 0 THEN [nodes EXCEPT ![0] = InputNode(0)] ELSE nodes

\* d is one more than the largest depth of the inputs, the input list may be
\* empty
IsDepth(d, ins) == /\ \A i \in ins : nodes[i].depth < d
                   /\ d = 1 \/ \E i \in ins : d = nodes[i].depth + 1

\* The node new_node fills in, at depth d
Fresh(ins, w, learns, d) ==
  [live |-> TRUE, input |-> FALSE, ins |-> ins,
   nparsin |-> [j \in Slots |-> IF j \in ins THEN nodes[j].nparsout ELSE 0],
   nparsout |-> w, depth |-> d, mutable |-> TRUE,
   learns |-> learns, learned |-> ~learns]

\* new_node.  An algorithm without a learning phase (learns = FALSE) is born
\* learned.  The inputs have the length the algorithm expects, otherwise the
\* call is refused.
NewNode(ins, w, learns) ==
  /\ health # "dead" /\ gMutable
  /\ ins \subseteq Live
  /\ NewNodeId \in Slots
  /\ \E d \in 1 .. MaxSlots :
       /\ IsDepth(d, ins)
       /\ nodes' = [i \in Slots |->
            IF i = NewNodeId THEN Fresh(ins, w, learns, d)
            ELSE IF i \in ins THEN [WithInputNode[i] EXCEPT !.mutable = FALSE]
            ELSE WithInputNode[i]]
  /\ IF free # <<>>
     THEN free' = SubSeq(free, 1, Len(free) - 1) /\ UNCHANGED size
     ELSE size' = NewNodeId + 1 /\ UNCHANGED free
  /\ UNCHANGED <<out, marks, marksSize, seq, gMutable, gLearned, gNout,
                 subUsers, extUsers, setFailed, health>>

\* Mutant of DeleteNode: the slot is not pushed on free_node_slots_
DeleteNodeLoseSlot(id) ==
  /\ health # "dead"
  /\ id \in Live /\ nodes[id].mutable
  /\ out' = IF id = out THEN NoId ELSE out
  /\ nodes' = [nodes EXCEPT ![id] = DeadNode]
  /\ UNCHANGED <<size, free, marks, marksSize, seq, gMutable, gLearned, gNout,
                 subUsers, extUsers, setFailed, health>>

\* delete_node: the graph may be immutable, only the node's flag is read
DeleteNode(id) ==
  /\ health # "dead"
  /\ id \in Live /\ nodes[id].mutable
  /\ out' = IF id = out THEN NoId ELSE out
  /\ nodes' = [nodes EXCEPT ![id] = DeadNode]
  /\ free' = Append(free, id)
  /\ UNCHANGED <<size, marks, marksSize, seq, gMutable, gLearned, gNout,
                 subUsers, extUsers, setFailed, health>>

\* Mutant of NotLearned: only the direct inputs are looked at
DirectNotLearned(id) == {j \in nodes[id].ins : ~nodes[j].learned}

\* The ids that make set_output_node(id) give up
NotLearned(id) == {j \in Deps(id) \ {id} : ~nodes[j].learned}

\* set_output_node.  Selecting the current output node does nothing.  The
\* marks and the computation sequence are overwritten before the check of the
\* learning flags, which returns from the middle of the loop.
SetOutputNode(id) ==
  /\ health # "dead" /\ gMutable
  /\ id \in Live /\ id # out
  /\ IF \E i \in Deps(id) : ~nodes[i].live
     THEN Die
     ELSE /\ marks' = Deps(id) /\ marksSize' = size
          /\ \/ /\ NotLearned(id) = {}
                /\ seq' \in ByDepth(Deps(id))
                /\ out' = id
                /\ gLearned' = nodes[id].learned
                /\ gNout' = nodes[id].nparsout
                /\ setFailed' = FALSE
             \/ \E j \in NotLearned(id) :
                /\ \A k \in NotLearned(id) : j <= k
                /\ seq' \in Ascending({i \in Deps(id) : i < j})
                /\ setFailed' = TRUE
                /\ UNCHANGED <<out, gLearned, gNout>>
          /\ UNCHANGED <<nodes, size, free, gMutable, subUsers, extUsers,
                         health>>

\* evaluate_comput_seq_ dereferences every node of the computation sequence
SeqIsLive == \A i \in Elems(seq) : nodes[i].live

\* Graph::evaluate in any context: no flag of the graph changes
Evaluate ==
  /\ health # "dead"
  /\ CanBeEvaluated(TRUE)
  /\ ~SeqIsLive
  /\ Die

\* Session::learn: the learning phase of the output node.  w and g are the
\* lengths that the learning calls leave in the node and in the graph.
Learn(ok, w, g) ==
  /\ health # "dead"
  /\ CanBeEvaluated(FALSE)
  /\ nodes[out].mutable
  /\ IF ~nodes[out].learns
     THEN /\ nodes' = [nodes EXCEPT ![out].learned = TRUE]
          /\ gLearned' = TRUE
          /\ UNCHANGED <<size, free, out, marks, marksSize, seq, gMutable,
                         gNout, subUsers, extUsers, setFailed, health>>
     ELSE IF ~SeqIsLive
     THEN Die
     ELSE /\ nodes' = [nodes EXCEPT ![out].learned = ok, ![out].nparsout = w]
          /\ gLearned' = ok
          /\ gNout' = IF ok THEN w ELSE g
          /\ UNCHANGED <<size, free, out, marks, marksSize, seq, gMutable,
                         subUsers, extUsers, setFailed, health>>

\* Mutant of ResetNeededVars: is_mutable is not asked
ResetNeededVarsAnyNode(id, w) ==
  /\ health # "dead"
  /\ id \in Live /\ nodes[id].learns
  /\ nodes' = [nodes EXCEPT ![id].nparsout = w]
  /\ UNCHANGED <<size, free, out, marks, marksSize, seq, gMutable, gLearned,
                 gNout, subUsers, extUsers, setFailed, health>>

\* ffLSolveResetNeededVars: other unknowns, in a solver that may have learned
\* already.  The length is computed from the matrix that the last call left, and may
\* become larger, too.  The graph is not told.
ResetNeededVars(id, w) ==
  /\ health # "dead"
  /\ id \in Live /\ nodes[id].mutable /\ nodes[id].learns
  /\ nodes' = [nodes EXCEPT ![id].nparsout = w]
  /\ UNCHANGED <<size, free, out, marks, marksSize, seq, gMutable, gLearned,
                 gNout, subUsers, extUsers, setFailed, health>>

\* Mutant of SetNodeMutable: the inputs of the other nodes are not searched
SetUsedNodeMutable(id) ==
  /\ health # "dead" /\ gMutable
  /\ id \in Live
  /\ nodes' = [nodes EXCEPT ![id].mutable = TRUE]
  /\ UNCHANGED <<size, free, out, marks, marksSize, seq, gMutable, gLearned,
                 gNout, subUsers, extUsers, setFailed, health>>

\* set_node_mutable
SetNodeMutable(id) ==
  /\ health # "dead" /\ gMutable
  /\ id \in Live /\ ~Used(id)
  /\ nodes' = [nodes EXCEPT ![id].mutable = TRUE]
  /\ UNCHANGED <<size, free, out, marks, marksSize, seq, gMutable, gLearned,
                 gNout, subUsers, extUsers, setFailed, health>>

\* Slots whose mark is read past the end of mark_nodes_: it has any value
Unmarkable == {i \in Slots : marksSize <= i /\ i < size}

\* What prune_graph erases when the bytes of garbage happen not to be zero
Removed(garbage) ==
  {i \in Slots : i < size /\ i \notin garbage
                           /\ ~(i \in marks /\ i < marksSize)}

Pruned(removed) ==
  [i \in Slots |-> IF i \in removed THEN DeadNode
                   ELSE IF i = out THEN [nodes[i] EXCEPT !.mutable = TRUE]
                   ELSE nodes[i]]

\* prune_graph.  Every slot is dereferenced, a free one too, and the output
\* node last.
PruneGraph ==
  /\ health # "dead" /\ gMutable
  /\ \/ /\ marksSize = 0 \/ \E i \in Slots : i < size /\ ~nodes[i].live
        /\ Die
     \/ /\ marksSize # 0 /\ \A i \in Slots : i < size => nodes[i].live
        /\ \E garbage \in SUBSET Unmarkable :
             \/ /\ out = NoId \/ out \in Removed(garbage)
                /\ Die
             \/ /\ out # NoId /\ out \notin Removed(garbage)
                /\ nodes' = Pruned(Removed(garbage))
                /\ \E s \in Ascending(Removed(garbage)) : free' = free \o s
                /\ health' = IF Unmarkable # {} \/ setFailed
                             THEN "astray" ELSE health
                /\ UNCHANGED <<size, out, marks, marksSize, seq, gMutable,
                               gLearned, gNout, subUsers, extUsers, setFailed>>

\* Mutant of UseAsSubgraph: the output node stays mutable
UseAsSubgraphOutMutable ==
  /\ health # "dead"
  /\ gLearned
  /\ subUsers < MaxUsers
  /\ subUsers' = subUsers + 1
  /\ gMutable' = FALSE
  /\ UNCHANGED <<nodes, size, free, out, marks, marksSize, seq, gLearned,
                 gNout, extUsers, setFailed, health>>

\* SubGraph::init_subgraph with this graph
UseAsSubgraph ==
  /\ health # "dead"
  /\ gLearned
  /\ subUsers < MaxUsers
  /\ subUsers' = subUsers + 1
  /\ gMutable' = FALSE
  /\ nodes' = IF out = NoId THEN nodes
              ELSE [nodes EXCEPT ![out].mutable = FALSE]
  /\ UNCHANGED <<size, free, out, marks, marksSize, seq, gLearned, gNout,
                 extUsers, setFailed, health>>

\* Mutant of DropSubgraph: an algorithm without a graph decrements too
DropSubgraphUnchecked ==
  /\ health # "dead"
  /\ subUsers' = subUsers - 1
  /\ gMutable' = (gMutable \/ subUsers + extUsers = 1)
  /\ UNCHANGED <<nodes, size, free, out, marks, marksSize, seq, gLearned,
                 gNout, extUsers, setFailed, health>>

\* SubGraph::dec_subgraph_count_
DropSubgraph ==
  /\ health # "dead"
  /\ subUsers > 0
  /\ subUsers' = subUsers - 1
  /\ gMutable' = (gMutable \/ subUsers + extUsers = 1)
  /\ UNCHANGED <<nodes, size, free, out, marks, marksSize, seq, gLearned,
                 gNout, extUsers, setFailed, health>>

\* GraphExtParallelEvaluator: the graph is made immutable, its output node
\* is not
BeginExtEval ==
  /\ health # "dead"
  /\ CanBeEvaluated(TRUE)
  /\ extUsers < MaxUsers
  /\ extUsers' = extUsers + 1
  /\ gMutable' = FALSE
  /\ UNCHANGED <<nodes, size, free, out, marks, marksSize, seq, gLearned,
                 gNout, subUsers, setFailed, health>>

EndExtEval ==
  /\ health # "dead"
  /\ extUsers > 0
  /\ extUsers' = extUsers - 1
  /\ gMutable' = (gMutable \/ subUsers + extUsers = 1)
  /\ UNCHANGED <<nodes, size, free, out, marks, marksSize, seq, gLearned,
                 gNout, subUsers, setFailed, health>>

Next ==
  \/ \E w \in Widths : SetInputVars(w)
  \/ \E ins \in SUBSET Slots, w \in Widths, learns \in BOOLEAN :
        NewNode(ins, w, learns)
  \/ \E id \in Slots : DeleteNode(id)
  \/ \E id \in Slots : SetOutputNode(id)
  \/ Evaluate
  \/ \E ok \in BOOLEAN, w, g \in Widths : Learn(ok, w, g)
  \/ \E id \in Slots, w \in Widths : ResetNeededVars(id, w)
  \/ \E id \in Slots : SetNodeMutable(id)
  \/ PruneGraph
  \/ UseAsSubgraph
  \/ DropSubgraph
  \/ BeginExtEval
  \/ EndExtEval

Spec == Init /\ [][Next]_graphVars
-----------------------------------------------------------------------------
(* Properties *)

TypeOK ==
  /\ nodes \in [Slots -> Node]
  /\ size \in 0 .. MaxSlots
  /\ free \in Seq(Slots)
  /\ out \in Slots \cup {NoId}
  /\ marks \subseteq Slots /\ marksSize \in 0 .. MaxSlots
  /\ seq \in Seq(Slots)
  /\ gMutable \in BOOLEAN /\ gLearned \in BOOLEAN /\ gNout \in Widths
  /\ subUsers \in 0 .. MaxUsers /\ extUsers \in 0 .. MaxUsers
  /\ setFailed \in BOOLEAN /\ health \in {"ok", "astray", "dead"}

\* delete_node and prune_graph never leave a node with an input that is gone,
\* and a node that feeds another one is immutable, so its algorithm cannot be
\* deleted, re-learned or reconfigured under its reader (new_node,
\* set_node_mutable, delete_node_).
InputsPinned ==
  health = "ok" =>
    \A i \in Live : \A j \in nodes[i].ins :
       nodes[j].live /\ ~nodes[j].mutable

\* A node reads each input with the length that the input really has, although
\* learning, reset_needed and set_input_vars change lengths after the check
\* that new_node makes.
WidthsAgree ==
  health = "ok" =>
    \A i \in Live : \A j \in nodes[i].ins :
       nodes[i].nparsin[j] = nodes[j].nparsout

\* free_node_slots_ lists exactly the empty slots, each once: a slot is never
\* handed out twice and never lost, across deletions, reuse and pruning.
FreeListExact ==
  health # "dead" =>
    /\ Elems(free) = {i \in Slots : i < size /\ ~nodes[i].live}
    /\ \A k, l \in 1 .. Len(free) : free[k] = free[l] => k = l
    /\ \A i \in Live : i < size

\* The computation sequence of a graph whose last set_output_node succeeded
\* lists the nodes the output depends on, all present, each after its inputs,
\* whatever was created, deleted, learned or pruned since.
SeqIsTopological ==
  health = "ok" /\ InputIntact /\ ~setFailed /\ out # NoId =>
    /\ Elems(seq) = Deps(out)
    /\ Elems(seq) \subseteq Live
    /\ \A k \in 1 .. Len(seq) : \A j \in nodes[seq[k]].ins :
          \E l \in 1 .. k - 1 : seq[l] = j

\* graph_can_be_evaluated looks at the output node only: then every node that
\* the evaluation visits has learned, and the flag of the graph, which
\* init_subgraph and reconstruct read, is the flag of its output node.
ReadyToEvaluate ==
  out # NoId =>
    /\ gLearned = nodes[out].learned
    /\ health = "ok" /\ ~setFailed =>
         \A i \in Deps(out) \ {out} : nodes[i].learned

\* While a graph is used as a subgraph nothing its evaluation reads changes:
\* output node, lengths, inputs, learned flags (init_subgraph makes the graph
\* and its output node immutable, delete_node and learn read the node's flag
\* only).
FrozenWhileSubgraph ==
  [][subUsers > 0 /\ out # NoId /\ health = "ok" =>
       /\ out' = out /\ gNout' = gNout /\ gLearned' = gLearned
       /\ seq' = seq
       /\ \A i \in Deps(out) : nodes'[i] = nodes[i]]_graphVars
=============================================================================

------------------------------- MODULE Session -------------------------------
(***************************************************************************)
(* A session (class Session of src/graph.cc): the table of its graphs with *)
(* the ids that are reused, the data of every node in the main context and *)
(* in the workers' contexts, the graphs that other graphs use as subgraphs *)
(* (reference counts of include/fflow/refcounted_ptr.hh), and the external *)
(* evaluators (src/capi_custom_threads.cc).                                *)
(*                                                                         *)
(* A graph is an object; the table gives it an id as long as it is not     *)
(* deleted.  A node is its algorithm: a subgraph node holds a reference to *)
(* the graph it evaluates.  The data of a node are a stamp, a new one for  *)
(* each algorithm and each change of its options.  The edges of a graph    *)
(* and the order of its node slots are in FlowGraph.                       *)
(***************************************************************************)
EXTENDS Integers, Sequences, FiniteSets, SequencesExt

CONSTANTS MaxGraphs,  \* graphs in memory at a time
          NodeIds,    \* ids of the ordinary nodes of a graph
          NWorkers,   \* bound on sub_ctxt_.size()
          Evaluators, \* external evaluators there can be at a time
          MaxCalls    \* bound on the calls made by the application

ASSUME SessionAssumption == /\ MaxGraphs \in Nat \ {0}
                            /\ NWorkers \in Nat \ {0} /\ MaxCalls \in Nat
                            /\ NodeIds \subseteq Nat \ {0} /\ IsFiniteSet(NodeIds)
                            /\ IsFiniteSet(Evaluators)

Graphs == 1 .. MaxGraphs
None == 0
Ids == 0 .. MaxGraphs - 1
Contexts == 0 .. NWorkers       \* 0 is ctxt_, the others are sub_ctxt_
Workers == 1 .. NWorkers

VARIABLES
  table,    \* graphs_: a graph or None for each id handed out so far
  free,     \* free_graph_slots_, last in first out
  graph,    \* the graphs in memory
  data,     \* graph_data_ of each context: the stamp of each node or None
  nsub,     \* sub_ctxt_.size()
  ext,      \* the external evaluators
  ended,    \* ~Session has run
  stamp,    \* the last stamp given to data
  calls     \* calls made so far

vars == <<table, free, graph, data, nsub, ext, ended, stamp, calls>>

-----------------------------------------------------------------------------
NoNode == [stamp |-> None, uses |-> None, mutable |-> TRUE]
Freed == [refs |-> 0, subs |-> 0, attached |-> FALSE, id |-> 0,
          mutable |-> TRUE, learned |-> FALSE, out |-> None,
          nodes |-> [n \in NodeIds |-> NoNode]]
NewGraphAt(id) == [Freed EXCEPT !.refs = 1, !.attached = TRUE, !.id = id]

NoEvaluator == [graph |-> None, threads |-> 0, synched |-> {}]

NoData == [n \in NodeIds |-> None]

InMemory == {g \in Graphs : graph[g].refs > 0}
GraphExists(id) == id < Len(table) /\ table[id + 1] # None
At(id) == table[id + 1]
NodeExists(id, n) == GraphExists(id) /\ graph[At(id)].nodes[n] # NoNode

\* graph_can_be_evaluated; every node that is an output node has learned
CanBeEvaluated(id) == GraphExists(id) /\ graph[At(id)].out # None

Called == ~ended /\ calls < MaxCalls /\ calls' = calls + 1

Init ==
  /\ table = <<>> /\ free = <<>>
  /\ graph = [g \in Graphs |-> Freed]
  /\ data = [c \in Contexts |-> [i \in Ids |-> NoData]]
  /\ nsub = 0 /\ ext = [e \in Evaluators |-> NoEvaluator]
  /\ ended = FALSE /\ stamp = 0 /\ calls = 0

-----------------------------------------------------------------------------
(* References *)

\* Nodes of the graphs of S that hold a reference to h
Holders(gs, S, h) == Cardinality({x \in S \X NodeIds :
                                    gs[x[1]].nodes[x[2]].uses = h})

Once(g) == [h \in Graphs |-> IF h = g THEN 1 ELSE 0]
Never == Once(None)

\* The graphs of gs that are destroyed when refs[h] references to each h are
\* dropped: the destructor of a graph drops those of its subgraph nodes
Destroyed(gs, refs) ==
  LET DownTo0(S) == \A h \in Graphs :
        gs[h].refs > 0 /\ gs[h].refs = refs[h] + Holders(gs, S, h) => h \in S
  IN {g \in Graphs : \A S \in SUBSET Graphs : DownTo0(S) => g \in S}

\* Mutant of Drop: the count of the uses goes down with the references only
\* for the graph that is dropped itself
DropFirstOnly(gs, refs, subs) ==
  LET gone == Destroyed(gs, refs)
      Left(h) == [gs[h] EXCEPT !.refs = @ - refs[h] - Holders(gs, gone, h),
                               !.subs = @ - subs[h],
                               !.mutable = @ \/ (subs[h] > 0 /\ gs[h].subs = subs[h])]
  IN [h \in Graphs |-> IF h \in gone THEN Freed ELSE Left(h)]

\* gs after refs[h] references and subs[h] uses of each h are dropped.  A
\* graph that is used no more is mutable again.
Drop(gs, refs, subs) ==
  LET gone == Destroyed(gs, refs)
      Uses(h) == subs[h] + Holders(gs, gone, h)
      Left(h) == [gs[h] EXCEPT !.refs = @ - refs[h] - Holders(gs, gone, h),
                               !.subs = @ - Uses(h),
                               !.mutable = @ \/ (Uses(h) > 0 /\ gs[h].subs = Uses(h))]
  IN [h \in Graphs |-> IF h \in gone THEN Freed ELSE Left(h)]

\* d after the nodes of the destroyed graphs are: a node deletes its data
\* unless the graph has left the session
WithoutNodesOf(d, gs, gone) ==
  [c \in Contexts |-> [i \in Ids |-> [n \in NodeIds |->
     IF \E g \in gone : /\ gs[g].attached /\ gs[g].id = i
                        /\ gs[g].nodes[n] # NoNode
     THEN None ELSE d[c][i][n]]]]

-----------------------------------------------------------------------------
(* Graphs *)

\* get_free_graph_id_ and new_graph
NewGraph ==
  /\ Called
  /\ \E g \in Graphs \ InMemory :
     /\ \A h \in Graphs \ InMemory : g <= h
     /\ LET id == IF free # <<>> THEN Last(free) ELSE Len(table)
        IN /\ id \in Ids
           /\ graph' = [graph EXCEPT ![g] = NewGraphAt(id)]
           /\ IF free # <<>>
              THEN /\ table' = [table EXCEPT ![id + 1] = g]
                   /\ free' = Front(free)
              ELSE table' = Append(table, g) /\ UNCHANGED free
           /\ data' = [data EXCEPT ![0][id] = NoData]
  /\ UNCHANGED <<nsub, ext, ended, stamp>>

\* Mutant of Detached: the graph keeps its pointer to the session
StillAttached(gs, g) == gs

\* delete_graph begins with session_ = nullptr
Detached(gs, g) == [gs EXCEPT ![g].attached = FALSE]

\* delete_graph: nobody asks if the graph is in use.  The graph lives on as
\* long as a subgraph node or an evaluator holds it.
DeleteGraph(id) ==
  /\ Called
  /\ GraphExists(id)
  /\ LET gs == Detached(graph, At(id))
         gone == Destroyed(gs, Once(At(id)))
     IN /\ graph' = Drop(gs, Once(At(id)), Never)
        /\ data' = [c \in Contexts |->
                      [WithoutNodesOf(data, gs, gone)[c] EXCEPT ![id] = NoData]]
  /\ table' = [table EXCEPT ![id + 1] = None]
  /\ free' = Append(free, id)
  /\ UNCHANGED <<nsub, ext, ended, stamp>>

\* ~Session: the table is cleared and the contexts go
EndSession ==
  /\ Called
  /\ \A e \in Evaluators : ext[e] = NoEvaluator
  /\ graph' = Drop(graph, [g \in Graphs |-> IF g \in Range(table) THEN 1 ELSE 0],
                   Never)
  /\ table' = <<>> /\ free' = <<>> /\ nsub' = 0
  /\ data' = [c \in Contexts |-> [i \in Ids |-> NoData]]
  /\ ended' = TRUE
  /\ UNCHANGED <<ext, stamp>>

-----------------------------------------------------------------------------
(* Nodes *)

\* new_node: the data go to the main context
AddNode(gs, id, n, h) ==
  /\ stamp' = stamp + 1
  /\ graph' = [gs EXCEPT ![At(id)].nodes[n] =
                 [NoNode EXCEPT !.stamp = stamp + 1, !.uses = h]]
  /\ data' = [data EXCEPT ![0][id][n] = stamp + 1]

NewNode(id, n) ==
  /\ Called
  /\ GraphExists(id) /\ ~NodeExists(id, n)
  /\ graph[At(id)].mutable
  /\ AddNode(graph, id, n, None)
  /\ UNCHANGED <<table, free, nsub, ext, ended>>

\* Mutant of InUse: the graph stays mutable
InUseMutable(h) ==
  LET gs == [graph EXCEPT ![h].refs = @ + 1, ![h].subs = @ + 1]
  IN IF graph[h].out = None THEN gs
     ELSE [gs EXCEPT ![h].nodes[graph[h].out].mutable = FALSE]

\* init_subgraph with the graph h
InUse(h) ==
  LET gs == [graph EXCEPT ![h].refs = @ + 1, ![h].subs = @ + 1,
                          ![h].mutable = FALSE]
  IN IF graph[h].out = None THEN gs
     ELSE [gs EXCEPT ![h].nodes[graph[h].out].mutable = FALSE]

\* The constructors of subgraph nodes: the algorithm takes the graph of id2
\* before the graph of id is asked if it accepts the node; when it does not
\* the algorithm is destroyed.
NewSubgraphNode(id, n, id2) ==
  /\ Called
  /\ GraphExists(id) /\ GraphExists(id2) /\ ~NodeExists(id, n)
  /\ graph[At(id2)].learned
  /\ LET h == At(id2)
     IN IF InUse(h)[At(id)].mutable
        THEN AddNode(InUse(h), id, n, h)
        ELSE /\ graph' = Drop(InUse(h), Once(h), Once(h))
             /\ UNCHANGED <<data, stamp>>
  /\ UNCHANGED <<table, free, nsub, ext, ended>>

\* Mutant of Erased: only the data of the main context are deleted
ErasedMainOnly(id, n) == [data EXCEPT ![0][id][n] = None]

\* data without those of a node, in every context (delete_node_data_)
Erased(id, n) == [c \in Contexts |-> [data[c] EXCEPT ![id][n] = None]]

\* delete_node.  A subgraph node drops the graph it holds, which may have been
\* deleted and then goes, with the subgraph nodes it has itself.
DeleteNode(id, n) ==
  /\ Called
  /\ NodeExists(id, n)
  /\ LET g == At(id)
         h == graph[g].nodes[n].uses
         gs == [graph EXCEPT ![g].nodes[n] = NoNode,
                             ![g].out = IF @ = n THEN None ELSE @]
     IN /\ graph[g].nodes[n].mutable
        /\ graph' = IF h = None THEN gs ELSE Drop(gs, Once(h), Once(h))
        /\ data' = WithoutNodesOf(Erased(id, n), gs,
                                  IF h = None THEN {} ELSE Destroyed(gs, Once(h)))
  /\ UNCHANGED <<table, free, nsub, ext, ended, stamp>>

SetOutputNode(id, n) ==
  /\ Called
  /\ NodeExists(id, n)
  /\ graph[At(id)].mutable /\ graph[At(id)].out # n
  /\ graph' = [graph EXCEPT ![At(id)].out = n, ![At(id)].learned = TRUE]
  /\ UNCHANGED <<table, free, data, nsub, ext, ended, stamp>>

SetNodeMutable(id, n) ==
  /\ Called
  /\ NodeExists(id, n)
  /\ graph[At(id)].mutable
  /\ graph' = [graph EXCEPT ![At(id)].nodes[n].mutable = TRUE]
  /\ UNCHANGED <<table, free, data, nsub, ext, ended, stamp>>

\* Mutant of Invalidated: the last context is left out
InvalidatedButLast(id, n) ==
  [c \in Contexts |-> IF c \in Workers \ {nsub}
                      THEN [data[c] EXCEPT ![id][n] = None] ELSE data[c]]

\* invalidate_subctxt_alg_data
Invalidated(id, n) ==
  [c \in Contexts |-> IF c \in Workers THEN [data[c] EXCEPT ![id][n] = None]
                      ELSE data[c]]

\* A call that changes the options of a node through alg_data
ChangeNode(id, n) ==
  /\ Called
  /\ NodeExists(id, n)
  /\ graph[At(id)].nodes[n].mutable
  /\ stamp' = stamp + 1
  /\ graph' = [graph EXCEPT ![At(id)].nodes[n].stamp = stamp + 1]
  /\ data' = [Invalidated(id, n) EXCEPT ![0][id][n] = stamp + 1]
  /\ UNCHANGED <<table, free, nsub, ext, ended>>

-----------------------------------------------------------------------------
(* Contexts *)

\* share_with_subctxt_ and sync_graph_data: context c takes a copy of the data
\* of the node that is marked, unless it has data for it
Shared(d, id, c) ==
  LET n == graph[At(id)].out
  IN IF GraphExists(id) /\ n # None /\ d[c][id][n] = None
     THEN [d EXCEPT ![c][id][n] = d[0][id][n]] ELSE d

\* Contexts 1 to k take their copies, in any order
SharedTo(id, k) ==
  [c \in Contexts |-> IF c \in 1 .. k THEN Shared(data, id, c)[c] ELSE data[c]]

\* init_subcontexts_
Subcontexts(k) == nsub' = IF nsub < k THEN k ELSE nsub

\* The calls that sample, evaluate or find degrees with k threads
\* (parallel_all_degrees, parallel_sample, evaluate_list)
ParallelCall(id, k) ==
  /\ Called
  /\ CanBeEvaluated(id)
  /\ Subcontexts(k)
  /\ data' = SharedTo(id, k)
  /\ UNCHANGED <<table, free, graph, ext, ended, stamp>>

\* GraphExtParallelEvaluator(session, id, k)
BeginExt(e, id, k) ==
  /\ Called
  /\ ext[e] = NoEvaluator
  /\ CanBeEvaluated(id)
  /\ Subcontexts(k)
  /\ ext' = [ext EXCEPT ![e] = [graph |-> At(id), threads |-> k, synched |-> {}]]
  /\ graph' = [graph EXCEPT ![At(id)].refs = @ + 1, ![At(id)].subs = @ + 1,
                            ![At(id)].mutable = FALSE]
  /\ UNCHANGED <<table, free, data, ended, stamp>>

\* evaluate: the copies are made under the id of the graph, at the first call
\* of a thread
EvaluateExt(e, t) ==
  /\ Called
  /\ ext[e] # NoEvaluator /\ t \in 1 .. ext[e].threads
  /\ IF t \in ext[e].synched
     THEN UNCHANGED <<data, ext>>
     ELSE /\ data' = Shared(data, graph[ext[e].graph].id, t)
          /\ ext' = [ext EXCEPT ![e].synched = @ \cup {t}]
  /\ UNCHANGED <<table, free, graph, nsub, ended, stamp>>

\* ~GraphExtParallelEvaluator
EndExt(e) ==
  /\ Called
  /\ ext[e] # NoEvaluator
  /\ LET g == ext[e].graph
     IN /\ graph' = Drop(graph, Once(g), Once(g))
        /\ data' = WithoutNodesOf(data, graph, Destroyed(graph, Once(g)))
  /\ ext' = [ext EXCEPT ![e] = NoEvaluator]
  /\ UNCHANGED <<table, free, nsub, ended, stamp>>

Next ==
  \/ NewGraph
  \/ EndSession
  \/ \E id \in Ids :
       \/ DeleteGraph(id)
       \/ \E n \in NodeIds : \/ NewNode(id, n) \/ DeleteNode(id, n)
                             \/ SetOutputNode(id, n) \/ SetNodeMutable(id, n)
                             \/ ChangeNode(id, n)
       \/ \E n \in NodeIds, id2 \in Ids : NewSubgraphNode(id, n, id2)
       \/ \E k \in Workers : ParallelCall(id, k)
       \/ \E e \in Evaluators, k \in Workers : BeginExt(e, id, k)
  \/ \E e \in Evaluators : EndExt(e) \/ \E t \in Workers : EvaluateExt(e, t)

Spec == Init /\ [][Next]_vars

-----------------------------------------------------------------------------
(* Properties *)

\* The data in the main context are those of the node that is there, also
\* when the id, or that of the graph, belonged to another one before; a
\* worker's context holds the same data or none.  Graphs that were deleted
\* live on as subgraphs and are destroyed later, when their id is in use again
\* (~Node, delete_graph, delete_node, invalidate_subctxt_alg_data,
\* sync_graph_data).
DataFits ==
  \A id \in Ids, n \in NodeIds, c \in Contexts :
     LET d == IF GraphExists(id) THEN graph[At(id)].nodes[n].stamp ELSE None
     IN data[c][id][n] \in IF c = 0 THEN {d} ELSE {d, None}

\* A graph is in memory exactly as long as the table, a subgraph node or an
\* evaluator refers to it, whatever the order in which these go, and it is
\* immutable as long as it is used (RefCountedPtr, subgraph_count_).
CountsExact ==
  \A g \in Graphs :
     LET evals == Cardinality({e \in Evaluators : ext[e].graph = g})
         users == Holders(graph, InMemory, g) + evals
         listed == Cardinality({i \in DOMAIN table : table[i] = g})
     IN /\ graph[g].refs = users + listed
        /\ graph[g].subs = users
        /\ users > 0 => ~graph[g].mutable

\* No graph evaluates itself through its subgraphs: it would never return, and
\* the references would keep each other in memory.  A graph in use is
\* immutable and takes no new node, and taking itself makes it so
\* (init_subgraph, new_node).
NoCycles ==
  \A S \in SUBSET InMemory :
     S # {} => \E g \in S : \A n \in NodeIds : graph[g].nodes[n].uses \notin S

\* When the session goes, every graph goes with it, those that were deleted
\* while others used them too: the destructors of the graphs drop all that
\* their nodes hold, and no graph is held in a circle (~Session, ~Graph).
NothingLeft == ended => InMemory = {}
=============================================================================

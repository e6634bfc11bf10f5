----------------------------- MODULE LinkNodes -----------------------------
(***************************************************************************)
(* The handlers of mathlink/fflowmlink.cc that create nodes: they read the *)
(* arguments, build an algorithm and its data, and give it to              *)
(* Graph::new_node.                                                        *)
(***************************************************************************)
EXTENDS LinkPaths

\* Graph::new_node checks the inputs and reports what it refuses.
NewNode == Fails("new_node") ** Failed \cup Calls("new_node") ** MLPutAtom

\* The packet is finished before the graph is looked up.
IfGraph(A) == MLNewPacket ** (Failed \cup A)

\* Mutant of IfInit: a failed init returns without an answer.
IfInitSilent(init, A) == Fails(init) \cup Calls(init) ** A

\* An init that checks its arguments.
IfInit(init, A) == Fails(init) ** Failed \cup Calls(init) ** A

Node(A) == Arguments(Get("Integer") ** get_input_nodes ** A)

(* subgraphs *)

SubgraphNode(init) ==
  Node(Get("Integer") ** IfGraph(IfInit(init, NewNode)))

fflowml_alg_simple_subgraph == SubgraphNode("init_subgraph")

fflowml_alg_memoized_subgraph == SubgraphNode("init_subgraph")

fflowml_alg_subgraph_map == SubgraphNode("init_subgraph")

(* linear systems: init is called before the packet is finished *)

NeededVars == Get("Integers") ** Calls("init")

fflowml_alg_dense_system ==
  Node(get_dense_system_data ** NeededVars ** IfGraph(NewNode))

fflowml_alg_sparse_system ==
  Node(Get("Integer") ** Get("Integer") ** get_sparse_system_data
       ** NeededVars ** IfGraph(NewNode))

fflowml_alg_num_dense_system ==
  Node(get_num_dense_system_data ** NeededVars ** IfGraph(NewNode))

fflowml_alg_node_dense_system ==
  Node(Get("Integer") ** Get("Integer") ** NeededVars ** IfGraph(NewNode))

\* columns out of order are reported when the packet is finished
fflowml_alg_node_sparse_system ==
  Node(Get("Integer") ** ListOf(Get("Integers"))
       ** (NeededVars ** IfGraph(NewNode)
           \cup MLNewPacket ** logerr ** Failed))

fflowml_alg_num_sparse_system ==
  Node(Get("Integer") ** get_num_sparse_system_data ** NeededVars ** IfGraph(NewNode))

\* a missing input node is answered while the system is still to be read
fflowml_alg_sparse_system_ex ==
  Node(Get("Integer") ** Get("Integer")
       ** (MLNewPacket ** Failed
           \cup get_sparse_system_ex_data(NeededVars ** IfGraph(NewNode), MLNewPacket ** Failed)))

FileNode(load) ==
  Node(Get("String") ** (Calls(load) ** IfGraph(NewNode)
                         \cup Fails(load) ** MLNewPacket ** Failed))

fflowml_alg_json_sparse_system == FileNode("json_sparse_system")

fflowml_alg_json_ratfun == FileNode("json_sparse_ratfun")

-----------------------------------------------------------------------------
(* functions and lists *)

fflowml_alg_nonzero ==
  Node(IfGraph(Calls("init") ** NewNode))

FunctionNode(A) == Node(A ** IfGraph(Calls("init") ** NewNode))

fflowml_alg_ratfun_eval == FunctionNode(Get("Integer") ** ListOf(get_ratfun))

fflowml_alg_coeff_ratfun_eval ==
  FunctionNode(Get("Integer") ** Get("Integer")
               ** ListOf(get_horner_ratfun(get_coeff_positions)))

fflowml_alg_ratnum_eval == FunctionNode(ListOf(get_rational))

\* the list of numbers is read only if the node is one of numbers
fflowml_reset_ratnum_eval ==
  Arguments(Get("Integer") ** Get("Integer")
            ** (MLNewPacket ** Failed
                \cup UNION {OpenList(n) ** MLNewPacket ** Failed : n \in Lens}
                \cup ListOf(get_rational) ** Calls("numbers")
                     ** Calls("invalidate_subctxt_alg_data") ** MLNewPacket ** MLPutNull))

(* lists: input nodes are looked up while arguments are left to read *)

\* Mutant of MissingInput: the rest of the packet is not discarded.
MissingInputUnread == Failed

MissingInput == MLNewPacket ** Failed

\* the packet is finished before the result of init is answered
InitOrFail(init) ==
  Fails(init) ** MLNewPacket ** Failed \cup Calls(init) ** IfGraph(NewNode)

fflowml_alg_chain == Node(MissingInput \cup Calls("init") ** IfGraph(NewNode))

fflowml_alg_take == Node(MissingInput \cup GroupsOf(2) ** InitOrFail("take"))

fflowml_alg_slice ==
  Node(Get("Integer") ** Get("Integer") ** IfGraph(IfInit("slice", NewNode)))

fflowml_alg_add == Node(MLNewPacket ** Calls("init") ** (Failed \cup NewNode))

fflowml_alg_add_one == Node(IfGraph(Calls("init") ** NewNode))

fflowml_alg_mul == Node(MLNewPacket ** Calls("init") ** (Failed \cup NewNode))

fflowml_alg_mat_mul ==
  Node(Ints(1) ** Ints(2) ** MLNewPacket ** Calls("init") ** (Failed \cup NewNode))

fflowml_alg_take_and_add ==
  Node(MissingInput \cup ListOf(GroupsOf(2)) ** InitOrFail("take"))

fflowml_alg_take_and_add_bl ==
  Node(MissingInput \cup ListOf(GroupsOf(4)) ** InitOrFail("take"))

-----------------------------------------------------------------------------
(* fits, and expansions and reconstructions of subgraphs *)

\* the inputs that are weights are looked up before the needed variables are read
FitNode(A) ==
  MLTestHead ** Get("Integer") ** get_input_nodes ** Get("Integer") ** A
  ** Get("Integer") ** ListOf(Get("Integers")) ** ListOf(Get("Integers"))
  ** (MissingInput \cup Get("Integers") ** InitOrFail("fit"))

fflowml_alg_linear_fit == FitNode(Times(get_cut_solve_horner_data, 2) ** get_cut_solve_horner_data)

fflowml_alg_numeric_fit == FitNode(Times(get_cut_solve_numeric_data, 2) ** get_cut_solve_numeric_data)

\* init reports its failure when the order and the degree are not read yet
fflowml_alg_laurent ==
  Node(Get("Integer")
       ** (MissingInput
           \cup Fails("init_subgraph") ** Get("Integers") ** Get("Integer") ** MLNewPacket ** Failed
           \cup Calls("init_subgraph") ** Get("Integers") ** Get("Integer") ** IfGraph(NewNode)))

fflowml_alg_subgraph_fit ==
  Node(Get("Integer")
       ** (MissingInput
           \cup Get("Integer") ** Get("Integer") ** Get("Integers") ** Get("Integer")
                ** InitOrFail("init_subgraph")))

fflowml_alg_subgraph_multifit ==
  Node(Get("Integer")
       ** (MissingInput
           \cup Get("Integer") ** ListOf(Get("Integers")) ** ListOf(Get("Integers"))
                ** Get("Integer") ** InitOrFail("init_subgraph")))

fflowml_alg_subgraph_rec ==
  Node(Get("Integer") ** Get("Integer") ** Get("Integer")
       ** (MissingInput \cup InitOrFail("init_subgraph")))
=============================================================================

---------------------------- MODULE LinkPackage ----------------------------
(***************************************************************************)
(* What mathlink/FiniteFlow32.m sends to each handler, in the tokens of    *)
(* LinkPaths.  The package converts and checks its arguments before it     *)
(* calls, which is not modelled: a call carries well formed arguments.     *)
(***************************************************************************)
EXTENDS LinkPaths

GraphId == Get("Integer")
NodeId == Get("Integer")
Flag == Get("Integer")

\* FFRegisterAlgorithm: graph id, ids of the inputs, and what the node needs.
Register(A) == GraphId ** Get("Integers") ** A

SetReconstructionOptions == Get("8 Integers")

\* toFFInternalRatFun: a function of no terms has its number of variables only
RatFunOf(A) ==
  OpenList(1) ** Get("Integer") \cup OpenList(2) ** ListOf(A) ** ListOf(A)
Term == OpenList(2) ** Get("Integers") ** Get("String")
CoeffPosition == OpenList(2) ** Get("Integers") ** Get("Integer")
InternalRatFun == RatFunOf(Term)
PolyRatFun ==
  OpenList(2) ** Times(ListOf(OpenList(2) ** Get("Integers") ** ListOf(Term)), 2)
Pair == OpenList(2) ** Get("Integers") ** Get("Integers")
ColumnsAndWeights == OpenList(2) ** Get("Integers") ** ListOf(Get("Integers"))
Needed == Get("Integers")

FitOf(A) ==
  Register(Get("Integer") ** ListOf(A) ** ListOf(A) ** ListOf(A) ** Get("Integer")
           ** ListOf(Get("Integers")) ** ListOf(Get("Integers")) ** Needed)

-----------------------------------------------------------------------------
(* handlers grouped by their arguments *)

NoArgument ==
  {"version", "n_available_primes", "default_nthreads", "graph_new", "default_maxdeg",
   "default_max_rec_primes"}

AGraph ==
  {"prime_no", "graph_delete", "peek_new_node_id", "graph_nparsout", "graph_prune",
   "alg_system_is_impossible", "alg_learn"}

AGraphAndANode ==
  {"node_delete", "graph_set_out_node", "graph_input_vars", "node_nparsout",
   "node_set_mutable", "graph_edges", "graph_nodes", "alg_system_only_homogeneous",
   "alg_system_only_non_homogeneous", "alg_system_sparse_output", "alg_mark_and_sweep_eqs",
   "alg_delete_unneeded_eqs", "alg_get_info", "alg_solver_neqs_nvars", "alg_n_indep_eqs",
   "alg_indep_eqs", "alg_solver_zero_vars", "alg_independent_of_var", "graph_dummy",
   "mul_inv", "alg_cached_subgraph_merge", "sls_optimize_zero_vars",
   "sls_is_optimizing_zero_vars"}

InputsOnly ==
  {"alg_chain", "alg_add", "alg_add_one", "alg_mul", "alg_nonzero", "alg_evalcount"}

ASubgraph ==
  {"alg_simple_subgraph", "alg_memoized_subgraph", "alg_subgraph_map", "alg_cached_subgraph"}

Options == {"alg_degrees", "alg_vars_degrees", "alg_univariate_reconstruct",
            "alg_univariate_reconstruct_mod", "alg_numeric_reconstruct"}

ThreadsAndOptions ==
  {"alg_all_degrees", "alg_sample", "alg_reconstruct", "alg_reconstruct_mod"}

AFile == {"dump_degrees", "load_degrees", "dump_evaluations"}

FileAlone == {"samples_file_size", "npars_from_degree_info"}

ANodeFile == {"alg_json_sparse_system", "alg_json_ratfun"}

Grouped ==
  UNION {NoArgument, AGraph, AGraphAndANode, InputsOnly, ASubgraph, Options,
         ThreadsAndOptions, AFile, FileAlone, ANodeFile}

SentToGroup(h) ==
  CASE h \in NoArgument -> Skip
    [] h \in AGraph -> GraphId
    [] h \in AGraphAndANode -> GraphId ** NodeId
    [] h \in InputsOnly -> Register(Skip)
    [] h \in ASubgraph -> Register(GraphId)
    [] h \in Options -> GraphId ** SetReconstructionOptions
    [] h \in ThreadsAndOptions -> GraphId ** Flag ** SetReconstructionOptions
    [] h \in AFile -> GraphId ** Get("String")
    [] h \in FileAlone -> Get("String")
    [] h \in ANodeFile -> Register(Get("String"))

(* the others, by what they are about *)

SentToSystems ==
  [alg_dense_system |-> Register(Ints(2) ** ListOf(ListOf(InternalRatFun)) ** Needed),
   alg_num_dense_system |-> Register(Ints(1) ** ListOf(ListOf(Get("String"))) ** Needed),
   alg_node_dense_system |-> Register(Ints(2) ** Needed),
   alg_node_sparse_system |-> Register(Ints(1) ** ListOf(Get("Integers")) ** Needed),
   alg_sparse_system |->
     Register(Ints(2) ** ListOf(InternalRatFun) ** ListOf(Pair) ** Needed),
   alg_num_sparse_system |->
     Register(Ints(1) ** ListOf(Get("String")) ** ListOf(Pair) ** Needed),
   alg_sparse_system_ex |->
     Register(Ints(2) ** ListOf(InternalRatFun) ** ListOf(ColumnsAndWeights) ** Needed)]

SentToSamples ==
  [alg_sample_from_points |->
     GraphId ** Flag ** SetReconstructionOptions ** Get("String") ** Ints(2),
   alg_count_sample_points |->
     GraphId ** Flag ** SetReconstructionOptions ** Get("String"),
   dump_sample_points |-> GraphId ** Get("String") ** SetReconstructionOptions,
   load_evaluations |-> GraphId ** ListOf(Get("String")),
   set_degrees |-> GraphId ** Get("Integers")]

SentToSetters ==
  [alg_system_reset_neeed |-> GraphId ** NodeId ** Needed,
   alg_system_sparse_output_with_maxcol |->
     GraphId ** NodeId ** Get("Integer") ** Flag ** Flag,
   alg_system_eq_weight |-> GraphId ** NodeId ** Get("Integers")]

SentToFunctions ==
  [alg_ratfun_eval |-> Register(Ints(1) ** ListOf(InternalRatFun)),
   alg_coeff_ratfun_eval |-> Register(Ints(2) ** ListOf(RatFunOf(CoeffPosition))),
   alg_ratnum_eval |-> Register(ListOf(Get("String"))),
   reset_ratnum_eval |-> GraphId ** NodeId ** ListOf(Get("String")),
   alg_take |-> Register(GroupsOf(2)),
   alg_take_and_add |-> Register(ListOf(GroupsOf(2))),
   alg_take_and_add_bl |-> Register(ListOf(GroupsOf(4))),
   alg_slice |-> Register(Ints(2)),
   alg_mat_mul |-> Register(Ints(2) ** Ints(1)),
   alg_sparse_mat_mul |->
     Register(Ints(2) ** Ints(1) ** ListOf(Get("Integers")) ** ListOf(Get("Integers"))),
   alg_evalcount_getset |-> GraphId ** NodeId ** Get("Integer")]

SentToFits ==
  [alg_linear_fit |-> FitOf(PolyRatFun),
   alg_numeric_fit |-> FitOf(InternalRatFun),
   alg_subgraph_fit |-> Register(GraphId ** Ints(2) ** Needed ** Get("Integer")),
   alg_subgraph_multifit |->
     Register(GraphId ** Ints(1) ** ListOf(Get("Integers")) ** ListOf(Needed) ** Get("Integer")),
   alg_subgraph_rec |-> Register(GraphId ** Get("Integer") ** Flag),
   alg_cached_from_subgraph |-> Register(GraphId ** NodeId),
   alg_cached_subgraph_default_subcache_size |-> GraphId ** NodeId ** Get("Integer"),
   alg_laurent |-> Register(GraphId ** Get("Integers") ** Flag)]

SentToEvaluate ==
  [graph_evaluate |-> GraphId ** Get("Integers") ** Get("Integer"),
   graph_evaluate_list |-> GraphId ** Flag ** Get("Integer") ** ListOf(Get("Integers")),
   alg_rat_rec |-> ListOf(Get("String")) ** Get("String"),
   parallel_rat_rec |-> ListOf(Get("String")) ** Get("String") ** Flag,
   alg_set_learning_options |-> GraphId ** NodeId ** Flag ** Flag,
   alg_ratexpr_eval |->
     Register(Ints(1) ** ListOf(Get("Integers")) ** ListOf(Get("String")) ** Get("Integers")),
   alg_ratexpr_parse |-> Register(Ints(1) ** Get("String") ** ListOf(Get("String")))]

SentTo == SentToSystems @@ SentToSamples @@ SentToSetters
          @@ SentToFunctions @@ SentToFits @@ SentToEvaluate

Sent(h) == IF h \in Grouped THEN SentToGroup(h) ELSE SentTo[h]
=============================================================================

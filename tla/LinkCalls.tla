----------------------------- MODULE LinkCalls -----------------------------
(***************************************************************************)
(* The handlers of mathlink/fflowmlink.cc that work on graphs and on       *)
(* algorithms that exist: graphs, learning, options of solvers, degrees,   *)
(* samples, reconstruction.                                                *)
(***************************************************************************)
EXTENDS LinkPaths

Orfails(A) == Failed \cup A

\* A session call with a result Null, or $Failed.
Answered(c) == Calls(c) ** MLPutNull \cup Fails(c) ** Failed

NoArguments(A) == MLTestHead ** MLNewPacket ** A

GraphAndNode(A) == Arguments(Get("Integer") ** Get("Integer") ** A)

-----------------------------------------------------------------------------
(* library and graphs *)

fflowml_version == NoArguments(MLPutAtom)

fflowml_mul_inv ==
  MLTestHead ** Get("Integer") ** Get("Integer") ** MLNewPacket ** MLPutAtom

fflowml_prime_no ==
  MLTestHead ** Get("Integer") ** MLNewPacket ** Orfails(MLPutAtom)

fflowml_n_available_primes == NoArguments(MLPutAtom)

fflowml_default_nthreads == NoArguments(MLPutAtom)

fflowml_graph_new == NoArguments(Calls("new_graph") ** MLPutAtom)

fflowml_graph_dummy ==
  MLTestHead ** Get("Integer") ** Get("Integer") ** MLNewPacket
  ** Calls("new_dummy_graph") ** MLPutAtom

fflowml_graph_delete ==
  MLTestHead ** Get("Integer") ** MLNewPacket ** Calls("delete_graph") ** MLPutNull

fflowml_node_delete ==
  MLTestHead ** Get("Integer") ** Get("Integer") ** MLNewPacket ** Answered("delete_node")

fflowml_graph_set_out_node == GraphAndNode(MLNewPacket ** Answered("set_output_node"))

fflowml_graph_input_vars ==
  GraphAndNode(MLNewPacket ** Orfails(Answered("set_input_vars")))

fflowml_peek_new_node_id ==
  MLTestHead ** Get("Integer") ** MLNewPacket ** Orfails(MLPutAtom)

fflowml_graph_nparsout ==
  Arguments(Get("Integer") ** MLNewPacket ** Orfails(MLPutAtom))

fflowml_node_nparsout == GraphAndNode(MLNewPacket ** Orfails(MLPutAtom))

fflowml_node_set_mutable == GraphAndNode(MLNewPacket ** Answered("set_node_mutable"))

fflowml_graph_prune == Arguments(Get("Integer") ** MLNewPacket ** Answered("prune_graph"))

fflowml_graph_edges == GraphAndNode(MLNewPacket ** Orfails(MLPutAtom))

fflowml_graph_nodes == GraphAndNode(MLNewPacket ** Orfails(MLPutAtom))

-----------------------------------------------------------------------------
(* options of linear solvers: the work is done before the packet is finished *)

\* A change of an algorithm, and the copies of its data that it makes stale.
Change(c) == Calls(c) ** Calls("invalidate_subctxt_alg_data")

Setter(A) == A ** MLNewPacket ** MLPutNull \cup MLNewPacket ** Failed

\* Mutant of FailingSetter: the copies of the data are kept.
FailingSetterKeeps(c) == Setter(Calls(c)) \cup Fails(c) ** MLNewPacket ** Failed

FailingSetter(c) == Setter(Change(c)) \cup Fails(c) ** MLNewPacket ** Failed

fflowml_alg_system_reset_neeed ==
  GraphAndNode(Get("Integers") ** FailingSetter("reset_needed"))

\* the node may be left out: then it is the output node
fflowml_alg_system_is_impossible ==
  Arguments(Get("Integer") ** Optional("Integer") ** MLNewPacket ** Orfails(MLPutAtom))

fflowml_alg_system_only_homogeneous == GraphAndNode(Setter(Change("only_homogeneous")))

\* the copies are also invalidated when the call fails
fflowml_alg_system_only_non_homogeneous ==
  GraphAndNode(Setter(Change("only_non_homogeneous"))
               \cup Fails("only_non_homogeneous")
                    ** Calls("invalidate_subctxt_alg_data") ** MLNewPacket ** Failed)

fflowml_alg_system_sparse_output == GraphAndNode(Setter(Change("sparse_output")))

fflowml_alg_system_sparse_output_with_maxcol ==
  GraphAndNode(Get("Integer") ** Get("Integer") ** Get("Integer")
               ** FailingSetter("sparse_output_with_maxcol"))

fflowml_alg_system_eq_weight ==
  GraphAndNode(Get("Integers")
               ** (Setter(Change("set_eq_weight")) \cup logerr ** MLNewPacket ** Failed))

fflowml_alg_mark_and_sweep_eqs ==
  GraphAndNode(MLNewPacket ** Orfails(Change("mark_and_sweep_eqs") ** MLPutAtom))

fflowml_alg_delete_unneeded_eqs ==
  GraphAndNode(MLNewPacket ** Orfails(Change("delete_unneeded_eqs") ** MLPutNull))

fflowml_alg_learn ==
  Arguments(Get("Integer") ** MLNewPacket
            ** (Fails("learn") ** Failed \cup Calls("learn") ** put_info_of_kind))

fflowml_alg_get_info == GraphAndNode(MLNewPacket ** Orfails(put_alg_info))

fflowml_alg_set_learning_options ==
  GraphAndNode(Get("Integer") ** Get("Integer") ** MLNewPacket
               ** Orfails(Calls("learn_opt") ** MLPutNull))

fflowml_alg_solver_neqs_nvars ==
  GraphAndNode(MLNewPacket ** (Failed \cup logerr ** Failed
                               \cup MLPutFunction(2) ** MLPutAtom ** MLPutAtom))

fflowml_alg_n_indep_eqs == GraphAndNode(MLNewPacket ** Orfails(MLPutAtom))

fflowml_alg_indep_eqs == GraphAndNode(MLNewPacket ** Orfails(MLPutAtom))

fflowml_alg_solver_zero_vars == GraphAndNode(MLNewPacket ** Orfails(MLPutAtom))

-----------------------------------------------------------------------------
(* degrees, samples and reconstruction *)

WithOptions(A) == Arguments(Get("Integer") ** get_rec_opt ** MLNewPacket ** A)

WithThreads(A) ==
  Arguments(Get("Integer") ** Get("Integer") ** get_rec_opt ** A)

Result(c, A) == Fails(c) ** Failed \cup Calls(c) ** A

fflowml_alg_degrees == WithOptions(Result("degrees", PutList(put_alg_degree)))

fflowml_alg_vars_degrees == WithOptions(Result("all_var_degrees", MLPutNull))

fflowml_alg_all_degrees ==
  WithThreads(MLNewPacket ** Result("parallel_all_degrees", PutList(put_alg_degree)))

fflowml_alg_sample == WithThreads(MLNewPacket ** Answered("parallel_sample"))

fflowml_alg_sample_from_points ==
  WithThreads(Get("String") ** Get("Integer") ** Get("Integer")
              ** MLNewPacket ** Answered("parallel_sample"))

\* $Failed, FFMissingPoints and FFMissingPrimes are symbols alike
fflowml_alg_reconstruct ==
  WithThreads(MLNewPacket
              ** Orfails(Result("parallel_reconstruct", PutList(put_sparse_ratfun))))

fflowml_alg_reconstruct_mod ==
  WithThreads(MLNewPacket
              ** Orfails(Result("parallel_reconstruct_mod", PutList(put_sparse_ratfun))))

fflowml_alg_univariate_reconstruct ==
  WithOptions(Orfails(Result("reconstruct_univariate", PutList(put_sparse_ratfun))))

fflowml_alg_univariate_reconstruct_mod ==
  WithOptions(Orfails(Result("reconstruct_univariate_mod", PutList(put_sparse_ratfun))))

fflowml_alg_numeric_reconstruct ==
  WithOptions(Orfails(Result("reconstruct_numeric", PutList(put_mprat))))

\* the result is 0, 1 or FAILED, and each has its symbol
fflowml_alg_independent_of_var ==
  GraphAndNode(MLNewPacket
               ** (Calls("independent_of_var") ** MLPutAtom
                   \cup Fails("independent_of_var") ** Failed))
=============================================================================

----------------------------- MODULE LinkFiles -----------------------------
(***************************************************************************)
(* The remaining handlers of mathlink/fflowmlink.cc: degrees, points and   *)
(* evaluations in files, evaluations of a graph, rational numbers,         *)
(* expressions, cached subgraphs and counters of evaluations.              *)
(***************************************************************************)
EXTENDS LinkNodes, LinkCalls

fflowml_default_maxdeg == NoArguments(MLPutAtom)

fflowml_default_max_rec_primes == NoArguments(MLPutAtom)

\* The file is written or read before the packet is finished.
FileCall(c, A) ==
  MLTestHead ** Get("Integer") ** A
  ** (Calls(c) ** MLNewPacket ** MLPutNull \cup Fails(c) ** MLNewPacket ** Failed)

fflowml_dump_degrees == FileCall("dump_degrees", Get("String"))

fflowml_load_degrees == FileCall("load_degrees", Get("String"))

fflowml_dump_sample_points == FileCall("dump_sample_points", Get("String") ** get_rec_opt)

fflowml_dump_evaluations == FileCall("dump_evaluations", Get("String"))

fflowml_load_evaluations == FileCall("load_evaluations", ListOf(Get("String")))

fflowml_set_degrees ==
  MLTestHead ** Get("Integer") ** Get("Integers") ** MLNewPacket ** Answered("set_degrees")

FileSize == MLTestHead ** Get("String") ** Calls("read") ** MLNewPacket ** Orfails(MLPutAtom)

fflowml_samples_file_size == FileSize

fflowml_npars_from_degree_info == FileSize

fflowml_alg_count_sample_points ==
  WithThreads(Get("String") ** MLNewPacket
              ** Orfails(Result("count_sample_points",
                                MLPutFunction(2) ** MLPutAtom ** MLPutAtom)))

-----------------------------------------------------------------------------
(* evaluations *)

\* Mutant of fflowml_graph_evaluate: the prime is read before the point.
fflowml_graph_evaluate_prime_first ==
  MLTestHead ** Ints(2) ** Get("Integers") ** MLNewPacket ** Result("evaluate", MLPutAtom)

fflowml_graph_evaluate ==
  MLTestHead ** Get("Integer") ** Get("Integers") ** Get("Integer") ** MLNewPacket
  ** (Fails("graph_can_be_evaluated") ** Failed \cup Result("evaluate", MLPutAtom) \cup Failed)

\* The first point with a wrong length or prime ends the call.
points_then(n, A) ==
  LET point(B) == Get("Integers") ** (MLNewPacket ** Failed \cup B)
  IN IF n = 0 THEN A ELSE IF n = 1 THEN point(A) ELSE point(point(A))

fflowml_graph_evaluate_list ==
  MLTestHead ** Get("Integer")
  ** (Fails("graph_can_be_evaluated") ** MLNewPacket ** Failed
      \cup Calls("graph_can_be_evaluated") ** Get("Integer") ** Get("Integer")
           ** (MLNewPacket ** Failed
               \cup UNION {OpenList(n) **
                            points_then(n, MLNewPacket **
                                           Result("evaluate_list", PutList(MLPutAtom))) :
                            n \in Lens}))

-----------------------------------------------------------------------------
(* rational numbers and expressions *)

fflowml_alg_rat_rec ==
  Arguments(ListOf(Get("String")) ** Get("String") ** MLNewPacket ** PutList(put_mprat))

fflowml_parallel_rat_rec ==
  Arguments(ListOf(Get("String")) ** Get("String") ** Get("Integer") ** MLNewPacket
            ** Calls("parallel_rat_rec") ** PutList(put_mprat))

fflowml_alg_ratexpr_eval ==
  FunctionNode(Get("Integer") ** ListOf(Get("Integers")) ** ListOf(get_rational)
               ** Get("Integers"))

fflowml_alg_ratexpr_parse ==
  Node(Get("Integer") ** Get("String") ** ListOf(Get("String"))
       ** MLNewPacket ** IfInit("parse_ratexpr_list", Failed \cup Calls("init") ** NewNode))

fflowml_alg_sparse_mat_mul ==
  Node(Ints(1) ** Ints(2) ** ListOf(Get("Integers")) ** ListOf(Get("Integers"))
       ** MLNewPacket ** IfInit("init", Failed \cup NewNode))

-----------------------------------------------------------------------------
(* cached subgraphs and counters *)

fflowml_alg_cached_subgraph == SubgraphNode("init_subgraph")

fflowml_alg_cached_from_subgraph ==
  Node(Get("Integer") ** Get("Integer") ** IfGraph(IfInit("init", NewNode)))

fflowml_alg_cached_subgraph_merge ==
  GraphAndNode(MLNewPacket ** Orfails(Calls("merge_caches") ** MLPutNull))

fflowml_alg_cached_subgraph_default_subcache_size ==
  GraphAndNode(Get("Integer") ** MLNewPacket
               ** Orfails(Calls("set_default_subcache_size") ** MLPutNull))

fflowml_alg_evalcount ==
  Node(MLNewPacket ** (logerr ** Failed \cup Calls("init") ** NewNode))

fflowml_alg_evalcount_getset ==
  GraphAndNode(Get("Integer") ** MLNewPacket
               ** (Failed \cup Calls("resetCount") ** MLPutAtom \cup logerr ** Failed))

\* the copies are also invalidated when the call fails
fflowml_sls_optimize_zero_vars ==
  GraphAndNode(Setter(Change("optimize_zero_vars"))
               \cup Fails("optimize_zero_vars")
                    ** Calls("invalidate_subctxt_alg_data") ** MLNewPacket ** Failed)

\* everything is read: the packet is finished by the last token
fflowml_sls_is_optimizing_zero_vars == GraphAndNode(MLPutAtom)
=============================================================================

------------------------------ MODULE MathLink ------------------------------
(***************************************************************************)
(* The Mathematica link (mathlink/fflowmlink.cc with FiniteFlow32.m).  The *)
(* kernel calls one handler at a time: it sends the arguments, the handler *)
(* reads them, calls the library, which may ask the kernel to print an     *)
(* error over the same link, and puts one expression as the answer.        *)
(***************************************************************************)
EXTENDS LinkFiles, LinkPackage

VARIABLES
  handler,   \* the handler that runs, or "none"
  todo,      \* the path that is left to it
  unread,    \* the arguments that are left to read
  open,      \* whether the head of the arguments has been read
  owed,      \* expressions the kernel waits for
  stale      \* an algorithm has changed and the copies of its data have not

vars == <<handler, todo, unread, open, owed, stale>>

\* LibraryFunctionLoad: the handlers by name
Handlers ==
  [alg_simple_subgraph |-> fflowml_alg_simple_subgraph, alg_memoized_subgraph |->
   fflowml_alg_memoized_subgraph, alg_subgraph_map |-> fflowml_alg_subgraph_map, alg_dense_system
   |-> fflowml_alg_dense_system, alg_sparse_system |-> fflowml_alg_sparse_system,
   alg_num_dense_system |-> fflowml_alg_num_dense_system, alg_node_dense_system |->
   fflowml_alg_node_dense_system, alg_node_sparse_system |-> fflowml_alg_node_sparse_system,
   alg_num_sparse_system |-> fflowml_alg_num_sparse_system, alg_sparse_system_ex |->
   fflowml_alg_sparse_system_ex, alg_json_sparse_system |-> fflowml_alg_json_sparse_system,
   alg_json_ratfun |-> fflowml_alg_json_ratfun, alg_nonzero |-> fflowml_alg_nonzero,
   alg_ratfun_eval |-> fflowml_alg_ratfun_eval, alg_coeff_ratfun_eval |->
   fflowml_alg_coeff_ratfun_eval, alg_ratnum_eval |-> fflowml_alg_ratnum_eval, reset_ratnum_eval
   |-> fflowml_reset_ratnum_eval, alg_chain |-> fflowml_alg_chain, alg_take |-> fflowml_alg_take,
   alg_slice |-> fflowml_alg_slice, alg_add |-> fflowml_alg_add, alg_add_one |->
   fflowml_alg_add_one, alg_mul |-> fflowml_alg_mul, alg_mat_mul |-> fflowml_alg_mat_mul,
   alg_take_and_add |-> fflowml_alg_take_and_add, alg_take_and_add_bl |->
   fflowml_alg_take_and_add_bl, alg_linear_fit |-> fflowml_alg_linear_fit, alg_numeric_fit |->
   fflowml_alg_numeric_fit, alg_laurent |-> fflowml_alg_laurent, alg_subgraph_fit |->
   fflowml_alg_subgraph_fit, alg_subgraph_multifit |-> fflowml_alg_subgraph_multifit,
   alg_subgraph_rec |-> fflowml_alg_subgraph_rec, version |-> fflowml_version, mul_inv |->
   fflowml_mul_inv, prime_no |-> fflowml_prime_no, n_available_primes |->
   fflowml_n_available_primes, default_nthreads |-> fflowml_default_nthreads, graph_new |->
   fflowml_graph_new, graph_dummy |-> fflowml_graph_dummy, graph_delete |-> fflowml_graph_delete,
   node_delete |-> fflowml_node_delete, graph_set_out_node |-> fflowml_graph_set_out_node,
   graph_input_vars |-> fflowml_graph_input_vars, peek_new_node_id |-> fflowml_peek_new_node_id,
   graph_nparsout |-> fflowml_graph_nparsout, node_nparsout |-> fflowml_node_nparsout,
   node_set_mutable |-> fflowml_node_set_mutable, graph_prune |-> fflowml_graph_prune, graph_edges
   |-> fflowml_graph_edges, graph_nodes |-> fflowml_graph_nodes, alg_system_reset_neeed |->
   fflowml_alg_system_reset_neeed, alg_system_is_impossible |-> fflowml_alg_system_is_impossible,
   alg_system_only_homogeneous |-> fflowml_alg_system_only_homogeneous,
   alg_system_only_non_homogeneous |-> fflowml_alg_system_only_non_homogeneous,
   alg_system_sparse_output |-> fflowml_alg_system_sparse_output,
   alg_system_sparse_output_with_maxcol |-> fflowml_alg_system_sparse_output_with_maxcol,
   alg_system_eq_weight |-> fflowml_alg_system_eq_weight, alg_mark_and_sweep_eqs |->
   fflowml_alg_mark_and_sweep_eqs, alg_delete_unneeded_eqs |-> fflowml_alg_delete_unneeded_eqs,
   alg_learn |-> fflowml_alg_learn, alg_get_info |-> fflowml_alg_get_info, alg_set_learning_options
   |-> fflowml_alg_set_learning_options, alg_solver_neqs_nvars |-> fflowml_alg_solver_neqs_nvars,
   alg_n_indep_eqs |-> fflowml_alg_n_indep_eqs, alg_indep_eqs |-> fflowml_alg_indep_eqs,
   alg_solver_zero_vars |-> fflowml_alg_solver_zero_vars, alg_degrees |-> fflowml_alg_degrees,
   alg_vars_degrees |-> fflowml_alg_vars_degrees, alg_all_degrees |-> fflowml_alg_all_degrees,
   alg_sample |-> fflowml_alg_sample, alg_sample_from_points |-> fflowml_alg_sample_from_points,
   alg_reconstruct |-> fflowml_alg_reconstruct, alg_reconstruct_mod |->
   fflowml_alg_reconstruct_mod, alg_univariate_reconstruct |-> fflowml_alg_univariate_reconstruct,
   alg_univariate_reconstruct_mod |-> fflowml_alg_univariate_reconstruct_mod,
   alg_numeric_reconstruct |-> fflowml_alg_numeric_reconstruct, alg_independent_of_var |->
   fflowml_alg_independent_of_var, default_maxdeg |-> fflowml_default_maxdeg,
   default_max_rec_primes |-> fflowml_default_max_rec_primes, dump_degrees |->
   fflowml_dump_degrees, load_degrees |-> fflowml_load_degrees, dump_sample_points |->
   fflowml_dump_sample_points, dump_evaluations |-> fflowml_dump_evaluations, load_evaluations |->
   fflowml_load_evaluations, set_degrees |-> fflowml_set_degrees, samples_file_size |->
   fflowml_samples_file_size, npars_from_degree_info |-> fflowml_npars_from_degree_info,
   alg_count_sample_points |-> fflowml_alg_count_sample_points, graph_evaluate |->
   fflowml_graph_evaluate, graph_evaluate_list |-> fflowml_graph_evaluate_list, alg_rat_rec |->
   fflowml_alg_rat_rec, parallel_rat_rec |-> fflowml_parallel_rat_rec, alg_ratexpr_eval |->
   fflowml_alg_ratexpr_eval, alg_ratexpr_parse |-> fflowml_alg_ratexpr_parse, alg_sparse_mat_mul
   |-> fflowml_alg_sparse_mat_mul, alg_cached_subgraph |-> fflowml_alg_cached_subgraph,
   alg_cached_from_subgraph |-> fflowml_alg_cached_from_subgraph, alg_cached_subgraph_merge |->
   fflowml_alg_cached_subgraph_merge, alg_cached_subgraph_default_subcache_size |->
   fflowml_alg_cached_subgraph_default_subcache_size, alg_evalcount |-> fflowml_alg_evalcount,
   alg_evalcount_getset |-> fflowml_alg_evalcount_getset, sls_optimize_zero_vars |->
   fflowml_sls_optimize_zero_vars, sls_is_optimizing_zero_vars |->
   fflowml_sls_is_optimizing_zero_vars]

\* Changes of the options of an algorithm whose data is copied per context
Changes ==
  {"reset_needed", "only_homogeneous", "only_non_homogeneous", "sparse_output",
   "sparse_output_with_maxcol", "set_eq_weight", "mark_and_sweep_eqs",
   "delete_unneeded_eqs", "optimize_zero_vars", "numbers"}

\* Library calls that report their failure with logerr
Complaining ==
  {"init", "init_subgraph", "new_node", "take", "json_sparse_system", "json_sparse_ratfun",
   "parse_ratexpr_list", "delete_node", "set_output_node", "set_input_vars",
   "graph_can_be_evaluated", "learn", "reset_needed", "degrees", "all_var_degrees",
   "parallel_all_degrees", "parallel_sample", "count_sample_points", "load_evaluations",
   "evaluate_list", "parallel_reconstruct", "parallel_reconstruct_mod",
   "reconstruct_univariate", "reconstruct_univariate_mod", "reconstruct_numeric"}

Init ==
  /\ handler = "none" /\ todo = <<>> /\ unread = <<>>
  /\ open = FALSE /\ owed = 0 /\ stale = FALSE

Is(op) == Begins(todo, op)
Of(op) == Head(todo)[op]

Step1 == todo' = Tail(todo)

Call(h) ==
  /\ handler = "none"
  /\ handler' = h
  /\ todo' \in Handlers[h]
  /\ unread' \in Sent(h)
  /\ owed' = 1
  /\ UNCHANGED <<open, stale>>

\* The package's data has one of its forms.
Send ==
  /\ Begins(unread, "one of")
  /\ \E a \in Head(unread)["one of"] : unread' = a \o Tail(unread)
  /\ UNCHANGED <<handler, todo, open, owed, stale>>

\* A loop over a list runs as often as the list that arrives has elements.
Choose ==
  /\ Is("one of") /\ ~Begins(unread, "one of")
  /\ \E a \in Of("one of") :
       /\ Begins(a, "list") => unread # <<>> /\ Head(unread) = Head(a)
       /\ todo' = a \o Tail(todo)
  /\ UNCHANGED <<handler, unread, open, owed, stale>>

TestHead ==
  /\ Is("head") /\ Step1 /\ open' = TRUE
  /\ UNCHANGED <<handler, unread, owed, stale>>

NewPacket ==
  /\ Is("packet") /\ Step1
  /\ unread' = IF open THEN <<>> ELSE unread
  /\ UNCHANGED <<handler, open, owed, stale>>

Read ==
  /\ Is("get") \/ Is("list")
  /\ unread # <<>> /\ Head(unread) = Head(todo)
  /\ Step1 /\ unread' = Tail(unread)
  /\ UNCHANGED <<handler, open, owed, stale>>

ReadOptional ==
  /\ Is("optional") /\ Step1
  /\ unread' = IF unread = <<>> THEN <<>> ELSE Tail(unread)
  /\ UNCHANGED <<handler, open, owed, stale>>

CallLibrary ==
  /\ Is("call") /\ Of("call") # "null node" /\ Step1
  /\ stale' = (IF Of("call") = "invalidate_subctxt_alg_data" THEN FALSE
               ELSE stale \/ Of("call") \in Changes)
  /\ UNCHANGED <<handler, unread, open, owed>>

CallFails ==
  /\ Is("fails") /\ Step1
  /\ UNCHANGED <<handler, unread, open, owed, stale>>

LogErr ==
  /\ Is("log") /\ Step1
  /\ UNCHANGED <<handler, unread, open, owed, stale>>

Put ==
  /\ Is("put") /\ Step1
  /\ owed' = owed - 1 + Of("put")
  /\ UNCHANGED <<handler, unread, open, stale>>

Done ==
  /\ handler' = "none" /\ todo' = <<>> /\ unread' = <<>>
  /\ open' = FALSE /\ owed' = 0 /\ stale' = FALSE

Return == handler # "none" /\ todo = <<>> /\ Done

\* get_info of a node that does not exist: the kernel dies and is started again.
NullNode == Is("call") /\ Of("call") = "null node" /\ Done

Next ==
  \/ \E h \in DOMAIN Handlers : Call(h)
  \/ Send \/ Choose \/ TestHead \/ NewPacket \/ Read \/ ReadOptional
  \/ CallLibrary \/ CallFails \/ LogErr \/ Put \/ Return \/ NullNode

Spec == Init /\ [][Next]_vars

-----------------------------------------------------------------------------
(* The forms that the next step, and the next argument, can take. *)
Alternatives(p) ==
  IF p = <<>> THEN {} ELSE IF Begins(p, "one of") THEN Head(p)["one of"] ELSE {p}

Reads(a) == Begins(a, "get") \/ Begins(a, "list")

(***************************************************************************)
(* A handler reads what the package sends: when it waits for a token, of   *)
(* every form the arguments may have, the next token is there and of the   *)
(* kind that one of the handler's branches reads (MLGetInteger32 of a list *)
(* or of a string fails, nothing is read, and every later read is off).    *)
(***************************************************************************)
ReadsWhatIsSent ==
  (~Begins(unread, "one of") /\ \E a \in Alternatives(todo) : Reads(a)) =>
    unread # <<>> /\ \E a \in Alternatives(todo) : Reads(a) /\ Head(a) = Head(unread)

(***************************************************************************)
(* Nothing is put on the link, neither an answer nor an error message,     *)
(* while arguments are left to read on it.  Three handlers break this: the *)
(* Laurent expansion and evaluate_list call what may complain before they  *)
(* read the rest, and the sparse system with weights reports a bad index   *)
(* in the middle of the rows.                                              *)
(***************************************************************************)
KnownEarly ==
  \/ handler = "alg_laurent" /\ Is("fails")
  \/ handler = "graph_evaluate_list" /\ Is("fails")
  \/ handler = "alg_sparse_system_ex" /\ Is("log")

ReadBeforeWriting ==
  (Is("put") \/ Is("log") \/ (Is("fails") /\ Of("fails") \in Complaining)) =>
    unread = <<>> \/ KnownEarly

(***************************************************************************)
(* Every path of every handler puts one complete expression: what is owed  *)
(* is never exceeded and nothing is owed, nor left unread, at the return.  *)
(***************************************************************************)
AnswersOnce ==
  /\ owed >= 0
  /\ handler # "none" /\ todo = <<>> => owed = 0 /\ unread = <<>>

(***************************************************************************)
(* A handler reads the packet as it was sent, to its end, and then answers *)
(* it, once: a failure in the middle of the arguments discards the rest    *)
(* first, and each of the early returns puts an answer (fflowmlink.cc).    *)
(***************************************************************************)
ReadsThenAnswersOnce == ReadsWhatIsSent /\ ReadBeforeWriting /\ AnswersOnce

(***************************************************************************)
(* When a handler returns, the copies of an algorithm's data that workers  *)
(* hold are invalidated if an option they depend on has changed.           *)
(***************************************************************************)
CopiesInvalidated == handler # "none" /\ todo = <<>> => ~stale
=============================================================================

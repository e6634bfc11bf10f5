----------------------------- MODULE LinkPaths -----------------------------
(***************************************************************************)
(* The steps of a handler of mathlink/fflowmlink.cc.  A handler is the set *)
(* of its paths.  A path is a sequence of steps: reading a token of the    *)
(* arguments, finishing their packet, calling the library, putting a part  *)
(* of the answer, or a choice between paths, which is made when it is      *)
(* reached.  What is read and computed is abstracted to the tokens and to  *)
(* the branches that depend on it.                                         *)
(***************************************************************************)
EXTENDS HandlerPaths

CONSTANT Lens      \* the lengths of nested lists that are considered
ASSUME LensAssumption == Lens \subseteq 0 .. 2

(* Tokens of the arguments, as the package sends them and the handler reads them. *)
Get(kind) == Step("get", kind)
Optional(kind) == Step("optional", kind)
OpenList(n) == Step("list", n)

(* k integers one by one, k = 1, 2 or 4 *)
Ints(k) == IF k = 4 THEN Times(Times(Get("Integer"), 2), 2) ELSE Times(Get("Integer"), k)

(* a flat list of groups of k integers *)
GroupsOf(k) == UNION {OpenList(k * n) ** Times(Ints(k), n) : n \in Lens}

ListOf(A) == UNION {OpenList(n) ** Times(A, n) : n \in Lens}

(* Library calls that succeed, and that report a failure. *)
Calls(c) == Step("call", c)
Fails(c) == Step("fails", c)

\* logerr: EvaluatePacket[LogErr[...]] on the same link, and its answer.
logerr == Step("log", "LogErr")

(* MLNewPacket discards what is left of the packet.  Before the head of the *)
(* arguments is read, as in handlers that begin with it, it has no effect.  *)
MLNewPacket == Step("packet", "done")

MLTestHead == Step("head", "List")

Arguments(A) == MLNewPacket ** MLTestHead ** A

(* Parts of the answer: a function with n arguments is owed n expressions more. *)
MLPutFunction(n) == Step("put", n)
MLPutAtom == MLPutFunction(0)
Failed == MLPutAtom
MLPutNull == MLPutAtom

PutList(A) == UNION {MLPutFunction(n) ** Times(A, n) : n \in Lens}

-----------------------------------------------------------------------------
(* Reading rational functions (MathGetHornerFun, MathGetHornerCutFun) *)

get_rational == Get("String")

get_exponents_and_coeffs == OpenList(2) ** Get("Integers") ** get_rational

get_coeff_positions == OpenList(2) ** Get("Integers") ** Get("Integer")

get_horner_poly == ListOf(get_exponents_and_coeffs)

\* a list of length one has the number of variables of a vanishing function
get_horner_ratfun(term) ==
  OpenList(1) ** Get("Integer") \cup OpenList(2) ** ListOf(term) ** ListOf(term)

get_cut_exponents_and_coeffs == OpenList(2) ** Get("Integers") ** get_horner_poly

get_cut_horner_ratfun ==
  OpenList(2) ** ListOf(get_cut_exponents_and_coeffs) ** ListOf(get_cut_exponents_and_coeffs)

get_ratfun == get_horner_ratfun(get_exponents_and_coeffs)

-----------------------------------------------------------------------------
(* Reading systems of equations *)

get_dense_system_data ==
  Get("Integer") ** Get("Integer") ** ListOf(ListOf(get_ratfun))

get_row_info == OpenList(2) ** Get("Integers") ** Get("Integers")

get_sparse_system_data == ListOf(get_ratfun) ** ListOf(get_row_info)

get_weighted_row_info == OpenList(2) ** Get("Integers") ** ListOf(Get("Integers"))

\* The first index out of bounds is reported at once; the rest is still read.
weights_then(n, ok, bad) ==
  LET last == Get("Integers") ** (ok \cup logerr ** bad)
  IN IF n = 0 THEN ok
     ELSE IF n = 1 THEN last
     ELSE Get("Integers") ** (last \cup logerr ** Get("Integers") ** bad)

row_then(ok, bad) ==
  OpenList(2) ** Get("Integers") ** UNION {OpenList(n) ** weights_then(n, ok, bad) : n \in Lens}

rows_then(n, ok, bad) ==
  IF n = 0 THEN ok
  ELSE IF n = 1 THEN row_then(ok, bad)
  ELSE row_then(row_then(ok, bad), get_weighted_row_info ** bad)

get_sparse_system_ex_data(ok, bad) ==
  ListOf(get_ratfun) ** UNION {OpenList(n) ** rows_then(n, ok, bad) : n \in Lens}

get_num_dense_system_data == Get("Integer") ** ListOf(ListOf(get_rational))

get_num_sparse_system_data == ListOf(get_rational) ** ListOf(get_row_info)

get_cut_solve_horner_data == ListOf(get_cut_horner_ratfun)

get_cut_solve_numeric_data == ListOf(get_ratfun)

get_input_nodes == Get("Integers")

\* fewer than eight options would be read past their end
get_rec_opt == Get("8 Integers")

-----------------------------------------------------------------------------
(* Putting results *)

\* a coefficient is a string, zero is the integer 0 or the string "0"
put_mprat == MLPutAtom

put_term == MLPutFunction(2) ** MLPutAtom ** MLPutAtom

put_sparse_poly == MLPutFunction(1) ** put_term \cup PutList(put_term)

put_sparse_ratfun == MLPutFunction(2) ** put_sparse_poly ** put_sparse_poly

put_alg_degree == MLPutFunction(2) ** MLPutAtom ** MLPutAtom

put_subgraphrec_info ==
  PutList(MLPutFunction(2) ** PutList(MLPutAtom) ** PutList(MLPutAtom))

put_solver_info == MLPutFunction(3) ** MLPutAtom ** MLPutAtom ** MLPutAtom

put_sparse_solver_info ==
  MLPutFunction(3) ** MLPutAtom ** (MLPutAtom \cup PutList(MLPutAtom)) ** MLPutAtom

put_list_info == MLPutFunction(2) ** MLPutAtom ** MLPutAtom

\* the branches on the kind of algorithm that put_alg_info has
put_info_of_kind ==
  put_solver_info \cup put_sparse_solver_info \cup PutList(put_solver_info)
  \cup put_list_info \cup put_subgraphrec_info \cup MLPutNull

\* without a node "$Failed" is put, and then the node is read all the same
put_alg_info == put_info_of_kind \cup Failed ** Calls("null node")
=============================================================================

----------------------------- MODULE CApiNodes -----------------------------
(***************************************************************************)
(* The functions of src/capi.cc that create nodes: they look the inputs    *)
(* up, build an algorithm and its data from the arguments, and give it to  *)
(* Graph::new_node.                                                        *)
(***************************************************************************)
EXTENDS CApiPaths

(* subgraphs: the graph is looked up through the input nodes only *)

SubgraphNode == InputNodes(IfOk("init_subgraph", NewNode))

ffAlgSimpleSubgraph == SubgraphNode
ffAlgMemoizedSubgraph == SubgraphNode
ffAlgSubgraphMap == SubgraphNode

ffAlgSubgraphUniRec == IfNode(IfOk("init_subgraph", NewNode))
ffAlgSubgraphRec == ffAlgSubgraphUniRec \cup IfNode(IfOk("init_subgraph", NewNode))

ffAlgLaurent ==
  IfNode(IfOk("init_subgraph", IfOk("subgraph has_learned", IfGraph(NewNode))))
ffAlgLaurentConstOrder == IfOk("subgraph has_learned", ffAlgLaurent)

(* linear systems *)

FileNode(load) == IfOk(load, IfGraph(NewNode))

ffAlgJSONSparseLSolve == FileNode("json_sparse_system")
ffAlgJSONRatFunEval == FileNode("json_sparse_ratfun")

\* The result of the check of the indexes is dropped.
SparseRows(A) ==
  A \cup Fails("columns") ** Error \cup Calls("columns") ** Whatever("indexes") ** A

SolverNode == NeededVars ** IfGraph(NewNode)

ffAlgAnalyticSparseLSolve ==
  Given("rf") ** get_horner_ratfun("rf") ** SparseRows(SolverNode)
ffAlgAnalyticSparseLSolveIdx ==
  Given("idx") ** get_horner_ratfun("idx") ** SparseRows(SolverNode)
ffAlgNumericSparseLSolve == SparseRows(SolverNode)
ffAlgNodeSparseLSolve == SolverNode \cup CopyNonZeroColumnEls(SolverNode)

\* the first input node has the variables and is not looked up, the others are
WeightNodes(A) == Fails("input node") ** Error \cup A

WeightedRows(A) == A \cup CopyNonZeroColumnEls(IfOk("CopyNonZeroIdxElsEx", A))

ffAlgAnalyticSparseLSolveEx ==
  Given("rf") ** get_horner_ratfun("rf") ** WeightNodes(WeightedRows(SolverNode))
ffAlgAnalyticSparseLSolveIdxEx ==
  Given("idx") ** get_horner_ratfun("idx") ** WeightNodes(WeightedRows(SolverNode))

ffAlgAnalyticDenseLSolve ==
  Given("rf") ** IfOk("n_functions", get_horner_ratfun("rf") ** SolverNode)
ffAlgNumericDenseLSolve == SolverNode
ffAlgNodeDenseLSolve == SolverNode

(* lists *)

ffAlgMatMul == Calls("init") ** IfGraph(NewNode)
ffAlgSparseMatMul == IfOk("columns", IfOk("init", IfGraph(NewNode)))

ffAlgChain == InputNodes(Calls("init") ** IfGraph(NewNode))

TakeNode == InputNodes(IfOk("take", IfGraph(NewNode)))

ffAlgTake == TakeNode
ffAlgTakeAndAdd == TakeNode
ffAlgTakeAndAddBL == TakeNode

ffAlgSlice == IfNode(IfOk("slice", NewNode))

EntrywiseNode == InputNodes(IfOk("lengths", Calls("init") ** IfGraph(NewNode)))

ffAlgAdd == EntrywiseNode
ffAlgMul == EntrywiseNode

ffAlgAddOne == IfNode(Uses("node") ** Calls("init") ** IfGraph(NewNode))

(* functions *)

ffAlgRatFunEval ==
  Given("rf") ** get_horner_ratfun("rf") ** IfGraph(Calls("init") ** NewNode)
ffAlgRatFunEvalFromCoeffs ==
  Given("rf") ** IfNodeNParsOut(get_horner_ratfun_coeffs(IfGraph(Calls("init") ** NewNode)))
ffAlgRatNumEval == IfGraph(Calls("init") ** NewNode)
ffAlgRatExprEvalEx ==
  IfOk("variables", IfOk("parse_ratexpr_list", IfGraph(Calls("init") ** NewNode)))
ffAlgRatExprEval == ffAlgRatExprEvalEx
ffAlgEvalCount == IfNode(Uses("node") ** Calls("init") ** NewNode)

Nodes ==
  [AlgSimpleSubgraph |-> ffAlgSimpleSubgraph, AlgMemoizedSubgraph |-> ffAlgMemoizedSubgraph,
   AlgSubgraphMap |-> ffAlgSubgraphMap, AlgSubgraphRec |-> ffAlgSubgraphRec,
   AlgLaurent |-> ffAlgLaurent, AlgLaurentConstOrder |-> ffAlgLaurentConstOrder,
   AlgJSONSparseLSolve |-> ffAlgJSONSparseLSolve, AlgJSONRatFunEval |-> ffAlgJSONRatFunEval,
   AlgAnalyticSparseLSolve |-> ffAlgAnalyticSparseLSolve,
   AlgAnalyticSparseLSolveIdx |-> ffAlgAnalyticSparseLSolveIdx,
   AlgNumericSparseLSolve |-> ffAlgNumericSparseLSolve,
   AlgNodeSparseLSolve |-> ffAlgNodeSparseLSolve,
   AlgAnalyticSparseLSolveEx |-> ffAlgAnalyticSparseLSolveEx,
   AlgAnalyticSparseLSolveIdxEx |-> ffAlgAnalyticSparseLSolveIdxEx,
   AlgAnalyticDenseLSolve |-> ffAlgAnalyticDenseLSolve,
   AlgNumericDenseLSolve |-> ffAlgNumericDenseLSolve,
   AlgNodeDenseLSolve |-> ffAlgNodeDenseLSolve, AlgMatMul |-> ffAlgMatMul,
   AlgSparseMatMul |-> ffAlgSparseMatMul, AlgChain |-> ffAlgChain, AlgTake |-> ffAlgTake,
   AlgTakeAndAdd |-> ffAlgTakeAndAdd, AlgTakeAndAddBL |-> ffAlgTakeAndAddBL,
   AlgSlice |-> ffAlgSlice, AlgAdd |-> ffAlgAdd, AlgMul |-> ffAlgMul, AlgAddOne |-> ffAlgAddOne,
   AlgRatFunEval |-> ffAlgRatFunEval, AlgRatFunEvalFromCoeffs |-> ffAlgRatFunEvalFromCoeffs,
   AlgRatNumEval |-> ffAlgRatNumEval, AlgRatExprEvalEx |-> ffAlgRatExprEvalEx,
   AlgRatExprEval |-> ffAlgRatExprEval, AlgEvalCount |-> ffAlgEvalCount]
=============================================================================

----------------------------- MODULE CApiCalls -----------------------------
(***************************************************************************)
(* The functions of src/capi.cc that do not create nodes: graphs, options  *)
(* and results of linear systems, lists of rational functions,             *)
(* reconstruction, files, and numbers.                                     *)
(***************************************************************************)
EXTENDS CApiPaths

(* numbers and memory *)

ffMulInv == IfOk("prime_no", Ok)
ffPrimeNo == IfOk("prime_no", Ok)

(* graphs *)

ffNewGraph == Calls("new_graph") ** Ok
ffNewGraphDummy == Calls("new_dummy_graph") ** Ok
ffSetGraphInput == IfGraph(Uses("graph") ** Answers("set_input_vars"))
\* the node is FF_ERROR when the input fails, the graph is answered all the same
ffNewGraphWithInput ==
  Calls("new_graph") ** Knows("graph") ** Uses("graph") ** Whatever("set_input_vars") ** Ok
ffDeleteGraph == IfGraph(Calls("delete_graph") ** Ok)
ffDeleteNode == Answers("delete_node")
ffSetOutputNode == Answers("set_output_node")
ffGetOutputNode == Answers("get_output_node")
ffMakeNodeMutable == Answers("set_node_mutable")
ffPruneGraph == Answers("prune_graph")
ffLearn == Answers("learn")
ffLearnEx ==
  ffLearn \cup IfOk("get_output_node", IfNode(Uses("node") ** Calls("learn_opt") ** ffLearn))

EvaluateInto(A) ==
  Fails("graph_can_be_evaluated") ** Error
  \cup Knows("graph") ** IfOk("prime_no", Uses("graph") ** A)

ffEvaluateGraphInto == EvaluateInto(Answers("evaluate"))
ffEvaluatePointsInto == EvaluateInto(Answers("evaluate_list"))

\* The output is freed when the evaluation fails, and given to the caller else.
Evaluated(c) ==
  IfGraphNParsOut(Allocates
    ** (Fails("graph_can_be_evaluated") ** Frees ** Error
        \cup Fails("prime_no") ** Frees ** Error
        \cup Fails(c) ** Frees ** Error
        \cup Calls(c) ** Gives ** Ok))

ffEvaluateGraph == Evaluated("evaluate")
ffEvaluatePoints == Evaluated("evaluate_list")

ffPeekNewNodeId == IfGraph(Uses("graph") ** Ok)
ffAllGraphs == newU32Array
ffGraphNodes == IfGraph(Uses("graph") ** newU32Array)
ffGraphEdges == IfGraph(Uses("graph") ** newU32Array)
ffNodeIsMutable == IfNode(Uses("node") ** Ok)

-----------------------------------------------------------------------------
(* Algorithms of a node: a dynamic_cast of a null pointer is null, so that some *)
(* functions look the node up without a check of their own.                     *)

OfKind(A) == IfNode(IfOk("dynamic_cast", Uses("node") ** A))

ffSubgraphNParsout == OfKind(Ok)
ffLaurentMaxOrders == OfKind(newU32Array)
ffLaurentMinOrders == OfKind(IfOk("has_learned", newU32Array))
ffEvalCountGet == OfKind(Ok)
ffEvalCountReset == OfKind(Calls("resetCount") ** Ok)
ffSubgraphRecNVars == OfKind(Ok)

getSubgrahRecFun(A) ==
  IfNode(Uses("node") ** IfOk("has_learned", IfOk("dynamic_cast", IfOk("idx", A))))

ffSubgraphRecNumNTerms == getSubgrahRecFun(Ok)
ffSubgraphRecDenNTerms == getSubgrahRecFun(Ok)
ffRatNumRatPolyExps == Allocates ** Gives ** Ok
ffSubgraphRecNumExponents == getSubgrahRecFun(ffRatNumRatPolyExps)
ffSubgraphRecDenExponents == getSubgrahRecFun(ffRatNumRatPolyExps)

(* What a linear solver has learned *)

ffLSolveNEqsNVars == OfKind(Ok)
ffLSolveIsImpossible == OfKind(Ok)
ffLSolveOutputIsSparse == OfKind(Ok)
ffIsSparseLSolve == IfNode(Ok)
ffLSolveIsOptimizingZeroVars == OfKind(Ok)
ffLSolveNDepVars == OfKind(Ok)
ffLSolveNIndepEqs == OfKind(Ok)
ffLSolveDepVars == OfKind(newU32Array)
ffLSolveIndepEqs == OfKind(newU32Array)
ffLSolveNIndepVars == OfKind(Ok \cup IfOk("i < spdata.size()", Ok))
ffLSolveIndepVars == OfKind(newU32Array \cup IfOk("i < spdata.size()", newU32Array))
\* the list and its length are each optional
ffLSolveZeroVars == OfKind(newU32Array \cup Ok)

(* Options of a linear solver.  Those whose result is not looked at fail only *)
(* when the node is not mutable, which has been checked.                      *)

Invalidates == Calls("invalidate_subctxt_alg_data") ** Ok

\* Mutant of Setter: the copies keep the data of the earlier options.
SetterOnly(c) == IfMutable(IfOk("dynamic_cast", Uses("node") ** Calls(c) ** Ok))

Setter(c) == IfMutable(IfOk("dynamic_cast", Uses("node") ** Calls(c) ** Invalidates))

CheckedSetter(c) == IfMutable(IfOk("dynamic_cast", Uses("node") ** IfOk(c, Invalidates)))

SweepingSetter(c) ==
  IfMutable(IfOk("dynamic_cast", IfOk("marked_and_sweeped", Uses("node") ** Calls(c) ** Invalidates)))

\* a dense solver has nothing to sweep
ffLSolveResetNeededVars ==
  CheckedSetter("reset_needed")
  \cup IfMutable(IfOk("dynamic_cast",
         IfOk("marked_and_sweeped", Uses("node") ** IfOk("reset_needed", Invalidates))))
ffLSolveOnlyHomogeneous == Setter("only_homogeneous")
ffLSolveOnlyNonHomogeneous == CheckedSetter("only_non_homogeneous")
ffLSolveSparseOutput == Setter("sparse_output")
ffLSolveSparseOutputWithMaxCol == Setter("sparse_output_with_maxcol")
ffLSolveOptimizeZeroVars == Setter("optimize_zero_vars")
ffLSolveEqWeight == Setter("set_eq_weight")
ffLSolveMarkAndSweepEqs == SweepingSetter("mark_and_sweep_eqs")
\* neither is_mutable nor marked_and_sweeped is looked at
ffLSolveDeleteUnneededEqs ==
  IfNode(IfOk("dynamic_cast", Uses("node") ** Calls("delete_unneeded_eqs") ** Invalidates))

-----------------------------------------------------------------------------
(* Lists of rational functions *)

ffFreeRatFun == Given("rf") ** Deletes("rf") ** Ok
ffFreeIdxRatFun == Given("idx") ** Deletes("idx") ** Ok
Number(l) == Given(l) ** Uses(l) ** Ok

\* the functions of the list are written, if there are any
ffRatFunToJSON == Given("rf") ** get_horner_ratfun("rf") ** Answers("json_write_ratfun")

\* The list given is emptied: it has no functions any more, and may be freed.
ffMoveRatFunToIdx ==
  Given("rf") ** Uses("rf") ** Allocates
  ** (Fails("index") ** Frees ** Error \cup Step("moves", "idx") ** Gives ** Ok)

ffParseRatFunEx == Fails("parse") ** Error \cup Allocates ** Makes("rf") ** Gives ** Ok
ffParseRatFun ==
  Allocates ** (Fails("parse") ** Frees ** Error
                \cup Allocates ** Makes("rf") ** Gives ** Frees ** Ok)
ffNewRatFunList == IfOk("getPoly", IfOk("getPoly", Allocates ** Makes("rf") ** Gives ** Ok))

\* The list that is made on the way is emptied and never freed, and it is used
\* when it could not be made.
MovedToIdx(c) ==
  Fails(c) ** Uses("list of functions") ** Error
  \cup Calls(c) ** Allocates ** Knows("list of functions") ** Uses("list of functions")
       ** Allocates
       ** (Fails("index") ** Frees ** Error \cup Makes("idx") ** Gives ** Ok)

ffParseIdxRatFun == MovedToIdx("ffParseRatFun")
ffParseIdxRatFunEx == MovedToIdx("ffParseRatFunEx")
ffNewIdxRatFunList == MovedToIdx("ffNewRatFunList")

WithEntry(A) == Given("rf") ** (Beyond("rf") ** Error \cup Within("rf") ** Entry("rf") ** A)

ffRatFunNumNTerms == WithEntry(Ok)
ffRatFunDenNTerms == WithEntry(Ok)
ffRatNumRatPolyCoeff == NewStrings
ffRatFunNumCoeffs == WithEntry(ffRatNumRatPolyCoeff)
ffRatFunDenCoeffs == WithEntry(ffRatNumRatPolyCoeff)
ffRatFunNumExponents == WithEntry(ffRatNumRatPolyExps)
ffRatFunDenExponents == WithEntry(ffRatNumRatPolyExps)
ffRatFunToStr == WithEntry(Allocates ** Gives ** Ok)

ffEvaluateRatFunList ==
  Given("rf") ** IfOk("prime_no", Allocates
    ** (Gives ** Ok
        \cup Within("rf") ** Entry("rf") ** (Fails("eval") ** Frees ** Error \cup Gives ** Ok)))

ffSparseEqsToJSON == Given("rf") ** get_horner_ratfun("rf") ** Answers("json_write_sparse_eqs")
ffSparseEqsIdxToJSON == Given("idx") ** get_horner_ratfun("idx") ** Answers("json_write_sparse_eqs")
ffSparseSystemToJSON == Answers("json_write_sparse_system")
ffU32ListToJSON == Answers("json_write_integer_list")
ffU32ListFromJSON == IfOk("json_integer_list", newU32Array)

-----------------------------------------------------------------------------
(* Reconstruction *)

MakesResults == Allocates ** Makes("rf") ** Gives ** Ok

\* MISSING_SAMPLES and MISSING_PRIMES are errors for the caller.
Reconstructs(c) == IfOk(c, MakesResults)

\* The answer of parallel_sample is not looked at; missing primes are asked for once more.
SampleAndReconstruct(c) ==
  Whatever("parallel_sample")
  ** (Reconstructs(c) \cup Calls("missing primes") ** Whatever("parallel_sample") ** Reconstructs(c))

funrec_implem(degrees, c) ==
  Fails("graph_can_be_evaluated") ** Error
  \cup Calls("graph_can_be_evaluated")
       ** IfOk("nparsin", Reconstructs("reconstruct_univariate")
                          \cup IfOk(degrees, SampleAndReconstruct(c)))

reconstruct_fun(A) == IfGraph(Uses("graph") ** A)

ffReconstructFunction ==
  reconstruct_fun(funrec_implem("parallel_all_degrees", "parallel_reconstruct"))
ffReconstructFunctionMod ==
  reconstruct_fun(funrec_implem("parallel_all_degrees", "parallel_reconstruct_mod"))
ffReconstructFromCurrentEvaluations == reconstruct_fun(Reconstructs("parallel_reconstruct"))
ffReconstructFromCurrentEvaluationsMod == reconstruct_fun(Reconstructs("parallel_reconstruct_mod"))
ffReconstructFunctionWithDegrees ==
  reconstruct_fun(funrec_implem("set_degrees", "parallel_reconstruct"))
ffReconstructFunctionWithDegreesMod ==
  reconstruct_fun(funrec_implem("set_degrees", "parallel_reconstruct_mod"))

\* A higher degree or one prime more is tried until the limits: two rounds here.
Round(c, A) ==
  IfOk("parallel_sample", IfGraph(Uses("graph") ** (Calls(c) ** MakesResults \cup A)))

ffParallelReconstructUnivariate_(c) ==
  Fails("limits") ** Error
  \cup Round(c, Calls("deg_step") ** Round(c, Fails("limits") ** Error))

ffParallelReconstructUnivariate == ffParallelReconstructUnivariate_("parallel_reconstruct")
ffParallelReconstructUnivariateMod == ffParallelReconstructUnivariate_("parallel_reconstruct_mod")

ffReconstructNumeric == IfGraph(Uses("graph") ** IfOk("reconstruct_numeric", NewStrings))

ffAllDegrees ==
  Fails("parallel_all_degrees") ** Error
  \cup Knows("graph") ** Uses("graph") ** Allocates ** Gives ** Ok

ffDumpDegrees == Answers("dump_degrees")
ffNParsFromDegreeFile == Answers("npars_from_degree_info")
ffLoadDegrees == Answers("load_degrees")
ffSetDegrees == Answers("set_degrees")
ffLoadEvaluations == Answers("load_evaluations")
ffDumpSamplePoints == Answers("dump_sample_points")
ffEvaluatePointsInFile == Answers("parallel_sample")
ffDumpEvaluations == Answers("dump_evaluations")
ffSample == Answers("parallel_sample")

ffChineseRemainder == Calls("chinese_remainder_coeffs") ** NewStrings
ffChineseRemainderCoeffs == Calls("chinese_remainder_coeffs") ** NewStrings
ffChineseRemainderFromCoeffs == Calls("chinese_remainder_from_coeffs") ** NewStrings
ffRatRec == Calls("rat_rec") ** NewStrings
ffParallelRatRec == Calls("parallel_rat_rec") ** NewStrings
=============================================================================

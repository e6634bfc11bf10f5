-------------------------------- MODULE CApi --------------------------------
(***************************************************************************)
(* The C interface (src/capi.cc): one function at a time is called, with   *)
(* handles of graphs and nodes that may not exist any more, and with lists *)
(* of rational functions, which the caller owns, passes on and frees.      *)
(***************************************************************************)
EXTENDS CApiNodes, CApiCalls

VARIABLES
  function,  \* the function that runs, or "none"
  todo,      \* the path that is left to it
  known,     \* what has been looked up and is there
  refused,   \* the checks and calls that have failed
  answer,    \* "none" before the answer, "ok" or "error"
  held,      \* allocations that are neither freed nor given away
  stale,     \* an algorithm has changed and the copies of its data have not
  lists      \* the caller's lists of functions

vars == <<function, todo, known, refused, answer, held, stale, lists>>

\* capi.h: the functions by name
Functions ==
  Nodes @@
  [MulInv |-> ffMulInv, PrimeNo |-> ffPrimeNo, NewGraph |-> ffNewGraph, NewGraphDummy |->
   ffNewGraphDummy, SetGraphInput |-> ffSetGraphInput, NewGraphWithInput |->
   ffNewGraphWithInput, DeleteGraph |-> ffDeleteGraph, DeleteNode |-> ffDeleteNode,
   SetOutputNode |-> ffSetOutputNode, GetOutputNode |-> ffGetOutputNode, MakeNodeMutable |->
   ffMakeNodeMutable, PruneGraph |-> ffPruneGraph, Learn |-> ffLearn, LearnEx |-> ffLearnEx,
   EvaluateGraphInto |-> ffEvaluateGraphInto, EvaluatePointsInto |-> ffEvaluatePointsInto,
   EvaluateGraph |-> ffEvaluateGraph, EvaluatePoints |-> ffEvaluatePoints, PeekNewNodeId |->
   ffPeekNewNodeId, AllGraphs |-> ffAllGraphs, GraphNodes |-> ffGraphNodes, GraphEdges |->
   ffGraphEdges, NodeIsMutable |-> ffNodeIsMutable, SubgraphNParsout |-> ffSubgraphNParsout,
   LaurentMaxOrders |-> ffLaurentMaxOrders, LaurentMinOrders |-> ffLaurentMinOrders,
   EvalCountGet |-> ffEvalCountGet, EvalCountReset |-> ffEvalCountReset, SubgraphRecNVars |->
   ffSubgraphRecNVars, SubgraphRecNumNTerms |-> ffSubgraphRecNumNTerms, SubgraphRecDenNTerms
   |-> ffSubgraphRecDenNTerms, SubgraphRecNumExponents |-> ffSubgraphRecNumExponents,
   SubgraphRecDenExponents |-> ffSubgraphRecDenExponents, LSolveNEqsNVars |->
   ffLSolveNEqsNVars, LSolveIsImpossible |-> ffLSolveIsImpossible, LSolveOutputIsSparse |->
   ffLSolveOutputIsSparse, IsSparseLSolve |-> ffIsSparseLSolve, LSolveIsOptimizingZeroVars |->
   ffLSolveIsOptimizingZeroVars, LSolveNDepVars |-> ffLSolveNDepVars, LSolveNIndepEqs |->
   ffLSolveNIndepEqs, LSolveDepVars |-> ffLSolveDepVars, LSolveIndepEqs |-> ffLSolveIndepEqs,
   LSolveNIndepVars |-> ffLSolveNIndepVars, LSolveIndepVars |-> ffLSolveIndepVars,
   LSolveZeroVars |-> ffLSolveZeroVars, LSolveResetNeededVars |-> ffLSolveResetNeededVars,
   LSolveOnlyHomogeneous |-> ffLSolveOnlyHomogeneous, LSolveOnlyNonHomogeneous |->
   ffLSolveOnlyNonHomogeneous, LSolveSparseOutput |-> ffLSolveSparseOutput,
   LSolveSparseOutputWithMaxCol |-> ffLSolveSparseOutputWithMaxCol, LSolveOptimizeZeroVars |->
   ffLSolveOptimizeZeroVars, LSolveEqWeight |-> ffLSolveEqWeight, LSolveMarkAndSweepEqs |->
   ffLSolveMarkAndSweepEqs, LSolveDeleteUnneededEqs |-> ffLSolveDeleteUnneededEqs, FreeRatFun
   |-> ffFreeRatFun, FreeIdxRatFun |-> ffFreeIdxRatFun, RatFunToJSON |-> ffRatFunToJSON,
   MoveRatFunToIdx |-> ffMoveRatFunToIdx, ParseRatFunEx |-> ffParseRatFunEx, ParseRatFun |->
   ffParseRatFun, NewRatFunList |-> ffNewRatFunList, ParseIdxRatFun |-> ffParseIdxRatFun,
   ParseIdxRatFunEx |-> ffParseIdxRatFunEx, NewIdxRatFunList |-> ffNewIdxRatFunList,
   RatFunNumNTerms |-> ffRatFunNumNTerms, RatFunDenNTerms |-> ffRatFunDenNTerms,
   RatFunNumCoeffs |-> ffRatFunNumCoeffs, RatFunDenCoeffs |-> ffRatFunDenCoeffs,
   RatFunNumExponents |-> ffRatFunNumExponents, RatFunDenExponents |-> ffRatFunDenExponents,
   RatFunToStr |-> ffRatFunToStr, EvaluateRatFunList |-> ffEvaluateRatFunList, SparseEqsToJSON
   |-> ffSparseEqsToJSON, SparseEqsIdxToJSON |-> ffSparseEqsIdxToJSON, SparseSystemToJSON |->
   ffSparseSystemToJSON, U32ListToJSON |-> ffU32ListToJSON, U32ListFromJSON |->
   ffU32ListFromJSON, ReconstructFunction |-> ffReconstructFunction, ReconstructFunctionMod |->
   ffReconstructFunctionMod, ReconstructFromCurrentEvaluations |->
   ffReconstructFromCurrentEvaluations, ReconstructFromCurrentEvaluationsMod |->
   ffReconstructFromCurrentEvaluationsMod, ReconstructFunctionWithDegrees |->
   ffReconstructFunctionWithDegrees, ReconstructFunctionWithDegreesMod |->
   ffReconstructFunctionWithDegreesMod, ParallelReconstructUnivariate |->
   ffParallelReconstructUnivariate, ParallelReconstructUnivariateMod |->
   ffParallelReconstructUnivariateMod, ReconstructNumeric |-> ffReconstructNumeric, AllDegrees
   |-> ffAllDegrees, DumpDegrees |-> ffDumpDegrees, NParsFromDegreeFile |->
   ffNParsFromDegreeFile, LoadDegrees |-> ffLoadDegrees, SetDegrees |-> ffSetDegrees,
   LoadEvaluations |-> ffLoadEvaluations, DumpSamplePoints |-> ffDumpSamplePoints,
   EvaluatePointsInFile |-> ffEvaluatePointsInFile, DumpEvaluations |-> ffDumpEvaluations,
   Sample |-> ffSample, ChineseRemainder |-> ffChineseRemainder, ChineseRemainderCoeffs |->
   ffChineseRemainderCoeffs, ChineseRemainderFromCoeffs |-> ffChineseRemainderFromCoeffs,
   RatRec |-> ffRatRec, ParallelRatRec |-> ffParallelRatRec, GraphNParsOut |-> ffGraphNParsOut,
   NodeNParsOut |-> ffNodeNParsOut]
  @@ [f \in {"RatFunListSize", "RatFunListNVars"} |-> Number("rf")]
  @@ [f \in {"IdxRatFunListSize", "IdxRatFunListNFunctions", "IdxRatFunListNVars"} |-> Number("idx")]

\* Calls that change what the copies of an algorithm's data hold
Changes ==
  {"reset_needed", "only_homogeneous", "only_non_homogeneous", "sparse_output",
   "sparse_output_with_maxcol", "set_eq_weight", "mark_and_sweep_eqs",
   "delete_unneeded_eqs", "optimize_zero_vars"}

(* A list is there or not; n_functions is what its length says, and entries *)
(* whether it has the functions: 0 or more than 0.                          *)
List == [there : BOOLEAN, n_functions : 0 .. 1, entries : 0 .. 1]
NoList == [there |-> FALSE, n_functions |-> 0, entries |-> 0]

Init ==
  /\ function = "none" /\ todo = <<>> /\ known = {} /\ refused = {}
  /\ answer = "none" /\ held = 0 /\ stale = FALSE
  /\ lists = [l \in {"rf", "idx"} |-> NoList]

Is(op) == Begins(todo, op)
Of(op) == Head(todo)[op]
Step1 == todo' = Tail(todo)

\* The caller passes a list only if it has one.
Call(f) ==
  /\ function = "none"
  /\ function' = f
  /\ \E p \in Functions[f] :
       /\ Begins(p, "given") => lists[Head(p)["given"]].there
       /\ todo' = p
  /\ UNCHANGED <<known, refused, answer, held, stale, lists>>

\* What is known to be there is found again; an index is compared with the length.
Choose ==
  /\ Is("one of")
  /\ \E a \in Of("one of") :
       /\ Begins(a, "fails") => Head(a)["fails"] \notin known
       /\ Begins(a, "within") => lists[Head(a)["within"]].n_functions > 0
       /\ todo' = a \o Tail(todo)
  /\ UNCHANGED <<function, known, refused, answer, held, stale, lists>>

Know ==
  /\ \/ Is("knows") /\ known' = known \cup {Of("knows")}
     \/ Is("given") /\ known' = known \cup {Of("given")}
  /\ Step1
  /\ UNCHANGED <<function, refused, answer, held, stale, lists>>

Use ==
  /\ Is("uses") \/ Is("within") \/ Is("beyond") \/ Is("entry")
  /\ Step1
  /\ UNCHANGED <<function, known, refused, answer, held, stale, lists>>

CallSession ==
  /\ Is("calls") /\ Step1
  /\ stale' = (IF Of("calls") = "invalidate_subctxt_alg_data" THEN FALSE
               ELSE stale \/ Of("calls") \in Changes)
  /\ UNCHANGED <<function, known, refused, answer, held, lists>>

Fail ==
  /\ Is("fails") /\ Step1
  /\ refused' = refused \cup {Of("fails")}
  /\ UNCHANGED <<function, known, answer, held, stale, lists>>

Allocate ==
  /\ Is("allocates") /\ Step1
  /\ held' = held + 1
  /\ UNCHANGED <<function, known, refused, answer, stale, lists>>

Free ==
  /\ Is("frees") /\ Step1
  /\ held' = held - 1
  /\ UNCHANGED <<function, known, refused, answer, stale, lists>>

Give ==
  /\ Is("gives") /\ Step1
  /\ held' = held - 1
  /\ UNCHANGED <<function, known, refused, answer, stale, lists>>

\* The caller keeps the list that was made last; it may have no functions.
Make ==
  /\ Is("makes") /\ Step1
  /\ \E n \in 0 .. 1 :
       lists' = [lists EXCEPT ![Of("makes")] = [there |-> TRUE, n_functions |-> n, entries |-> n]]
  /\ UNCHANGED <<function, known, refused, answer, held, stale>>

\* Mutant of Emptied: the list keeps its length.
EmptiedOnly(l) == [l EXCEPT !.entries = 0]

\* std::move of the functions, and n_functions = 0
Emptied(l) == [l EXCEPT !.entries = 0, !.n_functions = 0]

Move ==
  /\ Is("moves") /\ Step1
  /\ lists' = [lists EXCEPT !["rf"] = Emptied(@), ![Of("moves")] = lists["rf"]]
  /\ UNCHANGED <<function, known, refused, answer, held, stale>>

Delete ==
  /\ Is("deletes") /\ Step1
  /\ lists' = [lists EXCEPT ![Of("deletes")] = NoList]
  /\ UNCHANGED <<function, known, refused, answer, held, stale>>

Answer ==
  /\ Is("returns") /\ Step1
  /\ answer' = Of("returns")
  /\ UNCHANGED <<function, known, refused, held, stale, lists>>

Return ==
  /\ function # "none" /\ todo = <<>>
  /\ function' = "none" /\ known' = {} /\ refused' = {} /\ answer' = "none"
  /\ held' = 0 /\ stale' = FALSE
  /\ UNCHANGED <<todo, lists>>

Next ==
  \/ \E f \in DOMAIN Functions : Call(f)
  \/ Choose \/ Know \/ Use \/ CallSession \/ Fail \/ Allocate \/ Free \/ Give
  \/ Make \/ Move \/ Delete \/ Answer \/ Return

Spec == Init /\ [][Next]_vars

-----------------------------------------------------------------------------
Done == function # "none" /\ todo = <<>>

(***************************************************************************)
(* What a function uses has been looked up by it and is there, and a       *)
(* function of a list is used only while the list has it, also after the   *)
(* list was emptied by ffMoveRatFunToIdx.  Known exceptions: a subgraph    *)
(* node without input nodes on a graph that does not exist, and the lists  *)
(* with indexes made from functions that could not be parsed.              *)
(***************************************************************************)
KnownNull ==
  \/ function \in {"AlgSimpleSubgraph", "AlgMemoizedSubgraph", "AlgSubgraphMap"}
  \/ function \in {"ParseIdxRatFun", "ParseIdxRatFunEx", "NewIdxRatFunList"}

UsesWhatIsThere ==
  /\ Is("uses") => Of("uses") \in known \/ KnownNull
  /\ Is("entry") => lists[Of("entry")].entries > 0

(***************************************************************************)
(* A function that answers with a result, a handle or FF_SUCCESS has not   *)
(* dropped a failure on the way.  Known exceptions: indexes of             *)
(* coefficients out of bounds, a sampling that failed before the           *)
(* reconstruction, and the node of the input of a new graph, which is      *)
(* FF_ERROR by itself.                                                     *)
(***************************************************************************)
KnownDropped ==
  CASE function \in {"AlgAnalyticSparseLSolve", "AlgAnalyticSparseLSolveIdx",
                    "AlgNumericSparseLSolve"} -> {"indexes"}
    [] function \in {"ReconstructFunction", "ReconstructFunctionMod",
                    "ReconstructFunctionWithDegrees", "ReconstructFunctionWithDegreesMod"} ->
         {"parallel_sample"}
    [] function = "NewGraphWithInput" -> {"set_input_vars"}
    [] OTHER -> {}

FailureIsReported == answer = "ok" => refused \subseteq KnownDropped

(***************************************************************************)
(* Every path answers, and what it has allocated is by then freed or given *)
(* to the caller, once.  Known exception: the list from which a list with  *)
(* indexes is made.  When options of an algorithm have changed, the copies *)
(* of its data are invalidated before the answer.                          *)
(***************************************************************************)
KnownLost == function \in {"ParseIdxRatFun", "ParseIdxRatFunEx", "NewIdxRatFunList"}

NothingLeftOver ==
  /\ held >= 0
  /\ Done => answer # "none" /\ ~stale /\ (held = 0 \/ KnownLost)
=============================================================================

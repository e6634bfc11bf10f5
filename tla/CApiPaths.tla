----------------------------- MODULE CApiPaths -----------------------------
(***************************************************************************)
(* The steps of the functions of src/capi.cc, the C interface of the       *)
(* session: looking something up, using what a pointer refers to, calling  *)
(* the library, allocating, and answering.                                 *)
(***************************************************************************)
EXTENDS HandlerPaths

\* Something is looked up and is there, and is used through its pointer.
Knows(x) == Step("knows", x)
Uses(x) == Step("uses", x)

\* A call or a check succeeds, or fails.
Calls(c) == Step("calls", c)
Fails(c) == Step("fails", c)

Ok == Step("returns", "ok")
Error == Step("returns", "error")

IfKnown(x, A) == Fails(x) ** Error \cup Knows(x) ** A

IfOk(c, A) == Fails(c) ** Error \cup Calls(c) ** A

\* The answer of a call is not looked at.
Whatever(c) == Calls(c) \cup Fails(c)

Answers(c) == IfOk(c, Ok)

(* Memory of malloc or new, which free or delete release, and which may be *)
(* given to the caller with the answer.                                    *)
Allocates == Step("allocates", 1)
Frees == Step("frees", 1)
Gives == Step("gives", 1)

newU32Array == Allocates ** Gives ** Ok

\* an array of strings, each allocated by writer_to_cstr, as one allocation
NewStrings == Allocates ** Gives ** Ok

(* Lists of rational functions: "rf" is an FFRatFunList of the caller and  *)
(* "idx" an FFIdxRatFunList.                                               *)
Given(l) == Step("given", l)
Deletes(l) == Step("deletes", l)
Makes(l) == Step("makes", l)
Within(l) == Step("within", l)
Beyond(l) == Step("beyond", l)
Entry(l) == Step("entry", l)

-----------------------------------------------------------------------------
(* Functions shared by several of the interface *)

\* session.node and session.algorithm: of a node of a graph that exists
IfNode(A) == Fails("node") ** Error \cup Knows("graph") ** Knows("node") ** A

\* A loop over the input nodes.  It may be empty, and then nothing is known.
InputNodes(A) == Fails("node") ** Error \cup (Skip \cup Knows("graph")) ** A

NewNode == Uses("graph") ** Answers("new_node")

IfGraph(A) == IfKnown("graph", A)

\* Mutant of NeededVars: the list of all the variables is not freed.
NeededVarsKept == Calls("init") \cup Allocates ** Calls("init")

NeededVars == Calls("init") \cup Allocates ** Calls("init") ** Frees

\* Mutant of CopyNonZeroColumnEls: the result is dropped.
CopyNonZeroColumnElsUnchecked(A) == Whatever("columns") ** A

CopyNonZeroColumnEls(A) == IfOk("columns", A)

IfMutable(A) == IfNode(IfOk("is_mutable", A))

get_horner_ratfun(l) == Skip \cup Within(l) ** Entry(l)

get_horner_ratfun_coeffs(A) ==
  (Skip \cup Within("rf") ** Entry("rf")) ** A
  \cup Within("rf") ** Entry("rf") ** Fails("coefficients") ** Error

\* the number of outputs, of a node and of a graph that have learned
IfNodeNParsOut(A) ==
  Fails("node") ** Error \cup
  Knows("graph") ** Knows("node") ** IfOk("has_learned", A)

IfGraphNParsOut(A) == IfGraph(Uses("graph") ** IfOk("has_learned", A))

ffGraphNParsOut == IfGraphNParsOut(Ok)
ffNodeNParsOut == IfNodeNParsOut(Uses("node") ** Ok)
=============================================================================

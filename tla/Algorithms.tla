----------------------------- MODULE Algorithms -----------------------------
(***************************************************************************)
(* Algorithms that compute with numbers, each by itself: univariate        *)
(* reconstructions and the node that makes them (UnivariateRec), or a node *)
(* of expressions, numbers or functions (FunctionNodes).  A graph evaluates *)
(* them one after the other and they share nothing.                        *)
(***************************************************************************)
EXTENDS MCUnivariateRec, MCFunctionNodes

CONSTANTS Base, MachineMax, CoeffMax, Width, Expressions, NumberLists, RatFunctions,
          Maps, Inputs, Primes, Workers, MaxNodeCalls \* of FunctionNodes

ASSUME SizesAssumption == Base \in Nat \ {0, 1} /\ MachineMax \in Nat /\ CoeffMax \in Nat /\ Width \in Nat \ {0}

VARIABLES
  algorithm, \* "univariate" or "functions"
  node, data, value, evaluations \* of FunctionNodes

nodeVars == <<node, data, value, evaluations>>

F == INSTANCE FunctionNodes WITH Functions <- RatFunctions, MaxCalls <- MaxNodeCalls,
                               answer <- value, calls <- evaluations

\* A reconstruction that is not made
AtRest ==
  /\ kind = "newton"
  /\ \A p \in DOMAIN fun : bad[p] = {} /\ fun[p] = CHOOSE f \in Functions[kind] : TRUE

AlgorithmsInit ==
  /\ algorithm \in {"univariate", "functions"}
  /\ Init /\ F!Init
  /\ algorithm = "functions" => AtRest

AlgorithmsNext ==
  \/ algorithm = "univariate" /\ Next /\ UNCHANGED <<algorithm, nodeVars>>
  \/ algorithm = "functions" /\ F!Next /\ UNCHANGED <<algorithm, vars>>

AlgorithmsSpec == AlgorithmsInit /\ [][AlgorithmsNext]_<<algorithm, vars, nodeVars>>

(***************************************************************************)
(* A node of functions answers what was written, modulo the prime of the   *)
(* call (ratexpr_parser.cc:423, alg_functions.cc:263), but for four known  *)
(* cases; FunctionNodes states it and names them.                          *)
(***************************************************************************)
MeansWhatItSays == F!MeansWhatItSays

(***************************************************************************)
(* The stack of an expression is as large as its evaluation needs          *)
(* (alg_functions.cc:419); FunctionNodes states it.                        *)
(***************************************************************************)
StackFits == F!StackFits
=============================================================================

----------------------------- MODULE FrontEnds -----------------------------
(***************************************************************************)
(* The two front ends of the library.  A process is either a Mathematica   *)
(* kernel that has loaded the link (MathLink) or a program that calls the  *)
(* C interface (CApi); it calls one function at a time and keeps to its    *)
(* side.                                                                   *)
(***************************************************************************)
EXTENDS MathLink

VARIABLES
  side,  \* "link" or "c"
  function, path, known, refused, answer, held, changed, lists \* of CApi

cVars == <<function, path, known, refused, answer, held, changed, lists>>

C == INSTANCE CApi WITH todo <- path, stale <- changed

FrontInit == side \in {"link", "c"} /\ Init /\ C!Init

FrontNext ==
  \/ side = "link" /\ Next /\ UNCHANGED <<side, cVars>>
  \/ side = "c" /\ C!Next /\ UNCHANGED <<side, vars>>

FrontSpec == FrontInit /\ [][FrontNext]_<<side, vars, cVars>>

(***************************************************************************)
(* A function of the C interface uses only what it has looked up and what  *)
(* is there, and does not answer FF_SUCCESS when something has failed on   *)
(* its way (capi.cc:682, 873, 2273, 2514); CApi states it.                 *)
(***************************************************************************)
SuccessIsEarned == C!UsesWhatIsThere /\ C!FailureIsReported

(***************************************************************************)
(* What a function of the C interface allocates is freed or given away,    *)
(* and on both sides the workers' copies of an algorithm's data are        *)
(* dropped by the time a call that has changed its options returns; CApi   *)
(* and MathLink state it.                                                  *)
(***************************************************************************)
NothingLeftOver == CopiesInvalidated /\ C!NothingLeftOver
=============================================================================

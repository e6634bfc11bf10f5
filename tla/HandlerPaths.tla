---------------------------- MODULE HandlerPaths ----------------------------
(***************************************************************************)
(* The paths of a handler or of a library function, as sets of sequences   *)
(* of steps.  A step is a record with one field; a choice between paths is *)
(* a step of its own and is made when it is reached.                       *)
(***************************************************************************)
EXTENDS Integers, Sequences, FiniteSets, TLC

Skip == {<<>>}

Step(op, of) == {<<op :> of>>}

OneOf(A) == IF Cardinality(A) = 1 THEN CHOOSE a \in A : TRUE ELSE <<"one of" :> A>>

\* First A, then B.
A ** B == {OneOf(A) \o OneOf(B)}

Times(A, n) == IF n = 0 THEN Skip ELSE IF n = 1 THEN A ELSE A ** A

Begins(p, op) == p # <<>> /\ op \in DOMAIN Head(p)
=============================================================================

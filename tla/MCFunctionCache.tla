--------------------------- MODULE MCFunctionCache ---------------------------
(* Instance of FunctionCache: two keys have the same hash value, and the      *)
(* paths of all three meet at the end of a small table.                       *)
EXTENDS FunctionCache

MCHash == [k \in Keys |-> IF k = "c" THEN 7 ELSE 3]
=============================================================================

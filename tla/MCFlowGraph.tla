----------------------------- MODULE MCFlowGraph -----------------------------
(* TLC instance of FlowGraph: all sequences of at most MaxCalls calls. *)
EXTENDS FlowGraph

CONSTANT MaxCalls

VARIABLE calls

MCInit == Init /\ calls = 0
MCNext == calls < MaxCalls /\ Next /\ calls' = calls + 1

MCSpec == MCInit /\ [][MCNext]_<<graphVars, calls>>
=============================================================================

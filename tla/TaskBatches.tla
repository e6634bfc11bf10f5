----------------------------- MODULE TaskBatches -----------------------------
(***************************************************************************)
(* What the parallel calls of a session (parallel_sample,                  *)
(* parallel_reconstruct, ...) need of whatever runs their tasks: a caller  *)
(* submits the tasks of a batch, each is run once, and the caller goes on  *)
(* when all of them are done.                                              *)
(***************************************************************************)
EXTENDS Naturals

CONSTANT Tasks

VARIABLES task,    \* "none", "submitted", "done"
          caller   \* "free", "busy", "gone"

batchVars == <<task, caller>>

Init == task = [t \in Tasks |-> "none"] /\ caller = "free"

Call == caller = "free" /\ caller' = "busy" /\ UNCHANGED task

Submit(t) == /\ caller = "busy" /\ task[t] = "none"
             /\ task' = [task EXCEPT ![t] = "submitted"]
             /\ UNCHANGED caller

Complete(t) == /\ task[t] = "submitted"
               /\ task' = [task EXCEPT ![t] = "done"]
               /\ UNCHANGED caller

\* The call returns: nothing it submitted is still running
Return == /\ caller = "busy"
          /\ \A t \in Tasks : task[t] # "submitted"
          /\ caller' = "free" /\ UNCHANGED task

\* The session is destroyed between two calls
Quit == caller = "free" /\ caller' = "gone" /\ UNCHANGED task

Next == Call \/ Return \/ Quit \/ \E t \in Tasks : Submit(t) \/ Complete(t)

Spec == /\ Init /\ [][Next]_batchVars
        /\ \A t \in Tasks : WF_batchVars(Complete(t))
        /\ WF_batchVars(Return)
=============================================================================

----------------------------- MODULE SolverNode -----------------------------
(***************************************************************************)
(* A learning node in a session: a dense linear solver                     *)
(* (src/alg_linear_solver.cc) that is the mutable output node of a graph,  *)
(* the learning loop around it (src/algorithm.cc), the setters of the C    *)
(* interface (src/capi.cc), and the places where what it learned is        *)
(* copied: the node's and the graph's nparsout, the buffers and data of    *)
(* the main context and of the workers' contexts, and the cached samples   *)
(* (src/graph.cc).                                                         *)
(*                                                                         *)
(* A linear system is abstracted to its shape at a point: which unknowns   *)
(* are dependent and how many independent ones the solution contains.  The *)
(* shape may differ between points, and between primes.                    *)
(***************************************************************************)
EXTENDS Naturals, FiniteSets

CONSTANTS NContexts, \* the number of worker contexts (sub_ctxt_)
          NLearn,    \* min_learn_times() of the solver
          NSingular, \* learn_opt.n_singular
          MaxCalls   \* bound on the calls made by the application

ASSUME SolverAssumption == /\ NContexts \in Nat
                           /\ NLearn \in Nat \ {0}
                           /\ NSingular \in Nat /\ MaxCalls \in Nat

Contexts == 1 .. NContexts

\* The sets of dependent unknowns that occur, and how many each has
DepSets == {"x", "y", "xy"}
NDeps(d) == CASE d = "none" -> 0 [] d = "xy" -> 2 [] OTHER -> 1

Shapes == [dep : DepSets, ind : {1, 2}]
Cleared == [dep |-> "none", ind |-> 0]

Pole == [dep |-> "pole", ind |-> 0]              \* fill_matrix fails
Impossible == [dep |-> "impossible", ind |-> 0]  \* there is no solution
Points == Shapes \cup {Pole, Impossible}

NoCopy == [deps |-> 0, buf |-> 0, of |-> <<>>]
NoSamples == <<>>
Idle == <<>>

VARIABLES
  stage,      \* stage_: "first", "second"
  shape,      \* depv_ of the main context, xinfo_, nnindeps_
  impossible, \* impossible_
  marked,     \* xinfo_ has been filled by a first learning step
  left,       \* independent unknowns in the matrix the main context left
  need,       \* how many of the dependent unknowns are needed
  homog, nonhomog,  \* homog_, only_non_homog_
  width,      \* nparsout of the solver
  learned,    \* has_learned() of the solver
  gWidth,     \* nparsout of the graph
  mainBuf,    \* length of the node's xout_ in the main context
  copy,       \* of each worker context: the size of the node's depv_, the
              \* length of its xout_ and the options then, or NoCopy
  samples,    \* rec_data_->cache: what the cached values are values of
  learning,   \* <<learn_ok, singular, try_no>> inside learn_all, or Idle
  agree,      \* history: successes in a row since the last first step
  fresh,      \* history: learned since the last setter
  calls       \* calls made so far

solver == <<stage, shape, impossible, marked, left, width>>
options == <<need, homog, nonhomog>>
shared == <<gWidth, mainBuf, copy, samples>>
vars == <<solver, options, learned, shared, learning, agree, fresh,
          calls>>

NodeInit ==
  /\ stage = "first" /\ shape = Cleared /\ impossible = FALSE
  /\ marked = FALSE /\ left = 0 /\ width = 0
  /\ need = 2 /\ homog = FALSE /\ nonhomog = FALSE
  /\ learned = FALSE /\ gWidth = 0 /\ mainBuf = 0
  /\ copy = [c \in Contexts |-> NoCopy] /\ samples = NoSamples
  /\ learning = Idle /\ agree = 0 /\ fresh = FALSE /\ calls = 0

Least(m, n) == IF m <= n THEN m ELSE n

\* nndeps_ * (nnindeps_ + unsigned(!homog_))
Entries(s) == Least(need, NDeps(s.dep)) * (s.ind + (IF homog THEN 0 ELSE 1))

\* Independent unknowns in the matrix after point q: anything when the point
\* does not have the learned shape
LeftBy(q) == IF q.dep = shape'.dep THEN {q.ind} ELSE 0 .. 2

Called == learning = Idle /\ calls < MaxCalls /\ calls' = calls + 1

-----------------------------------------------------------------------------
(* Learning *)

\* Session::learn and learn_all up to the loop
Learn == /\ Called
         /\ learning' = <<0, 0, 0>>
         /\ UNCHANGED <<solver, options, learned, shared, agree, fresh>>

\* learn_1_: everything is forgotten, then learned from one point
LearnFirst(q) ==
  /\ stage = "first"
  /\ marked' = TRUE
  /\ shape' = IF q \in {Pole, Impossible} THEN Cleared
              ELSE [q EXCEPT !.ind = IF nonhomog THEN 0 ELSE q.ind]
  /\ stage' = IF q = Pole THEN "first" ELSE "second"
  /\ impossible' = (impossible \/ q = Impossible)
  /\ width' = width

\* Mutant of LearnAgain: the length of the output is set once
LearnAgainOnce(q) ==
  /\ stage = "second"
  /\ stage' = IF \/ q = Impossible /\ ~impossible
                 \/ q \in Shapes /\ q.dep # shape.dep
              THEN "first" ELSE "second"
  /\ width' = IF q \in Shapes /\ q.dep = shape.dep /\ width = 0
              THEN Entries(shape) ELSE width
  /\ UNCHANGED <<shape, impossible, marked>>

\* learn_2_: the point must have the dependent unknowns of the first one
LearnAgain(q) ==
  /\ stage = "second"
  /\ stage' = IF \/ q = Impossible /\ ~impossible
                 \/ q \in Shapes /\ q.dep # shape.dep
              THEN "first" ELSE "second"
  /\ width' = IF q \in Shapes /\ q.dep = shape.dep THEN Entries(shape)
              ELSE width
  /\ UNCHANGED <<shape, impossible, marked>>

Succeeds(q) == IF stage = "first" THEN q # Pole
               ELSE \/ q = Impossible /\ impossible
                    \/ q \in Shapes /\ q.dep = shape.dep

\* Mutant of AfterPoint: a failure does not reset the successes
AfterPointKeep(ok) == LET ln == learning IN
  IF ok THEN <<ln[1] + 1, ln[2], ln[3] + 1>> ELSE <<ln[1], ln[2] + 1, ln[3] + 1>>

\* <<learn_ok, singular, try_no>> after a point
AfterPoint(ok) == LET ln == learning IN
  IF ok THEN <<ln[1] + 1, ln[2], ln[3] + 1>> ELSE <<0, ln[2] + 1, ln[3] + 1>>

Finished(ln) == ln[1] >= NLearn

GivenUp(ln) == ln[2] > NSingular \/ ln[3] >= NLearn + NSingular

\* One round of the loop of learn_all, and what Session::learn does after the
\* last one
LearnPoint(q) ==
  /\ learning # Idle
  /\ LearnFirst(q) \/ LearnAgain(q)
  /\ left' \in LeftBy(q)
  /\ agree' = IF Succeeds(q) THEN IF stage = "first" THEN 1 ELSE agree + 1
              ELSE 0
  /\ gWidth' = IF Succeeds(q) THEN width' ELSE gWidth
  /\ LET ln == AfterPoint(Succeeds(q)) IN
       /\ learning' = IF Finished(ln) \/ GivenUp(ln) THEN Idle ELSE ln
       /\ learned' = IF Finished(ln) THEN TRUE
                     ELSE IF GivenUp(ln) THEN FALSE ELSE learned
       /\ mainBuf' = IF Finished(ln) /\ width' # 0 THEN width' ELSE mainBuf
       /\ fresh' = (fresh \/ Finished(ln))
  /\ UNCHANGED <<options, copy, samples, calls>>

-----------------------------------------------------------------------------
(* The setters: the copies of the workers are dropped, has_learned stays *)

\* Mutant of DropCopies: the first context is forgotten
DropSomeCopies == copy' = [c \in Contexts |-> IF c = 1 THEN copy[c] ELSE NoCopy]

DropCopies == copy' = [c \in Contexts |-> NoCopy]

OnlyHomogeneous ==
  /\ Called /\ stage' = "first" /\ homog' = TRUE
  /\ DropCopies /\ fresh' = FALSE
  /\ UNCHANGED <<shape, impossible, marked, left, width, need, nonhomog,
                 learned, gWidth, mainBuf, samples, learning, agree>>

OnlyNonHomogeneous ==
  /\ Called /\ stage' = "first" /\ nonhomog' = TRUE
  /\ DropCopies /\ fresh' = FALSE
  /\ UNCHANGED <<shape, impossible, marked, left, width, need, homog,
                 learned, gWidth, mainBuf, samples, learning, agree>>

\* reset_needed: a subset of what is needed; after a first step the solution
\* is read again from the matrix the last evaluation left behind
ResetNeededVars(n) ==
  /\ Called /\ marked /\ n <= need
  /\ need' = n
  /\ IF stage = "second"
     THEN /\ shape' = [shape EXCEPT !.ind = IF nonhomog THEN 0 ELSE left]
          /\ width' = Least(n, NDeps(shape.dep))
                        * (shape'.ind + (IF homog THEN 0 ELSE 1))
     ELSE UNCHANGED <<shape, width>>
  /\ DropCopies /\ fresh' = FALSE
  /\ UNCHANGED <<stage, impossible, marked, left, homog, nonhomog, learned,
                 gWidth, mainBuf, samples, learning, agree>>

-----------------------------------------------------------------------------
(* Evaluations *)

\* graph_can_be_evaluated
CanBeEvaluated == learned /\ learning = Idle

\* What the values of the node are values of
Meaning == <<need, homog, nonhomog>>

\* The values are added to the cache, or start it
KeepSamples == samples' = IF samples = NoSamples THEN Meaning ELSE samples

\* One point in the main context (evaluate)
Evaluate(q) ==
  /\ CanBeEvaluated /\ Called
  /\ UNCHANGED shape /\ left' \in LeftBy(q)
  /\ UNCHANGED <<stage, impossible, marked, width, options, learned, shared,
                 learning, agree, fresh>>

\* sample, the last point being q
Sample(q) ==
  /\ CanBeEvaluated /\ Called
  /\ UNCHANGED shape /\ left' \in LeftBy(q)
  /\ KeepSamples
  /\ UNCHANGED <<stage, impossible, marked, width, options, learned, gWidth,
                 mainBuf, copy, learning, agree, fresh>>

\* sync_graph_data: a context that has no data for the node gets a copy
Synced(n) ==
  [c \in Contexts |->
     IF c <= n /\ copy[c] = NoCopy
     THEN [deps |-> NDeps(shape.dep), buf |-> width, of |-> Meaning]
     ELSE copy[c]]

\* parallel_sample on n workers, also when evaluate_list calls it
SampleParallel(n) ==
  /\ CanBeEvaluated /\ Called
  /\ copy' = Synced(n)
  /\ KeepSamples
  /\ UNCHANGED <<solver, options, learned, gWidth, mainBuf, learning, agree,
                 fresh>>

NodeNext == \/ Learn
            \/ \E q \in Points : LearnPoint(q) \/ Evaluate(q) \/ Sample(q)
            \/ OnlyHomogeneous \/ OnlyNonHomogeneous
            \/ \E n \in 1 .. 2 : ResetNeededVars(n)
            \/ \E n \in Contexts : SampleParallel(n)

NodeSpec == NodeInit /\ [][NodeNext]_vars

-----------------------------------------------------------------------------
(* Properties *)

\* A solver that has learned found the same dependent unknowns at as many
\* points in a row as its class asks for, starting from the point it learned
\* them from (the loop of learn_all and the stages of the solver, each with a
\* counter of its own).
LearnedIsConfirmed == CanBeEvaluated => agree >= NLearn

\* After a learning call that found a solution the length of the output is
\* known everywhere: in the solver, in the graph, and in the buffer of the main
\* context.
LengthsAgree ==
  CanBeEvaluated /\ fresh /\ ~impossible =>
    /\ width = Entries(shape)
    /\ gWidth = width
    /\ mainBuf >= width

\* The data a worker evaluates with were copied under the options in force:
\* every setter drops the copies of every context, also between two learnings.
CopiesKnowOptions ==
  \A c \in Contexts : copy[c] # NoCopy => copy[c].of = Meaning

(* What a comment says and the code does not do *)

\* graph.hh:315: who modifies the data of an algorithm also drops the workers'
\* copies.  Learning does modify them.
RelearnedCopies ==
  CanBeEvaluated /\ fresh /\ ~impossible =>
    \A c \in Contexts : copy[c] # NoCopy =>
      copy[c].deps = NDeps(shape.dep) /\ copy[c].buf >= width
=============================================================================

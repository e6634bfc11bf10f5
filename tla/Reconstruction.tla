--------------------------- MODULE Reconstruction ---------------------------
(***************************************************************************)
(* Reconstruction of the outputs of a multivariate graph in a session: the *)
(* degrees, the sample points, the cache of evaluations, the workers that  *)
(* reconstruct one output each, what is kept of a reconstruction that ran  *)
(* out of primes, and the loop that retries with one prime more            *)
(* (src/graph.cc, src/capi.cc, src/alg_mp_reconstruction.cc,               *)
(* src/mp_multivariate_reconstruction.cc).                                 *)
(*                                                                         *)
(* The points of a prime are abstracted to two batches, those that a       *)
(* function modulo the prime is reconstructed from and those it is checked *)
(* at.  An entry of the cache holds the values of the outputs flagged in   *)
(* it, one after the other.  How many primes an output needs is unknown to *)
(* the code, and fixed by the graph.                                       *)
(***************************************************************************)
EXTENDS Naturals, Sequences, FiniteSets

CONSTANTS NOutputs,  \* nparsout of the graph
          MaxNeed,   \* bound on the primes that an output needs
          Starts,    \* the values of opt.start_mod in use
          MaxPrimes, \* bound on opt.max_primes
          MaxThreads,\* bound on opt.n_threads
          MaxCalls   \* bound on the calls made by the application

Outputs == 1 .. NOutputs

ASSUME ReconstructionAssumption ==
  /\ NOutputs \in Nat \ {0} /\ MaxNeed \in Nat \ {0}
  /\ Starts \subseteq Nat /\ IsFiniteSet(Starts) /\ Starts # {}
  /\ MaxPrimes \in Nat \ {0} /\ MaxThreads \in Nat \ {0} /\ MaxCalls \in Nat

\* Primes by their position in BIG_UINT_PRIMES
Primes == {s + i : s \in Starts, i \in 0 .. MaxPrimes}
Batches == {"rec", "chk"} \X Primes

NoResult == [of |-> 0, mod |-> FALSE, made |-> FALSE]
Idle == [kind |-> "idle"]

VARIABLES
  need,      \* of each output: the primes its coefficients need
  bad,       \* outputs with too many singular points to be reconstructed
  degs,      \* the degrees: "none", "partial" (allocated only), "known"
  cacheMade, \* rec_data_->cache is not null
  cache,     \* of each batch: the outputs flagged in its entries, {} if none
  completed, \* completed_: <<>> if null, else <<the outputs completed>>
  recf,      \* recratfun_: of each output, what was reconstructed
  call,      \* the call in progress, or Idle
  last,      \* the last answer: of which call, with what max_primes, the
             \* return value, the results
  starts,    \* history: where the call that completed an output started, and
             \* every call that reconstructs since
  calls      \* calls made so far

data == <<degs, cacheMade, cache>>
kept == <<completed, recf>>
vars == <<need, bad, data, kept, call, last, starts, calls>>

NoAnswer == [kind |-> "none", max |-> 0, ret |-> "none", res |-> <<>>]

Init ==
  /\ need \in [Outputs -> 1 .. MaxNeed]
  /\ bad \in SUBSET Outputs /\ Cardinality(bad) <= 1
  /\ degs = "none" /\ cacheMade = FALSE /\ cache = [b \in Batches |-> {}]
  /\ completed = <<>> /\ recf = <<>>
  /\ call = Idle /\ last = NoAnswer /\ starts = {} /\ calls = 0

-----------------------------------------------------------------------------
(* Sample points *)

\* Mutant of Wanted: the checks at the last prime are forgotten
WantedFewer(start, max) ==
  ({"rec"} \X (start .. start + max - 1)) \cup ({"chk"} \X (start + 1 .. start + max - 1))

\* The batches that sample() asks for
Wanted(start, max) ==
  ({"rec"} \X (start .. start + max - 1)) \cup ({"chk"} \X (start + 1 .. start + max))

\* Mutant of ToRec: also the completed outputs
ToRecAll == Outputs

\* set_up_to_rec_: the outputs that are not completed
ToRec == IF completed = <<>> THEN Outputs ELSE Outputs \ completed[1]

\* completed_ and recratfun_ are allocated when they are not there
SetUp == IF completed = <<>>
         THEN completed' = <<{}>> /\ recf' = [j \in Outputs |-> NoResult]
         ELSE UNCHANGED kept

\* Mutant of Sampled: only the first output is flagged
SampledForFirst(start, max) ==
  [b \in Batches |-> IF b \in Wanted(start, max) /\ cache[b] = {}
                     THEN {j \in ToRec : \A k \in ToRec : j <= k} ELSE cache[b]]

\* gen_sample_points_ and the evaluation of the points: those in the cache are
\* left out, the others are flagged with the outputs that need them
Sampled(start, max) ==
  [b \in Batches |-> IF b \in Wanted(start, max) /\ cache[b] = {}
                     THEN ToRec ELSE cache[b]]

-----------------------------------------------------------------------------
(* One output, from the values in the cache *)

\* SparselySampledRatFun::evaluate: the value at the position that output j
\* has after the flagged outputs before it.  0 is a value beyond the entry.
Source(b, j) ==
  IF j \in cache[b] THEN j
  ELSE IF \E k \in cache[b] : k > j
       THEN CHOOSE k \in cache[b] : k > j /\ \A m \in cache[b] : m > j => k <= m
       ELSE 0

\* The function is right after i primes: a check at the next prime passes
Confirmed(j, start, i) ==
  /\ \A b \in Wanted(start, i) : cache[b] # {}
  /\ \E k \in Outputs :
       /\ need[k] <= i
       /\ Source(<<"chk", start + i>>, j) = k
       /\ \A p \in start .. start + i - 1 : Source(<<"rec", p>>, j) = k

Result(k, mod) == [of |-> k, mod |-> mod, made |-> TRUE]

\* algorithm_sparse_reconstruct: return values and functions
Full(j, start, max) ==
  IF cache[<<"rec", start>>] = {} THEN {<<"missing_samples", NoResult>>}
  ELSE IF Source(<<"rec", start>>, j) \in bad THEN {<<"failed", NoResult>>}
  ELSE IF \E i \in 1 .. max : Confirmed(j, start, i)
  THEN {<<"success", Result(Source(<<"rec", start>>, j), FALSE)>>}
  ELSE {<<"missing_primes", NoResult>>}

\* algorithm_sparse_reconstruct_mod: one prime, nothing is checked
Mod(j, start) ==
  IF cache[<<"rec", start>>] = {} \/ Source(<<"rec", start>>, j) \in bad
  THEN {<<"failed", NoResult>>}
  ELSE {<<"success", Result(Source(<<"rec", start>>, j), TRUE)>>}
         \cup IF Source(<<"rec", start>>, j) = 0
              THEN {<<"failed", NoResult>>} ELSE {}

-----------------------------------------------------------------------------
(* Calls *)

Called == call = Idle /\ calls < MaxCalls /\ calls' = calls + 1

Answer(kind, max, ret, res) ==
  /\ last' = [kind |-> kind, max |-> max, ret |-> ret, res |-> res]
  /\ call' = Idle

IsMod(kind) == kind \in {"mod", "current_mod"}
IsLoop(kind) == kind \in {"full", "mod"}

\* ffAllDegrees; numdeg is allocated before anything is computed
AllDegrees(ok) ==
  /\ Called
  /\ degs' = IF ok THEN "known" ELSE "partial"
  /\ Answer("degrees", 0, IF ok THEN "success" ELSE "failed", <<>>)
  /\ UNCHANGED <<need, bad, cacheMade, cache, kept, starts>>

\* ffSample
Sample(start, max) ==
  /\ Called
  /\ IF degs = "none"
     THEN /\ Answer("sample", max, "failed", <<>>)
          /\ UNCHANGED <<data, kept>>
     ELSE /\ SetUp /\ cache' = Sampled(start, max) /\ cacheMade' = TRUE
          /\ UNCHANGED degs
          /\ Answer("sample", max, "success", <<>>)
  /\ UNCHANGED <<need, bad, starts>>

\* set_output_node or a loss of rec_data_: everything is forgotten
Reset ==
  /\ Called
  /\ degs' = "none" /\ cacheMade' = FALSE /\ cache' = [b \in Batches |-> {}]
  /\ completed' = <<>> /\ recf' = <<>>
  /\ Answer("reset", 0, "success", <<>>)
  /\ starts' = {}
  /\ UNCHANGED <<need, bad>>

\* ffReconstructFunction[Mod] and ffReconstructFromCurrentEvaluations[Mod]
Begin(kind, start, max, n) ==
  /\ Called
  /\ call' = [kind |-> kind, start |-> start,
              max |-> IF kind = "mod" THEN 1 ELSE max,
              primes |-> IF IsLoop(kind) THEN 1 ELSE max, threads |-> n,
              at |-> IF IsLoop(kind) THEN "degrees" ELSE "set_up",
              todo |-> <<>>, ret |-> <<>>]
  /\ starts' = IF starts = {} THEN {} ELSE starts \cup {start}
  /\ UNCHANGED <<need, bad, data, kept, last>>

At(place) == call.kind # "idle" /\ call.at = place

\* parallel_all_degrees, at the head of the loop
GetDegrees(ok) ==
  /\ At("degrees")
  /\ degs' = IF ok THEN "known" ELSE "partial"
  /\ IF ok THEN call' = [call EXCEPT !.at = "sample"] /\ UNCHANGED last
     ELSE Answer(call.kind, call.max, "failed", <<>>)
  /\ UNCHANGED <<need, bad, cacheMade, cache, kept, starts, calls>>

\* parallel_sample, in the loop
SampleMore ==
  /\ At("sample")
  /\ SetUp /\ cache' = Sampled(call.start, call.primes) /\ cacheMade' = TRUE
  /\ call' = [call EXCEPT !.at = "set_up"]
  /\ UNCHANGED <<need, bad, degs, last, starts, calls>>

\* The outputs of worker w of n: every n-th of the list
Ascending(S) == CHOOSE s \in [1 .. Cardinality(S) -> S] :
                  \A a, b \in 1 .. Cardinality(S) : a < b => s[a] < s[b]
Share(s, w, n) == [k \in 1 .. (Len(s) + n - w) \div n |-> s[w + (k - 1) * n]]

\* parallel_reconstruct up to the tasks; with one thread it is reconstruct,
\* which does not ask whether there is a cache
StartWorkers ==
  /\ At("set_up")
  /\ IF degs = "none" \/ (~cacheMade /\ call.threads > 1)
     THEN /\ Answer(call.kind, call.max, "failed", <<>>)
          /\ IF degs = "none" THEN UNCHANGED kept ELSE SetUp
     ELSE LET s == Ascending(ToRec)
              n == IF call.threads < Len(s) THEN call.threads ELSE Len(s)
          IN /\ SetUp
             /\ call' = [call EXCEPT !.at = "work",
                           !.todo = [w \in 1 .. n |-> Share(s, w, n)],
                           !.ret = [w \in 1 .. n |-> "success"]]
             /\ UNCHANGED last
  /\ UNCHANGED <<need, bad, data, starts, calls>>

\* Mutant of Reconstruct: also the tries without success count as completed
ReconstructMarkAll(w) ==
  /\ At("work") /\ cacheMade
  /\ w \in DOMAIN call.todo /\ call.todo[w] # <<>>
  /\ LET j == Head(call.todo[w]) IN
     \E o \in IF IsMod(call.kind) THEN Mod(j, call.start)
              ELSE Full(j, call.start, call.primes) :
       /\ recf' = [recf EXCEPT ![j] = IF o[1] = "success" THEN o[2] ELSE @]
       /\ completed' = IF IsMod(call.kind) THEN completed
                       ELSE <<completed[1] \cup {j}>>
       /\ starts' = IF o[1] # "success" \/ IsMod(call.kind) THEN starts
                    ELSE starts \cup {call.start}
       /\ call' = [call EXCEPT !.todo[w] = Tail(@),
                     !.ret[w] = IF @ = "success" THEN o[1] ELSE @]
  /\ UNCHANGED <<need, bad, data, last, calls>>

\* reconstruct_ and reconstruct_mod_: worker w does its next output.  What a
\* try without success leaves in recratfun_ is overwritten by the next try.
Reconstruct(w) ==
  /\ At("work") /\ cacheMade
  /\ w \in DOMAIN call.todo /\ call.todo[w] # <<>>
  /\ LET j == Head(call.todo[w]) IN
     \E o \in IF IsMod(call.kind) THEN Mod(j, call.start)
              ELSE Full(j, call.start, call.primes) :
       /\ recf' = [recf EXCEPT ![j] = IF o[1] = "success" THEN o[2] ELSE @]
       /\ completed' = IF o[1] # "success" \/ IsMod(call.kind) THEN completed
                       ELSE <<completed[1] \cup {j}>>
       /\ starts' = IF o[1] # "success" \/ IsMod(call.kind) THEN starts
                    ELSE starts \cup {call.start}
       /\ call' = [call EXCEPT !.todo[w] = Tail(@),
                     !.ret[w] = IF @ = "success" THEN o[1] ELSE @]
  /\ UNCHANGED <<need, bad, data, last, calls>>

\* Mutant of Collected: the last return value
CollectedLast(rets) == IF Len(rets) = 0 THEN "success" ELSE rets[Len(rets)]

\* The first return value that is not SUCCESS
Collected(rets) ==
  IF \A w \in DOMAIN rets : rets[w] = "success" THEN "success"
  ELSE rets[CHOOSE w \in DOMAIN rets :
              /\ rets[w] # "success"
              /\ \A v \in 1 .. w - 1 : rets[v] = "success"]

\* move_rec_
MoveRec == completed' = <<>> /\ recf' = <<>>

\* Mutant of Collect: the loop does not move on
CollectSamePrimes ==
  /\ At("work") /\ \A w \in DOMAIN call.todo : call.todo[w] = <<>>
  /\ LET ret == Collected(call.ret) IN
     IF ret = "success" THEN Answer(call.kind, call.max, ret, recf) /\ MoveRec
     ELSE IF IsLoop(call.kind) /\ ret = "missing_primes" /\ call.primes < call.max
     THEN /\ call' = [call EXCEPT !.primes = @, !.at = "sample",
                        !.todo = <<>>, !.ret = <<>>]
          /\ UNCHANGED <<kept, last>>
     ELSE Answer(call.kind, call.max, ret, <<>>) /\ UNCHANGED kept
  /\ UNCHANGED <<need, bad, data, starts, calls>>

\* The end of parallel_reconstruct, and the loop of funrec_implem
Collect ==
  /\ At("work") /\ \A w \in DOMAIN call.todo : call.todo[w] = <<>>
  /\ LET ret == Collected(call.ret) IN
     IF ret = "success" THEN Answer(call.kind, call.max, ret, recf) /\ MoveRec
     ELSE IF IsLoop(call.kind) /\ ret = "missing_primes" /\ call.primes < call.max
     THEN /\ call' = [call EXCEPT !.primes = @ + 1, !.at = "sample",
                        !.todo = <<>>, !.ret = <<>>]
          /\ UNCHANGED <<kept, last>>
     ELSE Answer(call.kind, call.max, ret, <<>>) /\ UNCHANGED kept
  /\ UNCHANGED <<need, bad, data, starts, calls>>

Kinds == {"full", "mod", "current", "current_mod"}

Step == \/ \E ok \in BOOLEAN : GetDegrees(ok)
        \/ SampleMore \/ StartWorkers \/ Collect
        \/ \E w \in 1 .. MaxThreads : Reconstruct(w)

Next == \/ Step
        \/ \E ok \in BOOLEAN : AllDegrees(ok)
        \/ \E s \in Starts, m \in 1 .. MaxPrimes : Sample(s, m)
        \/ \E kind \in Kinds, s \in Starts, m \in 1 .. MaxPrimes,
              n \in 1 .. MaxThreads : Begin(kind, s, m, n)
        \/ Reset

\* The workers are threads of the operating system and the rest is one
\* sequential call: a call that can go on goes on.  Nothing makes the
\* application call.
Spec == Init /\ [][Next]_vars /\ WF_vars(Step)

-----------------------------------------------------------------------------
(* Properties *)

\* The values of output j at the points of the first i primes are in the cache,
\* and it needs no more
Confirmable(j, start, i) ==
  need[j] <= i /\ \A b \in Wanted(start, i) : j \in cache[b]

\* Since an output was completed, every call that reconstructs started from the
\* prime that this one did.  Calls before that, and calls that only sample, may
\* start from any prime.
OneStart == \A a, b \in starts : a = b

\* The reconstruction of an output never reads an entry that was sampled without
\* the output: it stops before, because it stopped there when the output was
\* completed (SparselySampledRatFun::evaluate does not look at the flag of the
\* output that it reads).  A call from another prime, after an output was
\* completed, is the exception: it does read such entries.
ReadsOwnValues ==
  At("work") /\ OneStart =>
    \A j \in Outputs, i \in 1 .. call.primes : \A b \in Wanted(call.start, i) :
      cache[b] # {} /\ j \notin cache[b] =>
        \E k \in 1 .. call.primes :
          b \notin Wanted(call.start, k) /\ Confirmable(j, call.start, k)

\* So a result, kept or handed out, is the function of its own output, with the
\* same exception.
OwnValues ==
  OneStart =>
    /\ recf # <<>> => \A j \in Outputs : recf[j].made => recf[j].of = j
    /\ last.res # <<>> => \A j \in Outputs : last.res[j].made => last.res[j].of = j

\* An output marked completed has a function over the rationals in
\* recratfun_, whatever calls were made since; the two exist together.
CompletedIsKept ==
  /\ (completed = <<>>) <=> (recf = <<>>)
  /\ completed # <<>> =>
       \A j \in completed[1] : recf[j].made /\ ~recf[j].mod

\* move_rec_ hands out every output or none: a success has them all.
NothingMissing ==
  last.res # <<>> => \A j \in Outputs : last.res[j].made

\* The loop of funrec_implem samples enough: it never lacks points, it asks for
\* more primes only if an output needs more than it was allowed, and it fails
\* only if the degrees cannot be found or an output cannot be reconstructed, with
\* the same exception.
LoopAnswers ==
  call = Idle /\ IsLoop(last.kind) /\ OneStart =>
    /\ last.ret # "missing_samples"
    /\ last.ret = "missing_primes" => \E j \in Outputs : need[j] > last.max
    /\ last.ret = "failed" => bad # {} \/ degs = "partial"

\* Until the results are handed out, or the graph gets another output node, a
\* completed output keeps its function over the rationals and is not
\* reconstructed again (set_up_to_rec_, reconstruct_), whatever calls fail.
CompletedStays ==
  [][/\ CompletedIsKept'
     /\ completed # <<>> /\ completed' # <<>> =>
          /\ completed[1] \subseteq completed'[1]
          /\ \A j \in completed[1] : recf'[j] = recf[j]]_vars

\* reconstruct dereferences the cache without asking whether there is one
Crashed == At("work") /\ ~cacheMade

\* A call returns, unless it crashes.
CallReturns == (call # Idle) ~> (call = Idle \/ Crashed)
=============================================================================

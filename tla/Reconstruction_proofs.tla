------------------------ MODULE Reconstruction_proofs ------------------------
(***************************************************************************)
(* Reconstruction for every number of outputs, primes, threads and calls.  *)
(*                                                                         *)
(* The reconstruction of an output reads values of that output only, if    *)
(* since an output was completed all calls start from one prime, s.  A     *)
(* batch that lacks output j was sampled while j was completed.  When j    *)
(* was completed its values were in the cache for enough primes from s on, *)
(* and those batches come first: any later reconstruction of j ends there. *)
(* So the invariant says of every batch without j that j is settled        *)
(* without it (SettledWithout), and of every completed output that it is   *)
(* settled (CompletedSettled).  Before an output is completed it says so   *)
(* for every prime s, since any of them may become the one (RecInv).       *)
(*                                                                         *)
(* From any primes, what is completed is kept and a success has every      *)
(* output, because the workers' shares partition what is not completed     *)
(* (KeptInv).  And the loop finds the points it needs (LoopInv).           *)
(***************************************************************************)
EXTENDS Reconstruction, FiniteSetTheorems, WellFoundedInduction, TLAPS

Settled(s, j, i) == i \in 1 .. MaxPrimes /\ Confirmable(j, s, i)

\* A batch without j is not needed to settle j
SettledWithout(s) ==
  \A j \in Outputs, b \in Batches : cache[b] # {} /\ j \notin cache[b] =>
    \E i \in Nat : Settled(s, j, i) /\ b \notin Wanted(s, i)

CompletedSettled(s) ==
  completed # <<>> =>
    \A j \in Outputs : j \in completed[1] => \E i \in Nat : Settled(s, j, i)

CallOK ==
  call # Idle =>
    /\ DOMAIN call = {"kind", "start", "max", "primes", "threads", "at",
                      "todo", "ret"}
    /\ call.start \in Starts /\ call.max \in 1 .. MaxPrimes
    /\ call.primes \in 1 .. call.max
    /\ At("work") => recf # <<>> /\ completed # <<>>

Shapes ==
  /\ need \in [Outputs -> 1 .. MaxNeed]
  /\ cache \in [Batches -> SUBSET Outputs]
  /\ recf # <<>> => DOMAIN recf = Outputs
  /\ recf # <<>> <=> completed # <<>>

ResultsOwn ==
  /\ recf # <<>> => \A j \in Outputs : recf[j].made => recf[j].of = j
  /\ last.res # <<>> => \A j \in Outputs : last.res[j].made => last.res[j].of = j

OwnInv(s) == /\ Shapes /\ CallOK /\ SettledWithout(s) /\ CompletedSettled(s)
             /\ ResultsOwn

\* The history: a call in progress started where it says
StartsOK ==
  /\ need \in [Outputs -> 1 .. MaxNeed] /\ starts \subseteq Starts
  /\ call # Idle =>
       /\ "start" \in DOMAIN call /\ call.start \in Starts
       /\ starts = {} \/ call.start \in starts

\* Whatever prime the calls may be said to start from, their outputs are settled
\* from there
RecInv ==
  StartsOK /\ \A s \in Starts : starts \subseteq {s} => OwnInv(s)

-----------------------------------------------------------------------------
(* The batches *)

\* The points that are wanted are in the cache's domain, those of fewer primes
\* are among those of more, and the first batch is always among them
LEMMA WantedBatches ==
  ASSUME NEW s \in Starts
  PROVE  /\ \A i \in 1 .. MaxPrimes : Wanted(s, i) \subseteq Batches
         /\ \A i \in Nat, k \in Nat : i <= k => Wanted(s, i) \subseteq Wanted(s, k)
         /\ \A i \in Nat \ {0} : <<"rec", s>> \in Wanted(s, i)
  <1>1. MaxPrimes \in Nat \ {0} /\ s \in Nat
    BY ReconstructionAssumption
  <1>2. \A i \in 1 .. MaxPrimes : Wanted(s, i) \subseteq Batches
    <2> SUFFICES ASSUME NEW i \in 1 .. MaxPrimes, NEW b \in Wanted(s, i)
                 PROVE  b \in Batches
      OBVIOUS
    <2>1. PICK c \in {"rec", "chk"}, p \in s .. s + i : b = <<c, p>>
      BY <1>1 DEF Wanted
    <2>2. p - s \in 0 .. MaxPrimes /\ p = s + (p - s)
      BY <1>1, <2>1
    <2>3. p \in Primes
      BY <2>2 DEF Primes
    <2> QED
      BY <2>1, <2>3 DEF Batches
  <1>3. \A i \in Nat, k \in Nat : i <= k => Wanted(s, i) \subseteq Wanted(s, k)
    BY <1>1 DEF Wanted
  <1>4. \A i \in Nat \ {0} : <<"rec", s>> \in Wanted(s, i)
    BY <1>1 DEF Wanted
  <1> QED
    BY <1>2, <1>3, <1>4

\* What is settled stays settled when entries are only added
LEMMA SettledStays ==
  ASSUME NEW s \in Starts, NEW j, NEW i, Settled(s, j, i),
         need' = need, \A b \in Batches : cache[b] # {} => cache'[b] = cache[b]
  PROVE  Settled(s, j, i)'
  <1>1. Wanted(s, i) \subseteq Batches
    BY WantedBatches DEF Settled
  <1>2. \A b \in Wanted(s, i) : j \in cache'[b]
    BY <1>1 DEF Settled, Confirmable
  <1> QED
    BY <1>2 DEF Settled, Confirmable, Wanted

-----------------------------------------------------------------------------
(* One output *)

\* The first batch has the values of all outputs, if it is there
LEMMA FirstBatchWhole ==
  ASSUME NEW s \in Starts, SettledWithout(s),
         NEW j \in Outputs, cache[<<"rec", s>>] # {}
  PROVE  j \in cache[<<"rec", s>>] /\ Source(<<"rec", s>>, j) = j
  <1>0. MaxPrimes \in Nat \ {0}
    BY ReconstructionAssumption
  <1>1. <<"rec", s>> \in Batches
    BY <1>0, WantedBatches
  <1>2. j \in cache[<<"rec", s>>]
    <2>1. SUFFICES ASSUME j \notin cache[<<"rec", s>>] PROVE FALSE
      OBVIOUS
    <2>2. PICK i \in Nat : Settled(s, j, i) /\ <<"rec", s>> \notin Wanted(s, i)
      BY <1>1, <2>1 DEF SettledWithout
    <2> QED
      BY <2>2, WantedBatches, ReconstructionAssumption DEF Settled
  <1> QED
    BY <1>2 DEF Source

\* A success in full settles the output
LEMMA ConfirmedSettles ==
  ASSUME NEW s \in Starts, Shapes, SettledWithout(s),
         NEW j \in Outputs, NEW i \in 1 .. MaxPrimes, Confirmed(j, s, i)
  PROVE  \E k \in Nat : Settled(s, j, k)
  <1>0. MaxPrimes \in Nat /\ i \in Nat \ {0} /\ s \in Nat
    BY ReconstructionAssumption
  <1>1. \A b \in Wanted(s, i) : b \in Batches /\ cache[b] # {}
    BY WantedBatches DEF Confirmed
  <1>2. <<"rec", s>> \in Wanted(s, i)
    BY <1>0, WantedBatches
  <1>3. Source(<<"rec", s>>, j) = j
    BY <1>1, <1>2, FirstBatchWhole
  <1>4. s \in s .. s + i - 1
    BY <1>0
  <1>5. need[j] <= i
    BY <1>3, <1>4 DEF Confirmed
  <1>6. CASE \A b \in Wanted(s, i) : j \in cache[b]
    BY <1>0, <1>5, <1>6 DEF Settled, Confirmable
  <1>7. CASE \E b \in Wanted(s, i) : j \notin cache[b]
    BY <1>1, <1>7 DEF SettledWithout
  <1> QED
    BY <1>6, <1>7

-----------------------------------------------------------------------------
(* Steps that several actions take *)

\* An allocation of what is kept, or none, forgets nothing
LEMMA SetUpKeeps ==
  ASSUME NEW s \in Starts, OwnInv(s), SetUp
  PROVE  /\ recf' # <<>> /\ completed' # <<>>
         /\ DOMAIN recf' = Outputs
         /\ completed # <<>> => completed' = completed
         /\ \A j \in Outputs : j \in completed'[1] =>
              completed # <<>> /\ j \in completed[1]
         /\ \A j \in Outputs : recf'[j].made => recf'[j].of = j
  <1>1. CASE completed = <<>>
    <2>1. completed' = <<{}>> /\ recf' = [j \in Outputs |-> NoResult]
      BY <1>1 DEF SetUp
    <2>2. completed' # <<>> /\ completed'[1] = {}
      BY <2>1
    <2>3. 1 \in Outputs
      BY ReconstructionAssumption DEF Outputs
    <2>4. DOMAIN recf' = Outputs /\ recf' # <<>>
      BY <2>1, <2>3
    <2>5. \A j \in Outputs : ~recf'[j].made
      BY <2>1 DEF NoResult
    <2> QED
      BY <1>1, <2>2, <2>4, <2>5
  <1>2. CASE completed # <<>>
    <2>1. completed' = completed /\ recf' = recf
      BY <1>2 DEF SetUp, kept
    <2> QED
      BY <1>2, <2>1 DEF OwnInv, Shapes, ResultsOwn
  <1> QED
    BY <1>1, <1>2

\* Entries are added for the outputs that are not completed
LEMMA SamplingKeeps ==
  ASSUME NEW s \in Starts, OwnInv(s), SetUp, need' = need,
         NEW t, NEW max, cache' = Sampled(t, max)
  PROVE  /\ cache' \in [Batches -> SUBSET Outputs]
         /\ SettledWithout(s)' /\ CompletedSettled(s)'
  <1> USE DEF OwnInv
  <1>1. cache' \in [Batches -> SUBSET Outputs]
    BY DEF Shapes, Sampled, ToRec
  <1>2. \A b \in Batches : cache[b] # {} => cache'[b] = cache[b]
    BY DEF Sampled
  <1>3. ASSUME NEW j \in Outputs, NEW i, Settled(s, j, i)
        PROVE  Settled(s, j, i)'
    BY <1>2, <1>3, SettledStays
  <1>4. SettledWithout(s)'
    <2> SUFFICES ASSUME NEW j \in Outputs, NEW b \in Batches,
                        cache'[b] # {}, j \notin cache'[b]
                 PROVE  \E i \in Nat : Settled(s, j, i)' /\ b \notin Wanted(s, i)
      BY DEF SettledWithout, Wanted
    <2>1. CASE cache[b] # {}
      <3>1. PICK i \in Nat : Settled(s, j, i) /\ b \notin Wanted(s, i)
        BY <1>2, <2>1 DEF SettledWithout
      <3> QED
        BY <1>3, <3>1
    <2>2. CASE cache[b] = {}
      <3>1. completed # <<>> /\ j \in completed[1]
        BY <2>2 DEF Sampled, ToRec
      <3>2. PICK i \in Nat : Settled(s, j, i)
        BY <3>1 DEF CompletedSettled
      <3>3. b \notin Wanted(s, i)
        BY <2>2, <3>2 DEF Settled, Confirmable
      <3> QED
        BY <1>3, <3>2, <3>3
    <2> QED
      BY <2>1, <2>2
  <1>5. CompletedSettled(s)'
    <2> SUFFICES ASSUME NEW j \in Outputs, j \in completed'[1]
                 PROVE  \E i \in Nat : Settled(s, j, i)'
      BY DEF CompletedSettled
    <2>1. completed # <<>> /\ j \in completed[1]
      BY SetUpKeeps
    <2>2. PICK i \in Nat : Settled(s, j, i)
      BY <2>1 DEF CompletedSettled
    <2> QED
      BY <1>3, <2>2
  <1> QED
    BY <1>1, <1>4, <1>5

\* Without a change of the cache nothing is unsettled
LEMMA SameCacheKeeps ==
  ASSUME NEW s \in Starts, OwnInv(s), need' = need, cache' = cache
  PROVE  /\ SettledWithout(s)' /\ \A j, i : Settled(s, j, i)' <=> Settled(s, j, i)
         /\ SetUp \/ UNCHANGED kept => CompletedSettled(s)'
  <1> USE DEF OwnInv
  <1>1. \A j, i : Settled(s, j, i)' <=> Settled(s, j, i)
    BY DEF Settled, Confirmable, Wanted
  <1>2. SettledWithout(s)'
    BY <1>1 DEF SettledWithout, Wanted
  <1>3. ASSUME SetUp PROVE CompletedSettled(s)'
    BY <1>1, <1>3, SetUpKeeps DEF CompletedSettled
  <1>4. ASSUME UNCHANGED kept PROVE CompletedSettled(s)'
    BY <1>1, <1>4 DEF CompletedSettled, kept
  <1> QED
    BY <1>1, <1>2, <1>3, <1>4

-----------------------------------------------------------------------------
(* The invariant *)

\* An outcome with another return value is not a success
LEMMA FailedFirst ==
  ASSUME NEW o, o[1] = "success"
  PROVE  /\ o # <<"missing_samples", NoResult>>
         /\ o # <<"failed", NoResult>>
         /\ o # <<"missing_primes", NoResult>>
  <1>1. ASSUME NEW r, NEW x, r # "success", o = <<r, x>> PROVE FALSE
    <2>1. o[1] = r
      BY <1>1
    <2> QED
      BY <1>1, <2>1
  <1> QED
    BY <1>1

\* What a success says
LEMMA ModSuccess ==
  ASSUME NEW j, NEW s, NEW o \in Mod(j, s), o[1] = "success"
  PROVE  cache[<<"rec", s>>] # {} /\ o[2] = Result(Source(<<"rec", s>>, j), TRUE)
  <1>1. CASE cache[<<"rec", s>>] = {} \/ Source(<<"rec", s>>, j) \in bad
    <2>1. o = <<"failed", NoResult>>
      BY <1>1 DEF Mod
    <2> QED
      BY <2>1, FailedFirst
  <1>2. CASE ~(cache[<<"rec", s>>] = {} \/ Source(<<"rec", s>>, j) \in bad)
    <2>1. \/ o = <<"success", Result(Source(<<"rec", s>>, j), TRUE)>>
          \/ o = <<"failed", NoResult>>
      BY <1>2 DEF Mod
    <2>2. o # <<"failed", NoResult>>
      BY FailedFirst
    <2>4. o = <<"success", Result(Source(<<"rec", s>>, j), TRUE)>>
      BY Zenon, <2>1, <2>2
    <2>3. o[2] = Result(Source(<<"rec", s>>, j), TRUE)
      BY Zenon, <2>4
    <2> QED
      BY <1>2, <2>3
  <1> QED
    BY <1>1, <1>2

LEMMA FullSuccess ==
  ASSUME NEW j, NEW s, NEW max, NEW o \in Full(j, s, max), o[1] = "success"
  PROVE  /\ cache[<<"rec", s>>] # {}
         /\ \E i \in 1 .. max : Confirmed(j, s, i)
         /\ o[2] = Result(Source(<<"rec", s>>, j), FALSE)
  <1> DEFINE r == <<"success", Result(Source(<<"rec", s>>, j), FALSE)>>
  <1>1. \/ /\ cache[<<"rec", s>>] # {} /\ \E i \in 1 .. max : Confirmed(j, s, i)
           /\ o = r
        \/ o \in {<<"missing_samples", NoResult>>, <<"failed", NoResult>>,
                  <<"missing_primes", NoResult>>}
    BY Zenon DEF Full
  <1>2. /\ cache[<<"rec", s>>] # {} /\ \E i \in 1 .. max : Confirmed(j, s, i)
        /\ o = r
    <2> HIDE DEF r
    <2> QED
      BY Zenon, <1>1, FailedFirst
  <1>3. o[2] = Result(Source(<<"rec", s>>, j), FALSE)
    BY Zenon, <1>2
  <1> QED
    BY Zenon, <1>2, <1>3

\* A worker's output: what succeeds is the output's own, and settles it if it
\* counts as completed
LEMMA ReconstructKeeps ==
  ASSUME NEW s \in Starts, OwnInv(s), NEW t \in Starts, OwnInv(t), call.start = t,
         NEW w, Reconstruct(w), starts' \subseteq {s}
  PROVE  OwnInv(s)'
  <1> USE DEF OwnInv
  <1> DEFINE j == Head(call.todo[w])
  <1>0. /\ call # Idle /\ call.primes \in 1 .. MaxPrimes
        /\ recf # <<>> /\ completed # <<>> /\ need' = need /\ cache' = cache
        /\ last' = last
    BY ReconstructionAssumption DEF Reconstruct, CallOK, At, Idle, data
  <1>1. PICK o \in IF IsMod(call.kind) THEN Mod(j, call.start)
                   ELSE Full(j, call.start, call.primes) :
          /\ recf' = [recf EXCEPT ![j] = IF o[1] = "success" THEN o[2] ELSE @]
          /\ completed' = IF o[1] # "success" \/ IsMod(call.kind) THEN completed
                          ELSE <<completed[1] \cup {j}>>
          /\ starts' = IF o[1] # "success" \/ IsMod(call.kind) THEN starts
                       ELSE starts \cup {call.start}
          /\ call' = [call EXCEPT !.todo[w] = Tail(@),
                        !.ret[w] = IF @ = "success" THEN o[1] ELSE @]
    BY DEF Reconstruct
  <1>2. ASSUME j \in Outputs, o[1] = "success"
        PROVE  /\ o[2].of = j
               /\ ~IsMod(call.kind) => \E i \in Nat : Settled(s, j, i)
    <2>1. CASE IsMod(call.kind)
      <3>1. cache[<<"rec", t>>] # {} /\ o[2] = Result(Source(<<"rec", t>>, j), TRUE)
        BY <1>1, <1>2, <2>1, ModSuccess
      <3> QED
        BY <1>2, <2>1, <3>1, FirstBatchWhole DEF Result
    <2>2. CASE ~IsMod(call.kind)
      <3>0. t = s
        BY <1>1, <1>2, <2>2
      <3>1. /\ cache[<<"rec", s>>] # {}
            /\ \E i \in 1 .. call.primes : Confirmed(j, s, i)
            /\ o[2] = Result(Source(<<"rec", s>>, j), FALSE)
        BY <1>1, <1>2, <2>2, <3>0, FullSuccess
      <3>2. \E i \in Nat : Settled(s, j, i)
        BY <1>0, <1>2, <3>1, ConfirmedSettles, ReconstructionAssumption
      <3> QED
        BY <1>2, <3>1, <3>2, FirstBatchWhole DEF Result
    <2> QED
      BY <2>1, <2>2
  <1>3. /\ DOMAIN recf' = Outputs /\ recf' # <<>> /\ completed' # <<>>
    <2>1. DOMAIN recf = Outputs /\ 1 \in Outputs
      BY <1>0, ReconstructionAssumption DEF Shapes, Outputs
    <2>2. DOMAIN recf' = Outputs
      BY <1>1, <2>1
    <2>3. completed' # <<>>
      BY <1>0, <1>1
    <2> QED
      BY <2>1, <2>2, <2>3
  <1>4. Shapes'
    BY <1>0, <1>3 DEF Shapes, Batches, Primes
  <1>5. CallOK'
    <2>1. /\ DOMAIN call' = DOMAIN call
          /\ call'.start = call.start /\ call'.max = call.max
          /\ call'.primes = call.primes
      BY <1>0, <1>1 DEF CallOK
    <2> QED
      BY <1>0, <1>3, <2>1 DEF CallOK
  <1>6. SettledWithout(s)'
    BY <1>0, SameCacheKeeps
  <1>7. CompletedSettled(s)'
    <2> SUFFICES ASSUME NEW k \in Outputs, k \in completed'[1]
                 PROVE  \E i \in Nat : Settled(s, k, i)'
      BY DEF CompletedSettled
    <2>1. k \in completed[1] \/ (k = j /\ o[1] = "success" /\ ~IsMod(call.kind))
      BY <1>0, <1>1
    <2>2. \E i \in Nat : Settled(s, k, i)
      BY <1>0, <1>2, <2>1 DEF CompletedSettled
    <2> QED
      BY <1>0, <2>2, SameCacheKeeps
  <1>8. ResultsOwn'
    <2>1. ASSUME NEW k \in Outputs, recf'[k].made PROVE recf'[k].of = k
      <3>1. CASE k = j /\ o[1] = "success"
        <4>1. recf'[k] = o[2]
          BY <1>0, <1>1, <3>1 DEF Shapes
        <4> QED
          BY <1>2, <3>1, <4>1
      <3>2. CASE ~(k = j /\ o[1] = "success")
        <4>1. recf'[k] = recf[k]
          BY <1>0, <1>1, <3>2 DEF Shapes
        <4> QED
          BY <1>0, <2>1, <4>1 DEF ResultsOwn
      <3> QED
        BY <3>1, <3>2
    <2> QED
      BY <1>0, <2>1 DEF ResultsOwn
  <1> QED
    BY <1>4, <1>5, <1>6, <1>7, <1>8

LEMMA RecInvInit ==
  ASSUME Init
  PROVE  RecInv
  <1> USE DEF Init, Idle, NoAnswer
  <1>1. Shapes
    BY DEF Shapes
  <1>2. CallOK /\ ResultsOwn /\ StartsOK
    BY DEF CallOK, ResultsOwn, StartsOK
  <1>3. \A s : SettledWithout(s) /\ CompletedSettled(s)
    BY DEF SettledWithout, CompletedSettled
  <1> QED
    BY <1>1, <1>2, <1>3 DEF RecInv, OwnInv

\* Steps that leave the cache and what is kept alone
LEMMA QuietStepKeeps ==
  ASSUME NEW s \in Starts, OwnInv(s), need' = need, cache' = cache, UNCHANGED kept,
         CallOK', last'.res = last.res \/ last'.res = <<>>
  PROVE  OwnInv(s)'
  <1> USE DEF OwnInv
  <1>1. Shapes'
    BY DEF Shapes, kept, Batches, Primes
  <1>2. SettledWithout(s)' /\ CompletedSettled(s)'
    BY SameCacheKeeps
  <1>3. ResultsOwn'
    BY DEF ResultsOwn, kept
  <1> QED
    BY <1>1, <1>2, <1>3

\* Steps that sample
LEMMA SampleStepKeeps ==
  ASSUME NEW s \in Starts, OwnInv(s), need' = need, SetUp,
         NEW t, NEW max, cache' = Sampled(t, max),
         CallOK', last'.res = last.res \/ last'.res = <<>>
  PROVE  OwnInv(s)'
  <1>1. /\ cache' \in [Batches -> SUBSET Outputs]
        /\ SettledWithout(s)' /\ CompletedSettled(s)'
    BY SamplingKeeps
  <1>2. Shapes'
    BY <1>1, SetUpKeeps DEF OwnInv, Shapes
  <1>3. ResultsOwn'
    BY SetUpKeeps DEF OwnInv, ResultsOwn
  <1> QED
    BY <1>1, <1>2, <1>3 DEF OwnInv

\* The collection of the return values: results are those that were kept
LEMMA CollectKeeps ==
  ASSUME NEW s \in Starts, OwnInv(s), Collect
  PROVE  OwnInv(s)'
  <1> USE DEF OwnInv
  <1>0. /\ need' = need /\ cache' = cache /\ call # Idle
        /\ call.max \in 1 .. MaxPrimes /\ call.primes \in 1 .. call.max
    BY DEF Collect, At, Idle, data, CallOK
  <1>1. CASE Collected(call.ret) = "success"
    <2>1. /\ call' = Idle /\ last'.res = recf
          /\ completed' = <<>> /\ recf' = <<>>
      BY <1>1 DEF Collect, Answer, MoveRec
    <2>2. Shapes'
      BY <1>0, <2>1 DEF Shapes
    <2>3. CallOK' /\ CompletedSettled(s)'
      BY <2>1 DEF CallOK, CompletedSettled
    <2>4. SettledWithout(s)'
      BY <1>0, SameCacheKeeps
    <2>5. ResultsOwn'
      BY <2>1 DEF ResultsOwn
    <2> QED
      BY <2>2, <2>3, <2>4, <2>5
  <1>2. CASE /\ Collected(call.ret) # "success"
             /\ IsLoop(call.kind) /\ Collected(call.ret) = "missing_primes"
             /\ call.primes < call.max
    <2>1. /\ call' = [call EXCEPT !.primes = @ + 1, !.at = "sample",
                        !.todo = <<>>, !.ret = <<>>]
          /\ UNCHANGED kept /\ last' = last
      BY <1>2 DEF Collect
    <2>2. /\ DOMAIN call' = DOMAIN call /\ call'.at = "sample"
          /\ call'.start = call.start /\ call'.max = call.max
          /\ call'.primes = call.primes + 1
      BY <1>0, <2>1 DEF CallOK
    <2>3. call.primes + 1 \in 1 .. call.max
      BY <1>0, <1>2, ReconstructionAssumption
    <2>4. CallOK'
      BY <1>0, <2>2, <2>3 DEF CallOK, At
    <2> QED
      BY <1>0, <2>1, <2>4, QuietStepKeeps
  <1>3. CASE /\ Collected(call.ret) # "success"
             /\ ~(/\ IsLoop(call.kind) /\ Collected(call.ret) = "missing_primes"
                  /\ call.primes < call.max)
    <2>1. call' = Idle /\ last'.res = <<>> /\ UNCHANGED kept
      BY <1>3 DEF Collect, Answer
    <2>2. CallOK'
      BY <2>1 DEF CallOK
    <2> QED
      BY <1>0, <2>1, <2>2, QuietStepKeeps
  <1> QED
    BY <1>1, <1>2, <1>3

\* The start of the workers allocates what is kept, at most
LEMMA StartWorkersKeeps ==
  ASSUME NEW s \in Starts, OwnInv(s), StartWorkers
  PROVE  OwnInv(s)'
  <1> USE DEF OwnInv
  <1>0. need' = need /\ cache' = cache /\ call # Idle
    BY DEF StartWorkers, At, Idle, data
  <1>1. SettledWithout(s)'
    BY <1>0, SameCacheKeeps
  <1>2. CASE degs = "none" \/ (~cacheMade /\ call.threads > 1)
    <2>1. call' = Idle /\ last'.res = <<>> /\ (SetUp \/ UNCHANGED kept)
      BY <1>2 DEF StartWorkers, Answer
    <2>2. CallOK'
      BY <2>1 DEF CallOK
    <2>3. CASE UNCHANGED kept
      BY <1>0, <2>1, <2>2, <2>3, QuietStepKeeps
    <2>4. CASE SetUp
      <3>1. Shapes'
        BY <1>0, <2>4, SetUpKeeps DEF Shapes, Batches, Primes
      <3>2. ResultsOwn'
        BY <2>1, <2>4, SetUpKeeps DEF ResultsOwn
      <3> QED
        BY <1>0, <1>1, <2>2, <2>4, <3>1, <3>2, SameCacheKeeps
    <2> QED
      BY <2>1, <2>3, <2>4
  <1>3. CASE ~(degs = "none" \/ (~cacheMade /\ call.threads > 1))
    <2>1. PICK t, r : /\ SetUp /\ last' = last
                      /\ call' = [call EXCEPT !.at = "work", !.todo = t, !.ret = r]
      BY <1>3 DEF StartWorkers
    <2>2. /\ DOMAIN call' = DOMAIN call /\ call'.start = call.start
          /\ call'.max = call.max /\ call'.primes = call.primes
      BY <1>0, <2>1 DEF CallOK
    <2>3. CallOK'
      BY <1>0, <2>1, <2>2, SetUpKeeps DEF CallOK
    <2>4. Shapes'
      BY <1>0, <2>1, SetUpKeeps DEF Shapes, Batches, Primes
    <2>5. ResultsOwn'
      BY <2>1, SetUpKeeps DEF ResultsOwn
    <2> QED
      BY <1>0, <1>1, <2>1, <2>3, <2>4, <2>5, SameCacheKeeps
  <1> QED
    BY <1>2, <1>3

-----------------------------------------------------------------------------
(* The theorems *)

\* The history names one prime if it names any, and a call in progress is from there
LEMMA OneStartNamed ==
  ASSUME StartsOK, OneStart
  PROVE  \E s \in Starts : starts \subseteq {s}
  <1>1. CASE starts = {}
    BY <1>1, ReconstructionAssumption
  <1>2. CASE starts # {}
    BY <1>2 DEF StartsOK, OneStart
  <1> QED
    BY <1>1, <1>2

LEMMA StartOfCall ==
  ASSUME RecInv, OneStart, call # Idle
  PROVE  call.start \in Starts /\ starts \subseteq {call.start} /\ OwnInv(call.start)
  <1>1. call.start \in Starts /\ (starts = {} \/ call.start \in starts)
    BY DEF RecInv, StartsOK
  <1>2. starts \subseteq {call.start}
    BY <1>1 DEF OneStart
  <1> QED
    BY <1>1, <1>2 DEF RecInv

\* The history is kept by every step
LEMMA StartsNext ==
  ASSUME StartsOK, [Next]_vars
  PROVE  StartsOK' /\ (Reset \/ starts \subseteq starts')
  <1>1. ASSUME call' = Idle, need' = need, starts' = starts
        PROVE  StartsOK' /\ (Reset \/ starts \subseteq starts')
    BY <1>1 DEF StartsOK
  <1>2. ASSUME call # Idle, DOMAIN call' = DOMAIN call, call'.start = call.start,
               need' = need, starts' = starts \/ starts' = starts \cup {call.start}
        PROVE  StartsOK' /\ (Reset \/ starts \subseteq starts')
    BY <1>2 DEF StartsOK
  <1>3. ASSUME NEW ok \in BOOLEAN, AllDegrees(ok)
        PROVE  StartsOK' /\ (Reset \/ starts \subseteq starts')
    BY <1>1, <1>3 DEF AllDegrees, Answer
  <1>4. ASSUME NEW s \in Starts, NEW max \in 1 .. MaxPrimes, Sample(s, max)
        PROVE  StartsOK' /\ (Reset \/ starts \subseteq starts')
    BY <1>1, <1>4 DEF Sample, Answer
  <1>5. ASSUME Reset PROVE StartsOK' /\ (Reset \/ starts \subseteq starts')
    BY <1>5 DEF Reset, Answer, StartsOK
  <1>6. ASSUME NEW kind \in Kinds, NEW s \in Starts, NEW max \in 1 .. MaxPrimes,
               NEW n \in 1 .. MaxThreads, Begin(kind, s, max, n)
        PROVE  StartsOK' /\ (Reset \/ starts \subseteq starts')
    <2>1. /\ need' = need /\ starts' = IF starts = {} THEN {} ELSE starts \cup {s}
          /\ "start" \in DOMAIN call' /\ call'.start = s
      BY <1>6 DEF Begin
    <2> QED
      BY <2>1 DEF StartsOK
  <1>7. ASSUME NEW ok \in BOOLEAN, GetDegrees(ok)
        PROVE  StartsOK' /\ (Reset \/ starts \subseteq starts')
    <2>1. need' = need /\ starts' = starts /\ call # Idle
      BY <1>7 DEF GetDegrees, At, Idle
    <2>2. CASE ok
      BY <1>2, <1>7, <2>1, <2>2 DEF GetDegrees, StartsOK
    <2>3. CASE ~ok
      BY <1>1, <1>7, <2>1, <2>3 DEF GetDegrees, Answer
    <2> QED
      BY <2>2, <2>3
  <1>8. ASSUME SampleMore PROVE StartsOK' /\ (Reset \/ starts \subseteq starts')
    <2>1. /\ need' = need /\ starts' = starts /\ call # Idle
          /\ call' = [call EXCEPT !.at = "set_up"]
      BY <1>8 DEF SampleMore, At, Idle
    <2>2. DOMAIN call' = DOMAIN call /\ call'.start = call.start
      BY <2>1 DEF StartsOK
    <2> QED
      BY <1>2, <2>1, <2>2
  <1>9. ASSUME StartWorkers PROVE StartsOK' /\ (Reset \/ starts \subseteq starts')
    <2>1. need' = need /\ starts' = starts /\ call # Idle
      BY <1>9 DEF StartWorkers, At, Idle
    <2>2. CASE degs = "none" \/ (~cacheMade /\ call.threads > 1)
      BY <1>1, <1>9, <2>1, <2>2 DEF StartWorkers, Answer
    <2>3. CASE ~(degs = "none" \/ (~cacheMade /\ call.threads > 1))
      <3>1. PICK t, r : call' = [call EXCEPT !.at = "work", !.todo = t, !.ret = r]
        BY <1>9, <2>3 DEF StartWorkers
      <3>2. DOMAIN call' = DOMAIN call /\ call'.start = call.start
        BY <2>1, <3>1 DEF StartsOK
      <3> QED
        BY <1>2, <2>1, <3>2
    <2> QED
      BY <2>2, <2>3
  <1>10. ASSUME NEW w, Reconstruct(w) PROVE StartsOK' /\ (Reset \/ starts \subseteq starts')
    <2>1. PICK o : call' = [call EXCEPT !.todo[w] = Tail(@),
                              !.ret[w] = IF @ = "success" THEN o[1] ELSE @]
      BY <1>10 DEF Reconstruct
    <2>2. /\ need' = need /\ call # Idle
          /\ starts' = starts \/ starts' = starts \cup {call.start}
      BY <1>10 DEF Reconstruct, At, Idle
    <2>3. DOMAIN call' = DOMAIN call /\ call'.start = call.start
      BY <2>1, <2>2 DEF StartsOK
    <2> QED
      BY <1>2, <2>2, <2>3
  <1>11. ASSUME Collect PROVE StartsOK' /\ (Reset \/ starts \subseteq starts')
    <2>1. need' = need /\ starts' = starts /\ call # Idle
      BY <1>11 DEF Collect, At, Idle
    <2>2. \/ call' = Idle
          \/ call' = [call EXCEPT !.primes = @ + 1, !.at = "sample", !.todo = <<>>, !.ret = <<>>]
      BY <1>11 DEF Collect, Answer
    <2>3. call' # Idle => DOMAIN call' = DOMAIN call /\ call'.start = call.start
      BY <2>1, <2>2 DEF StartsOK
    <2> QED
      BY <1>1, <1>2, <2>1, <2>3
  <1>12. CASE UNCHANGED vars
    BY <1>12 DEF vars, StartsOK
  <1> QED
    BY <1>3, <1>4, <1>5, <1>6, <1>7, <1>8, <1>9, <1>10, <1>11, <1>12 DEF Next, Step

\* Every step keeps what the outputs are settled from, if it is still said to be
\* the prime of the calls
LEMMA OwnInvNext ==
  ASSUME RecInv, [Next]_vars, NEW s \in Starts, starts' \subseteq {s}
  PROVE  OwnInv(s)'
  <1>0. MaxPrimes \in Nat \ {0}
    BY ReconstructionAssumption
  <1>1. ASSUME Reset PROVE OwnInv(s)'
    <2>1. /\ need' = need /\ cache' = [b \in Batches |-> {}]
          /\ completed' = <<>> /\ recf' = <<>>
          /\ call' = Idle /\ last'.res = <<>>
      BY <1>1 DEF Reset, Answer
    <2>2. Shapes'
      BY <2>1 DEF RecInv, StartsOK, Shapes, Batches, Primes
    <2>3. CallOK' /\ CompletedSettled(s)' /\ ResultsOwn'
      BY <2>1 DEF CallOK, CompletedSettled, ResultsOwn
    <2>4. SettledWithout(s)'
      BY <2>1 DEF SettledWithout, Batches, Primes
    <2> QED
      BY <2>2, <2>3, <2>4 DEF OwnInv
  <1>2. SUFFICES ASSUME ~Reset PROVE OwnInv(s)'
    BY <1>1
  <1>3. starts \subseteq {s} /\ OwnInv(s)
    BY <1>2, StartsNext DEF RecInv
  <1>4. ASSUME NEW ok \in BOOLEAN, AllDegrees(ok) PROVE OwnInv(s)'
    <2>1. /\ need' = need /\ cache' = cache /\ UNCHANGED kept
          /\ call' = Idle /\ last'.res = <<>>
      BY <1>4 DEF AllDegrees, Answer
    <2>2. CallOK'
      BY <2>1 DEF CallOK
    <2> QED
      BY <1>3, <2>1, <2>2, QuietStepKeeps
  <1>5. ASSUME NEW t \in Starts, NEW max \in 1 .. MaxPrimes, Sample(t, max)
        PROVE  OwnInv(s)'
    <2>1. call' = Idle /\ last'.res = <<>> /\ need' = need
      BY <1>5 DEF Sample, Answer
    <2>2. CallOK'
      BY <2>1 DEF CallOK
    <2>3. CASE degs = "none"
      BY <1>3, <1>5, <2>1, <2>2, <2>3, QuietStepKeeps DEF Sample, data
    <2>4. CASE degs # "none"
      BY <1>3, <1>5, <2>1, <2>2, <2>4, SampleStepKeeps DEF Sample
    <2> QED
      BY <2>3, <2>4
  <1>6. ASSUME NEW kind \in Kinds, NEW t \in Starts, NEW max \in 1 .. MaxPrimes,
               NEW n \in 1 .. MaxThreads, Begin(kind, t, max, n)
        PROVE  OwnInv(s)'
    <2>1. /\ need' = need /\ cache' = cache /\ UNCHANGED kept /\ last' = last
          /\ call' = [kind |-> kind, start |-> t,
                      max |-> IF kind = "mod" THEN 1 ELSE max,
                      primes |-> IF IsLoop(kind) THEN 1 ELSE max, threads |-> n,
                      at |-> IF IsLoop(kind) THEN "degrees" ELSE "set_up",
                      todo |-> <<>>, ret |-> <<>>]
      BY <1>6 DEF Begin, data
    <2>2. call'.max \in 1 .. MaxPrimes /\ call'.primes \in 1 .. call'.max
      BY <1>0, <2>1 DEF IsLoop
    <2>3. ~At("work")'
      BY <2>1 DEF At
    <2>4. CallOK'
      BY <2>1, <2>2, <2>3 DEF CallOK
    <2> QED
      BY <1>3, <2>1, <2>4, QuietStepKeeps
  <1>7. ASSUME NEW ok \in BOOLEAN, GetDegrees(ok) PROVE OwnInv(s)'
    <2>1. /\ need' = need /\ cache' = cache /\ UNCHANGED kept /\ call # Idle
      BY <1>7 DEF GetDegrees, At, Idle
    <2>2. CASE ok
      <3>1. call' = [call EXCEPT !.at = "sample"] /\ last' = last
        BY <1>7, <2>2 DEF GetDegrees
      <3>2. /\ DOMAIN call' = DOMAIN call /\ call'.at = "sample"
            /\ call'.start = call.start /\ call'.max = call.max
            /\ call'.primes = call.primes
        BY <1>3, <2>1, <3>1 DEF OwnInv, CallOK
      <3>3. CallOK'
        BY <1>3, <2>1, <3>2 DEF OwnInv, CallOK, At
      <3> QED
        BY <1>3, <2>1, <3>1, <3>3, QuietStepKeeps
    <2>3. CASE ~ok
      <3>1. call' = Idle /\ last'.res = <<>>
        BY <1>7, <2>3 DEF GetDegrees, Answer
      <3>2. CallOK'
        BY <3>1 DEF CallOK
      <3> QED
        BY <1>3, <2>1, <3>1, <3>2, QuietStepKeeps
    <2> QED
      BY <2>2, <2>3
  <1>8. ASSUME SampleMore PROVE OwnInv(s)'
    <2>1. /\ need' = need /\ call # Idle /\ last' = last /\ SetUp
          /\ call' = [call EXCEPT !.at = "set_up"]
          /\ cache' = Sampled(call.start, call.primes)
      BY <1>8 DEF SampleMore, At, Idle
    <2>2. /\ DOMAIN call' = DOMAIN call /\ call'.at = "set_up"
          /\ call'.start = call.start /\ call'.max = call.max
          /\ call'.primes = call.primes
      BY <1>3, <2>1 DEF OwnInv, CallOK
    <2>3. CallOK'
      BY <1>3, <2>1, <2>2 DEF OwnInv, CallOK, At
    <2> QED
      BY <1>3, <2>1, <2>3, SampleStepKeeps
  <1>9. ASSUME NEW w, Reconstruct(w) PROVE OwnInv(s)'
    <2>1. call # Idle /\ OneStart
      BY <1>3, <1>9 DEF Reconstruct, At, Idle, OneStart
    <2>2. call.start \in Starts /\ OwnInv(call.start)
      BY <2>1, StartOfCall
    <2> QED
      BY <1>3, <1>9, <2>2, ReconstructKeeps
  <1>10. ASSUME StartWorkers PROVE OwnInv(s)'
    BY <1>3, <1>10, StartWorkersKeeps
  <1>11. ASSUME Collect PROVE OwnInv(s)'
    BY <1>3, <1>11, CollectKeeps
  <1>12. CASE UNCHANGED vars
    <2>1. /\ need' = need /\ cache' = cache /\ UNCHANGED kept /\ last' = last
          /\ call' = call
      BY <1>12 DEF vars, data
    <2>2. CallOK'
      BY <1>3, <2>1 DEF OwnInv, CallOK, At, kept
    <2> QED
      BY <1>3, <2>1, <2>2, QuietStepKeeps
  <1> QED
    BY <1>2, <1>4, <1>5, <1>6, <1>7, <1>8, <1>9, <1>10, <1>11, <1>12 DEF Next, Step

LEMMA RecInvNext == RecInv /\ [Next]_vars => RecInv'
  <1> SUFFICES ASSUME RecInv, [Next]_vars PROVE RecInv'
    OBVIOUS
  <1>1. StartsOK'
    BY StartsNext DEF RecInv
  <1>2. \A s \in Starts : starts' \subseteq {s} => OwnInv(s)'
    BY OwnInvNext
  <1> QED
    BY <1>1, <1>2 DEF RecInv

\* An entry that lacks an output lies behind those that settle the output
LEMMA RecInvReads ==
  ASSUME RecInv
  PROVE  ReadsOwnValues
  <1> SUFFICES ASSUME At("work"), OneStart, NEW j \in Outputs, NEW i \in 1 .. call.primes,
                      NEW b \in Wanted(call.start, i),
                      cache[b] # {}, j \notin cache[b]
               PROVE  \E k \in 1 .. call.primes :
                        /\ b \notin Wanted(call.start, k)
                        /\ Confirmable(j, call.start, k)
    BY DEF ReadsOwnValues
  <1>0. PICK s : s = call.start
    OBVIOUS
  <1>0a. call # Idle
    BY DEF At, Idle
  <1>0b. s \in Starts /\ OwnInv(s)
    BY <1>0, <1>0a, StartOfCall
  <1>1. call.start = s /\ call.primes \in 1 .. MaxPrimes
    BY <1>0, <1>0a, <1>0b, ReconstructionAssumption DEF OwnInv, CallOK
  <1>2. i \in 1 .. MaxPrimes /\ b \in Wanted(s, i)
    BY <1>1, ReconstructionAssumption
  <1>3. b \in Batches
    BY <1>0b, <1>2, WantedBatches
  <1>4. PICK k \in Nat : Settled(s, j, k) /\ b \notin Wanted(s, k)
    BY <1>0b, <1>3 DEF OwnInv, SettledWithout
  <1>5. ~(i <= k)
    <2>1. i \in Nat
      BY <1>2, ReconstructionAssumption
    <2> QED
      BY <1>0b, <1>2, <1>4, <2>1, WantedBatches
  <1>6. k \in 1 .. call.primes
    BY <1>1, <1>4, <1>5, ReconstructionAssumption DEF Settled
  <1> QED
    BY <1>1, <1>4, <1>6 DEF Settled

\* What is kept and handed out for an output is the function of that output: the
\* points that an output skips because it is completed are never read for it
\* (src/graph.cc 1561-1674).  Calls may start from any primes until one completes
\* an output, and sampling may go on from any; OneStart is what the property asks of
\* the calls that reconstruct after that.
THEOREM ResultsAreOwn == Spec => []OwnValues
  <1>1. RecInv => OwnValues
    <2> SUFFICES ASSUME RecInv, OneStart PROVE ResultsOwn
      BY DEF OwnValues, ResultsOwn
    <2>1. PICK s \in Starts : starts \subseteq {s}
      BY OneStartNamed DEF RecInv
    <2> QED
      BY <2>1 DEF RecInv, OwnInv
  <1> QED
    BY <1>1, RecInvInit, RecInvNext, PTL DEF Spec

\* And every worker that meets an entry without its output has enough points
\* before that entry (src/alg_reconstruction.cc, SparselySampledRatFun), with the
\* same condition on the calls after an output was completed.
THEOREM ReadsAreOwn == Spec => []ReadsOwnValues
  <1>1. RecInv => ReadsOwnValues
    BY RecInvReads
  <1> QED
    BY <1>1, RecInvInit, RecInvNext, PTL DEF Spec

-----------------------------------------------------------------------------
(* The lists of the workers *)

LEMMA LeastOfNaturals ==
  ASSUME NEW T \in SUBSET Nat, T # {}
  PROVE  \E x \in T : \A y \in T : x <= y
  <1>1. PICK x \in T : \A y \in T : ~ (<<y, x>> \in OpToRel(<, Nat))
    BY Zenon, NatLessThanWellFounded, WFMin
  <1>2. ASSUME NEW y \in T PROVE x <= y
    <2>1. <<y, x>> \in Nat \X Nat
      OBVIOUS
    <2>2. ~(y < x)
      BY <1>1, <2>1 DEF OpToRel
    <2> QED
      BY <2>2
  <1> QED
    BY <1>2

LEMMA IntervalSubset ==
  ASSUME NEW m \in Nat, NEW S \in SUBSET (1 .. m)
  PROVE  IsFiniteSet(S) /\ Cardinality(S) \in Nat
  <1>1. IsFiniteSet(1 .. m)
    BY FS_Interval
  <1>2. IsFiniteSet(S)
    BY <1>1, FS_Subset
  <1> QED
    BY <1>2, FS_CardinalityType

Lists(s, S) ==
  /\ s \in [1 .. Cardinality(S) -> S]
  /\ \A a, b \in 1 .. Cardinality(S) : a < b => s[a] < s[b]

\* One number more, the greatest, makes the list longer by one
LEMMA OneMoreListed ==
  ASSUME NEW b \in Nat, NEW S \in SUBSET (1 .. b), NEW s, Lists(s, S)
  PROVE  \E t : Lists(t, S \cup {b + 1})
  <1>1. IsFiniteSet(S) /\ Cardinality(S) \in Nat
    BY IntervalSubset
  <1>2. PICK n \in Nat : n = Cardinality(S)
    BY <1>1
  <1>3. b + 1 \notin S
    OBVIOUS
  <1>4. Cardinality(S \cup {b + 1}) = n + 1
    BY <1>1, <1>2, <1>3, FS_AddElement
  <1>5. s \in [1 .. n -> S] /\ \A x, y \in 1 .. n : x < y => s[x] < s[y]
    BY <1>2 DEF Lists
  <1>6. PICK t : t = [k \in 1 .. n + 1 |-> IF k = n + 1 THEN b + 1 ELSE s[k]]
    OBVIOUS
  <1>7. t \in [1 .. n + 1 -> S \cup {b + 1}]
    BY <1>5, <1>6
  <1>8. ASSUME NEW x \in 1 .. n + 1, NEW y \in 1 .. n + 1, x < y
        PROVE  t[x] < t[y]
    <2>1. x \in 1 .. n /\ t[x] = s[x]
      BY <1>6, <1>8
    <2>2. CASE y = n + 1
      <3>1. t[y] = b + 1
        BY <1>6, <2>2
      <3>2. s[x] \in 1 .. b
        BY <1>5, <2>1
      <3> QED
        BY <2>1, <3>1, <3>2
    <2>3. CASE y # n + 1
      <3>1. y \in 1 .. n /\ t[y] = s[y]
        BY <1>6, <2>3
      <3> QED
        BY <1>5, <1>8, <2>1, <3>1
    <2> QED
      BY <2>2, <2>3
  <1> QED
    BY <1>4, <1>7, <1>8 DEF Lists

\* Every set of outputs can be listed in ascending order
LEMMA ListExists ==
  ASSUME NEW m \in Nat
  PROVE  \A S \in SUBSET (1 .. m) : \E s : Lists(s, S)
  <1> DEFINE T == {b \in Nat : \E S \in SUBSET (1 .. b) : \A s : ~Lists(s, S)}
  <1>1. SUFFICES ASSUME T # {} PROVE FALSE
    OBVIOUS
  <1>2. PICK b \in T : \A y \in T : b <= y
    BY <1>1, LeastOfNaturals
  <1>3. b \in Nat
    OBVIOUS
  <1>4. PICK S \in SUBSET (1 .. b) : \A s : ~Lists(s, S)
    OBVIOUS
  <1>5. CASE S = {}
    <2>1. Cardinality(S) = 0
      BY <1>5, FS_EmptySet
    <2>2. [k \in 1 .. 0 |-> 0] \in [1 .. Cardinality(S) -> S]
      BY <2>1
    <2>3. Lists([k \in 1 .. 0 |-> 0], S)
      BY <2>1, <2>2 DEF Lists
    <2> QED
      BY <1>4, <2>3
  <1>6. CASE S # {}
    <2>1. b # 0
      <3>1. PICK e \in S : e \in 1 .. b
        BY <1>6
      <3> QED
        BY <1>3, <3>1
    <2>2. PICK c \in Nat : b = c + 1
      <3>1. b - 1 \in Nat /\ b = (b - 1) + 1
        BY <1>3, <2>1
      <3> QED
        BY <3>1
    <2>3. c \notin T
      BY <1>2, <2>2
    <2>4. \A U \in SUBSET (1 .. c) : \E s : Lists(s, U)
      BY <2>3
    <2>5. CASE S \subseteq 1 .. c
      BY <1>4, <2>4, <2>5
    <2>6. CASE ~(S \subseteq 1 .. c)
      <3>0. \A e \in S : e \in 1 .. c \/ e = b
        <4> SUFFICES ASSUME NEW e \in S PROVE e \in 1 .. c \/ e = b
          OBVIOUS
        <4>1. e \in 1 .. b
          OBVIOUS
        <4> QED
          BY <2>2, <4>1
      <3>1. PICK U \in SUBSET (1 .. c) : U = S \ {b}
        BY Zenon, <3>0
      <3>2. S = U \cup {c + 1}
        BY <2>2, <2>6, <3>0, <3>1
      <3>3. PICK s : Lists(s, U)
        BY <2>4
      <3>4. \E t : Lists(t, U \cup {c + 1})
        BY <3>3, OneMoreListed
      <3> QED
        BY <1>4, <3>2, <3>4
    <2> QED
      BY <2>5, <2>6
  <1> QED
    BY <1>5, <1>6

\* The list of a set of outputs: each of them, once
LEMMA AscendingList ==
  ASSUME NEW S \in SUBSET Outputs
  PROVE  \E n \in Nat :
           /\ Ascending(S) \in [1 .. n -> S] /\ Len(Ascending(S)) = n
           /\ \A a, b \in 1 .. n : Ascending(S)[a] = Ascending(S)[b] => a = b
           /\ \A j \in S : \E a \in 1 .. n : Ascending(S)[a] = j
           /\ S = {} => n = 0
  <1>1. NOutputs \in Nat
    BY ReconstructionAssumption
  <1>2. PICK t : Lists(t, S)
    BY <1>1, ListExists DEF Outputs
  <1>3. Lists(Ascending(S), S)
    <2>1. t \in [1 .. Cardinality(S) -> S]
          /\ \A a, b \in 1 .. Cardinality(S) : a < b => t[a] < t[b]
      BY <1>2 DEF Lists
    <2>2. /\ Ascending(S) \in [1 .. Cardinality(S) -> S]
          /\ \A a, b \in 1 .. Cardinality(S) :
               a < b => Ascending(S)[a] < Ascending(S)[b]
      BY <2>1, Zenon DEF Ascending
    <2> QED
      BY <2>2 DEF Lists
  <1>4. PICK s : s = Ascending(S)
    OBVIOUS
  <1>5. IsFiniteSet(S) /\ Cardinality(S) \in Nat
    BY <1>1, IntervalSubset DEF Outputs
  <1>6. PICK n \in Nat : n = Cardinality(S)
    BY <1>5
  <1>7. /\ s \in [1 .. n -> S]
        /\ \A a, b \in 1 .. n : a < b => s[a] < s[b]
    BY <1>3, <1>4, <1>6 DEF Lists
  <1>8. ASSUME NEW a \in 1 .. n, NEW b \in 1 .. n, s[a] = s[b] PROVE a = b
    <2>1. s[a] \in Outputs /\ s[b] \in Outputs
      BY <1>7
    <2>2. s[a] \in Int /\ s[b] \in Int
      BY <1>1, <2>1 DEF Outputs
    <2>3. ~(a < b) /\ ~(b < a)
      BY <1>7, <1>8, <2>2
    <2> QED
      BY <2>3
  <1>9. s \in Injection(1 .. n, S)
    BY <1>7, <1>8 DEF Injection, IsInjective
  <1>10. Cardinality(1 .. n) = n
    BY FS_Interval
  <1>11. s \in Surjection(1 .. n, S)
    BY <1>5, <1>6, <1>9, <1>10, FS_Injection
  <1>12. \A j \in S : \E a \in 1 .. n : s[a] = j
    BY <1>11 DEF Surjection
  <1>13. Len(s) = n
    BY <1>7
  <1>14. S = {} => n = 0
    BY <1>6, FS_EmptySet
  <1> QED
    BY <1>4, <1>7, <1>8, <1>12, <1>13, <1>14

LEMMA MultiplesGrow ==
  ASSUME NEW k \in Int, NEW l \in Int, NEW n \in Nat, k <= l
  PROVE  k * n <= l * n
  OBVIOUS

LEMMA Division ==
  ASSUME NEW a \in Nat, NEW n \in Nat \ {0}
  PROVE  /\ a \div n \in Nat
         /\ \E r \in 0 .. n - 1 : a = (a \div n) * n + r
  <1>1. a \in Int /\ n \in Int /\ n > 0
    OBVIOUS
  <1>2. PICK q \in Int, r \in 0 .. n - 1 : q = a \div n /\ a = n * q + r
    BY <1>1, SMTT(30)
  <1>3. a = q * n + r
    BY <1>2
  <1>4. q >= 0
    <2>1. SUFFICES ASSUME q <= -1 PROVE FALSE
      BY <1>2
    <2>2. q * n <= (-1) * n
      BY <2>1, MultiplesGrow
    <2> QED
      BY <1>2, <1>3, <2>2
  <1> QED
    BY <1>2, <1>3, <1>4

\* The numbers up to m, by their remainder
LEMMA EveryNth ==
  ASSUME NEW m \in Nat, NEW n \in 1 .. m, NEW w \in 1 .. n,
         NEW q, q = (m + n - w) \div n
  PROVE  /\ q \in Nat
         /\ \A k \in Nat \ {0} : k <= q <=> w + (k - 1) * n <= m
         /\ \A k \in Nat \ {0} : w + (k - 1) * n \in Nat \ {0}
  <1>1. m + n - w \in Nat /\ n \in Nat \ {0} /\ w \in Nat
    OBVIOUS
  <1>2. PICK a \in Nat : a = m + n - w
    BY <1>1
  <1>3. q \in Nat /\ \E r \in 0 .. n - 1 : a = q * n + r
    BY <1>1, <1>2, Division
  <1>4. PICK r \in 0 .. n - 1 : m + n - w = q * n + r
    BY <1>2, <1>3
  <1>5. ASSUME NEW k \in Nat \ {0}
        PROVE  k <= q <=> w + (k - 1) * n <= m
    <2>1. PICK kn \in Int : kn = k * n
      BY <1>1
    <2>2. (k - 1) * n = kn - n
      BY <1>1, <2>1
    <2>3. PICK qn \in Int : qn = q * n
      BY <1>1, <1>3
    <2>4. m + n - w = qn + r
      BY <1>4, <2>3
    <2>5. k <= q => kn <= qn
      BY <1>1, <1>3, <2>1, <2>3, MultiplesGrow
    <2>6. ~(k <= q) => qn <= kn - n
      <3>1. SUFFICES ASSUME q <= k - 1 PROVE qn <= kn - n
        BY <1>3
      <3>2. q * n <= (k - 1) * n
        BY <1>1, <1>3, <3>1, MultiplesGrow
      <3> QED
        BY <2>2, <2>3, <3>2
    <2>7. w + (k - 1) * n = w + kn - n
      BY <2>2, <1>1, <2>1
    <2>8. k <= q => w + kn - n <= m
      BY <1>1, <1>4, <2>1, <2>3, <2>4, <2>5
    <2>9. ~(k <= q) => ~(w + kn - n <= m)
      BY <1>1, <1>4, <2>1, <2>3, <2>4, <2>6
    <2> QED
      BY <2>7, <2>8, <2>9
  <1>6. ASSUME NEW k \in Nat \ {0} PROVE w + (k - 1) * n \in Nat \ {0}
    <2>1. (k - 1) * n \in Nat
      <3>1. k - 1 \in Nat /\ n \in Nat
        BY <1>1
      <3> QED
        BY <3>1
    <2> QED
      BY <1>1, <2>1
  <1> QED
    BY <1>3, <1>5, <1>6

LEMMA OneRemainder ==
  ASSUME NEW n \in Nat \ {0}, NEW w \in 1 .. n, NEW v \in 1 .. n,
         NEW k \in Nat, NEW l \in Nat,
         w + (k - 1) * n = v + (l - 1) * n
  PROVE  w = v /\ k = l
  <1>1. PICK kn \in Int, ln \in Int : kn = k * n /\ ln = l * n
    OBVIOUS
  <1>2. (k - 1) * n = kn - n /\ (l - 1) * n = ln - n
    BY <1>1
  <1>3. w + kn = v + ln
    BY <1>1, <1>2
  <1>4. ~(k < l)
    <2>1. SUFFICES ASSUME k <= l - 1 PROVE FALSE
      OBVIOUS
    <2>2. k * n <= (l - 1) * n
      BY <2>1, MultiplesGrow
    <2> QED
      BY <1>1, <1>2, <1>3, <2>2
  <1>5. ~(l < k)
    <2>1. SUFFICES ASSUME l <= k - 1 PROVE FALSE
      OBVIOUS
    <2>2. l * n <= (k - 1) * n
      BY <2>1, MultiplesGrow
    <2> QED
      BY <1>1, <1>2, <1>3, <2>2
  <1>6. k = l
    BY <1>4, <1>5
  <1> QED
    BY <1>1, <1>3, <1>6

Entries(s) == {s[a] : a \in 1 .. Len(s)}
Once(s) == \A a, b \in 1 .. Len(s) : s[a] = s[b] => a = b

\* The workers' shares are disjoint and have everything, once
LEMMA SharesPartition ==
  ASSUME NEW S, NEW m \in Nat, NEW s \in [1 .. m -> S], Len(s) = m, Once(s),
         NEW n \in 1 .. m
  PROVE  /\ \A w \in 1 .. n : Share(s, w, n) \in Seq(S) /\ Once(Share(s, w, n))
         /\ \A w, v \in 1 .. n :
              w # v => Entries(Share(s, w, n)) \cap Entries(Share(s, v, n)) = {}
         /\ \A p \in 1 .. m : \E w \in 1 .. n : s[p] \in Entries(Share(s, w, n))
  <1>0. n \in Nat \ {0}
    OBVIOUS
  <1>1. ASSUME NEW w \in 1 .. n
        PROVE  \E q \in Nat :
                 /\ Share(s, w, n) \in Seq(S) /\ Len(Share(s, w, n)) = q
                 /\ \A k \in 1 .. q : /\ w + (k - 1) * n \in 1 .. m
                                      /\ Share(s, w, n)[k] = s[w + (k - 1) * n]
                 /\ \A k \in Nat \ {0} : w + (k - 1) * n <= m => k \in 1 .. q
    <2>1. PICK q : q = (m + n - w) \div n
      OBVIOUS
    <2>2. q \in Nat
      BY <2>1, EveryNth
    <2>3. \A k \in Nat \ {0} : k <= q <=> w + (k - 1) * n <= m
      BY <2>1, EveryNth
    <2>4. \A k \in Nat \ {0} : w + (k - 1) * n \in Nat \ {0}
      BY <2>1, EveryNth
    <2>5. \A k \in 1 .. q : w + (k - 1) * n \in 1 .. m
      <3> SUFFICES ASSUME NEW k \in 1 .. q PROVE w + (k - 1) * n \in 1 .. m
        OBVIOUS
      <3>1. k \in Nat \ {0} /\ k <= q
        BY <2>2
      <3>2. PICK x \in Nat \ {0} : x = w + (k - 1) * n
        BY <2>4, <3>1
      <3>3. x <= m
        BY <2>3, <3>1, <3>2
      <3> QED
        BY <3>2, <3>3
    <2>6. Share(s, w, n) = [k \in 1 .. q |-> s[w + (k - 1) * n]]
      BY <2>1 DEF Share
    <2>7. Share(s, w, n) \in [1 .. q -> S]
      BY <2>5, <2>6
    <2>8. Share(s, w, n) \in Seq(S) /\ Len(Share(s, w, n)) = q
      BY <2>2, <2>7
    <2>9. \A k \in 1 .. q : Share(s, w, n)[k] = s[w + (k - 1) * n]
      BY <2>6
    <2>10. \A k \in Nat \ {0} : w + (k - 1) * n <= m => k \in 1 .. q
      BY <2>2, <2>3
    <2> QED
      BY <2>2, <2>5, <2>8, <2>9, <2>10
  <1>2. ASSUME NEW w \in 1 .. n, NEW v \in 1 .. n,
               NEW a \in 1 .. Len(Share(s, w, n)), NEW b \in 1 .. Len(Share(s, v, n)),
               Share(s, w, n)[a] = Share(s, v, n)[b]
        PROVE  w = v /\ a = b
    <2>1. /\ w + (a - 1) * n \in 1 .. m
          /\ Share(s, w, n)[a] = s[w + (a - 1) * n]
      BY <1>1
    <2>2. /\ v + (b - 1) * n \in 1 .. m
          /\ Share(s, v, n)[b] = s[v + (b - 1) * n]
      BY <1>1
    <2>3. w + (a - 1) * n = v + (b - 1) * n
      BY <1>2, <2>1, <2>2 DEF Once
    <2>4. a \in Nat /\ b \in Nat
      BY <1>1
    <2> QED
      BY <1>0, <2>3, <2>4, OneRemainder
  <1>3. ASSUME NEW p \in 1 .. m
        PROVE  \E w \in 1 .. n : s[p] \in Entries(Share(s, w, n))
    <2>1. p - 1 \in Nat
      OBVIOUS
    <2>2. PICK k \in Nat, r \in 0 .. n - 1 : p - 1 = k * n + r
      BY <1>0, <2>1, Division
    <2>3. PICK w \in 1 .. n : w = r + 1
      OBVIOUS
    <2>4. PICK l \in Nat \ {0} : l = k + 1
      OBVIOUS
    <2>5. w + (l - 1) * n = p
      <3>1. (l - 1) * n = k * n
        BY <2>4
      <3>2. PICK kn \in Int : kn = k * n
        OBVIOUS
      <3> QED
        BY <2>2, <2>3, <3>1, <3>2
    <2>6. PICK q \in Nat :
            /\ Len(Share(s, w, n)) = q
            /\ \A i \in 1 .. q : Share(s, w, n)[i] = s[w + (i - 1) * n]
            /\ \A i \in Nat \ {0} : w + (i - 1) * n <= m => i \in 1 .. q
      BY <1>1
    <2>7. l \in 1 .. q
      BY <2>5, <2>6
    <2>8. Share(s, w, n)[l] = s[p]
      BY <2>5, <2>6, <2>7
    <2> QED
      BY <2>6, <2>7, <2>8 DEF Entries
  <1>4. \A w \in 1 .. n : Share(s, w, n) \in Seq(S) /\ Once(Share(s, w, n))
    BY <1>1, <1>2 DEF Once
  <1>5. \A w, v \in 1 .. n :
          w # v => Entries(Share(s, w, n)) \cap Entries(Share(s, v, n)) = {}
    BY <1>2 DEF Entries
  <1> QED
    BY <1>3, <1>4, <1>5

-----------------------------------------------------------------------------
(* What is kept, from any starting primes.  An output that is completed is in *)
(* no worker's share, and every output is in at most one: so no worker        *)
(* overwrites what another has completed, and when all have returned success *)
(* no output is missing.                                                     *)

CallShape ==
  call # Idle =>
    /\ DOMAIN call = {"kind", "start", "max", "primes", "threads", "at",
                      "todo", "ret"}
    /\ call.kind \in Kinds /\ call.threads \in Nat \ {0}

KeptOK ==
  /\ CompletedIsKept
  /\ completed # <<>> => completed[1] \subseteq Outputs /\ DOMAIN recf = Outputs

\* A worker's list has outputs that are not completed, once each
ListOK(s) ==
  s \in Seq(Outputs) /\ Once(s) /\ Entries(s) \cap completed[1] = {}

SharesOK ==
  /\ \A w \in DOMAIN call.todo : ListOK(call.todo[w])
  /\ \A w, v \in DOMAIN call.todo :
       w # v => Entries(call.todo[w]) \cap Entries(call.todo[v]) = {}
  /\ \A j \in Outputs :
       \/ recf[j].made
       \/ \E w \in DOMAIN call.todo :
            call.ret[w] # "success" \/ j \in Entries(call.todo[w])

Workers(n) == DOMAIN call.todo = 1 .. n /\ DOMAIN call.ret = 1 .. n

WorkOK ==
  At("work") => completed # <<>> /\ SharesOK /\ \E n \in Nat : Workers(n)

KeptInv == CallShape /\ KeptOK /\ WorkOK /\ NothingMissing

\* What a step may not do to the completed outputs
Stays ==
  completed # <<>> /\ completed' # <<>> =>
    /\ completed[1] \subseteq completed'[1]
    /\ \A j \in completed[1] : recf'[j] = recf[j]

LEMMA KeptInit == Init => KeptInv
  BY DEF Init, KeptInv, CallShape, KeptOK, CompletedIsKept, WorkOK, NothingMissing,
         At, Idle, NoAnswer

\* Steps that leave what is kept alone and are not among the workers
LEMMA KeptQuiet ==
  ASSUME KeptInv, UNCHANGED kept, CallShape', ~At("work")',
         last'.res = last.res \/ last'.res = <<>>
  PROVE  KeptInv' /\ Stays
  <1>1. completed' = completed /\ recf' = recf
    BY DEF kept
  <1>2. KeptOK'
    BY <1>1 DEF KeptInv, KeptOK, CompletedIsKept
  <1>3. WorkOK'
    BY DEF WorkOK
  <1>4. NothingMissing'
    BY DEF KeptInv, NothingMissing
  <1> QED
    BY <1>1, <1>2, <1>3, <1>4 DEF KeptInv, Stays

LEMMA SetUpKept ==
  ASSUME KeptOK, SetUp
  PROVE  /\ KeptOK' /\ Stays /\ completed' # <<>> /\ completed'[1] \subseteq Outputs
         /\ ToRec = Outputs \ completed'[1] /\ DOMAIN recf' = Outputs
  <1>1. CASE completed = <<>>
    <2>1. completed' = <<{}>> /\ recf' = [j \in Outputs |-> NoResult]
      BY <1>1 DEF SetUp
    <2>2. completed' # <<>> /\ completed'[1] = {}
      BY <2>1
    <2>3. 1 \in Outputs
      BY ReconstructionAssumption DEF Outputs
    <2>4. DOMAIN recf' = Outputs /\ recf' # <<>>
      BY <2>1, <2>3
    <2>5. KeptOK'
      BY <2>2, <2>4 DEF KeptOK, CompletedIsKept
    <2> QED
      BY <1>1, <2>2, <2>4, <2>5 DEF Stays, ToRec
  <1>2. CASE completed # <<>>
    <2>1. completed' = completed /\ recf' = recf
      BY <1>2 DEF SetUp, kept
    <2>2. KeptOK'
      BY <2>1 DEF KeptOK, CompletedIsKept
    <2> QED
      BY <1>2, <2>1, <2>2 DEF KeptOK, Stays, ToRec
  <1> QED
    BY <1>1, <1>2

\* The same for the steps that allocate what is kept
LEMMA KeptSetUp ==
  ASSUME KeptInv, SetUp, CallShape', ~At("work")',
         last'.res = last.res \/ last'.res = <<>>
  PROVE  KeptInv' /\ Stays
  <1>1. KeptOK' /\ Stays
    BY SetUpKept DEF KeptInv
  <1>2. WorkOK'
    BY DEF WorkOK
  <1>3. NothingMissing'
    BY DEF KeptInv, NothingMissing
  <1> QED
    BY <1>1, <1>2, <1>3 DEF KeptInv

\* The shares that the workers start with
LEMMA FirstShares ==
  ASSUME KeptOK, SetUp, NEW t \in Nat \ {0}
  PROVE  \E n \in Nat :
           /\ n = IF t < Len(Ascending(ToRec)) THEN t ELSE Len(Ascending(ToRec))
           /\ \A w \in 1 .. n : \A l :
                l = Share(Ascending(ToRec), w, n) => ListOK(l)'
           /\ \A w, v \in 1 .. n :
                w # v => Entries(Share(Ascending(ToRec), w, n))
                           \cap Entries(Share(Ascending(ToRec), v, n)) = {}
           /\ \A j \in ToRec : \E w \in 1 .. n :
                j \in Entries(Share(Ascending(ToRec), w, n))
  <1>1. ToRec \in SUBSET Outputs /\ ToRec = Outputs \ completed'[1]
    BY SetUpKept
  <1>2. PICK R \in SUBSET Outputs : R = ToRec
    BY <1>1
  <1>3. PICK s : s = Ascending(ToRec)
    OBVIOUS
  <1>4. PICK m \in Nat :
          /\ s \in [1 .. m -> R] /\ Len(s) = m
          /\ \A a, b \in 1 .. m : s[a] = s[b] => a = b
          /\ \A j \in R : \E a \in 1 .. m : s[a] = j
    <2>1. \E n \in Nat :
           /\ Ascending(R) \in [1 .. n -> R] /\ Len(Ascending(R)) = n
           /\ \A a, b \in 1 .. n : Ascending(R)[a] = Ascending(R)[b] => a = b
           /\ \A j \in R : \E a \in 1 .. n : Ascending(R)[a] = j
      BY AscendingList
    <2>2. s = Ascending(R)
      BY <1>2, <1>3
    <2>3. PICK n \in Nat :
           /\ Ascending(R) \in [1 .. n -> R] /\ Len(Ascending(R)) = n
           /\ \A a, b \in 1 .. n : Ascending(R)[a] = Ascending(R)[b] => a = b
           /\ \A j \in R : \E a \in 1 .. n : Ascending(R)[a] = j
      BY <2>1
    <2> QED
      BY <2>2, <2>3, Zenon
  <1>5. Once(s)
    BY <1>4 DEF Once
  <1>6. PICK n \in Nat : n = IF t < m THEN t ELSE m
    OBVIOUS
  <1>7. n = 0 \/ n \in 1 .. m
    BY <1>6
  <1>8. /\ \A w \in 1 .. n : Share(s, w, n) \in Seq(R) /\ Once(Share(s, w, n))
        /\ \A w, v \in 1 .. n :
             w # v => Entries(Share(s, w, n)) \cap Entries(Share(s, v, n)) = {}
        /\ \A p \in 1 .. m : \E w \in 1 .. n : s[p] \in Entries(Share(s, w, n))
    <2>1. CASE n = 0
      <3>1. m = 0
        BY <1>6, <2>1
      <3> QED
        BY <2>1, <3>1
    <2>2. CASE n \in 1 .. m
      <3> HIDE DEF Once, Entries
      <3> QED
        BY <1>4, <1>5, <2>2, SharesPartition
    <2> QED
      BY <1>7, <2>1, <2>2
  <1>9. ASSUME NEW w \in 1 .. n, NEW l, l = Share(s, w, n)
        PROVE  ListOK(l)'
    <2>1. l \in Seq(R) /\ Once(l)
      BY <1>8, <1>9
    <2>2. Entries(l) \subseteq R
      BY <2>1 DEF Entries
    <2>3. l \in Seq(Outputs)
      BY <2>1
    <2>4. Entries(l) \cap completed'[1] = {}
      BY <1>1, <1>2, <2>2
    <2> QED
      BY <2>1, <2>3, <2>4 DEF ListOK
  <1>10. \A j \in R : \E w \in 1 .. n : j \in Entries(Share(s, w, n))
    BY <1>4, <1>8
  <1>11. n = IF t < Len(s) THEN t ELSE Len(s)
    BY <1>4, <1>6
  <1>12. \A j \in ToRec : \E w \in 1 .. n : j \in Entries(Share(s, w, n))
    BY <1>2, <1>10
  <1> HIDE DEF Entries, ListOK
  <1>13. \A w \in 1 .. n : \A l :
           l = Share(Ascending(ToRec), w, n) => ListOK(l)'
    BY <1>3, <1>9
  <1>14. \A w, v \in 1 .. n :
           w # v => Entries(Share(Ascending(ToRec), w, n))
                      \cap Entries(Share(Ascending(ToRec), v, n)) = {}
    BY Zenon, <1>3, <1>8
  <1>15. \A j \in ToRec : \E w \in 1 .. n :
           j \in Entries(Share(Ascending(ToRec), w, n))
    BY Zenon, <1>3, <1>12
  <1>16. n = IF t < Len(Ascending(ToRec)) THEN t ELSE Len(Ascending(ToRec))
    BY <1>3, <1>11
  <1> QED
    BY Zenon, <1>13, <1>14, <1>15, <1>16

LEMMA StartWorkersKept ==
  ASSUME KeptInv, StartWorkers
  PROVE  KeptInv' /\ Stays
  <1>0. /\ call # Idle /\ DOMAIN call = {"kind", "start", "max", "primes",
              "threads", "at", "todo", "ret"}
        /\ call.kind \in Kinds /\ call.threads \in Nat \ {0}
    BY DEF StartWorkers, At, Idle, KeptInv, CallShape
  <1>1. CASE degs = "none" \/ (~cacheMade /\ call.threads > 1)
    <2>1. call' = Idle /\ last'.res = <<>> /\ (SetUp \/ UNCHANGED kept)
      BY <1>1 DEF StartWorkers, Answer
    <2>2. CallShape' /\ ~At("work")'
      BY <2>1 DEF CallShape, At, Idle
    <2> QED
      BY <2>1, <2>2, KeptQuiet, KeptSetUp
  <1>2. CASE ~(degs = "none" \/ (~cacheMade /\ call.threads > 1))
    <2>1. KeptOK /\ NothingMissing
      BY DEF KeptInv
    <2>2. SetUp /\ last' = last
      BY <1>2 DEF StartWorkers
    <2>3. PICK n \in Nat :
           /\ n = IF call.threads < Len(Ascending(ToRec)) THEN call.threads
                  ELSE Len(Ascending(ToRec))
           /\ \A w \in 1 .. n : \A l :
                l = Share(Ascending(ToRec), w, n) => ListOK(l)'
           /\ \A w, v \in 1 .. n :
                w # v => Entries(Share(Ascending(ToRec), w, n))
                           \cap Entries(Share(Ascending(ToRec), v, n)) = {}
           /\ \A j \in ToRec : \E w \in 1 .. n :
                j \in Entries(Share(Ascending(ToRec), w, n))
      BY <1>0, <2>1, <2>2, FirstShares
    <2>4. PICK t, r :
           /\ t = [w \in 1 .. n |-> Share(Ascending(ToRec), w, n)]
           /\ r = [w \in 1 .. n |-> "success"]
           /\ call' = [call EXCEPT !.at = "work", !.todo = t, !.ret = r]
      <3>1. PICK m : m = IF call.threads < Len(Ascending(ToRec)) THEN call.threads
                         ELSE Len(Ascending(ToRec))
        OBVIOUS
      <3>2. call' = [call EXCEPT !.at = "work",
                       !.todo = [w \in 1 .. m |-> Share(Ascending(ToRec), w, m)],
                       !.ret = [w \in 1 .. m |-> "success"]]
        BY Zenon, <1>2, <3>1 DEF StartWorkers
      <3>3. m = n
        BY <2>3, <3>1
      <3> QED
        BY Zenon, <3>2, <3>3
    <2>5. /\ DOMAIN call' = DOMAIN call /\ call'.kind = call.kind
          /\ call'.threads = call.threads /\ call'.at = "work"
          /\ call'.todo = t /\ call'.ret = r
      BY <1>0, <2>4
    <2>6. CallShape'
      BY <1>0, <2>5 DEF CallShape
    <2>7. /\ KeptOK' /\ Stays /\ completed' # <<>>
          /\ ToRec = Outputs \ completed'[1] /\ DOMAIN recf' = Outputs
      BY <2>1, <2>2, SetUpKept
    <2>8. \A w \in DOMAIN t : ListOK(t[w])'
      BY <2>3, <2>4
    <2>9. \A w, v \in DOMAIN t : w # v => Entries(t[w]) \cap Entries(t[v]) = {}
      BY <2>3, <2>4
    <2>10. \A j \in Outputs : recf'[j].made \/ \E w \in DOMAIN t : j \in Entries(t[w])
      <3> SUFFICES ASSUME NEW j \in Outputs, ~recf'[j].made
                   PROVE  \E w \in DOMAIN t : j \in Entries(t[w])
        OBVIOUS
      <3>1. j \in ToRec
        BY <2>7 DEF KeptOK, CompletedIsKept
      <3> QED
        BY <2>3, <2>4, <3>1
    <2>11. SharesOK'
      <3> HIDE DEF ListOK
      <3>1. (\A w \in DOMAIN call.todo : ListOK(call.todo[w]))'
        BY <2>5, <2>8 DEF ListOK, Entries, Once
      <3>2. (\A w, v \in DOMAIN call.todo :
               w # v => Entries(call.todo[w]) \cap Entries(call.todo[v]) = {})'
        BY <2>5, <2>9 DEF Entries
      <3>3. (\A j \in Outputs :
               \/ recf[j].made
               \/ \E w \in DOMAIN call.todo :
                    call.ret[w] # "success" \/ j \in Entries(call.todo[w]))'
        BY <2>5, <2>10 DEF Entries
      <3> QED
        BY <3>1, <3>2, <3>3 DEF SharesOK
    <2>12. Workers(n)'
      BY <2>4, <2>5 DEF Workers
    <2>13. WorkOK'
      BY <2>7, <2>11, <2>12 DEF WorkOK, Workers
    <2>14. NothingMissing'
      BY <2>1, <2>2 DEF NothingMissing
    <2> QED
      BY <2>6, <2>7, <2>13, <2>14 DEF KeptInv
  <1> QED
    BY <1>1, <1>2

LEMMA TailOnce ==
  ASSUME NEW S, NEW s \in Seq(S), Once(s), s # <<>>
  PROVE  /\ Head(s) \in S /\ Head(s) \in Entries(s)
         /\ Tail(s) \in Seq(S) /\ Once(Tail(s))
         /\ Entries(Tail(s)) = Entries(s) \ {Head(s)}
  <1>1. PICK n \in Nat \ {0} : n = Len(s)
    OBVIOUS
  <1>2. /\ Tail(s) \in Seq(S) /\ Len(Tail(s)) = n - 1
        /\ \A a \in 1 .. n - 1 : Tail(s)[a] = s[a + 1]
        /\ Head(s) = s[1] /\ Head(s) \in S
    BY <1>1
  <1>3. \A a, b \in 1 .. n : s[a] = s[b] => a = b
    BY <1>1 DEF Once
  <1>4. Once(Tail(s))
    <2> SUFFICES ASSUME NEW a \in 1 .. n - 1, NEW b \in 1 .. n - 1,
                        Tail(s)[a] = Tail(s)[b]
                 PROVE  a = b
      BY <1>2 DEF Once
    <2>1. s[a + 1] = s[b + 1] /\ a + 1 \in 1 .. n /\ b + 1 \in 1 .. n
      BY <1>2
    <2>2. a + 1 = b + 1
      BY <1>3, <2>1
    <2> QED
      BY <2>2
  <1>5. ASSUME NEW x \in Entries(Tail(s)) PROVE x \in Entries(s) \ {Head(s)}
    <2>1. PICK a \in 1 .. n - 1 : x = s[a + 1]
      BY <1>2 DEF Entries
    <2>2. a + 1 \in 1 .. n /\ a + 1 # 1 /\ 1 \in 1 .. n
      OBVIOUS
    <2>3. s[a + 1] # s[1]
      BY <1>3, <2>2
    <2> QED
      BY <1>1, <1>2, <2>1, <2>2, <2>3 DEF Entries
  <1>6. ASSUME NEW x \in Entries(s), x # Head(s) PROVE x \in Entries(Tail(s))
    <2>1. PICK a \in 1 .. n : x = s[a]
      BY <1>1 DEF Entries
    <2>2. a # 1
      BY <1>2, <1>6, <2>1
    <2>3. PICK b \in 1 .. n - 1 : a = b + 1
      <3>1. a - 1 \in 1 .. n - 1 /\ a = (a - 1) + 1
        BY <2>2
      <3> QED
        BY <3>1
    <2> QED
      BY <1>2, <2>1, <2>3 DEF Entries
  <1>7. Head(s) \in Entries(s)
    BY <1>1, <1>2 DEF Entries
  <1> QED
    BY <1>2, <1>4, <1>5, <1>6, <1>7

\* What a worker writes: a function that is made, over the rationals in full
LEMMA OutcomeMade ==
  ASSUME NEW j, NEW s, NEW max, NEW kind,
         NEW o \in IF IsMod(kind) THEN Mod(j, s) ELSE Full(j, s, max),
         o[1] = "success"
  PROVE  o[2].made /\ (~IsMod(kind) => ~o[2].mod)
  <1>1. CASE IsMod(kind)
    <2>1. o[2] = Result(Source(<<"rec", s>>, j), TRUE)
      BY <1>1, ModSuccess
    <2> QED
      BY <1>1, <2>1 DEF Result
  <1>2. CASE ~IsMod(kind)
    <2>1. o[2] = Result(Source(<<"rec", s>>, j), FALSE)
      BY <1>2, FullSuccess
    <2> QED
      BY <2>1 DEF Result
  <1> QED
    BY <1>1, <1>2

LEMMA ReconstructKept ==
  ASSUME KeptInv, NEW w, Reconstruct(w)
  PROVE  KeptInv' /\ Stays
  <1>0. /\ call # Idle /\ At("work") /\ w \in DOMAIN call.todo
        /\ call.todo[w] # <<>> /\ last' = last
        /\ DOMAIN call = {"kind", "start", "max", "primes", "threads", "at",
                          "todo", "ret"}
        /\ call.kind \in Kinds /\ call.threads \in Nat \ {0}
    BY DEF Reconstruct, At, Idle, KeptInv, CallShape
  <1>1. PICK C \in SUBSET Outputs : C = completed[1]
    BY <1>0 DEF KeptInv, WorkOK, KeptOK
  <1>2. /\ completed # <<>> /\ SharesOK /\ DOMAIN recf = Outputs
        /\ \A j \in C : recf[j].made /\ ~recf[j].mod
    BY <1>0, <1>1 DEF KeptInv, WorkOK, KeptOK, CompletedIsKept
  <1>3. PICK n \in Nat : Workers(n)
    BY <1>0 DEF KeptInv, WorkOK
  <1>3a. PICK j : j = Head(call.todo[w])
    OBVIOUS
  <1>4. PICK o \in IF IsMod(call.kind) THEN Mod(j, call.start)
                  ELSE Full(j, call.start, call.primes) :
          /\ recf' = [recf EXCEPT ![j] = IF o[1] = "success" THEN o[2] ELSE @]
          /\ completed' = IF o[1] # "success" \/ IsMod(call.kind) THEN completed
                          ELSE <<completed[1] \cup {j}>>
          /\ call' = [call EXCEPT !.todo[w] = Tail(@),
                        !.ret[w] = IF @ = "success" THEN o[1] ELSE @]
    BY Zenon, <1>3a DEF Reconstruct
  <1>5. /\ DOMAIN call' = DOMAIN call /\ call'.kind = call.kind
        /\ call'.threads = call.threads /\ call'.at = call.at
        /\ call'.todo = [call.todo EXCEPT ![w] = Tail(@)]
        /\ call'.ret = [call.ret EXCEPT ![w] = IF @ = "success" THEN o[1] ELSE @]
    BY <1>0, <1>4
  <1>6. /\ j \in Outputs /\ j \in Entries(call.todo[w]) /\ j \notin C
        /\ Tail(call.todo[w]) \in Seq(Outputs) /\ Once(Tail(call.todo[w]))
        /\ Entries(Tail(call.todo[w])) = Entries(call.todo[w]) \ {j}
        /\ Entries(call.todo[w]) \cap C = {}
    <2>1. /\ call.todo[w] \in Seq(Outputs) /\ Once(call.todo[w])
          /\ Entries(call.todo[w]) \cap C = {}
      BY <1>0, <1>1, <1>2 DEF SharesOK, ListOK
    <2>2. PICK l \in Seq(Outputs) : l = call.todo[w]
      BY <2>1
    <2>3. /\ Head(l) \in Outputs /\ Head(l) \in Entries(l)
          /\ Tail(l) \in Seq(Outputs) /\ Once(Tail(l))
          /\ Entries(Tail(l)) = Entries(l) \ {Head(l)}
      BY <1>0, <2>1, <2>2, TailOnce
    <2> HIDE DEF Entries, Once
    <2> QED
      BY Zenon, <1>3a, <2>1, <2>2, <2>3
  <1>7. o[1] = "success" => o[2].made /\ (~IsMod(call.kind) => ~o[2].mod)
    BY <1>4, OutcomeMade
  <1>8. PICK D \in SUBSET Outputs :
          D = IF o[1] # "success" \/ IsMod(call.kind) THEN C ELSE C \cup {j}
    BY <1>6
  <1>9. /\ completed' # <<>> /\ completed'[1] = D /\ C \subseteq D
        /\ D \subseteq C \cup {j}
    BY <1>1, <1>2, <1>4, <1>8
  <1>10. /\ DOMAIN recf' = Outputs
         /\ \A k \in Outputs : k # j => recf'[k] = recf[k]
         /\ o[1] = "success" => recf'[j] = o[2]
    BY <1>2, <1>4, <1>6
  <1>11. KeptOK'
    <2>1. recf' # <<>>
      <3>1. 1 \in Outputs
        BY ReconstructionAssumption DEF Outputs
      <3> QED
        BY <1>10, <3>1
    <2>2. \A k \in D : recf'[k].made /\ ~recf'[k].mod
      BY <1>2, <1>6, <1>7, <1>8, <1>10
    <2> QED
      BY <1>9, <1>10, <2>1, <2>2 DEF KeptOK, CompletedIsKept
  <1>12. Stays
    BY <1>1, <1>6, <1>9, <1>10 DEF Stays
  <1>13. /\ DOMAIN call'.todo = DOMAIN call.todo /\ DOMAIN call'.ret = DOMAIN call.ret
         /\ call'.todo[w] = Tail(call.todo[w])
         /\ \A v \in DOMAIN call.todo : v # w =>
              call'.todo[v] = call.todo[v] /\ call'.ret[v] = call.ret[v]
         /\ call.ret[w] # "success" => call'.ret[w] = call.ret[w]
         /\ call.ret[w] = "success" => call'.ret[w] = o[1]
    BY <1>0, <1>3, <1>5 DEF Workers
  <1>14. \A v \in DOMAIN call.todo :
           /\ Entries(call'.todo[v]) \subseteq Entries(call.todo[v])
           /\ Entries(call.todo[v]) \subseteq Entries(call'.todo[v]) \cup {j}
           /\ j \notin Entries(call'.todo[v])
           /\ call'.todo[v] \in Seq(Outputs) /\ Once(call'.todo[v])
    <2> SUFFICES ASSUME NEW v \in DOMAIN call.todo
                 PROVE  /\ Entries(call'.todo[v]) \subseteq Entries(call.todo[v])
                        /\ Entries(call.todo[v]) \subseteq Entries(call'.todo[v]) \cup {j}
                        /\ j \notin Entries(call'.todo[v])
                        /\ call'.todo[v] \in Seq(Outputs) /\ Once(call'.todo[v])
      OBVIOUS
    <2>1. CASE v = w
      <3>1. PICK l : l = Tail(call.todo[w])
        OBVIOUS
      <3>2. call'.todo[v] = l
        BY <1>13, <2>1, <3>1
      <3> HIDE DEF Entries, Once
      <3> QED
        BY <1>6, <2>1, <3>1, <3>2
    <2>2. CASE v # w
      <3>1. call'.todo[v] = call.todo[v]
        BY <1>13, <2>2
      <3>2. call.todo[v] \in Seq(Outputs) /\ Once(call.todo[v])
        BY <1>2 DEF SharesOK, ListOK
      <3>3. Entries(call.todo[w]) \cap Entries(call.todo[v]) = {}
        BY <1>0, <1>2, <2>2 DEF SharesOK
      <3> HIDE DEF Entries, Once
      <3> QED
        BY <1>6, <3>1, <3>2, <3>3
    <2> QED
      BY <2>1, <2>2
  <1>15. SharesOK'
    <2>1. ASSUME NEW v \in DOMAIN call.todo, NEW l, l = call'.todo[v]
          PROVE  ListOK(l)'
      <3>1. Entries(call.todo[v]) \cap C = {}
        BY <1>1, <1>2 DEF SharesOK, ListOK
      <3>2. /\ Entries(l) \subseteq Entries(call.todo[v]) /\ j \notin Entries(l)
            /\ l \in Seq(Outputs) /\ Once(l)
        BY <1>14, <2>1
      <3>3. Entries(l) \cap D = {}
        BY <1>9, <3>1, <3>2
      <3> QED
        BY <1>9, <3>2, <3>3 DEF ListOK
    <2>2. (\A v \in DOMAIN call.todo : ListOK(call.todo[v]))'
      BY <1>13, <2>1 DEF ListOK, Entries, Once
    <2>3. \A u, v \in DOMAIN call.todo :
            u # v => Entries(call'.todo[u]) \cap Entries(call'.todo[v]) = {}
      BY <1>2, <1>14 DEF SharesOK
    <2>4. ASSUME NEW k \in Outputs
          PROVE  \/ recf'[k].made
                 \/ \E v \in DOMAIN call.todo :
                      call'.ret[v] # "success" \/ k \in Entries(call'.todo[v])
      <3>1. CASE k = j
        <4>1. CASE o[1] = "success"
          BY <1>7, <1>10, <3>1, <4>1
        <4>2. CASE o[1] # "success"
          <5>1. call'.ret[w] # "success"
            BY <1>13, <4>2
          <5> QED
            BY <1>0, <5>1
        <4> QED
          BY <4>1, <4>2
      <3>2. CASE k # j
        <4>1. CASE recf[k].made
          BY <1>10, <3>2, <4>1
        <4>2. CASE \E v \in DOMAIN call.todo : call.ret[v] # "success"
          <5>1. PICK v \in DOMAIN call.todo : call.ret[v] # "success"
            BY <4>2
          <5>2. call'.ret[v] = call.ret[v]
            BY <1>13, <5>1
          <5> QED
            BY <5>1, <5>2
        <4>3. CASE \E v \in DOMAIN call.todo : k \in Entries(call.todo[v])
          BY <1>14, <3>2, <4>3
        <4> QED
          BY <1>2, <4>1, <4>2, <4>3 DEF SharesOK
      <3> QED
        BY <3>1, <3>2
    <2>5. (\A u, v \in DOMAIN call.todo :
             u # v => Entries(call.todo[u]) \cap Entries(call.todo[v]) = {})'
      <3>1. PICK t : t = call'.todo
        OBVIOUS
      <3>2. \A u, v \in DOMAIN t : u # v => Entries(t[u]) \cap Entries(t[v]) = {}
        BY Zenon, <1>13, <2>3, <3>1
      <3> QED
        BY Zenon, <3>1, <3>2
    <2>6. (\A k \in Outputs :
             \/ recf[k].made
             \/ \E v \in DOMAIN call.todo :
                  call.ret[v] # "success" \/ k \in Entries(call.todo[v]))'
      BY <1>13, <2>4 DEF Entries
    <2> QED
      BY <2>2, <2>5, <2>6 DEF SharesOK
  <1>16. WorkOK'
    <2>1. Workers(n)'
      BY <1>3, <1>13 DEF Workers
    <2> QED
      BY <1>9, <1>15, <2>1 DEF WorkOK, Workers
  <1>17. CallShape'
    BY <1>0, <1>5 DEF CallShape
  <1>18. NothingMissing'
    BY <1>0 DEF KeptInv, NothingMissing
  <1> QED
    BY <1>11, <1>12, <1>16, <1>17, <1>18 DEF KeptInv

\* The return value collected is success if all are, and else one of them
LEMMA CollectedValue ==
  ASSUME NEW rets, NEW n \in Nat, DOMAIN rets = 1 .. n
  PROVE  \/ Collected(rets) = "success" /\ \A w \in 1 .. n : rets[w] = "success"
         \/ \E w \in 1 .. n : rets[w] # "success" /\ Collected(rets) = rets[w]
  <1>1. CASE \A w \in 1 .. n : rets[w] = "success"
    BY <1>1 DEF Collected
  <1>2. CASE \E w \in 1 .. n : rets[w] # "success"
    <2>1. PICK T : T = {w \in 1 .. n : rets[w] # "success"}
      OBVIOUS
    <2>1a. T \in SUBSET Nat
      BY <2>1
    <2>2. T # {}
      BY <1>2, <2>1
    <2>3. PICK w \in T : \A v \in T : w <= v
      BY <2>2, <2>1a, LeastOfNaturals
    <2>4. w \in DOMAIN rets /\ rets[w] # "success"
      BY <2>1
    <2>5. \A v \in 1 .. w - 1 : rets[v] = "success"
      <3> SUFFICES ASSUME NEW v \in 1 .. w - 1, rets[v] # "success" PROVE FALSE
        OBVIOUS
      <3>1. v \in 1 .. n /\ ~(w <= v)
        BY <2>4
      <3>2. v \in T
        BY <2>1, <3>1
      <3> QED
        BY <2>3, <3>1, <3>2
    <2>6. \E x \in DOMAIN rets :
            rets[x] # "success" /\ \A v \in 1 .. x - 1 : rets[v] = "success"
      BY <2>4, <2>5
    <2>7. PICK x : x = CHOOSE y \in DOMAIN rets :
            rets[y] # "success" /\ \A v \in 1 .. y - 1 : rets[v] = "success"
      OBVIOUS
    <2>8. x \in DOMAIN rets /\ rets[x] # "success"
      BY Zenon, <2>6, <2>7
    <2>9. ~(\A v \in DOMAIN rets : rets[v] = "success")
      BY <2>4
    <2>10. Collected(rets) = rets[x]
      BY Zenon, <2>7, <2>9 DEF Collected
    <2> QED
      BY <2>8, <2>10
  <1> QED
    BY <1>1, <1>2

LEMMA CollectKept ==
  ASSUME KeptInv, Collect
  PROVE  KeptInv' /\ Stays
  <1>0. /\ call # Idle /\ At("work")
        /\ DOMAIN call = {"kind", "start", "max", "primes", "threads", "at",
                          "todo", "ret"}
        /\ call.kind \in Kinds /\ call.threads \in Nat \ {0}
        /\ \A w \in DOMAIN call.todo : call.todo[w] = <<>>
    BY DEF Collect, At, Idle, KeptInv, CallShape
  <1>1. CASE Collected(call.ret) = "success"
    <2>1. /\ call' = Idle /\ last'.res = recf
          /\ completed' = <<>> /\ recf' = <<>>
      BY <1>1 DEF Collect, Answer, MoveRec
    <2>2. PICK n \in Nat : Workers(n)
      BY <1>0 DEF KeptInv, WorkOK
    <2>3. \A w \in 1 .. n : call.ret[w] = "success"
      BY <1>1, <2>2, CollectedValue DEF Workers
    <2>4. \A w \in DOMAIN call.todo : Entries(call.todo[w]) = {}
      BY <1>0 DEF Entries
    <2>5. \A j \in Outputs : recf[j].made
      BY <1>0, <2>2, <2>3, <2>4 DEF KeptInv, WorkOK, SharesOK, Workers
    <2>6. NothingMissing'
      BY <2>1, <2>5 DEF NothingMissing
    <2>7. CallShape' /\ WorkOK'
      BY <2>1 DEF CallShape, WorkOK, At, Idle
    <2>8. KeptOK' /\ Stays
      BY <2>1 DEF KeptOK, CompletedIsKept, Stays
    <2> QED
      BY <2>6, <2>7, <2>8 DEF KeptInv
  <1>2. CASE /\ Collected(call.ret) # "success"
             /\ IsLoop(call.kind) /\ Collected(call.ret) = "missing_primes"
             /\ call.primes < call.max
    <2>1. /\ call' = [call EXCEPT !.primes = @ + 1, !.at = "sample",
                        !.todo = <<>>, !.ret = <<>>]
          /\ UNCHANGED kept /\ last' = last
      BY <1>2 DEF Collect
    <2>2. /\ DOMAIN call' = DOMAIN call /\ call'.at = "sample"
          /\ call'.kind = call.kind /\ call'.threads = call.threads
      BY <1>0, <2>1
    <2>3. CallShape' /\ ~At("work")'
      BY <1>0, <2>2 DEF CallShape, At
    <2> QED
      BY <2>1, <2>3, KeptQuiet
  <1>3. CASE /\ Collected(call.ret) # "success"
             /\ ~(/\ IsLoop(call.kind) /\ Collected(call.ret) = "missing_primes"
                  /\ call.primes < call.max)
    <2>1. call' = Idle /\ last'.res = <<>> /\ UNCHANGED kept
      BY <1>3 DEF Collect, Answer
    <2>2. CallShape' /\ ~At("work")'
      BY <2>1 DEF CallShape, At, Idle
    <2> QED
      BY <2>1, <2>2, KeptQuiet
  <1> QED
    BY <1>1, <1>2, <1>3

\* Every step keeps the invariant and what is completed
LEMMA KeptNext ==
  ASSUME KeptInv, [Next]_vars
  PROVE  KeptInv' /\ Stays
  <1>1. ASSUME call' = Idle, UNCHANGED kept, last'.res = <<>>
        PROVE  KeptInv' /\ Stays
    <2>1. CallShape' /\ ~At("work")'
      BY <1>1 DEF CallShape, At, Idle
    <2> QED
      BY <1>1, <2>1, KeptQuiet
  <1>2. ASSUME NEW ok \in BOOLEAN, AllDegrees(ok) PROVE KeptInv' /\ Stays
    BY <1>1, <1>2 DEF AllDegrees, Answer
  <1>3. ASSUME NEW s \in Starts, NEW max \in 1 .. MaxPrimes, Sample(s, max)
        PROVE  KeptInv' /\ Stays
    <2>1. call' = Idle /\ last'.res = <<>> /\ (SetUp \/ UNCHANGED kept)
      BY <1>3 DEF Sample, Answer
    <2>2. CallShape' /\ ~At("work")'
      BY <2>1 DEF CallShape, At, Idle
    <2> QED
      BY <1>1, <2>1, <2>2, KeptSetUp
  <1>4. ASSUME Reset PROVE KeptInv' /\ Stays
    <2>1. completed' = <<>> /\ recf' = <<>> /\ call' = Idle /\ last'.res = <<>>
      BY <1>4 DEF Reset, Answer
    <2>2. CallShape' /\ WorkOK' /\ NothingMissing'
      BY <2>1 DEF CallShape, WorkOK, NothingMissing, At, Idle
    <2>3. KeptOK' /\ Stays
      BY <2>1 DEF KeptOK, CompletedIsKept, Stays
    <2> QED
      BY <2>2, <2>3 DEF KeptInv
  <1>5. ASSUME NEW kind \in Kinds, NEW s \in Starts, NEW max \in 1 .. MaxPrimes,
               NEW n \in 1 .. MaxThreads, Begin(kind, s, max, n)
        PROVE  KeptInv' /\ Stays
    <2>1. /\ UNCHANGED kept /\ last' = last
          /\ call' = [kind |-> kind, start |-> s,
                      max |-> IF kind = "mod" THEN 1 ELSE max,
                      primes |-> IF IsLoop(kind) THEN 1 ELSE max, threads |-> n,
                      at |-> IF IsLoop(kind) THEN "degrees" ELSE "set_up",
                      todo |-> <<>>, ret |-> <<>>]
      BY <1>5 DEF Begin
    <2>2. CallShape' /\ ~At("work")'
      BY <2>1, ReconstructionAssumption DEF CallShape, At
    <2> QED
      BY <2>1, <2>2, KeptQuiet
  <1>6. ASSUME NEW ok \in BOOLEAN, GetDegrees(ok) PROVE KeptInv' /\ Stays
    <2>1. CASE ok
      <3>1. /\ call' = [call EXCEPT !.at = "sample"] /\ last' = last
            /\ UNCHANGED kept /\ call # Idle
        BY <1>6, <2>1 DEF GetDegrees, At, Idle
      <3>2. CallShape' /\ ~At("work")'
        BY <3>1 DEF CallShape, At, KeptInv
      <3> QED
        BY <3>1, <3>2, KeptQuiet
    <2>2. CASE ~ok
      BY <1>1, <1>6, <2>2 DEF GetDegrees, Answer
    <2> QED
      BY <2>1, <2>2
  <1>7. ASSUME SampleMore PROVE KeptInv' /\ Stays
    <2>1. /\ call' = [call EXCEPT !.at = "set_up"] /\ last' = last
          /\ SetUp /\ call # Idle
      BY <1>7 DEF SampleMore, At, Idle
    <2>2. CallShape' /\ ~At("work")'
      BY <2>1 DEF CallShape, At, KeptInv
    <2> QED
      BY <2>1, <2>2, KeptSetUp
  <1>8. CASE UNCHANGED vars
    <2>1. /\ completed' = completed /\ recf' = recf /\ call' = call /\ last' = last
      BY <1>8 DEF vars, kept
    <2>2. CallShape' /\ KeptOK' /\ NothingMissing' /\ Stays
      BY <2>1 DEF KeptInv, CallShape, KeptOK, CompletedIsKept, NothingMissing, Stays
    <2>3. WorkOK'
      <3>1. KeptInv => WorkOK
        BY DEF KeptInv
      <3>2. WorkOK' <=> WorkOK
        BY Zenon, <2>1 DEF WorkOK, SharesOK, ListOK, Workers, At
      <3> QED
        BY <3>1, <3>2
    <2> QED
      BY <2>2, <2>3 DEF KeptInv
  <1> QED
    BY <1>2, <1>3, <1>4, <1>5, <1>6, <1>7, <1>8,
       StartWorkersKept, CollectKept, ReconstructKept DEF Next, Step

\* Every success hands out a function for every output, whichever outputs
\* were completed by earlier calls and whichever worker had the others
\* (move_rec_; src/graph.cc 1676-1752).
THEOREM ResultsAreWhole == Spec => []NothingMissing
  <1>1. KeptInv /\ [Next]_vars => KeptInv'
    BY KeptNext
  <1>2. KeptInv => NothingMissing
    BY DEF KeptInv
  <1> QED
    BY KeptInit, <1>1, <1>2, PTL DEF Spec

\* A completed output keeps its function, through calls that fail and modular
\* reconstructions of other outputs, until the results are handed out or reset
\* (set_up_to_rec_, reconstruct_).
THEOREM CompletedIsFinal == Spec => CompletedStays
  <1>1. KeptInv /\ [Next]_vars => KeptInv'
    BY KeptNext
  <1>2. KeptInv /\ KeptInv' /\ [Next]_vars =>
          [/\ CompletedIsKept'
           /\ completed # <<>> /\ completed' # <<>> =>
                /\ completed[1] \subseteq completed'[1]
                /\ \A j \in completed[1] : recf'[j] = recf[j]]_vars
    BY KeptNext DEF KeptInv, KeptOK, Stays
  <1> QED
    BY KeptInit, <1>1, <1>2, PTL DEF Spec, CompletedStays

-----------------------------------------------------------------------------
(* The loop.  When its workers start, the entries of all points that it has   *)
(* asked for are there, or nothing is left to reconstruct.  So an output that *)
(* is not found lacks primes, or cannot be reconstructed at all.             *)

RetsOK ==
  \A w \in DOMAIN call.ret :
    /\ call.ret[w] \in {"success", "failed", "missing_primes"}
    /\ call.ret[w] = "failed" => bad # {}
    /\ call.ret[w] = "missing_primes" => \E j \in Outputs : need[j] > call.primes

Enough == ToRec = {} \/ \A b \in Wanted(call.start, call.primes) : cache[b] # {}

LoopOK ==
  call # Idle /\ IsLoop(call.kind) =>
    /\ call.at = "sample" => degs # "none"
    /\ call.at \in {"set_up", "work"} =>
         cacheMade /\ degs # "none" /\ completed # <<>> /\ Enough
    /\ call.at = "work" => RetsOK

LoopInv == RecInv /\ KeptInv /\ (OneStart => LoopOK) /\ LoopAnswers

\* The same for a call in progress, from s
LoopAt(s) == OwnInv(s) /\ KeptInv /\ LoopOK /\ call # Idle /\ call.start = s

\* Values that suffice are recognized
LEMMA ConfirmableConfirms ==
  ASSUME NEW s \in Nat, NEW j \in Outputs, NEW i \in 1 .. MaxPrimes,
         Confirmable(j, s, i)
  PROVE  Confirmed(j, s, i)
  <1>0. i \in Nat \ {0}
    BY ReconstructionAssumption
  <1>1. \A b \in Wanted(s, i) : j \in cache[b]
    BY DEF Confirmable
  <1>2. \A b \in Wanted(s, i) : Source(b, j) = j
    BY <1>1 DEF Source
  <1>3. <<"chk", s + i>> \in Wanted(s, i)
    BY <1>0 DEF Wanted
  <1>4. \A p \in s .. s + i - 1 : <<"rec", p>> \in Wanted(s, i)
    BY <1>0 DEF Wanted
  <1>5. need[j] <= i
    BY DEF Confirmable
  <1>6. \A b \in Wanted(s, i) : cache[b] # {}
    BY <1>1
  <1>7. /\ Source(<<"chk", s + i>>, j) = j
        /\ \A p \in s .. s + i - 1 : Source(<<"rec", p>>, j) = j
    BY <1>2, <1>3, <1>4
  <1> QED
    BY <1>5, <1>6, <1>7 DEF Confirmed

\* What a worker of the loop returns for an output
LEMMA LoopOutcome ==
  ASSUME NEW s \in Starts, OwnInv(s), NEW j \in Outputs, NEW kind,
         NEW p \in 1 .. MaxPrimes, \A b \in Wanted(s, p) : cache[b] # {},
         NEW o \in IF IsMod(kind) THEN Mod(j, s) ELSE Full(j, s, p)
  PROVE  /\ o[1] \in {"success", "failed", "missing_primes"}
         /\ o[1] = "failed" => bad # {}
         /\ o[1] = "missing_primes" => need[j] > p
  <1>0. p \in Nat \ {0} /\ MaxPrimes \in Nat /\ s \in Nat
    BY ReconstructionAssumption
  <1>1. cache[<<"rec", s>>] # {}
    BY <1>0, WantedBatches
  <1>2. Source(<<"rec", s>>, j) = j
    BY <1>1, FirstBatchWhole DEF OwnInv
  <1>3. j # 0
    BY ReconstructionAssumption DEF Outputs
  <1>3a. \A r, x : o = <<r, x>> => o[1] = r
    OBVIOUS
  <1>4. CASE IsMod(kind)
    <2>1. o \in Mod(j, s)
      BY <1>4
    <2>2. \/ j \in bad /\ o = <<"failed", NoResult>>
          \/ o = <<"success", Result(j, TRUE)>>
      BY Zenon, <1>1, <1>2, <1>3, <2>1 DEF Mod
    <2>3. (j \in bad /\ o[1] = "failed") \/ o[1] = "success"
      BY Zenon, <1>3a, <2>2
    <2> QED
      BY <2>3
  <1>5. CASE ~IsMod(kind)
    <2>1. o \in Full(j, s, p)
      BY <1>5
    <2>2. \/ j \in bad /\ o = <<"failed", NoResult>>
          \/ o = <<"success", Result(j, FALSE)>>
          \/ /\ o = <<"missing_primes", NoResult>>
             /\ ~ \E i \in 1 .. p : Confirmed(j, s, i)
      BY Zenon, <1>1, <1>2, <2>1 DEF Full
    <2>3. ASSUME ~ \E i \in 1 .. p : Confirmed(j, s, i) PROVE need[j] > p
      <3>1. need[j] \in Nat
        BY ReconstructionAssumption DEF OwnInv, Shapes
      <3>2. SUFFICES ASSUME need[j] <= p PROVE FALSE
        BY <1>0, <3>1
      <3>3. CASE \A b \in Wanted(s, p) : j \in cache[b]
        <4>1. Confirmable(j, s, p)
          BY <3>2, <3>3 DEF Confirmable
        <4>2. Confirmed(j, s, p)
          BY <1>0, <4>1, ConfirmableConfirms
        <4> QED
          BY <1>0, <2>3, <4>2
      <3>4. CASE \E b \in Wanted(s, p) : j \notin cache[b]
        <4>1. PICK b \in Wanted(s, p) : j \notin cache[b]
          BY <3>4
        <4>2. b \in Batches /\ cache[b] # {}
          BY WantedBatches
        <4>3. PICK i \in Nat : Settled(s, j, i) /\ b \notin Wanted(s, i)
          BY <4>1, <4>2 DEF OwnInv, SettledWithout
        <4>4. ~(p <= i)
          BY <1>0, <4>3, WantedBatches
        <4>5. i \in 1 .. p /\ i \in 1 .. MaxPrimes /\ Confirmable(j, s, i)
          BY <1>0, <4>3, <4>4 DEF Settled
        <4>6. Confirmed(j, s, i)
          BY <1>0, <4>5, ConfirmableConfirms
        <4> QED
          BY <2>3, <4>5, <4>6
      <3> QED
        BY <3>3, <3>4
    <2>4. \/ j \in bad /\ o[1] = "failed"
          \/ o[1] = "success"
          \/ o[1] = "missing_primes" /\ need[j] > p
      BY Zenon, <1>3a, <2>2, <2>3
    <2> QED
      BY <2>4
  <1> QED
    BY <1>4, <1>5

LEMMA LoopStart == Init => LoopInv
  <1> SUFFICES ASSUME Init PROVE LoopInv
    OBVIOUS
  <1>1. LoopOK /\ LoopAnswers
    BY DEF Init, LoopOK, LoopAnswers, IsLoop, NoAnswer
  <1> QED
    BY <1>1, RecInvInit, KeptInit DEF LoopInv

LEMMA LoopReconstruct ==
  ASSUME NEW s \in Starts, LoopAt(s), NEW w, Reconstruct(w)
  PROVE  LoopOK' /\ LoopAnswers'
  <1>0. /\ call # Idle /\ At("work") /\ call.at = "work" /\ w \in DOMAIN call.todo
        /\ call.todo[w] # <<>> /\ call.start = s
        /\ need' = need /\ bad' = bad /\ degs' = degs /\ cacheMade' = cacheMade
        /\ cache' = cache
        /\ DOMAIN call = {"kind", "start", "max", "primes", "threads", "at",
                          "todo", "ret"}
    BY DEF Reconstruct, At, Idle, data, LoopAt, OwnInv, CallOK
  <1>1. PICK p \in 1 .. MaxPrimes : p = call.primes
    BY <1>0, ReconstructionAssumption DEF LoopAt, OwnInv, CallOK
  <1>2. PICK j : j = Head(call.todo[w])
    OBVIOUS
  <1>3. PICK o \in IF IsMod(call.kind) THEN Mod(j, call.start)
                  ELSE Full(j, call.start, call.primes) :
          call' = [call EXCEPT !.todo[w] = Tail(@),
                     !.ret[w] = IF @ = "success" THEN o[1] ELSE @]
    BY Zenon, <1>2 DEF Reconstruct
  <1>4. /\ DOMAIN call' = DOMAIN call /\ call'.kind = call.kind
        /\ call'.start = s /\ call'.at = "work" /\ call'.primes = p
        /\ call'.ret = [call.ret EXCEPT ![w] = IF @ = "success" THEN o[1] ELSE @]
    BY <1>0, <1>1, <1>3
  <1>5. call' # Idle
    BY <1>0, <1>4 DEF Idle
  <1>6. LoopAnswers'
    BY <1>5 DEF LoopAnswers
  <1>7. KeptInv' /\ Stays /\ KeptInv
    BY ReconstructKept DEF LoopAt
  <1>8. completed # <<>> /\ completed' # <<>> /\ completed[1] \subseteq completed'[1]
    <2>1. call'.kind \in Kinds /\ call'.kind # "idle"
      BY <1>5, <1>7 DEF KeptInv, CallShape, Kinds
    <2>2. At("work")'
      BY <1>4, <2>1 DEF At
    <2> QED
      BY <1>0, <1>7, <2>2 DEF KeptInv, WorkOK, Stays
  <1>9. j \in Outputs /\ j \notin completed[1]
    <2>1. /\ call.todo[w] \in Seq(Outputs) /\ Once(call.todo[w])
          /\ Entries(call.todo[w]) \cap completed[1] = {}
      BY <1>0, <1>7 DEF KeptInv, WorkOK, SharesOK, ListOK
    <2>2. PICK l \in Seq(Outputs) : l = call.todo[w]
      BY <2>1
    <2>3. Head(l) \in Outputs /\ Head(l) \in Entries(l)
      BY <1>0, <2>1, <2>2, TailOnce
    <2> QED
      BY <1>2, <2>1, <2>2, <2>3
  <1>10. ASSUME IsLoop(call.kind)
         PROVE  cacheMade /\ degs # "none" /\ Enough /\ RetsOK
    BY <1>0, <1>10 DEF LoopAt, LoopOK
  <1>11. ASSUME IsLoop(call.kind) PROVE \A b \in Wanted(s, p) : cache[b] # {}
    <2>1. ToRec # {}
      BY <1>8, <1>9 DEF ToRec
    <2> QED
      BY <1>0, <1>1, <1>10, <1>11, <2>1 DEF Enough
  <1>12. ASSUME IsLoop(call.kind) PROVE Enough'
    BY <1>0, <1>4, <1>11, <1>12 DEF Enough, Wanted
  <1>13. ASSUME IsLoop(call.kind) PROVE RetsOK'
    <2>1. /\ o[1] \in {"success", "failed", "missing_primes"}
          /\ o[1] = "failed" => bad # {}
          /\ o[1] = "missing_primes" => need[j] > p
      BY <1>0, <1>1, <1>3, <1>9, <1>11, <1>13, LoopOutcome DEF LoopAt
    <2>2. DOMAIN call'.ret = DOMAIN call.ret
      BY <1>4
    <2> SUFFICES ASSUME NEW v \in DOMAIN call.ret
                 PROVE  /\ call'.ret[v] \in {"success", "failed", "missing_primes"}
                        /\ call'.ret[v] = "failed" => bad # {}
                        /\ call'.ret[v] = "missing_primes" =>
                             \E k \in Outputs : need[k] > p
      BY <1>0, <1>4, <2>2 DEF RetsOK
    <2>3. /\ call.ret[v] \in {"success", "failed", "missing_primes"}
          /\ call.ret[v] = "failed" => bad # {}
          /\ call.ret[v] = "missing_primes" => \E k \in Outputs : need[k] > p
      BY <1>1, <1>10, <1>13 DEF RetsOK
    <2>4. call'.ret[v] = call.ret[v] \/ call'.ret[v] = o[1]
      BY <1>4
    <2> QED
      BY <1>9, <2>1, <2>3, <2>4
  <1> QED
    BY <1>0, <1>4, <1>6, <1>8, <1>10, <1>12, <1>13 DEF LoopOK

LEMMA WorkersStarted ==
  ASSUME StartWorkers, ~(degs = "none" \/ (~cacheMade /\ call.threads > 1))
  PROVE  \E t, n : call' = [call EXCEPT !.at = "work", !.todo = t,
                              !.ret = [w \in 1 .. n |-> "success"]]
  <1>1. PICK n : n = IF call.threads < Len(Ascending(ToRec)) THEN call.threads
                     ELSE Len(Ascending(ToRec))
    OBVIOUS
  <1>2. PICK t : t = [w \in 1 .. n |-> Share(Ascending(ToRec), w, n)]
    OBVIOUS
  <1>3. call' = [call EXCEPT !.at = "work",
                   !.todo = [w \in 1 .. n |-> Share(Ascending(ToRec), w, n)],
                   !.ret = [w \in 1 .. n |-> "success"]]
    BY Zenon, <1>1 DEF StartWorkers
  <1>4. call' = [call EXCEPT !.at = "work", !.todo = t,
                   !.ret = [w \in 1 .. n |-> "success"]]
    BY Zenon, <1>2, <1>3
  <1> QED
    BY Zenon, <1>4

LEMMA LoopStartWorkers ==
  ASSUME NEW s \in Starts, LoopAt(s), StartWorkers
  PROVE  LoopOK' /\ LoopAnswers'
  <1>0. /\ call # Idle /\ call.at = "set_up" /\ call.start = s
        /\ need' = need /\ bad' = bad /\ degs' = degs /\ cacheMade' = cacheMade
        /\ cache' = cache
        /\ DOMAIN call = {"kind", "start", "max", "primes", "threads", "at",
                          "todo", "ret"}
    BY DEF StartWorkers, At, Idle, data, LoopAt, OwnInv, CallOK
  <1>1. KeptInv' /\ Stays /\ KeptInv
    BY StartWorkersKept DEF LoopAt
  <1>2. CASE IsLoop(call.kind)
    <2>1. cacheMade /\ degs # "none" /\ completed # <<>> /\ Enough
      BY <1>0, <1>2 DEF LoopAt, LoopOK
    <2>2. SetUp
      BY <2>1 DEF StartWorkers
    <2>3. PICK t, n : call' = [call EXCEPT !.at = "work", !.todo = t,
                                 !.ret = [w \in 1 .. n |-> "success"]]
      BY Zenon, <2>1, WorkersStarted
    <2>4. /\ DOMAIN call' = DOMAIN call /\ call'.kind = call.kind
          /\ call'.start = s /\ call'.at = "work" /\ call'.primes = call.primes
          /\ call'.ret = [w \in 1 .. n |-> "success"]
      BY <1>0, <2>3
    <2>5. completed' = completed
      BY <2>1, <2>2 DEF SetUp, kept
    <2>6. Enough'
      BY <1>0, <2>1, <2>4, <2>5 DEF Enough, ToRec, Wanted
    <2>7. RetsOK'
      BY <2>4 DEF RetsOK
    <2>8. LoopAnswers'
      BY <1>0, <2>4 DEF LoopAnswers, Idle
    <2> QED
      BY <1>0, <2>1, <2>4, <2>5, <2>6, <2>7, <2>8 DEF LoopOK
  <1>3. CASE ~IsLoop(call.kind)
    <2>1. CASE degs = "none" \/ (~cacheMade /\ call.threads > 1)
      <3>1. call' = Idle /\ last'.kind = call.kind
        BY <2>1 DEF StartWorkers, Answer
      <3> QED
        BY <1>3, <3>1 DEF LoopOK, LoopAnswers
    <2>2. CASE ~(degs = "none" \/ (~cacheMade /\ call.threads > 1))
      <3>1. PICK t, r : call' = [call EXCEPT !.at = "work", !.todo = t, !.ret = r]
        BY Zenon, <2>2, WorkersStarted
      <3>2. DOMAIN call' = DOMAIN call /\ call'.kind = call.kind
        BY <1>0, <3>1
      <3>3. call' # Idle
        BY <1>0, <3>2 DEF Idle
      <3> QED
        BY <1>3, <3>2, <3>3 DEF LoopOK, LoopAnswers
    <2> QED
      BY <2>1, <2>2
  <1> QED
    BY <1>2, <1>3

LEMMA LoopCollect ==
  ASSUME NEW s \in Starts, LoopAt(s), Collect
  PROVE  LoopOK' /\ LoopAnswers'
  <1>0. /\ call # Idle /\ At("work") /\ call.at = "work" /\ call.start = s
        /\ need' = need /\ bad' = bad /\ degs' = degs /\ cacheMade' = cacheMade
        /\ cache' = cache
        /\ DOMAIN call = {"kind", "start", "max", "primes", "threads", "at",
                          "todo", "ret"}
        /\ call.primes \in 1 .. call.max /\ call.max \in 1 .. MaxPrimes
    BY DEF Collect, At, Idle, data, LoopAt, OwnInv, CallOK
  <1>1. PICK n \in Nat : Workers(n)
    BY <1>0 DEF LoopAt, KeptInv, WorkOK
  <1>2. \/ Collected(call.ret) = "success"
        \/ \E w \in 1 .. n : Collected(call.ret) = call.ret[w]
    BY <1>1, CollectedValue DEF Workers
  <1>3. ASSUME IsLoop(call.kind)
        PROVE  /\ cacheMade /\ degs # "none" /\ RetsOK
               /\ Collected(call.ret) \in {"success", "failed", "missing_primes"}
               /\ Collected(call.ret) = "failed" => bad # {}
               /\ Collected(call.ret) = "missing_primes" =>
                    \E j \in Outputs : need[j] > call.primes
    <2>1. cacheMade /\ degs # "none" /\ RetsOK
      BY <1>0, <1>3 DEF LoopAt, LoopOK
    <2> QED
      BY <1>1, <1>2, <2>1 DEF RetsOK, Workers
  <1>4. CASE /\ Collected(call.ret) # "success"
             /\ IsLoop(call.kind) /\ Collected(call.ret) = "missing_primes"
             /\ call.primes < call.max
    <2>1. call' = [call EXCEPT !.primes = @ + 1, !.at = "sample",
                     !.todo = <<>>, !.ret = <<>>]
      BY <1>4 DEF Collect
    <2>2. DOMAIN call' = DOMAIN call /\ call'.at = "sample"
      BY <1>0, <2>1
    <2>3. call' # Idle
      BY <1>0, <2>2 DEF Idle
    <2>4. degs # "none"
      BY <1>0, <1>4 DEF LoopAt, LoopOK
    <2> QED
      BY <1>0, <2>2, <2>3, <2>4 DEF LoopOK, LoopAnswers
  <1>5. CASE ~(/\ Collected(call.ret) # "success"
               /\ IsLoop(call.kind) /\ Collected(call.ret) = "missing_primes"
               /\ call.primes < call.max)
    <2>1. /\ call' = Idle /\ last'.kind = call.kind /\ last'.max = call.max
          /\ last'.ret = Collected(call.ret)
      BY <1>5 DEF Collect, Answer
    <2>2. ASSUME IsLoop(call.kind), Collected(call.ret) = "missing_primes"
          PROVE  \E j \in Outputs : need[j] > call.max
      <3>1. ~(call.primes < call.max)
        BY <1>5, <2>2
      <3>2. call.primes = call.max
        BY <1>0, <3>1, ReconstructionAssumption
      <3> QED
        BY <1>3, <2>2, <3>2
    <2>3. LoopAnswers'
      BY <1>0, <1>3, <2>1, <2>2 DEF LoopAnswers
    <2> QED
      BY <2>1, <2>3 DEF LoopOK
  <1> QED
    BY <1>4, <1>5

\* A step of a call
LEMMA LoopStep ==
  ASSUME NEW s \in Starts, LoopAt(s), Step
  PROVE  LoopOK' /\ LoopAnswers'
  <1>1. ASSUME NEW ok \in BOOLEAN, GetDegrees(ok) PROVE LoopOK' /\ LoopAnswers'
    <2>1. call # Idle /\ "start" \in DOMAIN call /\ "at" \in DOMAIN call
      BY <1>1 DEF GetDegrees, At, Idle, LoopAt, OwnInv, CallOK
    <2>2. CASE ok
      <3>1. call' = [call EXCEPT !.at = "sample"] /\ degs' = "known"
        BY <1>1, <2>2 DEF GetDegrees
      <3>2. call'.at = "sample" /\ "start" \in DOMAIN call'
        BY <2>1, <3>1
      <3>3. call' # Idle
        BY <3>2 DEF Idle
      <3> QED
        BY <3>1, <3>2, <3>3 DEF LoopOK, LoopAnswers
    <2>3. CASE ~ok
      <3>1. call' = Idle /\ last'.ret = "failed" /\ degs' = "partial"
        BY <1>1, <2>3 DEF GetDegrees, Answer
      <3> QED
        BY <3>1 DEF LoopOK, LoopAnswers
    <2> QED
      BY <2>2, <2>3
  <1>2. ASSUME SampleMore PROVE LoopOK' /\ LoopAnswers'
    <2>1. /\ call # Idle /\ "start" \in DOMAIN call /\ "at" \in DOMAIN call
          /\ call.at = "sample" /\ call.start = s /\ call.primes \in 1 .. MaxPrimes
      BY <1>2, ReconstructionAssumption
         DEF SampleMore, At, Idle, LoopAt, OwnInv, CallOK
    <2>2. /\ call' = [call EXCEPT !.at = "set_up"] /\ SetUp /\ degs' = degs
          /\ cache' = Sampled(call.start, call.primes) /\ cacheMade' = TRUE
      BY <1>2 DEF SampleMore
    <2>3. /\ call'.at = "set_up" /\ "start" \in DOMAIN call'
          /\ call'.kind = call.kind /\ call'.primes = call.primes
          /\ call'.start = s
      BY <2>1, <2>2
    <2>4. call' # Idle
      BY <2>3 DEF Idle
    <2>5. /\ completed' # <<>> /\ ToRec = Outputs \ completed'[1]
      BY <2>2, SetUpKept DEF LoopAt, KeptInv
    <2>6. Enough'
      <3>1. PICK p \in 1 .. MaxPrimes : p = call.primes
        BY <2>1
      <3>2. Wanted(s, p) \subseteq Batches
        BY <3>1, WantedBatches
      <3>3. CASE ToRec = {}
        <4>1. ToRec' = {}
          BY <2>5, <3>3 DEF ToRec
        <4> QED
          BY <4>1 DEF Enough
      <3>4. CASE ToRec # {}
        <4>1. \A b \in Wanted(s, p) : cache'[b] # {}
          BY <2>1, <2>2, <3>1, <3>2, <3>4 DEF Sampled
        <4> QED
          BY <2>3, <3>1, <4>1 DEF Enough, Wanted
      <3> QED
        BY <3>3, <3>4
    <2>7. IsLoop(call.kind) => degs # "none"
      BY <2>1 DEF LoopAt, LoopOK
    <2> QED
      BY <2>2, <2>3, <2>4, <2>5, <2>6, <2>7 DEF LoopOK, LoopAnswers
  <1> QED
    BY <1>1, <1>2, LoopStartWorkers, LoopCollect, LoopReconstruct DEF Step

LEMMA LoopNext == LoopInv /\ [Next]_vars => LoopInv'
  <1> SUFFICES ASSUME LoopInv, [Next]_vars PROVE LoopInv'
    OBVIOUS
  <1>1. RecInv' /\ KeptInv'
    BY RecInvNext, KeptNext DEF LoopInv
  <1>2. SUFFICES ASSUME OneStart' PROVE LoopOK' /\ LoopAnswers'
    BY <1>1 DEF LoopInv, LoopAnswers
  <1>3. ASSUME call' = Idle, ~IsLoop(last'.kind)
        PROVE  LoopOK' /\ LoopAnswers'
    BY <1>3 DEF LoopOK, LoopAnswers
  <1>4. ASSUME NEW ok \in BOOLEAN, AllDegrees(ok) PROVE LoopOK' /\ LoopAnswers'
    BY <1>3, <1>4 DEF AllDegrees, Answer, IsLoop
  <1>5. ASSUME NEW s \in Starts, NEW max \in 1 .. MaxPrimes, Sample(s, max)
        PROVE  LoopOK' /\ LoopAnswers'
    BY <1>3, <1>5 DEF Sample, Answer, IsLoop
  <1>6. ASSUME Reset PROVE LoopOK' /\ LoopAnswers'
    BY <1>3, <1>6 DEF Reset, Answer, IsLoop
  <1>7. ASSUME NEW kind \in Kinds, NEW s \in Starts, NEW max \in 1 .. MaxPrimes,
               NEW n \in 1 .. MaxThreads, Begin(kind, s, max, n)
        PROVE  LoopOK' /\ LoopAnswers'
    <2>1. call' = [kind |-> kind, start |-> s,
                   max |-> IF kind = "mod" THEN 1 ELSE max,
                   primes |-> IF IsLoop(kind) THEN 1 ELSE max, threads |-> n,
                   at |-> IF IsLoop(kind) THEN "degrees" ELSE "set_up",
                   todo |-> <<>>, ret |-> <<>>]
      BY <1>7 DEF Begin
    <2>2. /\ call'.kind = kind /\ "start" \in DOMAIN call'
          /\ IsLoop(kind) => call'.at = "degrees"
      BY <2>1
    <2>3. call' # Idle
      BY <2>2 DEF Idle
    <2> QED
      BY <2>2, <2>3 DEF LoopOK, LoopAnswers
  <1>8. ASSUME ~Reset PROVE OneStart
    BY <1>2, <1>8, StartsNext DEF LoopInv, RecInv, OneStart
  <1>9. ASSUME Step PROVE LoopOK' /\ LoopAnswers'
    <2>1. call # Idle
      <3>1. call.kind # "idle"
        BY Zenon, <1>9
           DEF Step, GetDegrees, SampleMore, StartWorkers, Collect, Reconstruct, At
      <3> QED
        BY <3>1 DEF Idle
    <2>2. ~Reset
      BY <2>1 DEF Reset, Called
    <2>3. PICK s : s = call.start
      OBVIOUS
    <2>4. s \in Starts /\ LoopAt(s)
      BY <1>8, <2>1, <2>2, <2>3, StartOfCall DEF LoopInv, LoopAt
    <2> QED
      BY <1>9, <2>4, LoopStep
  <1>10. CASE UNCHANGED vars
    <2>1. /\ completed' = completed /\ call' = call /\ last' = last /\ need' = need
          /\ bad' = bad /\ degs' = degs /\ cacheMade' = cacheMade /\ cache' = cache
          /\ starts' = starts
      BY <1>10 DEF vars, kept, data
    <2>2. LoopAnswers'
      BY <2>1 DEF LoopInv, LoopAnswers, OneStart
    <2>3. OneStart
      BY <1>2, <2>1 DEF OneStart
    <2>4. LoopOK'
      BY <2>1, <2>3 DEF LoopInv, LoopOK, Enough, RetsOK, ToRec, Wanted
    <2> QED
      BY <2>2, <2>4
  <1> QED
    BY <1>4, <1>5, <1>6, <1>7, <1>9, <1>10 DEF Next

\* The loop of funrec_implem never lacks sample points, gives up for want of primes
\* only if an output needs more than it was allowed, and fails only if the degrees
\* cannot be found or an output cannot be reconstructed (src/capi.cc), whatever was
\* sampled or reconstructed before it, from whatever primes; a completed output
\* ties the calls to one prime, as in the theorems above.
THEOREM LoopAnswersWell == Spec => []LoopAnswers
  <1>1. LoopInv => LoopAnswers
    BY DEF LoopInv
  <1> QED
    BY <1>1, LoopStart, LoopNext, PTL DEF Spec
=============================================================================

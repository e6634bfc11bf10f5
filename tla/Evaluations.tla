----------------------------- MODULE Evaluations -----------------------------
(***************************************************************************)
(* The sample points of a reconstruction and their evaluations, in several *)
(* sessions that exchange files (src/alg_reconstruction.cc, src/graph.cc,  *)
(* src/alg_mp_reconstruction.cc): points are generated from the degrees    *)
(* and saved, parts of the file are evaluated, the evaluations are saved   *)
(* and loaded elsewhere, also into a dummy graph that cannot evaluate.  A  *)
(* process that stops while it writes leaves the beginning of a file.      *)
(*                                                                         *)
(* An entry of a cache is a word of flags and the values of the flagged    *)
(* outputs one after the other.  A value is the output that it is a value  *)
(* of, Garbage if nothing was written there, or Failed.                    *)
(***************************************************************************)
EXTENDS Naturals, Sequences, FiniteSets, SequencesExt

CONSTANTS Sessions,  \* the processes, each with one graph
          Dummies,   \* those whose graph is a dummy graph
          NOutputs,  \* nparsout
          MaxPrimes, \* bound on opt.max_primes
          MaxCalls   \* bound on the calls in all sessions

ASSUME EvaluationsAssumption == /\ Dummies \subseteq Sessions
                                /\ NOutputs \in Nat \ {0}
                                /\ MaxPrimes \in Nat \ {0} /\ MaxCalls \in Nat

Outputs == 1 .. NOutputs
Garbage == 0
Failed == NOutputs + 1

\* A point of a prime is needed by the outputs of this degree or a higher one
Points == (1 .. MaxPrimes) \X Outputs

VARIABLES
  bad,      \* points at which the evaluation of the graph fails: at most one,
            \* of the first prime
  degs,     \* the degrees in a session: "none", "garbage", "known"
  made,     \* rec_data_->cache is not null
  cache,    \* of each session and point: its entries; find returns one of them
  completed,\* outputs that a reconstruction has completed
  known,    \* history: points and outputs that were sampled or loaded
  garbled,  \* history: points with an entry that a load broke off within its
            \* words, in this session or in one that its entries come from
  degFile, pointFile, evalFile,  \* the files, or NoFile
  calls     \* calls made so far

session == <<degs, made, cache, completed, known, garbled>>
files == <<degFile, pointFile, evalFile>>
vars == <<bad, session, files, calls>>

NoFile == <<>>

Init ==
  /\ bad \in {{}} \cup {{<<1, j>>} : j \in Outputs}
  /\ degs = [s \in Sessions |-> "none"] /\ made = [s \in Sessions |-> FALSE]
  /\ cache = [s \in Sessions |-> [p \in Points |-> {}]]
  /\ completed = [s \in Sessions |-> {}]
  /\ known = [s \in Sessions |-> {}] /\ garbled = [s \in Sessions |-> {}]
  /\ degFile = NoFile /\ pointFile = NoFile /\ evalFile = NoFile
  /\ calls = 0

Called == calls < MaxCalls /\ calls' = calls + 1

-----------------------------------------------------------------------------
(* Entries *)

\* Mutant of Packed: a value is stored at the position of its output
Unpacked(flags) == [i \in 1 .. Cardinality(flags) |-> IF i \in flags THEN i ELSE Garbage]

\* The values of the flagged outputs, one after the other
Packed(flags) ==
  [i \in 1 .. Cardinality(flags) |->
     CHOOSE j \in flags : Cardinality({k \in flags : k < j}) = i - 1]

\* A dummy graph fails everywhere (new_dummy_graph)
Fails(s, p) == p \in bad \/ s \in Dummies

\* What evaluate_and_sparse_cache_samples stores.  The flags of a point that
\* fails are not written, and not read either.
Evaluated(s, p, flags) ==
  IF Fails(s, p)
  THEN [flags |-> {}, vals |-> [i \in 1 .. Cardinality(flags) |->
                                  IF i = 1 THEN Failed ELSE Garbage]]
  ELSE [flags |-> flags, vals |-> Packed(flags)]

\* SparselySampledRatFun::evaluate
ValueOf(e, j) ==
  LET at == 1 + Cardinality({k \in e.flags : k < j})
  IN IF e.vals # <<>> /\ e.vals[1] = Failed THEN Failed
     ELSE IF at \in DOMAIN e.vals THEN e.vals[at] ELSE Garbage

\* Mutant of Widened: the flags that are written are those of a full entry
WidenedAll(e) ==
  [flags |-> Outputs, vals |-> [i \in Outputs |-> IF i \in DOMAIN e.vals
                                                  THEN e.vals[i] ELSE Garbage]]

\* dump_evaluations writes as many words for every entry
Widened(e) ==
  [e EXCEPT !.vals = [i \in Outputs |-> IF i \in DOMAIN e.vals THEN e.vals[i]
                                        ELSE Garbage]]

\* The words of an entry after a file that ended within them: those of the flags
\* come first, and what was not read is what the memory held
Torn(e) ==
  [flags : SUBSET Outputs, vals : {[i \in Outputs |-> Garbage]}]
    \cup {[e EXCEPT !.vals = [i \in Outputs |-> IF i <= n THEN e.vals[i]
                                                ELSE Garbage]] : n \in 1 .. NOutputs - 1}

\* The entries of p among pairs of points and entries
EntriesOf(es, p) == {x[2] : x \in {y \in es : y[1] = p}}

\* Mutant of Enter: the cache is made anew, also if there is one
EnterAnew(s, es) ==
  /\ cache' = [cache EXCEPT ![s] = [p \in Points |-> EntriesOf(es, p)]]
  /\ made' = [made EXCEPT ![s] = TRUE]

\* Pairs es of points and entries come into the cache of s: new_entry does not
\* look for the key
Enter(s, es) ==
  /\ cache' = [cache EXCEPT ![s] = [p \in Points |-> @[p] \cup EntriesOf(es, p)]]
  /\ made' = [made EXCEPT ![s] = TRUE]

-----------------------------------------------------------------------------
(* Degrees *)

\* The arrays after algorithm_get_degrees and algorithm_get_var_degrees
Computed(ok) == IF ok THEN "known" ELSE "garbage"

\* all_degrees, parallel_all_degrees, count_sample_points: the arrays are
\* allocated first, and count as available from then on
Degrees(s, ok) ==
  /\ Called
  /\ s \in Dummies => ~ok
  /\ degs' = [degs EXCEPT ![s] = Computed(ok)]
  /\ UNCHANGED <<bad, made, cache, completed, known, garbled, files>>

DumpDegrees(s) ==
  /\ Called
  /\ degs[s] # "none"
  /\ degFile' = <<degs[s]>>
  /\ UNCHANGED <<bad, session, pointFile, evalFile>>

\* The arrays after algorithm_load_degree_info: a file that ends too early
\* leaves the rest of them as they were allocated
ReadDegrees == IF degFile = NoFile THEN "garbage" ELSE degFile[1]

\* load_degrees
LoadDegrees(s) ==
  /\ Called
  /\ degs' = [degs EXCEPT ![s] = ReadDegrees]
  /\ UNCHANGED <<bad, made, cache, completed, known, garbled, files>>

-----------------------------------------------------------------------------
(* Sample points *)

\* algorithm_generate_sample_points: the points for the largest degrees of the
\* first n primes, the same ones for each prime.  Degrees that were never
\* computed ask for any of them.
Generated(s, n) == {(1 .. n) \X d : d \in IF degs[s] = "known" THEN {Outputs}
                                         ELSE SUBSET Outputs}

\* algorithm_verify_sample_points for the outputs that are not completed
Needs(s, p) == {j \in Outputs \ completed[s] : p[2] <= j}

\* gen_sample_points_: the points in the cache are left out, and those that no
\* output needs
NewPoints(s, pts) == {p \in pts : cache[s][p] = {} /\ Needs(s, p) # {}}

Flagged(s, pts) == [p \in NewPoints(s, pts) |-> Needs(s, p)]

\* The points and outputs of asked that can be evaluated
Pairs(s, asked) ==
  {pj \in (DOMAIN asked) \X Outputs :
     pj[2] \in asked[pj[1]] /\ ~Fails(s, pj[1])}

\* evaluate_and_sparse_cache_samples, in one session or in parallel workers
\* whose caches are merged
Evaluate(s, asked) ==
  /\ Enter(s, {<<p, Evaluated(s, p, asked[p])>> : p \in DOMAIN asked})
  /\ known' = [known EXCEPT ![s] = @ \cup Pairs(s, asked)]
  /\ UNCHANGED garbled

\* sample and parallel_sample
Sample(s, n) ==
  /\ Called
  /\ degs[s] # "none"
  /\ \E pts \in Generated(s, n) : Evaluate(s, Flagged(s, pts))
  /\ UNCHANGED <<bad, degs, completed, files>>

\* dump_sample_points: sort_by_mod puts the larger primes first, the others in
\* any order
DumpPoints(s, n) ==
  /\ Called
  /\ degs[s] # "none"
  /\ \E pts \in Generated(s, n) :
       LET asked == Flagged(s, pts)
       IN \E order \in SetToSeqs(DOMAIN asked) :
          /\ \A i, k \in DOMAIN order : i < k => order[i][1] <= order[k][1]
          /\ pointFile' = <<[asked |-> asked, order |-> order,
                             kept |-> Len(order)]>>
  /\ UNCHANGED <<bad, session, degFile, evalFile>>

\* How many points a call asks for: n of them or, for 0, as many as the file says
Wanted(f, n) == IF n = 0 THEN Len(f.order) ELSE n

\* The points from start on
Chunk(f, start, n) == SubSeq(f.order, start + 1, start + Wanted(f, n))

\* load_samples succeeds: the points are among those the file still holds.  For 0
\* points start is only found to be too large when there is nothing to read.
Holds(f, start, n) ==
  /\ n # 0 => start + n <= Len(f.order)
  /\ Wanted(f, n) = 0 \/ start + Wanted(f, n) <= f.kept

\* sample with the points of a file.  Nothing is evaluated if one of them
\* cannot be read.
SampleFile(s, start, n) ==
  /\ Called
  /\ pointFile # NoFile
  /\ IF Holds(pointFile[1], start, n)
     THEN LET f == pointFile[1]
          IN Evaluate(s, [p \in Range(Chunk(f, start, n)) |-> f.asked[p]])
     ELSE UNCHANGED <<made, cache, known, garbled>>
  /\ UNCHANGED <<bad, degs, completed, files>>

\* evaluate_list: the points, of the first prime, are evaluated for every output
EvaluateList(s, pts) ==
  /\ Called
  /\ Evaluate(s, [p \in pts |-> Outputs])
  /\ UNCHANGED <<bad, degs, completed, files>>

-----------------------------------------------------------------------------
(* Evaluations *)

\* find returns one of the entries of a point
Readable(s, p, j) == /\ cache[s][p] # {}
                     /\ \A e \in cache[s][p] : j \in e.flags /\ ValueOf(e, j) = j

\* A reconstruction completes output j with n primes
Complete(s, j, n) ==
  /\ Called
  /\ \A p \in (1 .. n) \X Outputs : p[2] <= j => Readable(s, p, j)
  /\ completed' = [completed EXCEPT ![s] = @ \cup {j}]
  /\ UNCHANGED <<bad, degs, made, cache, known, garbled, files>>

\* A change of the graph: invalidate_reconstruction_cache
Invalidate(s) ==
  /\ Called
  /\ degs' = [degs EXCEPT ![s] = "none"] /\ made' = [made EXCEPT ![s] = FALSE]
  /\ cache' = [cache EXCEPT ![s] = [p \in Points |-> {}]]
  /\ completed' = [completed EXCEPT ![s] = {}]
  /\ known' = [known EXCEPT ![s] = {}]
  /\ garbled' = [garbled EXCEPT ![s] = {}]
  /\ UNCHANGED <<bad, files>>

\* dump_evaluations: every entry of the cache, also those of one point
DumpEvaluations(s) ==
  /\ Called
  /\ made[s]
  /\ evalFile' = <<[entries |-> UNION {{<<p, Widened(e)>> : e \in cache[s][p]} :
                                      p \in Points},
                    known |-> known[s], garbled |-> garbled[s], cut |-> "none"]>>
  /\ UNCHANGED <<bad, session, degFile, pointFile>>

\* The entries of a file are read to its end
ReadAll(s, f) ==
  /\ f.cut = "none"
  /\ Enter(s, f.entries)
  /\ known' = [known EXCEPT ![s] = @ \cup f.known]
  /\ garbled' = [garbled EXCEPT ![s] = @ \cup f.garbled]

\* The file ends after some entries, within the key or the words of another one,
\* which is in the cache once its key was read
ReadSome(s, f) ==
  /\ f.cut # "none"
  /\ \E es \in SUBSET f.entries, x \in f.entries :
     /\ x \notin es
     /\ LET whole == f.garbled \cap {y[1] : y \in es}
        IN \/ /\ f.cut = "key"
              /\ Enter(s, es)
              /\ garbled' = [garbled EXCEPT ![s] = @ \cup whole]
           \/ /\ f.cut = "words"
              /\ \E e \in Torn(x[2]) : Enter(s, es \cup {<<x[1], e>>})
              /\ garbled' = [garbled EXCEPT ![s] = @ \cup whole \cup {x[1]}]
  /\ UNCHANGED known

\* load_evaluations: the cache is made before the file is opened
LoadEvaluations(s) ==
  /\ Called
  /\ degs[s] # "none"
  /\ \/ /\ evalFile = NoFile
        /\ Enter(s, {})
        /\ UNCHANGED <<known, garbled>>
     \/ evalFile # NoFile /\ ReadAll(s, evalFile[1])
     \/ evalFile # NoFile /\ ReadSome(s, evalFile[1])
  /\ UNCHANGED <<bad, degs, completed, files>>

\* The process that writes a file stops: its end is missing.  Points without a
\* header cannot be read, like a file that is not there.
Cut ==
  /\ Called
  /\ \/ /\ pointFile # NoFile
        /\ \/ \E n \in 0 .. pointFile[1].kept :
                /\ n # pointFile[1].kept
                /\ pointFile' = <<[pointFile[1] EXCEPT !.kept = n]>>
           \/ pointFile' = NoFile
        /\ UNCHANGED <<degFile, evalFile>>
     \/ /\ evalFile # NoFile /\ evalFile[1].entries # {}
        /\ \E where \in {"key", "words"} :
             evalFile' = <<[evalFile[1] EXCEPT !.cut = where]>>
        /\ UNCHANGED <<degFile, pointFile>>
     \/ /\ degFile # NoFile /\ degFile' = <<"garbage">>
        /\ UNCHANGED <<pointFile, evalFile>>
  /\ UNCHANGED <<bad, session>>

Next ==
  \/ Cut
  \/ \E s \in Sessions :
       \/ \E ok \in BOOLEAN : Degrees(s, ok)
       \/ DumpDegrees(s) \/ LoadDegrees(s)
       \/ \E n \in 1 .. MaxPrimes : \/ Sample(s, n) \/ DumpPoints(s, n)
                                    \/ \E j \in Outputs : Complete(s, j, n)
       \/ \E start, n \in 0 .. 2 : SampleFile(s, start, n)
       \/ \E j \in Outputs : EvaluateList(s, {<<1, j>>})
       \/ Invalidate(s)
       \/ DumpEvaluations(s) \/ LoadEvaluations(s)

Spec == Init /\ [][Next]_vars
-----------------------------------------------------------------------------
(* Properties *)

\* What a cache holds for an output flagged in an entry is the value of that
\* output at that point, or FAILED, also after it went through files of entries
\* of different lengths and was sampled by somebody else, for some of the
\* outputs, in some of the chunks, and in each entry if a point was entered twice
\* (SparselySampledRatFun::evaluate, evaluate_and_sparse_cache_samples,
\* dump_evaluations, load_evaluations).  The exception is the point at which a
\* load broke off within an entry, which dump_evaluations hands on to whoever
\* loads the file: that point, and no other one.
OwnValuesOnly ==
  \A s \in Sessions, p \in Points : p \notin garbled[s] =>
     \A e \in cache[s][p], j \in Outputs :
        j \in e.flags => ValueOf(e, j) \in {j, Failed}

\* What was sampled with success, or loaded from a whole file of a session that
\* knew it, stays in the cache until the cache is dropped, whatever else is
\* loaded, in full or not: some entry of the point holds the value, and that is
\* the one that find returns unless the point was entered twice
\* (UIntCache::new_entry does not look for the key, find returns one of them).
NothingLost ==
  \A s \in Sessions : \A pj \in known[s] :
     \E e \in cache[s][pj[1]] : pj[2] \in e.flags /\ ValueOf(e, pj[2]) = pj[2]
=============================================================================

------------------------- MODULE Evaluations_proofs -------------------------
(***************************************************************************)
(* Proofs about Evaluations: what a cache gives for an output is the value *)
(* of that output, and nothing that was sampled or loaded is lost, for any *)
(* number of sessions, outputs, primes and calls.                          *)
(*                                                                         *)
(* The inductive invariant says the same of the files as of the caches:    *)
(* entries are garbled only at the points that the history names, and what *)
(* is known is held by some entry of its point.                            *)
(***************************************************************************)
EXTENDS Evaluations, FiniteSetTheorems, SequenceTheorems, TLAPS

Values == 0 .. NOutputs + 1
Entry == [flags : SUBSET Outputs, vals : UNION {[1 .. n -> Values] : n \in 0 .. NOutputs}]

\* An entry with a value for every output, as files have them
Full == [flags : SUBSET Outputs, vals : [Outputs -> Values]]

Own(e) == \A j \in e.flags : ValueOf(e, j) \in {j, Failed}
Gives(e, j) == j \in e.flags /\ ValueOf(e, j) = j

\* An assignment of outputs to some points
Asked(asked) == DOMAIN asked \subseteq Points /\ \A p \in DOMAIN asked : asked[p] \subseteq Outputs

PointFileOK == pointFile # NoFile =>
  /\ {"asked", "order", "kept"} \subseteq DOMAIN pointFile[1]
  /\ Asked(pointFile[1].asked)
  /\ \E n \in Nat : /\ pointFile[1].order \in [1 .. n -> DOMAIN pointFile[1].asked]
                    /\ pointFile[1].kept \in 0 .. n

FileOK(f) ==
  /\ {"entries", "known", "garbled", "cut"} \subseteq DOMAIN f
  /\ f.entries \subseteq Points \X Full
  /\ f.garbled \subseteq Points
  /\ \A x \in f.entries : x[1] \notin f.garbled => Own(x[2])
  /\ f.cut \in {"none", "key", "words"}
  /\ f.known \subseteq Points \X Outputs
  /\ \A pj \in f.known : \E x \in f.entries : x[1] = pj[1] /\ Gives(x[2], pj[2])

EvalFileOK == evalFile # NoFile => FileOK(evalFile[1])

CacheOK(s) ==
  /\ \A p \in Points : p \notin garbled[s] => \A e \in cache[s][p] : Own(e)
  /\ \A pj \in known[s] : \E e \in cache[s][pj[1]] : Gives(e, pj[2])

TypeInv ==
  /\ cache \in [Sessions -> [Points -> SUBSET Entry]]
  /\ known \in [Sessions -> SUBSET (Points \X Outputs)]
  /\ garbled \in [Sessions -> SUBSET Points]

EvalInv ==
  /\ TypeInv
  /\ \A s \in Sessions : CacheOK(s)
  /\ PointFileOK
  /\ EvalFileOK

-----------------------------------------------------------------------------
(* Entries *)

At(flags, j) == 1 + Cardinality({k \in flags : k < j})

\* The outputs before one of them are fewer, and of no other one as many.
LEMMA Positions ==
  ASSUME NEW flags \in SUBSET Outputs
  PROVE  /\ Cardinality(flags) \in 0 .. NOutputs /\ IsFiniteSet(flags)
         /\ \A j \in flags : At(flags, j) \in 1 .. Cardinality(flags)
         /\ \A i, j \in flags : At(flags, i) = At(flags, j) => i = j
<1>. DEFINE B(j) == {k \in flags : k < j}
<1>1. Outputs \subseteq Nat /\ IsFiniteSet(Outputs) /\ Cardinality(Outputs) = NOutputs
  BY EvaluationsAssumption, FS_Interval DEF Outputs
<1>2. IsFiniteSet(flags) /\ Cardinality(flags) <= NOutputs /\ Cardinality(flags) \in Nat
  BY <1>1, FS_Subset, FS_CardinalityType
<1>3. ASSUME NEW j \in flags, NEW S \in SUBSET flags, B(j) \cup {j} \subseteq S
      PROVE  Cardinality(B(j)) \in Nat /\ Cardinality(B(j)) + 1 <= Cardinality(S) /\ Cardinality(S) \in Nat
  <2>1. B(j) \in SUBSET flags /\ j \notin B(j)
    BY <1>1
  <2>2. IsFiniteSet(B(j)) /\ Cardinality(B(j)) \in Nat
    BY <1>2, <2>1, FS_Subset, FS_CardinalityType
  <2>3. Cardinality(B(j) \cup {j}) = Cardinality(B(j)) + 1
    BY <2>1, <2>2, FS_AddElement
  <2>4. IsFiniteSet(S) /\ Cardinality(S) \in Nat
    BY <1>2, FS_Subset, FS_CardinalityType
  <2>5. Cardinality(B(j) \cup {j}) <= Cardinality(S)
    BY <1>3, <2>4, FS_Subset
  <2>. QED  BY <2>2, <2>3, <2>4, <2>5
<1>4. ASSUME NEW j \in flags PROVE At(flags, j) \in 1 .. Cardinality(flags)
  <2>1. Cardinality(B(j)) \in Nat /\ Cardinality(B(j)) + 1 <= Cardinality(flags)
    BY <1>3
  <2>. QED  BY <1>2, <2>1 DEF At
<1>5. ASSUME NEW i \in flags, NEW j \in flags, i < j PROVE At(flags, i) < At(flags, j)
  <2>1. B(j) \in SUBSET flags /\ B(i) \cup {i} \subseteq B(j)
    <3>1. \A k \in flags : k \in Nat
      BY <1>1
    <3>2. \A k \in flags : k < i => k < j
      BY <1>5, <3>1
    <3>. QED  BY <1>5, <3>2
  <2>2. Cardinality(B(i)) \in Nat /\ Cardinality(B(i)) + 1 <= Cardinality(B(j)) /\ Cardinality(B(j)) \in Nat
    BY <1>3, <2>1
  <2>. QED  BY <2>2 DEF At
<1>6. ASSUME NEW i \in flags, NEW j \in flags, At(flags, i) = At(flags, j) PROVE i = j
  <2>1. i \in Nat /\ j \in Nat /\ At(flags, i) \in Int /\ At(flags, j) \in Int
    BY <1>1, <1>2, <1>4
  <2>2. ~(i < j) /\ ~(j < i)
    BY <1>5, <1>6, <2>1
  <2>. QED  BY <2>1, <2>2
<1>. QED  BY <1>2, <1>4, <1>6, EvaluationsAssumption

\* The values of the flagged outputs are those, each at its position.
LEMMA PackedFits ==
  ASSUME NEW flags \in SUBSET Outputs
  PROVE  /\ Packed(flags) \in [1 .. Cardinality(flags) -> flags]
         /\ \A j \in flags : Packed(flags)[At(flags, j)] = j
<1>. DEFINE n == Cardinality(flags)
            f == [j \in flags |-> At(flags, j)]
<1>1. n \in Nat /\ IsFiniteSet(flags)
  BY Positions, EvaluationsAssumption
<1>2. IsFiniteSet(1 .. n) /\ Cardinality(1 .. n) = n
  BY <1>1, FS_Interval
<1>3. f \in Injection(flags, 1 .. n)
  BY Positions DEF Injection, IsInjective
<1>4. f \in Surjection(flags, 1 .. n)
  BY <1>1, <1>2, <1>3, FS_Injection
<1>5. \A i \in 1 .. n : \E j \in flags : At(flags, j) = i
  BY <1>4 DEF Surjection
<1>6. ASSUME NEW i \in 1 .. n
      PROVE  Packed(flags)[i] \in flags /\ At(flags, Packed(flags)[i]) = i
  <2>1. PICK j \in flags : At(flags, j) = i
    BY <1>5
  <2>2. Cardinality({k \in flags : k < j}) = i - 1
    <3>1. At(flags, j) \in 1 .. n
      BY Positions
    <3>2. IsFiniteSet({k \in flags : k < j}) /\ Cardinality({k \in flags : k < j}) \in Nat
      BY <1>1, FS_Subset, FS_CardinalityType
    <3>. QED  BY <2>1, <3>2 DEF At
  <2>3. Packed(flags)[i] = CHOOSE m \in flags : Cardinality({k \in flags : k < m}) = i - 1
    BY DEF Packed
  <2>4. Packed(flags)[i] \in flags /\ Cardinality({k \in flags : k < Packed(flags)[i]}) = i - 1
    BY <2>2, <2>3
  <2>. QED  BY <1>1, <2>4 DEF At
<1>7. Packed(flags) \in [1 .. n -> flags]
  BY <1>6 DEF Packed
<1>8. ASSUME NEW j \in flags PROVE Packed(flags)[At(flags, j)] = j
  <2>1. At(flags, j) \in 1 .. n
    BY Positions
  <2>2. Packed(flags)[At(flags, j)] \in flags /\ At(flags, Packed(flags)[At(flags, j)]) = At(flags, j)
    BY <1>6, <2>1
  <2>. QED  BY <2>2, Positions
<1>. QED  BY <1>7, <1>8

\* What is stored at a point is an entry, and has what was asked if it has flags.
LEMMA StoredFits ==
  ASSUME NEW s, NEW p, NEW flags \in SUBSET Outputs
  PROVE  /\ Evaluated(s, p, flags) \in Entry
         /\ Own(Evaluated(s, p, flags))
         /\ ~Fails(s, p) => \A j \in flags : Gives(Evaluated(s, p, flags), j)
<1>. DEFINE n == Cardinality(flags)
            e == Evaluated(s, p, flags)
<1>1. n \in 0 .. NOutputs /\ NOutputs \in Nat \ {0}
  BY Positions, EvaluationsAssumption
<1>2. CASE Fails(s, p)
  <2>1. [i \in 1 .. n |-> IF i = 1 THEN Failed ELSE Garbage] \in [1 .. n -> Values]
    BY <1>1 DEF Values, Failed, Garbage
  <2>2. e \in Entry
    BY <1>1, <1>2, <2>1 DEF Evaluated, Entry
  <2>3. Own(e)
    BY <1>2 DEF Own, Evaluated
  <2>. QED  BY <1>2, <2>2, <2>3
<1>3. CASE ~Fails(s, p)
  <2>1. e = [flags |-> flags, vals |-> Packed(flags)]
    BY <1>3 DEF Evaluated
  <2>2. Packed(flags) \in [1 .. n -> flags] /\ \A j \in flags : Packed(flags)[At(flags, j)] = j
    BY PackedFits
  <2>3. flags \subseteq Values /\ Failed \notin flags
    BY <1>1 DEF Values, Outputs, Failed
  <2>4. e \in Entry
    BY <1>1, <2>1, <2>2, <2>3 DEF Entry
  <2>5. ASSUME NEW j \in flags PROVE ValueOf(e, j) = j
    <3>1. At(flags, j) \in 1 .. n /\ DOMAIN Packed(flags) = 1 .. n
      BY <2>2, Positions
    <3>2. 1 \in 1 .. n
      BY <1>1, <3>1
    <3>3. Packed(flags)[1] # Failed
      BY <2>2, <2>3, <3>2
    <3>. QED  BY <2>1, <2>2, <3>1, <3>3 DEF ValueOf, At
  <2>. QED  BY <2>1, <2>4, <2>5 DEF Own, Gives
<1>. QED  BY <1>2, <1>3

\* What is written to a file reads as it did.
LEMMA WidenedReads ==
  ASSUME NEW e \in Entry
  PROVE  /\ Widened(e) \in Full /\ Widened(e).flags = e.flags
         /\ \A j \in e.flags : ValueOf(Widened(e), j) = ValueOf(e, j)
<1>. DEFINE w == Widened(e)
            v == [i \in Outputs |-> IF i \in DOMAIN e.vals THEN e.vals[i] ELSE Garbage]
<1>1. PICK n \in 0 .. NOutputs : e.vals \in [1 .. n -> Values]
  BY DEF Entry
<1>2. e.flags \in SUBSET Outputs /\ e = [flags |-> e.flags, vals |-> e.vals] /\ NOutputs \in Nat \ {0}
  BY EvaluationsAssumption DEF Entry
<1>3. w = [flags |-> e.flags, vals |-> v]
  BY <1>2 DEF Widened
<1>4. v \in [1 .. NOutputs -> Values]
  BY <1>1, <1>2 DEF Outputs, Values, Garbage
<1>5. w \in Full
  BY <1>2, <1>3, <1>4 DEF Full, Outputs
<1>6. DOMAIN e.vals = 1 .. n /\ DOMAIN v = 1 .. NOutputs
  BY <1>1, <1>4
<1>7. 0 # Failed /\ 1 \in Outputs
  BY <1>2 DEF Failed, Outputs
<1>8. (v # <<>> /\ v[1] = Failed) <=> (e.vals # <<>> /\ e.vals[1] = Failed)
  <2>1. CASE n = 0
    <3>1. DOMAIN e.vals = {}
      BY <1>6, <2>1
    <3>2. e.vals = <<>>
      <4>1. e.vals \in Seq(Values)
        BY <1>1, SeqDef
      <4>2. Len(e.vals) = 0
        <5>1. Len(e.vals) \in Nat /\ DOMAIN e.vals = 1 .. Len(e.vals)
          BY <4>1, LenProperties
        <5>2. 1 \notin 1 .. Len(e.vals)
          BY <3>1, <5>1
        <5>. QED  BY <5>1, <5>2
      <4>. QED  BY <4>1, <4>2, EmptySeq
    <3>3. v[1] = Garbage
      BY <1>7, <3>1
    <3>. QED  BY <1>7, <3>2, <3>3 DEF Garbage
  <2>2. CASE n # 0
    <3>1. 1 \in DOMAIN e.vals
      BY <1>6, <2>2
    <3>2. v[1] = e.vals[1]
      BY <1>7, <3>1
    <3>3. v # <<>> /\ e.vals # <<>>
      BY <1>2, <1>6, <3>1
    <3>. QED  BY <3>2, <3>3
  <2>. QED  BY <2>1, <2>2
<1>9. ASSUME NEW j \in e.flags PROVE ValueOf(w, j) = ValueOf(e, j)
  <2>1. At(e.flags, j) \in 1 .. NOutputs
    BY <1>2, Positions
  <2>2. At(e.flags, j) \in DOMAIN v
    BY <1>6, <2>1
  <2>3. v[At(e.flags, j)] = IF At(e.flags, j) \in DOMAIN e.vals THEN e.vals[At(e.flags, j)] ELSE Garbage
    BY <2>1 DEF Outputs
  <2>. QED  BY <1>3, <1>8, <2>2, <2>3 DEF ValueOf, At
<1>. QED  BY <1>3, <1>5, <1>9

-----------------------------------------------------------------------------
(* Caches *)

CachesOK == \A s \in Sessions : CacheOK(s)

\* Entries at some points
Listed(es) == es \subseteq Points \X Entry

LEMMA EnterFits ==
  ASSUME TypeInv, NEW s \in Sessions, NEW es, Listed(es), Enter(s, es)
  PROVE  /\ cache' \in [Sessions -> [Points -> SUBSET Entry]]
         /\ \A t \in Sessions \ {s} : cache'[t] = cache[t]
         /\ \A p \in Points : cache'[s][p] = cache[s][p] \cup EntriesOf(es, p)
<1>. DEFINE c == [p \in Points |-> cache[s][p] \cup EntriesOf(es, p)]
<1>1. cache' = [cache EXCEPT ![s] = c]
  BY DEF Enter
<1>2. \A p \in Points : EntriesOf(es, p) \subseteq Entry
  BY DEF EntriesOf, Listed
<1>3. c \in [Points -> SUBSET Entry]
  BY <1>2 DEF TypeInv
<1>. QED  BY <1>1, <1>3 DEF TypeInv

\* Entries come in, with what is known of them and where they may be garbled.
LEMMA EnterKeeps ==
  ASSUME TypeInv, NEW s \in Sessions, NEW es, Listed(es), Enter(s, es), CacheOK(s),
         NEW G, garbled'[s] = garbled[s] \cup G,
         \A x \in es : x[1] \notin G => Own(x[2]),
         NEW K, known'[s] = known[s] \cup K,
         \A pj \in K : \E x \in es : x[1] = pj[1] /\ Gives(x[2], pj[2])
  PROVE  CacheOK(s)'
<1>1. \A p \in Points : cache'[s][p] = cache[s][p] \cup EntriesOf(es, p)
  BY EnterFits
<1>2. ASSUME NEW p \in Points, p \notin garbled'[s], NEW e \in cache'[s][p]
      PROVE  Own(e)
  <2>1. p \notin garbled[s] /\ p \notin G
    BY <1>2
  <2>2. CASE e \in cache[s][p]
    BY <2>1, <2>2 DEF CacheOK
  <2>3. CASE e \in EntriesOf(es, p)
    <3>1. PICK x \in es : x[1] = p /\ x[2] = e
      BY <2>3 DEF EntriesOf
    <3>. QED  BY <2>1, <3>1
  <2>. QED  BY <1>1, <2>2, <2>3
<1>3. ASSUME NEW pj \in known'[s]
      PROVE  \E e \in cache'[s][pj[1]] : Gives(e, pj[2])
  <2>1. CASE pj \in K
    <3>1. PICK x \in es : x[1] = pj[1] /\ Gives(x[2], pj[2])
      BY <2>1
    <3>2. pj[1] \in Points /\ x[2] \in EntriesOf(es, pj[1])
      BY <3>1 DEF Listed, EntriesOf
    <3>3. x[2] \in cache'[s][pj[1]]
      BY <1>1, <3>2
    <3>. QED  BY <3>1, <3>3
  <2>2. CASE pj \in known[s]
    <3>1. PICK e \in cache[s][pj[1]] : Gives(e, pj[2])
      BY <2>2 DEF CacheOK
    <3>2. pj[1] \in Points
      BY <2>2 DEF TypeInv
    <3>. QED  BY <1>1, <3>1, <3>2
  <2>. QED  BY <1>3, <2>1, <2>2
<1>. QED  BY <1>2, <1>3 DEF CacheOK

\* A call in another session
LEMMA Elsewhere ==
  ASSUME NEW t \in Sessions, CacheOK(t), cache'[t] = cache[t], known'[t] = known[t],
         garbled'[t] = garbled[t]
  PROVE  CacheOK(t)'
BY DEF CacheOK

\* A call that enters entries and says what is known of them and where they may be
\* garbled
LEMMA ListKeeps ==
  ASSUME TypeInv, CachesOK, NEW s \in Sessions, NEW es, Listed(es), Enter(s, es),
         NEW K \in SUBSET (Points \X Outputs), known' = [known EXCEPT ![s] = @ \cup K],
         NEW G \in SUBSET Points, garbled' = [garbled EXCEPT ![s] = @ \cup G],
         \A x \in es : x[1] \notin G => Own(x[2]),
         \A pj \in K : \E x \in es : x[1] = pj[1] /\ Gives(x[2], pj[2])
  PROVE  TypeInv' /\ CachesOK'
<1>1. TypeInv'
  <2>1. cache' \in [Sessions -> [Points -> SUBSET Entry]]
    BY EnterFits
  <2>. QED  BY <2>1 DEF TypeInv
<1>2. ASSUME NEW t \in Sessions PROVE CacheOK(t)'
  <2>1. CASE t = s
    <3>1. known'[s] = known[s] \cup K /\ garbled'[s] = garbled[s] \cup G
      BY DEF TypeInv
    <3>2. CacheOK(s)
      BY DEF CachesOK
    <3>3. CacheOK(s)'
      BY <3>1, <3>2, EnterKeeps
    <3>. QED  BY <2>1, <3>3
  <2>2. CASE t # s
    <3>1. known'[t] = known[t] /\ garbled'[t] = garbled[t]
      BY <2>2 DEF TypeInv
    <3>2. cache'[t] = cache[t]
      BY <2>2, EnterFits
    <3>3. CacheOK(t)
      BY DEF CachesOK
    <3>. QED  BY <3>1, <3>2, <3>3, Elsewhere
  <2>. QED  BY <2>1, <2>2
<1>. QED  BY <1>1, <1>2 DEF CachesOK

\* What is evaluated comes in, and is known.
LEMMA EvaluateKeeps ==
  ASSUME TypeInv, CachesOK, NEW s \in Sessions, NEW asked, Asked(asked), Evaluate(s, asked)
  PROVE  TypeInv' /\ CachesOK'
<1>. DEFINE es == {<<p, Evaluated(s, p, asked[p])>> : p \in DOMAIN asked}
            G == {}
<1>1. Listed(es) /\ \A x \in es : Own(x[2])
  BY StoredFits DEF Asked, Listed
<1>2. Enter(s, es) /\ known' = [known EXCEPT ![s] = @ \cup Pairs(s, asked)]
  BY DEF Evaluate
<1>3. garbled' = [garbled EXCEPT ![s] = @ \cup G] /\ G \in SUBSET Points
  BY DEF Evaluate, TypeInv
<1>4. Pairs(s, asked) \subseteq Points \X Outputs
  BY DEF Pairs, Asked
<1>5. ASSUME NEW pj \in Pairs(s, asked)
      PROVE  \E x \in es : x[1] = pj[1] /\ Gives(x[2], pj[2])
  <2>. DEFINE x == <<pj[1], Evaluated(s, pj[1], asked[pj[1]])>>
  <2>1. pj[1] \in DOMAIN asked /\ pj[2] \in asked[pj[1]] /\ ~Fails(s, pj[1])
    BY DEF Pairs
  <2>2. asked[pj[1]] \in SUBSET Outputs
    BY <2>1 DEF Asked
  <2>3. x \in es /\ x[1] = pj[1] /\ Gives(x[2], pj[2])
    BY <2>1, <2>2, StoredFits
  <2>. QED  BY <2>3
<1>. HIDE DEF es, G
<1>. QED  BY <1>1, <1>2, <1>3, <1>4, <1>5, ListKeeps

-----------------------------------------------------------------------------
(* Files *)

\* Points that are generated are asked for what needs them.
LEMMA FlaggedIsAsked ==
  ASSUME NEW s, NEW n \in 1 .. MaxPrimes, NEW pts \in Generated(s, n)
  PROVE  Asked(Flagged(s, pts))
<1>1. pts \subseteq Points
  <2>1. ASSUME NEW d \in SUBSET Outputs PROVE (1 .. n) \X d \subseteq Points
    BY EvaluationsAssumption DEF Points
  <2>2. PICK d \in SUBSET Outputs : pts = (1 .. n) \X d
    BY DEF Generated
  <2>. QED  BY <2>1, <2>2
<1>. QED  BY <1>1 DEF Asked, Flagged, NewPoints, Needs

\* A part of a file of points is asked for what the file says.
LEMMA ChunkIsAsked ==
  ASSUME pointFile # NoFile, PointFileOK, NEW start \in Nat, NEW n \in Nat, Holds(pointFile[1], start, n)
  PROVE  Asked([p \in Range(Chunk(pointFile[1], start, n)) |-> pointFile[1].asked[p]])
<1>. DEFINE f == pointFile[1]
            c == Chunk(f, start, n)
<1>1. Asked(f.asked)
  BY DEF PointFileOK
<1>2. PICK m \in Nat : f.order \in [1 .. m -> DOMAIN f.asked] /\ f.kept \in 0 .. m
  BY DEF PointFileOK
<1>3. f.order \in Seq(DOMAIN f.asked) /\ Len(f.order) = m
  <2>1. f.order \in Seq(DOMAIN f.asked)
    BY <1>2, SeqDef
  <2>. QED  BY <1>2, <2>1, LenProperties
<1>4. \A i \in DOMAIN c : c[i] \in DOMAIN f.asked
  <2>. DEFINE k == Wanted(f, n)
  <2>1. k \in Nat /\ c = SubSeq(f.order, start + 1, start + k) /\ (k = 0 \/ start + k <= m)
    <3>1. k \in Nat /\ c = SubSeq(f.order, start + 1, start + k)
      BY <1>3 DEF Chunk, Wanted
    <3>2. k = 0 \/ start + k <= f.kept
      BY DEF Holds
    <3>. HIDE DEF f, k
    <3>. QED  BY <1>2, <3>1, <3>2
  <2>2. \A i \in start + 1 .. start + k : f.order[i] \in DOMAIN f.asked
    <3>1. \A i \in start + 1 .. start + k : i \in 1 .. m
      BY <2>1
    <3>. QED  BY <1>2, <3>1
  <2>3. c \in Seq(DOMAIN f.asked)
    <3>1. start + 1 \in Int /\ start + k \in Int
      BY <2>1
    <3>. HIDE DEF f, c, k
    <3>2. SubSeq(f.order, start + 1, start + k) \in Seq(DOMAIN f.asked)
      BY <2>2, <3>1, SubSeqProperties
    <3>. QED  BY <2>1, <3>2
  <2>. QED  BY <2>3, LenProperties, ElementOfSeq
<1>5. Range(c) \subseteq DOMAIN f.asked
  BY <1>4 DEF Range
<1>. QED  BY <1>1, <1>5 DEF Asked

\* An entry of a file is an entry, and so is what was read of it.
LEMMA FullIsEntry ==
  ASSUME NEW e \in Full
  PROVE  e \in Entry
<1>1. NOutputs \in 0 .. NOutputs /\ Outputs = 1 .. NOutputs
  BY EvaluationsAssumption DEF Outputs
<1>. QED  BY <1>1 DEF Entry, Full

LEMMA TornFits ==
  ASSUME NEW e \in Full, NEW t \in Torn(e)
  PROVE  t \in Entry
<1>. DEFINE v(n) == [i \in Outputs |-> IF i <= n THEN e.vals[i] ELSE Garbage]
<1>1. Garbage \in Values
  BY EvaluationsAssumption DEF Values, Garbage
<1>2. CASE t \in [flags : SUBSET Outputs, vals : {[i \in Outputs |-> Garbage]}]
  BY <1>1, <1>2, FullIsEntry DEF Full
<1>3. CASE \E n \in 1 .. NOutputs - 1 : t = [e EXCEPT !.vals = v(n)]
  <2>1. PICK n \in 1 .. NOutputs - 1 : t = [e EXCEPT !.vals = v(n)]
    BY <1>3
  <2>2. v(n) \in [Outputs -> Values]
    BY <1>1 DEF Full
  <2>. HIDE DEF v
  <2>3. t = [flags |-> e.flags, vals |-> v(n)] /\ e.flags \in SUBSET Outputs
    BY <2>1 DEF Full
  <2>. QED  BY <2>2, <2>3, FullIsEntry DEF Full
<1>. QED  BY <1>2, <1>3 DEF Torn

LEMMA LoadKeeps ==
  ASSUME TypeInv, CachesOK, EvalFileOK, NEW s \in Sessions, LoadEvaluations(s)
  PROVE  TypeInv' /\ CachesOK'
<1>. DEFINE f == evalFile[1]
            none == {}
<1>1. none \in SUBSET Points /\ none \in SUBSET (Points \X Outputs) /\ \A x \in none : FALSE
  OBVIOUS
<1>2. ASSUME UNCHANGED known PROVE known' = [known EXCEPT ![s] = @ \cup none]
  BY <1>2 DEF TypeInv
<1>3. ASSUME UNCHANGED garbled PROVE garbled' = [garbled EXCEPT ![s] = @ \cup none]
  BY <1>3 DEF TypeInv
<1>4. CASE evalFile = NoFile /\ Enter(s, {}) /\ UNCHANGED <<known, garbled>>
  <2>1. Listed(none) /\ Enter(s, none)
    BY <1>4 DEF Listed
  <2>. HIDE DEF none
  <2>. QED  BY <1>1, <1>2, <1>3, <1>4, <2>1, ListKeeps
<1>5. ASSUME evalFile # NoFile
      PROVE  /\ FileOK(f) /\ Listed(f.entries) /\ f.entries \subseteq Points \X Full
             /\ f.known \in SUBSET (Points \X Outputs) /\ f.garbled \in SUBSET Points
  BY <1>5, FullIsEntry DEF EvalFileOK, FileOK, Listed
<1>6. CASE evalFile # NoFile /\ ReadAll(s, f)
  <2>1. /\ Enter(s, f.entries) /\ known' = [known EXCEPT ![s] = @ \cup f.known]
        /\ garbled' = [garbled EXCEPT ![s] = @ \cup f.garbled]
    BY <1>6 DEF ReadAll
  <2>2. /\ \A x \in f.entries : x[1] \notin f.garbled => Own(x[2])
        /\ \A pj \in f.known : \E x \in f.entries : x[1] = pj[1] /\ Gives(x[2], pj[2])
    BY <1>5, <1>6 DEF FileOK
  <2>. HIDE DEF f
  <2>. QED  BY <1>5, <1>6, <2>1, <2>2, ListKeeps
<1>7. CASE evalFile # NoFile /\ ReadSome(s, f)
  <2>1. PICK es \in SUBSET f.entries, x \in f.entries :
          \/ /\ f.cut = "key" /\ Enter(s, es)
             /\ garbled' = [garbled EXCEPT ![s] = @ \cup (f.garbled \cap {y[1] : y \in es})]
          \/ /\ f.cut = "words" /\ \E e \in Torn(x[2]) : Enter(s, es \cup {<<x[1], e>>})
             /\ garbled' = [garbled EXCEPT ![s] = @ \cup (f.garbled \cap {y[1] : y \in es})
                                                    \cup {x[1]}]
    BY <1>7 DEF ReadSome
  <2>2. known' = [known EXCEPT ![s] = @ \cup none]
    BY <1>2, <1>7 DEF ReadSome
  <2>. DEFINE G == f.garbled \cap {y[1] : y \in es}
  <2>3. Listed(es) /\ G \in SUBSET Points /\ \A y \in es : y[1] \notin G => Own(y[2])
    BY <1>5, <1>7 DEF FileOK, Listed
  <2>4. CASE Enter(s, es) /\ garbled' = [garbled EXCEPT ![s] = @ \cup G]
    <3>. HIDE DEF none, G
    <3>. QED  BY <1>1, <2>2, <2>3, <2>4, ListKeeps
  <2>5. CASE /\ \E e \in Torn(x[2]) : Enter(s, es \cup {<<x[1], e>>})
             /\ garbled' = [garbled EXCEPT ![s] = @ \cup G \cup {x[1]}]
    <3>1. PICK e \in Torn(x[2]) : Enter(s, es \cup {<<x[1], e>>})
      BY <2>5
    <3>. DEFINE es2 == es \cup {<<x[1], e>>}
                G2 == G \cup {x[1]}
    <3>2. x \in Points \X Full
      BY <1>5, <1>7
    <3>3. e \in Entry
      BY <3>2, TornFits
    <3>4. Listed(es2) /\ G2 \in SUBSET Points
      BY <2>3, <3>2, <3>3 DEF Listed
    <3>5. \A y \in es2 : y[1] \notin G2 => Own(y[2])
      BY <2>3
    <3>6. Enter(s, es2) /\ garbled' = [garbled EXCEPT ![s] = @ \cup G2]
      BY <2>5, <3>1 DEF TypeInv
    <3>. HIDE DEF none, es2, G2
    <3>. QED  BY <1>1, <2>2, <3>4, <3>5, <3>6, ListKeeps
  <2>. QED  BY <2>1, <2>4, <2>5
<1>. QED  BY <1>4, <1>6, <1>7 DEF LoadEvaluations

\* A file of points holds what was asked for, in some order.
LEMMA PointsKept ==
  ASSUME NEW s \in Sessions, NEW n \in 1 .. MaxPrimes, DumpPoints(s, n)
  PROVE  PointFileOK'
<1>1. PICK pts \in Generated(s, n) : \E order \in SetToSeqs(DOMAIN Flagged(s, pts)) :
        pointFile' = <<[asked |-> Flagged(s, pts), order |-> order, kept |-> Len(order)]>>
  BY DEF DumpPoints
<1>. DEFINE asked == Flagged(s, pts)
<1>2. PICK order \in SetToSeqs(DOMAIN asked) :
        pointFile' = <<[asked |-> asked, order |-> order, kept |-> Len(order)]>>
  BY <1>1
<1>3. Asked(asked)
  BY FlaggedIsAsked
<1>4. Cardinality(DOMAIN asked) \in Nat
  <2>1. IsFiniteSet(Outputs) /\ IsFiniteSet(1 .. MaxPrimes)
    BY EvaluationsAssumption, FS_Interval DEF Outputs
  <2>2. IsFiniteSet(Points)
    BY <2>1, FS_Product DEF Points
  <2>. QED  BY <1>3, <2>2, FS_Subset, FS_CardinalityType DEF Asked
<1>. HIDE DEF asked
<1>5. order \in [1 .. Cardinality(DOMAIN asked) -> DOMAIN asked]
  BY DEF SetToSeqs
<1>6. /\ pointFile'[1].asked = asked /\ pointFile'[1].order = order
      /\ pointFile'[1].kept = Len(order)
      /\ {"asked", "order", "kept"} \subseteq DOMAIN pointFile'[1]
  BY <1>2
<1>7. Len(order) = Cardinality(DOMAIN asked)
  <2>1. order \in Seq(DOMAIN asked)
    BY <1>4, <1>5, SeqDef
  <2>. QED  BY <1>4, <1>5, <2>1, LenProperties
<1>8. Len(order) \in 0 .. Cardinality(DOMAIN asked)
  BY <1>4, <1>7
<1>. QED  BY <1>3, <1>4, <1>5, <1>6, <1>8 DEF PointFileOK, Asked

\* A file of entries gives what the cache gave.
LEMMA EntriesKept ==
  ASSUME TypeInv, CachesOK, NEW s \in Sessions, DumpEvaluations(s)
  PROVE  EvalFileOK'
<1>. DEFINE es == UNION {{<<p, Widened(e)>> : e \in cache[s][p]} : p \in Points}
<1>1. /\ evalFile' = <<[entries |-> es, known |-> known[s], garbled |-> garbled[s],
                       cut |-> "none"]>>
      /\ CacheOK(s)
  BY DEF DumpEvaluations, CachesOK
<1>2. \A x \in es : \E p \in Points : \E e \in cache[s][p] : x = <<p, Widened(e)>>
  OBVIOUS
<1>3. \A p \in Points : \A e \in cache[s][p] : <<p, Widened(e)>> \in es /\ e \in Entry
  BY DEF TypeInv
<1>. HIDE DEF es
<1>4. ASSUME NEW x \in es
      PROVE  x \in Points \X Full /\ (x[1] \notin garbled[s] => Own(x[2]))
  <2>1. PICK p \in Points : \E e \in cache[s][p] : x = <<p, Widened(e)>>
    BY <1>2
  <2>2. PICK e \in cache[s][p] : x = <<p, Widened(e)>>
    BY <2>1
  <2>3. e \in Entry /\ (p \notin garbled[s] => Own(e))
    BY <1>1, <1>3 DEF CacheOK
  <2>4. Widened(e) \in Full /\ (Own(e) => Own(Widened(e)))
    BY <2>3, WidenedReads DEF Own
  <2>. QED  BY <2>2, <2>3, <2>4
<1>5. ASSUME NEW pj \in known[s]
      PROVE  \E x \in es : x[1] = pj[1] /\ Gives(x[2], pj[2])
  <2>1. PICK e \in cache[s][pj[1]] : Gives(e, pj[2])
    BY <1>1 DEF CacheOK
  <2>2. <<pj[1], Widened(e)>> \in es /\ e \in Entry
    BY <1>3 DEF TypeInv
  <2>3. Gives(Widened(e), pj[2])
    BY <2>1, <2>2, WidenedReads DEF Gives
  <2>. QED  BY <2>2, <2>3
<1>6. known[s] \subseteq Points \X Outputs /\ garbled[s] \subseteq Points
  BY DEF TypeInv
<1>7. es \subseteq Points \X Full /\ \A x \in es : x[1] \notin garbled[s] => Own(x[2])
  BY <1>4
<1>8. /\ evalFile'[1].entries = es /\ evalFile'[1].known = known[s]
      /\ evalFile'[1].garbled = garbled[s] /\ evalFile'[1].cut = "none"
      /\ {"entries", "known", "garbled", "cut"} \subseteq DOMAIN evalFile'[1]
  BY <1>1
<1>9. FileOK(evalFile'[1])
  BY <1>5, <1>6, <1>7, <1>8 DEF FileOK
<1>. QED  BY <1>9 DEF EvalFileOK, FileOK

\* A process that stops leaves files with less in them.
LEMMA CutKeeps ==
  ASSUME PointFileOK, EvalFileOK, Cut
  PROVE  PointFileOK' /\ EvalFileOK'
<1>1. CASE pointFile' = pointFile /\ evalFile' = evalFile
  BY <1>1 DEF PointFileOK, EvalFileOK, FileOK, Asked
<1>2. CASE /\ pointFile # NoFile /\ evalFile' = evalFile
           /\ \E n \in 0 .. pointFile[1].kept : pointFile' = <<[pointFile[1] EXCEPT !.kept = n]>>
  <2>. DEFINE f == pointFile[1]
  <2>1. PICK n \in 0 .. f.kept : pointFile' = <<[f EXCEPT !.kept = n]>>
    BY <1>2
  <2>2. {"asked", "order", "kept"} \subseteq DOMAIN f /\ Asked(f.asked)
    BY <1>2 DEF PointFileOK
  <2>3. PICK m \in Nat : f.order \in [1 .. m -> DOMAIN f.asked] /\ f.kept \in 0 .. m
    BY <1>2 DEF PointFileOK
  <2>4. /\ pointFile'[1].asked = f.asked /\ pointFile'[1].order = f.order
        /\ pointFile'[1].kept = n /\ DOMAIN pointFile'[1] = DOMAIN f
    BY <2>1, <2>2
  <2>5. n \in 0 .. m
    BY <2>3
  <2>. HIDE DEF f
  <2>6. PointFileOK'
    BY <2>2, <2>3, <2>4, <2>5 DEF PointFileOK, Asked
  <2>. QED  BY <1>2, <2>6 DEF EvalFileOK, FileOK
<1>3. CASE /\ evalFile # NoFile /\ pointFile' = pointFile
           /\ \E where \in {"key", "words"} : evalFile' = <<[evalFile[1] EXCEPT !.cut = where]>>
  <2>. DEFINE f == evalFile[1]
  <2>1. PICK where \in {"key", "words"} : evalFile' = <<[f EXCEPT !.cut = where]>>
    BY <1>3
  <2>2. FileOK(f)
    BY <1>3 DEF EvalFileOK
  <2>. DEFINE g == [f EXCEPT !.cut = where]
  <2>3. FileOK(g)
    <3>1. DOMAIN g = DOMAIN f /\ g.entries = f.entries /\ g.known = f.known
          /\ g.garbled = f.garbled /\ g.cut = where
      BY <2>2 DEF FileOK
    <3>. QED  BY <2>2, <3>1 DEF FileOK
  <2>4. FileOK(evalFile'[1])
    BY <2>1, <2>3
  <2>. QED  BY <1>3, <2>4 DEF PointFileOK, EvalFileOK, FileOK, Asked
<1>4. CASE pointFile' = NoFile /\ evalFile' = evalFile
  BY <1>4 DEF PointFileOK, EvalFileOK, FileOK
<1>. QED  BY <1>1, <1>2, <1>3, <1>4 DEF Cut

-----------------------------------------------------------------------------
(* The invariant *)

LEMMA InitEval == Init => EvalInv
<1>. SUFFICES ASSUME Init PROVE EvalInv
  OBVIOUS
<1>1. TypeInv
  BY DEF Init, TypeInv
<1>2. \A s \in Sessions : CacheOK(s)
  BY DEF Init, CacheOK
<1>3. PointFileOK /\ EvalFileOK
  BY DEF Init, PointFileOK, EvalFileOK
<1>. QED  BY <1>1, <1>2, <1>3 DEF EvalInv

\* Calls that leave the caches alone, or the files
LEMMA SameCaches ==
  ASSUME TypeInv, CachesOK, UNCHANGED <<cache, known, garbled>>
  PROVE  TypeInv' /\ CachesOK'
<1>1. TypeInv'
  BY DEF TypeInv
<1>2. \A s \in Sessions : CacheOK(s) => CacheOK(s)'
  BY Elsewhere
<1>. QED  BY <1>1, <1>2 DEF CachesOK

LEMMA SameFiles ==
  ASSUME PointFileOK, EvalFileOK, UNCHANGED <<pointFile, evalFile>>
  PROVE  PointFileOK' /\ EvalFileOK'
BY DEF PointFileOK, EvalFileOK, FileOK, Asked

\* A change of the graph drops what was known with the cache.
LEMMA DroppedKeeps ==
  ASSUME TypeInv, CachesOK, NEW s \in Sessions, Invalidate(s)
  PROVE  TypeInv' /\ CachesOK'
<1>. DEFINE none == [p \in Points |-> {}]
<1>1. /\ cache' = [cache EXCEPT ![s] = none] /\ known' = [known EXCEPT ![s] = {}]
      /\ garbled' = [garbled EXCEPT ![s] = {}]
  BY DEF Invalidate
<1>2. none \in [Points -> SUBSET Entry]
  OBVIOUS
<1>3. TypeInv'
  BY <1>1, <1>2 DEF TypeInv
<1>4. ASSUME NEW t \in Sessions PROVE CacheOK(t)'
  <2>1. CASE t = s
    <3>1. cache'[t] = none /\ known'[t] = {}
      BY <1>1, <2>1 DEF TypeInv
    <3>. QED  BY <3>1 DEF CacheOK
  <2>2. CASE t # s
    <3>1. cache'[t] = cache[t] /\ known'[t] = known[t] /\ garbled'[t] = garbled[t]
      BY <1>1, <2>2 DEF TypeInv
    <3>. QED  BY <3>1, Elsewhere DEF CachesOK
  <2>. QED  BY <2>1, <2>2
<1>. QED  BY <1>3, <1>4 DEF CachesOK

LEMMA SampleKeeps ==
  ASSUME TypeInv, CachesOK, NEW s \in Sessions, NEW n \in 1 .. MaxPrimes, Sample(s, n)
  PROVE  TypeInv' /\ CachesOK'
<1>1. PICK pts \in Generated(s, n) : Evaluate(s, Flagged(s, pts))
  BY DEF Sample
<1>. QED  BY <1>1, FlaggedIsAsked, EvaluateKeeps

LEMMA SampleFileKeeps ==
  ASSUME TypeInv, CachesOK, PointFileOK, NEW s \in Sessions, NEW start \in Nat, NEW n \in Nat,
         SampleFile(s, start, n)
  PROVE  TypeInv' /\ CachesOK'
<1>1. CASE Holds(pointFile[1], start, n)
  <2>. DEFINE asked == [p \in Range(Chunk(pointFile[1], start, n)) |-> pointFile[1].asked[p]]
  <2>1. pointFile # NoFile /\ Evaluate(s, asked)
    BY <1>1 DEF SampleFile
  <2>2. Asked(asked)
    BY <1>1, <2>1, ChunkIsAsked
  <2>. QED  BY <2>1, <2>2, EvaluateKeeps
<1>2. CASE ~Holds(pointFile[1], start, n)
  BY <1>2, SameCaches DEF SampleFile
<1>. QED  BY <1>1, <1>2

LEMMA ListedKeeps ==
  ASSUME TypeInv, CachesOK, NEW s \in Sessions, NEW j \in Outputs, EvaluateList(s, {<<1, j>>})
  PROVE  TypeInv' /\ CachesOK'
<1>. DEFINE asked == [p \in {<<1, j>>} |-> Outputs]
<1>1. <<1, j>> \in Points
  BY EvaluationsAssumption DEF Points
<1>2. Asked(asked)
  BY <1>1 DEF Asked
<1>3. Evaluate(s, asked)
  BY DEF EvaluateList
<1>. QED  BY <1>2, <1>3, EvaluateKeeps

LEMMA NextEval == EvalInv /\ [Next]_vars => EvalInv'
<1>. SUFFICES ASSUME EvalInv, [Next]_vars PROVE TypeInv' /\ CachesOK' /\ PointFileOK' /\ EvalFileOK'
  BY DEF EvalInv, CachesOK
<1>1. TypeInv /\ CachesOK /\ PointFileOK /\ EvalFileOK
  BY DEF EvalInv, CachesOK
<1>2. CASE Cut
  <2>1. UNCHANGED <<cache, known, garbled>>
    BY <1>2 DEF Cut, session
  <2>. QED  BY <1>1, <1>2, <2>1, CutKeeps, SameCaches
<1>3. ASSUME NEW s \in Sessions,
             \/ \E ok \in BOOLEAN : Degrees(s, ok)
             \/ DumpDegrees(s) \/ LoadDegrees(s)
             \/ \E n \in 1 .. MaxPrimes : \E j \in Outputs : Complete(s, j, n)
      PROVE  TypeInv' /\ CachesOK' /\ PointFileOK' /\ EvalFileOK'
  <2>1. UNCHANGED <<cache, known, garbled, pointFile, evalFile>>
    BY <1>3 DEF Degrees, DumpDegrees, LoadDegrees, Complete, session, files
  <2>. QED  BY <1>1, <2>1, SameCaches, SameFiles
<1>4. ASSUME NEW s \in Sessions, NEW n \in 1 .. MaxPrimes, Sample(s, n)
      PROVE  TypeInv' /\ CachesOK' /\ PointFileOK' /\ EvalFileOK'
  <2>1. UNCHANGED <<pointFile, evalFile>>
    BY <1>4 DEF Sample, files
  <2>. QED  BY <1>1, <1>4, <2>1, SampleKeeps, SameFiles
<1>5. ASSUME NEW s \in Sessions, NEW n \in 1 .. MaxPrimes, DumpPoints(s, n)
      PROVE  TypeInv' /\ CachesOK' /\ PointFileOK' /\ EvalFileOK'
  <2>1. UNCHANGED <<cache, known, garbled, evalFile>>
    BY <1>5 DEF DumpPoints, session
  <2>2. EvalFileOK'
    BY <1>1, <2>1 DEF EvalFileOK, FileOK
  <2>. QED  BY <1>1, <1>5, <2>1, <2>2, PointsKept, SameCaches
<1>6. ASSUME NEW s \in Sessions, NEW start \in 0 .. 2, NEW n \in 0 .. 2, SampleFile(s, start, n)
      PROVE  TypeInv' /\ CachesOK' /\ PointFileOK' /\ EvalFileOK'
  <2>1. UNCHANGED <<pointFile, evalFile>>
    BY <1>6 DEF SampleFile, files
  <2>2. start \in Nat /\ n \in Nat
    OBVIOUS
  <2>. QED  BY <1>1, <1>6, <2>1, <2>2, SampleFileKeeps, SameFiles
<1>7. ASSUME NEW s \in Sessions, NEW j \in Outputs, EvaluateList(s, {<<1, j>>})
      PROVE  TypeInv' /\ CachesOK' /\ PointFileOK' /\ EvalFileOK'
  <2>1. UNCHANGED <<pointFile, evalFile>>
    BY <1>7 DEF EvaluateList, files
  <2>. QED  BY <1>1, <1>7, <2>1, ListedKeeps, SameFiles
<1>8. ASSUME NEW s \in Sessions, Invalidate(s)
      PROVE  TypeInv' /\ CachesOK' /\ PointFileOK' /\ EvalFileOK'
  <2>1. UNCHANGED <<pointFile, evalFile>>
    BY <1>8 DEF Invalidate, files
  <2>. QED  BY <1>1, <1>8, <2>1, DroppedKeeps, SameFiles
<1>9. ASSUME NEW s \in Sessions, DumpEvaluations(s)
      PROVE  TypeInv' /\ CachesOK' /\ PointFileOK' /\ EvalFileOK'
  <2>1. UNCHANGED <<cache, known, garbled, pointFile>>
    BY <1>9 DEF DumpEvaluations, session
  <2>2. PointFileOK'
    BY <1>1, <2>1 DEF PointFileOK, Asked
  <2>. QED  BY <1>1, <1>9, <2>1, <2>2, EntriesKept, SameCaches
<1>10. ASSUME NEW s \in Sessions, LoadEvaluations(s)
       PROVE  TypeInv' /\ CachesOK' /\ PointFileOK' /\ EvalFileOK'
  <2>1. UNCHANGED <<pointFile, evalFile>>
    BY <1>10 DEF LoadEvaluations, files
  <2>. QED  BY <1>1, <1>10, <2>1, LoadKeeps, SameFiles
<1>11. CASE UNCHANGED vars
  <2>1. UNCHANGED <<cache, known, garbled, pointFile, evalFile>>
    BY <1>11 DEF vars, session, files
  <2>. QED  BY <1>1, <2>1, SameCaches, SameFiles
<1>. QED  BY <1>2, <1>3, <1>4, <1>5, <1>6, <1>7, <1>8, <1>9, <1>10, <1>11 DEF Next

LEMMA EvalHolds == Spec => []EvalInv
BY InitEval, NextEval, PTL DEF Spec

-----------------------------------------------------------------------------
(* Theorems *)

\* Whatever a session samples, for which outputs, from which part of a file,
\* and whatever it loads, what its cache holds for an output flagged in an
\* entry is that output's own value at that point, or FAILED: the packed
\* positions of evaluate_and_sparse_cache_samples, of dump_evaluations and of
\* SparselySampledRatFun::evaluate agree.  Points at which a load broke off within
\* an entry are excepted, in the session where it did and in those that load what
\* that session dumps; no assumption is made of any other point.
THEOREM CachesHoldOwnValues == Spec => []OwnValuesOnly
<1>1. EvalInv => OwnValuesOnly
  BY DEF EvalInv, CacheOK, Own, OwnValuesOnly
<1>. QED  BY <1>1, EvalHolds, PTL

\* What was sampled with success or loaded from a whole file stays in the cache
\* until the graph changes, in every session, also if its files or those of the
\* others broke off or held points twice.
THEOREM NothingIsLost == Spec => []NothingLost
<1>1. EvalInv => NothingLost
  BY DEF EvalInv, CacheOK, Gives, NothingLost
<1>. QED  BY <1>1, EvalHolds, PTL
=============================================================================

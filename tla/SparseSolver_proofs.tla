------------------------- MODULE SparseSolver_proofs -------------------------
(***************************************************************************)
(* Proofs about the sparse linear solver.                                  *)
(*                                                                         *)
(* An evaluation of the sparse solver writes what it reads from the rows,  *)
(* and the graph has made room for as many values as the solver said when  *)
(* it was learning.  The two numbers come from different code: one is the  *)
(* sum of the lengths of lists made in learn_2_ or reset_needed, the other *)
(* is that of values that are taken row by row, at another time.  They     *)
(* agree because what the lists are made of stays as it is until they are  *)
(* made again, or the solver has to learn again.  To say so one must know  *)
(* that they are lists at all, after row reductions, selections and        *)
(* concatenations; these are folds and sums over any number of rows, so    *)
(* the module begins with what can be said of such, by induction over the  *)
(* natural numbers.                                                        *)
(***************************************************************************)
EXTENDS SparseSolver, TLAPS, WellFoundedInduction, FiniteSetTheorems, SequenceTheorems

-----------------------------------------------------------------------------
(* Numbers and sequences *)

LEMMA LeastOfNaturals ==
  ASSUME NEW T \in SUBSET Nat, T # {}
  PROVE  \E x \in T : \A y \in T : x <= y
  <1>1. PICK x \in T : \A y \in T : ~ (<<y, x>> \in OpToRel(<, Nat))
    BY Zenon, NatLessThanWellFounded, WFMin
  <1>2. ASSUME NEW y \in T PROVE x <= y
    <2>1. <<y, x>> \in Nat \X Nat
      OBVIOUS
    <2>2. ~(y < x)
      BY <1>1, <2>1 DEF OpToRel
    <2> QED
      BY <2>2
  <1> QED
    BY <1>2

\* Induction, for a set instead of a predicate
LEMMA InductiveSet ==
  ASSUME NEW T \in SUBSET Nat, 0 \in T, \A n \in T : n + 1 \in T
  PROVE  T = Nat
  <1> SUFFICES ASSUME Nat \ T # {} PROVE FALSE
    OBVIOUS
  <1>1. PICK x \in Nat \ T : \A y \in Nat \ T : x <= y
    BY LeastOfNaturals
  <1>2. x - 1 \in Nat /\ ~(x <= x - 1)
    BY <1>1
  <1> QED
    BY <1>1, <1>2

\* s is a sequence of n elements, whatever they are.
Listed(s, n) == n \in Nat /\ s = [i \in 1 .. n |-> s[i]]

LEMMA LenOfListed ==
  ASSUME NEW s, NEW n, Listed(s, n)
  PROVE  Len(s) = n /\ DOMAIN s = 1 .. n /\ s \in Seq({s[i] : i \in 1 .. n})
  <1>1. n \in Nat /\ \A i \in 1 .. n : s[i] \in {s[j] : j \in 1 .. n}
    BY DEF Listed
  <1>2. [i \in 1 .. n |-> s[i]] \in Seq({s[i] : i \in 1 .. n})
    BY <1>1, IsASeq
  <1>3. s \in Seq({s[i] : i \in 1 .. n}) /\ DOMAIN s = 1 .. n
    BY <1>2 DEF Listed
  <1> QED
    BY <1>1, <1>3, LenProperties

LEMMA SeqIsListed ==
  ASSUME NEW S, NEW s \in Seq(S)
  PROVE  Listed(s, Len(s))
  BY LenProperties DEF Listed

\* u consists of the n elements of s and the m elements of t.
Joined(u, s, n, t, m) == Listed(s, n) /\ Listed(t, m) /\ u = s \o t

LEMMA ConcatIs ==
  ASSUME NEW s, NEW n, NEW t, NEW m, NEW u, Joined(u, s, n, t, m)
  PROVE  /\ Listed(u, n + m)
         /\ \A i \in 1 .. n : u[i] = s[i]
         /\ \A i \in 1 .. m : u[n + i] = t[i]
  <1>0. Listed(s, n) /\ Listed(t, m) /\ u = s \o t
    BY DEF Joined
  <1> DEFINE S == {s[i] : i \in 1 .. n} \cup {t[i] : i \in 1 .. m}
  <1>1. s \in Seq(S) /\ t \in Seq(S) /\ Len(s) = n /\ Len(t) = m
    <2>1. s \in Seq({s[i] : i \in 1 .. n}) /\ Len(s) = n
      BY <1>0, LenOfListed
    <2>2. t \in Seq({t[i] : i \in 1 .. m}) /\ Len(t) = m
      BY <1>0, LenOfListed
    <2>3. {s[i] : i \in 1 .. n} \subseteq S /\ {t[i] : i \in 1 .. m} \subseteq S
      OBVIOUS
    <2> HIDE DEF S
    <2> QED
      BY <2>1, <2>2, <2>3, SeqMonotonic
  <1> HIDE DEF S
  <1>2. /\ s \o t \in Seq(S) /\ Len(s \o t) = n + m
        /\ \A i \in 1 .. n + m : (s \o t)[i] = IF i <= n THEN s[i] ELSE t[i - n]
    BY <1>1, ConcatProperties
  <1>3. n \in Nat /\ m \in Nat
    BY <1>0 DEF Listed
  <1>4. \A i \in 1 .. m : n + i \in 1 .. n + m /\ ~(n + i <= n) /\ (n + i) - n = i
    BY <1>3
  <1>5. \A i \in 1 .. n : i \in 1 .. n + m
    BY <1>3
  <1>6. Listed(s \o t, n + m)
    BY <1>0, <1>2, SeqIsListed
  <1>7. \A i \in 1 .. m : (s \o t)[n + i] = t[i]
    BY <1>2, <1>4
  <1> QED
    BY <1>0, <1>2, <1>3, <1>5, <1>6, <1>7

LEMMA ConcatListed ==
  ASSUME NEW s, NEW n, NEW t, NEW m, Listed(s, n), Listed(t, m)
  PROVE  Listed(s \o t, n + m)
  <1> DEFINE u == s \o t
  <1> HIDE DEF u
  <1>1. Listed(u, n + m)
    BY ConcatIs DEF u, Joined
  <1> QED
    BY <1>1 DEF u

LEMMA AppendListed ==
  ASSUME NEW s, NEW n, Listed(s, n), NEW e
  PROVE  /\ Listed(Append(s, e), n + 1)
         /\ \A i \in 1 .. n : Append(s, e)[i] = s[i]
         /\ Append(s, e)[n + 1] = e
  <1> DEFINE S == {s[i] : i \in 1 .. n} \cup {e}
  <1>1. s \in Seq(S) /\ e \in S /\ Len(s) = n
    <2>1. s \in Seq({s[i] : i \in 1 .. n}) /\ Len(s) = n
      BY LenOfListed
    <2>2. {s[i] : i \in 1 .. n} \subseteq S /\ e \in S
      OBVIOUS
    <2> HIDE DEF S
    <2> QED
      BY <2>1, <2>2, SeqMonotonic
  <1> HIDE DEF S
  <1>2. /\ Append(s, e) \in Seq(S) /\ Len(Append(s, e)) = n + 1
        /\ \A i \in 1 .. n : Append(s, e)[i] = s[i]
        /\ Append(s, e)[n + 1] = e
    BY <1>1, AppendProperties
  <1> QED
    BY <1>2, SeqIsListed

LEMMA EmptyListed ==
  /\ Listed(<<>>, 0)
  /\ \A s, n : Listed(s, n) => s \o <<>> = s /\ <<>> \o s = s
  BY LenOfListed, ConcatEmptySeq DEF Listed

LEMMA FunctionIsListed ==
  ASSUME NEW n \in Nat, NEW f, f = [i \in 1 .. n |-> f[i]]
  PROVE  Listed(f, n) /\ Listed(f \o <<>>, n) /\ f \o <<>> = f
  BY EmptyListed DEF Listed

-----------------------------------------------------------------------------
(* FlattenSeq: f[i] is the first i sequences of ss, one after the other. *)
Glued(f, ss, n) == f = [i \in 1 .. n |-> IF i = 1 THEN ss[i] ELSE f[i - 1] \o ss[i]]

LEMMA GluedExists ==
  ASSUME NEW ss, NEW n \in Nat
  PROVE  \E f : Glued(f, ss, n)
  <1> DEFINE T == {m \in Nat : \E f : Glued(f, ss, m)}
  <1>1. 0 \in T
    <2>1. Glued([i \in 1 .. 0 |-> 0], ss, 0)
      BY DEF Glued
    <2> QED
      BY <2>1
  <1>2. ASSUME NEW m \in T PROVE m + 1 \in T
    <2>1. PICK f : Glued(f, ss, m)
      OBVIOUS
    <2> DEFINE g == [i \in 1 .. m + 1 |-> IF i = m + 1 THEN IF i = 1 THEN ss[i] ELSE f[m] \o ss[i] ELSE f[i]]
    <2>2. ASSUME NEW i \in 1 .. m + 1 PROVE g[i] = IF i = 1 THEN ss[i] ELSE g[i - 1] \o ss[i]
      <3>1. CASE i = m + 1
        <4>1. i # 1 => i - 1 = m /\ m \in 1 .. m + 1 /\ m # m + 1
          BY <3>1
        <4> QED
          BY <3>1, <4>1
      <3>2. CASE i # m + 1
        <4>1. i \in 1 .. m /\ (i # 1 => i - 1 \in 1 .. m + 1 /\ i - 1 # m + 1)
          BY <3>2
        <4> QED
          BY <3>2, <4>1, <2>1 DEF Glued
      <3> QED
        BY <3>1, <3>2
    <2>3. Glued(g, ss, m + 1)
      BY <2>2 DEF Glued
    <2> QED
      BY <2>3
  <1> HIDE DEF T
  <1>3. T = Nat
    BY <1>1, <1>2, InductiveSet DEF T
  <1> QED
    BY <1>3 DEF T

LEMMA FlattenIsGlued ==
  ASSUME NEW ss, NEW n, Listed(ss, n), n # 0
  PROVE  \E f : Glued(f, ss, n) /\ FlattenSeq(ss) = f[n]
  <1>1. Len(ss) = n /\ n \in Nat
    BY LenOfListed DEF Listed
  <1> DEFINE f == CHOOSE f : f = [i \in 1 .. n |-> IF i = 1 THEN ss[i] ELSE f[i - 1] \o ss[i]]
  <1>2. Glued(f, ss, n)
    BY <1>1, GluedExists DEF Glued
  <1>3. FlattenSeq(ss) = f[n]
    BY <1>1 DEF FlattenSeq
  <1> QED
    BY <1>2, <1>3
LEMMA FlattenEmpty ==
  ASSUME NEW ss, Listed(ss, 0)
  PROVE  ss = <<>> /\ FlattenSeq(ss) = <<>> /\ Listed(<<>>, 0)
  <1>1. Len(ss) = 0 /\ ss = <<>>
    BY LenOfListed, EmptyListed DEF Listed
  <1> QED
    BY <1>1, EmptyListed DEF FlattenSeq

(* Two sequences of sequences of the same lengths, but for z empty ones,   *)
(* are as long when flattened.                                             *)
LEMMA FlattenLengths ==
  ASSUME NEW ss, NEW tt, NEW z \in Nat, NEW d \in Nat, Listed(ss, z + d), Listed(tt, d),
         \A k \in 1 .. z : ss[k] = <<>>,
         \A k \in 1 .. d : \E c : Listed(ss[z + k], c) /\ Listed(tt[k], c)
  PROVE  \E c : Listed(FlattenSeq(ss), c) /\ Listed(FlattenSeq(tt), c)
  <1>1. CASE d = 0 /\ z = 0
    <2>1. z + d = 0
      BY <1>1
    <2>2. Listed(ss, 0) /\ Listed(tt, 0)
      BY <1>1, <2>1
    <2> QED
      BY <2>2, FlattenEmpty
  <1>2. CASE z + d # 0
    <2>1. PICK f : Glued(f, ss, z + d) /\ FlattenSeq(ss) = f[z + d]
      BY <1>2, FlattenIsGlued
    <2>2. \A i \in 1 .. z + d : f[i] = IF i = 1 THEN ss[i] ELSE f[i - 1] \o ss[i]
      BY <2>1 DEF Glued
    <2>3. \A m \in 1 .. z : f[m] = <<>>
      <3> DEFINE T == {m \in Nat : m \in 1 .. z => f[m] = <<>>}
      <3>1. \A n \in T : n + 1 \in T
        <4> SUFFICES ASSUME NEW n \in T, n + 1 \in 1 .. z PROVE f[n + 1] = <<>>
          OBVIOUS
        <4>1. n + 1 \in 1 .. z + d /\ (n # 0 => n \in 1 .. z /\ (n + 1) - 1 = n /\ n + 1 # 1)
          OBVIOUS
        <4>2. CASE n = 0
          BY <2>2, <4>1, <4>2
        <4>3. CASE n # 0
          BY <2>2, <4>1, <4>3, EmptyListed
        <4> QED
          BY <4>2, <4>3
      <3>2. T \in SUBSET Nat /\ 0 \in T
        OBVIOUS
      <3> HIDE DEF T
      <3>3. T = Nat
        BY <3>1, <3>2, InductiveSet
      <3> QED
        BY <3>3 DEF T
    <2>4. CASE d = 0
      <3>1. f[z + d] = <<>>
        BY <2>3, <2>4, <1>2
      <3> QED
        BY <2>1, <2>4, <3>1, FlattenEmpty
    <2>5. CASE d # 0
      <3>1. PICK g : Glued(g, tt, d) /\ FlattenSeq(tt) = g[d]
        BY <2>5, FlattenIsGlued
      <3>2. \A i \in 1 .. d : g[i] = IF i = 1 THEN tt[i] ELSE g[i - 1] \o tt[i]
        BY <3>1 DEF Glued
      <3> DEFINE Same(m) == \E c : Listed(f[z + m], c) /\ Listed(g[m], c)
                 T == {m \in Nat : m \in 1 .. d => Same(m)}
      <3>3. ASSUME NEW n \in Nat, n \in 1 .. d => Same(n), n + 1 \in 1 .. d
            PROVE  Same(n + 1)
        <4>1. PICK b : Listed(ss[z + (n + 1)], b) /\ Listed(tt[n + 1], b)
          BY <3>3
        <4>2. n \in Nat /\ n + 1 <= d
          BY <3>3
        <4>5. z + (n + 1) \in 1 .. z + d /\ (z + (n + 1)) - 1 = z + n /\ (n + 1) - 1 = n
          BY <4>2
        <4>6. n # 0 => n \in 1 .. d /\ z + (n + 1) # 1 /\ n + 1 # 1
          BY <4>2
        <4>3. CASE n = 0
          <5>1. g[n + 1] = tt[n + 1]
            BY <3>2, <4>2, <4>3
          <5>2. f[z + (n + 1)] = ss[z + (n + 1)]
            <6>1. CASE z = 0
              BY <2>2, <4>2, <4>5, <4>3, <6>1
            <6>2. CASE z # 0
              <7>1. f[z + n] = <<>>
                BY <2>3, <4>3, <6>2
              <7>2. z + (n + 1) # 1
                BY <4>2, <6>2
              <7>3. f[z + (n + 1)] = f[z + n] \o ss[z + (n + 1)]
                BY <2>2, <4>5, <7>2
              <7> QED
                BY <7>1, <7>3, <4>1, EmptyListed
            <6> QED
              BY <6>1, <6>2
          <5> QED
            BY <5>1, <5>2, <4>1
        <4>4. CASE n # 0
          <5>1. PICK c : Listed(f[z + n], c) /\ Listed(g[n], c)
            BY <3>3, <4>4, <4>6
          <5>2. f[z + (n + 1)] = f[z + n] \o ss[z + (n + 1)]
            BY <2>2, <4>4, <4>5, <4>6
          <5>3. g[n + 1] = g[n] \o tt[n + 1]
            BY <3>2, <3>3, <4>4, <4>5, <4>6
          <5>4. Listed(f[z + (n + 1)], c + b)
            BY <5>1, <5>2, <4>1, ConcatListed
          <5>5. Listed(g[n + 1], c + b)
            BY <5>1, <5>3, <4>1, ConcatListed
          <5> QED
            BY <5>4, <5>5
        <4> QED
          BY <4>3, <4>4
      <3> HIDE DEF Same
      <3>4. 0 \in T /\ \A n \in T : n + 1 \in T
        <4>1. \A n \in Nat : (n \in 1 .. d => Same(n)) /\ n + 1 \in 1 .. d => Same(n + 1)
          BY <3>3
        <4>2. \A n \in Nat : n + 1 \in Nat
          OBVIOUS
        <4> QED
          BY <4>1, <4>2
      <3> HIDE DEF T
      <3>5. T = Nat
        BY <3>4, InductiveSet DEF T
      <3>6. d \in T /\ d \in 1 .. d
        BY <3>5, <2>5
      <3> QED
        BY <2>1, <3>1, <3>6 DEF T, Same
    <2> QED
      BY <2>4, <2>5
  <1> QED
    BY <1>1, <1>2

\* d sequences of c elements make one of d * c.
LEMMA FlattenEven ==
  ASSUME NEW tt, NEW d, NEW c \in Nat, Listed(tt, d), \A k \in 1 .. d : Listed(tt[k], c)
  PROVE  Listed(FlattenSeq(tt), d * c)
  <1>0. d \in Nat
    BY DEF Listed
  <1>1. CASE d = 0
    <2>1. d * c = 0
      BY <1>1
    <2> QED
      BY <1>1, <2>1, FlattenEmpty
  <1>2. CASE d # 0
    <2>1. PICK g : Glued(g, tt, d) /\ FlattenSeq(tt) = g[d]
      BY <1>2, FlattenIsGlued
    <2>2. \A i \in 1 .. d : g[i] = IF i = 1 THEN tt[i] ELSE g[i - 1] \o tt[i]
      BY <2>1 DEF Glued
    <2> DEFINE T == {m \in Nat : m \in 1 .. d => Listed(g[m], m * c)}
    <2>3. \A n \in T : n + 1 \in T
      <3> SUFFICES ASSUME NEW n \in T, n + 1 \in 1 .. d PROVE Listed(g[n + 1], (n + 1) * c)
        OBVIOUS
      <3>1. (n + 1) * c = n * c + c /\ (n + 1) - 1 = n /\ n \in Nat
        BY <1>0
      <3>2. CASE n = 0
        BY <2>2, <3>1, <3>2
      <3>3. CASE n # 0
        <4>1. n \in 1 .. d /\ n + 1 # 1
          BY <3>1, <3>3, <1>0
        <4>2. g[n + 1] = g[n] \o tt[n + 1]
          BY <2>2, <3>1, <4>1
        <4>3. Listed(g[n], n * c) /\ Listed(tt[n + 1], c)
          BY <4>1
        <4>4. Listed(g[n] \o tt[n + 1], n * c + c)
          BY <4>3, ConcatListed
        <4> QED
          BY <4>2, <4>4, <3>1
      <3> QED
        BY <3>2, <3>3
    <2>4. T \in SUBSET Nat /\ 0 \in T
      OBVIOUS
    <2> HIDE DEF T
    <2>5. T = Nat
      BY <2>3, <2>4, InductiveSet
    <2>6. d \in T /\ d \in 1 .. d
      BY <2>5, <1>0, <1>2
    <2> QED
      BY <2>1, <2>6 DEF T
  <1> QED
    BY <1>1, <1>2

LEMMA MaxOfNumbers ==
  ASSUME NEW n \in Nat, NEW s \in SUBSET (1 .. n), s # {}
  PROVE  Max(s) \in s /\ \A y \in s : y <= Max(s)
  <1> DEFINE T == {m \in Nat : \A y \in s : y <= m}
  <1>1. n \in T
    OBVIOUS
  <1>2. PICK x \in T : \A m \in T : x <= m
    BY <1>1, LeastOfNaturals
  <1>3. x \in s
    <2>1. PICK e \in s : TRUE
      OBVIOUS
    <2>2. x - 1 \in Nat
      BY <2>1
    <2>3. x - 1 \notin T
      BY <1>2, <2>2
    <2>4. PICK y \in s : ~(y <= x - 1)
      BY <2>2, <2>3
    <2> QED
      BY <2>4
  <1>4. \E y \in s : \A z \in s : y >= z
    BY <1>3
  <1> QED
    BY <1>4 DEF Max

LEMMA FromOne ==
  ASSUME NEW b \in Int
  PROVE  DOMAIN From(1, b) = 1 .. b /\ \A k \in 1 .. b : From(1, b)[k] = k
  <1>1. b - 1 + 1 = b /\ \A k \in 1 .. b : 1 + k - 1 = k
    OBVIOUS
  <1> QED
    BY <1>1 DEF From

-----------------------------------------------------------------------------
(* Folds.  FoldLeft is defined by a function on the sets of positions that *)
(* are still to be taken; here it is shown to go through the positions     *)
(* one after the other.  Step is that of any of the three folds, p says    *)
(* of which and what with.                                                 *)

CompactStep(gone, a, k) ==
  IF k \in gone THEN a ELSE [rows |-> Swapped(a.rows, a.n + 1, k), n |-> a.n + 1]

EchelonStep(rows, maxcol, keep, a, k) ==
  EchelonRow(a, Substituted(Append(a.rows, rows[k]), Len(a.rows) + 1, From(1, Len(a.rows)), maxcol),
             maxcol, keep)

BackStep(n, maxcol, needed, a, k) ==
  IF First(a.rows[k]) \in needed
  THEN [rows |-> [a.rows EXCEPT ![k] = Substituted(a.rows, k, From(k + 1, n), maxcol).row],
        deps |-> [a.deps EXCEPT ![k] = @ \cup Substituted(a.rows, k, From(k + 1, n), maxcol).deps]]
  ELSE a

Step(p, a, k) ==
  CASE p.fold = "compacted" -> CompactStep(p.gone, a, k)
    [] p.fold = "echelon" -> EchelonStep(p.rows, p.maxcol, p.keep, a, k)
    [] p.fold = "back" -> BackStep(p.n, p.maxcol, p.needed, a, k)

\* The function of FoldLeft for the first m positions, and the values in turn
Tree(it, p, base, m) ==
  it = [s \in SUBSET (1 .. m) |-> IF s = {} THEN base ELSE Step(p, it[s \ {Max(s)}], Max(s))]
Run(g, p, base, n) ==
  g[0] = base /\ \A m \in 0 .. n - 1 : g[m + 1] = Step(p, g[m], m + 1)

\* There is such a function: FoldLeft takes any that is one.
LEMMA TreeExists ==
  ASSUME NEW p, NEW base, NEW n \in Nat
  PROVE  \E it : Tree(it, p, base, n)
  <1> DEFINE T == {m \in Nat : \E it : Tree(it, p, base, m)}
  <1>1. 0 \in T
    <2> DEFINE it == [s \in SUBSET (1 .. 0) |-> base]
    <2>1. \A s \in SUBSET (1 .. 0) : s = {}
      OBVIOUS
    <2>2. Tree(it, p, base, 0)
      BY <2>1 DEF Tree
    <2> QED
      BY <2>2
  <1>2. ASSUME NEW m \in Nat, m \in T PROVE m + 1 \in T
    <2>1. PICK it : Tree(it, p, base, m)
      BY <1>2
    <2> DEFINE h == [s \in SUBSET (1 .. m + 1) |->
                       IF s = {} THEN base
                       ELSE IF m + 1 \in s THEN Step(p, it[s \ {m + 1}], m + 1) ELSE it[s]]
    <2>2. \A s \in SUBSET (1 .. m) : it[s] = IF s = {} THEN base ELSE Step(p, it[s \ {Max(s)}], Max(s))
      BY <2>1 DEF Tree
    <2>3. ASSUME NEW s \in SUBSET (1 .. m) PROVE h[s] = it[s]
      <3>1. s \in SUBSET (1 .. m + 1) /\ m + 1 \notin s /\ {} \in SUBSET (1 .. m)
        OBVIOUS
      <3>2. s = {} => it[s] = base
        BY <2>2, <3>1
      <3> QED
        BY <3>1, <3>2
    <2>4. \A y \in 1 .. m + 1 : y # m + 1 => y \in 1 .. m
      OBVIOUS
    <2>5. ASSUME NEW s \in SUBSET (1 .. m + 1), s # {}
          PROVE  h[s] = Step(p, h[s \ {Max(s)}], Max(s))
      <3>1. m + 1 \in Nat
        OBVIOUS
      <3>2. Max(s) \in s /\ \A y \in s : y <= Max(s)
        BY <2>5, <3>1, MaxOfNumbers
      <3>3. CASE m + 1 \in s
        <4>1. Max(s) \in 1 .. m + 1 /\ m + 1 <= Max(s)
          BY <3>2, <3>3
        <4>2. Max(s) = m + 1
          BY <4>1
        <4>3. s \ {m + 1} \in SUBSET (1 .. m)
          BY <2>4
        <4>4. h[s] = Step(p, it[s \ {m + 1}], m + 1)
          BY <2>5, <3>3
        <4> QED
          BY <4>2, <4>3, <4>4, <2>3
      <3>4. CASE m + 1 \notin s
        <4>1. s \in SUBSET (1 .. m) /\ s \ {Max(s)} \in SUBSET (1 .. m)
          BY <3>4, <2>4
        <4> QED
          BY <4>1, <2>2, <2>3, <2>5
      <3> QED
        BY <3>3, <3>4
    <2>6. h = [s \in SUBSET (1 .. m + 1) |-> IF s = {} THEN base ELSE Step(p, h[s \ {Max(s)}], Max(s))]
      BY <2>5
    <2>7. Tree(h, p, base, m + 1)
      BY <2>6 DEF Tree
    <2> QED
      BY <2>7
  <1> HIDE DEF T
  <1>3. T = Nat
    BY <1>1, <1>2, InductiveSet DEF T
  <1> QED
    BY <1>3 DEF T

LEMMA TreeRuns ==
  ASSUME NEW p, NEW base, NEW n \in Nat, NEW it, Tree(it, p, base, n)
  PROVE  \E g : Run(g, p, base, n) /\ it[1 .. n] = g[n]
  <1> DEFINE g == [m \in 0 .. n |-> it[1 .. m]]
  <1>1. ASSUME NEW m \in 0 .. n - 1 PROVE g[m + 1] = Step(p, g[m], m + 1)
    <2>1. 1 .. m + 1 \in SUBSET (1 .. n) /\ m + 1 \in 1 .. m + 1 /\ m + 1 \in Nat
      OBVIOUS
    <2>2. Max(1 .. m + 1) \in 1 .. m + 1 /\ m + 1 <= Max(1 .. m + 1)
      BY <2>1, MaxOfNumbers
    <2>3. Max(1 .. m + 1) = m + 1
      BY <2>1, <2>2
    <2>4. (1 .. m + 1) \ {m + 1} = 1 .. m /\ m \in 0 .. n /\ m + 1 \in 0 .. n
      OBVIOUS
    <2>5. it[1 .. m + 1] = Step(p, it[1 .. m], m + 1)
      BY <2>1, <2>3, <2>4 DEF Tree
    <2> QED
      BY <2>4, <2>5
  <1>2. g[0] = base /\ g[n] = it[1 .. n]
    <2>1. 1 .. 0 = {} /\ {} \in SUBSET (1 .. n) /\ 0 \in 0 .. n /\ n \in 0 .. n
      OBVIOUS
    <2> QED
      BY <2>1 DEF Tree
  <1>3. Run(g, p, base, n)
    BY <1>1, <1>2 DEF Run
  <1> HIDE DEF g
  <1> QED
    BY <1>2, <1>3

\* The three folds are runs of their steps.
LEMMA CompactRuns ==
  ASSUME NEW rows, NEW gone, NEW n, Listed(rows, n)
  PROVE  \E g : /\ Run(g, [fold |-> "compacted", gone |-> gone], [rows |-> rows \o <<>>, n |-> 0], n)
              /\ Compacted(rows, gone) = g[n]
  <1> DEFINE p == [fold |-> "compacted", gone |-> gone]
             base == [rows |-> rows \o <<>>, n |-> 0]
             seq == From(1, Len(rows))
             St(a, k) == CompactStep(gone, a, k)
             body(h) == [s \in SUBSET DOMAIN seq |->
                           IF s = {} THEN base ELSE St(h[s \ {Max(s)}], seq[Max(s)])]
             it == CHOOSE h : h = body(h)
  <1>1. Compacted(rows, gone) = it[DOMAIN seq]
    BY Zenon DEF Compacted, FoldLeft, MapThenFoldSet, CompactStep
  <1>2. n \in Nat /\ DOMAIN seq = 1 .. n /\ \A k \in 1 .. n : seq[k] = k
    BY LenOfListed, FromOne DEF Listed
  <1>3. \A a, k : St(a, k) = Step(p, a, k)
    BY DEF Step
  <1>4. ASSUME NEW s \in SUBSET (1 .. n), s # {} PROVE Max(s) \in 1 .. n
    BY <1>2, <1>4, MaxOfNumbers
  <1> HIDE DEF seq, St
  <1>5. \A h : body(h) = [s \in SUBSET (1 .. n) |-> IF s = {} THEN base ELSE St(h[s \ {Max(s)}], Max(s))]
    BY <1>2, <1>4
  <1> HIDE DEF body, p, base
  <1>6. \A h : Tree(h, p, base, n) <=> h = body(h)
    BY <1>3, <1>5 DEF Tree
  <1>7. it = body(it)
    BY <1>2, <1>6, TreeExists
  <1> HIDE DEF it
  <1> QED
    BY <1>1, <1>2, <1>6, <1>7, TreeRuns DEF p, base

LEMMA EchelonRuns ==
  ASSUME NEW rows, NEW maxcol, NEW keep, NEW n, Listed(rows, n)
  PROVE  \E g : /\ Run(g, [fold |-> "echelon", rows |-> rows, maxcol |-> maxcol, keep |-> keep],
                     [rows |-> <<>>, deps |-> <<>>], n)
              /\ Echelon(rows, maxcol, keep) = g[n]
  <1> DEFINE p == [fold |-> "echelon", rows |-> rows, maxcol |-> maxcol, keep |-> keep]
             base == [rows |-> <<>>, deps |-> <<>>]
             seq == rows
             St(a, k) == EchelonStep(rows, maxcol, keep, a, k)
             body(h) == [s \in SUBSET DOMAIN seq |->
                           IF s = {} THEN base ELSE St(h[s \ {Max(s)}], Max(s))]
             it == CHOOSE h : h = body(h)
  <1>1. Echelon(rows, maxcol, keep) = it[DOMAIN seq]
    BY Zenon DEF Echelon, FoldLeft, MapThenFoldSet, EchelonStep
  <1>2. n \in Nat /\ DOMAIN seq = 1 .. n
    BY LenOfListed DEF Listed
  <1>3. \A a, k : St(a, k) = Step(p, a, k)
    BY DEF Step
  <1>4. ASSUME NEW s \in SUBSET (1 .. n), s # {} PROVE Max(s) \in 1 .. n
    BY <1>2, <1>4, MaxOfNumbers
  <1> HIDE DEF seq, St
  <1>5. \A h : body(h) = [s \in SUBSET (1 .. n) |-> IF s = {} THEN base ELSE St(h[s \ {Max(s)}], Max(s))]
    BY <1>2, <1>4
  <1> HIDE DEF body, p, base
  <1>6. \A h : Tree(h, p, base, n) <=> h = body(h)
    BY <1>3, <1>5 DEF Tree
  <1>7. it = body(it)
    BY <1>2, <1>6, TreeExists
  <1> HIDE DEF it
  <1> QED
    BY <1>1, <1>2, <1>6, <1>7, TreeRuns DEF p, base

LEMMA BackRuns ==
  ASSUME NEW c, NEW deps, NEW maxcol, NEW needed, NEW n \in Nat, 1 .. n = 1 .. c.n - 1, c.n \in Nat
  PROVE  \E g : /\ Run(g, [fold |-> "back", n |-> c.n, maxcol |-> maxcol, needed |-> needed],
                     [rows |-> c.rows, deps |-> deps], n)
              /\ BackSubstituted(c, deps, maxcol, needed) = g[n]
  <1> DEFINE p == [fold |-> "back", n |-> c.n, maxcol |-> maxcol, needed |-> needed]
             base == [rows |-> c.rows, deps |-> deps]
             seq == From(1, c.n - 1)
             St(a, k) == BackStep(c.n, maxcol, needed, a, k)
             body(h) == [s \in SUBSET DOMAIN seq |->
                           IF s = {} THEN base ELSE St(h[s \ {Max(s)}], seq[Max(s)])]
             it == CHOOSE h : h = body(h)
  <1>1. BackSubstituted(c, deps, maxcol, needed) = it[DOMAIN seq]
    BY Zenon DEF BackSubstituted, FoldLeft, MapThenFoldSet, BackStep
  <1>2. n \in Nat /\ DOMAIN seq = 1 .. n /\ \A k \in 1 .. n : seq[k] = k
    <2>1. DOMAIN seq = 1 .. c.n - 1 /\ \A k \in 1 .. c.n - 1 : seq[k] = k
      <3>1. c.n - 1 \in Int
        OBVIOUS
      <3> QED
        BY <3>1, FromOne
    <2> QED
      BY <2>1
  <1>3. \A a, k : St(a, k) = Step(p, a, k)
    BY DEF Step
  <1>4. ASSUME NEW s \in SUBSET (1 .. n), s # {} PROVE Max(s) \in 1 .. n
    BY <1>2, <1>4, MaxOfNumbers
  <1> HIDE DEF seq, St
  <1>5. \A h : body(h) = [s \in SUBSET (1 .. n) |-> IF s = {} THEN base ELSE St(h[s \ {Max(s)}], Max(s))]
    BY <1>2, <1>4
  <1> HIDE DEF body, p, base
  <1>6. \A h : Tree(h, p, base, n) <=> h = body(h)
    BY <1>3, <1>5 DEF Tree
  <1>7. it = body(it)
    BY <1>2, <1>6, TreeExists
  <1> HIDE DEF it
  <1> QED
    BY <1>1, <1>2, <1>6, <1>7, TreeRuns DEF p, base

-----------------------------------------------------------------------------
(* The operators on rows return sequences of rows. *)

Ordered(s) == Listed(s, Len(s))

LEMMA OrderedListed == \A s, n : Listed(s, n) => Ordered(s) /\ Len(s) = n
  BY LenOfListed DEF Ordered

LEMMA OrderedEmpty == Ordered(<<>>) /\ Len(<<>>) = 0
  BY EmptyListed, OrderedListed

LEMMA InOrderListed ==
  ASSUME NEW n \in Int, NEW S \in SUBSET (1 .. n)
  PROVE  Listed(InOrder(S), Cardinality(S))
  <1> DEFINE c == Cardinality(S)
             f == [k \in 1 .. c |-> CHOOSE i \in S : Cardinality({j \in S : j < i}) = k - 1]
  <1>1. c \in Nat
    <2>1. IsFiniteSet(1 .. n)
      BY FS_Interval
    <2>2. IsFiniteSet(S)
      BY <2>1, FS_Subset
    <2> QED
      BY <2>2, FS_CardinalityType
  <1>2. InOrder(S) = f \o <<>>
    BY DEF InOrder
  <1>3. f = [k \in 1 .. c |-> f[k]]
    OBVIOUS
  <1> HIDE DEF c, f
  <1> QED
    BY <1>1, <1>2, <1>3, FunctionIsListed DEF c

LEMMA InOrderOrdered ==
  ASSUME NEW n \in Int, NEW S \in SUBSET (1 .. n)
  PROVE  /\ Ordered(InOrder(S))
         /\ \A s : Ordered(Selected(s, S))
  <1>1. Listed(InOrder(S), Cardinality(S))
    BY InOrderListed
  <1>2. ASSUME NEW s PROVE Listed(Selected(s, S), Cardinality(S))
    <2> DEFINE ks == InOrder(S)
               g == [k \in DOMAIN ks |-> s[ks[k]]]
    <2>1. DOMAIN ks = 1 .. Cardinality(S) /\ Cardinality(S) \in Nat
      BY <1>1, LenOfListed DEF Listed
    <2>2. Selected(s, S) = g \o <<>>
      BY DEF Selected
    <2>3. g = [k \in 1 .. Cardinality(S) |-> g[k]]
      BY <2>1
    <2> HIDE DEF g
    <2> QED
      BY <2>1, <2>2, <2>3, FunctionIsListed
  <1> QED
    BY <1>1, <1>2, OrderedListed

LEMMA CompactedShape ==
  ASSUME NEW rows, NEW gone, NEW n, Listed(rows, n)
  PROVE  Listed(Compacted(rows, gone).rows, n) /\ Compacted(rows, gone).n \in 0 .. n
  <1>1. PICK g : /\ Run(g, [fold |-> "compacted", gone |-> gone], [rows |-> rows \o <<>>, n |-> 0], n)
                 /\ Compacted(rows, gone) = g[n]
    BY CompactRuns
  <1>2. n \in Nat
    BY DEF Listed
  <1> DEFINE T == {m \in Nat : m \in 0 .. n => Listed(g[m].rows, n) /\ g[m].n \in 0 .. m}
  <1>3. 0 \in T
    BY <1>1, EmptyListed DEF Run
  <1>4. ASSUME NEW m \in Nat, m \in T PROVE m + 1 \in T
    <2> SUFFICES ASSUME m + 1 \in 0 .. n
                 PROVE  Listed(g[m + 1].rows, n) /\ g[m + 1].n \in 0 .. m + 1
      OBVIOUS
    <2>1. g[m + 1] = CompactStep(gone, g[m], m + 1) /\ Listed(g[m].rows, n) /\ g[m].n \in 0 .. m
      BY <1>1, <1>2, <1>4 DEF Run, Step
    <2>2. Listed(Swapped(g[m].rows, g[m].n + 1, m + 1), n)
      BY <2>1 DEF Swapped, Listed
    <2> QED
      BY <2>1, <2>2 DEF CompactStep
  <1> HIDE DEF T
  <1>5. T = Nat
    BY <1>3, <1>4, InductiveSet DEF T
  <1>6. n \in T
    BY <1>2, <1>5
  <1> QED
    BY <1>1, <1>2, <1>6 DEF T

LEMMA EchelonShape ==
  ASSUME NEW rows, NEW maxcol, NEW keep, NEW n, Listed(rows, n)
  PROVE  Listed(Echelon(rows, maxcol, keep).rows, n)
  <1>1. PICK g : /\ Run(g, [fold |-> "echelon", rows |-> rows, maxcol |-> maxcol, keep |-> keep],
                        [rows |-> <<>>, deps |-> <<>>], n)
                 /\ Echelon(rows, maxcol, keep) = g[n]
    BY EchelonRuns
  <1>2. n \in Nat
    BY DEF Listed
  <1> DEFINE T == {m \in Nat : m \in 0 .. n => Listed(g[m].rows, m)}
  <1>3. 0 \in T
    BY <1>1, EmptyListed DEF Run
  <1>4. ASSUME NEW m \in Nat, m \in T PROVE m + 1 \in T
    <2> SUFFICES ASSUME m + 1 \in 0 .. n PROVE Listed(g[m + 1].rows, m + 1)
      OBVIOUS
    <2>1. g[m + 1] = EchelonStep(rows, maxcol, keep, g[m], m + 1) /\ Listed(g[m].rows, m)
      BY <1>1, <1>2, <1>4 DEF Run, Step
    <2> DEFINE s == g[m]
               t == Substituted(Append(s.rows, rows[m + 1]), Len(s.rows) + 1, From(1, Len(s.rows)), maxcol)
               clear == ~keep /\ maxcol # END /\ \E k \in DOMAIN s.rows : First(s.rows[k]) = First(t.row)
               e == IF clear THEN WithEntries(t.row, NoEntries) ELSE Monic(t.row)
    <2>2. g[m + 1] = EchelonRow(s, t, maxcol, keep)
      BY <2>1 DEF EchelonStep
    <2>3. g[m + 1].rows = Append(g[m].rows, e)
      BY <2>2 DEF EchelonRow
    <2>4. Listed(g[m].rows, m)
      BY <2>1
    <2> HIDE DEF e
    <2>5. Listed(Append(g[m].rows, e), m + 1)
      BY <2>4, AppendListed
    <2> QED
      BY <2>3, <2>5
  <1> HIDE DEF T
  <1>5. T = Nat
    BY <1>3, <1>4, InductiveSet DEF T
  <1>6. n \in T
    BY <1>2, <1>5
  <1> QED
    BY <1>1, <1>2, <1>6 DEF T

LEMMA BackShape ==
  ASSUME NEW c, NEW deps, NEW maxcol, NEW needed, NEW l, Listed(c.rows, l), c.n \in Nat
  PROVE  Listed(BackSubstituted(c, deps, maxcol, needed).rows, l)
  <1> DEFINE n == IF c.n = 0 THEN 0 ELSE c.n - 1
  <1>0. n \in Nat /\ 1 .. n = 1 .. c.n - 1
    OBVIOUS
  <1> HIDE DEF n
  <1>1. PICK g : /\ Run(g, [fold |-> "back", n |-> c.n, maxcol |-> maxcol, needed |-> needed],
                        [rows |-> c.rows, deps |-> deps], n)
                 /\ BackSubstituted(c, deps, maxcol, needed) = g[n]
    BY <1>0, BackRuns
  <1> DEFINE T == {m \in Nat : m \in 0 .. n => Listed(g[m].rows, l)}
  <1>3. 0 \in T
    BY <1>1 DEF Run
  <1>4. ASSUME NEW m \in Nat, m \in T PROVE m + 1 \in T
    <2> SUFFICES ASSUME m + 1 \in 0 .. n PROVE Listed(g[m + 1].rows, l)
      OBVIOUS
    <2>1. g[m + 1] = BackStep(c.n, maxcol, needed, g[m], m + 1) /\ Listed(g[m].rows, l)
      BY <1>1, <1>0, <1>4 DEF Run, Step
    <2> DEFINE e == Substituted(g[m].rows, m + 1, From((m + 1) + 1, c.n), maxcol).row
    <2>2. g[m + 1].rows \in {g[m].rows, [g[m].rows EXCEPT ![m + 1] = e]}
      BY <2>1 DEF BackStep
    <2> HIDE DEF e
    <2> QED
      BY <2>1, <2>2 DEF Listed
  <1> HIDE DEF T
  <1>5. T = Nat
    BY <1>3, <1>4, InductiveSet DEF T
  <1>6. n \in T
    BY <1>0, <1>5
  <1> QED
    BY <1>0, <1>1, <1>6 DEF T

LEMMA ReducedShape ==
  ASSUME NEW rows, NEW n, Listed(rows, n), NEW maxcol, NEW backsubst, NEW keep, NEW needed
  PROVE  Listed(Reduced(rows, maxcol, backsubst, keep, needed).rows, n)
  <1> DEFINE e == Echelon(rows, maxcol, keep)
             c == Compacted(e.rows, {i \in DOMAIN e.rows : IsZero(e.rows[i])})
  <1>1. Listed(c.rows, n) /\ c.n \in Nat
    <2>1. Listed(e.rows, n)
      BY EchelonShape
    <2> HIDE DEF e
    <2>2. n \in Nat /\ c.n \in 0 .. n /\ Listed(c.rows, n)
      <3>1. Listed(c.rows, n) /\ c.n \in 0 .. n
        BY <2>1, CompactedShape
      <3> QED
        BY <2>1, <3>1 DEF Listed
    <2> QED
      BY <2>2
  <1> HIDE DEF c, e
  <1>2. \A s : Listed(BackSubstituted(c, e.deps, maxcol, s).rows, n)
    BY <1>1, BackShape
  <1> QED
    BY <1>2 DEF Reduced, c, e

LEMMA SubSeqOrdered ==
  ASSUME NEW s, Ordered(s), NEW m \in Nat \ {0}, NEW n \in 0 .. Len(s)
  PROVE  Ordered(SubSeq(s, m, n)) /\ Len(SubSeq(s, m, n)) = IF m <= n THEN n - m + 1 ELSE 0
  <1>1. s \in Seq({s[i] : i \in 1 .. Len(s)}) /\ Len(s) \in Nat
    BY LenOfListed DEF Ordered, Listed
  <1> DEFINE S == {s[i] : i \in 1 .. Len(s)}
  <1>2. \A i \in m .. n : s[i] \in S
    BY <1>1
  <1>3. m \in Int /\ n \in Int
    BY <1>1
  <1> HIDE DEF S
  <1>4. SubSeq(s, m, n) \in Seq(S) /\ Len(SubSeq(s, m, n)) = IF m <= n THEN n - m + 1 ELSE 0
    BY <1>2, <1>3, SubSeqProperties
  <1> QED
    BY <1>4, SeqIsListed DEF Ordered

-----------------------------------------------------------------------------
(* A solver and its output *)

Fields == {"stage", "flags", "maxcol", "weight", "zerodeps", "indepeqs", "x", "outeq", "deps",
           "indep", "eqdeps", "elems", "nparsout"}

\* The lists of a solver are sequences.
ListsOK(l) ==
  /\ DOMAIN l = Fields /\ l.stage \in {"first", "second"}
  /\ Ordered(l.zerodeps) /\ Ordered(l.deps) /\ Ordered(l.outeq) /\ Ordered(l.indep)

\* The unknowns that vanish are among the dependent ones.
Shaped(l) == ListsOK(l) /\ Len(l.zerodeps) <= Len(l.deps)

\* The output has the length that the solver says.
Promise(l) ==
  IF Has(l, "sparse")
  THEN /\ Listed(l.elems, Len(l.deps))
       /\ \A k \in 1 .. Len(l.zerodeps) : l.elems[k] = <<>>
       /\ \A k \in 1 .. Len(l.deps) : Ordered(l.elems[k])
       /\ l.nparsout = Len(FlattenSeq(l.elems))
  ELSE l.nparsout = Len(l.deps) * NParsPerDep(l)

LEMMA NParsIsNat ==
  ASSUME NEW l, ListsOK(l)
  PROVE  NParsPerDep(l) \in Nat /\ NParsPerDep(l) = Len(l.indep) + (IF Has(l, "homog") THEN 0 ELSE 1)
  <1>1. Len(l.indep) \in Nat
    BY DEF ListsOK, Ordered, Listed
  <1>2. NParsPerDep(l) = Len(l.indep) + (IF Has(l, "homog") THEN 0 ELSE 1)
    BY Zenon DEF NParsPerDep
  <1>3. (IF Has(l, "homog") THEN 0 ELSE 1) \in {0, 1}
    BY Zenon
  <1>4. \A i \in Nat, j \in {0, 1} : i + j \in Nat
    OBVIOUS
  <1> QED
    BY <1>1, <1>2, <1>3, <1>4, Zenon

LEMMA NOutIsNat ==
  ASSUME NEW l, Shaped(l)
  PROVE  /\ NOut(l) \in Nat /\ Len(l.zerodeps) \in Nat /\ Len(l.deps) \in Nat
         /\ Len(l.zerodeps) + NOut(l) = Len(l.deps)
  BY DEF NOut, Shaped, ListsOK, Ordered, Listed

\* Output fills what was promised, from any rows.
LEMMA OutputLength ==
  ASSUME NEW l, Shaped(l), Promise(l), NEW rows
  PROVE  Len(Output(l, rows)) = l.nparsout
  <1> DEFINE z == Len(l.zerodeps)
             d == NOut(l)
             np == NParsPerDep(l)
             vals == [k \in 1 .. d |-> Values(l, rows[l.outeq[k]], k)]
             zeros == [k \in 1 .. (IF Has(l, "sparse") THEN 0 ELSE z * np) |-> 0]
  <1>1. z \in Nat /\ d \in Nat /\ z + d = Len(l.deps) /\ np \in Nat
    BY NOutIsNat, NParsIsNat DEF Shaped
  <1>2. Output(l, rows) = zeros \o FlattenSeq(vals)
    BY DEF Output
  <1>3. Listed(vals, d)
    BY <1>1 DEF Listed
  <1>4. ASSUME NEW k \in 1 .. d PROVE vals[k] = Values(l, rows[l.outeq[k]], k)
    OBVIOUS
  <1> HIDE DEF vals
  <1>5. CASE Has(l, "sparse")
    <2>1. Listed(l.elems, z + d) /\ l.nparsout = Len(FlattenSeq(l.elems))
      BY <1>1, <1>5 DEF Promise
    <2>2. \A k \in 1 .. z : l.elems[k] = <<>>
      BY <1>5 DEF Promise
    <2>3. ASSUME NEW k \in 1 .. d
          PROVE  \E c : Listed(l.elems[z + k], c) /\ Listed(vals[k], c)
      <3> DEFINE e == l.elems[z + k]
                 f(r) == [j \in DOMAIN e |->
                            LET v == r.c[ColumnsOf(r)[j + 1]]
                            IN  IF e[j] = Const /\ ~Has(l, "homog") THEN v ELSE Neg(v)]
      <3>1. z + k \in 1 .. Len(l.deps) /\ k + z = z + k
        BY <1>1
      <3>2. Ordered(e)
        BY <3>1, <1>5 DEF Promise
      <3>3. vals[k] = f(rows[l.outeq[k]])
        <4>1. l.elems[k + Len(l.zerodeps)] = e
          BY <3>1
        <4> HIDE DEF e
        <4> QED
          BY <1>4, <1>5, <4>1 DEF Values
      <3>4. DOMAIN e = 1 .. Len(e) /\ Len(e) \in Nat
        BY <3>2, LenOfListed DEF Ordered, Listed
      <3>5. \A r : Listed(f(r), Len(e))
        BY <3>4 DEF Listed
      <3> HIDE DEF e, f
      <3>6. Listed(vals[k], Len(e)) /\ Listed(e, Len(e))
        BY <3>2, <3>3, <3>5 DEF Ordered
      <3> QED
        BY <3>6 DEF e
    <2>4. PICK c : Listed(FlattenSeq(l.elems), c) /\ Listed(FlattenSeq(vals), c)
      BY <1>1, <1>3, <2>1, <2>2, <2>3, FlattenLengths
    <2>5. Listed(zeros, 0)
      BY <1>5 DEF Listed
    <2> HIDE DEF zeros
    <2>6. Listed(zeros \o FlattenSeq(vals), 0 + c)
      BY <2>4, <2>5, ConcatListed
    <2>7. c \in Nat
      BY <2>4 DEF Listed
    <2>8. Len(zeros \o FlattenSeq(vals)) = c /\ Len(FlattenSeq(l.elems)) = c
      <3>1. 0 + c = c
        BY <2>7
      <3>2. Listed(zeros \o FlattenSeq(vals), c)
        BY <2>6, <3>1
      <3> QED
        BY <2>4, <3>2, LenOfListed
    <2> QED
      BY <1>2, <2>1, <2>8
  <1>6. CASE ~Has(l, "sparse")
    <2>1. l.nparsout = (z + d) * np
      BY <1>1, <1>6 DEF Promise
    <2>2. ASSUME NEW k \in 1 .. d PROVE Listed(vals[k], np)
      <3> DEFINE f(r) == [j \in DOMAIN l.indep |-> Neg(At(r, l.indep[j]))]
                 g(r) == IF Has(l, "homog") THEN <<>> ELSE <<At(r, Const)>>
      <3>1. DOMAIN l.indep = 1 .. Len(l.indep) /\ Len(l.indep) \in Nat
        BY LenOfListed DEF Shaped, ListsOK, Ordered, Listed
      <3>2. \A r : Listed(f(r), Len(l.indep))
        BY <3>1 DEF Listed
      <3>3. \A r : Listed(g(r), IF Has(l, "homog") THEN 0 ELSE 1)
        BY EmptyListed DEF Listed
      <3>4. vals[k] = f(rows[l.outeq[k]]) \o g(rows[l.outeq[k]])
        BY <1>4, <1>6 DEF Values
      <3> HIDE DEF f, g
      <3>5. \A r : Listed(f(r) \o g(r), Len(l.indep) + (IF Has(l, "homog") THEN 0 ELSE 1))
        BY <3>2, <3>3, ConcatListed
      <3> QED
        BY <3>4, <3>5, NParsIsNat DEF Shaped
    <2>3. Listed(FlattenSeq(vals), d * np)
      BY <1>1, <1>3, <2>2, FlattenEven
    <2>4. z * np \in Nat /\ d * np \in Nat /\ (z + d) * np = z * np + d * np
      BY <1>1
    <2>5. Listed(zeros, z * np)
      BY <1>6, <2>4 DEF Listed
    <2> HIDE DEF zeros, z, d, np
    <2>6. Listed(zeros \o FlattenSeq(vals), z * np + d * np)
      BY <2>3, <2>5, ConcatListed
    <2>7. Len(zeros \o FlattenSeq(vals)) = z * np + d * np
      BY <2>6, LenOfListed
    <2> QED
      BY <1>2, <2>1, <2>4, <2>7
  <1> QED
    BY <1>5, <1>6

\* The lists but those that the output is described with are not changed.
SameLists(m, l) ==
  /\ DOMAIN m = Fields
  /\ m.stage = l.stage /\ m.zerodeps = l.zerodeps /\ m.deps = l.deps /\ m.outeq = l.outeq
  /\ m.flags = l.flags

LEMMA SameListsShaped ==
  ASSUME NEW m, NEW l, SameLists(m, l), Ordered(m.indep)
  PROVE  /\ ListsOK(l) => ListsOK(m)
         /\ Shaped(l) => Shaped(m)
         /\ NOut(m) = NOut(l) /\ \A f : Has(m, f) <=> Has(l, f)
  BY DEF SameLists, ListsOK, Shaped, NOut, Has

LEMMA PrintedOrdered ==
  ASSUME NEW l, NEW r
  PROVE  Ordered(Printed(l, r))
  <1> DEFINE S == {j \in DOMAIN r.c \cap Columns : j # First(r) /\ ~(Has(l, "homog") /\ j = Const)}
  <1>1. S \in SUBSET (1 .. NVars + 1) /\ NVars + 1 \in Int
    BY NVarsAssumption DEF Columns, Const
  <1> HIDE DEF S
  <1>2. Ordered(InOrder(S))
    BY <1>1, InOrderOrdered
  <1> QED
    BY <1>2 DEF Printed, S

\* set_sparseout_data_, and the length of a dense output, make the promise true.
LEMMA WithOutputPromises ==
  ASSUME NEW l, Shaped(l), NEW rows
  PROVE  /\ SameLists(WithOutput(l, rows), l) /\ Shaped(WithOutput(l, rows))
         /\ Promise(WithOutput(l, rows))
  <1> DEFINE z == Len(l.zerodeps)
             d == NOut(l)
             a == [k \in DOMAIN l.zerodeps |-> <<>>]
             b == [k \in 1 .. d |-> Printed(l, rows[l.outeq[k]])]
             elems == a \o b
             m == WithOutput(l, rows)
  <1>1. z \in Nat /\ d \in Nat /\ z + d = Len(l.deps) /\ DOMAIN l = Fields
    BY NOutIsNat DEF Shaped, ListsOK
  <1>2. DOMAIN l.zerodeps = 1 .. z
    BY LenOfListed DEF Shaped, ListsOK, Ordered
  <1>3. Listed(a, z) /\ \A k \in 1 .. z : a[k] = <<>>
    BY <1>1, <1>2 DEF Listed
  <1>4. Listed(b, d) /\ \A k \in 1 .. d : Ordered(b[k])
    BY <1>1, PrintedOrdered DEF Listed
  <1>5. m = IF Has(l, "sparse") THEN [l EXCEPT !.elems = elems, !.nparsout = Len(FlattenSeq(elems))]
            ELSE [l EXCEPT !.nparsout = Len(l.deps) * NParsPerDep(l)]
    BY DEF WithOutput
  <1> HIDE DEF a, b, m, z, d
  <1>6. /\ Listed(elems, z + d) /\ \A k \in 1 .. z : elems[k] = <<>>
        /\ \A k \in 1 .. d : elems[z + k] = b[k]
    <2> HIDE DEF elems
    <2>3. Listed(a, z)
      BY <1>3
    <2>4. Listed(b, d)
      BY <1>4
    <2>1. elems = a \o b
      BY DEF elems
    <2> QED
      <3>1. /\ Listed(elems, z + d)
            /\ \A k \in 1 .. z : elems[k] = a[k]
            /\ \A k \in 1 .. d : elems[z + k] = b[k]
        <4>1. Joined(elems, a, z, b, d)
          BY <2>1, <2>3, <2>4 DEF Joined
        <4> QED
          BY <4>1, ConcatIs
      <3> QED
        BY <1>3, <3>1
  <1>7. ASSUME NEW k \in 1 .. z + d PROVE Ordered(elems[k])
    <2>1. CASE k \in 1 .. z
      BY <1>6, <2>1, OrderedEmpty
    <2>2. CASE k \notin 1 .. z
      <3>1. k - z \in 1 .. d /\ z + (k - z) = k
        BY <1>1, <2>2
      <3> QED
        BY <1>4, <1>6, <3>1
    <2> QED
      BY <2>1, <2>2
  <1> HIDE DEF elems
  <1>8. /\ DOMAIN m = Fields /\ m.indep = l.indep
        /\ m.stage = l.stage /\ m.zerodeps = l.zerodeps /\ m.deps = l.deps /\ m.outeq = l.outeq
        /\ m.flags = l.flags
        /\ Has(l, "sparse") => m.elems = elems /\ m.nparsout = Len(FlattenSeq(elems))
        /\ ~Has(l, "sparse") => m.nparsout = Len(l.deps) * NParsPerDep(l)
    BY <1>1, <1>5 DEF Fields
  <1>9. /\ SameLists(m, l) /\ Shaped(m) /\ NParsPerDep(m) = NParsPerDep(l)
        /\ Has(m, "sparse") <=> Has(l, "sparse")
    BY <1>8, SameListsShaped DEF SameLists, Shaped, ListsOK, NParsPerDep, Has
  <1>10. Promise(m)
    BY <1>1, <1>6, <1>7, <1>8, <1>9 DEF Promise, z
  <1> QED
    BY <1>9, <1>10 DEF m

-----------------------------------------------------------------------------
(* What learning does to the lists *)

LEMMA SetFlagsSame ==
  ASSUME NEW l, DOMAIN l = Fields, NEW f
  PROVE  SameLists(SetFlags(l, f), l) /\ SetFlags(l, f).indep = l.indep
  BY DEF SetFlags, SameLists, Fields

LEMMA SelectedOrdered ==
  ASSUME NEW s, Ordered(s), NEW K \in SUBSET DOMAIN s
  PROVE  Ordered(InOrder(K)) /\ \A t : Ordered(Selected(t, K))
  <1>1. DOMAIN s = 1 .. Len(s) /\ Len(s) \in Int
    BY LenOfListed DEF Ordered, Listed
  <1> QED
    BY <1>1, InOrderOrdered

LEMMA FilledOrdered ==
  ASSUME NEW l, NEW rows, Ordered(rows), NEW q
  PROVE  Ordered(Fill(l, rows, q).rows)
  <1>1. DOMAIN rows = 1 .. Len(rows) /\ Len(rows) \in Nat
    BY LenOfListed DEF Ordered, Listed
  <1>2. ASSUME NEW c, NEW end PROVE Ordered(Filled(rows, c, end).rows)
    <2> DEFINE f == [i \in DOMAIN rows |->
               [id |-> rows[i].id,
                c |-> IF i > Len(c) \/ i > end THEN rows[i].c
                      ELSE IF i = end THEN HalfWritten(rows[i].c, c[i]) ELSE c[i]]]
    <2>1. f = [i \in 1 .. Len(rows) |-> f[i]]
      BY <1>1
    <2>2. Filled(rows, c, end).rows = f \o <<>>
      BY DEF Filled
    <2> HIDE DEF f
    <2> QED
      BY <1>1, <2>1, <2>2, FunctionIsListed, OrderedListed
  <1> QED
    BY <1>2 DEF Fill

LEMMA SolvedOrdered ==
  ASSUME NEW l, NEW rows, Ordered(rows)
  PROVE  /\ \A needed : Ordered(Solved(l, rows, needed).rows)
         /\ Ordered(SolvedFirst(l, rows))
  <1>1. \A needed, r : Ordered(r) => Ordered(Solved(l, r, needed).rows)
    BY ReducedShape, OrderedListed DEF Solved, Ordered
  <1>2. DOMAIN rows = 1 .. Len(rows) /\ Len(rows) \in Nat
    BY LenOfListed DEF Ordered, Listed
  <1> DEFINE f == [i \in DOMAIN rows |-> [id |-> i, c |-> rows[i].c]]
  <1>3. f = [i \in 1 .. Len(rows) |-> f[i]]
    BY <1>2
  <1> HIDE DEF f
  <1>4. Ordered(f \o <<>>)
    BY <1>2, <1>3, FunctionIsListed, OrderedListed
  <1>5. ASSUME NEW r, Ordered(r) PROVE Ordered(Sorted(r, l.weight))
    <2>1. DOMAIN r = 1 .. Len(r) /\ Len(r) \in Nat
      BY <1>5, LenOfListed DEF Ordered, Listed
    <2>2. ASSUME NEW order PROVE Ordered([k \in DOMAIN r |-> r[Last(order[k])]] \o <<>>)
      <3> DEFINE g == [k \in DOMAIN r |-> r[Last(order[k])]]
      <3>1. g = [i \in 1 .. Len(r) |-> g[i]]
        BY <2>1
      <3> HIDE DEF g
      <3>2. Ordered(g \o <<>>)
        BY <2>1, <3>1, FunctionIsListed, OrderedListed
      <3> QED
        BY <3>2 DEF g
    <2> QED
      BY <2>2 DEF Sorted
  <1> QED
    BY <1>1, <1>4, <1>5 DEF SolvedFirst, f

\* removeZeroDeps, and then check_zeroes_
LEMMA WithoutZeroDepsOrdered ==
  ASSUME NEW rows, Ordered(rows), NEW z
  PROVE  Ordered(WithoutZeroDeps(rows, z))
  <1> DEFINE c(gone) == Compacted(rows, gone)
  <1>1. ASSUME NEW gone PROVE Ordered(SubSeq(c(gone).rows, 1, c(gone).n))
    <2>1. Listed(c(gone).rows, Len(rows)) /\ c(gone).n \in 0 .. Len(rows)
      BY CompactedShape DEF Ordered
    <2> HIDE DEF c
    <2>2. Ordered(c(gone).rows) /\ Len(c(gone).rows) = Len(rows)
      BY <2>1, OrderedListed
    <2> QED
      BY <2>1, <2>2, SubSeqOrdered
  <1> QED
    BY <1>1 DEF WithoutZeroDeps

LEMMA CheckZeroesKeepsLists ==
  ASSUME NEW l, ListsOK(l), NEW rows, Ordered(rows)
  PROVE  /\ ListsOK(CheckZeroes(l, rows).ls)
         /\ CheckZeroes(l, rows).ls.stage = l.stage
  <1>1. ASSUME NEW m, ListsOK(m), NEW zs, Ordered(zs)
        PROVE  ListsOK(Vanishing(m, zs)) /\ Vanishing(m, zs).stage = m.stage
    <2> DEFINE K == {k \in DOMAIN zs : Marked(m, zs[k], "needed")}
               w == [m EXCEPT !.zerodeps = Selected(zs, K)]
               f == [j \in Columns |-> IF j \in Range(zs) THEN (m.x[j] \cup {"dep"}) \ {"nonzero"} ELSE m.x[j]]
    <2>1. Ordered(Selected(zs, K))
      BY <1>1, SelectedOrdered
    <2>2. Vanishing(m, zs) = SetFlags(w, f)
      BY DEF Vanishing
    <2> HIDE DEF K, f
    <2>3. ListsOK(w) /\ w.stage = m.stage /\ DOMAIN w = Fields
      BY <1>1, <2>1 DEF ListsOK, Fields
    <2> HIDE DEF w
    <2>4. SameLists(SetFlags(w, f), w) /\ SetFlags(w, f).indep = w.indep
      BY <2>3, SetFlagsSame
    <2> QED
      BY <2>2, <2>3, <2>4, SameListsShaped DEF SameLists, ListsOK
  <1>2. ASSUME NEW hs PROVE ListsOK(Dependent(l, hs)) /\ Dependent(l, hs).stage = l.stage
    BY SetFlagsSame, SameListsShaped DEF Dependent, SameLists, ListsOK
  <1> DEFINE heads == [i \in DOMAIN rows |-> First(rows[i])]
             zero == Selected(heads, {i \in DOMAIN rows : Size(rows[i]) = 1})
             noconst == Selected(heads, {i \in DOMAIN rows : ~IsZero(rows[i]) /\ Const \notin DOMAIN rows[i].c})
             left == {j \in 1 .. NVars : ~Marked(l, j, "dep") /\ j \notin Heads(rows)}
             free == InOrder(left)
  <1>3. Ordered(zero) /\ Ordered(noconst)
    BY SelectedOrdered
  <1>4. Ordered(free)
    <2>1. left \in SUBSET (1 .. NVars) /\ NVars \in Int
      BY NVarsAssumption
    <2> HIDE DEF left
    <2> QED
      BY <2>1, InOrderOrdered
  <1> HIDE DEF zero, noconst, free
  <1>5. Ordered(noconst \o free)
    BY <1>3, <1>4, ConcatListed, OrderedListed DEF Ordered
  <1>6. CheckZeroes(l, rows).ls \in
          {l, Vanishing(Dependent(l, Heads(rows)), noconst \o free), Vanishing(l, zero)}
    BY DEF CheckZeroes, zero, noconst, free, left
  <1>7. ListsOK(Vanishing(l, zero)) /\ Vanishing(l, zero).stage = l.stage
    BY <1>1, <1>3
  <1>8. /\ ListsOK(Vanishing(Dependent(l, Heads(rows)), noconst \o free))
        /\ Vanishing(Dependent(l, Heads(rows)), noconst \o free).stage = l.stage
    BY <1>1, <1>2, <1>5
  <1> QED
    BY <1>6, <1>7, <1>8

LEMMA NeededIndepSame ==
  ASSUME NEW l, ListsOK(l)
  PROVE  SameLists(NeededIndep(l), l) /\ Ordered(NeededIndep(l).indep)
  <1> DEFINE S == {j \in 1 .. NVars : NeededAny(l, j) /\ ~Marked(l, j, "dep")}
  <1>1. Ordered(InOrder(S))
    BY NVarsAssumption, InOrderOrdered
  <1>2. NeededIndep(l) = IF Has(l, "sparse") THEN l ELSE [l EXCEPT !.indep = InOrder(S)]
    BY DEF NeededIndep
  <1> HIDE DEF S
  <1> QED
    BY <1>1, <1>2 DEF ListsOK, SameLists, Fields

LEMMA RightHandSidesSame ==
  ASSUME NEW l, ListsOK(l), NEW rows
  PROVE  /\ SameLists(RightHandSides(l, rows), l)
         /\ ListsOK(RightHandSides(l, rows))
  BY SetFlagsSame, SameListsShaped DEF RightHandSides, ListsOK

LEMMA WithoutNonneededSame ==
  ASSUME NEW l, ListsOK(l)
  PROVE  SameLists(WithoutNonneeded(l), l) /\ ListsOK(WithoutNonneeded(l))
  BY SetFlagsSame, SameListsShaped DEF WithoutNonneeded, ListsOK

LEMMA DependentSame ==
  ASSUME NEW l, ListsOK(l), NEW hs
  PROVE  /\ SameLists(Dependent(l, hs), l)
         /\ ListsOK(Dependent(l, hs))
  BY SetFlagsSame, SameListsShaped DEF Dependent, ListsOK

LEMMA HeadsListed ==
  ASSUME NEW z, Ordered(z), NEW out, Ordered(out), NEW rows
  PROVE  /\ Ordered(z \o [k \in DOMAIN out |-> First(rows[out[k]])])
         /\ Len(z) <= Len(z \o [k \in DOMAIN out |-> First(rows[out[k]])])
  <1> DEFINE d == [k \in DOMAIN out |-> First(rows[out[k]])]
  <1>1. DOMAIN out = 1 .. Len(out) /\ Len(out) \in Nat /\ Len(z) \in Nat
    BY LenOfListed DEF Ordered, Listed
  <1>2. d = [k \in 1 .. Len(out) |-> d[k]]
    BY <1>1
  <1> HIDE DEF d
  <1>3. Listed(d, Len(out)) /\ Listed(z, Len(z))
    BY <1>1, <1>2, FunctionIsListed DEF Ordered
  <1>4. Listed(z \o d, Len(z) + Len(out))
    BY <1>3, ConcatListed
  <1>5. Ordered(z \o d) /\ Len(z \o d) = Len(z) + Len(out)
    BY <1>4, OrderedListed
  <1> QED
    BY <1>1, <1>5 DEF d

(* In between zerodeps may be longer than deps; learn_1_ has made both new *)
(* when it returns.                                                        *)
LEMMA TakenShaped ==
  ASSUME NEW l, ListsOK(l), NEW rows, Ordered(rows), NEW out, Ordered(out)
  PROVE  Shaped(Taken(l, rows, out)) /\ Taken(l, rows, out).stage = "second"
  <1> DEFINE h == Dependent(l, Heads(rows))
             r == RightHandSides(h, {rows[k] : k \in Range(out)})
             m == NeededIndep(r)
             deps == l.zerodeps \o [k \in DOMAIN out |-> First(rows[out[k]])]
             t == [m EXCEPT !.outeq = out, !.deps = deps,
                            !.indepeqs = [k \in DOMAIN rows |-> rows[k].id], !.stage = "second"]
  <1>1. Taken(l, rows, out) = t
    BY DEF Taken
  <1>2. SameLists(h, l) /\ ListsOK(h)
    BY DependentSame
  <1> HIDE DEF h
  <1>3. SameLists(r, h) /\ ListsOK(r)
    BY <1>2, RightHandSidesSame
  <1> HIDE DEF r
  <1>4. SameLists(m, r) /\ Ordered(m.indep)
    BY <1>3, NeededIndepSame
  <1> HIDE DEF m
  <1>5. DOMAIN m = Fields /\ m.zerodeps = l.zerodeps /\ Ordered(l.zerodeps)
    BY <1>2, <1>3, <1>4 DEF SameLists, ListsOK
  <1>6. Ordered(deps) /\ Len(l.zerodeps) <= Len(deps)
    BY <1>5, HeadsListed
  <1> HIDE DEF deps
  <1>7. /\ DOMAIN t = Fields /\ t.stage = "second" /\ t.zerodeps = l.zerodeps /\ t.deps = deps
        /\ t.outeq = out /\ t.indep = m.indep
    BY <1>5 DEF Fields
  <1> HIDE DEF t
  <1> QED
    BY <1>1, <1>4, <1>5, <1>6, <1>7 DEF Shaped, ListsOK

LEMMA FromOrdered ==
  ASSUME NEW n \in Nat
  PROVE  Listed(From(1, n), n)
  BY DEF From, Listed

LEMMA LearnRowsShaped ==
  ASSUME NEW l, ListsOK(l), NEW rows, Ordered(rows)
  PROVE  /\ Shaped(LearnRows(l, rows).ls) /\ LearnRows(l, rows).ls.stage = "second"
         /\ Ordered(LearnRows(l, rows).rows)
  <1> DEFINE out == NeededRows(l, From(1, Len(rows)), rows)
             t == Taken(l, rows, out)
  <1>1. Ordered(out)
    <2>1. Ordered(From(1, Len(rows)))
      BY FromOrdered, OrderedListed DEF Ordered, Listed
    <2> QED
      BY <2>1, SelectedOrdered DEF NeededRows
  <1>2. LearnRows(l, rows).ls = WithoutNonneeded(t) /\ LearnRows(l, rows).rows = rows
    BY DEF LearnRows
  <1> HIDE DEF out
  <1>3. Shaped(t) /\ t.stage = "second"
    BY <1>1, TakenShaped
  <1> HIDE DEF t
  <1>4. SameLists(WithoutNonneeded(t), t) /\ ListsOK(WithoutNonneeded(t))
    BY <1>3, WithoutNonneededSame DEF Shaped
  <1> QED
    BY <1>2, <1>3, <1>4, SameListsShaped DEF SameLists, ListsOK

LEMMA LearnSolvedShaped ==
  ASSUME NEW l, ListsOK(l), Len(l.zerodeps) <= Len(l.deps), NEW rows, Ordered(rows), NEW q
  PROVE  /\ Shaped(LearnSolved(l, rows, q).ls) /\ LearnSolved(l, rows, q).ls.stage = "second"
         /\ Ordered(LearnSolved(l, rows, q).rows)
  <1>1. CASE Impossible(rows)
    <2>1. /\ LearnSolved(l, rows, q).ls = With([l EXCEPT !.stage = "second"], "impossible")
          /\ LearnSolved(l, rows, q).rows = rows
      BY <1>1 DEF LearnSolved
    <2> QED
      BY <2>1 DEF With, Shaped, ListsOK, Fields
  <1>2. CASE ~Impossible(rows)
    <2> DEFINE z == CheckZeroes(l, rows)
               kept0 == IF z.any THEN SolvedFirst(z.ls, Fill(z.ls, rows, q).rows) ELSE rows
               left == WithoutZeroDeps(kept0, Has(z.ls, "zeroopt"))
    <2>1. LearnSolved(l, rows, q) = LearnRows(z.ls, left)
      BY <1>2 DEF LearnSolved, LearnZeroes
    <2>2. ListsOK(z.ls)
      BY CheckZeroesKeepsLists
    <2> HIDE DEF z
    <2>3. Ordered(Fill(z.ls, rows, q).rows)
      BY FilledOrdered
    <2>4. Ordered(kept0)
      BY <2>3, SolvedOrdered
    <2> HIDE DEF kept0
    <2>5. Ordered(left)
      BY <2>4, WithoutZeroDepsOrdered
    <2> HIDE DEF left
    <2> QED
      BY <2>1, <2>2, <2>5, LearnRowsShaped
  <1> QED
    BY <1>1, <1>2

\* What learn_1_ leaves
LEMMA LearnedFirst ==
  ASSUME Shaped(ls), ls.stage = "first", Ordered(mat[Main]), NEW q
  PROVE  /\ Shaped(Learn1(q).ls) /\ Ordered(Learn1(q).rows)
         /\ Learn1(q).ok => Learn1(q).ls.stage = "second"
  <1> DEFINE l == [ls EXCEPT !.indepeqs = From(1, Len(mat[Main])), !.zerodeps = <<>>]
             f == Fill(l, mat[Main], q)
  <1>1. Learn1(q) = LearnFilled(l, f, q)
    BY DEF Learn1
  <1>2. ListsOK(l) /\ Len(l.zerodeps) <= Len(l.deps) /\ Shaped(l)
    <2>1. /\ DOMAIN l = Fields /\ l.stage = ls.stage /\ l.zerodeps = <<>> /\ l.deps = ls.deps
          /\ l.outeq = ls.outeq /\ l.indep = ls.indep
      BY DEF Shaped, ListsOK, Fields
    <2> HIDE DEF l
    <2>2. Len(ls.deps) \in Nat
      BY DEF Shaped, ListsOK, Ordered, Listed
    <2> QED
      BY <2>1, <2>2, OrderedEmpty DEF Shaped, ListsOK
  <1> HIDE DEF l
  <1>3. Ordered(f.rows)
    BY FilledOrdered
  <1> HIDE DEF f
  <1>4. Ordered(SolvedFirst(l, f.rows))
    BY <1>3, SolvedOrdered
  <1>5. CASE f.ok
    BY <1>1, <1>2, <1>4, <1>5, LearnSolvedShaped DEF LearnFilled
  <1>6. CASE ~f.ok
    BY <1>1, <1>2, <1>3, <1>6 DEF LearnFilled
  <1> QED
    BY <1>5, <1>6

LEMMA OverwrittenOrdered ==
  ASSUME NEW a, Ordered(a), NEW first, Ordered(first)
  PROVE  Ordered(Overwritten(a, first))
  <1> DEFINE s == SubSeq(a, Len(first) + 1, Len(a))
  <1>1. Len(first) + 1 \in Nat \ {0} /\ Len(a) \in 0 .. Len(a)
    BY DEF Ordered, Listed
  <1>2. Ordered(s)
    BY <1>1, SubSeqOrdered
  <1>3. Overwritten(a, first) = first \o s
    BY DEF Overwritten
  <1> HIDE DEF s
  <1>4. Listed(first \o s, Len(first) + Len(s))
    BY <1>2, ConcatListed DEF Ordered
  <1> QED
    BY <1>3, <1>4, OrderedListed

\* What reset_needed leaves
LEMMA RelearnedPromises ==
  ASSUME NEW l, Shaped(l), NEW rows, NEW zeroes, Ordered(zeroes), NEW out, Ordered(out)
  PROVE  /\ Shaped(Relearned(l, rows, zeroes, out)) /\ Promise(Relearned(l, rows, zeroes, out))
         /\ Relearned(l, rows, zeroes, out).stage = l.stage
  <1> DEFINE r == RightHandSides(l, {rows[k] : k \in Range(out)})
             deps == zeroes \o [k \in DOMAIN out |-> First(rows[out[k]])]
             m == [r EXCEPT !.zerodeps = zeroes, !.outeq = Overwritten(@, out), !.deps = deps]
             n == NeededIndep(m)
             w == WithoutNonneeded(n)
  <1>1. Relearned(l, rows, zeroes, out) = WithOutput(w, rows)
    BY DEF Relearned
  <1>2. SameLists(r, l) /\ ListsOK(r)
    BY RightHandSidesSame DEF Shaped
  <1> HIDE DEF r
  <1>3. Ordered(deps) /\ Len(zeroes) <= Len(deps)
    BY HeadsListed
  <1> HIDE DEF deps
  <1>4. Ordered(Overwritten(r.outeq, out))
    BY <1>2, OverwrittenOrdered DEF ListsOK
  <1>5. /\ DOMAIN m = Fields /\ m.stage = r.stage /\ m.zerodeps = zeroes /\ m.deps = deps
        /\ m.outeq = Overwritten(r.outeq, out) /\ m.indep = r.indep
    BY <1>2 DEF ListsOK, Fields
  <1> HIDE DEF m
  <1>6. Shaped(m) /\ m.stage = l.stage
    BY <1>2, <1>3, <1>4, <1>5 DEF Shaped, ListsOK, SameLists
  <1>7. SameLists(n, m) /\ Shaped(n)
    BY <1>6, NeededIndepSame, SameListsShaped DEF Shaped
  <1> HIDE DEF n
  <1>8. SameLists(w, n) /\ Shaped(w)
    BY <1>7, WithoutNonneededSame, SameListsShaped DEF Shaped, ListsOK
  <1> HIDE DEF w
  <1>9. SameLists(WithOutput(w, rows), w) /\ Shaped(WithOutput(w, rows)) /\ Promise(WithOutput(w, rows))
    BY <1>8, WithOutputPromises
  <1> QED
    BY <1>1, <1>6, <1>7, <1>8, <1>9 DEF SameLists

-----------------------------------------------------------------------------
(* The inductive invariant *)

\* Of each context the rows are a sequence.
RowsListed ==
  /\ DOMAIN mat = {Main} \cup Workers
  /\ \A c \in {Main} \cup Workers : Ordered(mat[c])

LearningOK ==
  /\ learning = Idle \/ (/\ DOMAIN learning = {"need", "ok", "bad", "left"}
                         /\ learning.need \in {1, 2} /\ learning.ok \in Nat)
  /\ learning # Idle => answer = NoAnswer

LessonOK == DOMAIN lesson = {"at", "confirmed", "clean", "steady"}

(* A solver that has been confirmed with a solution, and has not been made *)
(* to learn again, has an output as long as it says.                       *)
SolverInv ==
  /\ Shaped(ls) /\ RowsListed /\ LearningOK /\ LessonOK
  /\ ready => ls.stage = "second"
  /\ lesson.confirmed /\ ls.stage = "second" => Promise(ls)
  /\ WritesWhatItPromised

LEMMA CopiesDropped ==
  ASSUME RowsListed, NEW rows, Ordered(rows), DropCopies(rows)
  PROVE  RowsListed'
  BY OrderedEmpty DEF RowsListed, DropCopies, NoCopy

LEMMA RowsReplaced ==
  ASSUME RowsListed, NEW rows, Ordered(rows), NEW c, mat' = [mat EXCEPT ![c] = rows]
  PROVE  RowsListed'
  BY DEF RowsListed

LEMMA Quiet ==
  ASSUME answer' = NoAnswer
  PROVE  WritesWhatItPromised'
  BY DEF WritesWhatItPromised, NoAnswer

LEMMA SolverInit ==
  ASSUME Init
  PROVE  SolverInv
  <1>1. Shaped(ls) /\ ls.stage = "first"
    <2>1. PICK s \in Settings :
       ls = [stage |-> "first", flags |-> s.flags, maxcol |-> s.maxcol,
             weight |-> s.weight, zerodeps |-> <<>>, indepeqs |-> <<>>,
             x |-> [j \in Columns |-> {"nonzero"} \cup (IF j \in s.needed THEN {"needed"} ELSE {})],
             outeq |-> <<>>, deps |-> <<>>, indep |-> <<>>, eqdeps |-> <<>>,
             elems |-> <<>>, nparsout |-> 0]
      BY DEF Init
    <2>2. /\ DOMAIN ls = Fields /\ ls.stage = "first" /\ ls.zerodeps = <<>> /\ ls.deps = <<>>
          /\ ls.outeq = <<>> /\ ls.indep = <<>>
      BY <2>1 DEF Fields
    <2> QED
      BY <2>2, OrderedEmpty DEF Shaped, ListsOK
  <1>2. RowsListed
    <2> DEFINE n == [i \in 1 .. NEqs |-> NewRow]
    <2>1. Listed(n, NEqs)
      BY NEqsAssumption DEF Listed
    <2>2. Ordered(n)
      BY <2>1, OrderedListed
    <2>3. mat = [c \in {Main} \cup Workers |-> IF c = Main THEN n ELSE NoCopy]
      BY DEF Init
    <2> HIDE DEF n
    <2> QED
      BY <2>2, <2>3, OrderedEmpty DEF RowsListed, NoCopy
  <1>3. /\ learning = Idle /\ ready = FALSE /\ answer = NoAnswer
        /\ lesson = [at |-> "none", confirmed |-> FALSE, clean |-> TRUE, steady |-> TRUE]
    BY DEF Init
  <1> QED
    BY <1>1, <1>2, <1>3 DEF SolverInv, LearningOK, LessonOK, WritesWhatItPromised, NoAnswer

LEMMA InvalidShaped ==
  ASSUME NEW l, Shaped(l)
  PROVE  Shaped(Invalid(l)) /\ Invalid(l).stage = "first"
  <1>1. /\ DOMAIN Invalid(l) = Fields /\ Invalid(l).stage = "first" /\ Invalid(l).zerodeps = l.zerodeps
        /\ Invalid(l).deps = l.deps /\ Invalid(l).outeq = l.outeq /\ Invalid(l).indep = l.indep
    BY DEF Shaped, ListsOK, Fields, Invalid
  <1> QED
    BY <1>1 DEF Shaped, ListsOK

LEMMA SetKeepsInv ==
  ASSUME SolverInv, NEW l, Shaped(l), Set(l)
  PROVE  SolverInv'
  <1>1. /\ ls' = Invalid(l) /\ DropCopies(mat[Main]) /\ ready' = FALSE /\ answer' = NoAnswer
        /\ UNCHANGED <<learning, lesson>>
    BY DEF Set
  <1>2. Shaped(ls') /\ ls'.stage = "first"
    BY <1>1, InvalidShaped
  <1>3. RowsListed'
    BY <1>1, CopiesDropped DEF SolverInv, RowsListed
  <1>4. WritesWhatItPromised'
    BY <1>1, Quiet
  <1>5. LearningOK' /\ LessonOK'
    BY <1>1 DEF SolverInv, LearningOK, LessonOK
  <1> QED
    BY <1>1, <1>2, <1>3, <1>4, <1>5 DEF SolverInv

LEMMA FlagsShaped ==
  ASSUME NEW l, Shaped(l), NEW flags, NEW elems, NEW maxcol, NEW weight
  PROVE  /\ Shaped([l EXCEPT !.flags = flags]) /\ Shaped([l EXCEPT !.flags = flags, !.elems = elems])
         /\ Shaped([l EXCEPT !.maxcol = maxcol, !.flags = flags]) /\ Shaped([l EXCEPT !.weight = weight])
  <1>1. ASSUME NEW m, DOMAIN m = Fields, m.stage = l.stage, m.zerodeps = l.zerodeps, m.deps = l.deps,
               m.outeq = l.outeq, m.indep = l.indep
        PROVE  Shaped(m)
    BY <1>1 DEF Shaped, ListsOK
  <1>2. DOMAIN l = Fields
    BY DEF Shaped, ListsOK
  <1> QED
    BY <1>1, <1>2 DEF Fields

LEMMA SettersKeepInv ==
  ASSUME SolverInv, Setter
  PROVE  SolverInv'
  <1>0. Shaped(ls)
    BY DEF SolverInv
  <1>1. ASSUME NEW f PROVE Shaped(With(ls, f))
    BY <1>0, FlagsShaped DEF With
  <1>2. CASE OnlyHomogeneous
    BY <1>1, <1>2, SetKeepsInv DEF OnlyHomogeneous
  <1>3. CASE OnlyNonHomogeneous
    <2>1. Shaped(With(With(ls, "zeroopt"), "nonhomog"))
      BY <1>1, FlagsShaped DEF With
    <2> QED
      BY <1>3, <2>1, SetKeepsInv DEF OnlyNonHomogeneous
  <1>4. CASE OptimizeZeroVars
    BY <1>1, <1>4, SetKeepsInv DEF OptimizeZeroVars
  <1>5. ASSUME NEW on \in BOOLEAN, SparseOutput(on) PROVE SolverInv'
    <2>1. Shaped(IF on THEN With(ls, "sparse") ELSE [ls EXCEPT !.flags = @ \ {"sparse"}, !.elems = <<>>])
      BY <1>0, <1>1, FlagsShaped
    <2> QED
      BY <1>5, <2>1, SetKeepsInv DEF SparseOutput
  <1>6. ASSUME NEW j, NEW b, NEW k, SparseOutputWithMaxCol(j, b, k) PROVE SolverInv'
    <2> DEFINE fs == (ls.flags \ {"nobacksubst", "clearouts"}) \cup {"sparse"}
                             \cup (IF b THEN {} ELSE {"nobacksubst"}) \cup (IF k THEN {} ELSE {"clearouts"})
               l == [ls EXCEPT !.maxcol = j, !.flags = fs]
    <2>1. Set(l)
      BY <1>6 DEF SparseOutputWithMaxCol
    <2> HIDE DEF fs
    <2>2. Shaped(l)
      BY <1>0, FlagsShaped
    <2> QED
      BY <2>1, <2>2, SetKeepsInv
  <1>7. ASSUME NEW w, EqWeight(w) PROVE SolverInv'
    <2>1. Shaped([ls EXCEPT !.weight = w])
      BY <1>0, FlagsShaped
    <2> QED
      BY <1>7, <2>1, SetKeepsInv DEF EqWeight
  <1> QED
    BY <1>2, <1>3, <1>4, <1>5, <1>6, <1>7 DEF Setter

\* The loop of learn_all: nothing is ready without a success.
LEMMA PointTried ==
  ASSUME LearningOK, learning # Idle, NEW ok, AfterTry(ok)
  PROVE  LearningOK' /\ (ready' => ok) /\ answer' = NoAnswer
  <1> DEFINE ln == [learning EXCEPT !.ok = IF ok THEN @ + 1 ELSE 0, !.bad = IF ok THEN @ ELSE @ + 1,
                                    !.left = @ - 1]
  <1>1. /\ ready' = (ln.ok >= ln.need)
        /\ learning' = IF ready' \/ ln.bad > NSingular \/ ln.left = 0 THEN Idle ELSE ln
        /\ answer' = answer
    BY DEF AfterTry
  <1>2. /\ DOMAIN learning = {"need", "ok", "bad", "left"}
        /\ learning.need \in {1, 2} /\ learning.ok \in Nat
    BY DEF LearningOK
  <1>3. /\ DOMAIN ln = {"need", "ok", "bad", "left"} /\ ln.need = learning.need
        /\ ln.ok = IF ok THEN learning.ok + 1 ELSE 0
    BY <1>2
  <1> HIDE DEF ln
  <1>4. ln.ok \in Nat /\ ln.need \in {1, 2} /\ (~ok => ln.ok = 0)
    BY <1>2, <1>3
  <1>5. ready' => ok
    <2>1. ~ok => ~(ln.ok >= ln.need)
      BY <1>4
    <2> QED
      BY <1>1, <2>1, Zenon
  <1>6. learning' \in {Idle, ln}
    BY <1>1
  <1> QED
    BY <1>1, <1>3, <1>4, <1>5, <1>6 DEF LearningOK

LEMMA LearnKeepsInv ==
  ASSUME SolverInv, Learn
  PROVE  SolverInv'
  <1>1. PICK n \in {IF ls.stage = "first" THEN 2 ELSE 1} :
           learning' = [need |-> n, ok |-> 0, bad |-> 0, left |-> n + NSingular]
    BY DEF Learn
  <1>2. n \in {1, 2}
    OBVIOUS
  <1>3. ready' = FALSE /\ answer' = NoAnswer /\ UNCHANGED <<ls, mat, lesson>>
    BY DEF Learn
  <1>4. LearningOK'
    BY <1>1, <1>2, <1>3 DEF LearningOK
  <1> QED
    BY <1>3, <1>4, Quiet DEF SolverInv, RowsListed, LessonOK

LEMMA LearnFirstKeepsInv ==
  ASSUME SolverInv, NEW q, LearnFirst(q)
  PROVE  SolverInv'
  <1> DEFINE r == Learn1(q)
  <1>1. /\ learning # Idle /\ ls.stage = "first"
        /\ ls' = r.ls /\ mat' = [mat EXCEPT ![Main] = r.rows]
        /\ AfterTry(r.ok)
    BY DEF LearnFirst
  <1>2. LessonOK' /\ lesson'.confirmed = FALSE
    BY DEF LearnFirst, LessonOK
  <1>3. Ordered(mat[Main])
    BY DEF SolverInv, RowsListed
  <1>4. Shaped(r.ls) /\ Ordered(r.rows) /\ (r.ok => r.ls.stage = "second")
    BY <1>1, <1>3, LearnedFirst DEF SolverInv
  <1> HIDE DEF r
  <1>5. LearningOK' /\ (ready' => r.ok) /\ answer' = NoAnswer
    BY <1>1, PointTried DEF SolverInv
  <1>6. RowsListed'
    BY <1>1, <1>4, RowsReplaced DEF SolverInv
  <1> QED
    BY <1>1, <1>2, <1>4, <1>5, <1>6, Quiet DEF SolverInv

\* What learn_2_ leaves
LEMMA LearnedAgain ==
  ASSUME NEW l, Shaped(l), l.stage = "second", NEW rd
  PROVE  /\ Shaped(Confirmed(l, rd).ls)
         /\ Confirmed(l, rd).ok => Confirmed(l, rd).ls.stage = "second"
         /\ Confirmed(l, rd).ok /\ ~Impossible(rd.rows) => Promise(Confirmed(l, rd).ls)
  <1>1. ASSUME NEW d
        PROVE  Shaped([l EXCEPT !.eqdeps = d]) /\ [l EXCEPT !.eqdeps = d].stage = "second"
    BY DEF Shaped, ListsOK, Fields
  <1>2. CASE Impossible(rd.rows) /\ Has(l, "impossible")
    <2> DEFINE m == [l EXCEPT !.eqdeps = <<>>]
    <2>1. Confirmed(l, rd) = [ls |-> m, ok |-> TRUE]
      BY <1>2 DEF Confirmed
    <2>2. Shaped(m) /\ m.stage = "second"
      BY <1>1
    <2> HIDE DEF m
    <2>3. Confirmed(l, rd).ls = m
      BY <2>1
    <2> QED
      BY <1>2, <2>2, <2>3
  <1>3. CASE Impossible(rd.rows) /\ ~Has(l, "impossible")
    <2>1. Confirmed(l, rd) = [ls |-> Invalid([l EXCEPT !.eqdeps = <<>>]), ok |-> FALSE]
      BY <1>3 DEF Confirmed
    <2> QED
      BY <1>1, <2>1, InvalidShaped
  <1>4. CASE ~Impossible(rd.rows) /\ Checked(l, rd.rows)
    <2> DEFINE m == [l EXCEPT !.eqdeps = rd.deps]
    <2>1. Confirmed(l, rd) = [ls |-> WithOutput(m, rd.rows), ok |-> TRUE]
      BY <1>4 DEF Confirmed
    <2>2. Shaped(m) /\ m.stage = "second"
      BY <1>1
    <2> HIDE DEF m
    <2>3. /\ SameLists(WithOutput(m, rd.rows), m) /\ Shaped(WithOutput(m, rd.rows))
          /\ Promise(WithOutput(m, rd.rows))
      BY <2>2, WithOutputPromises
    <2> QED
      BY <2>1, <2>2, <2>3 DEF SameLists
  <1>5. CASE ~Impossible(rd.rows) /\ ~Checked(l, rd.rows)
    <2>1. Confirmed(l, rd) = [ls |-> Invalid([l EXCEPT !.eqdeps = rd.deps]), ok |-> FALSE]
      BY <1>5 DEF Confirmed
    <2> QED
      BY <1>1, <2>1, InvalidShaped
  <1> QED
    BY <1>2, <1>3, <1>4, <1>5

LEMMA LearnAgainKeepsInv ==
  ASSUME SolverInv, NEW q, LearnAgain(q)
  PROVE  SolverInv'
  <1>1. PICK f \in {Fill(ls, mat[Main], q)} :
        \E rd \in {IF f.ok THEN Solved(ls, f.rows, NeededColumns(ls)) ELSE f} :
        \E r \in {IF f.ok THEN Confirmed(ls, rd) ELSE [ls |-> ls, ok |-> FALSE]} :
          /\ ls' = r.ls /\ mat' = [mat EXCEPT ![Main] = rd.rows]
          /\ lesson' = [lesson EXCEPT !.confirmed = r.ok /\ ~Impossible(rd.rows),
                                      !.clean = @ /\ r.ok /\ Alike(lesson.at, q)]
          /\ AfterTry(r.ok)
    BY DEF LearnAgain
  <1>2. PICK rd \in {IF f.ok THEN Solved(ls, f.rows, NeededColumns(ls)) ELSE f} :
        \E r \in {IF f.ok THEN Confirmed(ls, rd) ELSE [ls |-> ls, ok |-> FALSE]} :
          /\ ls' = r.ls /\ mat' = [mat EXCEPT ![Main] = rd.rows]
          /\ lesson' = [lesson EXCEPT !.confirmed = r.ok /\ ~Impossible(rd.rows),
                                      !.clean = @ /\ r.ok /\ Alike(lesson.at, q)]
          /\ AfterTry(r.ok)
    BY <1>1
  <1>3. PICK r \in {IF f.ok THEN Confirmed(ls, rd) ELSE [ls |-> ls, ok |-> FALSE]} :
          /\ ls' = r.ls /\ mat' = [mat EXCEPT ![Main] = rd.rows]
          /\ lesson' = [lesson EXCEPT !.confirmed = r.ok /\ ~Impossible(rd.rows),
                                      !.clean = @ /\ r.ok /\ Alike(lesson.at, q)]
          /\ AfterTry(r.ok)
    BY <1>2
  <1>4. learning # Idle /\ ls.stage = "second"
    BY DEF LearnAgain
  <1>5. Ordered(mat[Main]) /\ Shaped(ls)
    BY DEF SolverInv, RowsListed
  <1>6. Ordered(f.rows)
    BY <1>5, FilledOrdered
  <1>7. Ordered(rd.rows)
    BY <1>6, SolvedOrdered
  <1>8. /\ Shaped(r.ls) /\ (r.ok => r.ls.stage = "second")
        /\ r.ok /\ ~Impossible(rd.rows) => Promise(r.ls)
    <2>1. CASE f.ok
      BY <1>4, <1>5, <2>1, LearnedAgain
    <2>2. CASE ~f.ok
      BY <1>5, <2>2
    <2> QED
      BY <2>1, <2>2
  <1>9. LessonOK' /\ lesson'.confirmed = (r.ok /\ ~Impossible(rd.rows))
    BY <1>3 DEF SolverInv, LessonOK
  <1>10. LearningOK' /\ (ready' => r.ok) /\ answer' = NoAnswer
    BY <1>3, <1>4, PointTried DEF SolverInv
  <1>11. RowsListed'
    BY <1>3, <1>7, RowsReplaced DEF SolverInv
  <1> QED
    BY <1>3, <1>8, <1>9, <1>10, <1>11, Quiet DEF SolverInv

\* Evaluations write the output that was promised.
LEMMA EvaluateKeepsInv ==
  ASSUME SolverInv, NEW q, NEW c \in DOMAIN mat, Evaluate(q, c)
  PROVE  SolverInv'
  <1> DEFINE f == Fill(ls, Rows(c), q)
             rows == IF f.ok THEN Solved(ls, f.rows, NeededColumns(ls)).rows ELSE f.rows
             ok == f.ok /\ Answered(ls, rows)
  <1>1. /\ learning = Idle /\ ready
        /\ mat' = [mat EXCEPT ![c] = rows]
        /\ answer' = [at |-> q, stale |-> Len(rows) # Len(ls.indepeqs),
                      ok |-> ok, rows |-> rows, xout |-> IF ok THEN Output(ls, rows) ELSE <<>>]
        /\ lesson' = [lesson EXCEPT !.steady = @ /\ (c = Main => answer'.ok /\ Alike(lesson.at, q))]
        /\ UNCHANGED <<ls, learning, ready>>
    BY DEF Evaluate, Called
  <1>2. Ordered(Rows(c))
    <2>1. Ordered(mat[c]) /\ DOMAIN mat[Main] = 1 .. Len(mat[Main]) /\ Len(mat[Main]) \in Nat
      BY LenOfListed DEF SolverInv, RowsListed, Ordered, Listed
    <2> DEFINE n == [i \in DOMAIN mat[Main] |-> NewRow]
    <2>2. Listed(n, Len(mat[Main]))
      BY <2>1 DEF Listed
    <2>3. Rows(c) \in {n, mat[c]}
      BY DEF Rows
    <2> HIDE DEF n
    <2> QED
      BY <2>1, <2>2, <2>3, OrderedListed
  <1>3. Ordered(f.rows)
    BY <1>2, FilledOrdered
  <1> HIDE DEF f
  <1>4. Ordered(rows)
    BY <1>3, SolvedOrdered
  <1> HIDE DEF rows, ok
  <1>5. RowsListed'
    BY <1>1, <1>4, RowsReplaced DEF SolverInv
  <1>6. LessonOK' /\ lesson'.confirmed = lesson.confirmed
    BY <1>1 DEF SolverInv, LessonOK
  <1>7. WritesWhatItPromised'
    <2>1. SUFFICES ASSUME ok, lesson.confirmed PROVE Len(Output(ls, rows)) = ls.nparsout
      BY <1>1, <1>6 DEF WritesWhatItPromised
    <2>2. Shaped(ls) /\ Promise(ls)
      BY <1>1, <2>1 DEF SolverInv
    <2> QED
      BY <2>2, OutputLength
  <1> QED
    BY <1>1, <1>5, <1>6, <1>7 DEF SolverInv, LearningOK

\* What the output is described with
SameOutput(m, l) ==
  /\ m.zerodeps = l.zerodeps /\ m.deps = l.deps /\ m.indep = l.indep
  /\ m.elems = l.elems /\ m.nparsout = l.nparsout
  /\ \A f \in {"sparse", "homog"} : Has(m, f) <=> Has(l, f)

LEMMA SameOutputPromise ==
  ASSUME NEW m, NEW l, SameOutput(m, l), Promise(l)
  PROVE  Promise(m)
  <1>1. NParsPerDep(m) = NParsPerDep(l)
    BY DEF SameOutput, NParsPerDep
  <1> QED
    BY <1>1 DEF SameOutput, Promise

LEMMA InOrderLength ==
  ASSUME NEW n \in Nat, NEW S \in SUBSET (1 .. n)
  PROVE  Len(InOrder(S)) \in 0 .. n
  <1>1. IsFiniteSet(1 .. n) /\ Cardinality(1 .. n) = n
    BY FS_Interval
  <1>2. IsFiniteSet(S) /\ Cardinality(S) <= Cardinality(1 .. n)
    BY <1>1, FS_Subset
  <1>3. Cardinality(S) \in Nat
    BY <1>2, FS_CardinalityType
  <1>4. Listed(InOrder(S), Cardinality(S))
    <2>1. n \in Int /\ S \in SUBSET (1 .. n)
      OBVIOUS
    <2> QED
      BY <2>1, InOrderListed, Zenon
  <1>5. Len(InOrder(S)) = Cardinality(S)
    BY <1>4, LenOfListed
  <1> QED
    BY <1>1, <1>2, <1>3, <1>5

LEMMA SweepKeepsInv ==
  ASSUME SolverInv, Sweep
  PROVE  SolverInv'
  <1> DEFINE rows == mat[Main]
             marked == MarkedFrom({i \in DOMAIN rows : IsNeeded(ls, rows[i])})
             left == InOrder(DOMAIN rows \cap marked)
             gone == {First(rows[i]) : i \in DOMAIN rows \ marked}
             out == InOrder({k \in DOMAIN left : IsNeeded(ls, rows[left[k]])})
             xs == [j \in Columns |-> IF j \in gone THEN ls.x[j] \cup {"swept"} ELSE ls.x[j]]
             ids == [k \in DOMAIN left |-> rows[left[k]].id]
             m == [ls EXCEPT !.indepeqs = ids, !.outeq = Overwritten(@, out), !.x = xs, !.eqdeps = <<>>]
  <1>0. answer' = NoAnswer /\ UNCHANGED <<learning, ready>>
    BY DEF Sweep
  <1>1. Ordered(rows) /\ DOMAIN rows = 1 .. Len(rows) /\ Len(rows) \in Nat
    BY LenOfListed DEF SolverInv, RowsListed, Ordered, Listed
  <1>2. CASE UNCHANGED <<ls, lesson>> /\ DropCopies(rows)
    <2>1. RowsListed'
      BY <1>1, <1>2, CopiesDropped DEF SolverInv
    <2> QED
      BY <1>0, <1>2, <2>1, Quiet DEF SolverInv, LearningOK, LessonOK
  <1>3. CASE /\ ls' = With(m, "swept")
             /\ DropCopies(SubSeq(rows, 1, Len(left)))
             /\ lesson' = [lesson EXCEPT !.clean = @ /\ lesson.steady]
    <2>1. Ordered(left) /\ Len(left) \in 0 .. Len(rows)
      <3> HIDE DEF marked
      <3> DEFINE S == DOMAIN rows \cap marked
      <3>1. S \in SUBSET (1 .. Len(rows))
        BY <1>1
      <3>4. left = InOrder(S)
        OBVIOUS
      <3> DEFINE n == Len(rows)
      <3>5. S \in SUBSET (1 .. n) /\ n \in Int /\ n \in Nat
        BY <1>1, <3>1
      <3> HIDE DEF S, left, n
      <3>2. Ordered(InOrder(S))
        BY <3>5, InOrderOrdered
      <3>3. Len(InOrder(S)) \in 0 .. n
        BY <3>5, InOrderLength
      <3> QED
        BY <3>2, <3>3, <3>4 DEF n
    <2> HIDE DEF left, rows
    <2>2. RowsListed'
      <3>1. Ordered(SubSeq(rows, 1, Len(left)))
        BY <1>1, <2>1, SubSeqOrdered
      <3> QED
        BY <1>3, <3>1, CopiesDropped DEF SolverInv
    <2>3. Ordered(out)
      BY <2>1, SelectedOrdered
    <2> HIDE DEF out, xs, ids
    <2>4. Shaped(ls) /\ DOMAIN ls = Fields
      BY DEF SolverInv, Shaped, ListsOK
    <2>5. Ordered(Overwritten(ls.outeq, out))
      BY <2>3, <2>4, OverwrittenOrdered DEF Shaped, ListsOK
    <2>6. /\ DOMAIN ls' = Fields /\ ls'.stage = ls.stage /\ ls'.outeq = Overwritten(ls.outeq, out)
          /\ ls'.zerodeps = ls.zerodeps /\ ls'.deps = ls.deps /\ ls'.indep = ls.indep
          /\ ls'.elems = ls.elems /\ ls'.nparsout = ls.nparsout /\ ls'.flags = ls.flags \cup {"swept"}
      BY <1>3, <2>4 DEF With, Fields
    <2>7. Shaped(ls')
      BY <2>4, <2>5, <2>6 DEF Shaped, ListsOK
    <2>8. SameOutput(ls', ls)
      BY <2>6 DEF SameOutput, Has
    <2>9. LessonOK' /\ lesson'.confirmed = lesson.confirmed
      BY <1>3 DEF SolverInv, LessonOK
    <2>10. LearningOK'
      BY <1>0 DEF SolverInv, LearningOK
    <2> QED
      BY <1>0, <2>2, <2>6, <2>7, <2>8, <2>9, <2>10, SameOutputPromise, Quiet DEF SolverInv
  <1> QED
    BY <1>2, <1>3 DEF Sweep

LEMMA ResetNeededKeepsInv ==
  ASSUME SolverInv, NEW s, ResetNeeded(s)
  PROVE  SolverInv'
  <1> DEFINE l == SetFlags([ls EXCEPT !.eqdeps = <<>>],
                        [j \in Columns |-> CASE j \in s -> (ls.x[j] \ {"rhs"}) \cup {"needed"}
                                             [] j = Const -> ls.x[j]
                                             [] OTHER -> ls.x[j] \ {"needed", "rhs"}])
             zeroes == Selected(l.zerodeps, {k \in DOMAIN l.zerodeps : l.zerodeps[k] \in s})
             ks == SubSeq(l.outeq, 1, NOut(l))
             out == NeededRows(l, ks, mat[Main])
  <1>1. /\ ls' = IF l.stage = "first" THEN l ELSE Relearned(l, mat[Main], zeroes, out)
        /\ DropCopies(mat[Main])
        /\ lesson' = [lesson EXCEPT !.clean = @ /\ lesson.steady]
        /\ answer' = NoAnswer /\ UNCHANGED <<learning, ready>>
    BY DEF ResetNeeded
  <1>2. ls.stage = "second" => Positioned(ls, Len(mat[Main]))
    BY DEF ResetNeeded
  <1>3. Shaped(l) /\ l.stage = ls.stage /\ l.outeq = ls.outeq /\ NOut(l) = NOut(ls)
    BY DEF SolverInv, Shaped, ListsOK, Fields, SetFlags, NOut
  <1> HIDE DEF l
  <1>4. LessonOK' /\ lesson'.confirmed = lesson.confirmed
    BY <1>1 DEF SolverInv, LessonOK
  <1>5. LearningOK' /\ WritesWhatItPromised'
    BY <1>1, Quiet DEF SolverInv, LearningOK
  <1>6. RowsListed'
    BY <1>1, CopiesDropped DEF SolverInv, RowsListed
  <1>7. CASE l.stage = "first"
    BY <1>1, <1>3, <1>4, <1>5, <1>6, <1>7 DEF SolverInv
  <1>8. CASE l.stage # "first"
    <2>1. l.stage = "second"
      BY <1>3, <1>8 DEF Shaped, ListsOK
    <2>2. Ordered(zeroes)
      BY <1>3, SelectedOrdered DEF Shaped, ListsOK
    <2>3. NOut(l) \in 0 .. Len(l.outeq)
      <3>1. NOut(l) \in Nat /\ DOMAIN l.outeq = 1 .. Len(l.outeq) /\ Len(l.outeq) \in Nat
        BY <1>3, NOutIsNat, LenOfListed DEF Shaped, ListsOK, Ordered, Listed
      <3>2. \A k \in 1 .. NOut(l) : k \in DOMAIN l.outeq
        BY <1>2, <1>3, <2>1 DEF Positioned
      <3> QED
        BY <3>1, <3>2
    <2>4. Ordered(ks)
      BY <1>3, <2>3, SubSeqOrdered DEF Shaped, ListsOK
    <2> HIDE DEF ks
    <2>5. Ordered(out)
      BY <2>4, SelectedOrdered DEF NeededRows
    <2> HIDE DEF zeroes, out
    <2>6. Shaped(ls') /\ Promise(ls') /\ ls'.stage = "second"
      BY <1>1, <1>3, <1>8, <2>1, <2>2, <2>5, RelearnedPromises
    <2> QED
      BY <1>1, <1>4, <1>5, <1>6, <2>6 DEF SolverInv
  <1> QED
    BY <1>7, <1>8

LEMMA DeleteUnneededKeepsInv ==
  ASSUME SolverInv, DeleteUnneeded
  PROVE  SolverInv'
  <1>1. DropCopies(mat[Main]) /\ answer' = NoAnswer /\ UNCHANGED <<ls, learning, ready, lesson>>
    BY DEF DeleteUnneeded
  <1>2. RowsListed'
    BY <1>1, CopiesDropped DEF SolverInv, RowsListed
  <1> QED
    BY <1>1, <1>2, Quiet DEF SolverInv, LearningOK, LessonOK

LEMMA DumpAndLoadKeepsInv ==
  ASSUME SolverInv, DumpAndLoad
  PROVE  SolverInv'
  <1> DEFINE n == [i \in DOMAIN mat[Main] |-> NewRow]
  <1>1. /\ NOut(ls) <= Len(ls.outeq)
        /\ ls' = [ls EXCEPT !.weight = <<>>, !.outeq = SubSeq(@, 1, NOut(ls))]
        /\ DropCopies(n) /\ lesson' = [lesson EXCEPT !.steady = FALSE]
        /\ ready' = FALSE /\ answer' = NoAnswer /\ UNCHANGED learning
    BY DEF DumpAndLoad
  <1>2. RowsListed'
    <2>1. DOMAIN mat[Main] = 1 .. Len(mat[Main]) /\ Len(mat[Main]) \in Nat
      BY LenOfListed DEF SolverInv, RowsListed, Ordered, Listed
    <2>2. Listed(n, Len(mat[Main]))
      BY <2>1 DEF Listed
    <2> HIDE DEF n
    <2> QED
      BY <1>1, <2>2, OrderedListed, CopiesDropped DEF SolverInv
  <1>3. Shaped(ls) /\ DOMAIN ls = Fields
    BY DEF SolverInv, Shaped, ListsOK
  <1>4. Ordered(SubSeq(ls.outeq, 1, NOut(ls)))
    <2>1. NOut(ls) \in 0 .. Len(ls.outeq)
      <3>1. NOut(ls) \in Nat
        BY <1>3, NOutIsNat
      <3>2. Len(ls.outeq) \in Nat
        BY <1>3 DEF Shaped, ListsOK, Ordered, Listed
      <3> QED
        BY <1>1, <3>1, <3>2
    <2> QED
      BY <1>3, <2>1, SubSeqOrdered DEF Shaped, ListsOK
  <1>5. /\ DOMAIN ls' = Fields /\ ls'.stage = ls.stage /\ ls'.outeq = SubSeq(ls.outeq, 1, NOut(ls))
        /\ ls'.zerodeps = ls.zerodeps /\ ls'.deps = ls.deps /\ ls'.indep = ls.indep
        /\ ls'.elems = ls.elems /\ ls'.nparsout = ls.nparsout /\ ls'.flags = ls.flags
    BY <1>1, <1>3 DEF Fields
  <1>6. Shaped(ls') /\ SameOutput(ls', ls)
    BY <1>3, <1>4, <1>5 DEF Shaped, ListsOK, SameOutput, Has
  <1>7. LessonOK' /\ lesson'.confirmed = lesson.confirmed /\ LearningOK'
    BY <1>1 DEF SolverInv, LessonOK, LearningOK
  <1> QED
    BY <1>1, <1>2, <1>5, <1>6, <1>7, SameOutputPromise, Quiet DEF SolverInv

\* Every call, and every point of a learning, keeps the invariant.
LEMMA SolverStep ==
  ASSUME SolverInv, [Next]_vars
  PROVE  SolverInv'
  <1>1. CASE Next
    BY <1>1, LearnKeepsInv, LearnFirstKeepsInv, LearnAgainKeepsInv, EvaluateKeepsInv, SweepKeepsInv,
       ResetNeededKeepsInv, SettersKeepInv, DeleteUnneededKeepsInv, DumpAndLoadKeepsInv DEF Next
  <1>2. CASE UNCHANGED vars
    BY <1>2 DEF vars, SolverInv, RowsListed, LearningOK, LessonOK, WritesWhatItPromised
  <1> QED
    BY <1>1, <1>2

(* An evaluation writes as many values as the solver has told the graph it *)
(* does (alg_linear_solver.cc:843), whatever setters, markings, sweeps and *)
(* sets of needed unknowns came before, in any context: what the graph     *)
(* allocates is what Output fills.                                         *)
THEOREM OutputIsAsLongAsPromised == Spec => []WritesWhatItPromised
  <1>1. Init => SolverInv
    BY SolverInit
  <1>2. SolverInv /\ [Next]_vars => SolverInv'
    BY SolverStep
  <1>3. SolverInv => WritesWhatItPromised
    BY DEF SolverInv
  <1> QED
    BY <1>1, <1>2, <1>3, PTL DEF Spec
=============================================================================

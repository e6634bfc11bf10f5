------------------------ MODULE FunctionCache_proofs ------------------------
(***************************************************************************)
(* Proofs about FunctionCache: the hash tables of evaluations find what    *)
(* was put in, own the memory of what they point to, and together are the  *)
(* store of KeyedStore, for every set of keys and hash values, any number  *)
(* of worker caches, any capacities and any bound on entries.              *)
(*                                                                         *)
(* LookInv is about the tables, also those that a rehash or a merge is     *)
(* filling: slots before that of an entry are taken, the slots taken are   *)
(* counted, and there is room for all that waits.  MemInv is about the     *)
(* memory: the entries in the table of a cache are those whose memory it   *)
(* has, but that the main cache also has those that a merge has copied     *)
(* from a cache whose memory it does not have yet.                         *)
(***************************************************************************)
EXTENDS FunctionCache, FiniteSetTheorems, TLAPS

-----------------------------------------------------------------------------
(* Tables *)

Entries == [key : Keys, id : Nat \ {0}]

\* The slots that are taken
Taken(d) == {p \in DOMAIN d : d[p] # NoEntry}

\* A table with n slots
Slots(d, n) == n \in Nat \ {0} /\ DOMAIN d = 0 .. n - 1

\* The slots before that of an entry, on the way of its key, are taken.
Reached(d) ==
  \A p \in Taken(d) : \E i \in 0 .. Cap(d) - 1 :
    /\ p = Slot(d, d[p].key, i)
    /\ \A j \in 0 .. i - 1 : d[Slot(d, d[p].key, j)] # NoEntry

Good(d) ==
  /\ d \in [DOMAIN d -> Entries \cup {NoEntry}]
  /\ Slots(d, Cap(d))
  /\ Reached(d)

TableOK(d, n) ==
  /\ d = <<>> \/ Good(d)
  /\ n \in Nat /\ Cardinality(Taken(d)) = n /\ 2 * n <= Cap(d)

-----------------------------------------------------------------------------
(* Operations in progress *)

Sets == (SUBSET Subs) \ {{}}
Puts == [op : {"put"}, key : Keys]
Merges == [op : {"merge"}, from : Sets, i : Nat]

First(S) == CHOOSE s \in S : \A r \in S : s <= r

\* The slots of the caches in S that have to be merged, those of the first one from slot i on
Waiting(tb, S, i) == UNION {{s} \X {p \in Taken(tb[s]) : s = First(S) => p >= i} : s \in S}

RehashShape(j) ==
  /\ j.op = "rehash"
  /\ j = [op |-> "rehash", i |-> j.i, new |-> j.new, then |-> j.then]
  /\ j.then = Free \/ j.then \in Puts \/ (j.then \in Merges /\ j.then.i = 0)

JobShape(j) == j = Free \/ RehashShape(j) \/ j \in Merges

\* The entries of the slots before i
Before(d, i) == {d[p] : p \in 0 .. i - 1} \ {NoEntry}

\* The larger table has the entries of the slots that were visited.
RehashOK(d, j) ==
  /\ d # <<>> /\ j.i \in 0 .. Cap(d)
  /\ Good(j.new) /\ EntriesOf(j.new) = Before(d, j.i)
  /\ Cardinality(Taken(j.new)) = Cardinality({p \in Taken(d) : p < j.i})

\* And it has room for those, and for what comes then.
Room(tb, n, j) ==
  /\ 2 * n <= Cap(j.new)
  /\ j.then.op = "put" => 2 * (n + 1) <= Cap(j.new)
  /\ j.then.op = "merge" => 2 * (n + Cardinality(Waiting(tb, j.then.from, 0))) <= Cap(j.new)

JobsOK ==
  /\ \A c \in Caches : JobShape(job[c])
  /\ \A s \in Subs : job[s].op # "merge" /\ (job[s].op = "rehash" => job[s].then.op # "merge")
  /\ job[Main] # Free => \A s \in Subs : job[s] = Free

MergeOK ==
  job[Main].op = "merge" =>
    /\ table[Main] # <<>> /\ job[Main].i \in 0 .. Cap(table[From])
    /\ 2 * (size[Main] + Cardinality(Waiting(table, job[Main].from, job[Main].i))) <= Cap(table[Main])

LookInv ==
  /\ table = [c \in Caches |-> table[c]]
  /\ size = [c \in Caches |-> size[c]]
  /\ job = [c \in Caches |-> job[c]]
  /\ \A c \in Caches : TableOK(table[c], size[c])
  /\ JobsOK
  /\ \A c \in Caches : job[c].op = "rehash" => RehashOK(table[c], job[c]) /\ Room(table, size[c], job[c])
  /\ MergeOK

-----------------------------------------------------------------------------
(* The memory of the entries *)

\* The entries whose memory a cache has
Owned(c) == {e \in AllEntries : e.id \in mem[c]}

\* The entries that were merged while their memory is where it was
Borrowed == IF job[Main].op = "merge" THEN Before(table[From], job[Main].i) ELSE {}

MemInv ==
  /\ made \in Nat /\ mem \in [Caches -> SUBSET (1 .. made)]
  /\ \A c, d \in Caches : c # d => mem[c] \cap mem[d] = {}
  /\ \A c \in Caches : {e.id : e \in Owned(c)} = mem[c]
  /\ \A s \in Subs : EntriesOf(table[s]) = Owned(s)
  /\ EntriesOf(table[Main]) = Owned(Main) \cup Borrowed
  /\ \A e, f \in AllEntries : e.id = f.id => e = f

LEMMA LeastOfNaturals ==
  ASSUME NEW T \in SUBSET Nat, T # {}
  PROVE  \E x \in T : \A y \in T : x <= y
  <1>1. PICK x \in T : \A y \in T : ~ (<<y, x>> \in OpToRel(<, Nat))
    BY Zenon, NatLessThanWellFounded, WFMin
  <1>2. ASSUME NEW y \in T PROVE x <= y
    <2>1. <<y, x>> \in Nat \X Nat
      OBVIOUS
    <2>2. ~(y < x)
      BY <1>1, <2>1 DEF OpToRel
    <2> QED
      BY <2>2
  <1> QED
    BY <1>2

-----------------------------------------------------------------------------
(* Lemmas about tables *)

LEMMA CapOf ==
  ASSUME NEW d, NEW n, Slots(d, n)
  PROVE  Cap(d) = n
  <1>1. n - 1 \in Int /\ 0 \in Int /\ ~(0 > n - 1) /\ (n - 1) - 0 + 1 = n
    BY DEF Slots
  <1> QED
    BY <1>1, FS_Interval DEF Cap, Slots

LEMMA SlotsInReach ==
  ASSUME NEW d, Slots(d, Cap(d)), NEW k \in Keys
  PROVE  /\ \A i \in 0 .. Cap(d) - 1 : Slot(d, k, i) \in DOMAIN d
         /\ \A p \in DOMAIN d : \E i \in 0 .. Cap(d) - 1 : Slot(d, k, i) = p
  <1> DEFINE n == Cap(d)
             h == Hash[k]
             f == h % n
  <1>1. n \in Nat \ {0} /\ DOMAIN d = 0 .. n - 1 /\ h \in Nat
    BY CacheAssumption DEF Slots
  <1> HIDE DEF n, h
  <1>2. f \in 0 .. n - 1
    BY <1>1
  <1>3. \A i : Slot(d, k, i) = IF f + i < n THEN f + i ELSE f + i - n
    BY DEF Slot, n, h
  <1> HIDE DEF f
  <1>4. ASSUME NEW i \in 0 .. n - 1 PROVE Slot(d, k, i) \in 0 .. n - 1
    BY <1>1, <1>2, <1>3
  <1>5. ASSUME NEW p \in 0 .. n - 1 PROVE \E i \in 0 .. n - 1 : Slot(d, k, i) = p
    <2>1. CASE p >= f
      <3>1. p - f \in 0 .. n - 1 /\ f + (p - f) < n /\ f + (p - f) = p
        BY <2>1, <1>1, <1>2
      <3>2. Slot(d, k, p - f) = p
        BY <3>1, <1>3
      <3> QED
        BY <3>1, <3>2
    <2>2. CASE p < f
      <3>1. (p - f) + n \in 0 .. n - 1 /\ ~(f + ((p - f) + n) < n) /\ f + ((p - f) + n) - n = p
        BY <2>2, <1>1, <1>2
      <3>2. Slot(d, k, (p - f) + n) = p
        BY <3>1, <1>3
      <3> QED
        BY <3>1, <3>2
    <2> QED
      BY <2>1, <2>2, <1>2
  <1> QED
    BY <1>1, <1>4, <1>5 DEF n

LEMMA SlotOfCap ==
  ASSUME NEW d, NEW e, DOMAIN d = DOMAIN e
  PROVE  Cap(d) = Cap(e) /\ \A k, i : Slot(d, k, i) = Slot(e, k, i)
  BY DEF Cap, Slot

\* The first of some slots on the way of a key
LEMMA FirstOnTheWay ==
  ASSUME NEW d, Slots(d, Cap(d)), NEW k \in Keys, NEW P \in SUBSET DOMAIN d, P # {}
  PROVE  \E i \in 0 .. Cap(d) - 1 : Slot(d, k, i) \in P /\ \A j \in 0 .. i - 1 : Slot(d, k, j) \notin P
  <1> DEFINE T == {i \in 0 .. Cap(d) - 1 : Slot(d, k, i) \in P}
  <1>1. Cap(d) \in Nat
    BY DEF Slots
  <1>2. T \in SUBSET Nat /\ T # {}
    <2>1. PICK p \in P : TRUE
      OBVIOUS
    <2>2. PICK i \in 0 .. Cap(d) - 1 : Slot(d, k, i) = p
      BY <2>1, SlotsInReach
    <2> QED
      BY <1>1, <2>1, <2>2
  <1>3. PICK i \in T : \A j \in T : i <= j
    BY <1>2, LeastOfNaturals
  <1>4. ASSUME NEW j \in 0 .. i - 1 PROVE Slot(d, k, j) \notin P
    <2>1. j \in 0 .. Cap(d) - 1 /\ ~(i <= j)
      BY <1>1, <1>3
    <2> QED
      BY <2>1, <1>3
  <1> QED
    BY <1>3, <1>4

\* An entry goes to an empty slot that its key reaches.
LEMMA PutAt ==
  ASSUME NEW d, Good(d), NEW e \in Entries, \E p \in DOMAIN d : d[p] = NoEntry
  PROVE  \E p \in DOMAIN d :
           /\ d[p] = NoEntry /\ Put(d, e) = [d EXCEPT ![p] = e]
           /\ \E i \in 0 .. Cap(d) - 1 : p = Slot(d, e.key, i) /\ \A j \in 0 .. i - 1 : d[Slot(d, e.key, j)] # NoEntry
  <1> DEFINE P == {p \in DOMAIN d : d[p] = NoEntry}
             At(i) == d[Slot(d, e.key, i)] = NoEntry /\ \A j \in 0 .. i - 1 : d[Slot(d, e.key, j)] # NoEntry
  <1>1. Slots(d, Cap(d)) /\ e.key \in Keys /\ Cap(d) \in Nat
    BY DEF Good, Slots, Entries
  <1>2. \A i \in 0 .. Cap(d) - 1 : Slot(d, e.key, i) \in DOMAIN d
    BY <1>1, SlotsInReach
  <1>3. PICK i \in 0 .. Cap(d) - 1 : Slot(d, e.key, i) \in P /\ \A j \in 0 .. i - 1 : Slot(d, e.key, j) \notin P
    BY <1>1, FirstOnTheWay
  <1>4. At(i)
    <2>1. \A j \in 0 .. i - 1 : j \in 0 .. Cap(d) - 1
      BY <1>1
    <2> QED
      BY <1>2, <1>3, <2>1
  <1> DEFINE c == CHOOSE n \in 0 .. Cap(d) - 1 : At(n)
  <1>5. c \in 0 .. Cap(d) - 1 /\ At(c)
    <2> HIDE DEF At
    <2> QED
      BY <1>4
  <1>6. Put(d, e) = [d EXCEPT ![Slot(d, e.key, c)] = e]
    BY DEF Put
  <1> HIDE DEF c
  <1> QED
    BY <1>2, <1>5, <1>6

LEMMA PutKeeps ==
  ASSUME NEW d, Good(d), NEW e \in Entries, \E p \in DOMAIN d : d[p] = NoEntry
  PROVE  /\ Good(Put(d, e)) /\ Cap(Put(d, e)) = Cap(d)
         /\ EntriesOf(Put(d, e)) = EntriesOf(d) \cup {e}
         /\ \E p \in DOMAIN d : p \notin Taken(d) /\ Taken(Put(d, e)) = Taken(d) \cup {p}
  <1> DEFINE f == Put(d, e)
  <1>1. PICK p \in DOMAIN d :
          /\ d[p] = NoEntry /\ f = [d EXCEPT ![p] = e]
          /\ \E i \in 0 .. Cap(d) - 1 : p = Slot(d, e.key, i) /\ \A j \in 0 .. i - 1 : d[Slot(d, e.key, j)] # NoEntry
    BY PutAt
  <1> HIDE DEF f
  <1>2. e # NoEntry
    BY DEF Entries, NoEntry
  <1>3. DOMAIN f = DOMAIN d /\ f[p] = e /\ \A q \in DOMAIN d : q # p => f[q] = d[q]
    BY <1>1
  <1>4. f \in [DOMAIN f -> Entries \cup {NoEntry}]
    BY <1>1, <1>3 DEF Good
  <1>5. Cap(f) = Cap(d) /\ \A k, i : Slot(f, k, i) = Slot(d, k, i)
    BY <1>3, SlotOfCap
  <1>6. Slots(f, Cap(f))
    BY <1>3, <1>5 DEF Good, Slots
  <1>7. Taken(f) = Taken(d) \cup {p} /\ p \notin Taken(d)
    BY <1>1, <1>2, <1>3 DEF Taken
  <1>8. EntriesOf(f) = EntriesOf(d) \cup {e}
    BY <1>1, <1>2, <1>3 DEF EntriesOf
  <1>9. \A q \in DOMAIN d : d[q] # NoEntry => f[q] # NoEntry
    BY <1>1, <1>3
  <1>10. ASSUME NEW q \in Taken(f)
         PROVE  \E i \in 0 .. Cap(f) - 1 : q = Slot(f, f[q].key, i) /\ \A j \in 0 .. i - 1 : f[Slot(f, f[q].key, j)] # NoEntry
    <2>1. PICK i \in 0 .. Cap(d) - 1 : q = Slot(d, f[q].key, i) /\ \A j \in 0 .. i - 1 : d[Slot(d, f[q].key, j)] # NoEntry
      <3>1. CASE q = p
        BY <1>1, <1>3, <3>1
      <3>2. CASE q # p
        <4>1. q \in Taken(d) /\ f[q] = d[q]
          BY <1>3, <1>7, <3>2 DEF Taken
        <4> QED
          BY <4>1 DEF Good, Reached
      <3> QED
        BY <3>1, <3>2
    <2>2. f[q].key \in Keys
      BY <1>4 DEF Taken, Entries
    <2>3. \A j \in 0 .. i - 1 : j \in 0 .. Cap(d) - 1
      BY DEF Good, Slots
    <2>4. \A j \in 0 .. Cap(d) - 1 : Slot(d, f[q].key, j) \in DOMAIN d
      BY <2>2, SlotsInReach DEF Good
    <2>5. \A j \in 0 .. i - 1 : f[Slot(f, f[q].key, j)] # NoEntry
      BY <1>5, <1>9, <2>1, <2>3, <2>4
    <2> QED
      BY <1>5, <2>1, <2>5
  <1>11. Reached(f)
    BY <1>10 DEF Reached
  <1> QED
    BY <1>4, <1>5, <1>6, <1>7, <1>8, <1>11 DEF f, Good

LEMMA FindsTheKey ==
  ASSUME NEW d, Good(d), NEW k \in Keys, \E p \in DOMAIN d : d[p] = NoEntry
  PROVE  LET there == {e \in EntriesOf(d) : e.key = k}
         IN  Find(d, k) \in (IF there = {} THEN {NoEntry} ELSE there)
  <1> DEFINE P == {p \in DOMAIN d : d[p] = NoEntry \/ InPos(d[p], k)}
             There == {e \in EntriesOf(d) : e.key = k}
             Ends(i) == LET e == d[Slot(d, k, i)] IN
                        /\ e = NoEntry \/ InPos(e, k)
                        /\ \A j \in 0 .. i - 1 : LET f == d[Slot(d, k, j)] IN f # NoEntry /\ ~InPos(f, k)
             c == CHOOSE i \in 0 .. Cap(d) - 1 : Ends(i)
  <1>1. Slots(d, Cap(d)) /\ Cap(d) \in Nat /\ Cap(d) # 0
    BY DEF Good, Slots
  <1>2. \A i \in 0 .. Cap(d) - 1 : Slot(d, k, i) \in DOMAIN d
    BY <1>1, SlotsInReach
  <1>3. PICK i \in 0 .. Cap(d) - 1 : Slot(d, k, i) \in P /\ \A j \in 0 .. i - 1 : Slot(d, k, j) \notin P
    BY <1>1, FirstOnTheWay
  <1>4. Ends(i)
    <2>1. \A j \in 0 .. i - 1 : j \in 0 .. Cap(d) - 1
      BY <1>1
    <2> QED
      BY <1>2, <1>3, <2>1
  <1>5. c \in 0 .. Cap(d) - 1 /\ Ends(c)
    <2> HIDE DEF Ends
    <2> QED
      BY <1>4
  <1>6. d # <<>>
    BY <1>1 DEF Slots
  <1>7. Find(d, k) = d[Slot(d, k, c)]
    BY <1>6 DEF Find
  <1> HIDE DEF c
  <1>8. Find(d, k) = NoEntry \/ Find(d, k) \in There
    BY <1>2, <1>5, <1>7 DEF InPos, EntriesOf
  <1>9. ASSUME Find(d, k) = NoEntry, NEW e \in There PROVE FALSE
    <2>1. PICK p \in DOMAIN d : e = d[p] /\ e # NoEntry /\ e.key = k
      BY <1>9 DEF EntriesOf
    <2>2. PICK n \in 0 .. Cap(d) - 1 : p = Slot(d, k, n) /\ \A j \in 0 .. n - 1 : d[Slot(d, k, j)] # NoEntry
      BY <2>1 DEF Good, Reached, Taken
    <2>3. InPos(d[p], k)
      BY <2>1 DEF InPos
    <2>4. d[Slot(d, k, c)] = NoEntry
      BY <1>7, <1>9
    <2>5. ~(c < n)
      <3> SUFFICES ASSUME c < n PROVE FALSE
        OBVIOUS
      <3>1. c \in 0 .. n - 1
        BY <1>1, <1>5
      <3> QED
        BY <2>2, <2>4, <3>1
    <2>6. ~(n < c)
      <3> SUFFICES ASSUME n < c PROVE FALSE
        OBVIOUS
      <3>1. n \in 0 .. c - 1
        BY <1>1, <1>5
      <3> QED
        BY <1>5, <2>2, <2>3, <3>1
    <2>7. n = c
      BY <1>1, <1>5, <2>5, <2>6
    <2> QED
      BY <2>1, <2>2, <2>4, <2>7
  <1> QED
    BY <1>8, <1>9

LEMMA EmptyTable ==
  ASSUME NEW n \in Nat \ {0}
  PROVE  /\ Good(NewTable(n)) /\ Cap(NewTable(n)) = n
         /\ Taken(NewTable(n)) = {} /\ EntriesOf(NewTable(n)) = {} /\ NewTable(n) # <<>>
  <1> DEFINE d == NewTable(n)
  <1>1. DOMAIN d = 0 .. n - 1 /\ \A p \in DOMAIN d : d[p] = NoEntry
    BY DEF NewTable
  <1>2. d \in [DOMAIN d -> Entries \cup {NoEntry}]
    BY DEF NewTable
  <1> HIDE DEF d
  <1>3. Slots(d, n)
    BY <1>1 DEF Slots
  <1>4. Cap(d) = n
    BY <1>3, CapOf
  <1>5. Taken(d) = {} /\ EntriesOf(d) = {} /\ d # <<>>
    BY <1>1 DEF Taken, EntriesOf
  <1> QED
    BY <1>2, <1>3, <1>4, <1>5 DEF d, Good, Reached

LEMMA TakenFinite ==
  ASSUME NEW d, Good(d)
  PROVE  IsFiniteSet(Taken(d)) /\ Cardinality(Taken(d)) \in Nat /\ Cap(d) \in Nat /\ Cap(d) # 0
         /\ DOMAIN d = 0 .. Cap(d) - 1 /\ d # <<>>
  <1>1. Cap(d) \in Nat /\ Cap(d) # 0 /\ DOMAIN d = 0 .. Cap(d) - 1
    BY DEF Good, Slots
  <1>2. IsFiniteSet(DOMAIN d)
    BY <1>1, FS_Interval
  <1>3. d # <<>>
    BY <1>1
  <1> QED
    BY <1>1, <1>2, <1>3, FS_Subset, FS_CardinalityType DEF Taken

\* A table with fewer entries than slots has an empty slot.
LEMMA EmptySlot ==
  ASSUME NEW d, Good(d), Cardinality(Taken(d)) < Cap(d)
  PROVE  \E p \in DOMAIN d : d[p] = NoEntry
  <1> SUFFICES ASSUME \A p \in DOMAIN d : d[p] # NoEntry PROVE FALSE
    OBVIOUS
  <1>1. Taken(d) = DOMAIN d
    BY DEF Taken
  <1> QED
    BY <1>1, TakenFinite DEF Cap

LEMMA PutCounts ==
  ASSUME NEW d, Good(d), NEW e \in Entries, Cardinality(Taken(d)) < Cap(d)
  PROVE  /\ Good(Put(d, e)) /\ Cap(Put(d, e)) = Cap(d)
         /\ EntriesOf(Put(d, e)) = EntriesOf(d) \cup {e}
         /\ Cardinality(Taken(Put(d, e))) = Cardinality(Taken(d)) + 1
  <1>1. \E p \in DOMAIN d : d[p] = NoEntry
    BY EmptySlot
  <1>2. /\ Good(Put(d, e)) /\ Cap(Put(d, e)) = Cap(d) /\ EntriesOf(Put(d, e)) = EntriesOf(d) \cup {e}
        /\ \E p \in DOMAIN d : p \notin Taken(d) /\ Taken(Put(d, e)) = Taken(d) \cup {p}
    BY <1>1, PutKeeps
  <1>3. Cardinality(Taken(Put(d, e))) = Cardinality(Taken(d)) + 1
    BY <1>2, TakenFinite, FS_AddElement
  <1> QED
    BY <1>2, <1>3

-----------------------------------------------------------------------------
(* Lemmas about what waits to be merged *)

LEMMA CacheNumbers ==
  Main \in Caches /\ Subs \subseteq Caches /\ Main \notin Subs /\ Subs \subseteq Nat /\ Caches = {Main} \cup Subs
  BY CacheAssumption DEF Main, Subs, Caches

LEMMA SubsFinite == \A S \in SUBSET Subs : IsFiniteSet(S)
  <1>1. 1 \in Int /\ NSubs \in Int
    BY CacheAssumption
  <1>2. IsFiniteSet(Subs)
    BY <1>1, FS_Interval DEF Subs
  <1> QED
    BY <1>2, FS_Subset

LEMMA FirstOf ==
  ASSUME NEW S \in Sets
  PROVE  First(S) \in S /\ First(S) \in Subs /\ (job[Main].from = S => From = First(S))
  <1>1. S \in SUBSET Nat /\ S # {} /\ S \subseteq Subs
    BY CacheNumbers DEF Sets
  <1>2. \E s \in S : \A r \in S : s <= r
    BY <1>1, LeastOfNaturals
  <1>3. First(S) \in S
    BY <1>2 DEF First
  <1> QED
    BY <1>1, <1>3 DEF First, From

LEMMA WaitingIs ==
  ASSUME NEW tb, NEW S, NEW i, NEW s, NEW p
  PROVE  <<s, p>> \in Waiting(tb, S, i) <=> s \in S /\ p \in Taken(tb[s]) /\ (s = First(S) => p >= i)
  BY DEF Waiting

LEMMA WaitingSame ==
  \A tb, ub, S, i : (\A s \in S : tb[s] = ub[s]) => Waiting(tb, S, i) = Waiting(ub, S, i)
  <1> SUFFICES ASSUME NEW tb, NEW ub, NEW S, NEW i, \A s \in S : tb[s] = ub[s]
               PROVE  Waiting(tb, S, i) = Waiting(ub, S, i)
    OBVIOUS
  <1> DEFINE W(b, s) == {s} \X {p \in Taken(b[s]) : s = First(S) => p >= i}
  <1>1. \A s \in S : W(tb, s) = W(ub, s)
    OBVIOUS
  <1> QED
    BY <1>1 DEF Waiting

LEMMA EmptyFunction == Taken(<<>>) = {} /\ EntriesOf(<<>>) = {} /\ Cap(<<>>) = 0
  <1>1. DOMAIN <<>> = {}
    OBVIOUS
  <1> QED
    BY <1>1, FS_EmptySet DEF Taken, EntriesOf, Cap

LEMMA TableFinite ==
  ASSUME NEW d, NEW n, TableOK(d, n)
  PROVE  IsFiniteSet(Taken(d)) /\ Cap(d) \in Nat /\ n \in Nat /\ Taken(d) \subseteq 0 .. Cap(d) - 1
  <1>1. CASE d = <<>>
    BY <1>1, EmptyFunction, FS_EmptySet DEF TableOK
  <1>2. CASE Good(d)
    BY <1>2, TakenFinite DEF TableOK, Taken
  <1> QED
    BY <1>1, <1>2 DEF TableOK

LEMMA WaitingFinite ==
  ASSUME LookInv, NEW S \in SUBSET Subs, NEW i
  PROVE  IsFiniteSet(Waiting(table, S, i)) /\ Cardinality(Waiting(table, S, i)) \in Nat
  <1> DEFINE W(s) == {s} \X {p \in Taken(table[s]) : s = First(S) => p >= i}
  <1>1. IsFiniteSet(S)
    BY SubsFinite
  <1>2. ASSUME NEW s \in S PROVE IsFiniteSet(W(s))
    <2>1. IsFiniteSet(Taken(table[s]))
      BY CacheNumbers, TableFinite DEF LookInv
    <2>2. IsFiniteSet({p \in Taken(table[s]) : s = First(S) => p >= i})
      BY <2>1, FS_Subset
    <2> QED
      BY <2>2, FS_Singleton, FS_Product
  <1>3. IsFiniteSet({W(s) : s \in S})
    <2> HIDE DEF W
    <2>1. [s \in S |-> W(s)] \in Surjection(S, {W(s) : s \in S})
      BY DEF Surjection
    <2> QED
      BY <1>1, <2>1, FS_Surjection
  <1>4. IsFiniteSet(UNION {W(s) : s \in S})
    BY <1>2, <1>3, FS_UNION
  <1> QED
    BY <1>4, FS_CardinalityType DEF Waiting

\* What is counted before a merge are the entries that it puts.
LEMMA TotalSizeCounts ==
  ASSUME LookInv, NEW S \in SUBSET Subs
  PROVE  TotalSize(S) \in Nat /\ Cardinality(Waiting(table, S, 0)) <= TotalSize(S)
  <1> DEFINE V == Waiting(table, S, 0)
             N(s) == {s} \X (1 .. size[s])
             U == UNION {N(s) : s \in S}
  <1>1. IsFiniteSet(S)
    BY SubsFinite
  <1>2. ASSUME NEW s \in S
        PROVE  size[s] \in Nat /\ IsFiniteSet(Taken(table[s])) /\ Cardinality(Taken(table[s])) = size[s]
    <2>1. TableOK(table[s], size[s])
      BY CacheNumbers DEF LookInv
    <2> QED
      BY <2>1, TableFinite DEF TableOK
  <1>3. IsFiniteSet(U)
    <2>1. ASSUME NEW s \in S PROVE IsFiniteSet(N(s))
      <3>1. 1 \in Int /\ size[s] \in Int
        BY <1>2
      <3>2. IsFiniteSet(1 .. size[s]) /\ IsFiniteSet({s})
        BY <3>1, FS_Interval, FS_Singleton
      <3> QED
        BY <3>2, FS_Product
    <2>2. IsFiniteSet({N(s) : s \in S})
      <3> HIDE DEF N
      <3>1. [s \in S |-> N(s)] \in Surjection(S, {N(s) : s \in S})
        BY DEF Surjection
      <3> QED
        BY <1>1, <3>1, FS_Surjection
    <2> QED
      BY <2>1, <2>2, FS_UNION
  <1> DEFINE b == [s \in S |-> CHOOSE f : f \in Bijection(Taken(table[s]), 1 .. size[s])]
             g == [q \in V |-> <<q[1], b[q[1]][q[2]]>>]
  <1>4. ASSUME NEW s \in S PROVE b[s] \in Bijection(Taken(table[s]), 1 .. size[s])
    <2>1. IsFiniteSet(1 .. size[s]) /\ Cardinality(1 .. size[s]) = size[s]
      <3>1. 1 \in Int /\ size[s] \in Int /\ size[s] - 1 + 1 = size[s] /\ (1 > size[s] => size[s] = 0)
        BY <1>2
      <3> QED
        BY <3>1, FS_Interval
    <2>2. ExistsBijection(Taken(table[s]), 1 .. size[s])
      BY <1>2, <2>1, FS_SameCardinalityBij
    <2> QED
      BY <2>2 DEF ExistsBijection
  <1> HIDE DEF b
  <1>5. ASSUME NEW q \in V PROVE q = <<q[1], q[2]>> /\ q[1] \in S /\ q[2] \in Taken(table[q[1]])
    BY DEF Waiting
  <1>6. ASSUME NEW q \in V PROVE g[q] \in U
    <2>1. b[q[1]][q[2]] \in 1 .. size[q[1]]
      BY <1>4, <1>5 DEF Bijection, Injection
    <2> QED
      BY <1>5, <2>1
  <1>7. ASSUME NEW q \in V, NEW r \in V, g[q] = g[r] PROVE q = r
    <2>1. q[1] = r[1] /\ b[q[1]][q[2]] = b[q[1]][r[2]]
      BY <1>7
    <2>2. q[2] = r[2]
      BY <1>4, <1>5, <2>1 DEF Bijection, Injection, IsInjective
    <2> QED
      BY <1>5, <2>1, <2>2
  <1>8. g \in [V -> U]
    BY <1>6
  <1>9. g \in Injection(V, U)
    BY <1>7, <1>8 DEF Injection, IsInjective
  <1>10. Cardinality(V) <= Cardinality(U)
    BY <1>3, <1>9, FS_Injection
  <1> QED
    BY <1>3, <1>10, FS_CardinalityType DEF TotalSize

\* A merge comes to the next slot.
LEMMA WaitingStep ==
  ASSUME LookInv, NEW S \in Sets, NEW i \in Nat
  PROVE  Cardinality(Waiting(table, S, i)) =
           Cardinality(Waiting(table, S, i + 1)) + (IF i \in Taken(table[First(S)]) THEN 1 ELSE 0)
  <1> DEFINE f == First(S)
             V == Waiting(table, S, i)
             W == Waiting(table, S, i + 1)
  <1>1. f \in S /\ f \in Subs /\ S \in SUBSET Subs
    BY FirstOf DEF Sets
  <1>2. Taken(table[f]) \subseteq Nat
    <2>1. TableOK(table[f], size[f])
      BY <1>1, CacheNumbers DEF LookInv
    <2> QED
      BY <2>1, TableFinite
  <1>3. ASSUME NEW q PROVE q \in V <=> q \in W \/ (i \in Taken(table[f]) /\ q = <<f, i>>)
    <2>1. \A b : q \in V \/ q \in W \/ q = <<f, i>> => \E s, p : q = <<s, p>>
      BY DEF Waiting
    <2>2. ASSUME NEW s, NEW p, q = <<s, p>>
          PROVE  q \in V <=> q \in W \/ (i \in Taken(table[f]) /\ q = <<f, i>>)
      <3>1. q \in V <=> s \in S /\ p \in Taken(table[s]) /\ (s = f => p >= i)
        BY <2>2, WaitingIs
      <3>2. q \in W <=> s \in S /\ p \in Taken(table[s]) /\ (s = f => p >= i + 1)
        BY <2>2, WaitingIs
      <3>3. q = <<f, i>> <=> s = f /\ p = i
        BY <2>2
      <3>4. s = f /\ p \in Taken(table[s]) => (p >= i <=> p >= i + 1 \/ p = i)
        BY <1>2
      <3> HIDE DEF f, V, W
      <3> QED
        BY <1>1, <3>1, <3>2, <3>3, <3>4
    <2> HIDE DEF f, V, W
    <2> QED
      BY <2>1, <2>2
  <1>4. <<f, i>> \notin W
    <2>1. <<f, i>> \in W => i >= i + 1
      BY WaitingIs
    <2> QED
      BY <2>1
  <1>5. IsFiniteSet(W) /\ Cardinality(W) \in Nat
    BY <1>1, WaitingFinite
  <1>6. CASE i \in Taken(table[f])
    <2>1. V = W \cup {<<f, i>>}
      <3> HIDE DEF V, W
      <3> QED
        BY <1>3, <1>6
    <2>2. Cardinality(W \cup {<<f, i>>}) = Cardinality(W) + 1
      BY <1>4, <1>5, FS_AddElement
    <2> QED
      BY <1>6, <2>1, <2>2
  <1>7. CASE i \notin Taken(table[f])
    <2>1. V = W
      <3> HIDE DEF V, W
      <3> QED
        BY <1>3, <1>7
    <2> QED
      BY <1>5, <1>7, <2>1
  <1> QED
    BY <1>6, <1>7

\* A merge comes to the next cache.
LEMMA WaitingEnd ==
  ASSUME LookInv, NEW S \in Sets, NEW tb, \A s \in S : s # First(S) => tb[s] = table[s]
  PROVE  Waiting(tb, S \ {First(S)}, 0) = Waiting(table, S, Cap(table[First(S)]))
  <1> DEFINE f == First(S)
             V == Waiting(tb, S \ {f}, 0)
             W == Waiting(table, S, Cap(table[f]))
  <1>1. f \in S /\ f \in Subs /\ S \subseteq Subs
    BY FirstOf DEF Sets
  <1>2. \A s \in S : Taken(table[s]) \subseteq 0 .. Cap(table[s]) - 1 /\ Cap(table[s]) \in Nat
    BY <1>1, CacheNumbers, TableFinite DEF LookInv
  <1>3. ASSUME NEW q PROVE q \in V <=> q \in W
    <2>1. q \in V \/ q \in W => \E s, p : q = <<s, p>>
      BY DEF Waiting
    <2>2. ASSUME NEW s, NEW p, q = <<s, p>> PROVE q \in V <=> q \in W
      <3>1. q \in V <=> s \in S \ {f} /\ p \in Taken(tb[s]) /\ (s = First(S \ {f}) => p >= 0)
        BY <2>2, WaitingIs
      <3>2. q \in W <=> s \in S /\ p \in Taken(table[s]) /\ (s = f => p >= Cap(table[f]))
        BY <2>2, WaitingIs
      <3>3. s \in S /\ s = f /\ p \in Taken(table[s]) => ~(p >= Cap(table[f]))
        BY <1>2
      <3>4. s \in S /\ p \in Taken(table[s]) => p >= 0
        BY <1>2
      <3>5. s \in S \ {f} => tb[s] = table[s]
        OBVIOUS
      <3> HIDE DEF f, V, W
      <3> QED
        BY <3>1, <3>2, <3>3, <3>4, <3>5
    <2> HIDE DEF f, V, W
    <2> QED
      BY <2>1, <2>2
  <1> HIDE DEF V, W
  <1>4. V = W
    BY <1>3
  <1> QED
    BY <1>4 DEF V, W

-----------------------------------------------------------------------------
(* Steps of one cache *)

LEMMA OneCache ==
  ASSUME LookInv, NEW c \in Caches, NEW d, NEW n, NEW j,
         table' = [table EXCEPT ![c] = d], size' = [size EXCEPT ![c] = n], job' = [job EXCEPT ![c] = j],
         TableOK(d, n), JobShape(j),
         c # Main => /\ job[Main] = Free
                     /\ j.op # "merge" /\ (j.op = "rehash" => j.then.op # "merge"),
         c = Main /\ j # Free => \A s \in Subs : job[s] = Free,
         j.op = "rehash" => RehashOK(d, j) /\ Room(table, n, j),
         j.op = "merge" => /\ d # <<>> /\ j.i \in 0 .. Cap(table[First(j.from)])
                           /\ 2 * (n + Cardinality(Waiting(table, j.from, j.i))) <= Cap(d)
  PROVE  LookInv'
  <1>0. DOMAIN table = Caches /\ DOMAIN size = Caches /\ DOMAIN job = Caches
    BY DEF LookInv
  <1>1a. /\ table' = [b \in Caches |-> table'[b]] /\ size' = [b \in Caches |-> size'[b]]
         /\ job' = [b \in Caches |-> job'[b]]
    BY <1>0
  <1>1. /\ table'[c] = d /\ size'[c] = n /\ job'[c] = j
        /\ \A b \in Caches : b # c => table'[b] = table[b] /\ size'[b] = size[b] /\ job'[b] = job[b]
    BY <1>0
  <1>2. \A b \in Caches : TableOK(table'[b], size'[b])
    BY <1>1 DEF LookInv
  <1>3. JobsOK'
    <2>1. \A b \in Caches : JobShape(job'[b])
      BY <1>1 DEF LookInv, JobsOK
    <2>2. \A s \in Subs : job'[s].op # "merge" /\ (job'[s].op = "rehash" => job'[s].then.op # "merge")
      BY <1>1, CacheNumbers DEF LookInv, JobsOK
    <2>3. ASSUME job'[Main] # Free, NEW s \in Subs PROVE job'[s] = Free
      <3>1. CASE c = Main
        BY <1>1, <2>3, <3>1, CacheNumbers
      <3>2. CASE c # Main
        BY <1>1, <2>3, <3>2, CacheNumbers
      <3> QED
        BY <3>1, <3>2
    <2> QED
      BY <2>1, <2>2, <2>3 DEF JobsOK
  <1>4. \A S \in SUBSET Subs : \A i : c = Main => Waiting(table', S, i) = Waiting(table, S, i)
    <2> SUFFICES ASSUME NEW S \in SUBSET Subs, NEW i, c = Main PROVE Waiting(table', S, i) = Waiting(table, S, i)
      OBVIOUS
    <2>1. \A s \in S : table'[s] = table[s]
      BY <1>1, CacheNumbers
    <2>2. PICK tb, ub : tb = table /\ ub = table'
      OBVIOUS
    <2>3. \A s \in S : ub[s] = tb[s]
      BY Zenon, <2>1, <2>2
    <2>4. Waiting(ub, S, i) = Waiting(tb, S, i)
      BY <2>3, WaitingSame
    <2> QED
      BY Zenon, <2>2, <2>4
  <1>5. ASSUME NEW b \in Caches, job'[b].op = "rehash"
        PROVE  RehashOK(table'[b], job'[b]) /\ Room(table', size'[b], job'[b])
    <2>1. RehashOK(table'[b], job'[b]) /\ Room(table, size'[b], job'[b])
      BY <1>1, <1>5 DEF LookInv
    <2>2. ASSUME job'[b].then.op = "merge"
          PROVE  Waiting(table', job'[b].then.from, 0) = Waiting(table, job'[b].then.from, 0)
      <3>1. b = Main
        BY <1>3, <1>5, <2>2, CacheNumbers DEF JobsOK
      <3>2. job'[b].then \in Merges
        <4>1. RehashShape(job'[b])
          BY <1>3, <1>5 DEF JobsOK, JobShape, Free, Merges
        <4> QED
          BY <2>2, <4>1 DEF RehashShape, Free, Puts
      <3>3. job'[b].then.from \in SUBSET Subs
        BY <3>2 DEF Merges, Sets
      <3>4. c = Main
        <4>1. c # Main => job'[Main] = Free
          BY <1>1, CacheNumbers
        <4> QED
          BY <1>5, <3>1, <4>1 DEF Free
      <3> QED
        BY <1>4, <3>3, <3>4
    <2> QED
      BY <2>1, <2>2 DEF Room
  <1>6. MergeOK'
    <2> SUFFICES ASSUME job'[Main].op = "merge" PROVE MergeOK'
      BY DEF MergeOK
    <2>1. c = Main
      <3>1. c # Main => job'[Main] = Free
        BY <1>1, CacheNumbers
      <3> QED
        BY <3>1 DEF Free
    <2>2. j.op = "merge" /\ job'[Main] = j /\ table'[Main] = d /\ size'[Main] = n
      BY <1>1, <2>1
    <2>3. j \in Merges /\ j.from \in Sets /\ j.from \in SUBSET Subs
      BY <2>2 DEF JobShape, Free, RehashShape, Merges, Sets
    <2>4. From' = First(j.from)
      BY <2>2 DEF From, First
    <2>5. First(j.from) \in Subs
      BY <2>3, FirstOf
    <2>6. table'[First(j.from)] = table[First(j.from)]
      BY <1>1, <2>1, <2>5, CacheNumbers
    <2>7. Waiting(table', j.from, j.i) = Waiting(table, j.from, j.i)
      BY <1>4, <2>1, <2>3
    <2> QED
      BY <2>2, <2>4, <2>6, <2>7 DEF MergeOK
  <1> QED
    BY <1>1a, <1>2, <1>3, <1>5, <1>6 DEF LookInv

LEMMA Usable ==
  ASSUME LookInv, NEW c \in Caches, MayUse(c)
  PROVE  /\ job[Main] = Free /\ job[c] = Free
         /\ c = Main => \A s \in Subs : job[s] = Free
         /\ TableOK(table[c], size[c]) /\ size[c] \in Nat /\ Cap(table[c]) \in Nat
  BY TableFinite DEF MayUse, LookInv

LEMMA LookInit == Init => LookInv
  <1> SUFFICES ASSUME Init PROVE LookInv
    OBVIOUS
  <1>1. \A c \in Caches : table[c] = <<>> /\ size[c] = 0 /\ job[c] = Free
    BY DEF Init
  <1>2. Cardinality({}) = 0
    BY FS_EmptySet
  <1>3. TableOK(<<>>, 0)
    BY <1>2, EmptyFunction DEF TableOK
  <1>4. Free.op = "none" /\ JobShape(Free)
    BY DEF Free, JobShape
  <1> QED
    BY <1>1, <1>3, <1>4, CacheNumbers DEF Init, LookInv, JobsOK, MergeOK

\* A larger table is filled from the first slot on.
LEMMA RehashBegins ==
  ASSUME NEW d, Good(d), NEW cap \in Nat \ {0}, NEW then
  PROVE  RehashOK(d, [op |-> "rehash", i |-> 0, new |-> NewTable(cap), then |-> then])
  <1> DEFINE j == [op |-> "rehash", i |-> 0, new |-> NewTable(cap), then |-> then]
  <1>1. /\ Good(NewTable(cap)) /\ Taken(NewTable(cap)) = {} /\ EntriesOf(NewTable(cap)) = {}
    BY EmptyTable
  <1>2. j.i = 0 /\ j.new = NewTable(cap)
    OBVIOUS
  <1> HIDE DEF j
  <1>3. d # <<>> /\ 0 \in 0 .. Cap(d)
    BY TakenFinite
  <1>4. Before(d, 0) = {}
    BY DEF Before
  <1>5. {p \in Taken(d) : p < 0} = {}
    BY TakenFinite DEF Taken
  <1>6. RehashOK(d, j)
    BY <1>1, <1>2, <1>3, <1>4, <1>5 DEF RehashOK
  <1> QED
    BY <1>6 DEF j

LEMMA PutEntryLooks ==
  ASSUME LookInv, NEW c \in Caches, NEW d, NEW k \in Keys, PutEntry(c, d, k), made \in Nat,
         Good(d), Cardinality(Taken(d)) = size[c], 2 * (size[c] + 1) <= Cap(d),
         job' = [job EXCEPT ![c] = Free], c # Main => job[Main] = Free
  PROVE  LookInv'
  <1> DEFINE e == [key |-> k, id |-> made']
             t == Put(d, e)
  <1>1. e \in Entries
    BY DEF PutEntry, Entries
  <1>2. table' = [table EXCEPT ![c] = t] /\ size' = [size EXCEPT ![c] = size[c] + 1]
    BY DEF PutEntry
  <1> HIDE DEF e
  <1>3. size[c] \in Nat /\ Cap(d) \in Nat
    BY TakenFinite DEF LookInv, TableOK
  <1>4. size[c] < Cap(d)
    BY <1>3
  <1>5. /\ Good(t) /\ Cap(t) = Cap(d) /\ Cardinality(Taken(t)) = size[c] + 1
    BY <1>1, <1>4, PutCounts
  <1> HIDE DEF t
  <1>6. TableOK(t, size[c] + 1)
    BY <1>3, <1>5 DEF TableOK
  <1>7. JobShape(Free) /\ Free.op = "none"
    BY DEF JobShape, Free
  <1> QED
    BY <1>2, <1>6, <1>7, OneCache

LEMMA NewEntryLooks ==
  ASSUME LookInv, made \in Nat, NEW c \in Caches, NEW k \in Keys, NewEntry(c, k)
  PROVE  LookInv'
  <1> DEFINE d == IF table[c] = <<>> THEN NewTable(DefaultCap) ELSE table[c]
             put == [op |-> "put", key |-> k]
             j == [op |-> "rehash", i |-> 0, new |-> NewTable(2 * Cap(d)), then |-> put]
             n == size[c]
  <1>1. MayUse(c)
    BY DEF NewEntry
  <1>2. /\ job[Main] = Free /\ job[c] = Free
        /\ c = Main => \A s \in Subs : job[s] = Free
        /\ TableOK(table[c], n) /\ n \in Nat
    BY <1>1, Usable
  <1>3. Good(d) /\ Cardinality(Taken(d)) = n /\ 2 * n <= Cap(d)
    <2>1. DefaultCap \in Nat \ {0}
      BY CacheAssumption
    <2>2. CASE table[c] = <<>>
      <3>1. Cap(table[c]) = 0
        BY <2>2, EmptyFunction
      <3>2. n = 0
        BY <1>2, <3>1 DEF TableOK
      <3>3. Good(NewTable(DefaultCap)) /\ Cap(NewTable(DefaultCap)) = DefaultCap /\ Taken(NewTable(DefaultCap)) = {}
        BY <2>1, EmptyTable
      <3>4. Cardinality({}) = 0
        BY FS_EmptySet
      <3>5. d = NewTable(DefaultCap) /\ 2 * 0 <= DefaultCap
        BY <2>1, <2>2
      <3> HIDE DEF d
      <3> QED
        BY <3>2, <3>3, <3>4, <3>5
    <2>3. CASE table[c] # <<>>
      BY <1>2, <2>3 DEF TableOK
    <2> QED
      BY <2>2, <2>3
  <1>4. Cap(d) \in Nat /\ Cap(d) # 0
    BY <1>3, TakenFinite
  <1>5. CASE 2 * (n + 1) > Cap(d)
    <2>1. /\ table' = [table EXCEPT ![c] = d] /\ size' = [size EXCEPT ![c] = n]
          /\ job' = [job EXCEPT ![c] = j]
      <3>1. table' = [table EXCEPT ![c] = d] /\ size' = size /\ Rehash(c, 2 * Cap(d), put)
        BY <1>5 DEF NewEntry
      <3>2. size' = [size EXCEPT ![c] = n]
        BY <3>1 DEF LookInv
      <3> HIDE DEF d, put, n
      <3> QED
        BY <3>1, <3>2 DEF Rehash
    <2>2. TableOK(d, n)
      BY <1>2, <1>3 DEF TableOK
    <2> HIDE DEF d
    <2>3. 2 * Cap(d) \in Nat \ {0} /\ 2 * n <= 2 * Cap(d) /\ 2 * (n + 1) <= 2 * Cap(d)
      BY <1>2, <1>3, <1>4
    <2>4. RehashOK(d, j)
      BY <1>3, <2>3, RehashBegins
    <2>5. Cap(j.new) = 2 * Cap(d) /\ j.then = put /\ put.op = "put" /\ j.op = "rehash"
      BY <2>3, EmptyTable
    <2>6. Room(table, n, j)
      BY <2>3, <2>5 DEF Room
    <2>7. put \in Puts
      BY DEF Puts
    <2>8. JobShape(j)
      BY <2>7 DEF JobShape, RehashShape
    <2> HIDE DEF j, put, n
    <2> QED
      BY <1>2, <2>1, <2>2, <2>4, <2>5, <2>6, <2>8, OneCache
  <1>6. CASE ~(2 * (n + 1) > Cap(d))
    <2>1. PutEntry(c, d, k) /\ job' = job
      BY <1>6 DEF NewEntry
    <2> HIDE DEF d
    <2>2. 2 * (n + 1) <= Cap(d)
      BY <1>2, <1>4, <1>6
    <2>3. job' = [job EXCEPT ![c] = Free]
      BY <1>2, <2>1 DEF LookInv
    <2> QED
      BY <1>2, <1>3, <2>1, <2>2, <2>3, PutEntryLooks
  <1> QED
    BY <1>5, <1>6

LEMMA ReserveLooks ==
  ASSUME LookInv, NEW c \in Caches, MayUse(c), NEW n \in Nat, NEW then,
         \/ then = Free
         \/ /\ c = Main /\ then \in Merges /\ then.i = 0
            /\ Cardinality(Waiting(table, then.from, 0)) <= n,
         ReserveMore(c, n, then), size' = size
  PROVE  LookInv'
  <1> DEFINE s == size[c]
             w == Cardinality(Waiting(table, then.from, 0))
  <1>1. /\ job[Main] = Free /\ job[c] = Free
        /\ c = Main => \A r \in Subs : job[r] = Free
        /\ TableOK(table[c], s) /\ s \in Nat /\ Cap(table[c]) \in Nat
    BY Usable
  <1>2. JobShape(then) /\ then.op # "rehash" /\ then.op # "put" /\ (then.op = "merge" => c = Main /\ then \in Merges /\ then.i = 0)
    BY DEF JobShape, Free, Merges
  <1>3. then.op = "merge" => /\ then.from \in SUBSET Subs /\ w \in Nat /\ w <= n
                             /\ 0 \in 0 .. Cap(table[First(then.from)])
    <2> SUFFICES ASSUME then.op = "merge"
                 PROVE  then.from \in SUBSET Subs /\ w \in Nat /\ w <= n /\ 0 \in 0 .. Cap(table[First(then.from)])
      OBVIOUS
    <2>1. then \in Merges /\ w <= n
      BY DEF Free
    <2>2. then.from \in Sets /\ then.from \in SUBSET Subs
      BY <2>1 DEF Merges, Sets
    <2>3. First(then.from) \in Caches
      BY <2>2, FirstOf, CacheNumbers
    <2>4. Cap(table[First(then.from)]) \in Nat
      BY <2>3, TableFinite DEF LookInv
    <2> QED
      BY <2>1, <2>2, <2>4, WaitingFinite
  <1> HIDE DEF w
  <1>4. size' = [size EXCEPT ![c] = s]
    BY DEF LookInv
  <1>5. ASSUME NEW d, TableOK(d, s), d # <<>>, table' = [table EXCEPT ![c] = d], job' = [job EXCEPT ![c] = then],
               2 * (s + n) <= Cap(d)
        PROVE  LookInv'
    <2>1. Cap(d) \in Nat
      BY <1>5, TableFinite
    <2>2. then.op = "merge" => 2 * (s + w) <= Cap(d)
      <3> SUFFICES ASSUME then.op = "merge" PROVE 2 * (s + w) <= Cap(d)
        OBVIOUS
      <3>1. w \in Nat /\ w <= n
        BY <1>3
      <3>2. s \in Nat /\ 2 * (s + n) <= Cap(d)
        BY <1>1, <1>5
      <3> HIDE DEF s
      <3> QED
        BY <2>1, <3>1, <3>2
    <2> HIDE DEF s
    <2> QED
      BY <1>1, <1>2, <1>3, <1>4, <1>5, <2>2, OneCache DEF w
  <1>6. CASE table[c] # <<>> /\ 2 * (s + n) <= Cap(table[c])
    <2>1. job' = [job EXCEPT ![c] = then] /\ table' = [table EXCEPT ![c] = table[c]]
      BY <1>6 DEF ReserveMore, LookInv
    <2> QED
      BY <1>1, <1>5, <1>6, <2>1
  <1>7. CASE ~(table[c] # <<>> /\ 2 * (s + n) <= Cap(table[c]))
    <2>1. PICK cap \in Caps :
            /\ IsCapFor(cap, s + n)
            /\ IF table[c] = <<>>
               THEN /\ table' = [table EXCEPT ![c] = NewTable(cap)]
                    /\ job' = [job EXCEPT ![c] = then]
               ELSE Rehash(c, cap, then) /\ UNCHANGED table
      BY <1>7 DEF ReserveMore
    <2>2. cap \in Nat \ {0} /\ cap >= 2 * (s + n + 1)
      BY <2>1, CacheAssumption DEF IsCapFor
    <2>3. 2 * (s + n) <= cap /\ 2 * s <= cap
      BY <1>1, <2>2
    <2>4. /\ Good(NewTable(cap)) /\ Cap(NewTable(cap)) = cap /\ Taken(NewTable(cap)) = {} /\ NewTable(cap) # <<>>
      BY <2>2, EmptyTable
    <2>5. CASE table[c] = <<>>
      <3>1. s = 0
        BY <1>1, <2>5, EmptyFunction, FS_EmptySet DEF TableOK
      <3>2. TableOK(NewTable(cap), s)
        BY <2>3, <2>4, <3>1, FS_EmptySet DEF TableOK
      <3> QED
        BY <1>5, <2>1, <2>3, <2>4, <2>5, <3>2
    <2>6. CASE table[c] # <<>>
      <3> DEFINE j == [op |-> "rehash", i |-> 0, new |-> NewTable(cap), then |-> then]
      <3>1. table' = [table EXCEPT ![c] = table[c]] /\ job' = [job EXCEPT ![c] = j]
        BY <2>1, <2>6 DEF Rehash, LookInv
      <3>2. j.op = "rehash" /\ j.then = then /\ j.new = NewTable(cap)
        OBVIOUS
      <3>3. RehashOK(table[c], j)
        BY <1>1, <2>2, <2>6, RehashBegins DEF TableOK
      <3>4. JobShape(j)
        <4>1. then = Free \/ (then \in Merges /\ then.i = 0)
          OBVIOUS
        <4> QED
          BY <4>1 DEF JobShape, RehashShape
      <3> HIDE DEF j
      <3>5. then.op = "merge" => 2 * (s + w) <= cap
        BY <1>1, <1>3, <2>2
      <3>6. Room(table, s, j)
        BY <1>2, <2>3, <2>4, <3>2, <3>5 DEF Room, w
      <3>7. c # Main => then.op # "merge"
        BY <1>2
      <3> HIDE DEF s
      <3> QED
        BY <1>1, <1>4, <3>1, <3>2, <3>3, <3>4, <3>6, <3>7, OneCache
    <2> QED
      BY <2>5, <2>6
  <1> QED
    BY <1>6, <1>7

LEMMA MergeLooks ==
  ASSUME LookInv, NEW S \in SUBSET Subs, Merge(S)
  PROVE  LookInv'
  <1> DEFINE then == IF S = {} THEN Free ELSE [op |-> "merge", from |-> S, i |-> 0]
  <1>1. MayUse(Main) /\ ReserveMore(Main, TotalSize(S), then) /\ size' = size
    BY DEF Merge
  <1>2. TotalSize(S) \in Nat /\ Cardinality(Waiting(table, S, 0)) <= TotalSize(S)
    BY TotalSizeCounts
  <1>3. then = Free \/ (then \in Merges /\ then.i = 0 /\ then.from = S)
    BY DEF Merges, Sets
  <1> HIDE DEF then
  <1> QED
    BY <1>1, <1>2, <1>3, CacheNumbers, ReserveLooks

LEMMA BeforeNext ==
  ASSUME NEW d, NEW i \in Nat
  PROVE  /\ d[i] = NoEntry => Before(d, i + 1) = Before(d, i)
         /\ d[i] # NoEntry => Before(d, i + 1) = Before(d, i) \cup {d[i]}
  <1>1. 0 .. (i + 1) - 1 = 0 .. i - 1 \cup {i}
    OBVIOUS
  <1> QED
    BY <1>1 DEF Before

LEMMA BeforeAll ==
  ASSUME NEW d, Good(d)
  PROVE  Before(d, Cap(d)) = EntriesOf(d) /\ {p \in Taken(d) : p < Cap(d)} = Taken(d)
  <1>1. DOMAIN d = 0 .. Cap(d) - 1 /\ Cap(d) \in Nat
    BY TakenFinite
  <1>2. \A p \in Taken(d) : p < Cap(d)
    BY <1>1 DEF Taken
  <1> QED
    BY <1>1, <1>2 DEF Before, EntriesOf

LEMMA RehashRecord ==
  ASSUME NEW a, NEW b, NEW t, NEW x, NEW y, NEW r, NEW j,
         r = [op |-> "rehash", i |-> a, new |-> b, then |-> t], j = [r EXCEPT !.i = x, !.new = y]
  PROVE  j = [op |-> "rehash", i |-> x, new |-> y, then |-> t]
  OBVIOUS

LEMMA MergeRecord ==
  ASSUME NEW a, NEW b, NEW x, NEW r, NEW j, r = [op |-> "merge", from |-> a, i |-> b], j = [r EXCEPT !.i = x]
  PROVE  j = [op |-> "merge", from |-> a, i |-> x]
  OBVIOUS

LEMMA RehashStepLooks ==
  ASSUME LookInv, NEW c \in Caches, RehashStep(c)
  PROVE  LookInv'
  <1> DEFINE d == table[c]
             n == size[c]
             o == job[c]
             new == IF d[o.i] = NoEntry THEN o.new ELSE Put(o.new, d[o.i])
             j == [op |-> "rehash", i |-> o.i + 1, new |-> new, then |-> o.then]
             P(m) == {p \in Taken(d) : p < m}
  <1>1. o.op = "rehash" /\ o.i < Cap(d) /\ table' = table /\ size' = size
    BY DEF RehashStep
  <1>2. RehashOK(d, o) /\ Room(table, n, o) /\ TableOK(d, n)
    BY <1>1 DEF LookInv
  <1>3. RehashShape(o)
    BY <1>1 DEF LookInv, JobsOK, JobShape, Free, Merges
  <1>4. job' = [job EXCEPT ![c] = j]
    <2>1. o = [op |-> "rehash", i |-> o.i, new |-> o.new, then |-> o.then]
      BY <1>3 DEF RehashShape
    <2>2. PICK r : r = [o EXCEPT !.i = o.i + 1, !.new = new] /\ job' = [job EXCEPT ![c] = r]
      BY DEF RehashStep
    <2>3. r = j
      <3>1. PICK a, b, t, x, y : a = o.i /\ b = o.new /\ t = o.then /\ x = o.i + 1 /\ y = new
        OBVIOUS
      <3> HIDE DEF o, new
      <3>2. r = [o EXCEPT !.i = x, !.new = y] /\ o = [op |-> "rehash", i |-> a, new |-> b, then |-> t]
        BY Zenon, <2>1, <2>2, <3>1
      <3>3. r = [op |-> "rehash", i |-> x, new |-> y, then |-> t]
        BY Zenon, <3>2, RehashRecord
      <3> QED
        BY Zenon, <3>1, <3>3
    <2> QED
      BY Zenon, <2>2, <2>3
  <1>5. Good(d) /\ d # <<>> /\ Good(o.new) /\ o.i \in Nat /\ o.i + 1 \in 0 .. Cap(d) /\ Cap(d) \in Nat /\ Cap(o.new) \in Nat
        /\ o.i \in DOMAIN d /\ Cap(o.new) # 0
    <2>1. Good(d) /\ d # <<>> /\ Good(o.new) /\ o.i \in 0 .. Cap(d)
      BY <1>2 DEF RehashOK, TableOK
    <2>2. Cap(d) \in Nat /\ Cap(o.new) \in Nat /\ DOMAIN d = 0 .. Cap(d) - 1 /\ Cap(o.new) # 0
      BY <2>1, TakenFinite
    <2> QED
      BY <1>1, <2>1, <2>2
  <1>6. IsFiniteSet(Taken(d)) /\ Cardinality(Taken(d)) = n /\ n \in Nat
    BY <1>2, TableFinite DEF TableOK
  <1>7. IsFiniteSet(P(o.i)) /\ Cardinality(P(o.i)) \in Nat /\ Cardinality(P(o.i)) <= n
    <2>1. P(o.i) \in SUBSET Taken(d)
      OBVIOUS
    <2> HIDE DEF P, d, n
    <2> QED
      BY <1>6, <2>1, FS_Subset, FS_CardinalityType
  <1>8. /\ Good(new) /\ Cap(new) = Cap(o.new) /\ EntriesOf(new) = Before(d, o.i + 1)
        /\ Cardinality(Taken(new)) = Cardinality(P(o.i + 1))
    <2>1. Cardinality(Taken(o.new)) = Cardinality(P(o.i)) /\ EntriesOf(o.new) = Before(d, o.i) /\ 2 * n <= Cap(o.new)
      BY <1>2 DEF RehashOK, Room
    <2>2. CASE d[o.i] = NoEntry
      <3>1. new = o.new
        BY <2>2
      <3>2. P(o.i + 1) = P(o.i)
        <4>1. o.i \notin Taken(d)
          BY <2>2 DEF Taken
        <4>2. \A p \in Taken(d) : p # o.i => (p < o.i + 1 <=> p < o.i)
          BY <1>5, <1>2, TableFinite
        <4> QED
          BY <4>1, <4>2
      <3> QED
        BY <1>5, <2>1, <2>2, <3>1, <3>2, BeforeNext
    <2>3. CASE d[o.i] # NoEntry
      <3>1. new = Put(o.new, d[o.i])
        BY <2>3
      <3>2. d[o.i] \in Entries
        BY <1>5, <2>3 DEF Good
      <3>3. P(o.i + 1) = P(o.i) \cup {o.i} /\ o.i \notin P(o.i)
        <4>1. o.i \in Taken(d)
          BY <1>5, <2>3 DEF Taken
        <4>2. \A p \in Taken(d) : (p < o.i + 1 <=> p < o.i \/ p = o.i) /\ ~(o.i < o.i)
          BY <1>5, <1>2, TableFinite
        <4>3. P(o.i + 1) = P(o.i) \cup {o.i}
          BY <4>1, <4>2
        <4> QED
          BY <4>1, <4>2, <4>3
      <3>4. Cardinality(P(o.i + 1)) = Cardinality(P(o.i)) + 1
        <4> HIDE DEF P, d, o
        <4> QED
          BY <1>7, <3>3, FS_AddElement
      <3> HIDE DEF new, P, d, n, o
      <3>5. Cardinality(Taken(o.new)) < Cap(o.new)
        BY <1>5, <1>6, <1>7, <2>1
      <3>6. Before(d, o.i + 1) = Before(d, o.i) \cup {d[o.i]}
        BY <1>5, <2>3, BeforeNext
      <3> QED
        BY <1>5, <2>1, <3>1, <3>2, <3>4, <3>5, <3>6, PutCounts
    <2> QED
      BY <2>2, <2>3
  <1>9. j.op = "rehash" /\ j.i = o.i + 1 /\ j.new = new /\ j.then = o.then
    OBVIOUS
  <1>10. JobShape(j)
    BY <1>3 DEF JobShape, RehashShape
  <1> HIDE DEF new, j
  <1>11. RehashOK(d, j) /\ Room(table, n, j)
    <2>1. RehashOK(d, j)
      BY <1>5, <1>8, <1>9 DEF RehashOK
    <2>2. Room(table, n, j)
      BY <1>2, <1>8, <1>9 DEF Room
    <2> QED
      BY <2>1, <2>2
  <1>12. table' = [table EXCEPT ![c] = d] /\ size' = [size EXCEPT ![c] = n]
    BY <1>1 DEF LookInv
  <1>13. o # Free
    BY <1>1 DEF Free
  <1>14. c # Main => job[Main] = Free /\ o.then.op # "merge"
    BY <1>1, <1>13, CacheNumbers DEF LookInv, JobsOK
  <1>15. c = Main => \A s \in Subs : job[s] = Free
    BY <1>13 DEF LookInv, JobsOK
  <1> HIDE DEF d, n, o
  <1> QED
    BY <1>2, <1>4, <1>9, <1>10, <1>11, <1>12, <1>14, <1>15, OneCache

LEMMA RehashEndLooks ==
  ASSUME LookInv, made \in Nat, NEW c \in Caches, RehashEnd(c)
  PROVE  LookInv'
  <1> DEFINE d == table[c]
             n == size[c]
             o == job[c]
  <1>1. o.op = "rehash" /\ o.i = Cap(d)
    BY DEF RehashEnd
  <1>2. RehashOK(d, o) /\ Room(table, n, o) /\ TableOK(d, n)
    BY <1>1 DEF LookInv
  <1>3. RehashShape(o)
    BY <1>1 DEF LookInv, JobsOK, JobShape, Free, Merges
  <1>4. Good(d) /\ Good(o.new) /\ o.new # <<>> /\ n \in Nat
    BY <1>2, TakenFinite DEF RehashOK, TableOK
  <1>5. EntriesOf(o.new) = EntriesOf(d) /\ Cardinality(Taken(o.new)) = n
    <2>1. EntriesOf(o.new) = Before(d, Cap(d)) /\ Cardinality(Taken(o.new)) = Cardinality({p \in Taken(d) : p < Cap(d)})
      BY <1>1, <1>2 DEF RehashOK
    <2>2. Cardinality(Taken(d)) = n
      BY <1>2 DEF TableOK
    <2> HIDE DEF d, n, o
    <2> QED
      BY <1>4, <2>1, <2>2, BeforeAll
  <1>6. o # Free
    BY <1>1 DEF Free
  <1>7. c # Main => job[Main] = Free /\ o.then.op # "merge"
    BY <1>1, <1>6, CacheNumbers DEF LookInv, JobsOK
  <1>8. c = Main => \A s \in Subs : job[s] = Free
    BY <1>6 DEF LookInv, JobsOK
  <1>9. CASE o.then.op = "put"
    <2>1. o.then \in Puts
      BY <1>3, <1>9 DEF RehashShape, Free, Merges
    <2>2. o.then.key \in Keys
      BY <2>1 DEF Puts
    <2>3. PutEntry(c, o.new, o.then.key) /\ job' = [job EXCEPT ![c] = Free]
      BY <1>9 DEF RehashEnd
    <2>4. 2 * (n + 1) <= Cap(o.new)
      BY <1>2, <1>9 DEF Room
    <2> QED
      BY <1>4, <1>5, <1>7, <2>2, <2>3, <2>4, PutEntryLooks
  <1>10. CASE o.then.op # "put"
    <2>1. table' = [table EXCEPT ![c] = o.new] /\ job' = [job EXCEPT ![c] = o.then] /\ size' = size
      BY <1>10 DEF RehashEnd
    <2>2. size' = [size EXCEPT ![c] = n]
      BY <2>1 DEF LookInv
    <2>3. TableOK(o.new, n)
      BY <1>2, <1>4, <1>5 DEF TableOK, Room
    <2>4. o.then = Free \/ (o.then \in Merges /\ o.then.i = 0)
      BY <1>3, <1>10 DEF RehashShape, Puts
    <2>5. JobShape(o.then) /\ o.then.op # "rehash"
      BY <2>4 DEF JobShape, Free, Merges
    <2>6. o.then.op = "merge" => /\ o.new # <<>> /\ o.then.i \in 0 .. Cap(table[First(o.then.from)])
                                 /\ 2 * (n + Cardinality(Waiting(table, o.then.from, o.then.i))) <= Cap(o.new)
      <3> SUFFICES ASSUME o.then.op = "merge"
                   PROVE  /\ o.then.i \in 0 .. Cap(table[First(o.then.from)])
                          /\ 2 * (n + Cardinality(Waiting(table, o.then.from, o.then.i))) <= Cap(o.new)
        BY <1>4
      <3>1. o.then \in Merges /\ o.then.i = 0
        BY <2>4 DEF Free
      <3>2. First(o.then.from) \in Caches
        BY <3>1, FirstOf, CacheNumbers DEF Merges
      <3>3. Cap(table[First(o.then.from)]) \in Nat
        BY <3>2, TableFinite DEF LookInv
      <3>4. 2 * (n + Cardinality(Waiting(table, o.then.from, 0))) <= Cap(o.new)
        BY <1>2 DEF Room
      <3>5. o.then.i \in 0 .. Cap(table[First(o.then.from)])
        BY <3>1, <3>3
      <3> QED
        BY <3>1, <3>4, <3>5
    <2> HIDE DEF d, n, o
    <2> QED
      BY <1>7, <1>8, <2>1, <2>2, <2>3, <2>5, <2>6, OneCache DEF o
  <1> QED
    BY <1>9, <1>10

LEMMA MergeStepLooks ==
  ASSUME LookInv, MergeStep
  PROVE  LookInv'
  <1> DEFINE d == table[Main]
             n == size[Main]
             o == job[Main]
             f == First(o.from)
             e == table[f][o.i]
             j == [op |-> "merge", from |-> o.from, i |-> o.i + 1]
             W(m) == Waiting(table, o.from, m)
  <1>1. o.op = "merge"
    BY DEF MergeStep
  <1>2. o \in Merges /\ o.i \in Nat
    <2>1. JobShape(o)
      BY CacheNumbers DEF LookInv, JobsOK
    <2>2. o \in Merges
      BY <1>1, <2>1 DEF JobShape, Free, RehashShape
    <2> QED
      BY <2>2 DEF Merges
  <1>3. o.from \in Sets /\ f \in Subs /\ f \in Caches /\ From = f /\ o.from \in SUBSET Subs
    BY <1>2, FirstOf, CacheNumbers DEF Merges, Sets
  <1>4. o.i < Cap(table[f])
    BY <1>3 DEF MergeStep
  <1>5. job' = [job EXCEPT ![Main] = j]
    <2>1. PICK r : r = [o EXCEPT !.i = o.i + 1] /\ job' = [job EXCEPT ![Main] = r]
      BY DEF MergeStep
    <2>2. o = [op |-> "merge", from |-> o.from, i |-> o.i]
      BY <1>2 DEF Merges
    <2>3. r = j
      <3> HIDE DEF o
      <3> QED
        BY <2>1, <2>2, MergeRecord
    <2> QED
      BY Zenon, <2>1, <2>3
  <1>6. TableOK(d, n) /\ d # <<>> /\ TableOK(table[f], size[f]) /\ 2 * (n + Cardinality(W(o.i))) <= Cap(d)
    BY <1>1, <1>3, CacheNumbers DEF LookInv, MergeOK
  <1>7. Good(d) /\ n \in Nat /\ Cardinality(Taken(d)) = n /\ Cap(d) \in Nat /\ Cap(d) # 0
    BY <1>6, TakenFinite DEF TableOK
  <1>8. Good(table[f]) /\ o.i \in DOMAIN table[f] /\ o.i + 1 \in 0 .. Cap(table[f])
    <2>1. Good(table[f])
      BY <1>2, <1>4, <1>6, EmptyFunction DEF TableOK
    <2> QED
      BY <1>2, <1>4, <2>1, TakenFinite
  <1>9. Cardinality(W(o.i)) \in Nat /\ Cardinality(W(o.i + 1)) \in Nat
        /\ Cardinality(W(o.i)) = Cardinality(W(o.i + 1)) + (IF o.i \in Taken(table[f]) THEN 1 ELSE 0)
    BY <1>2, <1>3, WaitingFinite, WaitingStep
  <1>10. j.op = "merge" /\ j.from = o.from /\ j.i = o.i + 1 /\ j # Free /\ JobShape(j)
    BY <1>2, <1>3 DEF JobShape, Merges, Free
  <1>11. \A s \in Subs : job[s] = Free
    BY <1>1 DEF LookInv, JobsOK, Free
  <1>12. PICK t, m : /\ table' = [table EXCEPT ![Main] = t] /\ size' = [size EXCEPT ![Main] = m]
                     /\ TableOK(t, m) /\ t # <<>> /\ 2 * (m + Cardinality(W(o.i + 1))) <= Cap(t)
    <2>1. CASE e = NoEntry
      <3>1. table' = [table EXCEPT ![Main] = d] /\ size' = [size EXCEPT ![Main] = n]
        BY <1>3, <2>1 DEF MergeStep, LookInv
      <3>2. o.i \notin Taken(table[f])
        BY <2>1 DEF Taken
      <3>3. 2 * (n + Cardinality(W(o.i + 1))) <= Cap(d)
        BY <1>6, <1>9, <3>2
      <3> QED
        BY <1>6, <3>1, <3>3
    <2>2. CASE e # NoEntry
      <3>1. table' = [table EXCEPT ![Main] = Put(d, e)] /\ size' = [size EXCEPT ![Main] = n + 1]
        BY <1>3, <2>2 DEF MergeStep
      <3>2. o.i \in Taken(table[f]) /\ e \in Entries
        BY <1>8, <2>2 DEF Taken, Good
      <3>3. Cardinality(W(o.i)) = Cardinality(W(o.i + 1)) + 1
        BY <1>9, <3>2
      <3> HIDE DEF d, n, e, W
      <3>4. n < Cap(d) /\ 2 * (n + 1 + Cardinality(W(o.i + 1))) <= Cap(d) /\ 2 * (n + 1) <= Cap(d)
        BY <1>6, <1>7, <1>9, <3>3
      <3>5. Good(Put(d, e)) /\ Cap(Put(d, e)) = Cap(d) /\ Cardinality(Taken(Put(d, e))) = n + 1
        BY <1>7, <3>2, <3>4, PutCounts
      <3>6. TableOK(Put(d, e), n + 1) /\ Put(d, e) # <<>>
        BY <1>7, <3>4, <3>5, TakenFinite DEF TableOK
      <3> QED
        BY <3>1, <3>4, <3>5, <3>6
    <2> QED
      BY <2>1, <2>2
  <1> HIDE DEF j
  <1>13. j.i \in 0 .. Cap(table[First(j.from)]) /\ 2 * (m + Cardinality(Waiting(table, j.from, j.i))) <= Cap(t)
    BY <1>8, <1>10, <1>12
  <1> QED
    BY <1>5, <1>10, <1>11, <1>12, <1>13, CacheNumbers, OneCache

LEMMA MergeEndLooks ==
  ASSUME LookInv, MergeEnd
  PROVE  LookInv'
  <1> DEFINE o == job[Main]
             f == First(o.from)
             S == o.from \ {f}
             j == IF o.from = {f} THEN Free ELSE [op |-> "merge", from |-> S, i |-> 0]
  <1>1. o.op = "merge"
    BY DEF MergeEnd
  <1>2. o \in Merges
    <2>1. JobShape(o)
      BY CacheNumbers DEF LookInv, JobsOK
    <2> QED
      BY <1>1, <2>1 DEF JobShape, Free, RehashShape
  <1>3. o.from \in Sets /\ f \in Subs /\ f \in Caches /\ f \in o.from /\ From = f /\ o.from \in SUBSET Subs /\ f # Main
    BY <1>2, FirstOf, CacheNumbers DEF Merges, Sets
  <1>4. /\ o.i = Cap(table[f])
        /\ table' = [table EXCEPT ![f] = <<>>] /\ size' = [size EXCEPT ![f] = 0]
        /\ job' = [job EXCEPT ![Main] = j]
    BY <1>3 DEF MergeEnd
  <1>5. \A s \in Subs : job[s] = Free
    BY <1>1 DEF LookInv, JobsOK, Free
  <1>6. j = Free \/ (j \in Merges /\ j.from = S /\ j.i = 0 /\ S \in Sets)
    BY <1>3 DEF Merges, Sets
  <1>7. JobShape(j) /\ j.op # "rehash"
    BY <1>6 DEF JobShape, Free, Merges
  <1>8. DOMAIN table = Caches /\ DOMAIN size = Caches /\ DOMAIN job = Caches
    BY DEF LookInv
  <1> HIDE DEF j
  <1>9. /\ table' = [b \in Caches |-> table'[b]] /\ size' = [b \in Caches |-> size'[b]]
        /\ job' = [b \in Caches |-> job'[b]]
        /\ table'[f] = <<>> /\ size'[f] = 0 /\ job'[Main] = j
        /\ \A b \in Caches : b # f => table'[b] = table[b] /\ size'[b] = size[b]
        /\ \A b \in Caches : b # Main => job'[b] = job[b]
    BY <1>3, <1>4, <1>8, CacheNumbers
  <1>10. TableOK(<<>>, 0)
    BY EmptyFunction, FS_EmptySet DEF TableOK
  <1>11. \A b \in Caches : TableOK(table'[b], size'[b])
    BY <1>9, <1>10 DEF LookInv
  <1>12. \A s \in Subs : job'[s] = Free
    BY <1>5, <1>9, CacheNumbers
  <1>13. \A b \in Caches : JobShape(job'[b]) /\ job'[b].op # "rehash"
    BY <1>7, <1>9, <1>12, CacheNumbers DEF JobShape, Free
  <1>14. JobsOK'
    BY <1>12, <1>13 DEF JobsOK, Free
  <1>15. MergeOK'
    <2> SUFFICES ASSUME j.op = "merge" PROVE MergeOK'
      BY <1>9 DEF MergeOK
    <2>1. j.from = S /\ j.i = 0 /\ S \in Sets
      BY <1>6 DEF Free
    <2>2. First(S) \in S /\ First(S) \in Subs
      BY <2>1, FirstOf
    <2>3. table'[First(S)] = table[First(S)] /\ First(S) \in Caches
      BY <1>9, <2>2, CacheNumbers
    <2>4. 0 \in 0 .. Cap(table[First(S)])
      <3>1. Cap(table[First(S)]) \in Nat
        BY <2>3, TableFinite DEF LookInv
      <3> QED
        BY <3>1
    <2>5. From' = First(S)
      BY <1>9, <2>1 DEF From, First
    <2>6. Waiting(table', S, 0) = Waiting(table, o.from, o.i)
      <3>1. PICK tb : tb = table'
        OBVIOUS
      <3>2. \A s \in o.from : s # f => tb[s] = table[s]
        BY <1>3, <1>9, <3>1, CacheNumbers
      <3>3. Waiting(tb, S, 0) = Waiting(table, o.from, Cap(table[f]))
        BY <1>3, <3>2, WaitingEnd
      <3> QED
        BY Zenon, <1>4, <3>1, <3>3
    <2>7. table'[Main] = table[Main] /\ size'[Main] = size[Main]
      BY <1>3, <1>9, CacheNumbers
    <2>8. table[Main] # <<>> /\ 2 * (size[Main] + Cardinality(Waiting(table, o.from, o.i))) <= Cap(table[Main])
      BY <1>1 DEF LookInv, MergeOK
    <2>9. job'[Main].from = S /\ job'[Main].i = 0
      BY <1>9, <2>1
    <2> HIDE DEF S, o, f
    <2> QED
      BY <2>3, <2>4, <2>5, <2>6, <2>7, <2>8, <2>9 DEF MergeOK
  <1> QED
    BY <1>9, <1>11, <1>13, <1>14, <1>15 DEF LookInv

LEMMA MadeStep == made \in Nat /\ [Next]_cacheVars => made' \in Nat
  <1> SUFFICES ASSUME made \in Nat, [Next]_cacheVars PROVE made' \in Nat
    OBVIOUS
  <1>1. \A c, d, k : PutEntry(c, d, k) => made' = made + 1
    BY DEF PutEntry
  <1>2. made' = made \/ made' = made + 1
    <2>1. ASSUME NEW c, NEW k, NewEntry(c, k) PROVE made' = made \/ made' = made + 1
      BY <1>1, <2>1 DEF NewEntry
    <2>2. ASSUME NEW c, RehashEnd(c) PROVE made' = made \/ made' = made + 1
      BY <1>1, <2>2 DEF RehashEnd
    <2>3. ASSUME NEW c, RehashStep(c) PROVE made' = made
      BY <2>3 DEF RehashStep
    <2>4. ASSUME NEW c, NEW n, Reserve(c, n) PROVE made' = made
      BY <2>4 DEF Reserve
    <2>5. ASSUME NEW S, Merge(S) PROVE made' = made
      BY <2>5 DEF Merge
    <2>6. MergeStep => made' = made
      BY DEF MergeStep
    <2>7. MergeEnd => made' = made
      BY DEF MergeEnd
    <2>8. UNCHANGED cacheVars => made' = made
      BY DEF cacheVars
    <2> QED
      BY <2>1, <2>2, <2>3, <2>4, <2>5, <2>6, <2>7, <2>8 DEF Next
  <1> QED
    BY <1>2

LEMMA LookStep == LookInv /\ made \in Nat /\ [Next]_cacheVars => LookInv'
  <1> SUFFICES ASSUME LookInv, made \in Nat, [Next]_cacheVars PROVE LookInv'
    OBVIOUS
  <1>1. ASSUME NEW c \in Caches, NEW n \in 0 .. MaxReserve, Reserve(c, n) PROVE LookInv'
    <2>1. n \in Nat /\ MayUse(c) /\ ReserveMore(c, n, Free) /\ size' = size
      BY <1>1, CacheAssumption DEF Reserve
    <2> QED
      BY <2>1, ReserveLooks
  <1>2. CASE UNCHANGED cacheVars
    BY <1>2 DEF cacheVars, LookInv, JobsOK, MergeOK, From, Room
  <1>3. ASSUME NEW c \in Caches, NEW k \in Keys, NewEntry(c, k) PROVE LookInv'
    BY <1>3, NewEntryLooks
  <1>4. ASSUME NEW c \in Caches, RehashStep(c) \/ RehashEnd(c) PROVE LookInv'
    BY <1>4, RehashStepLooks, RehashEndLooks
  <1>5. ASSUME NEW S \in SUBSET Subs, Merge(S) PROVE LookInv'
    BY <1>5, MergeLooks
  <1> QED
    BY <1>1, <1>2, <1>3, <1>4, <1>5, MergeStepLooks, MergeEndLooks DEF Next

(***************************************************************************)
(* The loops of find, new_entry, rehash_ and merge_caches                  *)
(* (function_cache.cc:57-94 and 134-217) come to an empty slot, and a      *)
(* cache that may be read finds a key exactly when it has an entry of it,  *)
(* whatever the hash values are and however tables grew or were merged.    *)
(***************************************************************************)
THEOREM LookupsAnswerRight == Spec => []LookupsAnswer
  <1> DEFINE Inv == LookInv /\ made \in Nat
  <1>1. Init => Inv
    BY LookInit DEF Init
  <1>2. Inv /\ [Next]_cacheVars => Inv'
    BY LookStep, MadeStep
  <1>3. Inv => LookupsAnswer
    <2> SUFFICES ASSUME LookInv PROVE LookupsAnswer
      OBVIOUS
    <2>1. ASSUME NEW c \in Caches, table[c] # <<>>
          PROVE  Good(table[c]) /\ \E p \in DOMAIN table[c] : table[c][p] = NoEntry
      <3>1. TableOK(table[c], size[c])
        BY DEF LookInv
      <3>2. Good(table[c]) /\ size[c] \in Nat /\ Cardinality(Taken(table[c])) = size[c] /\ 2 * size[c] <= Cap(table[c])
        BY <2>1, <3>1 DEF TableOK
      <3>3. Cap(table[c]) \in Nat /\ Cap(table[c]) # 0
        BY <3>2, TakenFinite
      <3>4. Cardinality(Taken(table[c])) < Cap(table[c])
        BY <3>2, <3>3
      <3> QED
        BY <3>2, <3>4, EmptySlot
    <2>2. ASSUME NEW c \in Caches, job[c].op = "rehash"
          PROVE  \E p \in DOMAIN job[c].new : job[c].new[p] = NoEntry
      <3> DEFINE d == table[c]
                 new == job[c].new
                 n == size[c]
                 P == {p \in Taken(d) : p < job[c].i}
      <3>1. TableOK(d, n) /\ RehashOK(d, job[c]) /\ 2 * n <= Cap(new)
        BY <2>2 DEF LookInv, Room
      <3>2. Good(new) /\ Cardinality(Taken(new)) = Cardinality(P)
        BY <3>1 DEF RehashOK
      <3>3. IsFiniteSet(Taken(d)) /\ Cardinality(Taken(d)) = n /\ n \in Nat
        BY <3>1, TableFinite DEF TableOK
      <3>4. P \in SUBSET Taken(d)
        OBVIOUS
      <3>5. Cap(new) \in Nat /\ Cap(new) # 0
        BY <3>2, TakenFinite
      <3> HIDE DEF d, new, n, P
      <3>6. Cardinality(P) \in Nat /\ Cardinality(P) <= n
        BY <3>3, <3>4, FS_Subset, FS_CardinalityType
      <3>7. Cardinality(Taken(new)) < Cap(new)
        BY <3>1, <3>2, <3>3, <3>5, <3>6
      <3> QED
        BY <3>2, <3>7, EmptySlot DEF new
    <2>3. ProbeEnds
      BY <2>1, <2>2 DEF ProbeEnds
    <2>4. ASSUME NEW c \in Caches, NEW k \in Keys
          PROVE  LET there == {e \in EntriesOf(table[c]) : e.key = k}
                 IN  Find(table[c], k) \in (IF there = {} THEN {NoEntry} ELSE there)
      <3>1. CASE table[c] = <<>>
        BY <3>1, EmptyFunction DEF Find
      <3>2. CASE table[c] # <<>>
        BY <2>1, <3>2, FindsTheKey
      <3> QED
        BY <3>1, <3>2
    <2>5. FoundIfThere
      BY <2>4 DEF FoundIfThere
    <2> QED
      BY <2>3, <2>5 DEF LookupsAnswer
  <1> QED
    BY <1>1, <1>2, <1>3, PTL DEF Spec

-----------------------------------------------------------------------------
(* What a step does to entries and memory *)

\* Nothing
Quiet ==
  /\ made' = made /\ mem' = mem /\ Borrowed' = Borrowed
  /\ \A c \in Caches : EntriesOf(table'[c]) = EntriesOf(table[c])

\* An entry of key k is made in cache c.
Made(c, k) ==
  /\ made' = made + 1 /\ mem' = [mem EXCEPT ![c] = @ \cup {made + 1}]
  /\ Borrowed = {} /\ Borrowed' = {}
  /\ EntriesOf(table'[c]) = EntriesOf(table[c]) \cup {[key |-> k, id |-> made + 1]}
  /\ \A b \in Caches : b # c => EntriesOf(table'[b]) = EntriesOf(table[b])

\* The main cache gets entry e of worker cache s, which keeps its memory for now.
Lent(s, e) ==
  /\ made' = made /\ mem' = mem /\ Borrowed' = Borrowed \cup {e}
  /\ EntriesOf(table'[Main]) = EntriesOf(table[Main]) \cup {e}
  /\ \A b \in Caches : b # Main => EntriesOf(table'[b]) = EntriesOf(table[b])

\* The memory of worker cache s, all of whose entries were merged, is given to the main one.
Given(s) ==
  /\ made' = made /\ mem' = [mem EXCEPT ![Main] = @ \cup mem[s], ![s] = {}]
  /\ Borrowed = EntriesOf(table[s]) /\ Borrowed' = {}
  /\ EntriesOf(table'[s]) = {}
  /\ \A b \in Caches : b # s => EntriesOf(table'[b]) = EntriesOf(table[b])

MemEffect ==
  \/ Quiet
  \/ \E c \in Caches, k \in Keys : Made(c, k)
  \/ \E s \in Subs : \E e \in EntriesOf(table[s]) : Lent(s, e)
  \/ \E s \in Subs : Given(s)

\* Of a merge that did not begin nothing was merged.
LEMMA NothingBorrowed ==
  /\ (job[Main].op = "merge" => job[Main].i = 0) => Borrowed = {}
  /\ (job'[Main].op = "merge" => job'[Main].i = 0) => Borrowed' = {}
  <1>1. 0 .. 0 - 1 = {}
    OBVIOUS
  <1>2. (job[Main].op = "merge" => job[Main].i = 0) => Borrowed = {}
    BY <1>1 DEF Borrowed, Before
  <1>3. (job'[Main].op = "merge" => job'[Main].i = 0) => Borrowed' = {}
    BY <1>1 DEF Borrowed, Before
  <1> QED
    BY <1>2, <1>3

LEMMA NewEntryMem ==
  ASSUME LookInv, made \in Nat, NEW c \in Caches, NEW k \in Keys, NewEntry(c, k)
  PROVE  MemEffect
  <1> DEFINE d == IF table[c] = <<>> THEN NewTable(DefaultCap) ELSE table[c]
             e == [key |-> k, id |-> made + 1]
             n == size[c]
  <1>1. MayUse(c)
    BY DEF NewEntry
  <1>2. job[Main] = Free /\ TableOK(table[c], n) /\ n \in Nat
    BY <1>1, Usable
  <1>3. Good(d) /\ EntriesOf(d) = EntriesOf(table[c]) /\ Cardinality(Taken(d)) = n
    <2>1. DefaultCap \in Nat \ {0}
      BY CacheAssumption
    <2>2. CASE table[c] = <<>>
      <3>1. n = 0
        BY <1>2, <2>2, EmptyFunction, FS_EmptySet DEF TableOK
      <3> QED
        BY <2>1, <2>2, <3>1, EmptyTable, EmptyFunction, FS_EmptySet
    <2>3. CASE table[c] # <<>>
      BY <1>2, <2>3 DEF TableOK
    <2> QED
      BY <2>2, <2>3
  <1>4. Borrowed = {}
    BY <1>2, NothingBorrowed DEF Free
  <1>5. DOMAIN job = Caches /\ DOMAIN table = Caches
    BY DEF LookInv
  <1>6. CASE 2 * (n + 1) > Cap(d)
    <2>1. table' = [table EXCEPT ![c] = d] /\ mem' = mem /\ made' = made
          /\ Rehash(c, 2 * Cap(d), [op |-> "put", key |-> k])
      BY <1>6 DEF NewEntry
    <2>2. job'[Main].op # "merge"
      BY <1>2, <1>5, <2>1, CacheNumbers DEF Rehash, Free
    <2>3. Borrowed' = {}
      BY <2>2, NothingBorrowed
    <2> HIDE DEF d
    <2>4. Quiet
      BY <1>3, <1>4, <1>5, <2>1, <2>3 DEF Quiet
    <2> QED
      BY <2>4 DEF MemEffect
  <1>7. CASE ~(2 * (n + 1) > Cap(d))
    <2>1. PutEntry(c, d, k) /\ job' = job
      BY <1>7 DEF NewEntry
    <2>2. Borrowed' = {}
      BY <1>2, <2>1, NothingBorrowed DEF Free
    <2>3. Cap(d) \in Nat
      BY <1>3, TakenFinite
    <2> HIDE DEF d
    <2>4. n < Cap(d)
      BY <1>2, <1>7, <2>3
    <2>5. e \in Entries
      BY DEF Entries
    <2>6. EntriesOf(Put(d, e)) = EntriesOf(table[c]) \cup {e}
      BY <1>3, <2>4, <2>5, PutCounts
    <2>7. made' = made + 1 /\ table' = [table EXCEPT ![c] = Put(d, e)] /\ mem' = [mem EXCEPT ![c] = @ \cup {made + 1}]
      BY <2>1 DEF PutEntry
    <2> HIDE DEF e
    <2>8. Made(c, k)
      BY <1>4, <1>5, <2>2, <2>6, <2>7 DEF Made, e
    <2> QED
      BY <2>8 DEF MemEffect
  <1> QED
    BY <1>6, <1>7

LEMMA ReserveMem ==
  ASSUME LookInv, NEW c \in Caches, MayUse(c), NEW n \in Nat, NEW then,
         then.op = "merge" => then.i = 0,
         ReserveMore(c, n, then), mem' = mem, made' = made
  PROVE  MemEffect
  <1>1. job[Main] = Free
    BY DEF MayUse
  <1>2. Borrowed = {}
    BY <1>1, NothingBorrowed DEF Free
  <1>3. DOMAIN job = Caches /\ DOMAIN table = Caches
    BY DEF LookInv
  <1>4. ASSUME NEW j, job' = [job EXCEPT ![c] = j], j.op = "merge" => j.i = 0 PROVE Borrowed' = {}
    <2>1. job'[Main].op = "merge" => job'[Main].i = 0
      BY <1>1, <1>3, <1>4, CacheNumbers DEF Free
    <2> QED
      BY <2>1, NothingBorrowed
  <1>5. ASSUME NEW d, table' = [table EXCEPT ![c] = d], EntriesOf(d) = EntriesOf(table[c]), Borrowed' = {}
        PROVE  MemEffect
    BY <1>2, <1>3, <1>5 DEF MemEffect, Quiet
  <1>6. CASE table[c] # <<>> /\ 2 * (size[c] + n) <= Cap(table[c])
    <2>1. job' = [job EXCEPT ![c] = then] /\ table' = [table EXCEPT ![c] = table[c]]
      BY <1>6 DEF ReserveMore, LookInv
    <2> QED
      BY <1>4, <1>5, <2>1
  <1>7. CASE ~(table[c] # <<>> /\ 2 * (size[c] + n) <= Cap(table[c]))
    <2>1. PICK cap \in Caps :
            IF table[c] = <<>>
            THEN /\ table' = [table EXCEPT ![c] = NewTable(cap)]
                 /\ job' = [job EXCEPT ![c] = then]
            ELSE Rehash(c, cap, then) /\ UNCHANGED table
      BY <1>7 DEF ReserveMore
    <2>2. CASE table[c] = <<>>
      <3>1. cap \in Nat \ {0}
        BY CacheAssumption
      <3>2. EntriesOf(NewTable(cap)) = EntriesOf(table[c])
        BY <2>2, <3>1, EmptyTable, EmptyFunction
      <3> QED
        BY <1>4, <1>5, <2>1, <2>2, <3>2
    <2>3. CASE table[c] # <<>>
      <3>1. table' = [table EXCEPT ![c] = table[c]]
        BY <2>1, <2>3 DEF LookInv
      <3>2. PICK j : j = [op |-> "rehash", i |-> 0, new |-> NewTable(cap), then |-> then]
        OBVIOUS
      <3>3. job' = [job EXCEPT ![c] = j] /\ j.op # "merge"
        BY <2>1, <2>3, <3>2 DEF Rehash
      <3> QED
        BY <1>4, <1>5, <3>1, <3>3
    <2> QED
      BY <2>2, <2>3
  <1> QED
    BY <1>6, <1>7

LEMMA RehashStepMem ==
  ASSUME LookInv, NEW c \in Caches, RehashStep(c)
  PROVE  MemEffect
  <1>1. job[c].op = "rehash" /\ table' = table /\ mem' = mem /\ made' = made
    BY DEF RehashStep
  <1>2. job[c] # Free
    BY <1>1 DEF Free
  <1>3. c # Main => job[Main].op # "merge"
    BY <1>2, CacheNumbers DEF LookInv, JobsOK, Free
  <1>4. job[Main].op # "merge"
    BY <1>1, <1>3
  <1>5. job'[Main].op = job[Main].op
    <2>1. PICK x, y : job' = [job EXCEPT ![c].i = x, ![c].new = y]
      BY DEF RehashStep
    <2>2. PICK r : r = [job[c] EXCEPT !.i = x, !.new = y]
      OBVIOUS
    <2>3. DOMAIN job = Caches /\ Main \in Caches
      BY CacheNumbers DEF LookInv
    <2>4. job' = [job EXCEPT ![c] = r]
      BY <2>1, <2>2, <2>3
    <2>5. RehashShape(job[c])
      BY <1>1 DEF LookInv, JobsOK, JobShape, Free, Merges
    <2>6. r.op = job[c].op
      <3>1. PICK o, a, b, t : o = job[c] /\ o = [op |-> "rehash", i |-> a, new |-> b, then |-> t]
        BY <2>5 DEF RehashShape
      <3>2. r = [o EXCEPT !.i = x, !.new = y]
        BY <2>2, <3>1
      <3>3. o = [op |-> "rehash", i |-> a, new |-> b, then |-> t]
        BY <3>1
      <3>4. r = [op |-> "rehash", i |-> x, new |-> y, then |-> t]
        BY Zenon, <3>2, <3>3, RehashRecord
      <3> QED
        BY <1>1, <3>4
    <2> QED
      BY <2>3, <2>4, <2>6
  <1>6. Borrowed = {} /\ Borrowed' = {}
    BY <1>4, <1>5, NothingBorrowed
  <1> QED
    BY <1>1, <1>6 DEF MemEffect, Quiet

LEMMA RehashEndMem ==
  ASSUME LookInv, made \in Nat, NEW c \in Caches, RehashEnd(c)
  PROVE  MemEffect
  <1> DEFINE d == table[c]
             n == size[c]
             o == job[c]
  <1>1. o.op = "rehash" /\ o.i = Cap(d)
    BY DEF RehashEnd
  <1>2. RehashOK(d, o) /\ Room(table, n, o) /\ TableOK(d, n)
    BY <1>1 DEF LookInv
  <1>3. RehashShape(o)
    BY <1>1 DEF LookInv, JobsOK, JobShape, Free, Merges
  <1>4. Good(d) /\ Good(o.new) /\ n \in Nat /\ Cap(o.new) \in Nat
    BY <1>2, TakenFinite DEF RehashOK, TableOK
  <1>5. EntriesOf(o.new) = EntriesOf(d) /\ Cardinality(Taken(o.new)) = n
    <2>1. EntriesOf(o.new) = Before(d, Cap(d)) /\ Cardinality(Taken(o.new)) = Cardinality({p \in Taken(d) : p < Cap(d)})
      BY <1>1, <1>2 DEF RehashOK
    <2>2. Cardinality(Taken(d)) = n
      BY <1>2 DEF TableOK
    <2> HIDE DEF d, n, o
    <2> QED
      BY <1>4, <2>1, <2>2, BeforeAll
  <1>6. o # Free
    BY <1>1 DEF Free
  <1>7. c # Main => job[Main] = Free
    BY <1>6, CacheNumbers DEF LookInv, JobsOK
  <1>8. job[Main].op # "merge"
    BY <1>1, <1>7 DEF Free
  <1>9. Borrowed = {}
    BY <1>8, NothingBorrowed
  <1>10. DOMAIN job = Caches /\ DOMAIN table = Caches
    BY DEF LookInv
  <1>11. CASE o.then.op = "put"
    <2> DEFINE k == o.then.key
               e == [key |-> k, id |-> made + 1]
    <2>1. k \in Keys
      BY <1>3, <1>11 DEF RehashShape, Free, Merges, Puts
    <2>2. PutEntry(c, o.new, k) /\ job' = [job EXCEPT ![c] = Free]
      BY <1>11 DEF RehashEnd
    <2>3. 2 * (n + 1) <= Cap(o.new)
      BY <1>2, <1>11 DEF Room
    <2>4. Borrowed' = {}
      <3>1. job'[Main].op # "merge"
        BY <1>7, <1>10, <2>2, CacheNumbers DEF Free
      <3> QED
        BY <3>1, NothingBorrowed
    <2>5. e \in Entries
      BY <2>1 DEF Entries
    <2>6. made' = made + 1 /\ table' = [table EXCEPT ![c] = Put(o.new, e)] /\ mem' = [mem EXCEPT ![c] = @ \cup {made + 1}]
      BY <2>2 DEF PutEntry
    <2> HIDE DEF e, k, o, d, n
    <2>7. n < Cap(o.new)
      BY <1>4, <2>3
    <2>8. EntriesOf(Put(o.new, e)) = EntriesOf(d) \cup {e}
      BY <1>4, <1>5, <2>5, <2>7, PutCounts
    <2>9. Made(c, k)
      BY <1>9, <1>10, <2>4, <2>6, <2>8 DEF Made, e, d
    <2> QED
      BY <2>1, <2>9 DEF MemEffect
  <1>12. CASE o.then.op # "put"
    <2>1. table' = [table EXCEPT ![c] = o.new] /\ job' = [job EXCEPT ![c] = o.then] /\ mem' = mem /\ made' = made
      BY <1>12 DEF RehashEnd
    <2>2. o.then = Free \/ (o.then \in Merges /\ o.then.i = 0)
      BY <1>3, <1>12 DEF RehashShape, Puts
    <2>3. job'[Main].op = "merge" => job'[Main].i = 0
      <3> HIDE DEF o
      <3> QED
        BY <1>7, <1>10, <2>1, <2>2, CacheNumbers DEF Free
    <2>4. Borrowed' = {}
      BY <2>3, NothingBorrowed
    <2> HIDE DEF o
    <2>5. Quiet
      BY <1>5, <1>9, <1>10, <2>1, <2>4 DEF Quiet
    <2> QED
      BY <2>5 DEF MemEffect
  <1> QED
    BY <1>11, <1>12

\* The merge that goes on, and the cache that is being merged
LEMMA Merging ==
  ASSUME LookInv, job[Main].op = "merge"
  PROVE  /\ job[Main] \in Merges /\ job[Main].i \in Nat
         /\ From \in Subs /\ From \in Caches /\ From # Main /\ From \in job[Main].from
         /\ From = First(job[Main].from)
  <1>1. JobShape(job[Main])
    BY CacheNumbers DEF LookInv, JobsOK
  <1>2. job[Main] \in Merges
    BY <1>1 DEF JobShape, Free, RehashShape
  <1>3. job[Main].from \in Sets /\ job[Main].i \in Nat
    BY <1>2 DEF Merges
  <1> QED
    BY <1>2, <1>3, FirstOf, CacheNumbers

LEMMA MergeStepMem ==
  ASSUME LookInv, MergeStep
  PROVE  MemEffect
  <1> DEFINE d == table[Main]
             n == size[Main]
             o == job[Main]
             f == From
             e == table[f][o.i]
             W(m) == Waiting(table, o.from, m)
  <1>1. o.op = "merge" /\ o.i < Cap(table[f]) /\ mem' = mem /\ made' = made
    BY DEF MergeStep
  <1>2. o \in Merges /\ o.i \in Nat /\ f \in Subs /\ f \in Caches /\ f # Main /\ f = First(o.from)
    BY <1>1, Merging
  <1>3. o.from \in Sets /\ o.from \in SUBSET Subs
    BY <1>2 DEF Merges, Sets
  <1>4. Main \in Caches /\ DOMAIN job = Caches /\ DOMAIN table = Caches
    BY CacheNumbers DEF LookInv
  <1>5. job'[Main].op = "merge" /\ job'[Main].from = o.from /\ job'[Main].i = o.i + 1
    <2>1. PICK r : r = [o EXCEPT !.i = o.i + 1] /\ job' = [job EXCEPT ![Main] = r]
      BY DEF MergeStep
    <2>2. o = [op |-> "merge", from |-> o.from, i |-> o.i]
      BY <1>2 DEF Merges
    <2>3. r = [op |-> "merge", from |-> o.from, i |-> o.i + 1]
      <3> HIDE DEF o
      <3> QED
        BY <2>1, <2>2, MergeRecord
    <2> HIDE DEF o
    <2> QED
      BY <1>4, <2>1, <2>3
  <1>6. From' = f
    BY <1>5 DEF From
  <1>7. PICK t : t = table' /\ t[f] = table[f]
    <2>1. table' = table \/ \E x : table' = [table EXCEPT ![Main] = x]
      BY DEF MergeStep
    <2>2. table'[f] = table[f]
      BY <1>2, <1>4, <2>1
    <2> QED
      BY <2>2
  <1>8. Borrowed = Before(table[f], o.i) /\ Borrowed' = Before(table[f], o.i + 1)
    <2>1. Borrowed' = Before(t[f], o.i + 1)
      BY Zenon, <1>5, <1>6, <1>7 DEF Borrowed, Before
    <2> QED
      BY <1>1, <1>7, <2>1 DEF Borrowed
  <1>9. CASE e = NoEntry
    <2>1. table' = table
      BY <1>9 DEF MergeStep
    <2>2. Borrowed' = Borrowed
      BY <1>2, <1>8, <1>9, BeforeNext
    <2> QED
      BY <1>1, <2>1, <2>2 DEF MemEffect, Quiet
  <1>10. CASE e # NoEntry
    <2>1. table' = [table EXCEPT ![Main] = Put(d, e)]
      BY <1>10 DEF MergeStep
    <2>2. Borrowed' = Borrowed \cup {e}
      BY <1>2, <1>8, <1>10, BeforeNext
    <2>3. TableOK(table[f], size[f]) /\ TableOK(d, n) /\ d # <<>> /\ 2 * (n + Cardinality(W(o.i))) <= Cap(d)
      BY <1>1, <1>2, <1>4 DEF LookInv, MergeOK
    <2>4. Good(d) /\ n \in Nat /\ Cardinality(Taken(d)) = n /\ Cap(d) \in Nat
      BY <2>3, TakenFinite DEF TableOK
    <2>5. Good(table[f]) /\ o.i \in DOMAIN table[f]
      <3>1. Good(table[f])
        BY <1>1, <1>2, <2>3, EmptyFunction DEF TableOK
      <3> QED
        BY <1>1, <1>2, <3>1, TakenFinite
    <2>6. e \in Entries /\ e \in EntriesOf(table[f]) /\ o.i \in Taken(table[f])
      BY <1>10, <2>5 DEF Good, EntriesOf, Taken
    <2>7. Cardinality(W(o.i)) \in Nat /\ Cardinality(W(o.i + 1)) \in Nat
          /\ Cardinality(W(o.i)) = Cardinality(W(o.i + 1)) + 1
      BY <1>2, <1>3, <2>6, WaitingFinite, WaitingStep
    <2> HIDE DEF d, n, e, W, o
    <2>8. n < Cap(d)
      BY <2>3, <2>4, <2>7
    <2>9. EntriesOf(Put(d, e)) = EntriesOf(d) \cup {e}
      BY <2>4, <2>6, <2>8, PutCounts
    <2>10. Lent(f, e)
      BY <1>1, <1>4, <2>1, <2>2, <2>9 DEF Lent, d
    <2> QED
      BY <1>2, <2>6, <2>10 DEF MemEffect
  <1> QED
    BY <1>9, <1>10

LEMMA MergeEndMem ==
  ASSUME LookInv, MergeEnd
  PROVE  MemEffect
  <1> DEFINE o == job[Main]
             f == From
             j == IF o.from = {f} THEN Free ELSE [op |-> "merge", from |-> o.from \ {f}, i |-> 0]
  <1>1. /\ o.op = "merge" /\ o.i = Cap(table[f]) /\ made' = made
        /\ mem' = [mem EXCEPT ![Main] = @ \cup mem[f], ![f] = {}]
        /\ table' = [table EXCEPT ![f] = <<>>] /\ job' = [job EXCEPT ![Main] = j]
    BY DEF MergeEnd
  <1>2. f \in Subs /\ f \in Caches /\ f # Main
    BY <1>1, Merging
  <1>3. Main \in Caches /\ DOMAIN job = Caches /\ DOMAIN table = Caches
    BY CacheNumbers DEF LookInv
  <1>4. j.op = "merge" => j.i = 0
    BY DEF Free
  <1>5. Borrowed' = {}
    <2> HIDE DEF j
    <2>1. job'[Main] = j
      BY <1>1, <1>3
    <2> QED
      BY <1>4, <2>1, NothingBorrowed
  <1>6. Borrowed = EntriesOf(table[f])
    <2>1. TableOK(table[f], size[f])
      BY <1>2 DEF LookInv
    <2>2. CASE table[f] = <<>>
      <3>1. o.i = 0
        BY <1>1, <2>2, EmptyFunction
      <3> QED
        BY <2>2, <3>1, NothingBorrowed, EmptyFunction
    <2>3. CASE Good(table[f])
      BY <1>1, <2>3, BeforeAll DEF Borrowed
    <2> QED
      BY <2>1, <2>2, <2>3 DEF TableOK
  <1>7. EntriesOf(table'[f]) = {} /\ \A b \in Caches : b # f => EntriesOf(table'[b]) = EntriesOf(table[b])
    BY <1>1, <1>2, <1>3, EmptyFunction
  <1>8. Given(f)
    BY <1>1, <1>5, <1>6, <1>7 DEF Given
  <1> QED
    BY <1>2, <1>8 DEF MemEffect

LEMMA StepEffect == LookInv /\ made \in Nat /\ [Next]_cacheVars => MemEffect
  <1> SUFFICES ASSUME LookInv, made \in Nat, [Next]_cacheVars PROVE MemEffect
    OBVIOUS
  <1>1. ASSUME NEW c \in Caches, NEW n \in 0 .. MaxReserve, Reserve(c, n) PROVE MemEffect
    <2>1. n \in Nat /\ MayUse(c) /\ ReserveMore(c, n, Free) /\ mem' = mem /\ made' = made
      BY <1>1, CacheAssumption DEF Reserve
    <2> QED
      BY <2>1, ReserveMem DEF Free
  <1>2. ASSUME NEW S \in SUBSET Subs, Merge(S) PROVE MemEffect
    <2> DEFINE then == IF S = {} THEN Free ELSE [op |-> "merge", from |-> S, i |-> 0]
    <2>1. MayUse(Main) /\ ReserveMore(Main, TotalSize(S), then) /\ mem' = mem /\ made' = made
      BY <1>2 DEF Merge
    <2>2. TotalSize(S) \in Nat
      BY TotalSizeCounts
    <2>3. then.op = "merge" => then.i = 0
      BY DEF Free
    <2> HIDE DEF then
    <2> QED
      BY <2>1, <2>2, <2>3, CacheNumbers, ReserveMem
  <1>3. CASE UNCHANGED cacheVars
    BY <1>3 DEF cacheVars, MemEffect, Quiet, Borrowed, Before, From
  <1>4. ASSUME NEW c \in Caches, NEW k \in Keys, NewEntry(c, k) PROVE MemEffect
    BY <1>4, NewEntryMem
  <1>5. ASSUME NEW c \in Caches, RehashStep(c) \/ RehashEnd(c) PROVE MemEffect
    BY <1>5, RehashStepMem, RehashEndMem
  <1> QED
    BY <1>1, <1>2, <1>3, <1>4, <1>5, MergeStepMem, MergeEndMem DEF Next

-----------------------------------------------------------------------------
(* The memory of the entries is where MemInv says *)

LEMMA Belonging ==
  /\ \A e : e \in AllEntries <=> \E c \in Caches : e \in EntriesOf(table[c])
  /\ \A c \in Caches : \A e : e \in Owned(c) <=> e \in AllEntries /\ e.id \in mem[c]
  BY DEF AllEntries, Owned

LEMMA BelongingNext ==
  /\ \A e : e \in AllEntries' <=> \E c \in Caches : e \in EntriesOf(table'[c])
  /\ \A c \in Caches : \A e : e \in Owned(c)' <=> e \in AllEntries' /\ e.id \in mem'[c]
  BY DEF AllEntries, Owned

\* The store sees no difference.
Unseen == /\ made' = made /\ \A c \in Caches : Owned(c)' = Owned(c)

LEMMA QuietKeeps ==
  ASSUME MemInv, Quiet
  PROVE  MemInv' /\ Unseen
  <1>1. AllEntries' = AllEntries
    <2>1. \A e : e \in AllEntries' <=> e \in AllEntries
      BY Belonging, BelongingNext DEF Quiet
    <2> QED
      BY <2>1
  <1>2. ASSUME NEW c \in Caches PROVE Owned(c)' = Owned(c)
    <2>1. mem' = mem
      BY DEF Quiet
    <2> QED
      BY <1>1, <2>1 DEF Owned
  <1>3. MemInv'
    BY <1>1, <1>2, CacheNumbers DEF MemInv, Quiet
  <1> QED
    BY <1>2, <1>3 DEF Unseen, Quiet

LEMMA LentKeeps ==
  ASSUME MemInv, NEW s \in Subs, NEW e \in EntriesOf(table[s]), Lent(s, e)
  PROVE  MemInv' /\ Unseen
  <1>1. s \in Caches /\ Main \in Caches /\ Main \notin Subs /\ Subs \subseteq Caches
    BY CacheNumbers
  <1>2. AllEntries' = AllEntries
    BY <1>1, Belonging, BelongingNext DEF Lent
  <1>3. \A c \in Caches : Owned(c)' = Owned(c)
    BY <1>2, Belonging, BelongingNext DEF Lent
  <1>4. EntriesOf(table'[Main]) = Owned(Main)' \cup Borrowed'
    BY <1>1, <1>3 DEF MemInv, Lent
  <1>5. MemInv'
    BY <1>1, <1>2, <1>3, <1>4 DEF MemInv, Lent
  <1> QED
    BY <1>3, <1>5 DEF Unseen, Lent

\* The number of a new entry is that of no other one.
LEMMA MadeKeeps ==
  ASSUME MemInv, NEW c \in Caches, NEW k \in Keys, Made(c, k)
  PROVE  /\ MemInv' /\ made' = made + 1
         /\ Owned(c)' = Owned(c) \cup {[key |-> k, id |-> made']}
         /\ \A b \in Caches : b # c => Owned(b)' = Owned(b)
  <1> DEFINE e == [key |-> k, id |-> made + 1]
  <1>1. Main \in Caches /\ Main \notin Subs /\ Caches = {Main} \cup Subs
    BY CacheNumbers
  <1>2. e.id = made + 1
    OBVIOUS
  <1> HIDE DEF e
  <1>3. made' = made + 1 /\ mem' = [mem EXCEPT ![c] = @ \cup {made + 1}] /\ Borrowed = {} /\ Borrowed' = {}
        /\ EntriesOf(table'[c]) = EntriesOf(table[c]) \cup {e}
        /\ \A b \in Caches : b # c => EntriesOf(table'[b]) = EntriesOf(table[b])
    BY DEF Made, e
  <1>4. made \in Nat /\ mem \in [Caches -> SUBSET (1 .. made)]
    BY DEF MemInv
  <1>5. made' \in Nat /\ mem' \in [Caches -> SUBSET (1 .. made')]
    BY <1>3, <1>4
  <1>6. mem'[c] = mem[c] \cup {made + 1} /\ \A b \in Caches : b # c => mem'[b] = mem[b]
    BY <1>3, <1>4
  <1>7. \A b \in Caches : made + 1 \notin mem[b]
    BY <1>4
  <1>8. AllEntries' = AllEntries \cup {e}
    BY <1>3, Belonging, BelongingNext
  <1>9. \A b \in Caches : EntriesOf(table[b]) = Owned(b)
    BY <1>1, <1>3 DEF MemInv
  <1>10. \A f \in AllEntries : \E b \in Caches : f.id \in mem[b]
    BY <1>9, Belonging
  <1>11. \A f \in AllEntries : f.id # made + 1
    BY <1>7, <1>10
  <1>12. Owned(c)' = Owned(c) \cup {e}
    BY <1>2, <1>6, <1>8, <1>11, Belonging, BelongingNext
  <1>13. \A b \in Caches : b # c => Owned(b)' = Owned(b)
    <2>1. ASSUME NEW b \in Caches, b # c, NEW f PROVE f \in Owned(b)' <=> f \in Owned(b)
      <3>1. f \in Owned(b)' <=> (f \in AllEntries \/ f = e) /\ f.id \in mem[b]
        BY <1>6, <1>8, <2>1, BelongingNext
      <3> QED
        BY <1>2, <1>7, <3>1, Belonging
    <2> QED
      BY <2>1
  <1>14. \A b, d \in Caches : b # d => mem'[b] \cap mem'[d] = {}
    BY <1>6, <1>7 DEF MemInv
  <1>15. \A b \in Caches : {f.id : f \in Owned(b)'} = mem'[b]
    <2>1. {f.id : f \in Owned(c) \cup {e}} = {f.id : f \in Owned(c)} \cup {made + 1}
      BY <1>2
    <2> QED
      BY <1>6, <1>12, <1>13, <2>1 DEF MemInv
  <1>16. \A b \in Caches : EntriesOf(table'[b]) = Owned(b)'
    BY <1>3, <1>9, <1>12, <1>13
  <1>17. \A f, g \in AllEntries' : f.id = g.id => f = g
    BY <1>2, <1>8, <1>11 DEF MemInv
  <1>18. MemInv'
    BY <1>1, <1>3, <1>5, <1>14, <1>15, <1>16, <1>17 DEF MemInv
  <1> QED
    BY <1>3, <1>12, <1>13, <1>18 DEF e

LEMMA GivenKeeps ==
  ASSUME MemInv, NEW s \in Subs, Given(s)
  PROVE  /\ MemInv' /\ made' = made
         /\ Owned(Main)' = Owned(Main) \cup Owned(s) /\ Owned(s)' = {}
         /\ \A b \in Caches : b # s /\ b # Main => Owned(b)' = Owned(b)
  <1>1. s \in Caches /\ Main \in Caches /\ Main \notin Subs /\ Caches = {Main} \cup Subs /\ s # Main
    BY CacheNumbers
  <1>2. made' = made /\ mem' = [mem EXCEPT ![Main] = @ \cup mem[s], ![s] = {}]
        /\ Borrowed = EntriesOf(table[s]) /\ Borrowed' = {} /\ EntriesOf(table'[s]) = {}
        /\ \A b \in Caches : b # s => EntriesOf(table'[b]) = EntriesOf(table[b])
    BY DEF Given
  <1>3. made \in Nat /\ mem \in [Caches -> SUBSET (1 .. made)]
    BY DEF MemInv
  <1>4. mem' \in [Caches -> SUBSET (1 .. made)]
    BY <1>1, <1>2, <1>3
  <1>5. mem'[Main] = mem[Main] \cup mem[s] /\ mem'[s] = {} /\ \A b \in Caches : b # s /\ b # Main => mem'[b] = mem[b]
    BY <1>1, <1>2, <1>3
  <1>6. EntriesOf(table[Main]) = Owned(Main) \cup Owned(s) /\ EntriesOf(table[s]) = Owned(s)
    BY <1>2 DEF MemInv
  <1>7. AllEntries' = AllEntries
    <2>1. ASSUME NEW f PROVE f \in AllEntries' <=> f \in AllEntries
      <3>1. f \in AllEntries' <=> \E b \in Caches : b # s /\ f \in EntriesOf(table[b])
        BY <1>2, BelongingNext
      <3>2. f \in EntriesOf(table[s]) => f \in EntriesOf(table[Main])
        BY <1>6
      <3> QED
        BY <1>1, <3>1, <3>2, Belonging
    <2> QED
      BY <2>1
  <1>8. Owned(Main)' = Owned(Main) \cup Owned(s)
    BY <1>1, <1>5, <1>7, Belonging, BelongingNext
  <1>9. Owned(s)' = {}
    BY <1>1, <1>5, BelongingNext
  <1>10. \A b \in Caches : b # s /\ b # Main => Owned(b)' = Owned(b)
    BY <1>5, <1>7, Belonging, BelongingNext
  <1>11. \A b, d \in Caches : b # d => mem'[b] \cap mem'[d] = {}
    BY <1>1, <1>5 DEF MemInv
  <1>12. \A b \in Caches : {f.id : f \in Owned(b)'} = mem'[b]
    <2>1. {f.id : f \in Owned(Main) \cup Owned(s)} = {f.id : f \in Owned(Main)} \cup {f.id : f \in Owned(s)}
      OBVIOUS
    <2>2. \A b \in Caches : {f.id : f \in Owned(b)} = mem[b]
      BY DEF MemInv
    <2>3. {f.id : f \in Owned(Main)'} = mem'[Main]
      BY <1>1, <1>5, <1>8, <2>1, <2>2
    <2>4. {f.id : f \in Owned(s)'} = mem'[s]
      BY <1>5, <1>9
    <2> QED
      BY <1>5, <1>10, <2>2, <2>3, <2>4
  <1>13. \A b \in Subs : EntriesOf(table'[b]) = Owned(b)'
    BY <1>1, <1>2, <1>9, <1>10 DEF MemInv
  <1>14. EntriesOf(table'[Main]) = Owned(Main)' \cup Borrowed'
    BY <1>1, <1>2, <1>6, <1>8
  <1>15. MemInv'
    BY <1>2, <1>3, <1>4, <1>7, <1>11, <1>12, <1>13, <1>14 DEF MemInv
  <1> QED
    BY <1>2, <1>8, <1>9, <1>10, <1>15

LEMMA MemInit == Init => MemInv
  <1> SUFFICES ASSUME Init PROVE MemInv
    OBVIOUS
  <1>1. \A c \in Caches : EntriesOf(table[c]) = {} /\ mem[c] = {}
    BY EmptyFunction DEF Init
  <1>2. AllEntries = {} /\ \A c \in Caches : Owned(c) = {}
    BY <1>1, Belonging
  <1>3. Borrowed = {}
    BY CacheNumbers, NothingBorrowed DEF Init, Free
  <1>4. made \in Nat /\ mem \in [Caches -> SUBSET (1 .. made)]
    BY DEF Init
  <1> QED
    BY <1>1, <1>2, <1>3, <1>4, CacheNumbers DEF MemInv

CacheInv == LookInv /\ MemInv

LEMMA CacheInit == Init => CacheInv
  BY LookInit, MemInit DEF CacheInv

LEMMA CacheStep == CacheInv /\ [Next]_cacheVars => CacheInv'
  <1> SUFFICES ASSUME CacheInv, [Next]_cacheVars PROVE CacheInv'
    OBVIOUS
  <1>1. LookInv /\ MemInv /\ made \in Nat
    BY DEF CacheInv, MemInv
  <1>2. LookInv' /\ MemEffect
    BY <1>1, LookStep, StepEffect
  <1>3. MemInv'
    BY <1>1, <1>2, QuietKeeps, LentKeeps, MadeKeeps, GivenKeeps DEF MemEffect
  <1> QED
    BY <1>2, <1>3 DEF CacheInv

(***************************************************************************)
(* The entries of a cache that is neither written to nor merged are those  *)
(* whose keys and values lie in its own chunks, and no memory is owned     *)
(* twice (function_cache.cc:97-132 and 184-217): a cache that is cleared   *)
(* or dropped leaves no entry of another one without its memory, and loses *)
(* none.                                                                   *)
(***************************************************************************)
THEOREM MemoryIsOwned == Spec => []MemoryOwned
  <1>1. CacheInv => MemoryOwned
    <2> SUFFICES ASSUME CacheInv PROVE MemoryOwned
      OBVIOUS
    <2>1. ASSUME NEW c \in Caches, job[c] = Free, ~(c \in Subs /\ job[Main].op = "merge")
          PROVE  {e.id : e \in EntriesOf(table[c])} = mem[c]
      <3>1. EntriesOf(table[c]) = Owned(c)
        <4>1. CASE c = Main
          <5>1. Borrowed = {}
            BY <2>1, <4>1, NothingBorrowed DEF Free
          <5> QED
            BY <4>1, <5>1 DEF CacheInv, MemInv
        <4>2. CASE c # Main
          BY <4>2, CacheNumbers DEF CacheInv, MemInv
        <4> QED
          BY <4>1, <4>2
      <3> QED
        BY <3>1 DEF CacheInv, MemInv
    <2> QED
      BY <2>1 DEF MemoryOwned, CacheInv, MemInv
  <1> QED
    BY <1>1, CacheInit, CacheStep, PTL DEF Spec

-----------------------------------------------------------------------------
(* The caches and the store *)

LEMMA ContentsAre ==
  /\ [c \in Caches |-> {e \in AllEntries : e.id \in mem[c]}] = [c \in Caches |-> Owned(c)]
  /\ [c \in Caches |-> {e \in AllEntries : e.id \in mem[c]}]' = [c \in Caches |-> Owned(c)']
  BY DEF Owned

LEMMA StoreInit == Init => Store!Init
  <1> SUFFICES ASSUME Init PROVE Store!Init
    OBVIOUS
  <1>1. \A c \in Caches : mem[c] = {}
    BY DEF Init
  <1> QED
    BY <1>1 DEF Init, Store!Init

LEMMA StoreStep ==
  CacheInv /\ [Next]_cacheVars => [Store!Next]_(Store!storeVars)
  <1> SUFFICES ASSUME CacheInv, [Next]_cacheVars PROVE [Store!Next]_(Store!storeVars)
    OBVIOUS
  <1> DEFINE now == [c \in Caches |-> {e \in AllEntries : e.id \in mem[c]}]
             next == [c \in Caches |-> Owned(c)']
  <1>1. LookInv /\ MemInv /\ made \in Nat /\ MemEffect
    BY StepEffect DEF CacheInv, MemInv
  <1>2. now = [c \in Caches |-> Owned(c)] /\ now' = next
    BY ContentsAre
  <1>3. CASE Unseen
    <2>1. now' = now
      BY <1>2, <1>3 DEF Unseen
    <2> QED
      BY <1>3, <2>1 DEF Unseen, Store!storeVars
  <1>4. ASSUME NEW c \in Caches, NEW k \in Keys, Made(c, k) PROVE Store!Insert(c, k)
    <2>1. made' = made + 1 /\ Owned(c)' = Owned(c) \cup {[key |-> k, id |-> made']}
          /\ \A b \in Caches : b # c => Owned(b)' = Owned(b)
      BY <1>1, <1>4, MadeKeeps
    <2>2. now' = [now EXCEPT ![c] = @ \cup {[key |-> k, id |-> made']}]
      BY <1>2, <2>1
    <2> QED
      BY <2>1, <2>2 DEF Store!Insert
  <1>5. ASSUME NEW s \in Subs, Given(s) PROVE Store!Absorb(s)
    <2>1. made' = made /\ Owned(Main)' = Owned(Main) \cup Owned(s) /\ Owned(s)' = {}
          /\ \A b \in Caches : b # s /\ b # Main => Owned(b)' = Owned(b)
      BY <1>1, <1>5, GivenKeeps
    <2>2. s # Main /\ s \in Caches /\ Main \in Caches
      BY CacheNumbers
    <2>3. now' = [now EXCEPT ![Main] = @ \cup now[s], ![s] = {}]
      BY <1>2, <2>1, <2>2
    <2> QED
      BY <2>1, <2>2, <2>3 DEF Store!Absorb
  <1> QED
    BY <1>1, <1>3, <1>4, <1>5, QuietKeeps, LentKeeps, CacheNumbers DEF MemEffect, Store!Next

(***************************************************************************)
(* The caches of a session implement the store: whatever grows, and        *)
(* whatever a merge copies slot by slot (function_cache.cc:153-217), an    *)
(* entry appears in one cache when it is made, and moves to the main one   *)
(* with all those of its cache, in one step.                               *)
(***************************************************************************)
THEOREM CachesAreAStore == Spec => ImplementsStore
  <1>1. CacheInv /\ [Next]_cacheVars => CacheInv' /\ [Store!Next]_(Store!storeVars)
    BY CacheStep, StoreStep
  <1> QED
    BY <1>1, CacheInit, StoreInit, PTL DEF Spec, ImplementsStore, Store!Spec
=============================================================================

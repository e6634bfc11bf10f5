---------------------------- MODULE FunctionCache ----------------------------
(***************************************************************************)
(* The caches of evaluations (src/include/fflow/function_cache.hh,         *)
(* src/function_cache.cc): hash tables with open addressing and linear     *)
(* probing, whose keys and values lie in chunks of memory that the cache   *)
(* owns.  Each worker fills a cache of its own, and the caches of the      *)
(* workers are merged into the main one when they are done.                *)
(*                                                                         *)
(* An entry is its key and the number of its creation, which stands for    *)
(* the memory of its key and value.  A loop over the slots of a table is   *)
(* one step per slot.                                                      *)
(***************************************************************************)
EXTENDS Naturals, FiniteSets

CONSTANTS Keys,
          Hash,       \* of each key: its hash value
          NSubs,      \* number of worker caches
          Caps,       \* the capacities: powers of two
          DefaultCap, \* the capacity of a table nobody reserved
          MaxEntries, \* bound on the entries made
          MaxReserve  \* bound on the argument of reserve_more

ASSUME CacheAssumption ==
  /\ Hash \in [Keys -> Nat] /\ NSubs \in Nat
  /\ Caps \subseteq Nat \ {0, 1} /\ DefaultCap \in Caps
  /\ MaxEntries \in Nat /\ MaxReserve \in Nat

Main == 0
Subs == 1 .. NSubs
Caches == 0 .. NSubs

NoEntry == [key |-> "none", id |-> 0]
Free == [op |-> "none"]

VARIABLES
  table, \* data_ of each cache: a function on the slots, <<>> before the first use
  size,  \* size_ of each cache
  mem,   \* the entries whose memory is in the chunks of each cache
  job,   \* the operation in progress on each cache
  made   \* entries made so far

cacheVars == <<table, size, mem, job, made>>

-----------------------------------------------------------------------------
(* Tables *)

\* get_cap_.  Of a table that is not there it is 1 << EMPTY_, which the
\* machine reduces to 1 << 63, and its use as an unsigned makes 0 of it.
Cap(d) == Cardinality(DOMAIN d)
NewTable(cap) == [p \in 0 .. cap - 1 |-> NoEntry]
EntriesOf(d) == {d[p] : p \in DOMAIN d} \ {NoEntry}

\* The i-th slot that is looked at for key k
Slot(d, k, i) == LET first == Hash[k] % Cap(d) IN
                 IF first + i < Cap(d) THEN first + i ELSE first + i - Cap(d)

\* Entry e goes to the first empty slot
Put(d, e) ==
  LET i == CHOOSE i \in 0 .. Cap(d) - 1 :
             /\ d[Slot(d, e.key, i)] = NoEntry
             /\ \A j \in 0 .. i - 1 : d[Slot(d, e.key, j)] # NoEntry
  IN [d EXCEPT ![Slot(d, e.key, i)] = e]

\* Mutant of InPos: equal hash values are taken for equal keys
InPosByHash(e, k) == e # NoEntry /\ Hash[e.key] = Hash[k]

\* is_in_pos_
InPos(e, k) == e # NoEntry /\ Hash[e.key] = Hash[k] /\ e.key = k

\* find: the entry, or NoEntry
Find(d, k) ==
  IF d = <<>> THEN NoEntry
  ELSE d[Slot(d, k, CHOOSE i \in 0 .. Cap(d) - 1 :
                      LET e == d[Slot(d, k, i)] IN
                      /\ e = NoEntry \/ InPos(e, k)
                      /\ \A j \in 0 .. i - 1 :
                           LET f == d[Slot(d, k, j)] IN f # NoEntry /\ ~InPos(f, k))]

\* next_pow_of_2(2 * (n + 1)), which has to be a capacity
IsCapFor(cap, n) == /\ cap \in Caps /\ cap >= 2 * (n + 1)
                    /\ \A d \in Caps : d >= 2 * (n + 1) => cap <= d

-----------------------------------------------------------------------------
(* Operations *)

\* The main cache is written to while no worker runs
MayUse(c) == /\ job[Main] = Free /\ job[c] = Free
             /\ c = Main => \A s \in Subs : job[s] = Free

\* The bound counts the entries that wait for a rehash.
MayMake ==
  made + Cardinality({c \in Caches : job[c].op = "rehash" /\ job[c].then.op = "put"})
    < MaxEntries

Init ==
  /\ table = [c \in Caches |-> <<>>] /\ size = [c \in Caches |-> 0]
  /\ mem = [c \in Caches |-> {}] /\ job = [c \in Caches |-> Free] /\ made = 0

\* rehash_ begins, and is followed by the operation "then"
Rehash(c, cap, then) ==
  job' = [job EXCEPT ![c] = [op |-> "rehash", i |-> 0, new |-> NewTable(cap),
                             then |-> then]]

PutEntry(c, d, k) ==
  /\ made' = made + 1
  /\ table' = [table EXCEPT ![c] = Put(d, [key |-> k, id |-> made'])]
  /\ size' = [size EXCEPT ![c] = @ + 1]
  /\ mem' = [mem EXCEPT ![c] = @ \cup {made'}]

\* Mutant of NewEntry: the new entry is not counted
NewEntryLate(c, k) ==
  /\ MayUse(c) /\ MayMake
  /\ LET d == IF table[c] = <<>> THEN NewTable(DefaultCap) ELSE table[c] IN
     IF 2 * size[c] > Cap(d)
     THEN /\ Rehash(c, 2 * Cap(d), [op |-> "put", key |-> k])
          /\ table' = [table EXCEPT ![c] = d]
          /\ UNCHANGED <<size, mem, made>>
     ELSE PutEntry(c, d, k) /\ UNCHANGED job

\* new_entry
NewEntry(c, k) ==
  /\ MayUse(c) /\ MayMake
  /\ LET d == IF table[c] = <<>> THEN NewTable(DefaultCap) ELSE table[c] IN
     IF 2 * (size[c] + 1) > Cap(d)
     THEN /\ Rehash(c, 2 * Cap(d), [op |-> "put", key |-> k])
          /\ table' = [table EXCEPT ![c] = d]
          /\ UNCHANGED <<size, mem, made>>
     ELSE PutEntry(c, d, k) /\ UNCHANGED job

\* reserve_more, followed by the operation "then"
ReserveMore(c, n, then) ==
  LET newsize == size[c] + n IN
  IF table[c] # <<>> /\ 2 * newsize <= Cap(table[c])
  THEN job' = [job EXCEPT ![c] = then] /\ UNCHANGED table
  ELSE \E cap \in Caps :
         /\ IsCapFor(cap, newsize)
         /\ IF table[c] = <<>>
            THEN /\ table' = [table EXCEPT ![c] = NewTable(cap)]
                 /\ job' = [job EXCEPT ![c] = then]
            ELSE Rehash(c, cap, then) /\ UNCHANGED table

Reserve(c, n) ==
  /\ MayUse(c) /\ ReserveMore(c, n, Free)
  /\ UNCHANGED <<size, mem, made>>

\* Mutant of RehashStep: the loop starts behind the first slot
RehashStepLate(c) ==
  /\ job[c].op = "rehash" /\ job[c].i < Cap(table[c])
  /\ LET e == table[c][job[c].i] IN
     job' = [job EXCEPT ![c].i = @ + 1,
               ![c].new = IF e = NoEntry \/ job[c].i = 0 THEN @ ELSE Put(@, e)]
  /\ UNCHANGED <<table, size, mem, made>>

\* One slot of the old table.  An empty one leaves the new table as it is.
RehashStep(c) ==
  /\ job[c].op = "rehash" /\ job[c].i < Cap(table[c])
  /\ LET e == table[c][job[c].i] IN
     job' = [job EXCEPT ![c].i = @ + 1,
               ![c].new = IF e = NoEntry THEN @ ELSE Put(@, e)]
  /\ UNCHANGED <<table, size, mem, made>>

\* The tables are swapped, and what asked for the larger one goes on
RehashEnd(c) ==
  /\ job[c].op = "rehash" /\ job[c].i = Cap(table[c])
  /\ IF job[c].then.op = "put"
     THEN PutEntry(c, job[c].new, job[c].then.key) /\ job' = [job EXCEPT ![c] = Free]
     ELSE /\ table' = [table EXCEPT ![c] = job[c].new]
          /\ job' = [job EXCEPT ![c] = job[c].then]
          /\ UNCHANGED <<size, mem, made>>

\* additional_size: the sum of the sizes of the caches in S
TotalSize(S) == Cardinality(UNION {{s} \X (1 .. size[s]) : s \in S})

\* merge_caches, of the caches that the contexts in S have
Merge(S) ==
  /\ MayUse(Main)
  /\ ReserveMore(Main, TotalSize(S),
                 IF S = {} THEN Free ELSE [op |-> "merge", from |-> S, i |-> 0])
  /\ UNCHANGED <<size, mem, made>>

\* The cache that is being merged
From == CHOOSE s \in job[Main].from : \A r \in job[Main].from : s <= r

\* One slot of it
MergeStep ==
  /\ job[Main].op = "merge" /\ job[Main].i < Cap(table[From])
  /\ LET e == table[From][job[Main].i] IN
     IF e = NoEntry THEN UNCHANGED <<table, size>>
     ELSE /\ table' = [table EXCEPT ![Main] = Put(@, e)]
          /\ size' = [size EXCEPT ![Main] = @ + 1]
  /\ job' = [job EXCEPT ![Main].i = @ + 1]
  /\ UNCHANGED <<mem, made>>

\* Mutant of MergeEnd: the cache is cleared with its chunks
MergeEndClearFirst ==
  /\ job[Main].op = "merge" /\ job[Main].i = Cap(table[From])
  /\ mem' = [mem EXCEPT ![From] = {}]
  /\ table' = [table EXCEPT ![From] = <<>>]
  /\ size' = [size EXCEPT ![From] = 0]
  /\ job' = [job EXCEPT ![Main] =
               IF @.from = {From} THEN Free
               ELSE [op |-> "merge", from |-> @.from \ {From}, i |-> 0]]
  /\ UNCHANGED made

\* Its chunks are moved and it is cleared
MergeEnd ==
  /\ job[Main].op = "merge" /\ job[Main].i = Cap(table[From])
  /\ mem' = [mem EXCEPT ![Main] = @ \cup mem[From], ![From] = {}]
  /\ table' = [table EXCEPT ![From] = <<>>]
  /\ size' = [size EXCEPT ![From] = 0]
  /\ job' = [job EXCEPT ![Main] =
               IF @.from = {From} THEN Free
               ELSE [op |-> "merge", from |-> @.from \ {From}, i |-> 0]]
  /\ UNCHANGED made

Next ==
  \/ \E c \in Caches, k \in Keys : NewEntry(c, k)
  \/ \E c \in Caches, n \in 0 .. MaxReserve : Reserve(c, n)
  \/ \E c \in Caches : RehashStep(c) \/ RehashEnd(c)
  \/ \E S \in SUBSET Subs : Merge(S)
  \/ MergeStep \/ MergeEnd

Spec == Init /\ [][Next]_cacheVars

-----------------------------------------------------------------------------
(* Properties *)

\* A table, also one that is being filled by a rehash or a merge, has an empty
\* slot: the loops of find, new_entry, rehash_ and merge_caches end.
ProbeEnds ==
  \A c \in Caches :
    /\ table[c] # <<>> => \E p \in DOMAIN table[c] : table[c][p] = NoEntry
    /\ job[c].op = "rehash" => \E p \in DOMAIN job[c].new : job[c].new[p] = NoEntry

\* Whenever a cache may be read, find returns an entry of the key if there is
\* one, and nothing else: whatever grew, moved or wrapped around before.
FoundIfThere ==
  \A c \in Caches, k \in Keys : job[c] = Free =>
    LET there == {e \in EntriesOf(table[c]) : e.key = k} IN
    Find(table[c], k) \in (IF there = {} THEN {NoEntry} ELSE there)

\* Every lookup and insertion ends, and every lookup answers right
\* (function_cache.cc:57-94 and 134-217).
LookupsAnswer == ProbeEnds /\ FoundIfThere

\* The keys and values that a cache at rest points to lie in its own chunks,
\* and the chunks of one cache hold nothing of another one, so that a cache
\* that is dropped takes nothing along.
MemoryOwned ==
  /\ \A c \in Caches :
       job[c] = Free /\ ~(c \in Subs /\ job[Main].op = "merge")
         => {e.id : e \in EntriesOf(table[c])} = mem[c]
  /\ \A c, d \in Caches : c # d => mem[c] \cap mem[d] = {}

\* Together the caches implement the store: an entry belongs to the cache that
\* has its memory.
AllEntries == UNION {EntriesOf(table[c]) : c \in Caches}
Store == INSTANCE KeyedStore WITH
           contents <- [c \in Caches |-> {e \in AllEntries : e.id \in mem[c]}]
ImplementsStore == Store!Spec
=============================================================================

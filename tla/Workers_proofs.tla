--------------------------- MODULE Workers_proofs ---------------------------
(* Proofs about the worker pool (ThreadPool): tasks are neither lost nor run   *)
(* twice, no wake-up is lost, a call returns into a quiet pool, and the pool   *)
(* implements TaskBatches, for every number of workers and of tasks.  And      *)
(* about the node that keeps a copy of its data for each worker (SolverNode):  *)
(* what it learns, and what the copies know of it.                             *)
EXTENDS ThreadPool, SolverNode, FiniteSetTheorems, TLAPS

\* The queue holds the tasks pushed last, in the order of their pushes
Fifo == /\ Len(queue) <= pushed
        /\ \A i \in 1 .. Len(queue) : queue[i] = pushed - Len(queue) + i

Taken == pushed - Len(queue)

InHands(t) == \E w \in Workers : worker[w] = "running" /\ holds[w] = t

Futures ==
  \A t \in Tasks :
    /\ future[t] = "none" <=> t > pushed
    /\ future[t] = "pending" <=> ((t > Taken /\ t <= pushed) \/ InHands(t))

Hands ==
  /\ \A w \in Workers : worker[w] = "running" =>
                           holds[w] \in Tasks /\ holds[w] <= Taken
  /\ \A v, w \in Workers :
       worker[v] = "running" /\ worker[w] = "running" /\ holds[v] = holds[w]
         => v = w

Calls ==
  /\ \A t \in Tasks : t <= got => future[t] = "ready"
  /\ main = "enqueue" => pushed < last
  /\ main = "join" => pushed = last
  /\ main \in {"enqueue", "notify", "join"} => got < last
  /\ main \notin {"enqueue", "notify", "join"} => got = last

PoolInv == TypeOK /\ Fifo /\ Futures /\ Hands /\ Calls

\* The invariant says what the properties say
LEMMA PoolInvQuiet == PoolInv => IdleMeansQuiet
<1> SUFFICES ASSUME PoolInv,
                    main \in {"idle", "notifyall", "joinworkers", "ended"}
             PROVE  /\ queue = <<>>
                    /\ \A w \in Workers : worker[w] # "running"
                    /\ \A t \in Tasks : t <= last => future[t] = "ready"
  BY DEF IdleMeansQuiet
<1>1. got = last /\ pushed = last /\ last \in Nat /\ MaxTasks \in Nat
  BY PoolAssumption DEF PoolInv, TypeOK, Calls
<1>2. \A t \in Tasks : t <= last => future[t] = "ready"
  BY <1>1 DEF PoolInv, Calls
<1>3. \A w \in Workers : worker[w] # "running"
  BY <1>1, <1>2 DEF PoolInv, Hands, Futures, InHands, Taken, TypeOK, Tasks
<1>4. Len(queue) = 0
  <2> SUFFICES ASSUME Len(queue) # 0 PROVE FALSE
    OBVIOUS
  <2>1. Len(queue) \in Nat \ {0} /\ queue[Len(queue)] = last
    BY <1>1 DEF PoolInv, Fifo, TypeOK
  <2>2. last \in Tasks
    BY <1>1, <2>1 DEF PoolInv, TypeOK, Tasks
  <2> QED
    BY <1>1, <1>2, <2>1, <2>2 DEF PoolInv, Futures, Taken
<1> QED
  BY <1>2, <1>3, <1>4 DEF PoolInv, TypeOK

LEMMA PoolInvExactlyOnce == PoolInv => ExactlyOnce
<1> SUFFICES ASSUME PoolInv PROVE ExactlyOnce
  OBVIOUS
<1>1. /\ Len(queue) \in Nat /\ DOMAIN queue = 1 .. Len(queue)
      /\ pushed \in Nat /\ last \in Nat /\ MaxTasks \in Nat /\ last <= MaxTasks
      /\ pushed <= last
  BY PoolAssumption DEF PoolInv, TypeOK
<1>2. \A i, j \in DOMAIN queue : i < j => queue[i] < queue[j]
  BY <1>1 DEF PoolInv, Fifo
<1>3. ASSUME NEW t \in Tasks
      PROVE  t \in Queued <=> (t > Taken /\ t <= pushed)
  <2>1. ASSUME t \in Queued PROVE t > Taken /\ t <= pushed
    BY <2>1, <1>1 DEF Queued, PoolInv, Fifo, Taken
  <2>2. ASSUME t > Taken, t <= pushed PROVE t \in Queued
    <3>1. t - Taken \in DOMAIN queue /\ queue[t - Taken] = t
      BY <2>2, <1>1 DEF Taken, Tasks, PoolInv, Fifo
    <3> QED
      BY <3>1 DEF Queued
  <2> QED
    BY <2>1, <2>2
<1>4. ASSUME NEW t \in Tasks
      PROVE  /\ future[t] # "none" <=> t <= pushed
             /\ future[t] = "pending" <=> (t \in Queued \/ Holder(t) # {})
             /\ t \in Queued => Holder(t) = {}
             /\ \A v, w \in Holder(t) : v = w
  <2>1. InHands(t) <=> Holder(t) # {}
    BY DEF InHands, Holder
  <2>2. Holder(t) # {} => t <= Taken
    BY DEF Holder, PoolInv, Hands
  <2>3. Taken \in Int /\ t \in Int
    BY <1>1 DEF Taken, Tasks
  <2>4. future[t] # "none" <=> t <= pushed
    BY <1>1, <2>3 DEF PoolInv, Futures
  <2>5. future[t] = "pending" <=> (t \in Queued \/ Holder(t) # {})
    BY <1>3, <2>1 DEF PoolInv, Futures
  <2>6. t \in Queued => Holder(t) = {}
    BY <1>3, <2>2, <2>3
  <2>7. \A v, w \in Holder(t) : v = w
    BY DEF Holder, PoolInv, Hands
  <2> QED
    BY <2>4, <2>5, <2>6, <2>7
<1> QED
  BY <1>2, <1>4 DEF ExactlyOnce

LEMMA PoolInit == Init => PoolInv
<1> SUFFICES ASSUME Init PROVE PoolInv
  OBVIOUS
<1>1. TypeOK
  <2>1. worker \in [Workers -> {"none", "check", "waiting", "running", "exited"}]
    BY DEF Init
  <2>2. /\ holds \in [Workers -> Tasks \cup {None}]
        /\ future \in [Tasks -> {"none", "pending", "ready"}]
    BY DEF Init
  <2>3. queue \in Seq(Tasks)
    BY DEF Init
  <2>5. stop \in BOOLEAN
    BY DEF Init
  <2>4. last \in 0 .. MaxTasks /\ pushed \in 0 .. last /\ got \in 0 .. pushed
    BY PoolAssumption DEF Init
  <2> QED
    BY <2>1, <2>2, <2>3, <2>4, <2>5 DEF Init, TypeOK
<1>2. Fifo
  BY DEF Init, Fifo
<1>5. Hands
  BY DEF Init, Hands
<1>3. Calls
  BY PoolAssumption DEF Init, Calls, Tasks
<1>4. Futures
  BY PoolAssumption DEF Init, Futures, InHands, Taken, Tasks
<1> QED
  BY <1>1, <1>2, <1>3, <1>4, <1>5 DEF PoolInv

\* What the invariant's numbers are
LEMMA Numbers ==
  TypeOK => /\ MaxTasks \in Nat /\ MaxWorkers \in Nat
            /\ last \in Nat /\ last <= MaxTasks
            /\ pushed \in Nat /\ pushed <= last
            /\ got \in Nat /\ got <= pushed
            /\ Len(queue) \in Nat
BY PoolAssumption DEF TypeOK

\* Steps that neither touch the tasks nor move a worker in or out of "running"
LEMMA TasksUntouched ==
  ASSUME PoolInv, UNCHANGED <<holds, queue, future, pushed>>,
         \A w \in Workers : worker'[w] = "running" <=> worker[w] = "running"
  PROVE  Fifo' /\ Futures' /\ Hands'
<1>1. \A t : InHands(t)' <=> InHands(t)
  BY DEF InHands
<1>2. Taken' = Taken
  BY DEF Taken
<1>3. Futures'
  BY <1>1, <1>2 DEF PoolInv, Futures
<1>4. Fifo' /\ Hands'
  BY <1>2 DEF PoolInv, Fifo, Hands
<1> QED
  BY <1>3, <1>4

LEMMA CallerKeeps ==
  ASSUME PoolInv,
         \/ \E n \in Workers : AllocThreads(n)
         \/ NotifyOne \/ JoinOne \/ Stop \/ NotifyAll \/ JoinWorkers
  PROVE  PoolInv'
<1> USE Numbers DEF PoolInv
<1>1. ASSUME NEW n \in Workers, AllocThreads(n) PROVE PoolInv'
  <2>1. n \in Nat /\ n > 0
    BY DEF Workers
  <2>2. TypeOK' /\ Calls'
    BY <1>1, <2>1 DEF AllocThreads, TypeOK, Calls
  <2>3. Fifo' /\ Futures' /\ Hands'
    BY <1>1, TasksUntouched DEF AllocThreads
  <2> QED
    BY <2>2, <2>3
<1>2. CASE NotifyOne
  <2>1. TypeOK'
    BY <1>2 DEF NotifyOne, TypeOK
  <2>2. Calls'
    BY <1>2 DEF NotifyOne, TypeOK, Calls
  <2>3. Fifo' /\ Futures' /\ Hands'
    BY <1>2, TasksUntouched DEF NotifyOne, TypeOK
  <2> QED
    BY <2>1, <2>2, <2>3
<1>3. CASE JoinOne
  <2>1. got < last /\ pushed = last
    BY <1>3 DEF JoinOne, Calls
  <2>2. TypeOK' /\ Calls'
    BY <1>3, <2>1 DEF JoinOne, TypeOK, Calls, Tasks
  <2>3. Fifo' /\ Futures' /\ Hands'
    BY <1>3, TasksUntouched DEF JoinOne
  <2> QED
    BY <2>2, <2>3
<1>4. CASE Stop \/ JoinWorkers
  <2>1. TypeOK' /\ Calls'
    BY <1>4 DEF Stop, JoinWorkers, TypeOK, Calls
  <2>2. Fifo' /\ Futures' /\ Hands'
    BY <1>4, TasksUntouched DEF Stop, JoinWorkers
  <2> QED
    BY <2>1, <2>2
<1>5. CASE NotifyAll
  <2>1. TypeOK' /\ Calls'
    BY <1>5 DEF NotifyAll, WakeAll, TypeOK, Calls
  <2>2. Fifo' /\ Futures' /\ Hands'
    BY <1>5, TasksUntouched DEF NotifyAll, WakeAll
  <2> QED
    BY <2>1, <2>2
<1> QED
  BY <1>1, <1>2, <1>3, <1>4, <1>5

LEMMA EnqueueKeeps == PoolInv /\ Enqueue => PoolInv'
<1> SUFFICES ASSUME PoolInv, Enqueue PROVE PoolInv'
  OBVIOUS
<1> USE Numbers DEF PoolInv
<1>1. pushed < last /\ pushed' = pushed + 1 /\ pushed' \in Tasks
  BY DEF Enqueue, Calls, Tasks
<1>2. /\ queue' = Append(queue, pushed') /\ queue' \in Seq(Tasks)
      /\ Len(queue') = Len(queue) + 1
      /\ \A i \in 1 .. Len(queue') :
           queue'[i] = IF i <= Len(queue) THEN queue[i] ELSE pushed'
  BY <1>1 DEF Enqueue, TypeOK
<1>3. future' = [future EXCEPT ![pushed'] = "pending"]
  BY DEF Enqueue
<1>4. TypeOK'
  BY <1>1, <1>2, <1>3 DEF Enqueue, TypeOK
<1>5. Fifo'
  BY <1>1, <1>2 DEF Fifo
<1>6. Taken' = Taken /\ \A t : InHands(t)' <=> InHands(t)
  BY <1>1, <1>2 DEF Enqueue, Taken, InHands
<1>7. Futures'
  <2> SUFFICES ASSUME NEW t \in Tasks
               PROVE  /\ future'[t] = "none" <=> t > pushed'
                      /\ future'[t] = "pending" <=>
                           ((t > Taken /\ t <= pushed') \/ InHands(t))
    BY <1>6 DEF Futures
  <2>1. t \in Nat /\ Taken \in Int /\ Taken <= pushed
    BY DEF Tasks, Taken
  <2>2. CASE t = pushed'
    BY <1>1, <1>3, <2>1, <2>2 DEF TypeOK
  <2>3. CASE t # pushed'
    BY <1>1, <1>3, <2>1, <2>3 DEF TypeOK, Futures
  <2> QED
    BY <2>2, <2>3
<1>8. Hands'
  BY <1>6 DEF Enqueue, Hands
<1>9. Calls'
  <2>1. \A t \in Tasks : t <= got => future'[t] = future[t]
    BY <1>1, <1>3 DEF TypeOK, Tasks
  <2> QED
    BY <1>1, <2>1 DEF Enqueue, Calls
<1> QED
  BY <1>4, <1>5, <1>7, <1>8, <1>9

LEMMA TakeKeeps ==
  ASSUME PoolInv, NEW w \in Workers, Take(w) PROVE PoolInv'
<1> USE Numbers DEF PoolInv
<1>1. /\ Len(queue) > 0 /\ Head(queue) = queue[1] /\ queue[1] \in Tasks
      /\ Len(queue') = Len(queue) - 1 /\ queue' \in Seq(Tasks)
      /\ \A i \in 1 .. Len(queue') : queue'[i] = queue[i + 1]
  BY DEF Take, TypeOK
<1>2. Head(queue) = Taken + 1 /\ Taken' = Taken + 1 /\ Taken \in Nat
  BY <1>1 DEF Fifo, Taken, Take
<1>3. worker[w] # "running" /\ worker'[w] = "running" /\ holds'[w] = Taken + 1
  BY <1>2 DEF Take, TypeOK
<1>4. \A v \in Workers : v # w => worker'[v] = worker[v] /\ holds'[v] = holds[v]
  BY DEF Take, TypeOK
<1>5. TypeOK'
  BY <1>1 DEF Take, TypeOK
<1>6. Fifo'
  BY <1>1 DEF Fifo, Take
<1>7. \A t : InHands(t)' <=> (InHands(t) \/ t = Taken + 1)
  BY <1>3, <1>4 DEF InHands
<1>8. Futures'
  <2> SUFFICES ASSUME NEW t \in Tasks
               PROVE  /\ future[t] = "none" <=> t > pushed
                      /\ future[t] = "pending" <=>
                           ((t > Taken + 1 /\ t <= pushed) \/ InHands(t)')
    BY <1>2 DEF Futures, Take
  <2>1. t \in Nat /\ Taken + 1 <= pushed
    BY <1>1 DEF Tasks, Taken
  <2> QED
    BY <1>2, <1>7, <2>1 DEF Futures
<1>9. Hands'
  <2>1. ASSUME NEW v \in Workers, worker'[v] = "running"
        PROVE  /\ holds'[v] \in Tasks /\ holds'[v] <= Taken'
               /\ v # w => holds'[v] <= Taken
    BY <1>1, <1>2, <1>3, <1>4, <2>1 DEF Hands, Tasks
  <2>2. ASSUME NEW u \in Workers, NEW v \in Workers,
               worker'[u] = "running", worker'[v] = "running",
               holds'[u] = holds'[v]
        PROVE  u = v
    BY <1>2, <1>3, <1>4, <2>1, <2>2 DEF Hands
  <2> QED
    BY <2>1, <2>2 DEF Hands
<1>10. Calls'
  BY DEF Take, Calls
<1> QED
  BY <1>5, <1>6, <1>8, <1>9, <1>10

LEMMA RunKeeps ==
  ASSUME PoolInv, NEW w \in Workers, Run(w) PROVE PoolInv'
<1> USE Numbers DEF PoolInv
<1>1. /\ worker[w] = "running" /\ holds[w] \in Tasks /\ holds[w] <= Taken
      /\ worker'[w] = "check"
  BY DEF Run, Hands, TypeOK
<1>2. \A v \in Workers : v # w => worker'[v] = worker[v] /\ holds'[v] = holds[v]
  BY DEF Run, TypeOK
<1>3. \A t \in Tasks : future'[t] = IF t = holds[w] THEN "ready" ELSE future[t]
  BY DEF Run, TypeOK
<1>4. TypeOK'
  BY <1>1 DEF Run, TypeOK, None
<1>5. Fifo' /\ Taken' = Taken /\ Taken \in Int /\ Taken <= pushed
  BY DEF Run, Fifo, Taken
<1>6. \A t \in Tasks : InHands(t)' <=> (InHands(t) /\ t # holds[w])
  BY <1>1, <1>2 DEF InHands, Hands
<1>7. Futures'
  <2> SUFFICES ASSUME NEW t \in Tasks
               PROVE  /\ future'[t] = "none" <=> t > pushed
                      /\ future'[t] = "pending" <=>
                           ((t > Taken /\ t <= pushed) \/ InHands(t)')
    BY <1>5 DEF Futures, Run
  <2>1. t \in Int /\ holds[w] \in Int
    BY <1>1 DEF Tasks
  <2>2. CASE t = holds[w]
    BY <1>1, <1>3, <1>5, <1>6, <2>1, <2>2
  <2>3. CASE t # holds[w]
    BY <1>3, <1>6, <2>3 DEF Futures
  <2> QED
    BY <2>2, <2>3
<1>8. Hands'
  BY <1>1, <1>2, <1>5 DEF Hands
<1>9. Calls'
  BY <1>3 DEF Run, Calls
<1> QED
  BY <1>4, <1>5, <1>7, <1>8, <1>9

LEMMA WorkerKeeps ==
  ASSUME PoolInv, NEW w \in Workers, Wait(w) \/ Exit(w) \/ SpuriousWake(w)
  PROVE  PoolInv'
<1>1. TypeOK'
  BY DEF PoolInv, Wait, Exit, SpuriousWake, TypeOK
<1>2. Calls'
  BY DEF PoolInv, Wait, Exit, SpuriousWake, Calls
<1>3. Fifo' /\ Futures' /\ Hands'
  BY TasksUntouched DEF PoolInv, Wait, Exit, SpuriousWake, TypeOK
<1> QED
  BY <1>1, <1>2, <1>3 DEF PoolInv

LEMMA PoolNext == PoolInv /\ [Next]_poolVars => PoolInv'
<1> SUFFICES ASSUME PoolInv, [Next]_poolVars PROVE PoolInv'
  OBVIOUS
<1>1. CASE Enqueue
  BY <1>1, EnqueueKeeps
<1>2. CASE (\E n \in Workers : AllocThreads(n))
             \/ NotifyOne \/ JoinOne \/ Stop \/ NotifyAll \/ JoinWorkers
  BY <1>2, CallerKeeps
<1>3. ASSUME NEW w \in Workers, Work(w) \/ SpuriousWake(w) PROVE PoolInv'
  BY <1>3, TakeKeeps, RunKeeps, WorkerKeeps DEF Work
<1>4. CASE UNCHANGED poolVars
  BY <1>4 DEF poolVars, PoolInv, TypeOK, Fifo, Futures, Hands, Calls, InHands,
              Taken
<1> QED
  BY <1>1, <1>2, <1>3, <1>4 DEF Next, Main, Done

\* A task whose result is awaited is queued once or in the hands of one worker,
\* whatever the number of workers and tasks.
THEOREM TasksRunOnce == Spec => []ExactlyOnce
<1>1. Spec => []PoolInv
  BY PoolInit, PoolNext, PTL DEF Spec
<1> QED
  BY <1>1, PoolInvExactlyOnce, PTL

\* A call returns, and the destructor starts, only when the pool is quiet.
THEOREM QuietBetweenCalls == Spec => []IdleMeansQuiet
<1>1. Spec => []PoolInv
  BY PoolInit, PoolNext, PTL DEF Spec
<1> QED
  BY <1>1, PoolInvQuiet, PTL

-----------------------------------------------------------------------------
(* No lost wake-up *)

LEMMA WorkerSets ==
  /\ IsFiniteSet(AtMutex) /\ Cardinality(AtMutex) \in Nat
  /\ \A w \in AtMutex : Cardinality(AtMutex \ {w}) = Cardinality(AtMutex) - 1
  /\ \A w \in Workers \ AtMutex :
       Cardinality(AtMutex \cup {w}) = Cardinality(AtMutex) + 1
<1>1. IsFiniteSet(Workers)
  BY FS_Interval, PoolAssumption DEF Workers
<1>2. IsFiniteSet(AtMutex)
  BY <1>1, FS_Subset DEF AtMutex
<1> QED
  BY <1>2, FS_CardinalityType, FS_AddElement, FS_RemoveElement

LEMMA ParallelismNext ==
  PoolInv /\ ParallelismKept /\ [Next]_poolVars => ParallelismKept'
<1> SUFFICES ASSUME PoolInv, ParallelismKept, [Next]_poolVars,
                    Sleeping' # {}
             PROVE  Len(queue') <= Cardinality(AtMutex')
                                     + (IF main' = "notify" THEN 1 ELSE 0)
  BY DEF ParallelismKept
<1> USE WorkerSets, Numbers DEF PoolInv
<1>0. PoolInv'
  BY PoolNext
<1>1. IsFiniteSet(AtMutex') /\ Cardinality(AtMutex') \in Nat
  <2>1. IsFiniteSet(Workers)
    BY FS_Interval, PoolAssumption DEF Workers
  <2> QED
    BY <2>1, FS_Subset, FS_CardinalityType DEF AtMutex
<1>2. CASE Len(queue') = 0
  BY <1>1, <1>2
<1>3. ASSUME NEW n \in Workers, AllocThreads(n) PROVE Len(queue') = 0
  BY <1>3, PoolInvQuiet DEF AllocThreads, IdleMeansQuiet
<1>4. ASSUME Stop \/ NotifyAll \/ JoinWorkers PROVE Len(queue') = 0
  BY <1>4, PoolInvQuiet DEF Stop, NotifyAll, JoinWorkers, IdleMeansQuiet
<1>5. CASE Enqueue
  <2>1. AtMutex' = AtMutex /\ Sleeping' = Sleeping
    BY <1>5 DEF Enqueue, AtMutex, Sleeping
  <2>2. Len(queue') = Len(queue) + 1 /\ main = "enqueue" /\ main' = "notify"
    BY <1>5 DEF Enqueue, TypeOK, Calls, Tasks
  <2> QED
    BY <2>1, <2>2 DEF ParallelismKept
<1>6. CASE NotifyOne
  <2>1. queue' = queue /\ main = "notify" /\ main' # "notify"
    BY <1>6 DEF NotifyOne
  <2>2. CASE (\A w \in Workers : worker[w] # "waiting") /\ UNCHANGED worker
    BY <2>2 DEF Sleeping
  <2>3. ASSUME NEW w \in Workers, worker[w] = "waiting",
               worker' = [worker EXCEPT ![w] = "check"]
        PROVE  AtMutex' = AtMutex \cup {w} /\ w \notin AtMutex /\ Sleeping # {}
    BY <2>3 DEF AtMutex, Sleeping, TypeOK
  <2> QED
    BY <1>6, <2>1, <2>2, <2>3 DEF NotifyOne, ParallelismKept
<1>7. CASE JoinOne
  BY <1>7 DEF JoinOne, AtMutex, Sleeping, ParallelismKept
<1>8. ASSUME NEW w \in Workers, Work(w) \/ SpuriousWake(w)
      PROVE  Len(queue') <= Cardinality(AtMutex')
                                     + (IF main' = "notify" THEN 1 ELSE 0)
  <2>1. CASE Take(w)
    <3>1. AtMutex' = AtMutex \ {w} /\ w \in AtMutex /\ Sleeping' = Sleeping
      BY <2>1 DEF Take, AtMutex, Sleeping, TypeOK
    <3>2. Len(queue') = Len(queue) - 1 /\ main' = main
      BY <2>1 DEF Take, TypeOK
    <3> QED
      BY <3>1, <3>2 DEF ParallelismKept
  <2>2. CASE Wait(w) \/ Exit(w)
    BY <1>2, <2>2 DEF Wait, Exit
  <2>3. CASE Run(w) \/ SpuriousWake(w)
    <3>1. AtMutex' = AtMutex \cup {w} /\ w \notin AtMutex
          /\ Sleeping' \subseteq Sleeping
      BY <2>3 DEF Run, SpuriousWake, AtMutex, Sleeping, TypeOK
    <3>2. queue' = queue /\ main' = main
      BY <2>3 DEF Run, SpuriousWake
    <3> QED
      BY <3>1, <3>2 DEF ParallelismKept
  <2> QED
    BY <1>8, <2>1, <2>2, <2>3 DEF Work
<1>9. CASE UNCHANGED poolVars
  BY <1>9 DEF poolVars, AtMutex, Sleeping, ParallelismKept
<1> QED
  BY <1>2, <1>3, <1>4, <1>5, <1>6, <1>7, <1>8, <1>9 DEF Next, Main, Done

\* No wake-up is lost and no core idles next to a full queue.
THEOREM NoLostWakeup == Spec => []ParallelismKept
<1>1. Init => ParallelismKept
  BY DEF Init, ParallelismKept, Sleeping
<1>2. Spec => []PoolInv
  BY PoolInit, PoolNext, PTL DEF Spec
<1> QED
  BY <1>1, <1>2, ParallelismNext, PTL DEF Spec

-----------------------------------------------------------------------------
(* The pool implements TaskBatches *)

\* The safety part of the abstract specification
BatchesSafety == Batches!Init /\ [][Batches!Next]_(Batches!batchVars)

TaskState == [t \in Tasks |-> CASE future[t] = "none" -> "none"
                               [] future[t] = "pending" -> "submitted"
                               [] OTHER -> "done"]
CallerState == CASE main = "idle" -> "free"
                 [] main \in {"enqueue", "notify", "join"} -> "busy"
                 [] OTHER -> "gone"

LEMMA BatchesInit == Init => Batches!Init
<1> SUFFICES ASSUME Init PROVE TaskState = [t \in Tasks |-> "none"]
                               /\ CallerState = "free"
  BY DEF Batches!Init, TaskState, CallerState
<1> QED
  BY DEF Init, TaskState, CallerState

LEMMA BatchesNext ==
  PoolInv /\ [Next]_poolVars => [Batches!Next]_(Batches!batchVars)
<1> SUFFICES ASSUME PoolInv, [Next]_poolVars
             PROVE  Batches!Next \/ UNCHANGED <<TaskState, CallerState>>
  BY DEF Batches!batchVars, TaskState, CallerState
<1> USE Numbers DEF PoolInv
<1>1. ASSUME NEW n \in Workers, AllocThreads(n) PROVE Batches!Call
  BY <1>1 DEF AllocThreads, Batches!Call
<1>2. CASE Enqueue
  <2>1. pushed' \in Tasks /\ pushed' > pushed
    BY <1>2 DEF Enqueue, Tasks, Calls
  <2>2. future[pushed'] = "none" /\ future' = [future EXCEPT ![pushed'] = "pending"]
    BY <1>2, <2>1 DEF Enqueue, Futures
  <2>3. PICK t \in Tasks : t = pushed'
    BY <2>1
  <2>4. Batches!Submit(t)
    BY <1>2, <2>2, <2>3 DEF Enqueue, Batches!Submit, TypeOK
  <2> QED
    BY <2>4 DEF Batches!Next
<1>3. CASE NotifyOne
  BY <1>3 DEF NotifyOne, TaskState, CallerState
<1>4. CASE JoinOne
  <2>1. CASE main' = "idle"
    <3>1. PoolInv'
      BY PoolNext
    <3>2. \A t \in Tasks : future[t] # "pending"
      <4>1. got' = last /\ pushed = last /\ future' = future
        BY <1>4, <2>1, <3>1 DEF JoinOne, Calls
      <4>2. \A t \in Tasks : t \in Nat /\ (t <= last => future[t] = "ready")
        BY <3>1, <4>1 DEF Calls, Tasks
      <4> QED
        BY <4>1, <4>2 DEF Futures
    <3>3. Batches!Return
      BY <1>4, <2>1, <3>2 DEF JoinOne, Batches!Return, TypeOK
    <3> QED
      BY <3>3 DEF Batches!Next
  <2>2. CASE main' # "idle"
    BY <1>4, <2>2 DEF JoinOne, TaskState, CallerState
  <2> QED
    BY <2>1, <2>2
<1>5. CASE Stop
  BY <1>5 DEF Stop, Batches!Quit, Batches!Next
<1>6. CASE NotifyAll \/ JoinWorkers
  BY <1>6 DEF NotifyAll, JoinWorkers, TaskState, CallerState
<1>7. ASSUME NEW w \in Workers, Run(w)
      PROVE  \E t \in Tasks : Batches!Complete(t)
  <2>1. holds[w] \in Tasks /\ future[holds[w]] = "pending"
    BY <1>7 DEF Run, Hands, Futures, InHands
  <2>2. PICK t \in Tasks : t = holds[w]
    BY <2>1
  <2>3. Batches!Complete(t)
    BY <1>7, <2>1, <2>2 DEF Run, Batches!Complete, TypeOK
  <2> QED
    BY <2>3
<1>8. ASSUME NEW w \in Workers, Take(w) \/ Wait(w) \/ Exit(w) \/ SpuriousWake(w)
      PROVE  UNCHANGED <<TaskState, CallerState>>
  BY <1>8 DEF Take, Wait, Exit, SpuriousWake, TaskState, CallerState
<1>9. CASE UNCHANGED poolVars
  BY <1>9 DEF poolVars, TaskState, CallerState
<1> QED
  BY <1>1, <1>2, <1>3, <1>4, <1>5, <1>6, <1>7, <1>8, <1>9
  DEF Next, Main, Work, Done, Batches!Next

\* Every step of the pool is a step of TaskBatches or leaves it unchanged.
THEOREM PoolRunsBatches == Spec => BatchesSafety
<1>1. Spec => []PoolInv
  BY PoolInit, PoolNext, PTL DEF Spec
<1> QED
  BY <1>1, BatchesInit, BatchesNext, PTL DEF Spec, BatchesSafety

-----------------------------------------------------------------------------
(* The node around a solver (SolverNode) *)

Counts == Nat \X Nat \X Nat

NodeTypes ==
  /\ stage \in {"first", "second"}
  /\ shape \in [dep : DepSets \cup {"none"}, ind : 0 .. 2]
  /\ impossible \in BOOLEAN /\ homog \in BOOLEAN /\ learned \in BOOLEAN
  /\ left \in 0 .. 2 /\ need \in Nat
  /\ width \in Nat /\ mainBuf \in Nat /\ agree \in Nat
  /\ learning = Idle \/ learning \in Counts

Streak ==
  learning # Idle =>
    /\ agree >= learning[1]
    /\ stage = "first" => learning[1] = 0

NodeInv == NodeTypes /\ Streak /\ LearnedIsConfirmed

LEMMA CountsAreNotIdle == \A ln \in Counts : ln # Idle
  BY DEF Counts, Idle

LEMMA EntriesAreNat ==
  ASSUME NodeTypes, NEW s \in [dep : DepSets \cup {"none"}, ind : 0 .. 2]
  PROVE  Entries(s) \in Nat
  <1>1. \A a, b \in Nat : a * b \in Nat
    OBVIOUS
  <1>2. NDeps(s.dep) \in Nat
    BY DEF NDeps, DepSets
  <1>3. Least(need, NDeps(s.dep)) \in Nat
    BY <1>2 DEF Least, NodeTypes
  <1>4. s.ind + (IF homog THEN 0 ELSE 1) \in Nat
    OBVIOUS
  <1> QED
    BY <1>1, <1>3, <1>4 DEF Entries

LEMMA LearnSteps ==
  ASSUME NodeInv, NEW q \in Points, LearnPoint(q)
  PROVE  NodeInv'
  <1> USE DEF NodeInv
  <1>0. learning \in Counts /\ learning # Idle
    BY DEF LearnPoint, NodeTypes
  <1>1. /\ stage' \in {"first", "second"}
        /\ shape' \in [dep : DepSets \cup {"none"}, ind : 0 .. 2]
        /\ impossible' \in BOOLEAN /\ width' \in Nat
    <2>1. CASE LearnFirst(q)
      BY <2>1 DEF LearnFirst, NodeTypes, Points, Shapes, Cleared, Pole, Impossible
    <2>2. CASE LearnAgain(q)
      <3>1. Entries(shape) \in Nat
        BY EntriesAreNat DEF NodeTypes
      <3> QED
        BY <2>2, <3>1 DEF LearnAgain, NodeTypes
    <2> QED
      BY <2>1, <2>2 DEF LearnPoint
  <1>2. left' \in 0 .. 2
    BY DEF LearnPoint, LeftBy, Points, Shapes, Pole, Impossible
  <1>3. /\ agree' \in Nat
        /\ AfterPoint(Succeeds(q)) \in Counts
        /\ agree' >= AfterPoint(Succeeds(q))[1]
        /\ ~Succeeds(q) => AfterPoint(Succeeds(q))[1] = 0
    <2> DEFINE after == AfterPoint(Succeeds(q))
    <2>1. learning[1] \in Nat /\ learning[2] \in Nat /\ learning[3] \in Nat
      BY <1>0 DEF Counts
    <2>2. agree \in Nat /\ agree >= learning[1] /\ (stage = "first" => learning[1] = 0)
      <3>1. agree \in Nat
        BY DEF NodeTypes
      <3>2. agree >= learning[1]
        BY <1>0 DEF Streak
      <3>3. stage = "first" => learning[1] = 0
        BY <1>0 DEF Streak
      <3> QED
        BY <3>1, <3>2, <3>3
    <2>3. CASE Succeeds(q)
      <3>1. after = <<learning[1] + 1, learning[2], learning[3] + 1>>
        BY <2>3 DEF AfterPoint
      <3>2. agree' = IF stage = "first" THEN 1 ELSE agree + 1
        BY <2>3 DEF LearnPoint
      <3> HIDE DEF after
      <3>3. after \in Counts /\ after[1] = learning[1] + 1
        BY <2>1, <3>1 DEF Counts
      <3>4. agree' \in Nat /\ agree' >= learning[1] + 1
        BY <2>1, <2>2, <3>2
      <3> QED
        BY <2>3, <3>3, <3>4 DEF after
    <2>4. CASE ~Succeeds(q)
      <3>1. after = <<0, learning[2] + 1, learning[3] + 1>>
        BY <2>4 DEF AfterPoint
      <3>2. agree' = 0
        BY <2>4 DEF LearnPoint
      <3> HIDE DEF after
      <3>3. after \in Counts /\ after[1] = 0
        BY <2>1, <3>1 DEF Counts
      <3> QED
        BY <3>2, <3>3 DEF after
    <2> QED
      BY <2>3, <2>4
  <1>4. Succeeds(q) => stage' = "second"
    BY DEF LearnPoint, Succeeds, LearnFirst, LearnAgain, Shapes, Impossible
  <1>5. /\ learning' = Idle \/ learning' = AfterPoint(Succeeds(q))
        /\ learning' = Idle /\ learned' =>
             Finished(AfterPoint(Succeeds(q)))
    BY <1>3, CountsAreNotIdle DEF LearnPoint
  <1>6. mainBuf' \in Nat
    BY <1>1 DEF LearnPoint, NodeTypes
  <1>7. NodeTypes'
    BY <1>1, <1>2, <1>3, <1>5, <1>6 DEF NodeTypes, LearnPoint, options, Counts
  <1>8. Streak'
    BY <1>3, <1>4, <1>5, <1>1 DEF Streak, NodeTypes
  <1>9. LearnedIsConfirmed'
    BY SolverAssumption, <1>3, <1>5, <1>7 DEF LearnedIsConfirmed, CanBeEvaluated, Finished, Counts
  <1> QED
    BY <1>7, <1>8, <1>9

LEMMA OtherSteps ==
  ASSUME NodeInv, NodeNext, ~(\E q \in Points : LearnPoint(q))
  PROVE  NodeInv'
  <1> USE DEF NodeInv
  <1>1. ASSUME Learn PROVE NodeInv'
    BY <1>1 DEF Learn, Called, solver, options, shared, NodeTypes, Streak, Counts, Idle,
                LearnedIsConfirmed, CanBeEvaluated
  <1>2. ASSUME NEW q \in Points, Evaluate(q) \/ Sample(q) PROVE NodeInv'
    <2>1. left' \in 0 .. 2
      BY <1>2 DEF Evaluate, Sample, LeftBy, Points, Shapes, Pole, Impossible
    <2>2. UNCHANGED <<stage, shape, impossible, homog, need, width, mainBuf, agree, learning, learned>>
      BY <1>2 DEF Evaluate, Sample, options, shared
    <2> QED
      BY <2>1, <2>2 DEF NodeTypes, Streak, LearnedIsConfirmed, CanBeEvaluated, Entries
  <1>3. ASSUME OnlyHomogeneous \/ OnlyNonHomogeneous PROVE NodeInv'
    <2>1. /\ learning = Idle /\ learning' = Idle
          /\ stage' = "first" /\ homog' \in BOOLEAN
          /\ UNCHANGED <<shape, impossible, left, width, need, learned, mainBuf, agree>>
      BY <1>3 DEF OnlyHomogeneous, OnlyNonHomogeneous, Called, NodeTypes
    <2>2. NodeTypes' /\ Streak'
      BY <2>1 DEF NodeTypes, Streak
    <2>3. LearnedIsConfirmed'
      BY <2>1 DEF LearnedIsConfirmed, CanBeEvaluated
    <2> QED
      BY <2>2, <2>3
  <1>4. ASSUME NEW n \in 1 .. 2, ResetNeededVars(n) PROVE NodeInv'
    <2>1. shape' \in [dep : DepSets \cup {"none"}, ind : 0 .. 2]
      BY <1>4 DEF ResetNeededVars, NodeTypes
    <2>2. width' \in Nat
      <3>1. \A a, b \in Nat : a * b \in Nat
        OBVIOUS
      <3>2. Least(n, NDeps(shape.dep)) \in Nat
        BY DEF Least, NDeps
      <3>3. shape'.ind + (IF homog THEN 0 ELSE 1) \in Nat
        BY <2>1
      <3> QED
        BY <1>4, <3>1, <3>2, <3>3 DEF ResetNeededVars, NodeTypes
    <2> QED
      BY <1>4, <2>1, <2>2 DEF ResetNeededVars, Called, NodeTypes, Streak, LearnedIsConfirmed,
                              CanBeEvaluated
  <1>5. ASSUME NEW n \in Contexts, SampleParallel(n) PROVE NodeInv'
    BY <1>5 DEF SampleParallel, solver, options, NodeTypes, Streak, LearnedIsConfirmed,
                CanBeEvaluated
  <1> QED
    BY <1>1, <1>2, <1>3, <1>4, <1>5 DEF NodeNext

LEMMA NodeInvStart == NodeInit => NodeInv
  <1> SUFFICES ASSUME NodeInit PROVE NodeInv
    OBVIOUS
  <1>0. /\ stage = "first" /\ shape = [dep |-> "none", ind |-> 0]
        /\ impossible = FALSE /\ left = 0 /\ width = 0 /\ need = 2 /\ homog = FALSE
        /\ learned = FALSE /\ mainBuf = 0 /\ learning = Idle /\ agree = 0
    BY DEF NodeInit, Cleared
  <1>1. NodeTypes
    <2>1. shape \in [dep : DepSets \cup {"none"}, ind : 0 .. 2]
      BY <1>0
    <2>2. {impossible, homog, learned} \subseteq BOOLEAN
      BY <1>0
    <2>3. left \in 0 .. 2 /\ {need, width, mainBuf, agree} \subseteq Nat
      BY <1>0
    <2> QED
      BY <1>0, <2>1, <2>2, <2>3 DEF NodeTypes
  <1>2. Streak /\ LearnedIsConfirmed
    BY DEF NodeInit, Streak, LearnedIsConfirmed, CanBeEvaluated
  <1> QED
    BY <1>1, <1>2 DEF NodeInv

LEMMA NodeInvStep == NodeInv /\ [NodeNext]_vars => NodeInv'
  <1> SUFFICES ASSUME NodeInv, [NodeNext]_vars PROVE NodeInv'
    OBVIOUS
  <1>1. CASE \E q \in Points : LearnPoint(q)
    BY <1>1, LearnSteps
  <1>2. CASE NodeNext /\ ~(\E q \in Points : LearnPoint(q))
    BY <1>2, OtherSteps
  <1>3. CASE UNCHANGED vars
    BY <1>3 DEF vars, solver, options, shared, NodeInv, NodeTypes, Streak, LearnedIsConfirmed,
                CanBeEvaluated
  <1> QED
    BY <1>1, <1>2, <1>3

(***************************************************************************)
(* A solver that has learned has met the dependent unknowns it evaluates   *)
(* for at as many points in a row as its class asks for, the one it        *)
(* learned them from included, however many failures lay between           *)
(* (src/algorithm.cc:26-48, src/alg_linear_solver.cc:208-287).             *)
(***************************************************************************)
THEOREM LearningConfirms == NodeSpec => []LearnedIsConfirmed
  <1>1. NodeInv => LearnedIsConfirmed
    BY DEF NodeInv
  <1> QED
    BY NodeInvStart, NodeInvStep, <1>1, PTL DEF NodeSpec

(***************************************************************************)
(* Whatever is set, learned or evaluated in between, a worker never        *)
(* evaluates with data that were copied under other options: the setters   *)
(* drop the copies (src/graph.cc:609), and what is copied later            *)
(* (src/graph.cc:439) is copied under the options in force.                *)
(***************************************************************************)
THEOREM CopiesFollowOptions == NodeSpec => []CopiesKnowOptions
  <1>1. NodeInit => CopiesKnowOptions
    BY DEF NodeInit, CopiesKnowOptions
  <1>2. CopiesKnowOptions /\ [NodeNext]_vars => CopiesKnowOptions'
    <2> SUFFICES ASSUME CopiesKnowOptions, [NodeNext]_vars PROVE CopiesKnowOptions'
      OBVIOUS
    <2>1. CASE copy' = copy /\ UNCHANGED options
      BY <2>1 DEF CopiesKnowOptions, Meaning, options
    <2>2. CASE copy' = [c \in Contexts |-> NoCopy]
      BY <2>2 DEF CopiesKnowOptions
    <2>3. CASE \E n \in Contexts : SampleParallel(n)
      <3>1. PICK n \in Contexts : SampleParallel(n)
        BY <2>3
      <3>2. Meaning' = Meaning
        BY <3>1 DEF SampleParallel, Meaning, options
      <3>3. copy' = Synced(n)
        BY <3>1 DEF SampleParallel
      <3>4. ASSUME NEW c \in Contexts, copy'[c] # NoCopy PROVE copy'[c].of = Meaning
        <4>1. CASE c <= n /\ copy[c] = NoCopy
          <5>1. copy'[c] = [deps |-> NDeps(shape.dep), buf |-> width, of |-> Meaning]
            BY <3>3, <4>1 DEF Synced
          <5> QED
            BY <5>1
        <4>2. CASE ~(c <= n /\ copy[c] = NoCopy)
          <5>1. copy'[c] = copy[c]
            BY <3>3, <4>2 DEF Synced
          <5> QED
            BY <3>4, <5>1 DEF CopiesKnowOptions
        <4> QED
          BY <4>1, <4>2
      <3> QED
        BY <3>2, <3>4 DEF CopiesKnowOptions
    <2>4. \/ copy' = copy /\ UNCHANGED options
          \/ copy' = [c \in Contexts |-> NoCopy]
          \/ \E n \in Contexts : SampleParallel(n)
      <3>1. CASE Learn
        BY <3>1 DEF Learn, shared
      <3>2. CASE \E q \in Points : LearnPoint(q) \/ Evaluate(q) \/ Sample(q)
        BY <3>2 DEF LearnPoint, Evaluate, Sample, shared
      <3>3. CASE OnlyHomogeneous \/ OnlyNonHomogeneous
        BY <3>3 DEF OnlyHomogeneous, OnlyNonHomogeneous, DropCopies
      <3>4. CASE \E n \in 1 .. 2 : ResetNeededVars(n)
        BY <3>4 DEF ResetNeededVars, DropCopies
      <3>5. CASE UNCHANGED vars
        BY <3>5 DEF vars, shared
      <3> QED
        BY <3>1, <3>2, <3>3, <3>4, <3>5 DEF NodeNext
    <2> QED
      BY <2>1, <2>2, <2>3, <2>4
  <1> QED
    BY <1>1, <1>2, PTL DEF NodeSpec

\* The second success, and any later one, writes the length of the shape.
LEMMA LengthsAfterLearning ==
  ASSUME NodeInv, NLearn >= 2, NEW q \in Points, LearnPoint(q)
  PROVE  LengthsAgree'
  <1> USE DEF NodeInv
  <1> SUFFICES ASSUME CanBeEvaluated', ~impossible'
               PROVE  width' = Entries(shape)' /\ gWidth' = width' /\ mainBuf' >= width'
    BY DEF LengthsAgree
  <1>0. learning \in Counts /\ learning # Idle
    BY DEF LearnPoint, NodeTypes
  <1>1. AfterPoint(Succeeds(q)) \in Counts
    BY <1>0 DEF AfterPoint, Counts
  <1>2. Finished(AfterPoint(Succeeds(q)))
    BY <1>1, CountsAreNotIdle DEF LearnPoint, CanBeEvaluated
  <1>3. Succeeds(q) /\ learning[1] >= 1
    BY SolverAssumption, <1>0, <1>2 DEF Finished, AfterPoint, Counts
  <1>4. stage = "second" /\ LearnAgain(q)
    <2>1. stage # "first"
      BY <1>0, <1>3 DEF Streak
    <2> QED
      BY <2>1 DEF NodeTypes, LearnPoint, LearnFirst
  <1>5. q \in Shapes /\ q.dep = shape.dep
    BY <1>3, <1>4 DEF Succeeds, LearnAgain
  <1>6. width' = Entries(shape) /\ shape' = shape /\ need' = need /\ homog' = homog
    BY <1>4, <1>5 DEF LearnAgain, LearnPoint, options
  <1>7. width' = Entries(shape)'
    BY <1>6 DEF Entries
  <1>8. gWidth' = width'
    BY <1>3 DEF LearnPoint
  <1>9. mainBuf' >= width'
    <2>1. width' \in Nat
      BY <1>6, EntriesAreNat DEF NodeTypes
    <2>2. mainBuf' = IF width' # 0 THEN width' ELSE mainBuf
      BY <1>2 DEF LearnPoint
    <2> QED
      BY <2>1, <2>2 DEF NodeTypes
  <1> QED
    BY <1>7, <1>8, <1>9

(***************************************************************************)
(* If two points at least must agree, as every linear solver asks, the     *)
(* length of the output after learning is that of the solution that was    *)
(* learned, in the solver, in the graph and in the buffer, whatever was    *)
(* learned or set before (src/alg_linear_solver.cc:276, src/graph.cc:803). *)
(***************************************************************************)
THEOREM LengthsFollowLearning == NLearn >= 2 /\ NodeSpec => []LengthsAgree
  <1> SUFFICES ASSUME NLearn >= 2 PROVE NodeSpec => []LengthsAgree
    OBVIOUS
  <1>1. NodeInit => LengthsAgree
    BY DEF NodeInit, LengthsAgree, CanBeEvaluated
  <1>2. NodeInv /\ LengthsAgree /\ [NodeNext]_vars => LengthsAgree'
    <2> SUFFICES ASSUME NodeInv, LengthsAgree, [NodeNext]_vars PROVE LengthsAgree'
      OBVIOUS
    <2>1. CASE \E q \in Points : LearnPoint(q)
      BY <2>1, LengthsAfterLearning
    <2>2. CASE Learn
      BY <2>2 DEF Learn, Idle, LengthsAgree, CanBeEvaluated
    <2>3. CASE OnlyHomogeneous \/ OnlyNonHomogeneous \/ \E n \in 1 .. 2 : ResetNeededVars(n)
      BY <2>3 DEF OnlyHomogeneous, OnlyNonHomogeneous, ResetNeededVars, LengthsAgree
    <2>4. CASE \/ \E q \in Points : Evaluate(q) \/ Sample(q)
               \/ \E n \in Contexts : SampleParallel(n)
               \/ UNCHANGED vars
      <3>1. /\ UNCHANGED <<shape, impossible, width, need, homog, learned>>
            /\ UNCHANGED <<gWidth, mainBuf, learning, fresh>>
        BY <2>4 DEF Evaluate, Sample, SampleParallel, vars, solver, options, shared
      <3> QED
        BY <3>1 DEF LengthsAgree, CanBeEvaluated, Entries
    <2> QED
      BY <2>1, <2>2, <2>3, <2>4 DEF NodeNext
  <1>3. NodeInv /\ [NodeNext]_vars => NodeInv'
    BY NodeInvStep
  <1> QED
    BY NodeInvStart, <1>1, <1>2, <1>3, PTL DEF NodeSpec
=============================================================================

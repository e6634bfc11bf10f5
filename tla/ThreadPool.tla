----------------------------- MODULE ThreadPool -----------------------------
(***************************************************************************)
(* The worker pool of a session (include/fflow/thread_pool.hh) and the way *)
(* the parallel calls of src/graph.cc use it: grow the pool to the number  *)
(* of tasks, enqueue the tasks, take the results of their futures in       *)
(* order; the session's destructor stops the pool.                         *)
(*                                                                         *)
(* A step is one stretch of code under queue_mutex, or one outside it: a   *)
(* task is pushed under the mutex and announced after it is released, a    *)
(* worker tests the condition and goes to sleep without letting go of the  *)
(* mutex in between.  Wake-ups may be spurious.                            *)
(***************************************************************************)
EXTENDS Integers, Sequences, FiniteSets

CONSTANTS MaxWorkers,  \* bound on workers.size()
          MaxTasks     \* bound on the tasks enqueued over the session's life

ASSUME PoolAssumption == /\ MaxWorkers \in Nat \ {0}
                         /\ MaxTasks \in Nat

Workers == 1 .. MaxWorkers
Tasks == 1 .. MaxTasks
None == 0

VARIABLES
  worker,  \* "none" before it is started, "check" (about to take the mutex),
           \* "waiting" on the condition, "running" a task, "exited"
  holds,   \* the task a running worker has moved out of the queue
  queue,   \* tasks
  stop,    \* stop
  future,  \* of each task: "none", "pending", "ready"
  main,    \* what the session's thread does
  last,    \* the last task of the current batch
  pushed,  \* tasks pushed so far
  got      \* futures taken so far

poolVars == <<worker, holds, queue, stop, future, main, last, pushed, got>>

Init ==
  /\ worker = [w \in Workers |-> "none"] /\ holds = [w \in Workers |-> None]
  /\ queue = <<>> /\ stop = FALSE
  /\ future = [t \in Tasks |-> "none"]
  /\ main = "idle" /\ last = 0 /\ pushed = 0 /\ got = 0

-----------------------------------------------------------------------------
(* The session's thread *)

\* A parallel call with n tasks: alloc_threads(n) starts the workers that are
\* missing and never stops one.
AllocThreads(n) ==
  /\ main = "idle"
  /\ last + n <= MaxTasks
  /\ worker' = [w \in Workers |-> IF w <= n /\ worker[w] = "none"
                                  THEN "check" ELSE worker[w]]
  /\ last' = last + n
  /\ main' = "enqueue"
  /\ UNCHANGED <<holds, queue, stop, future, pushed, got>>

\* Mutant of Enqueue: nothing is announced after the first task of a batch
EnqueueQuietly ==
  /\ main = "enqueue"
  /\ pushed' = pushed + 1
  /\ queue' = Append(queue, pushed')
  /\ future' = [future EXCEPT ![pushed'] = "pending"]
  /\ main' = IF pushed' < last THEN "enqueue" ELSE "join"
  /\ UNCHANGED <<worker, holds, stop, last, got>>

\* enqueue: the part under the mutex
Enqueue ==
  /\ main = "enqueue"
  /\ pushed' = pushed + 1
  /\ queue' = Append(queue, pushed')
  /\ future' = [future EXCEPT ![pushed'] = "pending"]
  /\ main' = "notify"
  /\ UNCHANGED <<worker, holds, stop, last, got>>

\* enqueue: condition.notify_one() wakes a waiting worker, if there is one
NotifyOne ==
  /\ main = "notify"
  /\ \/ \E w \in Workers : /\ worker[w] = "waiting"
                           /\ worker' = [worker EXCEPT ![w] = "check"]
     \/ (\A w \in Workers : worker[w] # "waiting") /\ UNCHANGED worker
  /\ main' = IF pushed < last THEN "enqueue" ELSE "join"
  /\ UNCHANGED <<holds, queue, stop, future, last, pushed, got>>

\* Mutant of JoinOne: get() is called on the newest future only
JoinLast ==
  /\ main = "join"
  /\ future[last] = "ready"
  /\ got' = last
  /\ main' = "idle"
  /\ UNCHANGED <<worker, holds, queue, stop, future, last, pushed>>

\* get() of the next future of the batch; the call goes on after the last
JoinOne ==
  /\ main = "join"
  /\ future[got + 1] = "ready"
  /\ got' = got + 1
  /\ main' = IF got' = last THEN "idle" ELSE "join"
  /\ UNCHANGED <<worker, holds, queue, stop, future, last, pushed>>

\* ~ThreadPool
Stop == /\ main = "idle"
        /\ stop' = TRUE
        /\ main' = "notifyall"
        /\ UNCHANGED <<worker, holds, queue, future, last, pushed, got>>

\* Mutant of WakeAll: notify_one instead of notify_all
WakeSome == LET W == {w \in Workers : worker[w] = "waiting"} IN
            IF W = {} THEN worker
            ELSE [worker EXCEPT ![CHOOSE w \in W : TRUE] = "check"]

WakeAll == [w \in Workers |-> IF worker[w] = "waiting" THEN "check" ELSE worker[w]]

NotifyAll == /\ main = "notifyall"
             /\ worker' = WakeAll
             /\ main' = "joinworkers"
             /\ UNCHANGED <<holds, queue, stop, future, last, pushed, got>>

JoinWorkers == /\ main = "joinworkers"
               /\ \A w \in Workers : worker[w] \in {"none", "exited"}
               /\ main' = "ended"
               /\ UNCHANGED <<worker, holds, queue, stop, future, last,
                              pushed, got>>

-----------------------------------------------------------------------------
(* A worker *)

\* Mutant of Take: the front is read and left in the queue
TakeWithoutPop(w) ==
  /\ worker[w] = "check" /\ queue # <<>>
  /\ holds' = [holds EXCEPT ![w] = Head(queue)]
  /\ worker' = [worker EXCEPT ![w] = "running"]
  /\ UNCHANGED <<queue, stop, future, main, last, pushed, got>>

\* The condition holds because there is a task, also after stop
Take(w) ==
  /\ worker[w] = "check" /\ queue # <<>>
  /\ holds' = [holds EXCEPT ![w] = Head(queue)]
  /\ queue' = Tail(queue)
  /\ worker' = [worker EXCEPT ![w] = "running"]
  /\ UNCHANGED <<stop, future, main, last, pushed, got>>

Wait(w) ==
  /\ worker[w] = "check" /\ queue = <<>> /\ ~stop
  /\ worker' = [worker EXCEPT ![w] = "waiting"]
  /\ UNCHANGED <<holds, queue, stop, future, main, last, pushed, got>>

Exit(w) ==
  /\ worker[w] = "check" /\ queue = <<>> /\ stop
  /\ worker' = [worker EXCEPT ![w] = "exited"]
  /\ UNCHANGED <<holds, queue, stop, future, main, last, pushed, got>>

\* task(): the future gets its value when the body has returned
Run(w) ==
  /\ worker[w] = "running"
  /\ future' = [future EXCEPT ![holds[w]] = "ready"]
  /\ holds' = [holds EXCEPT ![w] = None]
  /\ worker' = [worker EXCEPT ![w] = "check"]
  /\ UNCHANGED <<queue, stop, main, last, pushed, got>>

SpuriousWake(w) ==
  /\ worker[w] = "waiting"
  /\ worker' = [worker EXCEPT ![w] = "check"]
  /\ UNCHANGED <<holds, queue, stop, future, main, last, pushed, got>>

-----------------------------------------------------------------------------
Main == Enqueue \/ NotifyOne \/ JoinOne \/ NotifyAll \/ JoinWorkers

Work(w) == Take(w) \/ Wait(w) \/ Exit(w) \/ Run(w)

Done == main = "ended" /\ UNCHANGED poolVars

Next == \/ \E n \in Workers : AllocThreads(n)
        \/ Main \/ Stop
        \/ \E w \in Workers : Work(w) \/ SpuriousWake(w)
        \/ Done

\* The threads are scheduled fairly.  Nothing obliges the application to make
\* a call, to end the session, or a worker to wake up without a notification.
Spec == /\ Init /\ [][Next]_poolVars
        /\ WF_poolVars(Main)
        /\ \A w \in Workers : WF_poolVars(Work(w))
-----------------------------------------------------------------------------
(* Properties *)

\* Every variable has its type; a call neither pushes nor awaits more tasks
\* than it has (the loops over nthreads of the parallel calls in src/graph.cc).
TypeOK ==
  /\ worker \in [Workers -> {"none", "check", "waiting", "running", "exited"}]
  /\ holds \in [Workers -> Tasks \cup {None}]
  /\ queue \in Seq(Tasks)
  /\ stop \in BOOLEAN
  /\ future \in [Tasks -> {"none", "pending", "ready"}]
  /\ main \in {"idle", "enqueue", "notify", "join", "notifyall",
              "joinworkers", "ended"}
  /\ last \in 0 .. MaxTasks
  /\ pushed \in 0 .. last /\ got \in 0 .. pushed

Queued == {queue[i] : i \in DOMAIN queue}

Holder(t) == {w \in Workers : worker[w] = "running" /\ holds[w] = t}

\* A task whose result is awaited is in the queue, once, or in the hands of one
\* worker, and no other task is: enqueue and the workers neither lose a task
\* nor run one twice.
ExactlyOnce ==
  /\ \A i, j \in DOMAIN queue : i < j => queue[i] < queue[j]
  /\ \A t \in Tasks :
       /\ future[t] # "none" <=> t <= pushed
       /\ future[t] = "pending" <=> (t \in Queued \/ Holder(t) # {})
       /\ t \in Queued => Holder(t) = {}
       /\ \A v, w \in Holder(t) : v = w

AtMutex == {w \in Workers : worker[w] = "check"}
Sleeping == {w \in Workers : worker[w] = "waiting"}

\* A worker sleeps only while there is an awake worker, or an announcement on
\* its way, for each task in the queue: no wake-up is lost, and no core idles
\* next to a full queue (enqueue announces a task after it has released
\* queue_mutex, and to one worker only).
ParallelismKept ==
  Sleeping # {} =>
    Len(queue) <= Cardinality(AtMutex) + (IF main = "notify" THEN 1 ELSE 0)

\* Between two calls no task is queued or running and every result is in: the
\* call may destroy what its tasks referred to (caches, task objects, the
\* graph), and the destructor finds the pool quiet.
IdleMeansQuiet ==
  main \in {"idle", "notifyall", "joinworkers", "ended"} =>
    /\ queue = <<>>
    /\ \A w \in Workers : worker[w] # "running"
    /\ \A t \in Tasks : t <= last => future[t] = "ready"

\* The destructor of a session returns: every worker leaves the loop, the
\* sleeping ones included.
SessionEnds == stop ~> (main = "ended")

Batches == INSTANCE TaskBatches WITH
  task <- [t \in Tasks |-> CASE future[t] = "none" -> "none"
                             [] future[t] = "pending" -> "submitted"
                             [] OTHER -> "done"],
  caller <- CASE main = "idle" -> "free"
              [] main \in {"enqueue", "notify", "join"} -> "busy"
              [] OTHER -> "gone"

\* The pool and the calls that use it run each task of a call once and return
\* when all are done, and they do return.
ImplementsBatches == Batches!Spec
=============================================================================

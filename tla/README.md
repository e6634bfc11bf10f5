# A TLA+ model of FiniteFlow32

FiniteFlow32 evaluates dataflow graphs over prime fields and reconstructs
rational functions and numbers from the values. This directory holds TLA+
modules translated from its C++ sources, the TLC configurations that check
them on small instances, and theorems about them that TLAPS checks for every
value of the constants. `PROJECT.json` maps each definition to the lines it
models, and lists runs, mutants, hazards, findings and theorems.

1. [The system](#1-the-system)
2. [Modules](#2-modules)
3. [Runs, bounds and fairness](#3-runs-bounds-and-fairness)
4. [Proofs](#4-proofs)
5. [Disagreements between code and comments](#5-disagreements-between-code-and-comments)
6. [What is not modelled](#6-what-is-not-modelled)
7. [Plan](#7-plan)

Paths are relative to the repository; `graph.cc` is `src/graph.cc`, and
`graph.hh` is `include/fflow/graph.hh`.

## 1. The system

An application (C, Python or Mathematica) drives one *session*, from one
thread. The session has graphs, a graph has nodes, a node has an algorithm.
Calls run to completion; inside some of them worker threads evaluate and
reconstruct in parallel. Between the calls the state stays: that is where
most of what can go wrong lies, since a call relies on what earlier calls left.

| component (main sources) | state | operations | what makes it correct |
| --- | --- | --- | --- |
| graph (`graph.cc`, `algorithm.hh`) | node slots, free slots, output node, marks, computation sequence, flags mutable and learned, lengths of inputs and outputs | create and delete nodes, select the output, learn, evaluate, prune, use as a subgraph or in an external evaluator | a node's inputs exist, have the length it expects and cannot change below it; slots are neither lost nor shared; nodes are evaluated after their inputs |
| session (`graph.cc`) | table of graphs, main context and one context per worker, each with the data and buffers of every node | create and delete graphs, copy data to the workers, invalidate copies | a worker evaluates with current data; a deleted graph's data go with it |
| thread pool (`thread_pool.hh`) | workers, task queue, mutex and condition variable | enqueue, worker loop, destructor | a task runs once, no wake-up is lost, a call waits for its last task |
| learning nodes (`alg_linear_solver.cc`, `algorithm.cc`; also the analytic, numeric and node solvers, the fits and filters) | learning stage, shape of the solution, options, lengths | learn, setters, reset, evaluate | what is used was learned and confirmed; lengths agree everywhere |
| sparse solver (`alg_linear_solver.cc`, `matrix.cc`) | further stages: marking, sweeping, back substitution | setters that are legal in some stages only | a stage is never skipped, a setter never too late |
| subgraph nodes (`subgraph.cc`, `cached_subgraph.cc`, `subgraph_fit.cc`, `subgraph_reconstruct.cc`) | memo, caches, per context | evaluate the graph below, look up, store | a memo answers for the point, the prime and the options it was made with; no point is evaluated twice |
| caches (`function_cache.hh`, `function_cache.cc`) | hash table with linear probing, memory chunks | find, insert, reserve, grow, merge | what was stored is found, loops end, memory has one owner |
| sampling and files (`graph.cc`, `alg_reconstruction.cc`) | sample points, entries with flags per output, files that several processes share | generate, sample, save, load | the points wanted are those that the reconstruction reads |
| reconstruction in a session (`graph.cc`, `capi.cc`, `alg_mp_reconstruction.cc`) | degrees, cache of evaluations, completed outputs, retry loop over primes | all degrees, sample, reconstruct, once more with another prime | a result is the function of its own output; nothing is lost between calls; the loop ends with an answer |
| algorithms (`univariate_`, `multivariate_`, `mp_multivariate_reconstruction.cc`, `polynomial.cc`, `rational_function.cc`, `matrix.cc`, `mp_functions.cc`, `common.hh`) | none between calls | interpolation, row reduction, Chinese remainders, modular arithmetic | equal to their mathematical definition |
| elementary nodes and the parser of expressions (`alg_functions.cc`, `ratexpr_parser.cc`) | instructions and numbers of a list of expressions; what a context computed modulo its last prime | parse, evaluate, change the numbers | the value is that of what was written, modulo the prime of the call; the stack is large enough |
| interfaces (`capi.cc`, `interface.cc`, `capi_native_ext.cc`, `fflowmlink.cc`, `fflow.py`, parsers, `json.cc`) | handles | conversions and checks of arguments | every call reaches the core with arguments it accepts |

Interactions. The session calls algorithms through virtual functions; a
subgraph node calls the graph below, and makes it immutable while it is in use.
Learning writes the length of a node's output into the node, the graph and
the buffer of the main context. The parallel calls copy node data to the
workers' contexts, hand tasks to the pool, wait, and merge the workers' caches
into the cache of the graph. Reconstruction reads that cache, and keeps outputs
it completed for a later call.

What is hard to test here: calls in legal but unusual orders (delete, select,
prune, learn again); state that is kept after a failed call; copies in worker
contexts that go stale; entries of a cache that were sampled for some of the
outputs only; lost wake-ups; growth and merging of the hash tables when
collisions wrap around. `hazards` in `PROJECT.json` lists them one by one, with
the properties that cover them.

## 2. Modules

| module | models | uses |
| --- | --- | --- |
| `FlowGraph`, `MCFlowGraph` | one graph of a session | |
| `Session` | table of graphs, references, data of the nodes per context, external evaluators | |
| `ThreadPool` | the pool and the parallel calls on it | refines `TaskBatches` |
| `TaskBatches` | what a parallel call needs: submit tasks, each done once, return | |
| `SolverNode` | a dense solver as output node, learning, setters, contexts | |
| `SparseRows`, `SparseSolver`, `MCSparseSolver` | rows and elimination; the sparse solver, its learning, options, marking and sweeping | `PrimeField` |
| `SubgraphNodes` | simple, memoized, mapping and cached subgraphs, fits, multivariate reconstruction of a subgraph | |
| `PrimeField`, `Interpolation` | arithmetic, polynomials, dense row reduction; Newton, Thiele, linear system | |
| `UnivariateRec`, `MCUnivariateRec` | a univariate reconstruction by itself, and the node that reconstructs or expands a subgraph | `Interpolation` |
| `FunctionCache`, `MCFunctionCache` | the caches of the workers and the main one | refines `KeyedStore` |
| `KeyedStore` | what the caches promise: entries stay, a merge moves them | |
| `Evaluations` | sample points, entries with flags, files, dummy graphs | |
| `Reconstruction` | degrees, sampling, reconstruction, retry loop, kept results | |
| `RatExpr`, `FunctionNodes`, `MCFunctionNodes` | from lexemes to the instructions of the stack machine, and that machine; the nodes of expressions, numbers and functions; their instance | |
| `Algorithms` | one of the reconstructions and nodes that compute with numbers | composes `UnivariateRec` and `FunctionNodes` |
| `HandlerPaths` | paths of a function, as sequences of steps with choices | |
| `LinkPaths`, `LinkNodes`, `LinkCalls`, `LinkFiles`, `LinkPackage`, `MathLink` | the Mathematica link: what each handler does, what the package sends to it | `HandlerPaths` |
| `CApiPaths`, `CApiNodes`, `CApiCalls`, `CApi` | the functions of the C interface | `HandlerPaths` |
| `FrontEnds` | a process on one of the two front ends | composes `MathLink` and `CApi` |
| `FlowGraph_proofs`, `Session_proofs`, `SparseSolver_proofs`, `SubgraphNodes_proofs`, `FunctionCache_proofs`, `Evaluations_proofs`, `Reconstruction_proofs` | theorems | the module they are named after |
| `Workers_proofs` | theorems about the pool, and about the node that keeps a copy per worker | `ThreadPool`, `SolverNode` |

A definition preceded by "Mutant of" is a plausible bug in the definition
it names. It is used by no specification; replacing the definition by it must
make the property named in `mutants` fail.

**FlowGraph.** A node is a record of what the operations read: the nodes it
reads, the lengths it expects (`nparsin`), the length of its output, depth,
flags. `free` and `size` are `free_node_slots_` and `nodes_.size()`; `marks`,
`seq` are `mark_nodes_` and `comput_seq_`, written by `set_output_node` before
its last check, as in the code. One action per public operation:
`SetInputVars`, `NewNode`, `DeleteNode`, `SetOutputNode`, `Evaluate`, `Learn`,
`ResetNeededVars`, `SetNodeMutable`, `PruneGraph`, and what subgraph nodes and
external evaluators do to the graph. A call that is refused without an effect
is a disabled action. `health` records that the code dereferenced a null node
("dead"), or that `prune_graph` deleted by marks that a refused
`set_output_node` had left ("astray"); `setFailed` that the last
selection failed. Lengths are bounded by the set `Widths`.

**Session.** A graph is an object; the table gives it an id, which is used again
once the graph is deleted. A deleted graph stays in memory while a subgraph node
or an evaluator refers to it, and is destroyed with the last reference, which may take
graphs below it along. The data of a node are a stamp, new for each algorithm
and each change of its options; `data` holds the stamps per context. Edges
within a graph are in `FlowGraph` and left out here.

**ThreadPool.** Workers, the queue and the mutex of `thread_pool.hh`. A step is
a critical section or the code between two; `enqueue` pushes in one step and
notifies in another, since the mutex is free in between. A waiting worker
wakes on a notification, or spuriously. The main thread makes calls of any
number of tasks: it enqueues them, waits for each future in turn, returns; the
destructor sets the flag, notifies all and joins.

**SolverNode.** A linear system is abstracted to its shape at a point: the set of
dependent unknowns and how many independent ones the solution contains, or
a pole, or no solution. Every round of `learn_all` sees an arbitrary shape.
`copy` holds, for each worker's context, what
`sync_graph_data` copied and never refreshed; `samples` what the cached values
are values of. `agree` and `fresh` are history variables for the properties.

**SparseSolver.** Here the rows are computed: entries in the prime field, elimination,
back substitution and sorting as in `SparseMatrix`. `ls` is the solver with its stage,
options and positions, `mat` the rows per context with their equation numbers
(they are swapped with their memory), `lesson` a history variable: the point
the solver learned from and whether a second one confirmed it. The application learns, sets
options, marks and sweeps, asks for other unknowns, deletes equations, stores and
loads, and evaluates in any context. `Follows` and `Expected` are the reference: row
reduction of the dense matrix of the equations asked for.

**SubgraphNodes.** The value of the graph at a point is the point, so that an answer
says what it was computed from. A step evaluates the graph once at most. `memo`,
`local`, `fitted` are the data that each context has, `shared` is the merged cache of a
cached subgraph, `asked` what the call should answer.

**PrimeField, Interpolation, UnivariateRec.** Row reduction and the three
interpolations are computed, the last as state machines that take a value or
FAILED. The node `unirec` or `laurent` learns the degrees with
Thiele's formula and solves a linear system at each point; one step reads one value,
through a cache that is emptied at a new point.

**Evaluations.** Two sessions exchange files, one with a dummy graph that cannot
evaluate. A point is a prime and a degree, which the outputs of this degree or a higher one need; an entry is the set of
flagged outputs and the sequence of values it holds, in the layout of the cache. A file
may be cut anywhere: a chunk of points before the cut can still be read, and a load of
evaluations leaves what it read, the entry it broke off in included (`Torn`: arbitrary flags, or
the flags and the first values). Any cache may be dumped and loaded elsewhere, with such entries and with
several of one point. The history `garbled` keeps the points of torn entries, through the files; it
is all that `OwnValuesOnly` excepts, and `NothingLost` excepts nothing.

**Reconstruction.** How many primes an output needs, and whether it is
too singular to be reconstructed, is fixed by the graph and unknown to the code.
The points of one prime are two batches, for reconstruction and for checks. A
batch in the cache has the set of outputs that its entries hold values for; the
value read for an output is that of the output at its position, as
`SparselySampledRatFun::evaluate` computes it. Calls are
`ffAllDegrees`, `ffSample`, `ffReconstructFunction[Mod]`,
`ffReconstructFromCurrentEvaluations[Mod]`, and a change of the output node;
worker steps of different workers interleave; `completed` and `recf`
(`completed_`, `recratfun_`) stay between calls. Every call chooses its first prime. The history `starts`
keeps where the calls started that complete an output or reconstruct after one did, until the output node changes.

**FunctionCache.** Tables are functions on their slots. An entry is a key and a
number that stands for the memory of its key and value; `mem` has the numbers
in the chunks of each cache. `RehashStep` and `MergeStep` treat one slot each,
in the order of the loops, so that the tables are seen half filled; workers'
caches grow independently, and the main cache changes only while no worker runs,
as in `parallel_sample` and in the calls that merge the caches of cached subgraphs.
`ReserveMore` and `NewEntry` compare with the load factor as the code does, and
`Find` follows the path of a key to an entry or an empty slot. The capacity of
a table that was never used is `1 << EMPTY_`, undefined in C++; the
model takes the outcome of the compilers in use, no slot.

**RatExpr, FunctionNodes.** The input of the parser is a sequence of lexemes; tokens,
instructions, tables of numbers and powers are built as in the code, and the machine executes them on
the values of the variables. The number of values of an instruction byte, the largest
machine numbers and the width of an exponent are constants, so that small numbers reach each of
the limits. A node keeps in each context the residues of its numbers and the prime they belong to.
`Meaning` is the reference: the value of the expression tree by its definition.

**MathLink, CApi, FrontEnds.** Most of the repository's lines are functions that take
arguments apart, call the core and answer. Each is a set of paths. On the link a step reads a
token, finishes the packet (`MLNewPacket`), calls the library, which succeeds or
fails, or puts a part of the answer; the package side is the set of token
sequences that `FiniteFlow32.m` sends. In the C interface a step looks something up, uses it,
calls, allocates, frees or answers; the lists of functions of the caller
are state, since `ffMoveRatFunToIdx` empties them. The state machine runs one function after the
other along any of its paths. Names are those of the code; the conversion of the data is
abstracted to what its failure does.

## 3. Runs, bounds and fairness

| run | properties | instance |
| --- | --- | --- |
| `graph_lifecycle` | `TypeOK`, `InputsPinned`, `WidthsAgree`, `FreeListExact`, `ReadyToEvaluate`, `SeqIsTopological`, `FrozenWhileSubgraph` | 4 slots, lengths 0 and 1, one subgraph user, one evaluator, 6 calls |
| `session` | `DataFits`, `CountsExact`, `NoCycles` | 3 graphs of 2 nodes, 2 workers, 1 evaluator, 9 calls |
| `pool` | `ExactlyOnce`, `ParallelismKept`, `IdleMeansQuiet`, `SessionEnds`, `ImplementsBatches` | 3 workers, 6 tasks |
| `solver_node` | `LearnedIsConfirmed`, `LengthsAgree`, `CopiesKnowOptions` | 2 worker contexts, 3 confirmations, 1 singular point, 5 calls |
| `sparse_solver` | `SolvesTheSystem`, `WritesWhatItPromised` | 5 equations for 5 unknowns modulo 7, 6 kinds of points, 1 worker, all values of the setters, 3 calls |
| `subgraphs` | `AnswersOwnPoint`, `NothingForgotten` | 7 kinds of nodes, 2 inputs, 2 primes, 1 worker, 1 point that fails, 5 calls |
| `algorithms` | `Reconstructs`, `OwnCoefficients`, `MeansWhatItSays`, `StackFits` | 31 elements, functions of degree up to 2, 2 outputs, 2 points, 1 bad value, 4 calls; or lists of two expressions in two variables with up to five factors or terms, numbers of 3 values to a byte, largest machine numbers 9, exponents modulo 4, primes 7 and 11, 1 worker, 2 calls |
| `function_cache` | `LookupsAnswer`, `MemoryOwned`, `ImplementsStore` | 3 keys (two with the same hash), main cache and 2 workers, 3 entries, capacities 2 to 16 |
| `evaluations` | `OwnValuesOnly`, `NothingLost` | 2 sessions, 2 outputs, 2 primes, 6 calls |
| `reconstruction` | `ReadsOwnValues`, `OwnValues`, `NothingMissing`, `LoopAnswers`, `CompletedStays`, `CallReturns` | 2 outputs that need up to 2 primes, calls that start at either of two primes with `max_primes` up to 2, 2 threads, 4 calls |
| `frontends` | `ReadsThenAnswersOnce`, `SuccessIsEarned`, `NothingLeftOver` | lists of 0 to 2 elements, any sequence of functions |
| `doc_relearned_copies` | `RelearnedCopies`, which fails | 4 calls, see section 5 |

*Are the bounds enough?* Four slots hold every pattern that the invariants of a
graph speak of: a node, its input and a third one that is deleted, reused or
selected, and for the order a diamond or a chain whose slot was reused. Six
calls allow create, create, select, delete, reuse, prune. The free list
and the slots are bounded; a longer history brings no new one of them, and
all seven properties are proved without a bound. Three
graphs of a session are a chain of subgraphs, or one whose id was given to another while a
third still uses it. Three workers are one that runs, one that
sleeps and one between test and sleep; six tasks are several calls in a row.
Two contexts let one be stale while the other is not; three confirmations let a
failure come first, in the middle and last. Two outputs let one be
complete while the other is sampled, and an output that needs two primes lets a call that is
allowed one run out of them, so that a later one goes on, from the same prime or the next. Three entries make a table of default
size grow twice, and the hash values 3 and 7 make collisions wrap around
the end at capacities 2, 4 and 8. The five equations of the sparse solver have a redundant one,
one that is redundant at one point only, an unknown that vanishes, and unknowns
that are needed, dependent and free; the points are two ordinary ones, one each that
loses an equation, has no solution, has another shape, or a vanishing coefficient.
The quotients of degree one with a value that cannot be had are the smallest for which
Thiele's formula meets a pole, skips a point and is checked; with degree 2 the
normal form has something to cancel. Two primes and two outputs let an entry
of the cache hold one output only. The expressions combine numbers of one byte (2), of several (5), machine integers that are not below
a prime (7, 9: with 32-bit primes, the default, 18 digits are not) and integers beyond (12, and products), powers of variables that are read with them, powers of sums,
signs before terms, factors and divisors, and quotients, each before and after another one of the list, so that places in
the tables of numbers and powers are shared. In `frontends`, lists of two elements tell
"one after the other" from "once", and there is no bound on the calls.

Left out of the sparse run are calls whose effect C++ does not define (section 5): a
printed row that vanished, sparse output that was chosen before the positions
were computed or that is stale, a sweep with rows that vanished, with dependencies of an
earlier learning or with more needed rows than were learned (`Sweep`), and an evaluation without the positions it counts on
(`Positioned`). `MaxCol` bounds the columns an application may set.

*Deadlock* is checked for the pool and the front ends. The other systems stop where their bounds
on calls or entries are reached.

*Fairness.* The pool assumes weak fairness of the main thread inside a call
(`Main`) and of each worker (`Work`): threads are scheduled by the operating
system, and whoever needs the mutex gets it. Nothing obliges the application
to make a call or to end the session, and no spurious wake-up is assumed to
happen. `Reconstruction` assumes weak fairness of the steps of a call, which
are sequential code and tasks of that pool. Between the two, `SessionEnds` and
`ImplementsBatches` show that the pool returns once every task does. The other
parts are called and have no scheduler, and state no liveness;
that lookups and merges end is part of the invariant `LookupsAnswer`.

What the runs show:

- Graph: no sequence of calls removes or reconfigures a node below its reader;
  lengths agree; the free list is exact across deletion, reuse and pruning; the
  evaluation order is topological unless the last selection failed; a graph in
  use as a subgraph is frozen as far as evaluation goes.
- Session: although ids of graphs and nodes are used again and deleted graphs live on as
  subgraphs, a context holds the data of the node that is there or none; counts
  of references are exact and no graph comes to use itself.
- Pool: tasks run once, no announcement is lost although it is sent without the
  mutex, a call returns into a quiet pool, the destructor returns.
- Solver: a solver that has learned has seen as many equal shapes as asked for,
  whatever singular or impossible points came between; the length of the output
  is the same in the solver, the graph and the buffer; copies in the workers'
  contexts were made under the options in force.
- Sparse solver: what is answered follows from the equations at that point, and is the
  reduced solution where the shape is the learned one, for every option, after
  sweeping, other needed unknowns, deleted equations, and in a worker; its length is
  the promised one.
- Subgraphs: no answer is made from another point, prime or context, whatever failed
  before, but for two known cases; what was cached is not computed again, nor
  forgotten by a merge.
- Functions: an answer is the value of what was written, modulo the prime of the call, whatever
  was evaluated modulo another one before, in any context, and whatever the numbers
  were before they were changed; it fails exactly where the expression divides by zero; excepted by name are the four cases
  of section 5 (an integer alone that is not below the prime, a sign after a quotient's sign, quotients by integers that the prime divides, large exponents); the
  stack whose size was computed beforehand is never exceeded.
- Univariate reconstruction: a result agrees with all values it was made from, enough of them
  not used to make it; the node answers the coefficients of its own point.
- Caches: entries survive growth, reservation and merging, also where collisions
  wrap around; each table keeps an empty slot, at every intermediate step; memory
  is owned by the cache that points to it.
- Evaluations: a cache that went through files of several lengths, made
  by several processes, for some of the outputs, and cut, holds values of the right outputs
  at every point but those where a load broke off within an entry, and everything that was
  sampled or loaded from a whole file. A point may have several entries; `find` then answers from any of them, and
  `NothingLost` says that one holds the value.
- Reconstruction: although entries of the cache may lack outputs, and the code
  does not look at the flag of the output it reads, no result is made from another output's
  values unless a call reconstructs from another prime than the one that completed an output (`OneStart`); calls that only
  sample, and all calls until an output is completed, may start anywhere; kept results stay; all are handed
  out or none; the retry loop neither lacks points nor asks for primes in vain.
- Front ends: handlers read what the package sends, in every form; they answer once, after they
  have read everything; C functions use what they looked up, drop no failure,
  leak nothing; both drop the workers' copies after options change. The known
  exceptions are named in the properties and in section 5.

## 4. Proofs

| theorem | says | argument |
| --- | --- | --- |
| `FlowGraph_proofs!TypeCorrect` | `[]TypeOK` | one step per operation; record updates stay nodes, listings of finite sets are sequences |
| `FlowGraph_proofs!SlotsAccountedFor` | `[]FreeListExact` | `StructInv`, below |
| `FlowGraph_proofs!InputsStay` | `[]InputsPinned` | `StructInv` |
| `FlowGraph_proofs!LengthsMatch` | `[]WidthsAgree` | `StructInv` |
| `FlowGraph_proofs!EvaluatedNodesLearned` | `[]ReadyToEvaluate` | `ReadyInv`, below |
| `FlowGraph_proofs!SubgraphsAreFrozen` | `FrozenWhileSubgraph` | inductive with `ReadyInv`: a graph in use and its output node are immutable (`InUse`), and so is every node below |
| `FlowGraph_proofs!SequenceStaysInOrder` | `[]SeqIsTopological` | `OrderInv`, below |
| `Session_proofs!ReferencesExact` | `[]CountsExact` | `SessionInv`, below |
| `Session_proofs!NoGraphInItself` | `[]NoCycles` | `SessionInv` |
| `Session_proofs!DataOfTheNode` | `[]DataFits` | `SessionInv` |
| `Session_proofs!NothingLeftBehind` | `[]NothingLeft` | `SessionInv` |
| `Workers_proofs!TasksRunOnce` | `[]ExactlyOnce` | `PoolInv`, below |
| `Workers_proofs!QuietBetweenCalls` | `[]IdleMeansQuiet` | `PoolInv` |
| `Workers_proofs!NoLostWakeup` | `[]ParallelismKept` | inductive with `PoolInv`: sizes of the sets of awake and sleeping workers |
| `Workers_proofs!PoolRunsBatches` | `Spec => BatchesSafety` | each step maps to a step of `TaskBatches` or a stutter, under `PoolInv` |
| `Reconstruction_proofs!ResultsAreOwn` | `[]OwnValues` | `RecInv`, below |
| `Reconstruction_proofs!ReadsAreOwn` | `[]ReadsOwnValues` | `RecInv` |
| `Reconstruction_proofs!ResultsAreWhole` | `[]NothingMissing` | `KeptInv`, below |
| `Reconstruction_proofs!CompletedIsFinal` | `CompletedStays` | `KeptInv` |
| `Reconstruction_proofs!LoopAnswersWell` | `[]LoopAnswers` | `LoopInv`, below |
| `SubgraphNodes_proofs!AnswersAreOwn` | `[]AnswersOwnPoint` | `AnswerInv`, below |
| `SubgraphNodes_proofs!CachesForgetNothing` | `[]NothingForgotten` | inductive with the shape of the caches (`CacheInv`): one step per way an entry moves |
| `FunctionCache_proofs!LookupsAnswerRight` | `[]LookupsAnswer` | `LookInv`, below |
| `FunctionCache_proofs!MemoryIsOwned` | `[]MemoryOwned` | `MemInv`, below |
| `FunctionCache_proofs!CachesAreAStore` | `ImplementsStore` | each step maps to a step of `KeyedStore` or a stutter, under both invariants |
| `Evaluations_proofs!CachesHoldOwnValues` | `[]OwnValuesOnly` | `EvalInv`, below |
| `Evaluations_proofs!NothingIsLost` | `[]NothingLost` | `EvalInv` |
| `Workers_proofs!LearningConfirms` | `[]LearnedIsConfirmed` | `NodeInv`, below |
| `Workers_proofs!CopiesFollowOptions` | `[]CopiesKnowOptions` | inductive: whatever changes an option drops the copies |
| `Workers_proofs!LengthsFollowLearning` | `[]LengthsAgree`, two confirmations at least | inductive with `NodeInv`: the last success of a learning is in the second stage and writes the length |
| `SparseSolver_proofs!OutputIsAsLongAsPromised` | `[]WritesWhatItPromised` | `SolverInv`, below |

The assumptions are those of the modules on their constants (`SlotsAssumption`,
`WidthsAssumption`, `UsersAssumption`, `SessionAssumption`, `PoolAssumption`, `SolverAssumption`,
`ReconstructionAssumption`, `EvaluationsAssumption`, `NVarsAssumption` and `NEqsAssumption`: the sparse solver has
finitely many unknowns and equations; those of `SubgraphNodes` and `FunctionCache`), for the lengths of a solver that `NLearn >= 2` (the code asks
for 3; a single success would be the one that writes no length). The primes that calls may start from are any.
`ResultsAreOwn`, `ReadsAreOwn` and `LoopAnswersWell` hold with the exception `OneStart` that their properties name: an output was
completed by a call from one prime and a later one reconstructs from another, the case of section 5 in which the code does
read other outputs' values.
`AnswersAreOwn` holds with the two exceptions that the property names (`KnownGarbage`: a
memoized failure; `KnownCount`: other coefficients, but as many), `CachesForgetNothing` for data that are
not made again, and `CachesHoldOwnValues` for points that are not `garbled`; `NothingIsLost` has no exception.

`StructInv`. `InputsPinned` is not inductive. `prune_graph` makes the
output node mutable again, so one must know that none of the nodes it leaves reads the
output node. Two facts give that. In every set of live nodes there is one that none of
them reads (`Acyclic`), and the marks of a selection that succeeded are the output node and
nodes that it needs, closed under inputs (`MarksClosed`): of the marked nodes
only the output node can be that one. `new_node` needs `FreeListExact`: the
slot that it fills is empty, so no node's input is overwritten. `WidthsAgree` follows
because the inputs are immutable and `set_input_vars` resizes only a mutable
input node.

`ReadyInv` adds that the output node is there and has the graph's learned flag
(`OutKnown`), and that the marked nodes other than the output have learned
(`MarksLearned`); what an evaluation visits is marked.

`OrderInv`. The sequence is sorted by depth when an output is selected, and not again.
The invariant adds to `StructInv` that depths grow along the edges while the input node is there (`DepthsGrow`;
`set_input_vars` sets the depth of the input node to 0 and
`new_node` takes the depths of its day), and that the sequence lists the
marks by depth (`SeqByDepth`). The marks are then what the output depends on: a
marked node outside would be read by a marked node outside, for ever,
against `Acyclic`.

`SessionInv`. Exact counts, freedom from cycles and right data need each other.
Dropping a reference may destroy any number of graphs: `Destroyed` is the least set that
contains every graph whose references all come from outside, or from graphs of the set. The lemma `DestroyedIsCounted`
shows that exactly the references of its members are accounted for by the set, and `DropCounts`
that the counts of the others stay exact. A destroyed graph has left the table (`DropStep`), so that its
nodes delete no data, even if another graph has its id by then. For freedom from cycles the
invariant says of every set of graphs in memory that one of them uses none of the others and one
is used by none of the others (`Acyclic`); a new subgraph node keeps it because a graph that
accepts a node is mutable, hence used by nobody, and the graph just taken is
not. The second half gives `NothingLeft`: after the table is cleared, in what remained there
would be a graph that nobody refers to. The data fit because the table and the graphs agree on the ids
(`TableInv`), and an id on the free list is given to no graph (`FreeInv`).

`PoolInv`. `ExactlyOnce` is not inductive: nothing in it says which tasks are in
the queue. The invariant adds that the queue holds the tasks pushed last, in
order (`Fifo`), that futures are ready up to the tasks awaited and pending for
what is queued or held (`Futures`), that a held task was taken from
the queue by one worker (`Hands`), and how the counters of the call relate
(`Calls`).

`RecInv`. It says of every prime that, while no call in `starts` started elsewhere, what follows (`OwnInv`) holds for calls from it: before an output is completed
this covers all of them, since entries then lack no output. A batch that lacks output `j` was sampled while `j` was completed. When
`j` was completed its values were in the cache for enough primes, and those
batches come before; a reconstruction of `j`, now or after the results were
handed out, ends there. So the invariant says of every batch without `j` that
`j` is settled by batches that do not include it (`SettledWithout`), and of every completed
output that it is settled (`CompletedSettled`); the rest is that completed
results are of their own output.

`KeptInv`. A call with several threads gives worker `w` of `n` the outputs `w`, `w + n`, ... of
the list of those not completed; a worker tries all of them and returns the first value that is not a success. That a success has
everything needs that the shares together have every entry of the list, once
(`SharesPartition`, from division with remainder), that each worker's list is without repetitions and
without completed outputs (`ListOK`), and that what is neither made nor in a list belongs to a worker
that did not return success (`SharesOK`). Completed outputs stay because no worker has one in its list.

`LoopInv`. The loop asks for points once per prime. It joins `RecInv` and `KeptInv` and
adds, again unless calls started at several primes, that when the reconstruction starts, every batch that the incomplete outputs want for the primes
in use is in the cache (`Enough`), and what a worker's answer means (`RetsOK`): failed only if a function
is too singular, missing primes only if some output needs more.

`AnswerInv`. For the nodes that evaluate another graph several times, one step each: what was
written followed by the points that are left is what was asked (`MapOK`, `FitOK`); a
value kept by sample point in a fit is of this point and prime (`FitOK`); a memo holds the value of its own
point, or garbage (`MemoOK`); the coefficients that were learned are as many as the outputs (`NodeOK`).

`LookInv`. A lookup ends and finds what is there if every slot before that of an entry, on the way
of its key, is taken (`Reached`), and at most half the slots are taken (`TableOK`). The way of a key runs through
every slot once (`SlotsInReach`), so one of them is empty (`EmptySlot`), and there is a
first one (`LeastOfNaturals`). The tables that a rehash or a merge is filling
satisfy the same, with the entries that still wait counted (`Room`, `Waiting`):
`merge` reserves room once for all caches.

`MemInv`. An entry is in the table of the cache that has its memory, and in the main table
also while it is `Borrowed`: copied by a merge that has not yet taken the chunks of
its cache. Every step has one of four effects on entries and memory (`MemEffect`: none,
one made, one lent, all of a cache given), which also are the steps of
`KeyedStore` that the refinement maps to.

`EvalInv`. It says of a file what it says of a cache. In each entry of a point
that is not `garbled` every flagged output reads as its own value or FAILED (`Own`); what is known of a point is
in one of its entries (`CacheOK`); the same goes for a file, with the points that were garbled when it was
dumped (`FileOK`), also after it was cut. `Own` rests on the packing: the position of an
output, one more than the flagged ones before it, is a bijection from the flags to
`1 .. Cardinality(flags)`, since an injection between finite sets of one size is onto
(`Positions`, `PackedFits`), and widening an entry for a file changes no position (`WidenedReads`).

`NodeInv`. The loop of `learn_all` counts successes, the solver keeps a stage of its
own, and the two do not start again together: a pole sets the count back and not the stage, a
shape that differs both. `Streak` relates them: while the loop runs, at
least as many equal shapes were seen as it has counted, and in the first stage it has counted none.

`SolverInv`. The length that the sparse solver reports is the sum of the lengths of
lists that `learn_2_` or `reset_needed` made; an evaluation writes values that it takes row by
row, in another context and after other calls. So the invariant keeps, for a solver that was
confirmed and is in its second stage, the `Promise`: with sparse output there is one list for each dependent unknown,
empty for those that vanish, which come first, and the reported number is the length of all
lists together; with dense output it is the number of dependent unknowns times that of values
for one. A setter that could break it takes the solver out of that stage. That the lists are
sequences at all has to be carried through row reductions, sweeps and selections
(`Shaped`, `RowsListed`), and there it matters that no more unknowns vanish than are dependent, since the code
subtracts the two numbers; `learn_1_` breaks this in between and restores it at its end.
Row reduction, back substitution and the removal of rows are folds. The library
defines a fold by a function that `CHOOSE` picks, on sets of positions; `TreeExists` shows that there is such a
function and `TreeRuns` that it goes from one row to the next, so that what each step keeps holds at the end.
They, and the lengths of concatenations, rest on the least number for which a claim fails.

Only model-checked:

- all liveness (`SessionEnds`, `CallReturns`, the fairness part of `ImplementsBatches`), which is
  beyond the prover;
- `SolvesTheSystem`, `Reconstructs`, `OwnCoefficients`, `MeansWhatItSays`,
  `StackFits`: they compare what a recursion over rows, coefficients or instructions computes with
  its mathematical definition. For the first three that is linear algebra modulo the prime with any number of
  unknowns, from divisions with remainder up, which the library has no facts about; for the
  other two, `RatExpr` declares recursive operators;
- `ReadsThenAnswersOnce`, `SuccessIsEarned`, `NothingLeftOver`: the paths are tables with several hundred
  entries, the run covers all of them, and its only bound is the length of the lists, so that a proof
  would go through the same entries once more.

Where a proof above needs an induction over numbers, it is that every set of numbers
that is not empty has a least element (`LeastOfNaturals`, from the well-foundedness of the numbers: the
set is that of the numbers where the claim fails), or that injections between finite sets of one size are onto: neither has an operator as a parameter.

## 5. Disagreements between code and comments

One is a run whose property states what a header says, and which TLC refutes;
`findings` quotes the line.

- `doc_relearned_copies`: learning again does not drop the data that the workers' contexts
  copied (`graph.cc:803`), as `graph.hh:314` asks for.

The others were seen while modelling. Where a model's behaviour includes one,
its property excepts it by name (`Known...`, `OneStart`, `garbled`, `health`, `fresh`); the
rest lie outside what a run reaches.

*Graph and session.*

- A refused `set_output_node` leaves its marks, so that the lists of pruned nodes
  (`capi.h:714`) and `prune_graph` (`graph.cc:701`) go by another node than the
  output node. After a deletion `prune_graph` dereferences empty slots
  (`graph.cc:697`; `graph.hh:335` allows the call).
- A graph whose output node was deleted keeps its learned flag and is accepted as a
  subgraph (`subgraph.cc:12`).
- The output node of a graph in an external evaluator can be deleted
  (`graph.cc:147`), although `capi_custom_threads.h:31` says that the graph becomes immutable.
- An evaluator of a deleted graph whose id was given to another one copies the data of the other
  one (`graph.cc:2146`). Two evaluators used from threads of the same number
  share a context; `init_subcontexts_` may move the contexts under an evaluation that runs;
  after a setter on the output node, which is still mutable, the copies of an evaluator are not
  made again.
- `hardware_concurrency()` may be 0 by the standard (`graph.cc:1236`): nothing is
  evaluated and the call succeeds.
- With one thread, a reconstruction without evaluations dereferences the
  cache that the parallel call asks for (`graph.cc:1575`, compare 1748).

*Solvers.*

- The impossible flag outlives the learning that set it (`capi.h:435`); in the sparse
  solver, the swept flag does too.
- The setters leave cached samples of the old output in place (`capi.cc:1591`), as
  `graph.hh:317` warns.
- `reset_needed` reads the main context's matrix, whatever it holds
  (`alg_linear_solver.cc:58`), so that its length may also grow; the graph keeps the earlier length afterwards (`graph.cc:394`).
- `isZeroDimSystem` ignores the right-hand side (`matrix.cc:109`): a contradiction is
  answered with zeros.
- Sparse: learning again after an invalidation uses the first equations of the
  shorter list, with flags of the earlier one. Rows move when others are
  removed, so that a later `mark_and_sweep_eqs` takes the equations of other numbers.
  Where a row that is not needed vanishes, the positions of the output are shifted
  and other values are answered. Sparse output is compared by the sizes of the rows
  only; dense output leaves out columns that were not learned. An impossible system keeps the
  length of an earlier learning. A learning that starts in the second stage and is
  invalidated there ends after the first. The rows of a worker's copy stay longer than the
  learned ones. `load_info` leaves out the weights and the numbers of the rows.
- Sparse, undefined: `mark_and_sweep_eqs` and `reset_needed` index by the column of
  an empty row; `set_sparseout_data_` subtracts one from the size of a row that vanished;
  `sparse_output(true)` leaves data empty that an evaluation indexes before the solver has learned
  again; dependencies of equations stay after an invalidation. An evaluation counts on
  `nndeps_ - zerodeps_.size()` positions of rows (`alg_linear_solver.cc:954`), whatever was written of them: when a system that is impossible is
  learned after one that is not and had unknowns that vanish, it reads behind them. A sweep after an
  evaluation at a point where more rows are needed than were learned writes behind them.

*Reconstruction and files.*

- A full reconstruction followed by one modulo another prime may return another output's values
  (`alg_reconstruction.cc:98`; `fflow.py:962` lets each call choose `start_mod`): one output was completed, the call from the other
  prime samples without it, and then reconstructs it again (`OneStart`).
- A failed computation of the degrees leaves them allocated, and allocated
  counts as available (`graph.cc:1174`, 1021).
- Results modulo a prime are kept beside results over the rationals.
- A load that ends within an entry leaves it in the cache, and `dump_evaluations` writes it like any
  other, so that a later load takes it over with SUCCESS. Points that are there
  already are entered twice by `evaluate_list` and by loading, and partial entries are
  copied, and dumped, as full ones (`graph.cc:1340`, 1424).
- A numeric reconstruction tries the same singular prime again
  (`alg_mp_reconstruction.cc:731`). A cache that was never used shifts by
  `EMPTY_` (`function_cache.cc:200`).

*Subgraphs and algorithms.*

- A memoized subgraph stores a failed evaluation and answers it with success
  (`subgraph.cc:200`); its memo does not know the options of the nodes below (191).
- The number of coefficients of a multivariate reconstruction is compared in total only. The
  univariate node never resets the preferred exponents, and learning again replaces its
  functions but not its length. Degrees that were learned at a special point are used
  unchecked. Thiele's formula with degree 0 refuses constants.
- `SubGraphMap` and `SubgraphFit` use the graph after a failed `init`.
- An integer of 18 digits is said to be smaller than the smallest prime and is
  pushed unreduced (`ratexpr_parser.cc:283`); with 32-bit primes (`docs/finiteflow32-build.md:47`) it is not, and where no
  operation follows the answer is not reduced (`KnownUnreduced`). After a quotient's sign a prefix sign inverts itself
  and not the factor: `a/-b` is read as `-a*b` (`KnownQuotientSign`). A negative power of an integer that the prime divides is tested for zero
  before it is reduced, and a coefficient without a residue keeps the residue of another one (`KnownVanishing`). Exponents are taken modulo 2^32 (`KnownExponent`).
- `SparsePoly::add_` adds the remaining terms where it subtracts (`polynomial.cc:161`).

*Front ends.*

- Link: `put_alg_info` answers `$Failed` and goes on with the missing node; the Laurent expansion,
  the weighted sparse system and `graph_evaluate_list` may print errors while
  arguments are unread; one handler answers without ending the packet; the bound of the
  prime numbers is `>` for `>=`; fits subtract one from a number of inputs that may be zero;
  the setters drop the workers' copies also on failure; the length given to
  `set_degrees` is unchecked.
- C: the result of `CopyNonZeroIdxEls` is dropped (`capi.cc:873`); subgraphs without
  inputs look up no graph (682); lists with indexes of functions that failed
  to parse are used (2273); the result of `parallel_sample` is dropped (2514);
  `NewGraphWithInput` answers a graph whose input is `FF_ERROR`;
  `ffLSolveDeleteUnneededEqs` checks neither mutability nor sweeping (1773); `ffLearnEx`
  changes the prime also when it fails.

## 6. What is not modelled

`components` in `PROJECT.json` lists every part with its status. Parsing of rational functions in normal form, JSON, the Python
layer, the older interface in `interface.cc`, and
formatting are input and output, and stay outside but for the comments that
say what a call promises. The vendored formatting and hashing code and the tables of
primes have no behaviour of their own; hash values are a constant of
`FunctionCache`. The nodes of lists (chains, slices, products of matrices) are functions of their inputs. In the modelled components:

- values of field elements are abstracted but in the sparse solver and the univariate
  algorithms, which count modulo a small prime: 64-bit products and the reciprocals of `ffmod.c`
  are beyond TLC's integers;
- the multivariate reconstruction over a prime field and over the rationals, and the
  numeric one, are seen by what they need and answer, not by their arithmetic; univariate and numeric
  reconstruction of a whole graph have no model;
- memory exhaustion and exceptions are left out, and with them the undefined cases of the
  sparse solver listed above;
- exponents of variables are below the limit of `int` in the expressions that `algorithms` reads; functions of several variables are evaluated one variable at a time, and have one here;
- after an evaluation of the sparse solver that failed, `reset_needed` and `mark_and_sweep_eqs` read
  the rows it left, and the rows of a loaded solver have no numbers: neither call is made there;
- on the link, the package's conversions of expressions are left out: a call carries
  well formed arguments.

## 7. Plan

What remains, in the order of importance:

1. Proofs: that the positions of the sparse solver's output agree with the rows that were learned (that
   the output has the length it should is proved); arithmetic modulo a prime, for Newton's interpolation first; the data of `FunctionNodes` per
   context, in a module without the parser; action properties of `Session` and `Evaluations`.
2. `NumericReconstruction`: the loop over primes of a list of numbers, with singular
   primes, Chinese remainders and rational reconstruction of small numbers.
3. Multivariate reconstruction over a small field, against the reference that its result
   agrees with all values, with the points that it asks for; sparse polynomials and their Horner
   forms with it.
4. A session without caches (every call computes from the graph), as an abstract specification that
   the session with caches implements as long as the setters invalidate what
   they must.

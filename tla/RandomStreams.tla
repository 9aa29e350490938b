--------------------------- MODULE RandomStreams ---------------------------
(***************************************************************************)
(* The random numbers of the chains that parallelizer::run runs: the       *)
(* generators of base/Random.cpp, one per OpenMP thread number, drawn from *)
(* without a lock (NUKLEI_RANDOM_SYNC_NONE), and seeded anew in every      *)
(* child of run_fork.                                                      *)
(*                                                                         *)
(* A generator is its seed and its position in the stream of that seed,    *)
(* and a number drawn is that pair: two generators of one seed draw the    *)
(* same numbers.  Of a race on a generator the model keeps the lost        *)
(* increment of the position, not a torn refill of its table.              *)
(***************************************************************************)
EXTENDS Naturals, Sequences

CONSTANTS
  N,              \* the chains of a run
  Method,         \* the parallelization methods
  Thread,         \* nuklei_max_threads()
  Width,          \* 2^32, the number of seeds
  GslDefault,     \* 4357, what gsl_rng_set() makes of the seed 0
  Seed,           \* the seeds of the environment and of the parallelizer
  Parent,         \* the process that calls run()
  None,
  Draws,          \* bound: the numbers a chain draws
  MaxRuns         \* bound: the number of runs

Task == 0 .. N - 1
Generator == 0 .. Thread - 1
Process == Task \union {Parent}

ASSUME MethodAssumption == Method \subseteq {"single", "openmp", "fork", "pthread"}
ASSUME ThreadAssumption == N \in Nat /\ Thread \in Nat \ {0} /\ {Parent, None} \intersect Nat = {}
\* The seed GSL takes for 0 is out of reach of the seeds next to 0.
ASSUME SeedAssumption ==
  /\ Width \in Nat \ {0} /\ Seed \subseteq 0 .. Width - 1
  /\ GslDefault \in N + Thread .. Width - 1 - N - Thread
ASSUME BoundAssumption == Draws \in Nat /\ MaxRuns \in Nat \ {0}

VARIABLES
  method,         \* type_ of the parallelizer
  seed_,          \* seed_ of the parallelizer
  generators,     \* generators[p][g]: gRandGens of process p
  run,            \* the number of the run
  pc,             \* pc[i]: where chain i is
  thread,         \* thread[i]: the number of the thread that runs chain i
  read,           \* read[i]: the generator as the draw of chain i has read it
  drawn           \* drawn[r][i]: what chain i of run r has drawn

vars == <<method, seed_, generators, run, pc, thread, read, drawn>>

Number == [seed : 0 .. Width - 1, position : 0 .. N * Draws * MaxRuns]

TypeOK ==
  /\ method \in Method /\ seed_ \in Seed
  /\ generators \in [Process -> [Generator -> Number]]
  /\ run \in 1 .. MaxRuns
  /\ pc \in [Task -> {"waiting", "idle", "drawing", "done"}]
  /\ thread \in [Task -> Generator]
  /\ read \in [Task -> Number \union {None}]
  /\ drawn \in [1 .. MaxRuns -> [Task -> Seq(Number)]]
  /\ \A r \in 1 .. MaxRuns, i \in Task : Len(drawn[r][i]) <= Draws

\* A wrong conversion: a sum of seeds does not wrap around.
GslSeedWide(s) == IF s = 0 THEN GslDefault ELSE s

\* gsl_rng_set() of an unsigned seed: GSL takes another one for 0.
GslSeed(s) == IF s % Width = 0 THEN GslDefault ELSE s % Width

\* Random::seed(s) makes these of the generators of a process.
seed(s) == [g \in Generator |-> [seed |-> GslSeed(s + g + 1), position |-> 0]]

Init ==
  /\ method \in Method /\ seed_ \in Seed
  /\ \E s \in Seed : generators = [p \in Process |-> seed(s)]
  /\ run = 1
  /\ pc = [i \in Task |-> "waiting"]
  /\ thread = [i \in Task |-> 0]
  /\ read = [i \in Task |-> None]
  /\ drawn = [r \in 1 .. MaxRuns |-> [i \in Task |-> << >>]]

Running == {i \in Task : pc[i] \in {"idle", "drawing"}}

Begin(i) ==
  /\ pc[i] = "waiting"
  /\ pc' = [pc EXCEPT ![i] = "idle"]
  /\ UNCHANGED <<method, seed_, run, read, drawn>>

StartSingle(i) ==
  /\ method = "single" /\ Running = {}
  /\ \A j \in 0 .. i - 1 : pc[j] = "done"
  /\ Begin(i)
  /\ UNCHANGED <<generators, thread>>

\* The schedule of the loop is the OpenMP runtime's.
StartOpenmp(i) ==
  /\ method = "openmp"
  /\ \E t \in Generator \ {thread[j] : j \in Running} :
       thread' = [thread EXCEPT ![i] = t]
  /\ Begin(i)
  /\ UNCHANGED generators

\* A wrong child: it goes by the number of the run too.
StartForkByRun(i) ==
  /\ method = "fork"
  /\ \A j \in 0 .. i - 1 : pc[j] /= "waiting"
  /\ generators' = [generators EXCEPT ![i] = seed(seed_ + i + run)]
  /\ Begin(i)
  /\ UNCHANGED thread

\* The child has a copy of the generators of its parent, and seeds them.
StartFork(i) ==
  /\ method = "fork"
  /\ \A j \in 0 .. i - 1 : pc[j] /= "waiting"
  /\ generators' = [generators EXCEPT ![i] = seed(seed_ + i)]
  /\ Begin(i)
  /\ UNCHANGED thread

StartPthread(i) ==
  /\ method = "pthread"
  /\ \A j \in 0 .. i - 1 : pc[j] /= "waiting"
  /\ Begin(i)
  /\ UNCHANGED <<generators, thread>>

process(i) == IF method = "fork" THEN i ELSE Parent

\* A wrong nuklei_thread_num(): that of a build without OpenMP.
threadZero(i) == 0

\* omp_get_thread_num() is 0 in a thread that OpenMP has not made.
nuklei_thread_num(i) == thread[i]

\* The distributions draw with gsl_rng_get(), which reads the position of the
\* generator ...
DrawReads(i) ==
  /\ pc[i] = "idle" /\ Len(drawn[run][i]) < Draws
  /\ pc' = [pc EXCEPT ![i] = "drawing"]
  /\ read' = [read EXCEPT ![i] = generators[process(i)][nuklei_thread_num(i)]]
  /\ UNCHANGED <<method, seed_, generators, run, thread, drawn>>

\* ... and then increments it.
DrawWrites(i) ==
  /\ pc[i] = "drawing"
  /\ pc' = [pc EXCEPT ![i] = "idle"]
  /\ generators' = [generators EXCEPT ![process(i)][nuklei_thread_num(i)].position =
                      read[i].position + 1]
  /\ drawn' = [drawn EXCEPT ![run][i] = Append(@, read[i])]
  /\ read' = [read EXCEPT ![i] = None]
  /\ UNCHANGED <<method, seed_, run, thread>>

Finish(i) ==
  /\ pc[i] = "idle" /\ Len(drawn[run][i]) = Draws
  /\ pc' = [pc EXCEPT ![i] = "done"]
  /\ thread' = [thread EXCEPT ![i] = 0]
  /\ UNCHANGED <<method, seed_, generators, run, read, drawn>>

\* run() is called again, on the same parallelizer or on an equal one.
RunAgain ==
  /\ run < MaxRuns
  /\ \A i \in Task : pc[i] = "done"
  /\ run' = run + 1
  /\ pc' = [i \in Task |-> "waiting"]
  /\ UNCHANGED <<method, seed_, generators, thread, read, drawn>>

Next ==
  \/ \E i \in Task :
       \/ StartSingle(i) \/ StartOpenmp(i) \/ StartFork(i) \/ StartPthread(i)
       \/ DrawReads(i) \/ DrawWrites(i) \/ Finish(i)
  \/ RunAgain

Spec == Init /\ [][Next]_vars

(***************************************************************************)
(* Properties                                                              *)
(***************************************************************************)
Draw == {d \in (1 .. MaxRuns) \X Task \X (1 .. Draws) : d[3] <= Len(drawn[d[1]][d[2]])}
NumberOf(d) == drawn[d[1]][d[2]][d[3]]

\* No two draws of any chains of any runs give the same number of the same
\* stream, but under pthread, where the chains race on generator 0, and under
\* fork, where a chain repeats the chain of its index in another run.
DrawnOnce ==
  \A c, d \in Draw :
    c /= d /\ NumberOf(c) = NumberOf(d) =>
      \/ method = "pthread"
      \/ method = "fork" /\ c[1] /= d[1] /\ c[2] = d[2] /\ c[3] = d[3]

\* Under fork, what a chain draws follows from seed_ and its index alone: it is
\* the same in every run, whatever the environment's seed and however the
\* chains are interleaved.
ForkRepeats ==
  method = "fork" =>
    \A c, d \in Draw : c[2] = d[2] /\ c[3] = d[3] => NumberOf(c) = NumberOf(d)

=============================================================================

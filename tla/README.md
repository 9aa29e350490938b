# Verification of Nuklei

TLA+ models of [Nuklei](../src), a C++ library of kernel density estimation on
3D poses: collections of kernels, sampling and evaluation of the density they
define, and the estimation of the pose of an object by simulated annealing in
parallel chains.  Paths below are relative to `src/libnuklei/` unless they say
otherwise; a line such as `kernel/PoseEstimator.cpp:408` is a line of the
source the model was written from.

Run a model with `tlc -config <cfg> <module>`, a proof with `tlapm <module>`.

## 1. The system

| component | state it keeps | operations | what is hard in it |
|---|---|---|---|
| **parallelizer** (`base/nuklei/parallelizer*.h`, `base/parallelizer.cpp`) | processes, threads, a local socket, the vector of results | `run()` by OpenMP, fork, boost threads, or in sequence | children connect before the socket exists, throw or die; concurrent `push_back`; a thread that cannot be started; zombies |
| **KernelCollection** (`kernel/KernelCollection*.cpp`) | the kernels and their type; two statistics; six decorations (hull, kd-tree, neighbour tree, mesh, AABB tree, view cache) | container methods, weights and bandwidths, transformation, resampling, surface normals, building of decorations, evaluation | intermediary results must not outlive the kernels they were computed from; references handed out earlier; a tree that refers to a mesh |
| **systematic sampling** (`contrib/trsl-0.2.2`, `KernelCollection::sampleBegin`) | predicate (position, step), iterator, random permutation | construction, increment, `is_first_pick` | exact size, proportions, kernels picked several times, borders, no weight |
| **PoseEstimator** (`kernel/PoseEstimator.cpp`) | object and scene, one chain per task | `load`, `modelToSceneTransformation`, `mcmc`, `metropolisHastings` | steps that give up, infinities and NaN in the acceptance ratio, a loop meant always to decide, partial views; loads that fail midway, queries that need results only on large clouds |
| **ProgressIndicator and Log** (`base/ProgressIndicator.cpp`, `base/Log.cpp`) | position, percentage, state; one mutex; a flag about the last line of the terminal | `setValue`, `inc`, `mtInc`, `forceEnd`, `rewind`, `log` | concurrent increments; lines erased from the terminal; use after `rewind` |
| **Random** (`base/Random.cpp`) | one generator per OpenMP thread, optional mutexes | `init`, `seed`, draws | threads that OpenMP does not number share a generator; children reseed theirs |
| **observation I/O** (`io/`) | per reader: stream, collection or document, index, regions of interest | `init`, `readObservation(s)`, `reset`, detection of the type, writing | half-initialized readers, reset after failure, files cut short or replaced, kernels of several types |
| **storage helpers** (`base/nuklei/assoc_storage.h`, `decoration.h`, `RegionOfInterest.h`) | maps from keys to values, chains of regions | insert, erase, `enqueue`, `contains` | colliding keys, cycles |
| kernels, linear algebra, regression, tools | no state over time, or sequential | numerical | not in reach of a model checker |

How they interact: `modelToSceneTransformation()` initializes the shared
ProgressIndicator and gives `mcmc` to the parallelizer, which runs it once per
chain.  A chain samples model points with `sampleBegin`, evaluates the scene's
density with the kd-tree and statistics of its collection, and calls `mtInc`
every ten steps.  Every implementation of `run()` logs each result, hence takes
`Log::mutex_`, which `mtInc` takes too.  Every chain draws from the generator of
its thread, or, in a child of `run_fork`, from one the child has seeded.  Loading
a cloud creates a reader, whose observations become the kernels of a collection.

What makes each correct: `run()` returns one value of every task or does not
return normally; results of a collection are those of its present kernels; a
sample has its size and its proportions; a chain returns the best pose its steps
left, reachable, and does not throw; a loaded estimator answers every query of
its chains and returns the best of their poses; every increment is counted and
no line of the log is erased; no draw is lost; what is read is what the file
held when it was opened, all of it unless the reader says otherwise.

## 2. Modules

| module | models | state and actions in the code |
|---|---|---|
| `ParallelRun` | the contract of `parallelizer::run` | `results`: the tasks whose value is in the vector; `outcome` |
| `Parallelizer` | `run()`: the choice of the method, and its failures | `type_`; the variables of the three methods below, of which it holds an instance each; the fairness and the properties of all are stated here |
| `ForkRun` | `run_fork` and `reap` | `parent`, `child[i]`: where each process is; `listening`, `sockFile`, `backlog`: the socket; `retv`, by the task whose value it holds. One action per system call or stream operation |
| `OpenmpRun` | `run_openmp`, the critical section, `Log::mutex_`; `run_single` when `Parallelizer` keeps it to the caller and the order of the tasks | `pc[t]`, `task[t]`; `push_back` is a read and a write of the vector, so that a race would show |
| `PthreadRun` | `run_pthread`, `pthread_wrapper` | `thread[i]`; `retv[i]`, the slots, and `alive`, whether they exist: the start of a thread that fails destroys them under the threads that run |
| `KernelCollection` | `KernelCollection` | `kernels`: their types; `version[a]` numbers the contents of an aspect (weights, widths, places), and `totalWeight`, `maxLocCutPoint`, `deco` hold the version they were computed from; `torn` says that an archive threw part way into it. One action per method. Overloads and methods with the same effect share one: `Access` is the family of non-const accessors |
| `SystematicSampling` | `is_picked_systematic`, `persistent_filter_iterator` | the predicate's `position`, `step`, the iterator's `base`; the permutation is any function of partial sums |
| `Metropolis` | `mcmc`, `metropolisHastings`, `recomputeIndices` | `i`: the step of `mcmc`; `pi`: the point of the loop; weights are small numbers, and each comparison with the acceptance ratio is what IEEE arithmetic makes of it; `unexpected` is the throw of `mcmc` on a bandwidth of 0 (line 479) |
| `ProgressIndicator` | `ProgressIndicator`, `Log::log`, the terminal | the members by their names; `screen`: the lines of the terminal |
| `PoseEstimator` | `PoseEstimator`: `load` and its client calls | two instances of `KernelCollection`, the object (`oKernels`, ...) and the scene (`sKernels`, ...), and one of `ParallelRun`. `load` is one action per call it makes on the collections; what stops it is a file that cannot be read, an empty cloud, clouds of two types, or a mesh that cannot be read or built. Exceptions of the libraries that compute normals, trees and views are left out. A chain is what it asks of the collections and the weight it returns |
| `RandomStreams` | `Random` under `run()`, without locks as it is compiled | `generators[p][g]`: the seed and position of generator g of process p; a draw is a read and a write of the position |
| `ReaderContract` | what the client of an `ObservationReader` relies on | `contents` of the file, `todo`: what the reader has still to deliver, `said`: its latest result |
| `ObservationReader` | the readers of ten file types, `readObservation(s)`, `reset`, `createReader`, regions of interest, writers | `stream`: `in_`; `data`: what `init_` loaded, `n` and the index; `head`, `next`: the chain of regions; `tries`, `pass`, `seen`: where a start is. A start is one step for each time the file is opened (`check`, `load`), and `createReader` goes on to the next type in between; `init` gives for each type what the last opening leaves and throws, `readObservation_` one record. `Bare` is an observation without weight and bandwidths, which most writers leave out |
| `MC...` | the constants' values for TLC | |
| `...Proofs` | the proofs about the module of that name | |

In several modules an operator introduced by "A wrong ..." comes before an
action: it is the action with a plausible bug.  It is not part of the
specification; put in the place of the action, it makes a run fail, which shows
that the property of that run can fail.

Abstractions common to all: values, poses and kernels are named, not computed;
numbers of the code that only count are constants (`MinView` is 20 in the code,
`Tries` 100); log levels, colours and wording are left
out.

## 3. What the runs check

| run | bounds | what it shows |
|---|---|---|
| `MCParallelizer` | 3 tasks, of which one may throw or die; 2 OpenMP threads; fork, bind and the start of a thread may fail; every method | complete results or none (`CompleteOnReturn`), nothing vanishes while the parent listens, merged values come once and never move, slots are handed over by the joins; every method ends, `run_fork` unless a child is lost; the contract is implemented. Deadlock is not checked because `run_fork` may wait for ever: that the locks do not block one another is `LoopEnds` |
| `MCKernelCollection` | 2 kernels, 2 types, 1 mesh file, 3 versions of each aspect | results present are fresh, types agree unless a load threw part way, tree and mesh belong together |
| `MCSystematicSampling` | 3 kernels, weights that sum to 3 or 5, samples of 0 to 4, 3 random numbers | exact size, proportions |
| `MCMetropolis` | 4 points, views of 0 to 6, 3 steps, 2 proposals, 3 poses, weights 0 to 3 | the loop decides, results are reachable, the best pose is kept, a weight is never lost |
| `MCProgressIndicator` | 2 threads of 3 calls, scale 4, 2 lines of log, 2 uses | no call is lost, the percentage displayed is right, no line of the log is erased, the calls end |
| `MCPoseEstimator` | objects of 0 or 1 kernels, scenes of 1 or 3, thresholds at 1 and 2 instead of 1000 and 10000, 2 types, 2 loads, 2 chains, 2 weights | no query of a loaded estimator lacks what it needs, unless partial views were asked for after the load; a view is not refused for the type of the object if that is R3 and its normals were wanted; no pose comes from half-loaded clouds; the results of both models are those of their present kernels; no null pointer once loaded |
| `MCRandomStreams` | 2 chains, 2 threads, 4 methods, 3 runs of 2 draws, 16 seeds next to the wrap-around | no two draws give the same number of the same stream, except under `pthread`, where the chains race on one generator, and under `fork`, where a chain repeats the chain of its index in another run (`DrawnOnce`); a child's numbers depend on its index and the parallelizer's seed only |
| `MCObservationReader` | 10 types, files of 0 to 3 records that are whole, short, malformed, masked, mixed, of no known domain or without a last newline, and replaced between and during starts; 4 types of kernels, one with a weight; 2 regions, 2 starts | for every format, the end means that all the records declared were there, read, and delivered if wanted, but for the two cases named; what was written is read back, up to what the format leaves out; a failed `reset` gives nothing of an old file but for the formats named; reads stay within the vectors after a start that succeeded, but for the NUKLEI records named; contract implemented; calls end |

Why the bounds suffice: three children or threads let one fail while the others
are before and after it, and let two connect out of order; two kernels and two
types are the smallest that can disagree, and three versions let a result be
computed, outdated, and computed again; spans, sample sizes and weights of 3, 4
and 5 make sizes that do and do not divide one another, a kernel longer than two
steps, one of weight 0; a scene is below and above each threshold, and after a
second load every pair of outcomes has come in either order; a reader started
twice has been started, failed, and restarted on another file.  While a reader
is between two openings of its file, the run replaces it by another of the same
type or by none (a file of another type is refused the same way).  The proofs
of section 4 remove these bounds for every invariant of these runs; the
properties that are only model-checked, named there, rest on them.

### Runs that TLC refutes

Each checks one statement that the source makes about itself.

| run | what the code does |
|---|---|
| `MCKernelViews` | a new mesh leaves the view cache of the old one (`KernelCollectionMesh.cpp:346`) |
| `MCMetropolisFewPoints` | with one or two model points, the step throws "Reached forbidden state." (`PoseEstimator.cpp:408`, `445`): the test `pi < sqrt(size)` also skips the decision at the last point |
| `MCProgressRewound` | `rewind()` goes to position 0, `initialize()` to `spanStart_` (`base/ProgressIndicator.cpp:222`, `80`): an indicator whose span starts at 1 shows too little in its second use, until `forceEnd()` or the destructor shows 100%. The one rewind in the repository (line 252) is followed by `setValue()`, which states the position; it is `inc()` and `mtInc()` that count from 0 |

### Differences stated in prose

They were met while modelling, and no run is spent on them.

* `reap()` polls: a child that has sent its value and not exited yet becomes a
  zombie, where the comment at `base/parallelizer.cpp:17` promises none.
* `uniformizeWeights()` of an empty collection records the total weight 1
  (`KernelCollection.cpp:198`); the first `add()` drops it.
* A total weight of 0 gives an empty sample whatever the size asked for, though
  `kernel/nuklei/KernelCollection.h:262` says that `sampleBegin()` goes through
  that many kernels; `randomKernel()` then dereferences its end.
* A file may end early in silence: CRD at a line that is not a point
  (`CrdObservationIO.cpp:107`), OFF when its last line has no newline
  (`OffObservationIO.cpp:73`). `EndMeansAll` names both.
* A `PLYReader` cannot be reset once it has read: `init_()` asserts that the
  stream is closed, and `reset()` does not close it (`PLYObservationIO.cpp:106`).
* `NUKLEI_RANDOM_SEED` does not reach the chains of `run_fork`: a child seeds its
  generators with the `seed_` of the parallelizer, 0 by default, and its index,
  whereas `doc_src/input/env_config.txt:27` says that the generators are seeded
  with the variable. Two runs therefore repeat their numbers (`ForkRepeats`).
* `Random::init()` exits on `NUKLEI_PARALLELIZATION=pthread`, and on every value
  but `single` and `openmp`, `fork` included. `Random::seed()` seeds libc only if
  `NUKLEI_RANDOM_SEED` is set (`Random.h:28` says that it does).
* `PoseEstimator`: a second `load()` keeps the bandwidth derived from the first
  object (line 231); with partial views, `findMatchingScore()` adds to the weight
  the chain left in the pose (line 145).
* The same `findMatchingScore()` casts each point to `r3xs2p` when views are used
  (`PoseEstimator.cpp:139`, `KernelCollectionPartialView.cpp:218`). `load()`
  prepares views for every type of object, and the chains, which look at the type
  before they cast, run: of objects of SE3 or R3XS2, or of points whose normals
  were not computed, only the score at the end throws `bad_cast`. `NoQueryUnmet`
  says that this is the only way to it.
* An archive that throws part way leaves the kernels read so far and no type
  (`KernelCollection.h:597`, `634`). `add()` then takes one of any type
  (`Homogeneous` excepts such a collection); a `KernelReader` whose `reset()`
  failed in this way gives what was loaded, all of it from the new file.
* A NUKLEI kernel with an orientation of a domain other than `so3`, `s2p` and `s2`
  leaves `k` null, and `k->setWeight(w)` is undefined
  (`NukleiObservationIO.cpp:380`). `DefinedOnceStarted` names it.
* `CrdReader` opens its file three times and `TxtReader` twice to start; what it
  read is checked, what it reads then is not. A CRD file removed in between is
  taken for a start (line 77), and reading it throws; a TXT file put in place
  there may mix kernels of two types (`MixedOnlyIfUnseen`).
* A child that is lost, before it could connect, by an exception or by a signal,
  leaves the parent of `run_fork` waiting for ever; a boost thread that cannot be
  started makes `run_pthread` throw with its slots, to which the threads started
  before go on writing (`parallelizer.h:131`).
* A chain all of whose steps give up returns its initial pose with weight 0
  (`PoseEstimator.cpp:329`), and a region of interest added twice makes a cycle
  that `contains()` follows for ever (`RegionOfInterest.h:30`).
* `usePartialViewEstimation()` after `load()` leaves the estimator without mesh
  and views: the next estimation throws.

### Fairness

That of the three methods of `run()` is in `Parallelizer`.

* `ForkRun`: weak fairness of the parent and of each child: the operating system
  runs every process that can run. Nothing forces a call to fail, a callable to
  throw, or a child to die; so the property is that `run_fork` ends *unless* a
  child is lost.
* `OpenmpRun`: weak fairness of the steps of each thread; strong fairness of the
  steps that acquire the critical section or the mutex, because others may take
  it in between: the property assumes locks that do not starve a waiting thread.
  It also assumes a callable that reports progress finitely often.
* `PthreadRun`: weak fairness of each thread of control, which waits for nothing
  but a join.
* `ObservationReader`: weak fairness of the rounds of the loop of
  `readObservation()` and of the steps of a start: one thread, which waits for
  nothing.
* `ProgressIndicator`: weak fairness of the threads together: the mutex is taken
  by some thread that wants it. Their calls are finitely many.
* `KernelCollection`, `SystematicSampling`, `Metropolis`, `PoseEstimator` and
  `RandomStreams` state no fairness: nothing is claimed of them but safety.

## 4. What is proved

Every theorem holds for all values of the constants that satisfy the named
assumptions: counts are natural numbers (those of points at least 1), "none" is
none of the values, and files are what other programs and the writers can leave.

* **Types**: in each of the eight modules named below, `TypeCorrect` proves the
  type invariant, and most runs need not check it.
* **`ParallelizerProofs`**: all four invariants of the run, `MergedStays`, and
  `KeepsItsContract`, for every number of tasks and threads.  The inductive
  invariant of each method is an invariant of its instance.
  *fork* (`Complete`, `NoneVanishes`): `Phases` ties the parent's position to its
  resources, and `OneConnection` says that a connection is queued, being read, or
  read, and only one of these; with N distinct values in the vector, a pigeonhole
  lemma gives all of them.
  *OpenMP and single* (`Complete`, `MergedOnce`, `NeverMoved`): the critical section is
  held by the one thread that is in it, what a thread has read of the vector is
  what the vector still holds, and each iteration is either to come, in one
  thread, or in the vector.
  *pthread* (`SlotsAreHandedOver`): a thread that was joined is done.
  *The contract* follows step by step: a `Read`, a merge or a join collects, a
  `Return` returns, a failure fails, and everything else stutters.
* **`KernelCollectionProofs`**: `NoStaleResults`, `OneType`, `TreeHasItsMesh`.
  The invariant is the conjunction of the properties themselves, a collection
  that a load tore included; the argument is by families of methods (those that
  invalidate, those that assign a collection, those that decorate, those that keep
  the contents), a lemma for each.
* **`SystematicSamplingProofs`**: `SampleHasItsSize`, `SampleIsProportional`,
  `FirstPicksAreKnown`, when the total weight is not 0. The invariant says that
  the position is the distance to the next arrow (`Distance`), and that this
  distance, less the steps made within the present kernel, is between 0 and one
  step (`WithinStep`): two multiples of the step that differ by less than a step
  are equal.
* **`MetropolisProofs`**: `ReachableResult`, `KeepsTheBest`, `KeepsAWeight`, and
  `DecidesWithThreePoints`: with three points or more the last one lies beyond
  the square root of their number. This is the exact border of the finding above.
* **`PoseEstimatorProofs`**: `QueriesAreMet`, `PosesAreOfOneLoad`, `PoseIsBest`,
  `NoCrash`, for clouds of every size, any thresholds and number of chains. The
  invariant says at each step of `load()` which results exist: after `front()`
  none, after `statistics` both cut points, after `tree` the kd-tree, after
  `cache` the mesh, its tree and the views. Before the end of a load, either the
  object has no total weight, so that no chain can sample it, or the view cache
  is what is missing. The lemmas say which results each method of the collection
  leaves. `ResultsAreFresh` and `TypeCorrect` have an invariant of their own,
  `TInv`: both models are well-typed and all they hold is fresh (`ObjectOK`,
  `SceneOK`), and a scene about to be reduced has more kernels than the sample
  that replaces it (`Reducible`). Its lemmas come in pairs, one for each of the
  two instances of `KernelCollection`: the prover does not take the theorems of
  that module for its instances.

* **`RandomStreamsProofs`**: `DrawnDifferently` and `Repeats`, for any number of
  tasks, threads, draws and runs.  Draws of two chains can only meet if their
  generators have the same seed and position.  The invariant says that a number
  drawn is one that its generator has passed (`Passed`), that each thread runs
  one chain at a time (`Placed`), so that the number it has read is still the next
  one (`Current`), that the generators of two threads have different seeds
  (`Apart`), and what a child draws (`Children`).  `Apart` needs an argument about
  the wrap-around, because seeds count up modulo 2^32 and GSL replaces the seed 0
  by its default one: `SeedAssumption` asks that there be fewer threads and chains
  than lie between that default and 0.  Chains of `pthread` race on one generator:
  `DrawnOnce` claims nothing of them.

* **`ProgressIndicatorProofs`**: `NoCallLost`, `ShowsTheCallsMade`, `KeepsTheLog`.
  `Locked` says who holds the mutex and what it has read, `Positioned` that the
  position is the number of calls made, and `Advanced` that the percentage on the
  screen is the quotient of this position by the scale, which needs lemmas about
  `\div`; `Screened` follows the last line of the terminal and the flag about it.
  The two about the percentage assume `RewoundToStart`: the span starts at 0 or the
  indicator is used once.  Without it they are false, which is the third finding.
* **`ObservationReaderProofs`**: all seven invariants of the run, for all files,
  any regions, and any number of readers and starts.  Lemma `Outcome` says what an
  opening of the file leaves behind whether it returns or throws, `Reads` what one
  call of `readObservation_()` does, both for all ten formats; `Steps` reduces
  every step of the reader to them.  `Inv` says which of stream, collection,
  document and index a reader of each format uses, at rest and between two
  openings, and that what it has loaded is complete unless the last start threw.
  `Held` adds that everything in it comes from its file (`GivesNothingStale`,
  `ReadsWithin`, `MixedFilesRefused`).  `Underway` follows what is left of a file
  that was just opened, what the file had to satisfy for the reader to have come
  so far, and what the collection holds; `NextRead` is its step, and the
  theorems `EndsWithTheFile`, `ReadsBackTheWritten` are what it says at the end:
  for each format, that the end is only met when no record is left and that a
  record that could not be read was an error, but for the two named.  `Linked`
  says that the chain of regions has an end, and that only regions that were added
  are on it (`ChainsEnd`).
  `KeepsItsContract` is the refinement of `ReaderContract`: `Gives` says, for each
  format, what a call takes from what is left to deliver (`Left`), namely its
  first observation, nothing, or all of it when the reader throws; a start
  leaves all of the file (`AllLeft`), and every step is then one of the contract.
  What is left is a filtered sequence, and its lemmas are inductions on the number
  of records.  The library's theorem of induction takes an operator, which the
  provers cannot instantiate; the induction here is over a set of numbers
  (`NatBySets`), from the theorem that a well-founded relation has minimal
  elements.  For its sake `ItemsOf` is a recursive function and not `SelectSeq`.
  `RoundsRunOut` is the part of the liveness property `Ends` that a proof can
  reach: each round of a call leaves it less to read.

Every invariant that a passing run checks is the statement of a theorem, and so
are `MergedStays` and the two refinements, `ImplementsRun` and
`ImplementsContract`.  Only model-checked are the liveness properties, `ForkEnds`,
`LoopEnds`, `PthreadEnds` and the two called `Ends`: the prover does not handle
fairness and ENABLED.

## 5. What is not modelled

* What `evaluationAt()` needs depends on the size of the collection (with at most
  1000 kernels, neither statistics nor kd-tree). `KernelCollection` has no action
  for a query, which changes nothing; `PoseEstimator` has those of its chains.
* A race of `pthread` chains on the first generator: the model has the lost
  increment of the position, not a table that is refilled by two threads at once.
  The two kinds of locks are chosen by editing `Random.cpp` and are left out, and
  so is `Random::triangle()`, which draws from generators of its own and which no
  chain calls.
* Of observations, descriptors, colours and the rounding of numbers, which most
  writers lose, too; of archives, the formats other than binary compressed, which
  is the one the writers use.
* How text becomes numbers, hence the blank line that makes `TxtReader` look at
  the last of no tokens (`TxtObservationIO.cpp:49`). The CoViS3D and IIS readers
  wrap libraries that are not in the repository. Counters of labels in the log.
* Where the views of the cache are looked up: line 239 of
  `KernelCollectionPartialView.cpp` compares a squared distance with the square
  of one; which view is used is arbitrary in the models.
* `normalizeWeights`, `uniformizeWeights` and `setKernelLocH` keep the results
  (`kernel/nuklei/KernelCollection.h:81` announces that every modification drops
  them); `ResultsFresh` shows that none goes stale: they set the statistic they
  change, and no decoration depends on it.
* Arithmetic: densities, distances, moments, meshes, surface normals; rounding
  in the sampling. Parsing and formatting of files.
* `setKernelOriH`, `setFlag`, `clearDescriptors`: no result depends on what they
  change.
* With `run_fork`, each child has its own copy of the ProgressIndicator and of
  the flag about the last line, so that a child can erase a line its parent
  logged: the model has the threads of `run_openmp`.
* `inc()` and `setValue()` from outside are `mtInc()` without the lock, and are
  used by single-threaded callers only.
* The sequence "the first run of a chain gives up" deserves a remark: the chain
  has weight 0, the ratio of an independent proposal is infinity times 0, and is
  never accepted; only local moves around the initial pose can take the chain
  away from it (`MayAccept`).

## 6. Plan

Done: sections 2 to 4. What is left, in this order:

1. For each liveness property, what `RoundsRunOut` is for `Ends`: a quantity that
   every step of a call decreases, and a step that is possible while it is not 0.
2. `AssocStorage` and the sorted iterator against reference definitions: small,
   sequential, and in use by few callers.

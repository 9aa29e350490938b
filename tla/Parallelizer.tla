---------------------------- MODULE Parallelizer ----------------------------
(***************************************************************************)
(* parallelizer::run (base/nuklei/parallelizer_decl.h:56-86): one call, by *)
(* the method that type_ names.  Each method is a module of its own, of    *)
(* which this one holds an instance: those not chosen stay as they were    *)
(* initialized.  The constants' assumptions for all of them are here.      *)
(***************************************************************************)
EXTENDS Integers, Sequences

CONSTANTS
  N,              \* n_, the number of tasks
  Type,           \* the values of type_
  Thread,         \* the OpenMP threads
  Caller,         \* the thread that calls run()
  Faulty,         \* the tasks whose callable may throw or whose child may die
  OsMayFail,      \* may fork(), or the creation of the socket, fail?
  SpawnMayFail,   \* may the operating system refuse a thread?
  None            \* no task, thread or connection

ASSUME TypeAssumption == Type \subseteq {"openmp", "fork", "pthread", "single", "unknown"}
ASSUME NAssumption == N \in Nat
ASSUME CallerAssumption == Caller \in Thread
ASSUME NoneAssumption == None \notin Thread \union Nat
ASSUME FailureAssumption == OsMayFail \in BOOLEAN /\ SpawnMayFail \in BOOLEAN

Task == 0 .. N - 1

VARIABLES
  type_,          \* the method, which the constructor sets for good
  refused         \* has run() thrown because the method is unknown?

\* Those of run_fork, run_openmp and run_pthread; received and slot are the
\* vectors that run_fork and run_pthread call retv.
VARIABLES parent, forked, child, sent, listening, sockFile, backlog, current, received
VARIABLES todo, pc, task, seen, merge, logMutex, retv, outcome
VARIABLES main, spawned, thread, slot, alive, joined

Fork == INSTANCE ForkRun WITH retv <- received
Openmp == INSTANCE OpenmpRun
Pthread == INSTANCE PthreadRun WITH retv <- slot

forkVars == <<parent, forked, child, sent, listening, sockFile, backlog, current, received>>
loopVars == <<todo, pc, task, seen, merge, logMutex, retv, outcome>>
pthreadVars == <<main, spawned, thread, slot, alive, joined>>
vars == <<type_, refused, forkVars, loopVars, pthreadVars>>

Init ==
  /\ type_ \in Type
  /\ refused = FALSE
  /\ Fork!Init /\ Openmp!Init /\ Pthread!Init

run_fork(Step) ==
  /\ type_ = "fork"
  /\ Step
  /\ UNCHANGED <<type_, refused, loopVars, pthreadVars>>

run_pthread(Step) ==
  /\ type_ = "pthread"
  /\ Step
  /\ UNCHANGED <<type_, refused, forkVars, loopVars>>

\* run_single is the loop of run_openmp in the order of the tasks, in the
\* thread of the caller; an exception of the callable reaches the caller.
InOrder ==
  /\ \A t \in Thread \ {Caller} : pc'[t] = pc[t]
  /\ \A i \in todo \ todo', j \in todo' : i < j

run_loop(Step) ==
  /\ type_ \in {"openmp", "single"}
  /\ Step
  /\ type_ = "single" => InOrder
  /\ UNCHANGED <<type_, refused, forkVars, pthreadVars>>

\* NUKLEI_THROW("Unknown parallelization method.")
Refuse ==
  /\ type_ = "unknown"
  /\ ~refused
  /\ refused' = TRUE
  /\ UNCHANGED <<type_, forkVars, loopVars, pthreadVars>>

Next ==
  \/ run_fork(Fork!Next)
  \/ run_loop(Openmp!Next)
  \/ run_pthread(Pthread!Next)
  \/ Refuse

Spec == Init /\ [][Next]_vars

\* Every process that can run is run by the operating system; nothing makes a
\* system call fail, a callable throw or a child die.
ForkFairness ==
  /\ WF_vars(run_fork(Fork!ParentNext))
  /\ \A i \in Task : WF_vars(run_fork(Fork!ChildNext(i)))

\* Threads are scheduled, the callable returns (its progress reports are
\* finitely many), and the mutex is handed to every thread that keeps asking.
LoopFairness ==
  /\ WF_vars(run_loop(Openmp!Return))
  /\ \A t \in Thread :
       /\ WF_vars(run_loop(Openmp!Works(t)))
       /\ SF_vars(run_loop(Openmp!CallReturns(t)))
       /\ SF_vars(run_loop(Openmp!EnterMerge(t)))
       /\ SF_vars(run_loop(Openmp!BeginInfo(t)))

PthreadFairness ==
  /\ WF_vars(run_pthread(Pthread!MainNext))
  /\ \A i \in Task : WF_vars(run_pthread(Pthread!ThreadNext(i)))

FairSpec == Spec /\ ForkFairness /\ LoopFairness /\ PthreadFairness

(***************************************************************************)
(* Properties                                                              *)
(***************************************************************************)
TypeOK ==
  /\ type_ \in Type /\ refused \in BOOLEAN
  /\ Fork!TypeOK /\ Openmp!TypeOK /\ Pthread!TypeOK

\* run() never returns with a value missing, or with one read or merged twice:
\* the vector holds exactly one value of every task, whatever the order in
\* which children connect or threads get through.
CompleteOnReturn ==
  /\ parent = "returned" => Len(received) = N /\ Fork!Delivered = Task
  /\ outcome = "returned" => Len(retv) = N /\ Openmp!Merged = Task

\* As long as no child has been lost, nothing that the parent needs can be
\* missing: the values are read, waiting in the socket, or still to come.
NothingVanishes == Fork!NothingVanishes

\* Every iteration is waiting, in a thread's hands, or in the vector, once.
EachIterationOnce == Openmp!EachIterationOnce

\* A value once merged is never dropped or moved: concurrent push_backs would
\* overwrite one another (the critical section at parallelizer.h:34).
MergedStays == [][SubSeq(retv', 1, Len(retv)) = retv]_vars

\* The caller touches a slot, and gives the vector away, only when the slot
\* holds its value and no thread can write to it any more: the joins order
\* every store before every read.
SlotHandover == Pthread!SlotHandover

\* run_fork ends, and all its children, but for a parent that waits for a child
\* that was lost.
ForkEnds == (type_ = "fork" => Fork!EndsUnlessLost) /\ Fork!ChildrenEnd

\* The two locks never keep each other: every thread gets through, although it
\* takes Log::mutex_ inside the critical section and in the callable too.
LoopEnds == type_ \in {"openmp", "single"} => Openmp!Returns

\* run_pthread ends, whichever call fails or is slow; the threads too.
PthreadEnds == type_ = "pthread" => Pthread!Ends

\* Whatever the method, run() keeps its contract.
Collected ==
  CASE type_ = "fork" -> Fork!Delivered
    [] type_ = "pthread" -> Pthread!Collected
    [] OTHER -> Openmp!Merged

Ending ==
  CASE type_ = "fork" -> Fork!Ending
    [] type_ = "pthread" -> Pthread!Ending
    [] type_ = "unknown" -> IF refused THEN "failed" ELSE "running"
    [] OTHER -> Openmp!Ending

Contract == INSTANCE ParallelRun WITH results <- Collected, outcome <- Ending

ImplementsRun == Contract!Spec
=============================================================================

----------------------------- MODULE OpenmpRun -----------------------------
(***************************************************************************)
(* parallelizer::run_openmp (base/nuklei/parallelizer.h:22-43) with the    *)
(* two locks its threads meet: the critical section                        *)
(* nuklei_parallelizer_merge around retv.push_back, and Log::mutex_, taken *)
(* inside that section by NUKLEI_INFO (base/Log.cpp:48) and, during the    *)
(* callable, by ProgressIndicator::mtInc (base/ProgressIndicator.cpp:198). *)
(* run_single (parallelizer.h:145-158) goes through the same states with   *)
(* one thread: module Parallelizer.                                        *)
(***************************************************************************)
EXTENDS Naturals, Sequences, Functions

CONSTANTS
  N,              \* n_, the number of iterations
  Thread,         \* the OpenMP threads
  Faulty,         \* the iterations whose callable may throw
  None

Task == 0 .. N - 1

VARIABLES
  todo,           \* the iterations no thread has started
  pc,             \* pc[t]: where thread t is in the loop's body
  task,           \* task[t]: the iteration thread t runs, or None
  seen,           \* seen[t]: the vector as thread t's push_back read it
  merge,          \* the thread in the critical section, or None
  logMutex,       \* the thread that holds Log::mutex_, or None
  retv,
  outcome         \* "running", "returned", or "aborted" by std::terminate

vars == <<todo, pc, task, seen, merge, logMutex, retv, outcome>>

PC == {"idle",
       "call",      \* in the callable
       "progress",  \* in the callable, reporting progress under Log::mutex_
       "merge",     \* waiting for the critical section
       "read", "write",                    \* the two halves of push_back
       "info", "logging"}                  \* waiting for, holding Log::mutex_

TypeOK ==
  /\ todo \subseteq Task
  /\ pc \in [Thread -> PC]
  /\ task \in [Thread -> Task \union {None}]
  /\ seen \in [Thread -> Seq(Task)]
  /\ merge \in Thread \union {None}
  /\ logMutex \in Thread \union {None}
  /\ retv \in Seq(Task)
  /\ outcome \in {"running", "returned", "aborted"}

Init ==
  /\ todo = Task
  /\ pc = [t \in Thread |-> "idle"]
  /\ task = [t \in Thread |-> None]
  /\ seen = [t \in Thread |-> << >>]
  /\ merge = None
  /\ logMutex = None
  /\ retv = << >>
  /\ outcome = "running"

Goes(t, from, to) ==
  /\ outcome = "running"
  /\ pc[t] = from
  /\ pc' = [pc EXCEPT ![t] = to]

\* The schedule of the loop is the OpenMP runtime's: any thread, any order.
Start(t) ==
  /\ Goes(t, "idle", "call")
  /\ \E i \in todo :
       /\ todo' = todo \ {i}
       /\ task' = [task EXCEPT ![t] = i]
  /\ UNCHANGED <<seen, merge, logMutex, retv, outcome>>

BeginProgress(t) ==
  /\ Goes(t, "call", "progress")
  /\ logMutex = None
  /\ logMutex' = t
  /\ UNCHANGED <<todo, task, seen, merge, retv, outcome>>

EndProgress(t) ==
  /\ Goes(t, "progress", "call")
  /\ logMutex' = None
  /\ UNCHANGED <<todo, task, seen, merge, retv, outcome>>

CallReturns(t) ==
  /\ Goes(t, "call", "merge")
  /\ UNCHANGED <<todo, task, seen, merge, logMutex, retv, outcome>>

\* An exception may not leave an OpenMP region: the process is terminated.
CallThrows(t) ==
  /\ outcome = "running"
  /\ pc[t] = "call"
  /\ task[t] \in Faulty
  /\ outcome' = "aborted"
  /\ UNCHANGED <<todo, pc, task, seen, merge, logMutex, retv>>

\* A wrong EnterMerge: the section is not critical.
EnterMergeFreely(t) ==
  /\ Goes(t, "merge", "read")
  /\ merge' = t
  /\ UNCHANGED <<todo, task, seen, logMutex, retv, outcome>>

EnterMerge(t) ==
  /\ Goes(t, "merge", "read")
  /\ merge = None
  /\ merge' = t
  /\ UNCHANGED <<todo, task, seen, logMutex, retv, outcome>>

PushRead(t) ==
  /\ Goes(t, "read", "write")
  /\ seen' = [seen EXCEPT ![t] = retv]
  /\ UNCHANGED <<todo, task, merge, logMutex, retv, outcome>>

PushWrite(t) ==
  /\ Goes(t, "write", "info")
  /\ retv' = Append(seen[t], task[t])
  /\ UNCHANGED <<todo, task, seen, merge, logMutex, outcome>>

\* NUKLEI_INFO, with the critical section held.
BeginInfo(t) ==
  /\ Goes(t, "info", "logging")
  /\ logMutex = None
  /\ logMutex' = t
  /\ UNCHANGED <<todo, task, seen, merge, retv, outcome>>

\* A wrong LeaveMerge: the mutex of the log is not released.
LeaveMergeLocked(t) ==
  /\ Goes(t, "logging", "idle")
  /\ merge' = None
  /\ task' = [task EXCEPT ![t] = None]
  /\ UNCHANGED <<todo, seen, logMutex, retv, outcome>>

LeaveMerge(t) ==
  /\ Goes(t, "logging", "idle")
  /\ logMutex' = None
  /\ merge' = None
  /\ task' = [task EXCEPT ![t] = None]
  /\ UNCHANGED <<todo, seen, retv, outcome>>

\* The barrier at the end of the parallel loop.
Return ==
  /\ outcome = "running"
  /\ todo = {}
  /\ \A t \in Thread : pc[t] = "idle"
  /\ outcome' = "returned"
  /\ UNCHANGED <<todo, pc, task, seen, merge, logMutex, retv>>

\* What a thread does without reporting progress again.
Advance(t) ==
  \/ Start(t) \/ EndProgress(t) \/ CallReturns(t)
  \/ EnterMerge(t) \/ PushRead(t) \/ PushWrite(t)
  \/ BeginInfo(t) \/ LeaveMerge(t)

\* What a thread does without waiting for another, once it is in the loop.
Works(t) ==
  Start(t) \/ EndProgress(t) \/ PushRead(t) \/ PushWrite(t) \/ LeaveMerge(t)

Ended == outcome /= "running" /\ UNCHANGED vars

Next ==
  \/ \E t \in Thread : Advance(t) \/ BeginProgress(t) \/ CallThrows(t)
  \/ Return
  \/ Ended

Spec == Init /\ [][Next]_vars

(***************************************************************************)
(* Properties                                                              *)
(***************************************************************************)
Merged == Range(retv)

\* A value once merged is never dropped or moved: concurrent push_backs would
\* overwrite one another (the critical section at parallelizer.h:34).
MergedStays ==
  [][SubSeq(retv', 1, Len(retv)) = retv]_vars

\* Every iteration is waiting, in a thread's hands, or in the vector, once.
EachIterationOnce ==
  /\ IsInjective(retv)
  /\ Merged \intersect todo = {}
  /\ \A i \in Task \ (todo \union Merged) :
       \E t \in Thread : task[t] = i /\ pc[t] \notin {"idle", "info", "logging"}

\* The two locks never keep each other: every thread gets through, although it
\* takes Log::mutex_ inside the critical section and in the callable too.
Returns == <>(outcome /= "running")

\* run_openmp implements the contract of run().
Ending == IF outcome = "aborted" THEN "failed" ELSE outcome

Contract == INSTANCE ParallelRun WITH results <- Merged, outcome <- Ending
=============================================================================

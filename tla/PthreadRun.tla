----------------------------- MODULE PthreadRun -----------------------------
(***************************************************************************)
(* parallelizer::run_pthread (base/nuklei/parallelizer.h:107-143) and      *)
(* pthread_wrapper (base/nuklei/parallelizer_decl.h:98-107).  The caller   *)
(* allocates one slot per task, starts one boost::thread per task with a   *)
(* reference to its slot, then joins the threads in the order of their     *)
(* tasks and reads each slot after the join.                               *)
(*                                                                         *)
(* When a boost::thread cannot be started its constructor throws: the      *)
(* vectors of run_pthread are destroyed while the threads started before   *)
(* go on, detached, with references into the destroyed slots.              *)
(***************************************************************************)
EXTENDS Integers

CONSTANTS
  N,              \* n_, the number of threads
  Faulty,         \* the tasks whose callable may throw
  SpawnMayFail    \* may the operating system refuse a thread?

Task == 0 .. N - 1

VARIABLES
  main,           \* where the caller is in run_pthread
  spawned,        \* the number of threads started
  thread,         \* thread[i]: where thread i is
  retv,           \* retv[i]: is the value of task i in its slot?
  alive,          \* do the slots exist?
  joined          \* the number of threads joined

vars == <<main, spawned, thread, retv, alive, joined>>

MainState == {"spawn", "join", "read", "returned", "threw", "aborted"}
ThreadState == {"none", "call", "store", "done"}

TypeOK ==
  /\ main \in MainState
  /\ spawned \in 0 .. N
  /\ thread \in [Task -> ThreadState]
  /\ retv \in [Task -> BOOLEAN]
  /\ alive \in BOOLEAN
  /\ joined \in 0 .. N

Init ==
  /\ main = "spawn"
  /\ spawned = 0
  /\ thread = [i \in Task |-> "none"]
  /\ retv = [i \in Task |-> FALSE]
  /\ alive = TRUE
  /\ joined = 0

Spawn ==
  /\ main = "spawn"
  /\ spawned < N
  /\ thread' = [thread EXCEPT ![spawned] = "call"]
  /\ spawned' = spawned + 1
  /\ UNCHANGED <<main, retv, alive, joined>>

SpawnFails ==
  /\ SpawnMayFail
  /\ main = "spawn"
  /\ spawned < N
  /\ main' = "threw"
  /\ alive' = FALSE
  /\ UNCHANGED <<spawned, thread, retv, joined>>

SpawnsDone ==
  /\ main = "spawn"
  /\ spawned = N
  /\ main' = "join"
  /\ UNCHANGED <<spawned, thread, retv, alive, joined>>

\* A wrong Join: the caller does not wait.
JoinAtOnce ==
  /\ main = "join"
  /\ joined < N
  /\ main' = "read"
  /\ UNCHANGED <<spawned, thread, retv, alive, joined>>

\* threads.at(i)->join()
Join ==
  /\ main = "join"
  /\ joined < N
  /\ thread[joined] = "done"
  /\ main' = "read"
  /\ UNCHANGED <<spawned, thread, retv, alive, joined>>

\* A wrong ReadSlot: the same thread is joined again.
ReadSlotAgain ==
  /\ main = "read"
  /\ main' = "join"
  /\ UNCHANGED <<spawned, thread, retv, alive, joined>>

\* pa(retv.at(i)), the first use of the slot by the caller.
ReadSlot ==
  /\ main = "read"
  /\ main' = "join"
  /\ joined' = joined + 1
  /\ UNCHANGED <<spawned, thread, retv, alive>>

Return ==
  /\ main = "join"
  /\ joined = N
  /\ main' = "returned"
  /\ UNCHANGED <<spawned, thread, retv, alive, joined>>

CallReturns(i) ==
  /\ main /= "aborted"
  /\ thread[i] = "call"
  /\ thread' = [thread EXCEPT ![i] = "store"]
  /\ UNCHANGED <<main, spawned, retv, alive, joined>>

\* An exception that leaves a thread's function terminates the process.
CallThrows(i) ==
  /\ main /= "aborted"
  /\ i \in Faulty
  /\ thread[i] = "call"
  /\ main' = "aborted"
  /\ UNCHANGED <<spawned, thread, retv, alive, joined>>

\* ret = callable_(): the value is stored through the reference.  A thread that
\* outlives the slots, after a failed start, stores in memory that is no longer
\* the vector's, which is undefined; no slot is left for it to change.
Store(i) ==
  /\ main /= "aborted"
  /\ thread[i] = "store"
  /\ thread' = [thread EXCEPT ![i] = "done"]
  /\ retv' = IF alive THEN [retv EXCEPT ![i] = TRUE] ELSE retv
  /\ UNCHANGED <<main, spawned, alive, joined>>

MainNext == Spawn \/ SpawnsDone \/ Join \/ ReadSlot \/ Return
ThreadNext(i) == CallReturns(i) \/ Store(i)

\* The caller may end while threads run; nothing else ends the system.
Ended ==
  /\ \/ main = "aborted"
     \/ /\ main \in {"returned", "threw"}
        /\ \A i \in Task : thread[i] \in {"none", "done"}
  /\ UNCHANGED vars

Next ==
  \/ MainNext
  \/ SpawnFails
  \/ \E i \in Task : ThreadNext(i) \/ CallThrows(i)
  \/ Ended

Spec == Init /\ [][Next]_vars

(***************************************************************************)
(* Properties                                                              *)
(***************************************************************************)
\* The caller touches a slot, and gives the vector away, only when the slot
\* holds its value and no thread can write to it any more: the joins order
\* every store before every read.
SlotHandover ==
  /\ main = "read" => thread[joined] = "done" /\ retv[joined]
  /\ main = "returned" => \A i \in Task : thread[i] = "done" /\ retv[i]

\* run_pthread ends, whichever call fails or is slow; the threads too.
Ends ==
  <>(\/ main = "aborted"
     \/ /\ main \in {"returned", "threw"}
        /\ \A i \in Task : thread[i] \in {"none", "done"})

\* run_pthread implements the contract of run().
Collected == 0 .. joined - 1

Ending ==
  CASE main = "returned" -> "returned"
    [] main \in {"threw", "aborted"} -> "failed"
    [] OTHER -> "running"

Contract == INSTANCE ParallelRun WITH results <- Collected, outcome <- Ending
=============================================================================

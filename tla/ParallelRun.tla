---------------------------- MODULE ParallelRun ----------------------------
(***************************************************************************)
(* What parallelizer::run promises its caller, whatever the implementation *)
(* (OpenMP, fork, boost threads): the callable is run once per task, each  *)
(* value it returns reaches the vector given to the caller exactly once,   *)
(* and run() returns normally only with the values of ALL the tasks.       *)
(* Otherwise it ends by an exception, or takes the process down.           *)
(***************************************************************************)
EXTENDS Naturals

CONSTANT N        \* n_, the number of tasks

Task == 0 .. N - 1

VARIABLES
  results,        \* the tasks whose value is in the caller's vector
  outcome         \* how run() ended, "running" until then

vars == <<results, outcome>>

Outcome == {"running", "returned", "failed"}

TypeOK ==
  /\ results \subseteq Task
  /\ outcome \in Outcome

Init ==
  /\ results = {}
  /\ outcome = "running"

Collect(i) ==
  /\ outcome = "running"
  /\ i \notin results
  /\ results' = results \union {i}
  /\ UNCHANGED outcome

Return ==
  /\ outcome = "running"
  /\ results = Task
  /\ outcome' = "returned"
  /\ UNCHANGED results

Fail ==
  /\ outcome = "running"
  /\ outcome' = "failed"
  /\ UNCHANGED results

Next ==
  \/ \E i \in Task : Collect(i)
  \/ Return
  \/ Fail

Spec == Init /\ [][Next]_vars
=============================================================================

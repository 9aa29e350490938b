----------------------------- MODULE Metropolis -----------------------------
(***************************************************************************)
(* One chain of the pose estimator: PoseEstimator::mcmc, the Metropolis-   *)
(* Hastings step it repeats, and the choice of the model points a step     *)
(* looks at (kernel/PoseEstimator.cpp:270-498).                            *)
(*                                                                         *)
(* A weight is a small natural number: what matters is which weights are   *)
(* 0 and how they compare.  The acceptance ratio                           *)
(*    dec = (next/current)^(1/T), times current/next if independent        *)
(* is a real number, an infinity or a NaN, and each comparison with it is  *)
(* modelled by what IEEE arithmetic makes of it, for every threshold in    *)
(* [0,1[ and every temperature of Ti() (at most 1/2).                      *)
(***************************************************************************)
EXTENDS Integers

CONSTANTS
  Points,         \* n, the number of model points to use
  PartialView,    \* partialview_
  ViewSize,       \* the numbers of points a partial view may show
  MinView,        \* the fewest points a view is used with (20 in the code)
  Tries,          \* the proposals made before a step gives up (100)
  Steps,          \* nSteps
  Pose,
  Reachable,      \* the poses that pass cif_->test()
  Identity,       \* the pose a chain starts with
  MaxWeight

ASSUME PointsAssumption == Points \in Nat \ {0}
ASSUME ViewAssumption ==
  PartialView \in BOOLEAN /\ ViewSize \subseteq Nat /\ MinView \in Nat \ {0}
ASSUME CountAssumption == Tries \in Nat /\ Steps \in Nat
ASSUME PoseAssumption == Reachable \subseteq Pose /\ Identity \in Pose
ASSUME WeightAssumption == MaxWeight \in Nat

VARIABLES
  pc,             \* where the chain is
  i,              \* the step, -1 for the first run
  independent,    \* independentProposal
  count,          \* the proposals discarded in this step
  size,           \* indices.size()
  pi,             \* the next point to look at
  nextPose,
  currentPose, currentWeight,
  bestPose, bestWeight,
  highest         \* history: the highest weight held after a step of mcmc()

chain == <<currentPose, currentWeight, bestPose, bestWeight, highest>>
step == <<independent, count, size, pi, nextPose>>
vars == <<pc, i, step, chain>>

Weight == 0 .. MaxWeight
firstRun == i = -1
Larger(v, w) == IF v > w THEN v ELSE w

PC == {"enter", "propose", "evaluate", "leave", "returned", "threw", "unexpected"}

TypeOK ==
  /\ pc \in PC
  /\ i \in -1 .. Steps
  /\ independent \in BOOLEAN
  /\ count \in 0 .. Tries
  /\ size \in Nat
  /\ pi \in 0 .. size
  /\ nextPose \in Pose
  /\ currentPose \in Pose /\ currentWeight \in Weight
  /\ bestPose \in Pose /\ bestWeight \in Weight
  /\ highest \in Weight

Init ==
  /\ pc = "enter"
  /\ i = -1
  /\ independent = TRUE
  /\ count = 0
  /\ size = Points
  /\ pi = 0
  /\ nextPose = Identity
  /\ currentPose = Identity /\ currentWeight = 0
  /\ bestPose = Identity /\ bestWeight = 0
  /\ highest = 0

\* sampleBegin(n) gives n indices; a proposal is independent with probability
\* 3/4, and always in the first run.
Enter ==
  /\ pc = "enter"
  /\ pc' = "propose"
  /\ independent' \in (IF firstRun THEN {TRUE} ELSE BOOLEAN)
  /\ count' = 0
  /\ size' = Points
  /\ pi' = 0
  /\ UNCHANGED <<i, nextPose, chain>>

\* A pose the robot cannot reach, or from which too little of the model is seen.
Discard ==
  /\ pc = "propose"
  /\ count < Tries
  /\ nextPose' \in (IF PartialView THEN Pose ELSE Pose \ Reachable)
  /\ count' = count + 1
  /\ UNCHANGED <<pc, i, independent, size, pi, chain>>

\* A wrong GiveUp: the last proposal is evaluated although it was discarded.
GiveUpAndEvaluate ==
  /\ pc = "propose"
  /\ count = Tries
  /\ pc' = "evaluate"
  /\ UNCHANGED <<i, step, chain>>

GiveUp ==
  /\ pc = "propose"
  /\ count = Tries
  /\ pc' = "leave"
  /\ UNCHANGED <<i, step, chain>>

\* A wrong recomputeIndices: every view is good enough.
recomputeAnyway ==
  {IF v > Points THEN Points ELSE v : v \in ViewSize}

\* recomputeIndices: the points seen, n of them at most.
recomputeIndices ==
  {IF v > Points THEN Points ELSE v : v \in {w \in ViewSize : w >= MinView}}

Propose ==
  /\ pc = "propose"
  /\ count < Tries
  /\ nextPose' \in Reachable
  /\ size' \in (IF PartialView THEN recomputeIndices ELSE {Points})
  /\ pc' = "evaluate"
  /\ UNCHANGED <<i, independent, count, pi, chain>>

\* pi < sqrt(indices.size()): too few points seen to decide
TooFew == pi * pi < size

\* The loop goes on to the next point, or, after the last, to
\* NUKLEI_THROW("Reached forbidden state.").
NextPoint ==
  /\ pc = "evaluate"
  /\ TooFew \/ pi < size - 1
  /\ pi' = pi + 1
  /\ pc' = IF pi' = size THEN "threw" ELSE "evaluate"
  /\ UNCHANGED <<i, independent, count, size, nextPose, chain>>

\* dec < .6*threshold for the points seen so far: never true when dec is an
\* infinity or a NaN, which it is as long as the chain has no weight.
EarlyAbort ==
  /\ pc = "evaluate"
  /\ pi < size - 1
  /\ ~TooFew
  /\ ~firstRun
  /\ currentWeight /= 0
  /\ pc' = "leave"
  /\ UNCHANGED <<i, step, chain>>

Deciding ==
  /\ pc = "evaluate"
  /\ pi = size - 1
  /\ ~TooFew

\* A wrong MayAccept: a ratio that is not a number is taken for a high one.
MayAcceptNaN(w) == TRUE

\* dec > threshold is possible: 0/0 and inf*0 are NaN, which is never greater.
MayAccept(w) ==
  /\ w /= 0
  /\ currentWeight = 0 => ~independent

\* dec <= threshold, or a NaN, is possible: dec is 1 or more, hence above the
\* threshold, for a weight that does not decrease.
MayReject(w) ==
  \/ w = 0
  \/ currentWeight = 0 /\ independent
  \/ w < currentWeight

Accept ==
  /\ Deciding
  /\ \E w \in Weight :
       /\ firstRun \/ MayAccept(w)
       /\ currentPose' = nextPose
       /\ currentWeight' = w
       /\ highest' = IF i <= 0 THEN w ELSE Larger(highest, w)
  /\ pc' = "leave"
  /\ UNCHANGED <<i, step, bestPose, bestWeight>>

Reject ==
  /\ Deciding
  /\ ~firstRun
  /\ \E w \in Weight : MayReject(w)
  /\ pc' = "leave"
  /\ UNCHANGED <<i, step, chain>>

\* A wrong Leave: the chain returns the pose it is at, not the best.
LeaveWithCurrent ==
  /\ pc = "leave"
  /\ IF ~firstRun
     THEN bestPose' = currentPose /\ bestWeight' = currentWeight
     ELSE UNCHANGED <<bestPose, bestWeight>>
  /\ i' = i + 1
  /\ pc' = IF i + 1 = Steps THEN "returned" ELSE "enter"
  /\ UNCHANGED <<step, currentPose, currentWeight, highest>>

\* Back in mcmc(): the first run is not compared with the best pose.  The next
\* step starts with a bandwidth for its local proposal, a fraction of the size
\* of the object, and throws if it is 0: the points of the object coincide, and
\* it is the first step that finds out.
Leave ==
  /\ pc = "leave"
  /\ IF ~firstRun /\ currentWeight > bestWeight
     THEN bestPose' = currentPose /\ bestWeight' = currentWeight
     ELSE UNCHANGED <<bestPose, bestWeight>>
  /\ i' = i + 1
  /\ \/ i + 1 = Steps /\ pc' = "returned"
     \/ i + 1 < Steps /\ pc' = "enter"
     \/ i + 1 < Steps /\ firstRun /\ pc' = "unexpected"
  /\ UNCHANGED <<step, currentPose, currentWeight, highest>>

Proposal == Enter \/ Discard \/ GiveUp \/ Propose
Evaluation == NextPoint \/ EarlyAbort \/ Accept \/ Reject

Ended == pc \in {"returned", "threw", "unexpected"} /\ UNCHANGED vars

Next == Proposal \/ Evaluation \/ Leave \/ Ended

Spec == Init /\ [][Next]_vars

(***************************************************************************)
(* Properties                                                              *)
(***************************************************************************)
\* The loop over the points always comes to a decision: the state that
\* metropolisHastings() calls forbidden (PoseEstimator.cpp:445) is not met.
NeverForbidden == pc /= "threw"

\* A pose with a weight has passed cif_->test(): neither a step that gives up
\* nor the pose a chain starts with can become the result of a chain.
ResultIsReachable ==
  /\ currentWeight > 0 => currentPose \in Reachable
  /\ bestWeight > 0 => bestPose \in Reachable

\* Between the steps the best weight is the highest that any step of mcmc()
\* has left, whichever steps gave up, aborted, rejected or went downhill.  The
\* pose of the first run counts if the step after it keeps it.
BestOfTheWalk ==
  i >= 1 /\ pc /= "leave" => bestWeight = highest

\* A chain that has found a pose with a weight never returns to weight 0,
\* where every ratio is an infinity or a NaN.
WeightIsKept ==
  [][currentWeight > 0 => currentWeight' > 0]_vars

=============================================================================

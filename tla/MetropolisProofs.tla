-------------------------- MODULE MetropolisProofs --------------------------
(***************************************************************************)
(* For every set of poses, every test of reachability, every number of     *)
(* steps and of proposals: what a chain returns, and that no step of it    *)
(* reaches the state the code forbids, with three points or more.          *)
(***************************************************************************)
EXTENDS Metropolis, TLAPS

\* The weights of a chain and the history of them.
Walk ==
  /\ i <= 0 => bestWeight = 0 /\ highest = currentWeight
  /\ i >= 1 => highest = Larger(bestWeight, currentWeight)
  /\ i >= 1 /\ pc /= "leave" => currentWeight <= bestWeight

\* The first run finds the chain without a weight.
Start == firstRun /\ pc /= "leave" => currentWeight = 0

\* A proposal has passed the test, and looks at enough points.
Proposed ==
  /\ pc = "propose" => pi = 0
  /\ pc = "evaluate" => /\ nextPose \in Reachable
                        /\ size \in {Points} \union recomputeIndices
                        /\ pi < size

\* A chain that has not ended has steps left.
Running == i < Steps \/ pc = "returned"

IInv == TypeOK /\ Running /\ Walk /\ Start /\ Proposed /\ ResultIsReachable

USE PointsAssumption, ViewAssumption, CountAssumption, PoseAssumption,
    WeightAssumption

\* What a transition that touches neither pose nor weight preserves.
LEMMA WalkKept ==
  ASSUME IInv, UNCHANGED <<i, chain>>, pc' = "leave" \/ pc /= "leave"
  PROVE  Walk' /\ ResultIsReachable' /\ (pc /= "returned" => Running')
BY DEF IInv, TypeOK, Walk, ResultIsReachable, Running, chain, Larger

LEMMA InitInv == Init => IInv
BY DEF Init, IInv, TypeOK, PC, Weight, Walk, Start, Proposed, ResultIsReachable,
       Running, firstRun, Larger

LEMMA ViewIsSmall ==
  recomputeIndices \subseteq Nat \ {0}
BY DEF recomputeIndices

LEMMA ProposalInv ==
  ASSUME IInv, Proposal
  PROVE  IInv'
<1>0. TypeOK /\ Start
  BY DEF IInv
<1>1. Walk' /\ ResultIsReachable' /\ Running'
  <2>1. UNCHANGED <<i, chain>> /\ pc \notin {"leave", "returned"}
    BY DEF Proposal, Enter, Discard, GiveUp, Propose, chain, step
  <2> QED BY <2>1, WalkKept
<1>2. CASE Enter
  <2>1. independent' \in BOOLEAN
    BY <1>2 DEF Enter
  <2>2. /\ pc' = "propose" /\ count' = 0 /\ size' = Points /\ pi' = 0
        /\ UNCHANGED <<i, nextPose, chain>>
        /\ pc = "enter"
    BY <1>2 DEF Enter
  <2>3. count' \in 0 .. Tries /\ size' \in Nat /\ pi' \in 0 .. size' /\ pc' \in PC
    BY <2>2 DEF PC
  <2>4. TypeOK'
    BY <1>0, <2>1, <2>2, <2>3, Zenon DEF TypeOK, chain
  <2> QED BY <1>0, <1>1, <2>2, <2>4 DEF IInv, Start, firstRun, Proposed, chain
<1>3. CASE Discard
  <2>1. /\ count' = count + 1 /\ count < Tries /\ pc = "propose"
        /\ nextPose' \in Pose
        /\ UNCHANGED <<pc, i, independent, size, pi, chain>>
    BY <1>3 DEF Discard
  <2>2. count' \in 0 .. Tries
    BY <1>0, <2>1 DEF TypeOK
  <2>3. TypeOK'
    BY <1>0, <2>1, <2>2, Zenon DEF TypeOK, chain
  <2> QED BY <1>0, <1>1, <2>1, <2>3 DEF IInv, Start, firstRun, Proposed, chain
<1>4. CASE GiveUp
  <2>1. pc' = "leave" /\ UNCHANGED <<i, independent, count, size, pi, nextPose, chain>>
    BY <1>4 DEF GiveUp, step
  <2>2. pc' \in PC
    BY <2>1 DEF PC
  <2>3. TypeOK'
    BY <1>0, <2>1, <2>2, Zenon DEF TypeOK, chain
  <2> QED BY <1>0, <1>1, <2>1, <2>3 DEF IInv, Start, Proposed
<1>5. CASE Propose
  <2>1. /\ nextPose' \in Reachable /\ size' \in Nat \ {0}
        /\ pc = "propose" /\ pc' = "evaluate"
        /\ UNCHANGED <<i, independent, count, pi, chain>>
    BY <1>5, ViewIsSmall DEF Propose
  <2>2. pi' \in 0 .. size' /\ pc' \in PC /\ nextPose' \in Pose
    BY <1>0, <2>1 DEF IInv, Proposed, TypeOK, PC
  <2>3. TypeOK'
    BY <1>0, <2>1, <2>2, Zenon DEF TypeOK, chain
  <2>4. Proposed'
    <3>1. pi' = 0 /\ size' \in {Points} \union recomputeIndices
      BY <1>0, <1>5, <2>1 DEF IInv, Propose, Proposed
    <3>2. recomputeIndices' = recomputeIndices
      BY DEF recomputeIndices
    <3> QED BY <2>1, <3>1, <3>2 DEF Proposed
  <2> QED BY <1>0, <1>1, <2>1, <2>3, <2>4 DEF IInv, Start, firstRun, chain
<1> QED
  BY <1>2, <1>3, <1>4, <1>5 DEF Proposal

LEMMA EvaluationInv ==
  ASSUME IInv, Evaluation
  PROVE  IInv'
<1>0. TypeOK /\ Start /\ pc = "evaluate" /\ Proposed
  BY
     DEF IInv, Evaluation, NextPoint, EarlyAbort, Accept, Reject, Deciding
<1>1. CASE NextPoint
  <2>1. /\ pi' = pi + 1
        /\ pc' = IF pi' = size THEN "threw" ELSE "evaluate"
        /\ UNCHANGED <<i, independent, count, size, nextPose, chain>>
    BY <1>1 DEF NextPoint
  <2>2. pi' \in 0 .. size /\ pc' \in PC /\ (pc' = "evaluate" => pi' < size)
    BY <1>0, <2>1 DEF TypeOK, Proposed, PC
  <2>3. TypeOK'
    BY <1>0, <2>1, <2>2, Zenon DEF TypeOK, chain
  <2>4. Walk' /\ ResultIsReachable' /\ Running'
    BY <1>0, <2>1, WalkKept
  <2>5. Proposed'
    BY <1>0, <2>1, <2>2 DEF Proposed, recomputeIndices
  <2> QED BY <1>0, <2>1, <2>3, <2>4, <2>5 DEF IInv, Start, firstRun, chain
<1>2. CASE EarlyAbort \/ Reject
  <2>1. /\ pc' = "leave"
        /\ UNCHANGED <<i, independent, count, size, pi, nextPose, chain>>
    BY <1>2 DEF EarlyAbort, Reject, step
  <2>2. pc' \in PC
    BY <2>1 DEF PC
  <2>3. TypeOK'
    BY <1>0, <2>1, <2>2, Zenon DEF TypeOK, chain
  <2>4. Walk' /\ ResultIsReachable' /\ Running'
    BY <1>0, <2>1, WalkKept
  <2> QED BY <1>0, <2>1, <2>3, <2>4 DEF IInv, Start, firstRun, chain, Proposed
<1>3. CASE Accept
  <2>1. PICK w \in Weight :
          /\ currentPose' = nextPose /\ currentWeight' = w
          /\ highest' = IF i <= 0 THEN w ELSE Larger(highest, w)
    BY <1>3 DEF Accept
  <2>2. /\ pc' = "leave"
        /\ UNCHANGED <<i, independent, count, size, pi, nextPose, bestPose, bestWeight>>
    BY <1>3 DEF Accept, step
  <2>3. highest' \in Weight /\ currentWeight' \in Weight /\ pc' \in PC
        /\ currentPose' \in Reachable
    BY <1>0, <2>1, <2>2 DEF TypeOK, Larger, PC, Proposed
  <2>4. TypeOK'
    BY <1>0, <2>2, <2>3, Zenon DEF TypeOK
  <2>5. Walk'
    BY <1>0, <2>1, <2>2 DEF IInv, TypeOK, Weight, Walk, Larger
  <2>6. Start' /\ Proposed' /\ ResultIsReachable' /\ Running'
    BY <1>0, <2>2, <2>3 DEF IInv, Start, Proposed, ResultIsReachable, Running
  <2> QED BY <2>4, <2>5, <2>6 DEF IInv
<1> QED
  BY <1>1, <1>2, <1>3 DEF Evaluation

LEMMA NextInv == IInv /\ [Next]_vars => IInv'
<1> SUFFICES ASSUME IInv, [Next]_vars PROVE IInv'
  OBVIOUS
<1>1. CASE Proposal
  BY <1>1, ProposalInv
<1>2. CASE Evaluation
  BY <1>2, EvaluationInv
<1>3. CASE Leave
  <2>1. /\ UNCHANGED <<independent, count, size, pi, nextPose, currentPose,
                       currentWeight, highest>>
        /\ i' = i + 1 /\ pc = "leave"
        /\ \/ i + 1 = Steps /\ pc' = "returned"
           \/ i + 1 < Steps /\ pc' \in {"enter", "unexpected"}
        /\ IF ~firstRun /\ currentWeight > bestWeight
             THEN bestPose' = currentPose /\ bestWeight' = currentWeight
             ELSE UNCHANGED <<bestPose, bestWeight>>
    BY <1>3 DEF Leave, step
  <2>2. bestPose' \in Pose /\ bestWeight' \in Weight /\ pc' \in PC
    BY <2>1 DEF IInv, TypeOK, PC
  <2>3. i' \in -1 .. Steps /\ Running'
    BY <2>1 DEF IInv, TypeOK, Running
  <2>4. TypeOK'
    BY <2>1, <2>2, <2>3, Zenon DEF IInv, TypeOK
  <2>5. Walk'
    BY <2>1 DEF IInv, TypeOK, Weight, Walk, Larger, firstRun
  <2>6. Start' /\ Proposed' /\ ResultIsReachable'
    BY <2>1 DEF IInv, TypeOK, Start, Proposed, ResultIsReachable, firstRun
  <2> QED BY <2>3, <2>4, <2>5, <2>6 DEF IInv
<1>4. CASE UNCHANGED vars
  BY <1>4
     DEF vars, step, chain, IInv, TypeOK, Running, Walk, Start, Proposed,
         ResultIsReachable,
              firstRun, recomputeIndices
<1> QED
  BY <1>1, <1>2, <1>3, <1>4 DEF Next, Ended

\* Every number of steps, of proposals and of points, every weight.
THEOREM TypeCorrect == Spec => []TypeOK
<1>1. IInv => TypeOK
  BY DEF IInv
<1> QED BY <1>1, InitInv, NextInv, PTL DEF Spec

\* A chain never returns a pose the robot cannot reach with a weight: the
\* pose is always one that passed the test of its proposal.
THEOREM ReachableResult == Spec => []ResultIsReachable
<1>1. IInv => ResultIsReachable
  BY DEF IInv
<1> QED BY <1>1, InitInv, NextInv, PTL DEF Spec

\* mcmc() loses none of the poses its steps leave.
THEOREM KeepsTheBest == Spec => []BestOfTheWalk
<1>1. IInv => BestOfTheWalk
  BY DEF IInv, TypeOK, Weight, Walk, BestOfTheWalk, Larger
<1> QED BY <1>1, InitInv, NextInv, PTL DEF Spec

\* Weight 0 is never accepted after another one.
THEOREM KeepsAWeight == Spec => WeightIsKept
<1>1. IInv /\ [Next]_vars => (currentWeight > 0 => currentWeight' > 0)
  <2> SUFFICES ASSUME IInv, [Next]_vars, currentWeight > 0 PROVE currentWeight' > 0
    OBVIOUS
  <2>1. CASE Accept
    <3>1. ~firstRun
      BY <2>1 DEF IInv, TypeOK, Start, Accept, Deciding
    <3> QED BY <2>1, <3>1 DEF Accept, MayAccept, Weight
  <2>2. CASE UNCHANGED currentWeight
    BY <2>2
  <2> QED
    BY <2>1, <2>2
       DEF Next, Proposal, Enter, Discard, GiveUp, Propose, Evaluation,
           NextPoint,
           EarlyAbort, Reject, Leave, Ended, vars, chain
<1> QED BY <1>1, InitInv, NextInv, PTL DEF Spec, WeightIsKept

\* With three points the last one is beyond the square root of their number:
\* the loop decides before it runs out of points.
Decides == pc = "evaluate" => size >= 3 /\ pi < size

LEMMA Square ==
  ASSUME NEW p \in Nat, p >= 2
  PROVE  p * p >= p + 1
<1>1. p * p = p + p * (p - 1)
  OBVIOUS
<1>2. p - 1 \in Nat /\ p - 1 >= 1
  OBVIOUS
<1>3. p * (p - 1) >= 1
  BY <1>2
<1> QED
  BY <1>1, <1>3

LEMMA DecidesKept ==
  ASSUME Points >= 3, MinView >= 3, IInv, Decides, NeverForbidden, [Next]_vars
  PROVE  Decides' /\ NeverForbidden'
<1>0. TypeOK /\ Proposed
  BY DEF IInv
<1>1. CASE Propose
  <2>1. size' \in {Points} \union recomputeIndices /\ pi' = 0 /\ pc' = "evaluate"
    BY <1>0, <1>1 DEF Propose, Proposed
  <2>2. \A v \in {Points} \union recomputeIndices : v \in Nat /\ v >= 3
    BY DEF recomputeIndices
  <2>3. size' \in Nat /\ size' >= 3 /\ pi' < size'
    BY <2>1, <2>2
  <2> QED BY <2>1, <2>3 DEF Decides, NeverForbidden
<1>2. CASE NextPoint
  <2>1. /\ pi' = pi + 1 /\ size' = size
        /\ pc' = IF pi' = size THEN "threw" ELSE "evaluate"
        /\ pi * pi < size \/ pi < size - 1
        /\ pc = "evaluate"
    BY <1>2 DEF NextPoint, TooFew
  <2>2. size \in Nat /\ size >= 3 /\ pi \in Nat /\ pi < size
    BY <1>0, <2>1 DEF TypeOK, Decides
  <2>3. pi = size - 1 => pi * pi >= size
    BY <2>2, Square
  <2>4. pi + 1 < size
    BY <2>1, <2>2, <2>3
  <2> QED BY <2>1, <2>2, <2>4 DEF Decides, NeverForbidden
<1>3. CASE pc' \notin {"evaluate", "threw"}
  BY <1>3 DEF Decides, NeverForbidden
<1>4. CASE UNCHANGED vars
  BY <1>4 DEF vars, step, Decides, NeverForbidden
<1> QED
  BY <1>1, <1>2, <1>3, <1>4
  DEF Next, Proposal, Enter, Discard, GiveUp, Evaluation, EarlyAbort, Accept, Reject,
      Leave, Ended, NeverForbidden

\* "Reached forbidden state." is thrown only for models of one or two points.
THEOREM DecidesWithThreePoints ==
  ASSUME Points >= 3, MinView >= 3
  PROVE  Spec => []NeverForbidden
<1>1. Init => Decides /\ NeverForbidden
  BY DEF Init, Decides, NeverForbidden
<1> QED BY <1>1, InitInv, NextInv, DecidesKept, PTL DEF Spec
=============================================================================

------------------------- MODULE SystematicSampling -------------------------
(***************************************************************************)
(* KernelCollection::sampleBegin(): systematic sampling of the kernels.    *)
(* A ppfilter_iterator walks a random permutation of the kernels; at each  *)
(* of them it evaluates the predicate is_picked_systematic, stays while    *)
(* the predicate holds (the kernel is picked again), and goes on when it   *)
(* does not (trsl/persistent_filter_iterator.hpp:136-151,                  *)
(* trsl/is_picked_systematic.hpp:181-292).                                 *)
(*                                                                         *)
(* Weights are real numbers in the code.  Here a weight is a natural       *)
(* number of some unit, the random number in [0,1[ is u/Grain, and every   *)
(* length is multiplied by sampleSize*Grain, so that the arithmetic is     *)
(* exact.  Rounding is not modelled.                                       *)
(***************************************************************************)
EXTENDS Integers

CONSTANTS
  N,              \* the number of kernels
  Grain,          \* the random number is a multiple of 1/Grain
  PopulationWeight, \* the total weights considered
  SampleSize      \* the sample sizes considered

ASSUME NAssumption == N \in Nat
ASSUME GrainAssumption == Grain \in Nat \ {0}
ASSUME WeightAssumption == PopulationWeight \subseteq Nat
ASSUME SizeAssumption == SampleSize \subseteq Nat

VARIABLES
  cumulative,     \* the sum of the first k weights, in the permuted order
  sampleSize,     \* sampleSize_
  populationWeight, \* populationWeight_
  u,              \* the random number drawn, times Grain
  base,           \* base_reference(), a position in the permutation
  position,       \* position_
  picked,         \* history: the number of picks
  picksOf,        \* history: the number of picks of each kernel
  at              \* is the iterator at a picked kernel, or looking for one?

drawn == <<cumulative, sampleSize, populationWeight, u>>
vars == <<drawn, base, position, picked, picksOf, at>>

Element == 1 .. N

\* The weights of the kernels in any order, given by their partial sums, when
\* they sum to the total weight that sampleBegin() passes on.
Permuted(total) ==
  {c \in [0 .. N -> 0 .. total] :
     /\ c[0] = 0 /\ c[N] = total
     /\ \A k \in Element : c[k - 1] <= c[k]}

Length(w) == w * (sampleSize * Grain)

wac(k) == Length(cumulative[k] - cumulative[k - 1])

\* step_, left at 0 when nothing is to be picked
step == IF sampleSize = 0 THEN 0 ELSE populationWeight * Grain

TypeOK ==
  /\ sampleSize \in SampleSize
  /\ populationWeight \in PopulationWeight
  /\ cumulative \in Permuted(populationWeight)
  /\ u \in 0 .. Grain - 1
  /\ base \in 1 .. N + 1
  /\ position \in Nat
  /\ picked \in Nat
  /\ picksOf \in [Element -> Nat]
  /\ at \in BOOLEAN

\* The collection is not empty: a sum of no weight is 0.
Init ==
  /\ sampleSize \in SampleSize
  /\ populationWeight \in PopulationWeight
  /\ cumulative \in Permuted(populationWeight)
  /\ u \in 0 .. Grain - 1
  /\ base = 1
  /\ position = IF sampleSize = 0 THEN 0 ELSE u * populationWeight
  /\ picked = 0
  /\ picksOf = [k \in Element |-> 0]
  /\ at = FALSE

\* A wrong Pick: an arrow on the border of two kernels picks both.
PickOnBorder ==
  /\ ~at
  /\ base <= N
  /\ sampleSize /= 0
  /\ position <= wac(base)
  /\ position' = position + step
  /\ at' = TRUE
  /\ picked' = picked + 1
  /\ picksOf' = [picksOf EXCEPT ![base] = @ + 1]
  /\ UNCHANGED <<drawn, base>>

\* operator() returns true: the iterator stops at the kernel.
Pick ==
  /\ ~at
  /\ base <= N
  /\ sampleSize /= 0
  /\ position < wac(base)
  /\ position' = position + step
  /\ at' = TRUE
  /\ picked' = picked + 1
  /\ picksOf' = [picksOf EXCEPT ![base] = @ + 1]
  /\ UNCHANGED <<drawn, base>>

\* A wrong Skip: the length of the kernel is not taken off.
SkipInPlace ==
  /\ ~at
  /\ base <= N
  /\ sampleSize = 0 \/ position >= wac(base)
  /\ base' = base + 1
  /\ UNCHANGED <<drawn, position, picked, picksOf, at>>

\* operator() returns false: the iterator goes on to the next kernel.
Skip ==
  /\ ~at
  /\ base <= N
  /\ sampleSize = 0 \/ position >= wac(base)
  /\ position' = IF sampleSize = 0 THEN position ELSE position - wac(base)
  /\ base' = base + 1
  /\ UNCHANGED <<drawn, picked, picksOf, at>>

\* The caller increments the iterator: the same kernel is tried again.
Increment ==
  /\ at
  /\ at' = FALSE
  /\ UNCHANGED <<drawn, base, position, picked, picksOf>>

AtEnd == base = N + 1 /\ UNCHANGED vars

Next == Pick \/ Skip \/ Increment \/ AtEnd

Spec == Init /\ [][Next]_vars

(***************************************************************************)
(* Properties                                                              *)
(***************************************************************************)
\* sampleBegin() "Iterates through sampleSize kernels"
\* (kernel/nuklei/KernelCollection.h:262), whatever the weights, their order
\* and the random number.
ExactSize ==
  base = N + 1 => picked = sampleSize

\* "The probability that a kernel is selected is proportional to its weight"
\* (KernelCollection.h:262-263): of a sample of size s, a kernel of weight w in
\* a population of weight W is picked s*w/W times, rounded up or down.
Proportional ==
  \A k \in Element : k < base =>
    LET excess == picksOf[k] * populationWeight
                  - (cumulative[k] - cumulative[k - 1]) * sampleSize
    IN  -populationWeight < excess /\ excess < populationWeight

\* trsl::is_first_pick: asked about the kernel the iterator is at.
is_first_pick ==
  wac(base) <= step \/ position < 2 * step

\* is_first_pick() tells the first pick of a kernel from the others.
FirstPickIsFirst ==
  at => (is_first_pick <=> picksOf[base] = 1)

=============================================================================

---------------------- MODULE SystematicSamplingProofs ----------------------
(***************************************************************************)
(* For every number of kernels, all weights, every order of the kernels    *)
(* and every random number: a sample has exactly the size asked for, and   *)
(* picks each kernel in proportion to its weight, provided that the total  *)
(* weight is not zero.                                                     *)
(***************************************************************************)
EXTENDS SystematicSampling, TLAPS

(***************************************************************************)
(* Arithmetic                                                              *)
(***************************************************************************)
LEMMA Distributes ==
  ASSUME NEW a \in Int, NEW b \in Int, NEW c \in Int
  PROVE  /\ (a - b) * c = a * c - b * c
         /\ (a + 1) * c = a * c + c
         /\ a * c \in Int
OBVIOUS

LEMMA ProductOfNats ==
  ASSUME NEW a \in Nat, NEW b \in Nat
  PROVE  a * b \in Nat /\ a * b >= 0 /\ (a > 0 /\ b > 0 => a * b > 0)
OBVIOUS

LEMMA Associates ==
  ASSUME NEW a \in Int, NEW b \in Int, NEW c \in Int
  PROVE  (a * b) * c = a * (b * c)
OBVIOUS

LEMMA Monotone ==
  ASSUME NEW a \in Int, NEW b \in Int, NEW c \in Nat \ {0}
  PROVE  /\ a <= b => a * c <= b * c
         /\ a < b <=> a * c < b * c
<1>1. (b - a) * c = b * c - a * c
  BY Distributes
<1>2. b - a > 0 => (b - a) * c > 0
  BY ProductOfNats
<1>3. a - b > 0 => (a - b) * c > 0
  BY ProductOfNats
<1>4. (a - b) * c = a * c - b * c
  BY Distributes
<1> QED
  BY <1>1, <1>2, <1>3, <1>4

(***************************************************************************)
(* The inductive invariant                                                 *)
(***************************************************************************)
\* Nothing is picked in a sample of size 0.
NothingPicked ==
  sampleSize = 0 => /\ picked = 0 /\ position = 0 /\ ~at
                    /\ \A k \in Element : picksOf[k] = 0

\* position is the distance from the start of the current kernel to the next
\* arrow; the arrows are one step apart, the first is the random one.
Distance ==
  sampleSize /= 0 =>
    position = u * populationWeight + picked * step - Length(cumulative[base - 1])

\* When the iterator reached the current kernel the next arrow was less than a
\* step away, and the last pick of the kernel was within the kernel.
WithinStep ==
  sampleSize /= 0 =>
    /\ base <= N =>
         /\ 0 <= position - picksOf[base] * step
         /\ position - picksOf[base] * step < step
         /\ picksOf[base] /= 0 => position - step < wac(base)
    /\ base = N + 1 => position < step

Later ==
  /\ \A k \in Element : k > base => picksOf[k] = 0
  /\ at => base <= N /\ picksOf[base] /= 0 /\ sampleSize /= 0

IInv == TypeOK /\ NothingPicked /\ Distance /\ WithinStep /\ Later /\ Proportional

\* The lengths the algorithm compares are natural numbers.
LEMMA Lengths ==
  ASSUME TypeOK
  PROVE  /\ \A k \in 0 .. N : /\ cumulative[k] \in Nat
                              /\ Length(cumulative[k]) \in Nat
         /\ \A k \in Element :
              /\ wac(k) \in Nat
              /\ wac(k) = Length(cumulative[k]) - Length(cumulative[k - 1])
         /\ step \in Nat
         /\ u * populationWeight \in Nat
<1> USE NAssumption, GrainAssumption, WeightAssumption, SizeAssumption
<1>1. sampleSize \in Nat /\ populationWeight \in Nat /\ u \in Nat
  BY DEF TypeOK
<1>2. sampleSize * Grain \in Nat
  BY <1>1, ProductOfNats
<1>3. \A k \in 0 .. N : cumulative[k] \in Nat
  BY <1>1 DEF TypeOK, Permuted
<1>4. \A k \in 0 .. N : Length(cumulative[k]) \in Nat
  BY <1>2, <1>3, ProductOfNats DEF Length
<1>5. ASSUME NEW k \in Element
      PROVE  wac(k) \in Nat /\ wac(k) = Length(cumulative[k]) - Length(cumulative[k - 1])
  <2>1. k \in 0 .. N /\ k - 1 \in 0 .. N
    BY DEF Element
  <2>2. cumulative[k - 1] <= cumulative[k]
    BY DEF TypeOK, Permuted
  <2>3. cumulative[k] - cumulative[k - 1] \in Nat
    BY <1>3, <2>1, <2>2
  <2> DEFINE unit == sampleSize * Grain
  <2>4. unit \in Nat
    BY <1>2
  <2> HIDE DEF unit
  <2>5. (cumulative[k] - cumulative[k - 1]) * unit
          = cumulative[k] * unit - cumulative[k - 1] * unit
    BY <1>3, <2>1, <2>4, Distributes
  <2>6. (cumulative[k] - cumulative[k - 1]) * unit \in Nat
    BY <2>3, <2>4, ProductOfNats
  <2> QED BY <2>5, <2>6 DEF wac, Length, unit
<1>6. populationWeight * Grain \in Nat /\ u * populationWeight \in Nat
  BY <1>1, ProductOfNats
<1> QED
  BY <1>3, <1>4, <1>5, <1>6 DEF step

LEMMA InitInv ==
  ASSUME 0 \notin PopulationWeight, Init
  PROVE  IInv
<1> USE NAssumption, GrainAssumption, WeightAssumption, SizeAssumption
<1>1. TypeOK
  <2>1. u * populationWeight \in Nat
    BY ProductOfNats DEF Init
  <2>2. position \in Nat
    BY <2>1 DEF Init
  <2>3. base \in 1 .. N + 1 /\ picked \in Nat
    BY DEF Init
  <2>4. picksOf \in [Element -> Nat] /\ at \in BOOLEAN
    BY DEF Init
  <2> QED BY <2>2, <2>3, <2>4, Zenon DEF Init, TypeOK
<1>2. cumulative[0] = 0 /\ Length(cumulative[0]) = 0
  BY DEF Init, Permuted, Length
<1>3. u * populationWeight < Grain * populationWeight
  BY Monotone DEF Init
<1>4. populationWeight * Grain = Grain * populationWeight
  BY DEF Init
<1>5. NothingPicked /\ Later
  BY DEF Init, NothingPicked, Later, Element
<1>6. Proportional
  BY DEF Init, Proportional, Element
<1>7. Distance
  <2>1. 0 * step = 0 /\ base - 1 = 0 /\ picked = 0
    BY <1>1, Lengths DEF Init
  <2> QED BY <1>1, <1>2, <2>1, Lengths DEF Init, Distance
<1>8. WithinStep
  <2>1. SUFFICES ASSUME sampleSize /= 0 PROVE WithinStep
    BY DEF WithinStep
  <2>2. step = populationWeight * Grain /\ position = u * populationWeight
    BY <2>1 DEF step, Init
  <2>3. position \in Nat /\ step \in Nat /\ position < step
    BY <1>1, <1>3, <1>4, <2>2, Lengths DEF TypeOK
  <2>4. base <= N => picksOf[base] = 0 /\ picksOf[base] * step = 0
    BY <2>3 DEF Init, Element
  <2> QED BY <2>3, <2>4 DEF WithinStep
<1> QED
  BY <1>1, <1>5, <1>6, <1>7, <1>8 DEF IInv

\* The only arithmetic of a pick: both sides of Distance grow by one step.
LEMMA PickInv ==
  ASSUME IInv, Pick
  PROVE  IInv'
<1> USE NAssumption
<1>0. /\ TypeOK /\ NothingPicked /\ Distance /\ WithinStep /\ Later /\ Proportional
      /\ sampleSize /= 0 /\ base \in Element /\ ~at
  BY DEF IInv, Pick, TypeOK, Element
<1>1. /\ UNCHANGED <<cumulative, sampleSize, populationWeight, u, base>>
      /\ position' = position + step /\ picked' = picked + 1 /\ at' = TRUE
      /\ picksOf' = [picksOf EXCEPT ![base] = @ + 1]
      /\ position < wac(base)
  BY DEF Pick, drawn
<1>2. UNCHANGED step /\ \A k : wac(k)' = wac(k)
  BY <1>1 DEF step, wac, Length
<1>3. /\ step \in Nat /\ position \in Nat /\ picked \in Nat /\ picksOf[base] \in Nat
      /\ wac(base) \in Nat /\ base \in Nat /\ base <= N
  BY <1>0, Lengths DEF TypeOK, Element
<1>4. /\ picksOf'[base] = picksOf[base] + 1
      /\ \A k \in Element : k # base => picksOf'[k] = picksOf[k]
      /\ picksOf' \in [Element -> Nat]
  BY <1>0, <1>1, <1>3 DEF TypeOK
<1>5. /\ (picked + 1) * step = picked * step + step /\ picked * step \in Int
      /\ (picksOf[base] + 1) * step = picksOf[base] * step + step
      /\ picksOf[base] * step \in Int
  BY <1>3, Distributes
<1>6. TypeOK'
  <2>1. position' \in Nat /\ picked' \in Nat
    BY <1>1, <1>3
  <2> QED BY <1>0, <1>1, <1>4, <2>1, Zenon DEF TypeOK
<1>7. NothingPicked'
  BY <1>0, <1>1 DEF NothingPicked
<1>8. Distance'
  <2>1. Length(cumulative[base - 1])' = Length(cumulative[base - 1])
    BY <1>1 DEF Length
  <2>2. Length(cumulative[base - 1]) \in Nat /\ u * populationWeight \in Nat
    BY <1>0, Lengths DEF Element
  <2> QED BY <1>0, <1>1, <1>2, <1>3, <1>5, <2>1, <2>2 DEF Distance
<1>9. WithinStep'
  <2> DEFINE p == picksOf[base] * step
  <2>1. 0 <= position - p /\ position - p < step
    BY <1>0, <1>3 DEF WithinStep
  <2>2. (picksOf[base] * step)' = p + step
    BY <1>1, <1>2, <1>4, <1>5
  <2>3. p \in Int
    BY <1>5
  <2> HIDE DEF p
  <2>4. 0 <= position' - (p + step) /\ position' - (p + step) < step
        /\ position' - step < wac(base)
    BY <1>1, <1>3, <2>1, <2>3
  <2> QED BY <1>1, <1>2, <1>3, <2>2, <2>4 DEF WithinStep
<1>10. Later'
  <2>1. picksOf'[base] /= 0
    BY <1>3, <1>4
  <2>2. \A k \in Element : k > base => k # base
    BY <1>3 DEF Element
  <2> QED BY <1>0, <1>1, <1>3, <1>4, <2>1, <2>2 DEF Later
<1>11. Proportional'
  <2>1. \A k \in Element : k < base => k # base
    BY <1>3 DEF Element
  <2> QED BY <1>0, <1>1, <1>4, <2>1 DEF Proportional
<1> QED
  BY <1>6, <1>7, <1>8, <1>9, <1>10, <1>11 DEF IInv

\* A kernel that is left has been picked the number of times its weight calls
\* for, because the distance to the next arrow is less than a step before and
\* after it.
LEMMA SkipInv ==
  ASSUME 0 \notin PopulationWeight, IInv, Skip
  PROVE  IInv'
<1> USE NAssumption
<1>0. /\ TypeOK /\ NothingPicked /\ Distance /\ WithinStep /\ Later /\ Proportional
      /\ base \in Element /\ ~at
  BY DEF IInv, Skip, TypeOK, Element
<1>1. /\ UNCHANGED <<cumulative, sampleSize, populationWeight, u, picked, picksOf, at>>
      /\ base' = base + 1
      /\ sampleSize /= 0 => position >= wac(base) /\ position' = position - wac(base)
      /\ sampleSize = 0 => position' = position
  BY DEF Skip, drawn
<1>2. UNCHANGED step /\ \A k : wac(k)' = wac(k)
  BY <1>1 DEF step, wac, Length
<1>3. /\ step \in Nat /\ position \in Nat /\ picked \in Nat /\ picksOf[base] \in Nat
      /\ wac(base) \in Nat /\ base \in Nat /\ base <= N /\ base >= 1
      /\ wac(base) = Length(cumulative[base]) - Length(cumulative[base - 1])
      /\ Length(cumulative[base]) \in Nat /\ Length(cumulative[base - 1]) \in Nat
      /\ u * populationWeight \in Nat
  BY <1>0, Lengths DEF TypeOK, Element
<1>4. /\ picked * step \in Int /\ picksOf[base] * step \in Int
  BY <1>3, Distributes
<1>5. position' \in Nat
  BY <1>1, <1>3
<1>6. TypeOK'
  <2>1. base' \in 1 .. N + 1
    BY <1>1, <1>3
  <2> QED BY <1>0, <1>1, <1>5, <2>1, Zenon DEF TypeOK
<1>7. NothingPicked'
  BY <1>0, <1>1 DEF NothingPicked
<1>8. Distance'
  <2>1. base' - 1 = base
    BY <1>1, <1>3
  <2>2. Length(cumulative[base - 1])' = Length(cumulative[base])
    BY <1>1, <2>1 DEF Length
  <2> QED BY <1>0, <1>1, <1>2, <1>3, <1>4, <2>2 DEF Distance
<1>9. sampleSize /= 0 => 0 <= position' /\ position' < step
  <2>1. SUFFICES ASSUME sampleSize /= 0 PROVE position' < step
    BY <1>5
  <2>2. CASE picksOf[base] = 0
    <3>1. picksOf[base] * step = 0
      BY <1>3, <2>2
    <3> QED BY <1>0, <1>1, <1>3, <2>1, <3>1 DEF WithinStep
  <2>3. CASE picksOf[base] /= 0
    BY <1>0, <1>1, <1>3, <2>1, <2>3 DEF WithinStep
  <2> QED BY <2>2, <2>3
<1>10. WithinStep'
  <2>1. base' <= N => base' \in Element /\ base' > base
    BY <1>1, <1>3 DEF Element
  <2>2. base' <= N => picksOf'[base'] = 0 /\ (picksOf[base] * step)' = 0
    BY <1>0, <1>1, <1>2, <1>3, <2>1 DEF Later
  <2> QED BY <1>1, <1>2, <1>3, <1>5, <1>9, <2>2 DEF WithinStep
<1>11. Later'
  <2>1. \A k \in Element : k > base' => k > base
    BY <1>1, <1>3 DEF Element
  <2> QED BY <1>0, <1>1, <2>1 DEF Later
<1>12. Proportional'
  <2>1. \A k \in Element : k < base' => k < base \/ k = base
    BY <1>1, <1>3 DEF Element
  <2> DEFINE excess == picksOf[base] * populationWeight
                       - (cumulative[base] - cumulative[base - 1]) * sampleSize
  <2>2. -populationWeight < excess /\ excess < populationWeight
    <3> DEFINE c == picksOf[base]
               w == cumulative[base] - cumulative[base - 1]
    <3>1. /\ populationWeight \in Nat \ {0} /\ sampleSize \in Nat
          /\ Grain \in Nat \ {0} /\ c \in Nat /\ w \in Int
      <4>1. base \in 0 .. N /\ base - 1 \in 0 .. N
        BY <1>3
      <4>2. w \in Int
        BY <1>0, <4>1, Lengths
      <4>3. populationWeight \in Nat \ {0} /\ sampleSize \in Nat
        BY <1>0, WeightAssumption, SizeAssumption DEF TypeOK
      <4> HIDE DEF w
      <4> QED BY <1>3, <4>2, <4>3, GrainAssumption
    <3>2. CASE sampleSize = 0
      <4>1. c = 0
        BY <1>0, <3>2 DEF NothingPicked
      <4>2. c * populationWeight = 0 /\ w * sampleSize = 0
        BY <3>1, <3>2, <4>1
      <4> QED BY <3>1, <4>2
    <3>3. CASE sampleSize /= 0
      <4>1. step = populationWeight * Grain /\ wac(base) = w * (sampleSize * Grain)
        BY <3>3 DEF step, wac, Length
      <4>2. -step < c * step - wac(base) /\ c * step - wac(base) < step
        <5> DEFINE p == picksOf[base] * step
        <5>1. 0 <= position - p /\ position - p < step
          BY <1>0, <1>3, <3>3 DEF WithinStep
        <5>2. position' = position - wac(base) /\ 0 <= position' /\ position' < step
          BY <1>1, <1>9, <3>3
        <5>3. p \in Int
          BY <1>4
        <5> HIDE DEF p
        <5>4. -step < p - wac(base) /\ p - wac(base) < step
          BY <1>3, <5>1, <5>2, <5>3
        <5> QED BY <5>4 DEF p, c
      <4> HIDE DEF c, w
      <4>3. c * step = (c * populationWeight) * Grain
        BY <3>1, <4>1, Associates
      <4>4. wac(base) = (w * sampleSize) * Grain
        BY <3>1, <4>1, Associates
      <4> DEFINE e == c * populationWeight - w * sampleSize
      <4>5. c * populationWeight \in Int /\ w * sampleSize \in Int /\ e \in Int
        BY <3>1, Distributes
      <4>6. e * Grain = c * step - wac(base)
        BY <3>1, <4>3, <4>4, <4>5, Distributes
      <4>7. (-populationWeight) * Grain = -step
        BY <3>1, <4>1
      <4>8. (-populationWeight) * Grain < e * Grain /\ e * Grain < populationWeight * Grain
        BY <4>1, <4>2, <4>6, <4>7
      <4> HIDE DEF e
      <4>9. -populationWeight < e /\ e < populationWeight
        BY <3>1, <4>5, <4>8, Monotone
      <4> QED BY <4>9 DEF e, c, w
    <3> QED BY <3>2, <3>3
  <2> QED BY <1>0, <1>1, <2>1, <2>2 DEF Proportional
<1> QED
  BY <1>6, <1>7, <1>8, <1>10, <1>11, <1>12 DEF IInv

LEMMA NextInv ==
  ASSUME 0 \notin PopulationWeight
  PROVE  IInv /\ [Next]_vars => IInv'
<1> SUFFICES ASSUME IInv, [Next]_vars PROVE IInv'
  OBVIOUS
<1>1. CASE Pick
  BY <1>1, PickInv
<1>2. CASE Skip
  BY <1>2, SkipInv
<1>3. CASE Increment
  <2>1. /\ UNCHANGED <<cumulative, sampleSize, populationWeight, u, base, position,
                       picked, picksOf>>
        /\ at' = FALSE
    BY <1>3 DEF Increment, drawn
  <2>2. UNCHANGED step /\ (\A k : wac(k)' = wac(k)) /\ \A w : Length(w)' = Length(w)
    BY <2>1 DEF step, wac, Length
  <2>3. TypeOK'
    BY <2>1, Zenon DEF IInv, TypeOK
  <2>4. NothingPicked' /\ Later' /\ Proportional'
    BY <2>1 DEF IInv, NothingPicked, Later, Proportional
  <2>5. Distance' /\ WithinStep'
    BY <2>1, <2>2 DEF IInv, Distance, WithinStep
  <2> QED BY <2>3, <2>4, <2>5 DEF IInv
<1>4. CASE UNCHANGED vars
  <2>1. UNCHANGED <<cumulative, sampleSize, populationWeight, u, base, position,
                    picked, picksOf, at>>
    BY <1>4 DEF vars, drawn
  <2> QED
    BY <2>1
    DEF IInv, TypeOK, NothingPicked, Distance, WithinStep, Later, Proportional,
        step, wac, Length
<1> QED
  BY <1>1, <1>2, <1>3, <1>4 DEF Next, AtEnd

\* At the end the next arrow is less than a step beyond the whole population:
\* exactly sampleSize arrows have been met.
LEMMA EndSize ==
  ASSUME IInv, 0 \notin PopulationWeight
  PROVE  ExactSize
<1> USE NAssumption, GrainAssumption, WeightAssumption, SizeAssumption
<1>0. TypeOK /\ NothingPicked /\ Distance /\ WithinStep
  BY DEF IInv
<1> SUFFICES ASSUME base = N + 1 PROVE picked = sampleSize
  BY DEF ExactSize
<1>1. CASE sampleSize = 0
  BY <1>0, <1>1 DEF NothingPicked
<1>2. CASE sampleSize /= 0
  <2>1. /\ populationWeight \in Nat \ {0} /\ sampleSize \in Nat /\ picked \in Nat
        /\ u \in Nat /\ u < Grain /\ position \in Nat
    BY DEF IInv, TypeOK
  <2>2. /\ step = populationWeight * Grain /\ step \in Nat \ {0}
    BY <1>2, <2>1, ProductOfNats DEF step
  <2>3. Length(cumulative[base - 1]) = sampleSize * step
    <3>1. base - 1 = N /\ cumulative[N] = populationWeight
      BY <1>0 DEF TypeOK, Permuted
    <3>2. populationWeight * (sampleSize * Grain) = (populationWeight * sampleSize) * Grain
      BY <2>1, Associates
    <3>3. (sampleSize * populationWeight) * Grain = sampleSize * (populationWeight * Grain)
      BY <2>1, Associates
    <3>4. populationWeight * sampleSize = sampleSize * populationWeight
      BY <2>1
    <3> QED BY <2>2, <3>1, <3>2, <3>3, <3>4 DEF Length
  <2>4. u * populationWeight \in Nat /\ u * populationWeight < step
    <3>1. u * populationWeight < Grain * populationWeight
      BY <2>1, Monotone
    <3>2. Grain * populationWeight = populationWeight * Grain
      BY <2>1
    <3> QED BY <2>1, <2>2, <3>1, <3>2, ProductOfNats
  <2>5. /\ position = u * populationWeight + picked * step - sampleSize * step
        /\ position < step
    BY <1>0, <1>2, <2>3 DEF Distance, WithinStep
  <2>6. /\ (picked - sampleSize) * step = picked * step - sampleSize * step
        /\ picked * step \in Int /\ sampleSize * step \in Int
    BY <2>1, <2>2, Distributes
  <2>7. /\ (-1) * step < (picked - sampleSize) * step
        /\ (picked - sampleSize) * step < 1 * step
    BY <2>1, <2>2, <2>4, <2>5, <2>6
  <2>8. -1 < picked - sampleSize /\ picked - sampleSize < 1
    BY <2>1, <2>2, <2>7, Monotone
  <2> QED BY <2>1, <2>8
<1> QED
  BY <1>1, <1>2

\* The second and later picks of a kernel happen a step or more further, and
\* only in a kernel longer than a step.
LEMMA FirstPick ==
  ASSUME IInv
  PROVE  FirstPickIsFirst
<1> USE NAssumption
<1> SUFFICES ASSUME at PROVE is_first_pick <=> picksOf[base] = 1
  BY DEF FirstPickIsFirst
<1>1. base \in Element /\ base <= N /\ picksOf[base] \in Nat \ {0} /\ sampleSize /= 0
  BY DEF IInv, Later, TypeOK, Element
<1>2. step \in Nat /\ position \in Nat /\ wac(base) \in Nat
  BY <1>1, Lengths DEF IInv, TypeOK
<1> DEFINE c == picksOf[base]
<1>3. /\ 0 <= position - c * step /\ position - c * step < step
      /\ position - step < wac(base)
  BY <1>1 DEF IInv, WithinStep
<1>4. CASE c = 1
  <2>1. c * step = step
    BY <1>2, <1>4
  <2> QED BY <1>2, <1>3, <1>4, <2>1 DEF is_first_pick
<1>5. CASE c /= 1
  <2>1. c - 2 \in Nat /\ (c - 2) * step \in Nat
    BY <1>1, <1>2, <1>5, ProductOfNats
  <2>2. (c - 2) * step = c * step - 2 * step /\ c * step \in Int
    BY <1>1, <1>2, Distributes
  <2>3. position >= 2 * step /\ wac(base) > step
    BY <1>2, <1>3, <2>1, <2>2
  <2> QED BY <1>2, <1>5, <2>3 DEF is_first_pick
<1> QED
  BY <1>4, <1>5

LEMMA Invariant ==
  ASSUME 0 \notin PopulationWeight
  PROVE  Spec => []IInv
<1>1. Init => IInv
  BY InitInv
<1>2. IInv /\ [Next]_vars => IInv'
  BY NextInv
<1> QED
  BY <1>1, <1>2, PTL DEF Spec

\* The position of the arrow and the counts stay natural numbers, and the
\* iterator one of the sequence or its end.
THEOREM TypeCorrect ==
  ASSUME 0 \notin PopulationWeight
  PROVE  Spec => []TypeOK
<1>1. IInv => TypeOK
  BY DEF IInv
<1> QED
  BY <1>1, Invariant, PTL

\* KernelCollection.h:262: the iterator goes through exactly sampleSize kernels,
\* for every collection, order, random number and sample size, unless the total
\* weight is 0.
THEOREM SampleHasItsSize ==
  ASSUME 0 \notin PopulationWeight
  PROVE  Spec => []ExactSize
<1>1. IInv => ExactSize
  BY EndSize
<1> QED
  BY <1>1, Invariant, PTL

\* KernelCollection.h:262-263: a kernel is picked as often as its share of the
\* total weight says, rounded up or down.
THEOREM SampleIsProportional ==
  ASSUME 0 \notin PopulationWeight
  PROVE  Spec => []Proportional
<1>1. IInv => Proportional
  BY DEF IInv
<1> QED
  BY <1>1, Invariant, PTL

\* is_first_pick() is true of the first pick of each kernel, and of no other.
THEOREM FirstPicksAreKnown ==
  ASSUME 0 \notin PopulationWeight
  PROVE  Spec => []FirstPickIsFirst
<1>1. IInv => FirstPickIsFirst
  BY FirstPick
<1> QED
  BY <1>1, Invariant, PTL
=============================================================================

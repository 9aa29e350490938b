------------------------ MODULE RandomStreamsProofs ------------------------
(***************************************************************************)
(* Which numbers the chains draw, for every number of chains, threads,     *)
(* draws and runs, and all seeds that GSL's default seed is far from: the  *)
(* chains of run_single and run_openmp never draw a number twice, and a    *)
(* child of run_fork draws what its index and the parallelizer's seed say. *)
(***************************************************************************)
EXTENDS RandomStreams, Integers, FiniteSets, SequenceTheorems, FiniteSetTheorems, TLAPS

USE MethodAssumption, ThreadAssumption, SeedAssumption, BoundAssumption

\* A number is read before it is drawn.
Reading ==
  \A i \in Task : pc[i] = "drawing" => read[i] \in Number /\ Len(drawn[run][i]) < Draws

\* Chains that have not started, in this run or a later one, have drawn nothing.
Unborn ==
  \A i \in Task :
    /\ pc[i] = "waiting" => drawn[run][i] = << >>
    /\ \A r \in run + 1 .. MaxRuns : drawn[r][i] = << >>

\* No position is beyond the number of draws.
Counted ==
  /\ \A p \in Process, g \in Generator : generators[p][g].position <= Cardinality(Draw)
  /\ \A i \in Task : pc[i] = "drawing" => read[i].position <= Cardinality(Draw)

\* Where threads have numbers, each runs one chain; a child is its own thread 0.
Placed ==
  /\ method \in {"single", "openmp"} =>
       \A i, j \in Running : thread[i] = thread[j] => i = j
  /\ method = "fork" => \A i \in Task : thread[i] = 0

\* But under pthread, a number read is still the generator's next one.
Current ==
  method /= "pthread" =>
    \A i \in Task : pc[i] = "drawing" => read[i] = generators[process(i)][thread[i]]

\* The generators of the parent have streams of their own ...
Apart ==
  \A g, h \in Generator : generators[Parent][g].seed = generators[Parent][h].seed => g = h

\* ... and a number drawn is one that its generator has passed.
Passed ==
  method \in {"single", "openmp"} =>
    \A d \in Draw : \E g \in Generator :
      /\ NumberOf(d).seed = generators[Parent][g].seed
      /\ NumberOf(d).position < generators[Parent][g].position

Once ==
  method \in {"single", "openmp"} =>
    \A c, d \in Draw : NumberOf(c) = NumberOf(d) => c = d

\* The k-th number of a child is the k-th of the stream of its index.
ChildStream(i, k) == [seed |-> GslSeed(seed_ + i + 1), position |-> k]

Children ==
  method = "fork" =>
    /\ \A d \in Draw : NumberOf(d) = ChildStream(d[2], d[3] - 1)
    /\ \A i \in Running : generators[i][0] = ChildStream(i, Len(drawn[run][i]))

IInv ==
  /\ TypeOK /\ Reading /\ Unborn /\ Counted
  /\ Placed /\ Current /\ Apart /\ Passed /\ Once /\ Children

(***************************************************************************)
(* Seeds                                                                   *)
(***************************************************************************)
LEMMA Wraps ==
  ASSUME NEW x \in Nat, x < 2 * Width
  PROVE  x % Width = IF x < Width THEN x ELSE x - Width
OBVIOUS

LEMMA GslSeedType ==
  ASSUME NEW x \in Nat
  PROVE  GslSeed(x) \in 0 .. Width - 1
<1>1. x % Width \in 0 .. Width - 1
  OBVIOUS
<1> QED BY <1>1 DEF GslSeed

\* gsl_rng_set() gives different seeds to the threads and the children, also
\* around the wrap-around, where it takes its default for 0.
LEMMA SeedsApart ==
  ASSUME NEW s \in Seed, NEW a \in 1 .. N + Thread, NEW b \in 1 .. N + Thread,
         GslSeed(s + a) = GslSeed(s + b)
  PROVE  a = b
<1>1. s \in Nat /\ s < Width /\ N + Thread < Width
  OBVIOUS
<1>2. /\ (s + a) % Width = IF s + a < Width THEN s + a ELSE s + a - Width
      /\ (s + b) % Width = IF s + b < Width THEN s + b ELSE s + b - Width
  BY <1>1, Wraps
<1> QED BY <1>1, <1>2 DEF GslSeed

(***************************************************************************)
(* Counting draws                                                          *)
(***************************************************************************)
Possible == (1 .. MaxRuns) \X Task \X (1 .. Draws)

LEMMA PossibleSize ==
  IsFiniteSet(Possible) /\ Cardinality(Possible) <= N * Draws * MaxRuns
<1> DEFINE A == 1 .. MaxRuns
           B == 0 .. N - 1
           C == 1 .. Draws
           f == [x \in (A \X B) \X C |-> <<x[1][1], x[1][2], x[2]>>]
<1>1. IsFiniteSet(A) /\ Cardinality(A) = MaxRuns
  <2>1. IsFiniteSet(A) /\ Cardinality(A) = IF 1 > MaxRuns THEN 0 ELSE MaxRuns - 1 + 1
    BY FS_Interval
  <2> QED BY <2>1
<1>2. IsFiniteSet(B) /\ Cardinality(B) = N
  <2>1. 0 \in Int /\ N - 1 \in Int
    OBVIOUS
  <2>2. IsFiniteSet(B) /\ Cardinality(B) = IF 0 > N - 1 THEN 0 ELSE (N - 1) - 0 + 1
    BY <2>1, FS_Interval
  <2> QED BY <2>2
<1>3. IsFiniteSet(C) /\ Cardinality(C) = Draws
  <2>1. IsFiniteSet(C) /\ Cardinality(C) = IF 1 > Draws THEN 0 ELSE Draws - 1 + 1
    BY FS_Interval
  <2> QED BY <2>1
<1> HIDE DEF A, B, C
<1>4. IsFiniteSet(A \X B) /\ Cardinality(A \X B) = MaxRuns * N
  BY <1>1, <1>2, FS_Product
<1>5. IsFiniteSet((A \X B) \X C) /\ Cardinality((A \X B) \X C) = (MaxRuns * N) * Draws
  BY <1>3, <1>4, FS_Product
<1>6. f \in [(A \X B) \X C -> A \X B \X C]
  OBVIOUS
<1>7. \A y \in A \X B \X C : \E x \in (A \X B) \X C : f[x] = y
  <2> TAKE y \in A \X B \X C
  <2>1. << <<y[1], y[2]>>, y[3] >> \in (A \X B) \X C
    OBVIOUS
  <2>2. f[<< <<y[1], y[2]>>, y[3] >>] = y
    BY <2>1
  <2> QED BY <2>1, <2>2
<1>8. f \in Surjection((A \X B) \X C, A \X B \X C)
  BY <1>6, <1>7 DEF Surjection
<1>9. IsFiniteSet(A \X B \X C) /\ Cardinality(A \X B \X C) <= (MaxRuns * N) * Draws
  BY <1>5, <1>8, FS_Surjection
<1>10. (MaxRuns * N) * Draws = N * Draws * MaxRuns
  OBVIOUS
<1> QED BY <1>9, <1>10 DEF A, B, C, Possible, Task

LEMMA DrawSize ==
  IsFiniteSet(Draw) /\ Cardinality(Draw) \in Nat /\ Cardinality(Draw) <= N * Draws * MaxRuns
<1>1. Draw \subseteq Possible
  BY DEF Draw, Possible
<1>2. Cardinality(Draw) \in Nat /\ Cardinality(Possible) \in Nat
  BY <1>1, PossibleSize, FS_Subset, FS_CardinalityType
<1>3. N * Draws * MaxRuns \in Nat
  OBVIOUS
<1> QED BY <1>1, <1>2, <1>3, PossibleSize, FS_Subset

LEMMA DrawFacts ==
  ASSUME NEW d \in Draw
  PROVE  /\ d[1] \in 1 .. MaxRuns /\ d[2] \in Task /\ d[3] \in 1 .. Draws
         /\ d[3] <= Len(drawn[d[1]][d[2]])
         /\ d = <<d[1], d[2], d[3]>>
BY DEF Draw

(***************************************************************************)
(* The invariant                                                           *)
(***************************************************************************)
LEMMA ParentIsNoTask == Parent \notin Task /\ Task \subseteq Nat
<1>1. Parent \notin Nat /\ Task \subseteq Nat
  BY DEF Task
<1> QED BY <1>1

LEMMA NoDraws ==
  ASSUME drawn = [r \in 1 .. MaxRuns |-> [i \in Task |-> << >>]]
  PROVE  Draw = {}
BY DEF Draw

LEMMA InitInv == Init => IInv
<1> SUFFICES ASSUME Init PROVE IInv
  OBVIOUS
<1>1. PICK s \in Seed : generators = [p \in Process |-> seed(s)]
  BY DEF Init
<1>2. \A g \in Generator : GslSeed(s + g + 1) \in 0 .. Width - 1
  <2> TAKE g \in Generator
  <2>1. s + g + 1 \in Nat
    BY DEF Generator
  <2> QED BY <2>1, GslSeedType
<1>3. 0 \in 0 .. N * Draws * MaxRuns
  <2>1. N * Draws * MaxRuns \in Nat
    OBVIOUS
  <2> QED BY <2>1
<1>4. \A p \in Process, g \in Generator :
        /\ generators[p][g].seed = GslSeed(s + g + 1)
        /\ generators[p][g].position = 0
  <2>1. \A p \in Process : generators[p] = seed(s)
    BY <1>1
  <2>2. \A g \in Generator :
          seed(s)[g].seed = GslSeed(s + g + 1) /\ seed(s)[g].position = 0
    BY DEF seed
  <2> QED BY <2>1, <2>2
<1>5. seed(s) \in [Generator -> Number]
  BY <1>2, <1>3 DEF seed, Number
<1>6. TypeOK
  <2>1. << >> \in Seq(Number) /\ Len(<< >>) = 0
    BY EmptySeq
  <2>2. drawn \in [1 .. MaxRuns -> [Task -> Seq(Number)]]
    BY <2>1 DEF Init
  <2>3. \A r \in 1 .. MaxRuns, i \in Task : Len(drawn[r][i]) <= Draws
    BY <2>1 DEF Init
  <2>4. thread \in [Task -> Generator] /\ read \in [Task -> Number \union {None}]
    BY DEF Init, Generator
  <2> QED BY <1>1, <1>5, <2>2, <2>3, <2>4 DEF Init, TypeOK
<1>7. Draw = {}
  BY NoDraws DEF Init
<1>8. Counted
  <2>1. Cardinality(Draw) = 0
    BY <1>7, FS_EmptySet
  <2> QED BY <1>4, <2>1 DEF Counted, Init
<1>9. Apart
  <2> SUFFICES ASSUME NEW g \in Generator, NEW h \in Generator,
                      GslSeed(s + g + 1) = GslSeed(s + h + 1)
               PROVE  g = h
    BY <1>4 DEF Apart, Process
  <2>1. g + 1 \in 1 .. N + Thread /\ h + 1 \in 1 .. N + Thread
    BY DEF Generator
  <2>2. s + g + 1 = s + (g + 1) /\ s + h + 1 = s + (h + 1)
    BY <2>1 DEF Generator
  <2>3. g + 1 = h + 1
    BY <2>1, <2>2, SeedsApart
  <2> QED BY <2>3 DEF Generator
<1>10. Reading /\ Unborn /\ Placed /\ Current
  BY DEF Init, Reading, Unborn, Placed, Current, Running
<1>11. Passed /\ Once /\ Children
  BY <1>7 DEF Init, Passed, Once, Children, Running
<1> QED BY <1>6, <1>8, <1>9, <1>10, <1>11 DEF IInv

\* As long as nothing is drawn, the draws stay.
LEMMA SameDraws ==
  ASSUME drawn' = drawn
  PROVE  /\ Draw' = Draw
         /\ \A d : NumberOf(d)' = NumberOf(d)
BY DEF Draw, NumberOf

\* The chains that run_single and run_openmp start share the generators of the
\* parent, which a start leaves alone.
LEMMA SharedStartInv ==
  ASSUME IInv, NEW i \in Task, Begin(i), generators' = generators,
         thread' \in [Task -> Generator],
         \A j \in Task \ {i} : thread'[j] = thread[j],
         method /= "fork",
         method \in {"single", "openmp"} => \A j \in Running : thread'[i] /= thread[j]
  PROVE  IInv'
<1> USE DEF IInv, Begin
<1>1. Draw' = Draw /\ \A d : NumberOf(d)' = NumberOf(d)
  BY SameDraws
<1>2. /\ pc' \in [Task -> {"waiting", "idle", "drawing", "done"}] /\ pc'[i] = "idle"
      /\ \A j \in Task \ {i} : pc'[j] = pc[j]
      /\ Running' = Running \union {i} /\ i \notin Running
  BY DEF TypeOK, Running
<1>3. TypeOK'
  BY <1>2 DEF TypeOK
<1>4. Reading'
  BY <1>2 DEF Reading
<1>5. Unborn'
  BY <1>2 DEF Unborn
<1>6. Counted'
  BY <1>1, <1>2 DEF Counted
<1>7. Placed'
  BY <1>2 DEF Placed, Running
<1>8. Current'
  BY <1>2 DEF Current, process, TypeOK
<1>9. Apart'
  BY DEF Apart
<1>10. Passed' /\ Once'
  BY <1>1 DEF Passed, Once
<1>11. Children'
  BY DEF Children
<1> QED BY <1>3, <1>4, <1>5, <1>6, <1>7, <1>8, <1>9, <1>10, <1>11

\* A child has the stream of its index from the start.
LEMMA StartForkInv == ASSUME IInv, NEW i \in Task, StartFork(i) PROVE IInv'
<1> USE DEF IInv, Begin, StartFork
<1>1. Draw' = Draw /\ \A d : NumberOf(d)' = NumberOf(d)
  BY SameDraws
<1>2. /\ pc' \in [Task -> {"waiting", "idle", "drawing", "done"}] /\ pc'[i] = "idle"
      /\ \A j \in Task \ {i} : pc'[j] = pc[j]
      /\ Running' = Running \union {i} /\ i \notin Running
  BY DEF TypeOK, Running
<1>3. \A g \in Generator :
        /\ GslSeed(seed_ + i + g + 1) \in 0 .. Width - 1
        /\ seed(seed_ + i)[g] = [seed |-> GslSeed(seed_ + i + g + 1), position |-> 0]
        /\ seed(seed_ + i)[g].position = 0
  <2> TAKE g \in Generator
  <2>1. seed_ + i + g + 1 \in Nat
    BY DEF Generator, Task, TypeOK
  <2> QED BY <2>1, GslSeedType DEF seed
<1>4. 0 \in 0 .. N * Draws * MaxRuns
  <2>1. N * Draws * MaxRuns \in Nat
    OBVIOUS
  <2> QED BY <2>1
<1>5. seed(seed_ + i) \in [Generator -> Number]
  BY <1>3, <1>4 DEF seed, Number
<1>6. /\ generators' \in [Process -> [Generator -> Number]]
      /\ generators'[i] = seed(seed_ + i)
      /\ \A p \in Process \ {i} : generators'[p] = generators[p]
      /\ i /= Parent
  <2>1. i \in Process /\ i /= Parent
    BY ParentIsNoTask DEF Process
  <2> QED BY <1>5, <2>1 DEF TypeOK
<1>7. TypeOK'
  BY <1>2, <1>6 DEF TypeOK
<1>8. Reading' /\ Unborn'
  BY <1>2 DEF Reading, Unborn
<1>9. Counted'
  <2>1. \A g \in Generator : generators'[i][g].position <= Cardinality(Draw)
    <3>1. 0 <= Cardinality(Draw)
      BY DrawSize
    <3> QED BY <1>3, <1>6, <3>1
  <2>2. \A p \in Process, g \in Generator : generators'[p][g].position <= Cardinality(Draw)
    BY <2>1, <1>6 DEF Counted
  <2> QED BY <2>2, <1>1, <1>2 DEF Counted
<1>10. Placed'
  BY DEF Placed
<1>11. Current'
  BY <1>2, <1>6 DEF Current, process, Process
<1>12. Apart'
  BY <1>6 DEF Apart, Process
<1>13. Passed' /\ Once'
  BY DEF Passed, Once
<1>14. Children'
  <2>1. (\A d \in Draw : NumberOf(d) = ChildStream(d[2], d[3] - 1))'
    BY <1>1 DEF Children, ChildStream
  <2>2. (generators[i][0] = ChildStream(i, Len(drawn[run][i])))'
    <3>1. 0 \in Generator /\ seed_ + i + 0 + 1 = seed_ + i + 1
      BY DEF Generator, Task, TypeOK
    <3>3. generators'[i][0] = [seed |-> GslSeed(seed_ + i + 0 + 1), position |-> 0]
      BY <1>3, <1>6, <3>1
    <3>2. Len(drawn'[run'][i]) = 0
      BY EmptySeq DEF Unborn
    <3> QED BY <3>1, <3>2, <3>3 DEF ChildStream
  <2>3. \A j \in Running : (generators[j][0] = ChildStream(j, Len(drawn[run][j])))'
    <3> TAKE j \in Running
    <3>1. j \in Process \ {i}
      BY <1>2 DEF Running, Process
    <3> QED BY <1>6, <3>1 DEF Children, ChildStream
  <2> QED BY <1>2, <2>1, <2>2, <2>3 DEF Children
<1> QED BY <1>7, <1>8, <1>9, <1>10, <1>11, <1>12, <1>13, <1>14

LEMMA DrawReadsInv == ASSUME IInv, NEW i \in Task, DrawReads(i) PROVE IInv'
<1> USE DEF IInv, DrawReads
<1>1. Draw' = Draw /\ \A d : NumberOf(d)' = NumberOf(d)
  BY SameDraws
<1>2. /\ pc' \in [Task -> {"waiting", "idle", "drawing", "done"}] /\ pc'[i] = "drawing"
      /\ \A j \in Task \ {i} : pc'[j] = pc[j]
      /\ Running' = Running /\ pc[i] = "idle"
  BY DEF TypeOK, Running
<1>3. /\ process(i) \in Process /\ thread[i] \in Generator
      /\ generators[process(i)][thread[i]] \in Number
  BY DEF process, Process, TypeOK
<1>4. /\ read' \in [Task -> Number \union {None}]
      /\ read'[i] = generators[process(i)][thread[i]]
      /\ \A j \in Task \ {i} : read'[j] = read[j]
  BY <1>3 DEF TypeOK, nuklei_thread_num
<1>5. TypeOK'
  BY <1>2, <1>4 DEF TypeOK
<1>6. Reading' /\ Unborn'
  BY <1>2, <1>3, <1>4 DEF Reading, Unborn
<1>7. Counted'
  BY <1>1, <1>2, <1>3, <1>4 DEF Counted
<1>8. Placed'
  BY <1>2 DEF Placed
<1>9. Current'
  BY <1>2, <1>4 DEF Current, process
<1>10. Apart'
  BY DEF Apart
<1>11. Passed' /\ Once'
  BY <1>1 DEF Passed, Once
<1>12. Children'
  BY <1>1, <1>2 DEF Children, ChildStream
<1> QED BY <1>5, <1>6, <1>7, <1>8, <1>9, <1>10, <1>11, <1>12

LEMMA IsDraw ==
  ASSUME NEW r \in 1 .. MaxRuns, NEW j \in Task, NEW k \in 1 .. Draws
  PROVE  /\ <<r, j, k>> \in Draw <=> k <= Len(drawn[r][j])
         /\ <<r, j, k>> \in Draw' <=> k <= Len(drawn'[r][j])
BY DEF Draw

\* What DrawWrites does: one draw more, of the number read, and the generator
\* of the chain moves to the position after it.
LEMMA DrawWritesFacts ==
  ASSUME IInv, NEW i \in Task, DrawWrites(i),
         NEW n \in Nat, n = Len(drawn[run][i])
  PROVE  /\ <<run, i, n + 1>> \in Possible
         /\ <<run, i, n + 1>> \notin Draw
         /\ Draw' = Draw \union {<<run, i, n + 1>>}
         /\ drawn'[run][i][n + 1] = read[i]
         /\ \A d \in Draw : drawn'[d[1]][d[2]][d[3]] = drawn[d[1]][d[2]][d[3]]
         /\ drawn' \in [1 .. MaxRuns -> [Task -> Seq(Number)]]
         /\ Len(drawn'[run][i]) = n + 1
         /\ \A r \in 1 .. MaxRuns, j \in Task :
              r /= run \/ j /= i => drawn'[r][j] = drawn[r][j]
<1> USE DEF DrawWrites
<1> DEFINE new == <<run, i, n + 1>>
<1>1. /\ run \in 1 .. MaxRuns /\ drawn[run][i] \in Seq(Number) /\ n < Draws
      /\ read[i] \in Number
  BY DEF IInv, TypeOK, Reading
<1>2. /\ drawn' \in [1 .. MaxRuns -> [Task -> Seq(Number)]]
      /\ drawn'[run][i] = Append(drawn[run][i], read[i])
      /\ \A r \in 1 .. MaxRuns, j \in Task :
           r /= run \/ j /= i => drawn'[r][j] = drawn[r][j]
  BY <1>1 DEF IInv, TypeOK
<1>3. /\ Len(drawn'[run][i]) = n + 1 /\ drawn'[run][i][n + 1] = read[i]
      /\ \A k \in 1 .. n : drawn'[run][i][k] = drawn[run][i][k]
  BY <1>1, <1>2
<1>4. /\ new \in Possible /\ new[1] = run /\ new[2] = i /\ new[3] = n + 1
  <2>1. n < Draws /\ Draws \in Nat
    BY <1>1
  <2> HIDE DEF DrawWrites
  <2>2. n + 1 \in 1 .. Draws
    BY <2>1
  <2> QED BY <1>1, <2>2 DEF Possible
<1>5. new \notin Draw
  BY <1>1, <1>4 DEF Draw
<1> HIDE DEF DrawWrites
<1>6. ASSUME NEW r \in 1 .. MaxRuns, NEW j \in Task, NEW k \in 1 .. Draws, <<r, j, k>> /= new
      PROVE  <<r, j, k>> \in Draw' <=> <<r, j, k>> \in Draw
  <2>1. /\ <<r, j, k>> \in Draw <=> k <= Len(drawn[r][j])
        /\ <<r, j, k>> \in Draw' <=> k <= Len(drawn'[r][j])
    BY IsDraw
  <2>2. CASE r = run /\ j = i
    <3>1. k /= n + 1 /\ k \in Nat
      BY <1>6, <2>2
    <3>2. k <= n + 1 <=> k <= n
      BY <3>1
    <3> QED BY <1>3, <2>1, <2>2, <3>2
  <2>3. CASE ~(r = run /\ j = i)
    BY <1>2, <2>1, <2>3
  <2> QED BY <2>2, <2>3
<1>7. new \in Draw'
  <2>1. n + 1 \in 1 .. Draws
    BY <1>4 DEF Possible
  <2>2. n + 1 <= n + 1
    OBVIOUS
  <2> QED BY <1>1, <1>3, <2>1, <2>2, IsDraw
<1>8. Draw \subseteq Possible /\ Draw' \subseteq Possible
  BY DEF Draw, Possible
<1>9. Draw' = Draw \union {new}
  <2>1. \A d \in Possible : d /= new => (d \in Draw' <=> d \in Draw)
    BY <1>6 DEF Possible
  <2> QED BY <1>7, <1>8, <2>1
<1>11. ASSUME NEW d \in Draw
       PROVE  drawn'[d[1]][d[2]][d[3]] = drawn[d[1]][d[2]][d[3]]
  <2>0. /\ d[1] \in 1 .. MaxRuns /\ d[2] \in Task /\ d[3] \in 1 .. Draws
        /\ d[3] <= Len(drawn[d[1]][d[2]])
    BY DrawFacts
  <2>1. CASE d[1] = run /\ d[2] = i
    <3>1. d[3] \in 1 .. n
      BY <2>0, <2>1
    <3> QED BY <1>3, <2>1, <3>1
  <2>2. CASE ~(d[1] = run /\ d[2] = i)
    BY <1>2, <2>0, <2>2
  <2> QED BY <2>1, <2>2
<1> QED BY <1>2, <1>3, <1>4, <1>5, <1>9, <1>11

LEMMA GeneratorMoves ==
  ASSUME IInv, NEW i \in Task, DrawWrites(i)
  PROVE  /\ process(i) \in Process /\ thread[i] \in Generator
         /\ read[i] \in Number /\ read[i].position + 1 <= Cardinality(Draw')
         /\ Cardinality(Draw) \in Nat /\ Cardinality(Draw') = Cardinality(Draw) + 1
         /\ generators' \in [Process -> [Generator -> Number]]
         /\ generators'[process(i)][thread[i]].seed = generators[process(i)][thread[i]].seed
         /\ generators'[process(i)][thread[i]].position = read[i].position + 1
         /\ \A p \in Process, g \in Generator :
              p /= process(i) \/ g /= thread[i] => generators'[p][g] = generators[p][g]
<1> USE DEF DrawWrites
<1>1. process(i) \in Process /\ thread[i] \in Generator /\ read[i] \in Number
  BY DEF IInv, TypeOK, Reading, process, Process
<1>2. /\ read[i].position \in Nat /\ read[i].position <= Cardinality(Draw)
  BY <1>1 DEF IInv, Counted, Number
<1>3. /\ IsFiniteSet(Draw) /\ Cardinality(Draw) \in Nat
      /\ Cardinality(Draw') = Cardinality(Draw) + 1
  <2> DEFINE n == Len(drawn[run][i])
             new == <<run, i, n + 1>>
  <2>1. n \in Nat
    BY DEF IInv, TypeOK
  <2> HIDE DEF n
  <2>2. new \notin Draw /\ Draw' = Draw \union {new}
    BY <2>1, DrawWritesFacts DEF n
  <2> HIDE DEF new
  <2>3. IsFiniteSet(Draw) /\ Cardinality(Draw) \in Nat
    BY DrawSize
  <2> QED BY <2>2, <2>3, FS_AddElement
<1>4. Cardinality(Draw') <= N * Draws * MaxRuns
  <2>1. Draw' \subseteq Possible
    BY DEF Draw, Possible
  <2>2. Cardinality(Draw') <= Cardinality(Possible) /\ Cardinality(Possible) \in Nat
    BY <2>1, PossibleSize, FS_Subset, FS_CardinalityType
  <2>3. N * Draws * MaxRuns \in Nat
    OBVIOUS
  <2> QED BY <1>3, <2>2, <2>3, PossibleSize
<1>5. read[i].position + 1 \in 0 .. N * Draws * MaxRuns
  <2> HIDE DEF DrawWrites
  <2>1. N * Draws * MaxRuns \in Nat
    OBVIOUS
  <2>2. read[i].position + 1 <= Cardinality(Draw')
    BY <1>2, <1>3
  <2> QED BY <1>2, <1>3, <1>4, <2>1, <2>2
<1> DEFINE p0 == process(i)
           g0 == thread[i]
           moved == [generators[p0][g0] EXCEPT !.position = read[i].position + 1]
           row == [generators[p0] EXCEPT ![g0] = moved]
<1>6. generators[p0] \in [Generator -> Number] /\ generators[p0][g0] \in Number
  BY <1>1 DEF IInv, TypeOK
<1>7. /\ moved \in Number /\ moved.seed = generators[p0][g0].seed
      /\ moved.position = read[i].position + 1
  BY <1>5, <1>6 DEF Number
<1>8. generators' = [generators EXCEPT ![p0] = row]
  BY <1>1 DEF IInv, TypeOK, nuklei_thread_num
<1> HIDE DEF moved
<1>9. /\ row \in [Generator -> Number] /\ row[g0] = moved
      /\ \A g \in Generator \ {g0} : row[g] = generators[p0][g]
  BY <1>1, <1>6, <1>7
<1> HIDE DEF row, p0, DrawWrites
<1>10. /\ generators' \in [Process -> [Generator -> Number]]
       /\ generators'[p0] = row
       /\ \A p \in Process \ {p0} : generators'[p] = generators[p]
  <2>1. p0 \in Process /\ generators \in [Process -> [Generator -> Number]]
    BY <1>1 DEF IInv, TypeOK, p0
  <2> QED BY <1>8, <1>9, <2>1
<1>11. \A p \in Process, g \in Generator :
         p /= p0 \/ g /= g0 => generators'[p][g] = generators[p][g]
  BY <1>9, <1>10
<1>12. read[i].position + 1 <= Cardinality(Draw')
  BY <1>2, <1>3
<1> HIDE DEF g0
<1>13. generators'[p0][g0] = moved
  BY <1>9, <1>10
<1> QED BY <1>1, <1>3, <1>7, <1>10, <1>11, <1>12, <1>13 DEF p0, g0

LEMMA DrawWritesInv == ASSUME IInv, NEW i \in Task, DrawWrites(i) PROVE IInv'
<1> DEFINE p0 == process(i)
           g0 == thread[i]
           n == Len(drawn[run][i])
           new == <<run, i, n + 1>>
<1>1. /\ TypeOK /\ Reading /\ Unborn /\ Counted
      /\ Placed /\ Current /\ Apart /\ Passed /\ Once /\ Children
  BY DEF IInv
<1>2. n \in Nat /\ n < Draws /\ run \in 1 .. MaxRuns /\ n + 1 \in 1 .. Draws
  <2>1. n \in Nat /\ run \in 1 .. MaxRuns
    BY <1>1 DEF TypeOK
  <2>2. n < Draws
    BY <1>1 DEF DrawWrites, Reading
  <2> HIDE DEF n
  <2> QED BY <2>1, <2>2
<1>3. /\ new \in Possible /\ new \notin Draw /\ Draw' = Draw \union {new}
      /\ drawn'[run][i][n + 1] = read[i]
      /\ \A d \in Draw : drawn'[d[1]][d[2]][d[3]] = drawn[d[1]][d[2]][d[3]]
      /\ drawn' \in [1 .. MaxRuns -> [Task -> Seq(Number)]]
      /\ Len(drawn'[run][i]) = n + 1
      /\ \A r \in 1 .. MaxRuns, j \in Task :
           r /= run \/ j /= i => drawn'[r][j] = drawn[r][j]
  <2> HIDE DEF n
  <2> QED BY <1>2, DrawWritesFacts DEF n
<1>4. /\ p0 \in Process /\ g0 \in Generator
      /\ read[i] \in Number /\ read[i].position + 1 <= Cardinality(Draw')
      /\ Cardinality(Draw) \in Nat /\ Cardinality(Draw') = Cardinality(Draw) + 1
      /\ generators' \in [Process -> [Generator -> Number]]
      /\ generators'[p0][g0].seed = generators[p0][g0].seed
      /\ generators'[p0][g0].position = read[i].position + 1
      /\ \A p \in Process, g \in Generator :
           p /= p0 \/ g /= g0 => generators'[p][g] = generators[p][g]
  BY GeneratorMoves
<1>5. /\ pc' \in [Task -> {"waiting", "idle", "drawing", "done"}]
      /\ pc[i] = "drawing" /\ pc'[i] = "idle"
      /\ \A j \in Task \ {i} : pc'[j] = pc[j]
      /\ Running' = Running /\ i \in Running
      /\ read' \in [Task -> Number \union {None}]
      /\ \A j \in Task \ {i} : read'[j] = read[j]
      /\ method' = method /\ seed_' = seed_ /\ run' = run /\ thread' = thread
  BY <1>1 DEF DrawWrites, TypeOK, Running
<1>6. \A p \in Process, g \in Generator : generators'[p][g].seed = generators[p][g].seed
  BY <1>4
<1>7. /\ \A p \in Process, g \in Generator : generators[p][g].position \in Nat
      /\ read[i].position \in Nat
  BY <1>1, <1>4 DEF TypeOK, Number
<1>8. \A d \in Draw : NumberOf(d)' = NumberOf(d)
  BY <1>3 DEF NumberOf
<1> HIDE DEF p0, g0, n
<1>9. TypeOK'
  <2>1. \A r \in 1 .. MaxRuns, j \in Task : Len(drawn'[r][j]) <= Draws
    <3> TAKE r \in 1 .. MaxRuns, j \in Task
    <3>1. CASE r = run /\ j = i
      BY <1>2, <1>3, <3>1
    <3>2. CASE r /= run \/ j /= i
      BY <1>1, <1>3, <3>2 DEF TypeOK
    <3> QED BY <3>1, <3>2
  <2> QED BY <1>1, <1>3, <1>4, <1>5, <2>1 DEF TypeOK
<1>10. Reading'
  BY <1>1, <1>2, <1>3, <1>5 DEF Reading
<1>11. Unborn'
  <2>1. ASSUME NEW j \in Task, pc'[j] = "waiting" PROVE drawn'[run][j] = << >>
    <3>1. j /= i /\ pc[j] = "waiting"
      BY <1>5, <2>1
    <3>2. drawn'[run][j] = drawn[run][j]
      BY <1>2, <1>3, <3>1
    <3> QED BY <1>1, <3>1, <3>2 DEF Unborn
  <2>2. ASSUME NEW j \in Task, NEW r \in run + 1 .. MaxRuns PROVE drawn'[r][j] = << >>
    <3>1. r \in 1 .. MaxRuns /\ r /= run
      BY <1>2
    <3> QED BY <1>1, <1>3, <3>1 DEF Unborn
  <2> QED BY <1>5, <2>1, <2>2 DEF Unborn
<1>12. Counted'
  <2>1. ASSUME NEW p \in Process, NEW g \in Generator
        PROVE  generators'[p][g].position <= Cardinality(Draw')
    <3>1. CASE p = p0 /\ g = g0
      BY <1>4, <3>1
    <3>2. CASE ~(p = p0 /\ g = g0)
      <4>1. generators'[p][g].position = generators[p][g].position
        BY <1>4, <3>2
      <4>2. generators[p][g].position <= Cardinality(Draw)
        BY <1>1 DEF Counted
      <4> QED BY <1>4, <1>7, <4>1, <4>2
    <3> QED BY <3>1, <3>2
  <2>2. ASSUME NEW j \in Task, pc'[j] = "drawing"
        PROVE  read'[j].position <= Cardinality(Draw')
    <3>1. j /= i /\ pc[j] = "drawing" /\ read'[j] = read[j] /\ read[j] \in Number
      BY <1>1, <1>5, <2>2 DEF Reading
    <3>2. read[j].position \in Nat /\ read[j].position <= Cardinality(Draw)
      BY <1>1, <3>1 DEF Counted, Number
    <3> QED BY <1>4, <3>1, <3>2
  <2> QED BY <2>1, <2>2 DEF Counted
<1>13. Placed'
  BY <1>1, <1>5 DEF Placed
<1>14. Current'
  <2> SUFFICES ASSUME method /= "pthread", NEW j \in Task, pc'[j] = "drawing"
               PROVE  read'[j] = generators'[process(j)][thread[j]]
    BY <1>5 DEF Current, process
  <2>1. /\ j /= i /\ pc[j] = "drawing" /\ read'[j] = read[j]
        /\ read[j] = generators[process(j)][thread[j]]
        /\ j \in Running
    BY <1>1, <1>5 DEF Current, Running
  <2>2. process(j) \in Process /\ thread[j] \in Generator
    BY <1>1 DEF TypeOK, process, Process
  <2>3. CASE method = "fork"
    BY <1>4, <2>1, <2>2, <2>3 DEF process, p0
  <2>4. CASE method \in {"single", "openmp"}
    BY <1>1, <1>4, <1>5, <2>1, <2>2, <2>4 DEF Placed, g0
  <2> QED BY <1>1, <2>3, <2>4 DEF TypeOK
<1>15. Apart'
  BY <1>1, <1>6 DEF Apart, Process
\* Under run_single and run_openmp the number read is the next one of a
\* generator of the parent.
<1>16. ASSUME method \in {"single", "openmp"}
       PROVE  p0 = Parent /\ read[i] = generators[Parent][g0] /\ Parent \in Process
  BY <1>1, <1>5, <1>16 DEF Current, process, p0, g0, Process
<1>17. Passed'
  <2> SUFFICES ASSUME method \in {"single", "openmp"}, NEW d \in Draw'
               PROVE  \E g \in Generator :
                        /\ (NumberOf(d)').seed = generators'[Parent][g].seed
                        /\ (NumberOf(d)').position < generators'[Parent][g].position
    BY <1>5 DEF Passed
  <2>1. CASE d \in Draw
    <3>1. PICK g \in Generator : /\ NumberOf(d).seed = generators[Parent][g].seed
                                 /\ NumberOf(d).position < generators[Parent][g].position
      BY <1>1, <2>1 DEF Passed
    <3>2. NumberOf(d).position \in Nat
      <4>1. d[1] \in 1 .. MaxRuns /\ d[2] \in Task /\ d[3] \in 1 .. Len(drawn[d[1]][d[2]])
        BY <1>1, <2>1, DrawFacts DEF TypeOK
      <4>2. drawn[d[1]][d[2]] \in Seq(Number)
        BY <1>1, <4>1 DEF TypeOK
      <4>3. NumberOf(d) \in Number
        BY <4>1, <4>2 DEF NumberOf
      <4> QED BY <4>3 DEF Number
    <3>3. generators[Parent][g].position <= generators'[Parent][g].position
      BY <1>4, <1>7, <1>16
    <3>4. generators'[Parent][g].position \in Nat
      BY <1>4, <1>16 DEF Number
    <3>5. NumberOf(d).position < generators'[Parent][g].position
      BY <1>7, <1>16, <3>1, <3>2, <3>3, <3>4
    <3> QED BY <1>6, <1>8, <1>16, <2>1, <3>1, <3>5
  <2>2. CASE d = new
    <3>1. NumberOf(d)' = read[i]
      BY <1>3, <1>5, <2>2 DEF NumberOf
    <3>2. /\ read[i].seed = generators'[Parent][g0].seed
          /\ read[i].position < generators'[Parent][g0].position
      BY <1>4, <1>7, <1>16
    <3> QED BY <1>4, <3>1, <3>2
  <2> QED BY <1>3, <2>1, <2>2
<1>18. Once'
  <2>1. ASSUME method \in {"single", "openmp"}, NEW d \in Draw
        PROVE  NumberOf(d) /= read[i]
    <3>1. PICK g \in Generator : /\ NumberOf(d).seed = generators[Parent][g].seed
                                 /\ NumberOf(d).position < generators[Parent][g].position
      BY <1>1, <2>1 DEF Passed
    <3> SUFFICES ASSUME NumberOf(d) = read[i] PROVE FALSE
      OBVIOUS
    <3>2. g = g0
      BY <1>1, <1>4, <1>16, <2>1, <3>1 DEF Apart
    <3> QED BY <1>7, <1>16, <2>1, <3>1, <3>2
  <2> SUFFICES ASSUME method \in {"single", "openmp"}, NEW c \in Draw', NEW d \in Draw',
                      NumberOf(c)' = NumberOf(d)'
               PROVE  c = d
    BY <1>5 DEF Once
  <2>2. \A e : e = new => NumberOf(e)' = read[i]
    BY <1>3, <1>5 DEF NumberOf
  <2>3. CASE c \in Draw /\ d \in Draw
    BY <1>1, <1>8, <2>3 DEF Once
  <2>4. CASE c = new /\ d \in Draw
    BY <1>8, <2>1, <2>2, <2>4
  <2>5. CASE c \in Draw /\ d = new
    BY <1>8, <2>1, <2>2, <2>5
  <2> QED BY <1>3, <2>3, <2>4, <2>5
<1>19. Children'
  <2> SUFFICES ASSUME method = "fork"
               PROVE  /\ \A d \in Draw' : NumberOf(d)' = ChildStream(d[2], d[3] - 1)
                      /\ \A j \in Running :
                           generators'[j][0] = ChildStream(j, Len(drawn'[run][j]))
    BY <1>5 DEF Children, ChildStream
  <2>1. p0 = i /\ g0 = 0 /\ read[i] = generators[i][0]
        /\ generators[i][0] = ChildStream(i, n)
    BY <1>1, <1>5 DEF Current, Placed, Children, process, p0, g0, n
  <2>2. read[i].seed = GslSeed(seed_ + i + 1) /\ read[i].position = n
    BY <2>1 DEF ChildStream
  <2>3. generators'[i][0] = ChildStream(i, n + 1)
    <3>1. /\ generators'[i][0] \in Number
          /\ generators'[i][0].seed = GslSeed(seed_ + i + 1)
          /\ generators'[i][0].position = n + 1
      BY <1>4, <2>1, <2>2
    <3> QED BY <3>1 DEF ChildStream, Number
  <2>4. ASSUME NEW d \in Draw' PROVE NumberOf(d)' = ChildStream(d[2], d[3] - 1)
    <3>1. CASE d \in Draw
      BY <1>1, <1>8, <3>1 DEF Children
    <3>2. CASE d = new
      <4>1. NumberOf(d)' = read[i] /\ d[2] = i /\ d[3] = n + 1
        BY <1>3, <1>5, <3>2 DEF NumberOf
      <4>2. (n + 1) - 1 = n
        BY <1>2
      <4> QED BY <2>1, <4>1, <4>2
    <3> QED BY <1>3, <3>1, <3>2
  <2>5. ASSUME NEW j \in Running
        PROVE  generators'[j][0] = ChildStream(j, Len(drawn'[run][j]))
    <3>1. CASE j = i
      BY <1>3, <2>3, <3>1
    <3>2. CASE j /= i
      <4>1. j \in Task /\ j \in Process /\ 0 \in Generator
        BY DEF Running, Process, Generator
      <4>2. generators'[j][0] = generators[j][0] /\ drawn'[run][j] = drawn[run][j]
        BY <1>2, <1>3, <1>4, <2>1, <3>2, <4>1
      <4> QED BY <1>1, <4>2 DEF Children
    <3> QED BY <3>1, <3>2
  <2> QED BY <2>4, <2>5
<1> QED BY <1>9, <1>10, <1>11, <1>12, <1>13, <1>14, <1>15, <1>17, <1>18, <1>19 DEF IInv

LEMMA FinishInv == ASSUME IInv, NEW i \in Task, Finish(i) PROVE IInv'
<1> USE DEF IInv, Finish
<1>1. Draw' = Draw /\ \A d : NumberOf(d)' = NumberOf(d)
  BY SameDraws
<1>2. /\ pc' \in [Task -> {"waiting", "idle", "drawing", "done"}] /\ pc'[i] = "done"
      /\ \A j \in Task \ {i} : pc'[j] = pc[j]
      /\ Running' = Running \ {i}
      /\ thread' \in [Task -> Generator] /\ thread'[i] = 0
      /\ \A j \in Task \ {i} : thread'[j] = thread[j]
  <2>1. 0 \in Generator
    BY DEF Generator
  <2> QED BY <2>1 DEF TypeOK, Running
<1>3. TypeOK'
  BY <1>2 DEF TypeOK
<1>4. Reading' /\ Unborn'
  BY <1>2 DEF Reading, Unborn
<1>5. Counted'
  BY <1>1, <1>2 DEF Counted
<1>6. Placed'
  BY <1>2 DEF Placed, Running
<1>7. Current'
  BY <1>2 DEF Current, process
<1>8. Apart'
  BY DEF Apart
<1>9. Passed' /\ Once'
  BY <1>1 DEF Passed, Once
<1>10. Children'
  BY <1>1, <1>2 DEF Children, ChildStream
<1> QED BY <1>3, <1>4, <1>5, <1>6, <1>7, <1>8, <1>9, <1>10

\* The draws of the runs before stay, and those of the next run are to come.
LEMMA RunAgainInv == ASSUME IInv, RunAgain PROVE IInv'
<1> USE DEF IInv, RunAgain
<1>1. Draw' = Draw /\ \A d : NumberOf(d)' = NumberOf(d)
  BY SameDraws
<1>2. /\ \A j \in Task : pc'[j] = "waiting"
      /\ Running' = {}
      /\ run' \in 1 .. MaxRuns /\ run' \in run + 1 .. MaxRuns /\ run' + 1 \in Int
  BY DEF TypeOK, Running
<1>3. TypeOK'
  BY <1>2 DEF TypeOK
<1>4. Reading'
  BY <1>2 DEF Reading
<1>5. Unborn'
  <2>1. \A r \in run' + 1 .. MaxRuns : r \in run + 1 .. MaxRuns
    BY DEF TypeOK
  <2> QED BY <1>2, <2>1 DEF Unborn
<1>6. Counted'
  BY <1>1, <1>2 DEF Counted
<1>7. Placed'
  BY <1>2 DEF Placed
<1>8. Current'
  BY <1>2 DEF Current
<1>9. Apart'
  BY DEF Apart
<1>10. Passed' /\ Once'
  BY <1>1 DEF Passed, Once
<1>11. Children'
  BY <1>1, <1>2 DEF Children, ChildStream
<1> QED BY <1>3, <1>4, <1>5, <1>6, <1>7, <1>8, <1>9, <1>10, <1>11

LEMMA NextInv == IInv /\ [Next]_vars => IInv'
<1> SUFFICES ASSUME IInv, [Next]_vars PROVE IInv'
  OBVIOUS
<1>1. ASSUME NEW i \in Task, StartSingle(i) PROVE IInv'
  BY <1>1, SharedStartInv DEF StartSingle, IInv, TypeOK
<1>2. ASSUME NEW i \in Task, StartOpenmp(i) PROVE IInv'
  <2>1. PICK t \in Generator \ {thread[j] : j \in Running} : thread' = [thread EXCEPT ![i] = t]
    BY <1>2 DEF StartOpenmp
  <2>2. /\ thread' \in [Task -> Generator] /\ thread'[i] = t
        /\ \A j \in Task \ {i} : thread'[j] = thread[j]
    BY <2>1 DEF IInv, TypeOK
  <2> QED BY <1>2, <2>1, <2>2, SharedStartInv DEF StartOpenmp
<1>3. ASSUME NEW i \in Task, StartPthread(i) PROVE IInv'
  BY <1>3, SharedStartInv DEF StartPthread, IInv, TypeOK
<1>4. ASSUME UNCHANGED vars PROVE IInv'
  <2>1. Draw' = Draw /\ (\A d : NumberOf(d)' = NumberOf(d)) /\ Running' = Running
    BY <1>4, SameDraws DEF vars, Running
  <2>2. TypeOK' /\ Reading' /\ Unborn' /\ Placed' /\ Apart'
    BY <1>4, <2>1 DEF IInv, vars, TypeOK, Reading, Unborn, Placed, Apart
  <2>3. Counted' /\ Passed' /\ Once'
    BY <1>4, <2>1 DEF IInv, vars, Counted, Passed, Once
  <2>4. Current' /\ Children'
    BY <1>4, <2>1 DEF IInv, vars, Current, process, Children, ChildStream
  <2> QED BY <2>2, <2>3, <2>4 DEF IInv
<1> QED BY <1>1, <1>2, <1>3, <1>4, StartForkInv, DrawReadsInv, DrawWritesInv, FinishInv,
           RunAgainInv DEF Next

LEMMA Inductive == Spec => []IInv
BY InitInv, NextInv, PTL DEF Spec

(***************************************************************************)
(* Theorems                                                                *)
(***************************************************************************)

\* The generators, the threads' numbers and what is drawn have their types:
\* no generator gets further than one position for each draw.
THEOREM TypeCorrect == Spec => []TypeOK
<1>1. IInv => TypeOK
  BY DEF IInv
<1> QED BY Inductive, <1>1, PTL

\* Two children draw from streams of different seeds, around the wrap-around of
\* the seeds too.
LEMMA ChildrenApart ==
  ASSUME TypeOK, NEW i \in Task, NEW j \in Task, NEW k \in Int, NEW l \in Int,
         ChildStream(i, k) = ChildStream(j, l)
  PROVE  i = j /\ k = l
<1>1. GslSeed(seed_ + i + 1) = GslSeed(seed_ + j + 1) /\ k = l
  BY DEF ChildStream
<1>2. /\ i + 1 \in 1 .. N + Thread /\ j + 1 \in 1 .. N + Thread
      /\ seed_ + i + 1 = seed_ + (i + 1) /\ seed_ + j + 1 = seed_ + (j + 1)
  BY DEF Task, TypeOK
<1>3. i + 1 = j + 1
  BY <1>1, <1>2, SeedsApart DEF TypeOK
<1> QED BY <1>1, <1>3 DEF Task

\* No number of any stream is drawn twice, whatever the schedule, but where the
\* threads of run_pthread race on a generator, and where run_fork draws again
\* in one run what it has drawn in another.
THEOREM DrawnDifferently == Spec => []DrawnOnce
<1>1. ASSUME IInv PROVE DrawnOnce
  <2> SUFFICES ASSUME NEW c \in Draw, NEW d \in Draw, c /= d, NumberOf(c) = NumberOf(d)
               PROVE  \/ method = "pthread"
                      \/ method = "fork" /\ c[1] /= d[1] /\ c[2] = d[2] /\ c[3] = d[3]
    BY DEF DrawnOnce
  <2>1. method \notin {"single", "openmp"}
    BY <1>1 DEF IInv, Once
  <2>2. ASSUME method = "fork" PROVE c[1] /= d[1] /\ c[2] = d[2] /\ c[3] = d[3]
    <3>1. ChildStream(c[2], c[3] - 1) = ChildStream(d[2], d[3] - 1)
      BY <1>1, <2>2 DEF IInv, Children
    <3>2. /\ c[2] \in Task /\ d[2] \in Task /\ c[3] - 1 \in Int /\ d[3] - 1 \in Int
          /\ c[3] \in Int /\ d[3] \in Int
          /\ c = <<c[1], c[2], c[3]>> /\ d = <<d[1], d[2], d[3]>>
      BY DrawFacts
    <3>3. c[2] = d[2] /\ c[3] - 1 = d[3] - 1
      BY <1>1, <3>1, <3>2, ChildrenApart DEF IInv
    <3> QED BY <3>2, <3>3
  <2> QED BY <1>1, <2>1, <2>2 DEF IInv, TypeOK
<1> QED BY Inductive, <1>1, PTL

\* A child draws the same numbers in every run of a parallelizer of this seed:
\* they follow from the seed and its index, not from the environment's seed,
\* the order of the children or the runs before.
THEOREM Repeats == Spec => []ForkRepeats
<1>1. IInv => ForkRepeats
  BY DEF IInv, Children, ForkRepeats
<1> QED BY Inductive, <1>1, PTL

=============================================================================

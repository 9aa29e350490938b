------------------------- MODULE ParallelizerProofs -------------------------
(***************************************************************************)
(* parallelizer::run, for every number of tasks, every set of threads, and *)
(* whichever tasks throw or die:                                           *)
(*                                                                         *)
(* run_openmp merges the value of each iteration once and never moves it,  *)
(* and its two locks are held by whom they should;                         *)
(* run_pthread hands its slots over in order, and leaves them early only   *)
(* when a thread could not be started;                                     *)
(* run_fork returns only with the value of every child, whatever the order *)
(* in which they connect, die or throw;                                    *)
(* and run() keeps its contract, module ParallelRun, by every method.      *)
(***************************************************************************)
EXTENDS Parallelizer, Functions, FiniteSets, SequenceTheorems, FiniteSetTheorems, TLAPS

(***************************************************************************)
(* Facts about the elements and the injectivity of sequences that grow at  *)
(* one end and shrink at the other: the vectors of results and the queue   *)
(* of pending connections.                                                 *)
(***************************************************************************)
LEMMA EmptySeqFacts == Range(<< >>) = {} /\ IsInjective(<< >>) /\ Len(<< >>) = 0
<1>1. << >> \in Seq({}) /\ Len(<< >>) = 0
  BY EmptySeq
<1>2. DOMAIN << >> = {}
  BY <1>1, LenProperties
<1> QED BY <1>1, <1>2 DEF Range, IsInjective

LEMMA AppendFacts ==
  ASSUME NEW S, NEW s \in Seq(S), NEW e \in S
  PROVE  /\ Append(s, e) \in Seq(S)
         /\ Len(Append(s, e)) = Len(s) + 1
         /\ Range(Append(s, e)) = Range(s) \union {e}
         /\ IsInjective(s) /\ e \notin Range(s) => IsInjective(Append(s, e))
<1> DEFINE t == Append(s, e)
<1>1. Len(s) \in Nat /\ DOMAIN s = 1 .. Len(s)
  BY LenProperties
<1>2. /\ t \in Seq(S)
      /\ Len(t) = Len(s) + 1
      /\ \A k \in 1 .. Len(s) : t[k] = s[k]
      /\ t[Len(s) + 1] = e
  BY <1>1
<1>3. DOMAIN t = 1 .. Len(s) + 1
  BY <1>2, LenProperties
<1>4. Range(t) = Range(s) \union {e}
  <2>1. ASSUME NEW x \in Range(t) PROVE x \in Range(s) \union {e}
    <3>1. PICK k \in 1 .. Len(s) + 1 : x = t[k]
      BY <1>3, <2>1 DEF Range
    <3>2. k \in 1 .. Len(s) \/ k = Len(s) + 1
      BY <1>1
    <3> QED BY <3>1, <3>2, <1>1, <1>2 DEF Range
  <2>2. ASSUME NEW x \in Range(s) \union {e} PROVE x \in Range(t)
    <3>1. CASE x = e
      BY <3>1, <1>1, <1>2, <1>3 DEF Range
    <3>2. CASE x \in Range(s)
      <4>1. PICK k \in 1 .. Len(s) : x = s[k]
        BY <1>1, <3>2 DEF Range
      <4>2. k \in DOMAIN t /\ t[k] = x
        BY <4>1, <1>1, <1>2, <1>3
      <4> QED BY <4>2 DEF Range
    <3> QED BY <2>2, <3>1, <3>2
  <2> QED BY <2>1, <2>2
<1>5. ASSUME IsInjective(s), e \notin Range(s) PROVE IsInjective(t)
  <2>1. \A a, b \in 1 .. Len(s) : s[a] = s[b] => a = b
    BY <1>1, <1>5 DEF IsInjective
  <2>2. \A a \in 1 .. Len(s) : s[a] /= e
    BY <1>1, <1>5 DEF Range
  <2>3. ASSUME NEW a \in 1 .. Len(s) + 1, NEW b \in 1 .. Len(s) + 1, t[a] = t[b]
        PROVE  a = b
    <3>1. a \in 1 .. Len(s) \/ a = Len(s) + 1
      BY <1>1
    <3>2. b \in 1 .. Len(s) \/ b = Len(s) + 1
      BY <1>1
    <3> QED BY <3>1, <3>2, <1>2, <2>1, <2>2, <2>3
  <2> QED BY <1>3, <2>3 DEF IsInjective
<1> HIDE DEF t
<1> QED BY <1>2, <1>4, <1>5 DEF t

LEMMA HeadTailFacts ==
  ASSUME NEW S, NEW s \in Seq(S), s /= << >>
  PROVE  /\ Head(s) \in S
         /\ Tail(s) \in Seq(S)
         /\ Range(s) = Range(Tail(s)) \union {Head(s)}
         /\ IsInjective(s) => IsInjective(Tail(s)) /\ Head(s) \notin Range(Tail(s))
<1> DEFINE t == Tail(s)
<1>1. /\ Head(s) \in S
      /\ t \in Seq(S)
      /\ Len(t) = Len(s) - 1
      /\ \A k \in 1 .. Len(t) : t[k] = s[k + 1]
  BY HeadTailProperties
<1>2. Len(s) \in Nat \ {0} /\ DOMAIN s = 1 .. Len(s)
  BY EmptySeq, LenProperties
<1>3. DOMAIN t = 1 .. Len(s) - 1
  BY <1>1, LenProperties
<1>4. Head(s) = s[1]
  OBVIOUS
<1>5. \A k \in 1 .. Len(s) - 1 : t[k] = s[k + 1] /\ k + 1 \in 1 .. Len(s)
  BY <1>1, <1>2
<1> HIDE DEF t
<1>6. Range(s) = Range(t) \union {Head(s)}
  <2>1. ASSUME NEW x \in Range(s) PROVE x \in Range(t) \union {Head(s)}
    <3>1. PICK k \in 1 .. Len(s) : x = s[k]
      BY <1>2, <2>1 DEF Range
    <3>2. CASE k = 1
      BY <3>1, <3>2, <1>4
    <3>3. CASE k /= 1
      <4>1. k - 1 \in 1 .. Len(s) - 1 /\ (k - 1) + 1 = k
        BY <1>2, <3>1, <3>3
      <4>2. t[k - 1] = x
        BY <4>1, <3>1, <1>5
      <4> QED BY <4>1, <4>2, <1>3 DEF Range
    <3> QED BY <3>2, <3>3
  <2>2. Range(t) \subseteq Range(s)
    BY <1>2, <1>3, <1>5 DEF Range
  <2>3. Head(s) \in Range(s)
    BY <1>2, <1>4 DEF Range
  <2> QED BY <2>1, <2>2, <2>3
<1>7. ASSUME IsInjective(s) PROVE IsInjective(t) /\ Head(s) \notin Range(t)
  <2>1. \A a, b \in 1 .. Len(s) : s[a] = s[b] => a = b
    BY <1>2, <1>7 DEF IsInjective
  <2>2. ASSUME NEW a \in 1 .. Len(s) - 1, NEW b \in 1 .. Len(s) - 1, t[a] = t[b]
        PROVE  a = b
    <3>1. a + 1 = b + 1
      BY <1>5, <2>1, <2>2
    <3> QED BY <3>1, <1>2
  <2>3. ASSUME NEW a \in 1 .. Len(s) - 1 PROVE t[a] /= Head(s)
    <3>1. a + 1 /= 1 /\ 1 \in 1 .. Len(s)
      BY <1>2
    <3> QED BY <3>1, <1>4, <1>5, <2>1
  <2> QED BY <1>3, <2>2, <2>3 DEF IsInjective, Range
<1> QED BY <1>1, <1>6, <1>7 DEF t

\* A sequence of Len(s) different elements of a set of that size holds them
\* all: the pigeonhole argument behind "n_ values read means every value read".
LEMMA FullSeq ==
  ASSUME NEW n \in Nat, NEW s \in Seq(0 .. n - 1), IsInjective(s), Len(s) = n
  PROVE  Range(s) = 0 .. n - 1
<1>1. DOMAIN s = 1 .. n /\ s \in [1 .. n -> 0 .. n - 1]
  BY LenProperties
<1>2. s \in Injection(1 .. n, 0 .. n - 1)
  BY <1>1 DEF Injection
<1>3. IsFiniteSet(0 .. n - 1) /\ Cardinality(0 .. n - 1) = n
  <2>1. 0 \in Int /\ n - 1 \in Int
    OBVIOUS
  <2>2. /\ IsFiniteSet(0 .. n - 1)
        /\ Cardinality(0 .. n - 1) = IF 0 > n - 1 THEN 0 ELSE (n - 1) - 0 + 1
    BY <2>1, FS_Interval
  <2> QED BY <2>2
<1>4. Cardinality(1 .. n) = n
  <2>1. Cardinality(1 .. n) = IF 1 > n THEN 0 ELSE n - 1 + 1
    BY FS_Interval
  <2> QED BY <2>1
<1>5. s \in Surjection(1 .. n, 0 .. n - 1)
  BY <1>2, <1>3, <1>4, FS_Injection
<1>6. \A x \in 0 .. n - 1 : \E k \in 1 .. n : s[k] = x
  BY <1>5 DEF Surjection
<1> QED BY <1>1, <1>6 DEF Range

LEMMA FullLen ==
  ASSUME NEW n \in Nat, NEW s \in Seq(0 .. n - 1), IsInjective(s), Range(s) = 0 .. n - 1
  PROVE  Len(s) = n
<1>1. /\ Len(s) \in Nat /\ DOMAIN s = 1 .. Len(s)
      /\ s \in [1 .. Len(s) -> 0 .. n - 1]
  BY LenProperties
<1>a. \A i, j \in 1 .. Len(s) : s[i] = s[j] => i = j
  BY <1>1 DEF IsInjective
<1>b. \A x \in 0 .. n - 1 : \E k \in 1 .. Len(s) : s[k] = x
  BY <1>1 DEF Range
<1>2. s \in Bijection(1 .. Len(s), 0 .. n - 1)
  BY <1>1, <1>a, <1>b DEF Bijection, Injection, Surjection
<1>3. IsFiniteSet(1 .. Len(s)) /\ Cardinality(1 .. Len(s)) = Len(s)
  <2>1. /\ IsFiniteSet(1 .. Len(s))
        /\ Cardinality(1 .. Len(s)) = IF 1 > Len(s) THEN 0 ELSE Len(s) - 1 + 1
    BY <1>1, FS_Interval
  <2> QED BY <1>1, <2>1
<1>4. Cardinality(0 .. n - 1) = n
  <2>1. 0 \in Int /\ n - 1 \in Int
    OBVIOUS
  <2>2. Cardinality(0 .. n - 1) = IF 0 > n - 1 THEN 0 ELSE (n - 1) - 0 + 1
    BY <2>1, FS_Interval
  <2> QED BY <2>2
<1>5. ExistsBijection(1 .. Len(s), 0 .. n - 1)
  BY <1>2 DEF ExistsBijection
<1> QED BY <1>1, <1>3, <1>4, <1>5, FS_Bijection

LEMMA RangeWithin ==
  ASSUME NEW S, NEW s \in Seq(S)
  PROVE  Range(s) \subseteq S
<1>1. s \in [1 .. Len(s) -> S] /\ DOMAIN s = 1 .. Len(s)
  BY LenProperties
<1>2. ASSUME NEW x \in Range(s) PROVE x \in S
  <2>1. PICK k \in DOMAIN s : x = s[k]
    BY <1>2 DEF Range
  <2> QED BY <1>1, <2>1
<1> QED BY <1>2

\* A prefix of a sequence is what SubSeq() cuts off.
LEMMA PrefixIsSubSeq ==
  ASSUME NEW S, NEW s \in Seq(S), NEW t \in Seq(S), Len(s) <= Len(t),
         \A k \in 1 .. Len(s) : t[k] = s[k]
  PROVE  SubSeq(t, 1, Len(s)) = s
<1> DEFINE u == SubSeq(t, 1, Len(s))
<1>1. Len(s) \in Nat /\ Len(t) \in Nat
  BY LenProperties
<1>2. 1 \in 1 .. Len(t) + 1 /\ Len(s) \in 0 .. Len(t)
  BY <1>1
<1>3. /\ u \in Seq(S)
      /\ Len(u) = IF 1 <= Len(s) THEN Len(s) - 1 + 1 ELSE 0
      /\ \A k \in 1 .. Len(s) - 1 + 1 : u[k] = t[1 + k - 1]
  BY <1>1, <1>2, SubSeqProperties
<1>4. Len(u) = Len(s) /\ \A k \in 1 .. Len(s) : u[k] = s[k]
  BY <1>1, <1>3
<1> HIDE DEF u
<1>5. u = s
  BY <1>1, <1>3, <1>4, SeqEqual
<1> QED BY <1>5 DEF u

\* The instances have a Range and an IsInjective of their own: they are the same.
LEMMA FunctionsOfInstances ==
  \A s : /\ Openmp!Range(s) = Range(s) /\ (Openmp!IsInjective(s) <=> IsInjective(s))
         /\ Fork!Range(s) = Range(s) /\ (Fork!IsInjective(s) <=> IsInjective(s))
BY DEF Openmp!Range, Openmp!IsInjective, Fork!Range, Fork!IsInjective, Range, IsInjective

USE FunctionsOfInstances

(***************************************************************************)
(* run_openmp                                                              *)
(***************************************************************************)
\* A thread holds the critical section, and the mutex of the log, exactly in
\* the part of its iteration that needs it.
Locks ==
  /\ \A t \in Thread : pc[t] \in {"read", "write", "info", "logging"} <=> merge = t
  /\ \A t \in Thread : pc[t] \in {"progress", "logging"} <=> logMutex = t

\* A thread in an iteration has a task of its own.
Tasks ==
  /\ \A t \in Thread : pc[t] = "idle" <=> task[t] = None
  /\ \A t, u \in Thread : task[t] = task[u] /\ task[t] /= None => t = u
  /\ \A t \in Thread : task[t] \notin todo

\* A value is merged when, and only when, its thread is past its push_back;
\* that push_back has read the present vector.
Merging ==
  /\ IsInjective(retv)
  /\ Openmp!Merged \intersect todo = {}
  /\ \A t \in Thread : pc[t] \in {"call", "progress", "merge", "read", "write"} =>
       task[t] \notin Openmp!Merged
  /\ \A t \in Thread : pc[t] = "write" => seen[t] = retv
  /\ \A i \in Openmp!Task \ (todo \union Openmp!Merged) :
       \E t \in Thread : task[t] = i /\ pc[t] \notin {"idle", "info", "logging"}

OpenmpIInv ==
  /\ Openmp!TypeOK /\ Locks /\ Tasks /\ Merging
  /\ outcome = "returned" => Openmp!Merged = Openmp!Task

LEMMA NoneIsNoOne == None \notin Openmp!Task /\ None \notin Thread
BY NoneAssumption, NAssumption DEF Openmp!Task

USE NoneIsNoOne

LEMMA OpenmpInitInv == Openmp!Init => OpenmpIInv
<1> SUFFICES ASSUME Openmp!Init PROVE OpenmpIInv
  OBVIOUS
<1>1. Openmp!TypeOK
  BY EmptySeq DEF Openmp!Init, Openmp!TypeOK, Openmp!PC
<1>2. Locks /\ Tasks
  BY DEF Openmp!Init, Locks, Tasks
<1>3. Range(retv) = {} /\ IsInjective(retv)
  BY EmptySeqFacts DEF Openmp!Init
<1> QED BY <1>1, <1>2, <1>3 DEF Openmp!Init, OpenmpIInv, Merging, Openmp!Merged

\* The steps that leave the vector and what the threads have read of it alone.
LEMMA OtherInv ==
  ASSUME OpenmpIInv, NEW t \in Thread,
         \/ Openmp!Start(t) \/ Openmp!BeginProgress(t) \/ Openmp!EndProgress(t)
         \/ Openmp!CallReturns(t) \/ Openmp!CallThrows(t) \/ Openmp!EnterMerge(t)
         \/ Openmp!BeginInfo(t) \/ Openmp!LeaveMerge(t)
  PROVE  OpenmpIInv'
<1> USE DEF OpenmpIInv, Openmp!TypeOK, Openmp!PC, Openmp!Goes, Locks, Tasks, Merging,
    Openmp!Merged
<1>1. CASE Openmp!Start(t)
  BY <1>1 DEF Openmp!Start
<1>2. CASE Openmp!BeginProgress(t)
  BY <1>2 DEF Openmp!BeginProgress
<1>3. CASE Openmp!EndProgress(t)
  BY <1>3 DEF Openmp!EndProgress
<1>4. CASE Openmp!CallReturns(t)
  BY <1>4 DEF Openmp!CallReturns
<1>5. CASE Openmp!CallThrows(t)
  BY <1>5 DEF Openmp!CallThrows
<1>6. CASE Openmp!EnterMerge(t)
  BY <1>6 DEF Openmp!EnterMerge
<1>7. CASE Openmp!BeginInfo(t)
  BY <1>7 DEF Openmp!BeginInfo
<1>8. CASE Openmp!LeaveMerge(t)
  BY <1>8 DEF Openmp!LeaveMerge
<1> QED BY <1>1, <1>2, <1>3, <1>4, <1>5, <1>6, <1>7, <1>8

LEMMA PushReadInv ==
  ASSUME OpenmpIInv, NEW t \in Thread, Openmp!PushRead(t)
  PROVE  OpenmpIInv'
BY DEF Openmp!PushRead, OpenmpIInv, Openmp!TypeOK, Openmp!PC, Openmp!Goes, Locks, Tasks, Merging,
    Openmp!Merged

\* The thread is alone in the section: what it read is still the vector.
LEMMA WriteAppends ==
  ASSUME OpenmpIInv, NEW t \in Thread, Openmp!PushWrite(t)
  PROVE  /\ task[t] \in Openmp!Task \ Openmp!Merged
         /\ retv' = Append(retv, task[t])
         /\ retv' \in Seq(Openmp!Task) /\ IsInjective(retv')
         /\ Openmp!Merged' = Openmp!Merged \union {task[t]}
<1>1. retv \in Seq(Openmp!Task) /\ task[t] \in Openmp!Task /\ task[t] \notin Range(retv)
  BY DEF Openmp!PushWrite, Openmp!Goes, OpenmpIInv, Openmp!TypeOK, Tasks, Merging, Openmp!Merged
<1>2. seen[t] = retv /\ IsInjective(retv)
  BY DEF Openmp!PushWrite, Openmp!Goes, OpenmpIInv, Merging
<1> QED BY <1>1, <1>2, AppendFacts DEF Openmp!PushWrite, Openmp!Merged

LEMMA PushWriteInv ==
  ASSUME OpenmpIInv, NEW t \in Thread, Openmp!PushWrite(t)
  PROVE  OpenmpIInv'
<1>1. Openmp!TypeOK' /\ Locks' /\ Tasks'
  BY WriteAppends DEF Openmp!PushWrite, Openmp!Goes, OpenmpIInv, Openmp!TypeOK, Openmp!PC, Locks,
      Tasks
<1>2. IsInjective(retv') /\ (Openmp!Merged \intersect todo)' = {}
  BY WriteAppends DEF Openmp!PushWrite, OpenmpIInv, Tasks, Merging
<1>3. ASSUME NEW u \in Thread, pc'[u] \in {"call", "progress", "merge", "read", "write"}
      PROVE  task'[u] \notin Openmp!Merged' /\ pc'[u] /= "write"
  <2>1. u /= t /\ pc'[u] = pc[u] /\ task' = task
    BY <1>3 DEF Openmp!PushWrite, Openmp!Goes, OpenmpIInv, Openmp!TypeOK
  <2>2. task[u] \notin Openmp!Merged
    BY <1>3, <2>1 DEF OpenmpIInv, Merging
  <2>3. task[u] /= task[t]
    BY <1>3, <2>1 DEF Openmp!PushWrite, Openmp!Goes, OpenmpIInv, Openmp!TypeOK, Tasks
  <2>4. merge = t /\ pc[u] /= "write"
    BY <2>1 DEF Openmp!PushWrite, Openmp!Goes, OpenmpIInv, Locks
  <2> QED BY <2>1, <2>2, <2>3, <2>4, WriteAppends
<1>4. ASSUME NEW i \in Openmp!Task \ (todo' \union Openmp!Merged')
      PROVE  \E u \in Thread : task'[u] = i /\ pc'[u] \notin {"idle", "info", "logging"}
  <2>1. i \in Openmp!Task \ (todo \union Openmp!Merged) /\ i /= task[t]
    BY <1>4, WriteAppends DEF Openmp!PushWrite
  <2>2. PICK u \in Thread : task[u] = i /\ pc[u] \notin {"idle", "info", "logging"}
    BY <2>1 DEF OpenmpIInv, Merging
  <2>3. u /= t
    BY <2>1, <2>2
  <2> QED BY <2>2, <2>3 DEF Openmp!PushWrite, Openmp!Goes, OpenmpIInv, Openmp!TypeOK
<1>5. Merging'
  BY <1>2, <1>3, <1>4 DEF Merging
<1> QED BY <1>1, <1>5 DEF Openmp!PushWrite, Openmp!Goes, OpenmpIInv

LEMMA ReturnsAll ==
  ASSUME OpenmpIInv, Openmp!Return
  PROVE  Openmp!Merged = Openmp!Task
<1>1. Openmp!Merged \subseteq Openmp!Task
  <2>1. retv \in Seq(Openmp!Task)
    BY DEF OpenmpIInv, Openmp!TypeOK
  <2> QED BY <2>1, RangeWithin DEF Openmp!Merged
<1>2. Openmp!Task \subseteq Openmp!Merged
  BY DEF Openmp!Return, OpenmpIInv, Merging
<1> QED BY <1>1, <1>2

LEMMA OpenmpNextInv == OpenmpIInv /\ [Openmp!Next]_(Openmp!vars) => OpenmpIInv'
<1> SUFFICES ASSUME OpenmpIInv, [Openmp!Next]_(Openmp!vars) PROVE OpenmpIInv'
  OBVIOUS
<1>1. CASE Openmp!Return
  <2>1. Openmp!Merged = Openmp!Task
    BY <1>1, ReturnsAll
  <2> QED BY <1>1, <2>1 DEF Openmp!Return, OpenmpIInv, Openmp!TypeOK, Locks, Tasks, Merging,
      Openmp!Merged
<1>2. CASE UNCHANGED Openmp!vars
  BY <1>2 DEF Openmp!vars, OpenmpIInv, Openmp!TypeOK, Locks, Tasks, Merging, Openmp!Merged
<1>3. ASSUME NEW t \in Thread,
             Openmp!Advance(t) \/ Openmp!BeginProgress(t) \/ Openmp!CallThrows(t)
      PROVE  OpenmpIInv'
  BY <1>3, OtherInv, PushReadInv, PushWriteInv DEF Openmp!Advance
<1> QED BY <1>1, <1>2, <1>3 DEF Openmp!Next, Openmp!Ended

\* A value is merged at the end of the vector, or the vector stays.
LEMMA OnlyAppends ==
  ASSUME OpenmpIInv, Openmp!Next
  PROVE  \/ retv' = retv
         \/ \E t \in Thread : Openmp!PushWrite(t)
BY DEF Openmp!Next, Openmp!Advance, Openmp!Start, Openmp!EndProgress, Openmp!CallReturns,
    Openmp!EnterMerge, Openmp!PushRead, Openmp!BeginInfo,
       Openmp!LeaveMerge, Openmp!BeginProgress, Openmp!CallThrows, Openmp!Return, Openmp!Ended,
       Openmp!vars

\* What is in the vector stays where it is.
LEMMA PrefixStays ==
  ASSUME OpenmpIInv, [Openmp!Next]_(Openmp!vars)
  PROVE  SubSeq(retv', 1, Len(retv)) = retv
<1>1. retv \in Seq(Openmp!Task)
  BY DEF OpenmpIInv, Openmp!TypeOK
<1>2. CASE retv' = retv
  BY <1>1, <1>2, PrefixIsSubSeq, LenProperties
<1>3. CASE \E t \in Thread : Openmp!PushWrite(t)
  <2>1. PICK t \in Thread : Openmp!PushWrite(t)
    BY <1>3
  <2>2. /\ task[t] \in Openmp!Task /\ retv' = Append(retv, task[t])
        /\ retv' \in Seq(Openmp!Task) /\ Len(retv) \in Nat
    BY <1>1, <2>1, WriteAppends, LenProperties
  <2>3. Len(retv) <= Len(retv') /\ \A k \in 1 .. Len(retv) : retv'[k] = retv[k]
    BY <1>1, <2>2
  <2> QED BY <1>1, <2>2, <2>3, PrefixIsSubSeq
<1> QED BY <1>2, <1>3, OnlyAppends DEF Openmp!vars

\* A step of run_openmp collects one value, returns with them all, aborts, or
\* changes nothing the caller of run() can see.
LEMMA OpenmpStepRefines ==
  OpenmpIInv /\ [Openmp!Next]_(Openmp!vars) =>
    [Openmp!Contract!Next]_(Openmp!Contract!vars)
<1> SUFFICES ASSUME OpenmpIInv, [Openmp!Next]_(Openmp!vars)
             PROVE  [Openmp!Contract!Next]_(Openmp!Contract!vars)
  OBVIOUS
<1> USE DEF Openmp!Contract!vars, Openmp!Merged, Openmp!Ending
<1>1. ASSUME NEW t \in Thread, Openmp!PushWrite(t)
      PROVE  [Openmp!Contract!Next]_(Openmp!Contract!vars)
  <2>1. Openmp!Contract!Collect(task[t])
    BY <1>1, WriteAppends DEF Openmp!PushWrite, Openmp!Goes, Openmp!Contract!Collect
  <2> QED BY <1>1, <2>1, WriteAppends DEF Openmp!Contract!Next, Openmp!Contract!Task, Openmp!Task
<1>2. CASE Openmp!Return
  <2>1. Openmp!Contract!Return
    BY <1>2, ReturnsAll DEF Openmp!Return, Openmp!Contract!Return, Openmp!Contract!Task,
        Openmp!Task
  <2> QED BY <2>1 DEF Openmp!Contract!Next
<1>3. ASSUME NEW t \in Thread, Openmp!CallThrows(t)
      PROVE  [Openmp!Contract!Next]_(Openmp!Contract!vars)
  <2>1. Openmp!Contract!Fail
    BY <1>3 DEF Openmp!CallThrows, Openmp!Contract!Fail
  <2> QED BY <2>1 DEF Openmp!Contract!Next
<1>4. ASSUME NEW t \in Thread,
             \/ Openmp!Start(t) \/ Openmp!BeginProgress(t) \/ Openmp!EndProgress(t)
             \/ Openmp!CallReturns(t) \/ Openmp!EnterMerge(t) \/ Openmp!PushRead(t)
             \/ Openmp!BeginInfo(t) \/ Openmp!LeaveMerge(t)
      PROVE  UNCHANGED Openmp!Contract!vars
  BY <1>4 DEF Openmp!Start, Openmp!BeginProgress, Openmp!EndProgress, Openmp!CallReturns,
      Openmp!EnterMerge, Openmp!PushRead,
              Openmp!BeginInfo, Openmp!LeaveMerge
<1>5. CASE Openmp!Ended \/ UNCHANGED Openmp!vars
  BY <1>5 DEF Openmp!Ended, Openmp!vars
<1> QED BY <1>1, <1>2, <1>3, <1>4, <1>5 DEF Openmp!Next, Openmp!Advance

(***************************************************************************)
(* run_pthread                                                             *)
(***************************************************************************)
\* Threads are started in the order of their tasks.
Spawned == \A i \in Pthread!Task : thread[i] = "none" <=> i >= spawned

\* The slots outlive every phase of the caller but the failed start.
Slots ==
  /\ main \in {"spawn", "join", "read", "returned"} => alive
  /\ main \in {"join", "read", "returned"} => spawned = N
  /\ main = "threw" => spawned < N
  /\ alive => \A i \in Pthread!Task : thread[i] = "done" => slot[i]
  /\ ~alive => spawned < N
  /\ main = "spawn" => joined = 0

\* The threads joined are done, and so is the one whose slot is read.
Joined ==
  /\ \A i \in Pthread!Task : i < joined => thread[i] = "done"
  /\ main = "read" => joined < N /\ thread[joined] = "done"
  /\ main = "returned" => joined = N

PthreadIInv == Pthread!TypeOK /\ Spawned /\ Slots /\ Joined

USE NAssumption DEF Pthread!Task

LEMMA PthreadInitInv == Pthread!Init => PthreadIInv
BY DEF Pthread!Init, PthreadIInv, Pthread!TypeOK, Pthread!MainState, Pthread!ThreadState,
    Spawned, Slots, Joined

\* The caller's own steps.
LEMMA PthreadMainInv ==
  ASSUME PthreadIInv, Pthread!MainNext \/ Pthread!SpawnFails
  PROVE  PthreadIInv'
<1> USE DEF PthreadIInv, Pthread!TypeOK, Pthread!MainState, Pthread!ThreadState
<1>1. CASE Pthread!Spawn
  BY <1>1 DEF Pthread!Spawn, Spawned, Slots, Joined
<1>2. CASE Pthread!SpawnsDone \/ Pthread!SpawnFails
  BY <1>2 DEF Pthread!SpawnsDone, Pthread!SpawnFails, Spawned, Slots, Joined
<1>3. CASE Pthread!Join \/ Pthread!Return
  BY <1>3 DEF Pthread!Join, Pthread!Return, Spawned, Slots, Joined
<1>4. CASE Pthread!ReadSlot
  BY <1>4 DEF Pthread!ReadSlot, Spawned, Slots, Joined
<1> QED BY <1>1, <1>2, <1>3, <1>4 DEF Pthread!MainNext

\* A thread that is running has been started, and has not been joined.
LEMMA PthreadThreadInv ==
  ASSUME PthreadIInv, NEW i \in Pthread!Task, Pthread!ThreadNext(i) \/ Pthread!CallThrows(i)
  PROVE  PthreadIInv'
<1> USE DEF PthreadIInv, Pthread!TypeOK, Pthread!MainState, Pthread!ThreadState
<1>1. CASE Pthread!CallReturns(i)
  BY <1>1 DEF Pthread!CallReturns, Spawned, Slots, Joined
<1>2. CASE Pthread!CallThrows(i)
  BY <1>2 DEF Pthread!CallThrows, Spawned, Slots, Joined
<1>3. CASE Pthread!Store(i)
  <2>1. Pthread!TypeOK' /\ Spawned' /\ Joined'
    BY <1>3 DEF Pthread!Store, Spawned, Joined
  <2>2. Slots'
    BY <1>3 DEF Pthread!Store, Slots
  <2> QED BY <2>1, <2>2
<1> QED BY <1>1, <1>2, <1>3 DEF Pthread!ThreadNext

LEMMA PthreadNextInv == PthreadIInv /\ [Pthread!Next]_(Pthread!vars) => PthreadIInv'
<1> SUFFICES ASSUME PthreadIInv, [Pthread!Next]_(Pthread!vars) PROVE PthreadIInv'
  OBVIOUS
<1>1. CASE UNCHANGED Pthread!vars
  BY <1>1 DEF PthreadIInv, Pthread!TypeOK, Spawned, Slots, Joined, Pthread!vars
<1>2. CASE Pthread!Next
  BY <1>1, <1>2, PthreadMainInv, PthreadThreadInv DEF Pthread!Next, Pthread!Ended
<1> QED BY <1>1, <1>2

\* A step of run_pthread collects the value of the next thread, returns with
\* them all, fails, or changes nothing the caller of run() can see.
LEMMA PthreadStepRefines ==
  PthreadIInv /\ PthreadIInv' /\ [Pthread!Next]_(Pthread!vars) =>
    [Pthread!Contract!Next]_(Pthread!Contract!vars)
<1> SUFFICES ASSUME PthreadIInv, PthreadIInv', [Pthread!Next]_(Pthread!vars)
             PROVE  [Pthread!Contract!Next]_(Pthread!Contract!vars)
  OBVIOUS
<1> USE DEF Pthread!Contract!vars, Pthread!Collected, Pthread!Ending
<1>1. CASE Pthread!ReadSlot
  <2>1. /\ joined \in Pthread!Task /\ joined \notin 0 .. joined - 1
        /\ 0 .. joined' - 1 = (0 .. joined - 1) \union {joined}
    BY <1>1 DEF Pthread!ReadSlot, PthreadIInv, Pthread!TypeOK, Joined
  <2>2. Pthread!Contract!Collect(joined)
    BY <1>1, <2>1 DEF Pthread!ReadSlot, Pthread!Contract!Collect
  <2> QED BY <2>1, <2>2 DEF Pthread!Contract!Next, Pthread!Contract!Task
<1>2. CASE Pthread!Return
  <2>1. Pthread!Contract!Return
    BY <1>2 DEF Pthread!Return, Pthread!Contract!Return, Pthread!Contract!Task
  <2> QED BY <2>1 DEF Pthread!Contract!Next
<1>3. ASSUME Pthread!SpawnFails \/ \E i \in Pthread!Task : Pthread!CallThrows(i)
      PROVE  [Pthread!Contract!Next]_(Pthread!Contract!vars)
  <2>1. CASE main \in {"returned", "threw"}
    <3>1. PICK i \in Pthread!Task : Pthread!CallThrows(i)
      BY <1>3, <2>1 DEF Pthread!SpawnFails
    <3>2. thread[i] /= "done"
      BY <3>1 DEF Pthread!CallThrows
    <3>3. main = "threw" /\ main' = "aborted" /\ joined' = joined
      BY <3>1, <3>2, <2>1 DEF Pthread!CallThrows, PthreadIInv, Pthread!TypeOK, Joined
    <3> QED BY <3>3
  <2>2. CASE main \notin {"returned", "threw"}
    <3>1. Pthread!Contract!Fail
      BY <1>3, <2>2 DEF Pthread!SpawnFails, Pthread!CallThrows, Pthread!Contract!Fail,
          PthreadIInv, Pthread!TypeOK, Pthread!MainState
    <3> QED BY <3>1 DEF Pthread!Contract!Next
  <2> QED BY <2>1, <2>2
<1>4. ASSUME \/ Pthread!Spawn \/ Pthread!SpawnsDone \/ Pthread!Join \/ Pthread!Ended
             \/ \E i \in Pthread!Task : Pthread!ThreadNext(i)
             \/ UNCHANGED Pthread!vars
      PROVE  UNCHANGED Pthread!Contract!vars
  BY <1>4 DEF Pthread!Spawn, Pthread!SpawnsDone, Pthread!Join, Pthread!Ended, Pthread!ThreadNext,
      Pthread!CallReturns, Pthread!Store, Pthread!vars
<1> QED BY <1>1, <1>2, <1>3, <1>4 DEF Pthread!Next, Pthread!MainNext

(***************************************************************************)
(* run_fork                                                                *)
(***************************************************************************)
USE NAssumption, NoneAssumption DEF Fork!Task

LEMMA ForkInitInv == Fork!Init => Fork!IInv
<1> SUFFICES ASSUME Fork!Init PROVE Fork!IInv
  OBVIOUS
<1> USE DEF Fork!Init
<1>1. Range(<< >>) = {} /\ IsInjective(<< >>) /\ Len(<< >>) = 0
  BY EmptySeqFacts
<1>2. Fork!TypeOK
  <2>1. backlog \in Seq(Fork!Task) /\ received \in Seq(Fork!Task)
    BY EmptySeq
  <2>2. child \in [Fork!Task -> Fork!ChildState]
    BY DEF Fork!ChildState
  <2>3. forked \in 0 .. N
    OBVIOUS
  <2>4. /\ parent \in Fork!ParentState
        /\ sent \subseteq Fork!Task
        /\ listening \in BOOLEAN
        /\ sockFile \in BOOLEAN
        /\ current \in Fork!Task \union {None}
    BY DEF Fork!ParentState
  <2> HIDE DEF Fork!Init
  <2> QED BY <2>1, <2>2, <2>3, <2>4 DEF Fork!TypeOK
<1>3. Fork!Phases
  BY DEF Fork!Phases
<1>4. Fork!OneConnection
  BY <1>1 DEF Fork!OneConnection, Fork!Delivered
<1>5. Fork!NothingVanishes
  BY DEF Fork!NothingVanishes
<1> QED BY <1>2, <1>3, <1>4, <1>5 DEF Fork!IInv

LEMMA ForkNextInv == Fork!IInv /\ [Fork!Next]_(Fork!vars) => Fork!IInv'
<1> SUFFICES ASSUME Fork!IInv, [Fork!Next]_(Fork!vars) PROVE Fork!IInv'
  OBVIOUS
<1> USE DEF Fork!IInv
<1>a. /\ Range(received) \subseteq Fork!Task /\ Range(backlog) \subseteq Fork!Task
      /\ None \notin Fork!Task
  BY RangeOfSeq DEF Fork!TypeOK
<1>1. ASSUME Fork!Fork PROVE Fork!IInv'
  <2>1. Fork!TypeOK'
    BY <1>1
       DEF Fork!Fork, Fork!TypeOK, Fork!ParentState, Fork!ChildState, Fork!Becomes,
       Fork!childVars,
           Fork!socketVars
  <2>2. Fork!Phases'
    BY <1>1 DEF Fork!Fork, Fork!TypeOK, Fork!Phases, Fork!Becomes, Fork!Dead, Fork!childVars,
        Fork!socketVars
  <2>3. Fork!OneConnection'
    BY <1>1, <1>a
       DEF Fork!Fork, Fork!TypeOK, Fork!Phases, Fork!OneConnection, Fork!Delivered, Fork!Becomes,
       Fork!Dead,
           Fork!childVars, Fork!socketVars
  <2>4. Fork!NothingVanishes'
    BY <1>1, <1>a
       DEF Fork!Fork, Fork!TypeOK, Fork!Phases, Fork!OneConnection, Fork!NothingVanishes,
       Fork!Lost,
           Fork!Delivered, Fork!Becomes, Fork!Dead, Fork!ChildState, Fork!childVars,
           Fork!socketVars
  <2> QED BY <2>1, <2>2, <2>3, <2>4
<1>2. ASSUME Fork!OsFails PROVE Fork!IInv'
  <2>1. Fork!TypeOK'
    BY <1>2
       DEF Fork!OsFails, Fork!TypeOK, Fork!ParentState, Fork!ChildState, Fork!Becomes,
       Fork!childVars,
           Fork!socketVars
  <2>2. Fork!Phases'
    BY <1>2 DEF Fork!OsFails, Fork!TypeOK, Fork!Phases, Fork!Becomes, Fork!Dead, Fork!childVars,
        Fork!socketVars
  <2>3. Fork!OneConnection'
    BY <1>2, <1>a
       DEF Fork!OsFails, Fork!TypeOK, Fork!Phases, Fork!OneConnection, Fork!Delivered,
       Fork!Becomes, Fork!Dead,
           Fork!childVars, Fork!socketVars
  <2>4. Fork!NothingVanishes'
    BY <1>2, <1>a
       DEF Fork!OsFails, Fork!TypeOK, Fork!Phases, Fork!OneConnection, Fork!NothingVanishes,
       Fork!Lost,
           Fork!Delivered, Fork!Becomes, Fork!Dead, Fork!ChildState, Fork!childVars,
           Fork!socketVars
  <2> QED BY <2>1, <2>2, <2>3, <2>4
<1>3. ASSUME Fork!ForksDone PROVE Fork!IInv'
  <2>1. Fork!TypeOK'
    BY <1>3
       DEF Fork!ForksDone, Fork!TypeOK, Fork!ParentState, Fork!ChildState, Fork!Becomes,
       Fork!childVars,
           Fork!socketVars
  <2>2. Fork!Phases'
    BY <1>3 DEF Fork!ForksDone, Fork!TypeOK, Fork!Phases, Fork!Becomes, Fork!Dead,
        Fork!childVars, Fork!socketVars
  <2>3. Fork!OneConnection'
    BY <1>3, <1>a
       DEF Fork!ForksDone, Fork!TypeOK, Fork!Phases, Fork!OneConnection, Fork!Delivered,
       Fork!Becomes, Fork!Dead,
           Fork!childVars, Fork!socketVars
  <2>4. Fork!NothingVanishes'
    BY <1>3, <1>a
       DEF Fork!ForksDone, Fork!TypeOK, Fork!Phases, Fork!OneConnection, Fork!NothingVanishes,
       Fork!Lost,
           Fork!Delivered, Fork!Becomes, Fork!Dead, Fork!ChildState, Fork!childVars,
           Fork!socketVars
  <2> QED BY <2>1, <2>2, <2>3, <2>4
<1>4. ASSUME Fork!Bind PROVE Fork!IInv'
  <2>1. Fork!TypeOK'
    BY <1>4
       DEF Fork!Bind, Fork!TypeOK, Fork!ParentState, Fork!ChildState, Fork!Becomes,
       Fork!childVars,
           Fork!socketVars
  <2>2. Fork!Phases'
    BY <1>4 DEF Fork!Bind, Fork!TypeOK, Fork!Phases, Fork!Becomes, Fork!Dead, Fork!childVars,
        Fork!socketVars
  <2>3. Fork!OneConnection'
    BY <1>4, <1>a
       DEF Fork!Bind, Fork!TypeOK, Fork!Phases, Fork!OneConnection, Fork!Delivered, Fork!Becomes,
       Fork!Dead,
           Fork!childVars, Fork!socketVars
  <2>4. Fork!NothingVanishes'
    BY <1>4, <1>a
       DEF Fork!Bind, Fork!TypeOK, Fork!Phases, Fork!OneConnection, Fork!NothingVanishes,
       Fork!Lost,
           Fork!Delivered, Fork!Becomes, Fork!Dead, Fork!ChildState, Fork!childVars,
           Fork!socketVars
  <2> QED BY <2>1, <2>2, <2>3, <2>4
<1>5. ASSUME Fork!Accept PROVE Fork!IInv'
  <2>a. /\ current' \in Fork!Task
        /\ backlog' \in Seq(Fork!Task)
        /\ Range(backlog) = Range(backlog') \union {current'}
        /\ IsInjective(backlog')
        /\ current' \notin Range(backlog')
    BY <1>5, HeadTailFacts DEF Fork!Accept, Fork!TypeOK, Fork!OneConnection
  <2>1. Fork!TypeOK'
    BY <1>5, <2>a
       DEF Fork!Accept, Fork!TypeOK, Fork!ParentState, Fork!ChildState, Fork!Becomes,
       Fork!childVars,
           Fork!socketVars
  <2>2. Fork!Phases'
    BY <1>5, <2>a
       DEF Fork!Accept, Fork!TypeOK, Fork!Phases, Fork!Becomes, Fork!Dead, Fork!childVars,
       Fork!socketVars
  <2>3. Fork!OneConnection'
    BY <1>5, <1>a, <2>a
       DEF Fork!Accept, Fork!TypeOK, Fork!Phases, Fork!OneConnection, Fork!Delivered,
       Fork!Becomes, Fork!Dead,
           Fork!childVars, Fork!socketVars
  <2>4. Fork!NothingVanishes'
    BY <1>5, <1>a, <2>a
       DEF Fork!Accept, Fork!TypeOK, Fork!Phases, Fork!OneConnection, Fork!NothingVanishes,
       Fork!Lost,
           Fork!Delivered, Fork!Becomes, Fork!Dead, Fork!ChildState, Fork!childVars,
           Fork!socketVars
  <2> QED BY <2>1, <2>2, <2>3, <2>4
<1>6. ASSUME Fork!Read PROVE Fork!IInv'
  <2>a. /\ current \in Fork!Task
        /\ received' \in Seq(Fork!Task)
        /\ Range(received') = Range(received) \union {current}
        /\ IsInjective(received')
    BY <1>6, <1>a, AppendFacts
       DEF Fork!Read, Fork!TypeOK, Fork!Phases, Fork!OneConnection, Fork!Delivered
  <2>1. Fork!TypeOK'
    BY <1>6, <2>a
       DEF Fork!Read, Fork!TypeOK, Fork!ParentState, Fork!ChildState, Fork!Becomes,
       Fork!childVars,
           Fork!socketVars
  <2>2. Fork!Phases'
    BY <1>6, <2>a DEF Fork!Read, Fork!TypeOK, Fork!Phases, Fork!Becomes, Fork!Dead,
        Fork!childVars, Fork!socketVars
  <2>3. Fork!OneConnection'
    BY <1>6, <1>a, <2>a
       DEF Fork!Read, Fork!TypeOK, Fork!Phases, Fork!OneConnection, Fork!Delivered, Fork!Becomes,
       Fork!Dead,
           Fork!childVars, Fork!socketVars
  <2>4. Fork!NothingVanishes'
    BY <1>6, <1>a, <2>a
       DEF Fork!Read, Fork!TypeOK, Fork!Phases, Fork!OneConnection, Fork!NothingVanishes,
       Fork!Lost,
           Fork!Delivered, Fork!Becomes, Fork!Dead, Fork!ChildState, Fork!childVars,
           Fork!socketVars
  <2> QED BY <2>1, <2>2, <2>3, <2>4
<1>7. ASSUME Fork!ReadFails PROVE Fork!IInv'
  <2>a. backlog' \in Seq(Fork!Task) /\ Range(backlog') = {} /\ IsInjective(backlog')
    BY <1>7, EmptySeq, EmptySeqFacts DEF Fork!ReadFails
  <2>1. Fork!TypeOK'
    BY <1>7, <2>a
       DEF Fork!ReadFails, Fork!TypeOK, Fork!ParentState, Fork!ChildState, Fork!Becomes,
       Fork!childVars,
           Fork!socketVars
  <2>2. Fork!Phases'
    BY <1>7, <2>a
       DEF Fork!ReadFails, Fork!TypeOK, Fork!Phases, Fork!Becomes, Fork!Dead, Fork!childVars,
       Fork!socketVars
  <2>3. Fork!OneConnection'
    BY <1>7, <1>a, <2>a
       DEF Fork!ReadFails, Fork!TypeOK, Fork!Phases, Fork!OneConnection, Fork!Delivered,
       Fork!Becomes, Fork!Dead,
           Fork!childVars, Fork!socketVars
  <2>4. Fork!NothingVanishes'
    BY <1>7, <1>a, <2>a
       DEF Fork!ReadFails, Fork!TypeOK, Fork!Phases, Fork!OneConnection, Fork!NothingVanishes,
       Fork!Lost,
           Fork!Delivered, Fork!Becomes, Fork!Dead, Fork!ChildState, Fork!childVars,
           Fork!socketVars
  <2> QED BY <2>1, <2>2, <2>3, <2>4
<1>8. ASSUME Fork!RemoveEndpoint PROVE Fork!IInv'
  <2>1. Fork!TypeOK'
    BY <1>8
       DEF Fork!RemoveEndpoint, Fork!TypeOK, Fork!ParentState, Fork!ChildState, Fork!Becomes,
           Fork!childVars, Fork!socketVars
  <2>2. Fork!Phases'
    BY <1>8
       DEF Fork!RemoveEndpoint, Fork!TypeOK, Fork!Phases, Fork!Becomes, Fork!Dead, Fork!childVars,
           Fork!socketVars
  <2>3. Fork!OneConnection'
    BY <1>8, <1>a
       DEF Fork!RemoveEndpoint, Fork!TypeOK, Fork!Phases, Fork!OneConnection, Fork!Delivered,
       Fork!Becomes,
           Fork!Dead, Fork!childVars, Fork!socketVars
  <2>4. Fork!NothingVanishes'
    BY <1>8, <1>a
       DEF Fork!RemoveEndpoint, Fork!TypeOK, Fork!Phases, Fork!OneConnection,
       Fork!NothingVanishes,
           Fork!Lost, Fork!Delivered, Fork!Becomes, Fork!Dead, Fork!ChildState, Fork!childVars,
           Fork!socketVars
  <2> QED BY <2>1, <2>2, <2>3, <2>4
<1>9. ASSUME Fork!Return PROVE Fork!IInv'
  <2>1. Fork!TypeOK'
    BY <1>9
       DEF Fork!Return, Fork!TypeOK, Fork!ParentState, Fork!ChildState, Fork!Becomes,
       Fork!childVars,
           Fork!socketVars
  <2>2. Fork!Phases'
    BY <1>9 DEF Fork!Return, Fork!TypeOK, Fork!Phases, Fork!Becomes, Fork!Dead, Fork!childVars,
        Fork!socketVars
  <2>3. Fork!OneConnection'
    BY <1>9, <1>a
       DEF Fork!Return, Fork!TypeOK, Fork!Phases, Fork!OneConnection, Fork!Delivered,
       Fork!Becomes, Fork!Dead,
           Fork!childVars, Fork!socketVars
  <2>4. Fork!NothingVanishes'
    BY <1>9, <1>a
       DEF Fork!Return, Fork!TypeOK, Fork!Phases, Fork!OneConnection, Fork!NothingVanishes,
       Fork!Lost,
           Fork!Delivered, Fork!Becomes, Fork!Dead, Fork!ChildState, Fork!childVars,
           Fork!socketVars
  <2> QED BY <2>1, <2>2, <2>3, <2>4
<1>10. ASSUME NEW i \in Fork!Task, Fork!Reap(i) PROVE Fork!IInv'
  <2>1. Fork!TypeOK'
    BY <1>10
       DEF Fork!Reap, Fork!TypeOK, Fork!ParentState, Fork!ChildState, Fork!Becomes,
       Fork!childVars,
           Fork!socketVars
  <2>2. Fork!Phases'
    BY <1>10 DEF Fork!Reap, Fork!TypeOK, Fork!Phases, Fork!Becomes, Fork!Dead, Fork!childVars,
        Fork!socketVars
  <2>3. Fork!OneConnection'
    BY <1>10, <1>a
       DEF Fork!Reap, Fork!TypeOK, Fork!Phases, Fork!OneConnection, Fork!Delivered, Fork!Becomes,
       Fork!Dead,
           Fork!childVars, Fork!socketVars
  <2>4. Fork!NothingVanishes'
    BY <1>10, <1>a
       DEF Fork!Reap, Fork!TypeOK, Fork!Phases, Fork!OneConnection, Fork!NothingVanishes,
       Fork!Lost,
           Fork!Delivered, Fork!Becomes, Fork!Dead, Fork!ChildState, Fork!childVars,
           Fork!socketVars
  <2> QED BY <2>1, <2>2, <2>3, <2>4
<1>11. ASSUME NEW i \in Fork!Task, Fork!Compute(i) PROVE Fork!IInv'
  <2>1. Fork!TypeOK'
    BY <1>11
       DEF Fork!Compute, Fork!TypeOK, Fork!ParentState, Fork!ChildState, Fork!Becomes,
       Fork!childVars,
           Fork!socketVars
  <2>2. Fork!Phases'
    BY <1>11 DEF Fork!Compute, Fork!TypeOK, Fork!Phases, Fork!Becomes, Fork!Dead, Fork!childVars,
        Fork!socketVars
  <2>3. Fork!OneConnection'
    BY <1>11, <1>a
       DEF Fork!Compute, Fork!TypeOK, Fork!Phases, Fork!OneConnection, Fork!Delivered,
       Fork!Becomes, Fork!Dead,
           Fork!childVars, Fork!socketVars
  <2>4. Fork!NothingVanishes'
    BY <1>11, <1>a
       DEF Fork!Compute, Fork!TypeOK, Fork!Phases, Fork!OneConnection, Fork!NothingVanishes,
       Fork!Lost,
           Fork!Delivered, Fork!Becomes, Fork!Dead, Fork!ChildState, Fork!childVars,
           Fork!socketVars
  <2> QED BY <2>1, <2>2, <2>3, <2>4
<1>12. ASSUME NEW i \in Fork!Task, Fork!Connect(i) PROVE Fork!IInv'
  <2>a. ASSUME listening
        PROVE  /\ backlog' \in Seq(Fork!Task)
               /\ Range(backlog') = Range(backlog) \union {i}
               /\ IsInjective(backlog')
    <3>1. i \notin Range(backlog)
      BY <1>12 DEF Fork!Connect, Fork!Becomes, Fork!OneConnection, Fork!Dead
    <3> QED BY <1>12, <2>a, <3>1, AppendFacts DEF Fork!Connect, Fork!TypeOK, Fork!OneConnection
  <2>1. Fork!TypeOK'
    BY <1>12, <2>a
       DEF Fork!Connect, Fork!TypeOK, Fork!ParentState, Fork!ChildState, Fork!Becomes,
       Fork!childVars,
           Fork!socketVars
  <2>2. Fork!Phases'
    BY <1>12, <2>a
       DEF Fork!Connect, Fork!TypeOK, Fork!Phases, Fork!Becomes, Fork!Dead, Fork!childVars,
       Fork!socketVars
  <2>3. Fork!OneConnection'
    BY <1>12, <1>a, <2>a
       DEF Fork!Connect, Fork!TypeOK, Fork!Phases, Fork!OneConnection, Fork!Delivered,
       Fork!Becomes, Fork!Dead,
           Fork!childVars, Fork!socketVars
  <2>4. Fork!NothingVanishes'
    BY <1>12, <1>a, <2>a
       DEF Fork!Connect, Fork!TypeOK, Fork!Phases, Fork!OneConnection, Fork!NothingVanishes,
       Fork!Lost,
           Fork!Delivered, Fork!Becomes, Fork!Dead, Fork!ChildState, Fork!childVars,
           Fork!socketVars
  <2> QED BY <2>1, <2>2, <2>3, <2>4
<1>13. ASSUME NEW i \in Fork!Task, Fork!Send(i) PROVE Fork!IInv'
  <2>1. Fork!TypeOK'
    BY <1>13
       DEF Fork!Send, Fork!TypeOK, Fork!ParentState, Fork!ChildState, Fork!Becomes,
       Fork!childVars,
           Fork!socketVars
  <2>2. Fork!Phases'
    BY <1>13 DEF Fork!Send, Fork!TypeOK, Fork!Phases, Fork!Becomes, Fork!Dead, Fork!childVars,
        Fork!socketVars
  <2>3. Fork!OneConnection'
    BY <1>13, <1>a
       DEF Fork!Send, Fork!TypeOK, Fork!Phases, Fork!OneConnection, Fork!Delivered, Fork!Becomes,
       Fork!Dead,
           Fork!childVars, Fork!socketVars
  <2>4. Fork!NothingVanishes'
    BY <1>13, <1>a
       DEF Fork!Send, Fork!TypeOK, Fork!Phases, Fork!OneConnection, Fork!NothingVanishes,
       Fork!Lost,
           Fork!Delivered, Fork!Becomes, Fork!Dead, Fork!ChildState, Fork!childVars,
           Fork!socketVars
  <2> QED BY <2>1, <2>2, <2>3, <2>4
<1>14. ASSUME NEW i \in Fork!Task, Fork!SendFails(i) PROVE Fork!IInv'
  <2>1. Fork!TypeOK'
    BY <1>14
       DEF Fork!SendFails, Fork!TypeOK, Fork!ParentState, Fork!ChildState, Fork!Becomes,
       Fork!childVars,
           Fork!socketVars
  <2>2. Fork!Phases'
    BY <1>14 DEF Fork!SendFails, Fork!TypeOK, Fork!Phases, Fork!Becomes, Fork!Dead,
        Fork!childVars, Fork!socketVars
  <2>3. Fork!OneConnection'
    BY <1>14, <1>a
       DEF Fork!SendFails, Fork!TypeOK, Fork!Phases, Fork!OneConnection, Fork!Delivered,
       Fork!Becomes, Fork!Dead,
           Fork!childVars, Fork!socketVars
  <2>4. Fork!NothingVanishes'
    BY <1>14, <1>a
       DEF Fork!SendFails, Fork!TypeOK, Fork!Phases, Fork!OneConnection, Fork!NothingVanishes,
       Fork!Lost,
           Fork!Delivered, Fork!Becomes, Fork!Dead, Fork!ChildState, Fork!childVars,
           Fork!socketVars
  <2> QED BY <2>1, <2>2, <2>3, <2>4
<1>15. ASSUME NEW i \in Fork!Task, Fork!Throw(i) PROVE Fork!IInv'
  <2>1. Fork!TypeOK'
    BY <1>15
       DEF Fork!Throw, Fork!TypeOK, Fork!ParentState, Fork!ChildState, Fork!Becomes,
       Fork!childVars,
           Fork!socketVars
  <2>2. Fork!Phases'
    BY <1>15 DEF Fork!Throw, Fork!TypeOK, Fork!Phases, Fork!Becomes, Fork!Dead, Fork!childVars,
        Fork!socketVars
  <2>3. Fork!OneConnection'
    BY <1>15, <1>a
       DEF Fork!Throw, Fork!TypeOK, Fork!Phases, Fork!OneConnection, Fork!Delivered,
       Fork!Becomes, Fork!Dead,
           Fork!childVars, Fork!socketVars
  <2>4. Fork!NothingVanishes'
    BY <1>15, <1>a
       DEF Fork!Throw, Fork!TypeOK, Fork!Phases, Fork!OneConnection, Fork!NothingVanishes,
       Fork!Lost,
           Fork!Delivered, Fork!Becomes, Fork!Dead, Fork!ChildState, Fork!childVars,
           Fork!socketVars
  <2> QED BY <2>1, <2>2, <2>3, <2>4
<1>16. ASSUME NEW i \in Fork!Task, Fork!Exit(i) PROVE Fork!IInv'
  <2>1. Fork!TypeOK'
    BY <1>16
       DEF Fork!Exit, Fork!TypeOK, Fork!ParentState, Fork!ChildState, Fork!Becomes,
       Fork!childVars,
           Fork!socketVars
  <2>2. Fork!Phases'
    BY <1>16 DEF Fork!Exit, Fork!TypeOK, Fork!Phases, Fork!Becomes, Fork!Dead, Fork!childVars,
        Fork!socketVars
  <2>3. Fork!OneConnection'
    BY <1>16, <1>a
       DEF Fork!Exit, Fork!TypeOK, Fork!Phases, Fork!OneConnection, Fork!Delivered, Fork!Becomes,
       Fork!Dead,
           Fork!childVars, Fork!socketVars
  <2>4. Fork!NothingVanishes'
    BY <1>16, <1>a
       DEF Fork!Exit, Fork!TypeOK, Fork!Phases, Fork!OneConnection, Fork!NothingVanishes,
       Fork!Lost,
           Fork!Delivered, Fork!Becomes, Fork!Dead, Fork!ChildState, Fork!childVars,
           Fork!socketVars
  <2> QED BY <2>1, <2>2, <2>3, <2>4
<1>17. ASSUME NEW i \in Fork!Task, Fork!Die(i) PROVE Fork!IInv'
  <2>1. Fork!TypeOK'
    BY <1>17
       DEF Fork!Die, Fork!TypeOK, Fork!ParentState, Fork!ChildState, Fork!Becomes, Fork!childVars,
           Fork!socketVars
  <2>2. Fork!Phases'
    BY <1>17 DEF Fork!Die, Fork!TypeOK, Fork!Phases, Fork!Becomes, Fork!Dead, Fork!childVars,
        Fork!socketVars
  <2>3. Fork!OneConnection'
    BY <1>17, <1>a
       DEF Fork!Die, Fork!TypeOK, Fork!Phases, Fork!OneConnection, Fork!Delivered, Fork!Becomes,
       Fork!Dead,
           Fork!childVars, Fork!socketVars
  <2>4. Fork!NothingVanishes'
    BY <1>17, <1>a
       DEF Fork!Die, Fork!TypeOK, Fork!Phases, Fork!OneConnection, Fork!NothingVanishes,
       Fork!Lost,
           Fork!Delivered, Fork!Becomes, Fork!Dead, Fork!ChildState, Fork!childVars,
           Fork!socketVars
  <2> QED BY <2>1, <2>2, <2>3, <2>4
<1>18. ASSUME UNCHANGED Fork!vars PROVE Fork!IInv'
  BY <1>18
     DEF Fork!vars, Fork!TypeOK, Fork!Phases, Fork!OneConnection, Fork!NothingVanishes,
     Fork!Lost, Fork!Delivered
<1> QED BY <1>1, <1>2, <1>3, <1>4, <1>5, <1>6, <1>7, <1>8, <1>9, <1>10, <1>11, <1>12, <1>13,
    <1>14, <1>15, <1>16, <1>17, <1>18
   DEF Fork!Next, Fork!ParentNext, Fork!ChildNext

\* The vector that run_fork returns holds exactly one value of every task:
\* N values were read, no connection was read twice, so every child's was.
LEMMA ForkComplete == Fork!IInv => Fork!CompleteOnReturn
<1> SUFFICES ASSUME Fork!IInv, parent = "returned"
             PROVE  Len(received) = N /\ Fork!Delivered = Fork!Task
  BY DEF Fork!CompleteOnReturn
<1>1. Len(received) = N /\ received \in Seq(0 .. N - 1) /\ IsInjective(received)
  BY DEF Fork!IInv, Fork!TypeOK, Fork!Phases, Fork!OneConnection
<1> QED BY <1>1, FullSeq DEF Fork!Delivered

\* A step of run_fork collects one new value, returns with all of them, throws,
\* or changes nothing that the caller of run() can see.
LEMMA ForkStepRefines ==
  Fork!IInv /\ Fork!IInv' /\ [Fork!Next]_(Fork!vars) =>
    [Fork!Contract!Next]_(Fork!Contract!vars)
<1> SUFFICES ASSUME Fork!IInv, Fork!IInv', [Fork!Next]_(Fork!vars)
             PROVE  [Fork!Contract!Next]_(Fork!Contract!vars)
  OBVIOUS
<1> USE DEF Fork!Contract!vars, Fork!Delivered, Fork!Ending
<1>1. ASSUME Fork!Read PROVE [Fork!Contract!Next]_(Fork!Contract!vars)
  <2>a. received \in Seq(Fork!Task) /\ current \in Fork!Task
    BY <1>1 DEF Fork!Read, Fork!IInv, Fork!TypeOK, Fork!Phases
  <2>b. current \notin Range(received)
    BY DEF Fork!IInv, Fork!OneConnection
  <2>c. received' = Append(received, current)
    BY <1>1 DEF Fork!Read
  <2>1. /\ current \in Fork!Task
        /\ Range(received') = Range(received) \union {current}
        /\ current \notin Range(received)
    BY <2>a, <2>b, <2>c, AppendFacts
  <2>2. Fork!Contract!Collect(current)
    BY <1>1, <2>1 DEF Fork!Read, Fork!Contract!Collect
  <2> QED BY <2>1, <2>2 DEF Fork!Contract!Next, Fork!Contract!Task
<1>2. ASSUME Fork!Return PROVE [Fork!Contract!Next]_(Fork!Contract!vars)
  <2>1. Len(received) = N /\ received \in Seq(0 .. N - 1) /\ IsInjective(received)
    BY <1>2 DEF Fork!Return, Fork!IInv, Fork!TypeOK, Fork!Phases, Fork!OneConnection
  <2>2. Range(received) = Fork!Task
    BY <2>1, FullSeq
  <2>3. Fork!Contract!Return
    BY <1>2, <2>2 DEF Fork!Return, Fork!Contract!Return, Fork!Contract!Task
  <2> QED BY <2>3 DEF Fork!Contract!Next
<1>3. ASSUME Fork!OsFails \/ Fork!ReadFails PROVE [Fork!Contract!Next]_(Fork!Contract!vars)
  <2>1. Fork!Contract!Fail
    BY <1>3 DEF Fork!OsFails, Fork!ReadFails, Fork!Contract!Fail
  <2> QED BY <2>1 DEF Fork!Contract!Next
<1>4. ASSUME \/ Fork!Fork \/ Fork!ForksDone \/ Fork!Bind \/ Fork!Accept \/ Fork!RemoveEndpoint
             \/ \E i \in Fork!Task :
                  Fork!Reap(i) \/ Fork!ChildNext(i) \/ Fork!Throw(i) \/ Fork!Die(i)
             \/ UNCHANGED Fork!vars
      PROVE  UNCHANGED Fork!Contract!vars
  BY <1>4 DEF Fork!Fork, Fork!ForksDone, Fork!Bind, Fork!Accept, Fork!RemoveEndpoint, Fork!Reap,
      Fork!ChildNext,
              Fork!Compute, Fork!Connect, Fork!Send, Fork!SendFails, Fork!Exit, Fork!Throw,
              Fork!Die, Fork!vars
<1> QED BY <1>1, <1>2, <1>3, <1>4 DEF Fork!Next, Fork!ParentNext

(***************************************************************************)
(* run()                                                                   *)
(***************************************************************************)
IInv ==
  /\ type_ \in Type /\ refused \in BOOLEAN
  /\ Fork!IInv /\ OpenmpIInv /\ PthreadIInv

\* A step of run() is a step of the method chosen, which the others do not
\* notice.
LEMMA StepOfOne ==
  ASSUME [Next]_vars
  PROVE  /\ type_' = type_
         /\ [Fork!Next]_(Fork!vars) /\ [Openmp!Next]_(Openmp!vars)
         /\ [Pthread!Next]_(Pthread!vars)
         /\ refused' = refused \/ refused' = TRUE
<1> USE DEF vars, forkVars, loopVars, pthreadVars, Fork!vars, Openmp!vars, Pthread!vars
<1>1. CASE run_fork(Fork!Next)
  BY <1>1 DEF run_fork
<1>2. CASE run_loop(Openmp!Next)
  BY <1>2 DEF run_loop
<1>3. CASE run_pthread(Pthread!Next)
  BY <1>3 DEF run_pthread
<1>4. CASE Refuse
  BY <1>4 DEF Refuse
<1>5. CASE UNCHANGED vars
  BY <1>5
<1> QED BY <1>1, <1>2, <1>3, <1>4, <1>5 DEF Next

LEMMA InitInv == Init => IInv
BY ForkInitInv, OpenmpInitInv, PthreadInitInv DEF Init, IInv

LEMMA NextInv == IInv /\ [Next]_vars => IInv'
<1> SUFFICES ASSUME IInv, [Next]_vars PROVE IInv'
  OBVIOUS
<1>1. Fork!IInv' /\ OpenmpIInv' /\ PthreadIInv'
  BY StepOfOne, ForkNextInv, OpenmpNextInv, PthreadNextInv DEF IInv
<1>2. type_' \in Type /\ refused' \in BOOLEAN
  BY StepOfOne DEF IInv
<1> QED BY <1>1, <1>2 DEF IInv

\* The variables of the method chosen, and of the others, keep their types.
THEOREM TypeCorrect == Spec => []TypeOK
<1>1. IInv => TypeOK
  BY DEF IInv, TypeOK, Fork!IInv, OpenmpIInv, PthreadIInv
<1> QED BY <1>1, InitInv, NextInv, PTL DEF Spec

\* The vector that run() returns holds exactly one value of every task.  With
\* run_fork, N values were read and no connection was read twice; in the loop,
\* every iteration is merged and none twice, so there are N.
THEOREM Complete == Spec => []CompleteOnReturn
<1>1. IInv => CompleteOnReturn
  <2> SUFFICES ASSUME IInv PROVE CompleteOnReturn
    OBVIOUS
  <2>1. parent = "returned" => Len(received) = N /\ Fork!Delivered = Task
    BY ForkComplete DEF IInv, Fork!CompleteOnReturn, Task, Fork!Task
  <2>2. ASSUME outcome = "returned" PROVE Len(retv) = N /\ Openmp!Merged = Task
    <3>1. /\ retv \in Seq(0 .. N - 1) /\ IsInjective(retv)
          /\ Range(retv) = 0 .. N - 1 /\ Openmp!Merged = Task
      BY <2>2 DEF IInv, OpenmpIInv, Openmp!TypeOK, Merging, Task, Openmp!Task, Openmp!Merged
    <3> QED BY <3>1, FullLen, NAssumption
  <2> QED BY <2>1, <2>2 DEF CompleteOnReturn
<1> QED BY <1>1, InitInv, NextInv, PTL DEF Spec

\* While the parent listens, a value that has not been read is on its way,
\* unless its child was lost.
THEOREM NoneVanishes == Spec => []NothingVanishes
<1>1. IInv => NothingVanishes
  BY DEF IInv, Fork!IInv, NothingVanishes
<1> QED BY <1>1, InitInv, NextInv, PTL DEF Spec

\* An iteration is to do, in the hands of a thread, or merged, and merged once.
THEOREM MergedOnce == Spec => []EachIterationOnce
<1>1. IInv => EachIterationOnce
  BY DEF IInv, OpenmpIInv, Merging, EachIterationOnce, Openmp!EachIterationOnce
<1> QED BY <1>1, InitInv, NextInv, PTL DEF Spec

\* What is in the vector of the loop stays where it is.
THEOREM NeverMoved == Spec => MergedStays
<1>1. IInv /\ [Next]_vars => [SubSeq(retv', 1, Len(retv)) = retv]_vars
  BY StepOfOne, PrefixStays DEF IInv
<1> QED BY <1>1, InitInv, NextInv, PTL DEF Spec, MergedStays

\* The joins order every store to a slot before its first use by the caller.
THEOREM SlotsAreHandedOver == Spec => []SlotHandover
<1>1. IInv => SlotHandover
  BY DEF IInv, PthreadIInv, Pthread!TypeOK, Slots, Joined, SlotHandover, Pthread!SlotHandover
<1> QED BY <1>1, InitInv, NextInv, PTL DEF Spec

\* By every method a step of run() collects one value, returns with all of them,
\* fails, or changes nothing that its caller can see.
LEMMA StepRefines == IInv /\ IInv' /\ [Next]_vars => [Contract!Next]_(Contract!vars)
<1> SUFFICES ASSUME IInv, IInv', [Next]_vars PROVE [Contract!Next]_(Contract!vars)
  OBVIOUS
<1> USE DEF IInv
<1>0. type_' = type_
  BY StepOfOne
<1> DEFINE Steps(rs, rs2, os, os2) ==
      \/ /\ os = "running"
         /\ \/ \E i \in Task : i \notin rs /\ rs2 = rs \union {i} /\ os2 = os
            \/ rs = Task /\ os2 = "returned" /\ rs2 = rs
            \/ os2 = "failed" /\ rs2 = rs
      \/ rs2 = rs /\ os2 = os
<1> USE DEF Task, Contract!Task, Contract!Collect, Contract!Return, Contract!Fail
<1>1. SUFFICES Steps(Collected, Collected', Ending, Ending')
  BY DEF Contract!Next, Contract!vars
<1>2. CASE type_ = "fork"
  <2>1. Steps(Fork!Delivered, Fork!Delivered', Fork!Ending, Fork!Ending')
    BY StepOfOne, ForkStepRefines
    DEF Fork!Contract!Next, Fork!Contract!vars, Fork!Contract!Task, Fork!Contract!Collect,
        Fork!Contract!Return, Fork!Contract!Fail
  <2>2. /\ Collected = Fork!Delivered /\ Collected' = Fork!Delivered'
        /\ Ending = Fork!Ending /\ Ending' = Fork!Ending'
    BY <1>0, <1>2 DEF Collected, Ending
  <2> QED BY <2>1, <2>2
<1>3. CASE type_ = "pthread"
  <2>1. Steps(Pthread!Collected, Pthread!Collected', Pthread!Ending, Pthread!Ending')
    BY StepOfOne, PthreadStepRefines
    DEF Pthread!Contract!Next, Pthread!Contract!vars, Pthread!Contract!Task,
        Pthread!Contract!Collect, Pthread!Contract!Return, Pthread!Contract!Fail
  <2>2. /\ Collected = Pthread!Collected /\ Collected' = Pthread!Collected'
        /\ Ending = Pthread!Ending /\ Ending' = Pthread!Ending'
    BY <1>0, <1>3 DEF Collected, Ending
  <2> QED BY <2>1, <2>2
<1>4. CASE type_ \in {"openmp", "single"}
  <2>1. Steps(Openmp!Merged, Openmp!Merged', Openmp!Ending, Openmp!Ending')
    BY StepOfOne, OpenmpStepRefines
    DEF Openmp!Contract!Next, Openmp!Contract!vars, Openmp!Contract!Task,
        Openmp!Contract!Collect, Openmp!Contract!Return, Openmp!Contract!Fail
  <2>2. /\ Collected = Openmp!Merged /\ Collected' = Openmp!Merged'
        /\ Ending = Openmp!Ending /\ Ending' = Openmp!Ending'
    BY <1>0, <1>4 DEF Collected, Ending
  <2> QED BY <2>1, <2>2
<1>5. CASE type_ = "unknown"
  <2>1. Openmp!Merged' = Openmp!Merged
    BY <1>5 DEF Next, run_fork, run_loop, run_pthread, Refuse, vars, loopVars, Openmp!Merged
  <2>2. /\ Collected = Openmp!Merged /\ Collected' = Openmp!Merged'
        /\ Ending = (IF refused THEN "failed" ELSE "running")
        /\ Ending' = (IF refused' THEN "failed" ELSE "running")
    BY <1>0, <1>5 DEF Collected, Ending
  <2> QED BY <2>1, <2>2, StepOfOne
<1> QED BY <1>2, <1>3, <1>4, <1>5, TypeAssumption

\* Whatever the method, run() keeps its contract.
THEOREM KeepsItsContract == Spec => ImplementsRun
<1>1. Init => Contract!Init
  <2>1. Init => Range(received) = {} /\ Range(retv) = {} /\ Pthread!Collected = {}
    BY EmptySeqFacts DEF Init, Fork!Init, Openmp!Init, Pthread!Init, Pthread!Collected
  <2>2. Init => Fork!Ending = "running" /\ Openmp!Ending = "running" /\ Pthread!Ending = "running"
    BY DEF Init, Fork!Init, Openmp!Init, Pthread!Init, Fork!Ending, Openmp!Ending, Pthread!Ending
  <2> QED BY <2>1, <2>2
          DEF Init, Contract!Init, Collected, Ending, Fork!Delivered, Openmp!Merged
<1> QED BY <1>1, InitInv, NextInv, StepRefines, PTL DEF Spec, ImplementsRun, Contract!Spec
=============================================================================

----------------------- MODULE KernelCollectionProofs -----------------------
(***************************************************************************)
(* Proofs about KernelCollection, for every set of kernel types and mesh   *)
(* files and whatever the bounds: no sequence of methods leaves an         *)
(* outdated result behind.                                                 *)
(***************************************************************************)
EXTENDS KernelCollection, TLAPS

\* The invariant has two halves: what is said of the contents alone, which no
\* method that only computes a result can disturb, and what is said of the
\* results.
ContentsInv == ContentsOK /\ Homogeneous
ResultsInv == ResultsOK /\ ResultsFresh /\ TreeOfMesh

LEMMA Halves ==
  IInv <=> ContentsInv /\ ResultsInv /\ reference \in BOOLEAN
BY DEF IInv, ContentsInv, ResultsInv, TypeOK

\* Once the results are destroyed there is nothing left to be outdated.
LEMMA Invalidated ==
  ASSUME invalidateHelperStructures
  PROVE  ResultsInv'
<1>1. /\ totalWeight' = None /\ maxLocCutPoint' = None
      /\ DOMAIN deco' = {} /\ late' = {}
  BY DEF invalidateHelperStructures, NoDeco
<1>2. Present' = {}
  BY <1>1 DEF Present, Statistic
<1> QED
  BY <1>1, <1>2 DEF ResultsInv, ResultsOK, ResultsFresh, TreeOfMesh

\* Versions stay in their range.
LEMMA Modified ==
  ASSUME ContentsOK, NEW A \in SUBSET Aspect, Modify(A)
  PROVE  /\ version' \in [Aspect -> Version]
         /\ \A a \in Aspect : version'[a] = version[a] + IF a \in A THEN 1 ELSE 0
<1> USE BoundAssumption DEF Version
<1>1. \A a \in Aspect : version[a] + (IF a \in A THEN 1 ELSE 0) \in 0 .. MaxVersion
  BY DEF ContentsOK, Modify
<1> QED
  BY <1>1 DEF Modify

\* A collection assigned kernels of one type, without results.
LEMMA Assigned ==
  ASSUME ContentsInv, NEW t \in Type, NEW n \in 0 .. MaxSize, Assign(Repeat(t, n))
  PROVE  ContentsInv' /\ ResultsInv' /\ (reference \in BOOLEAN)'
<1>1. ResultsInv'
  BY Invalidated DEF Assign
<1>2. version' \in [Aspect -> Version]
  BY Modified DEF Assign, ContentsInv
<1> DEFINE ts == Repeat(t, n)
<1>3. /\ ts \in Seq(Type) /\ Len(ts) = n
      /\ DOMAIN ts = 1 .. n /\ \A i \in 1 .. n : ts[i] = t
  BY BoundAssumption DEF Repeat
<1>4. /\ n = 0 => ts = << >>
      /\ n # 0 => ts # << >> /\ ts[1] = t
  BY <1>3
<1>5. kernels' = ts /\ torn' = FALSE /\ kernelType' = IF ts = << >> THEN None ELSE ts[1]
  BY DEF Assign
<1>6. Len(ts) <= MaxSize
  BY <1>3, BoundAssumption
<1> HIDE DEF ts
<1>7. ContentsOK'
  BY <1>2, <1>3, <1>4, <1>5, <1>6 DEF ContentsOK
<1>8. Homogeneous'
  BY <1>3, <1>4, <1>5, TypeAssumption DEF Homogeneous
<1> QED
  BY <1>1, <1>7, <1>8 DEF ContentsInv, Assign

\* A method that puts one result, computed now, among the others.
LEMMA SearchDecorated ==
  ASSUME ContentsOK, ResultsInv, NEW k \in {"hull", "kdtree", "nstree"},
         Decorate([j \in {k} |-> version["place"]])
  PROVE  ResultsInv'
<1> DEFINE new == [j \in {k} |-> version["place"]]
<1>1. version["place"] \in Version
  BY DEF ContentsOK, Aspect
<1>2. /\ DOMAIN new = {k} /\ new[k] = version["place"]
  OBVIOUS
<1>3. /\ DOMAIN deco' = DOMAIN deco \union {k}
      /\ deco'[k] = version["place"]
      /\ \A j \in DOMAIN deco : j # k => deco'[j] = deco[j]
      /\ late' = late \ {k}
      /\ UNCHANGED <<kernels, kernelType, version, torn, totalWeight, maxLocCutPoint>>
  BY <1>2 DEF Decorate, contents, statistics
<1> HIDE DEF new
<1>4. ResultsOK'
  <2>1. k \in Key
    BY DEF Key
  <2> QED BY <1>1, <1>3, <2>1 DEF ResultsInv, ResultsOK
<1>5. ResultsFresh'
  <2>1. Present' = Present \union {k}
    BY <1>3 DEF Present, Statistic
  <2>2. Fresh(k)'
    BY <1>3 DEF Fresh
  <2>3. ASSUME NEW j \in Present, j # k
        PROVE  /\ Fresh(j) => Fresh(j)'
               /\ j \in late => j \in late'
    <3>1. j \in DOMAIN deco \/ j \in {"totalWeight", "maxLocCutPoint"}
      BY DEF Present, Statistic
    <3> QED
      BY <1>3, <2>3, <3>1 DEF Fresh, ResultsInv, ResultsOK, Key
  <2> QED BY <1>3, <2>1, <2>2, <2>3 DEF ResultsInv, ResultsFresh
<1>6. TreeOfMesh'
  BY <1>3 DEF ResultsInv, TreeOfMesh
<1> QED
  BY <1>4, <1>5, <1>6 DEF ResultsInv

\* A mesh and its tree, made of the present places or read from a file.
LEMMA MeshDecorated ==
  ASSUME ContentsOK, ResultsInv, NEW m \in MeshFile \union {version["place"]},
         Decorate([j \in {"mesh", "aabbtree"} |-> m])
  PROVE  ResultsInv'
<1> DEFINE new == [j \in {"mesh", "aabbtree"} |-> m]
<1>1. version["place"] \in Version
  BY DEF ContentsOK, Aspect
<1>2. DOMAIN new = {"mesh", "aabbtree"} /\ new["mesh"] = m /\ new["aabbtree"] = m
  OBVIOUS
<1>3. /\ DOMAIN deco' = DOMAIN deco \union {"mesh", "aabbtree"}
      /\ deco'["mesh"] = m /\ deco'["aabbtree"] = m
      /\ \A j \in DOMAIN deco \ {"mesh", "aabbtree"} : deco'[j] = deco[j]
      /\ late' = late \ {"mesh", "aabbtree"}
      /\ UNCHANGED <<kernels, kernelType, version, torn, totalWeight, maxLocCutPoint>>
  BY <1>2 DEF Decorate, contents, statistics
<1> HIDE DEF new
<1>4. ResultsOK'
  <2>1. m \in MeshSource /\ {"mesh", "aabbtree"} \subseteq Key
    BY <1>1 DEF MeshSource, Key
  <2> QED BY <1>1, <1>3, <2>1 DEF ResultsInv, ResultsOK
<1>5. ResultsFresh'
  <2>1. Present' = Present \union {"mesh", "aabbtree"}
    BY <1>3 DEF Present, Statistic
  <2>2. Fresh("mesh")' /\ Fresh("aabbtree")'
    BY <1>3 DEF Fresh
  <2>3. ASSUME NEW j \in Present \ {"mesh", "aabbtree"}
        PROVE  /\ Fresh(j) => Fresh(j)'
               /\ j \in late => j \in late'
    <3>1. j \in DOMAIN deco \/ j \in {"totalWeight", "maxLocCutPoint"}
      BY DEF Present, Statistic
    <3> QED
      BY <1>3, <2>3, <3>1 DEF Fresh, ResultsInv, ResultsOK, Key
  <2> QED BY <1>3, <2>1, <2>2, <2>3 DEF ResultsInv, ResultsFresh
<1>6. TreeOfMesh'
  BY <1>3 DEF ResultsInv, TreeOfMesh
<1> QED
  BY <1>4, <1>5, <1>6 DEF ResultsInv

\* No method that only computes results disturbs the contents.
LEMMA ContentsKept ==
  ASSUME ContentsInv, UNCHANGED contents
  PROVE  ContentsInv'
BY DEF ContentsInv, ContentsOK, Homogeneous, contents

\* A method that changes the statistics, and perhaps the weights or the widths
\* with them, but no place, no kernel and no decoration.
LEMMA StatisticsChanged ==
  ASSUME ContentsInv, ResultsInv,
         UNCHANGED <<kernels, kernelType, torn, deco>>,
         version' \in [Aspect -> Version], version'["place"] = version["place"],
         totalWeight' \in Version \union {NotTheSum, None},
         maxLocCutPoint' \in Version \union {None},
         late' \subseteq late, late \ Statistic \subseteq late',
         totalWeight' # None => \/ totalWeight' = version'["weight"]
                                \/ "totalWeight" \in late' \/ kernels = << >>,
         maxLocCutPoint' # None => \/ maxLocCutPoint' = version'["width"]
                                   \/ "maxLocCutPoint" \in late'
  PROVE  ContentsInv' /\ ResultsInv'
<1>1. ContentsInv'
  BY DEF ContentsInv, ContentsOK, Homogeneous
<1>2. ResultsOK' /\ TreeOfMesh'
  BY DEF ResultsInv, ResultsOK, TreeOfMesh
<1>3. ASSUME NEW k \in DOMAIN deco
      PROVE  Fresh(k)' \/ k \in late'
  <2>1. k \in Key /\ k \in Present /\ k \notin Statistic
    BY DEF ResultsInv, ResultsOK, Present, Key, Statistic
  <2>2. Fresh(k) \/ k \in late
    BY <2>1 DEF ResultsInv, ResultsFresh, Statistic
  <2> QED BY <2>1, <2>2 DEF Fresh, Key, Statistic
<1>4. ResultsFresh'
  BY <1>3 DEF ResultsFresh, Present, Statistic, Fresh
<1> QED
  BY <1>1, <1>2, <1>4 DEF ResultsInv

LEMMA InitInv == Init => IInv
<1> SUFFICES ASSUME Init PROVE IInv
  OBVIOUS
<1>1. Present = {} /\ DOMAIN deco = {}
  BY DEF Init, NoDeco, Present, Statistic
<1>2. ContentsOK /\ Homogeneous
  <2>1. kernels = << >> /\ kernelType = None /\ ~ torn /\ torn \in BOOLEAN
    BY DEF Init
  <2>2. version \in [Aspect -> Version]
    BY BoundAssumption DEF Init, Version
  <2>3. Homogeneous
    BY <2>1 DEF Homogeneous
  <2> QED BY <2>1, <2>2, <2>3, BoundAssumption DEF ContentsOK
<1>3. ResultsOK /\ ResultsFresh /\ TreeOfMesh
  BY <1>1 DEF Init, ResultsOK, ResultsFresh, TreeOfMesh
<1> QED
  BY <1>2, <1>3 DEF Init, IInv, TypeOK

\* No step of the collection's methods, nor a write by the caller, leaves the
\* invariant.
LEMMA NextInv == IInv /\ [Next]_vars => IInv'
<1> SUFFICES ASSUME IInv, [Next]_vars PROVE IInv'
  OBVIOUS
<1>0. ContentsInv /\ ContentsOK /\ Homogeneous
      /\ ResultsInv /\ ResultsOK /\ ResultsFresh /\ TreeOfMesh
      /\ reference \in BOOLEAN
  BY DEF IInv, TypeOK, ContentsInv, ResultsInv
<1> SUFFICES ContentsInv' /\ ResultsInv' /\ (reference \in BOOLEAN)'
  BY DEF IInv, TypeOK, ContentsInv, ResultsInv
<1>clear. ASSUME clear PROVE ContentsInv' /\ ResultsInv' /\ (reference \in BOOLEAN)'
  <2>1. version' \in [Aspect -> Version]
    <3>1. (IF kernels = << >> THEN {} ELSE Aspect) \in SUBSET Aspect
      OBVIOUS
    <3> QED BY <1>0, <1>clear, <3>1, Modified DEF clear
  <2>2. ContentsInv'
    <3>1. /\ kernels' = << >> /\ kernelType' = None
          /\ ~ torn' /\ torn' \in BOOLEAN
      BY <1>clear DEF clear
    <3>2. Homogeneous'
      BY <3>1 DEF Homogeneous
    <3> QED BY <2>1, <3>1, <3>2, BoundAssumption DEF ContentsInv, ContentsOK
  <2> QED BY <1>clear, <2>2, Invalidated DEF clear
<1>add. ASSUME NEW t \in Type, add(t)
        PROVE  ContentsInv' /\ ResultsInv' /\ (reference \in BOOLEAN)'
  <2>1. CASE UNCHANGED contents
    BY <1>0, <1>add, <2>1, Invalidated, ContentsKept DEF add
  <2>2. CASE ~ UNCHANGED contents
    <3>1. /\ kernels' = Append(kernels, t) /\ UNCHANGED torn
          /\ Len(kernels) < MaxSize /\ Modify(Aspect)
          /\ \/ torn /\ kernelType' = kernelType
             \/ (kernels = << >> \/ kernelType = t) /\ kernelType' = t
      BY <1>add, <2>2 DEF add
    <3>2. version' \in [Aspect -> Version]
      BY <1>0, <3>1, Modified
    <3>3. /\ kernels' \in Seq(Type) /\ Len(kernels') = Len(kernels) + 1
          /\ \A i \in 1 .. Len(kernels) : kernels'[i] = kernels[i]
          /\ kernels'[Len(kernels) + 1] = t
      BY <1>0, <3>1 DEF ContentsOK
    <3>4. ContentsOK'
      BY <1>0, <3>1, <3>2, <3>3, BoundAssumption DEF ContentsOK
    <3>5. ~torn => \A i \in DOMAIN kernels' : kernels'[i] = t
      <4>1. ~torn => kernels = << >> \/ \A i \in 1 .. Len(kernels) : kernels[i] = t
        BY <1>0, <3>1 DEF Homogeneous, ContentsOK
      <4> QED BY <1>0, <3>3, <4>1 DEF ContentsOK
    <3>6. torn => kernelType = None /\ kernels # << >> /\ kernelType' = None
      BY <1>0, <3>1, TypeAssumption DEF Homogeneous
    <3>7. kernels' # << >>
      BY <1>0, <3>3 DEF ContentsOK
    <3>8. Homogeneous'
      BY <3>1, <3>5, <3>6, <3>7, TypeAssumption DEF Homogeneous
    <3> QED BY <1>0, <1>add, <3>4, <3>8, Invalidated DEF add, ContentsInv
  <2> QED BY <2>1, <2>2
<1>replace. ASSUME NEW t \in Type, NEW i \in DOMAIN kernels, replace(i, t)
            PROVE  ContentsInv' /\ ResultsInv' /\ (reference \in BOOLEAN)'
  <2>1. /\ kernels' \in Seq(Type) /\ Len(kernels') = Len(kernels)
        /\ DOMAIN kernels' = DOMAIN kernels
        /\ \A j \in DOMAIN kernels : kernels'[j] \in {kernels[j], t}
    BY <1>0, <1>replace DEF replace, ContentsOK
  <2>2. version' \in [Aspect -> Version]
    BY <1>0, <1>replace, Modified DEF replace
  <2>3. kernels # << >> /\ kernels' # << >>
    BY <1>0, <2>1 DEF ContentsOK
  <2>4. ContentsInv'
    BY <1>0, <1>replace, <2>1, <2>2, <2>3
    DEF replace, ContentsInv, ContentsOK, Homogeneous
  <2> QED BY <1>0, <1>replace, <2>4, Invalidated DEF replace
<1>Access. ASSUME Access PROVE ContentsInv' /\ ResultsInv' /\ (reference \in BOOLEAN)'
  BY <1>0, <1>Access, Invalidated, ContentsKept DEF Access
<1>transform. ASSUME transformWith
              PROVE  ContentsInv' /\ ResultsInv' /\ (reference \in BOOLEAN)'
  <2>1. version' \in [Aspect -> Version]
    <3>1. (IF kernels = << >> THEN {} ELSE {"place"}) \in SUBSET Aspect
      BY DEF Aspect
    <3> QED BY <1>0, <1>transform, <3>1, Modified DEF transformWith
  <2> QED
    BY <1>0, <1>transform, <2>1, Invalidated
    DEF transformWith, ContentsInv, ContentsOK, Homogeneous
<1>assign. ASSUME \/ \E n \in 0 .. MaxSize : resetWithSampleOf(n)
                  \/ computeSurfaceNormals
                  \/ load
           PROVE  ContentsInv' /\ ResultsInv' /\ (reference \in BOOLEAN)'
  <2>1. ASSUME NEW n \in 0 .. MaxSize, resetWithSampleOf(n)
        PROVE  ContentsInv' /\ ResultsInv' /\ (reference \in BOOLEAN)'
    <3>1. CASE Assign(<< >>)
      <4>1. << >> = Repeat(OrientedType, 0)
        BY DEF Repeat
      <4> QED
        BY <1>0, <3>1, <4>1, Assigned, TypeAssumption, BoundAssumption
    <3>2. ASSUME NEW i \in DOMAIN kernels, Assign(Repeat(kernels[i], n))
          PROVE  ContentsInv' /\ ResultsInv' /\ (reference \in BOOLEAN)'
      <4>1. kernels[i] \in Type
        BY <1>0 DEF ContentsOK
      <4> QED BY <1>0, <3>2, <4>1, Assigned
    <3> QED BY <2>1, <3>1, <3>2 DEF resetWithSampleOf
  <2>2. ASSUME computeSurfaceNormals
        PROVE  ContentsInv' /\ ResultsInv' /\ (reference \in BOOLEAN)'
    <3>1. PICK n \in 0 .. Len(kernels) : Assign(Repeat(OrientedType, n))
      BY <2>2 DEF computeSurfaceNormals
    <3>2. n \in 0 .. MaxSize
      BY <1>0, BoundAssumption DEF ContentsOK
    <3> QED BY <1>0, <3>1, <3>2, Assigned, TypeAssumption
  <2>3. ASSUME load
        PROVE  ContentsInv' /\ ResultsInv' /\ (reference \in BOOLEAN)'
    <3>1. PICK t \in Type, n \in 0 .. MaxSize :
            \/ Assign(Repeat(t, n))
            \/ /\ kernels' = Repeat(t, n) /\ kernelType' = None /\ torn' = (n # 0)
               /\ Modify(Aspect) /\ invalidateHelperStructures /\ reference' = FALSE
      BY <2>3 DEF load
    <3>2. CASE Assign(Repeat(t, n))
      BY <1>0, <3>2, Assigned
    <3>3. CASE ~ Assign(Repeat(t, n))
      <4>1. version' \in [Aspect -> Version]
        BY <1>0, <3>1, <3>3, Modified
      <4>2. /\ kernels' \in Seq(Type) /\ Len(kernels') = n /\ n \in Nat
            /\ n <= MaxSize /\ (n # 0 <=> kernels' # << >>)
        BY <3>1, <3>3, BoundAssumption DEF Repeat
      <4>3. n = 0 => DOMAIN kernels' = {}
        BY <4>2
      <4>4. ContentsInv'
        <5>1. /\ kernelType' = None /\ torn' \in BOOLEAN
              /\ torn' <=> kernels' # << >>
          <6>1. kernelType' = None /\ torn' = (n # 0)
            BY <3>1, <3>3
          <6>2. torn' \in BOOLEAN /\ (torn' <=> n # 0)
            BY <6>1, Zenon
          <6> QED BY <4>2, <6>1, <6>2
        <5>2. Homogeneous'
          BY <4>2, <4>3, <5>1 DEF Homogeneous
        <5> QED BY <4>1, <4>2, <5>1, <5>2 DEF ContentsInv, ContentsOK
      <4> QED BY <3>1, <3>3, <4>4, Invalidated
    <3> QED BY <3>2, <3>3
  <2> QED BY <1>assign, <2>1, <2>2, <2>3
<1>search. ASSUME buildConvexHull \/ buildKdTree \/ buildNeighborSearchTree
           PROVE  ContentsInv' /\ ResultsInv' /\ (reference \in BOOLEAN)'
  <2>1. PICK k \in {"hull", "kdtree", "nstree"} :
          Decorate([j \in {k} |-> version["place"]])
    BY <1>search DEF buildConvexHull, buildKdTree, buildNeighborSearchTree
  <2>2. ResultsInv'
    BY <1>0, <2>1, SearchDecorated
  <2>3. UNCHANGED contents /\ UNCHANGED reference
    BY <2>1 DEF Decorate
  <2> QED BY <1>0, <2>2, <2>3, ContentsKept
<1>mesh. ASSUME buildMesh \/ readMeshFromOffFile
         PROVE  ContentsInv' /\ ResultsInv' /\ (reference \in BOOLEAN)'
  <2>1. PICK m \in MeshFile \union {version["place"]} :
          Decorate([j \in {"mesh", "aabbtree"} |-> m])
    BY <1>mesh DEF buildMesh, readMeshFromOffFile
  <2>2. ResultsInv'
    BY <1>0, <2>1, MeshDecorated
  <2>3. UNCHANGED contents /\ UNCHANGED reference
    BY <2>1 DEF Decorate
  <2> QED BY <1>0, <2>2, <2>3, ContentsKept
<1>views. ASSUME buildPartialViewCache
          PROVE  ContentsInv' /\ ResultsInv' /\ (reference \in BOOLEAN)'
  <2> DEFINE views == [place |-> version["place"], mesh |-> deco["mesh"]]
             new == [j \in {"viewcache"} |-> views]
  <2>1. /\ version["place"] \in Version
        /\ "mesh" \in DOMAIN deco /\ deco["mesh"] \in MeshSource
    BY <1>0, <1>views DEF buildPartialViewCache, ContentsOK, Aspect, ResultsOK
  <2>2. views \in [place : Version, mesh : MeshSource]
    BY <2>1
  <2>3. views.place = version["place"]
    OBVIOUS
  <2>4. DOMAIN new = {"viewcache"} /\ new["viewcache"] = views
    OBVIOUS
  <2>5. Decorate(new)
    BY <1>views DEF buildPartialViewCache
  <2> HIDE DEF views, new
  <2>6. /\ DOMAIN deco' = DOMAIN deco \union {"viewcache"}
        /\ deco'["viewcache"] = views
        /\ \A j \in DOMAIN deco \ {"viewcache"} : deco'[j] = deco[j]
        /\ late' = late \ {"viewcache"}
        /\ UNCHANGED <<kernels, kernelType, version, torn, totalWeight, maxLocCutPoint>>
        /\ UNCHANGED contents /\ UNCHANGED reference
    BY <2>4, <2>5 DEF Decorate, contents, statistics
  <2>7. ResultsOK'
    <3>1. "viewcache" \in Key
      BY DEF Key
    <3> QED BY <1>0, <2>2, <2>6, <3>1 DEF ResultsOK
  <2>8. ResultsFresh'
    <3>1. Present' = Present \union {"viewcache"}
      BY <2>6 DEF Present, Statistic
    <3>2. Fresh("viewcache")'
      BY <2>3, <2>6 DEF Fresh
    <3>3. ASSUME NEW j \in Present \ {"viewcache"}
          PROVE  /\ Fresh(j) => Fresh(j)'
                 /\ j \in late => j \in late'
      <4>1. j \in DOMAIN deco \/ j \in {"totalWeight", "maxLocCutPoint"}
        BY DEF Present, Statistic
      <4> QED BY <1>0, <2>6, <4>1 DEF Fresh, ResultsOK, Key
    <3> QED BY <1>0, <2>6, <3>1, <3>2, <3>3 DEF ResultsFresh
  <2>9. TreeOfMesh'
    BY <1>0, <2>6 DEF TreeOfMesh
  <2> QED BY <1>0, <2>6, <2>7, <2>8, <2>9, ContentsKept DEF ResultsInv
<1>1. /\ version["weight"] \in Version /\ version["width"] \in Version
      /\ BoundAssumption /\ VersionAssumption /\ Version \subseteq Nat
  BY <1>0, BoundAssumption, VersionAssumption DEF ContentsOK, Aspect, Version
<1>2. ASSUME NEW a \in Aspect, Modify({a})
      PROVE  /\ version' \in [Aspect -> Version]
             /\ version'[a] = version[a] + 1
             /\ \A b \in Aspect : b # a => version'[b] = version[b]
  BY <1>0, <1>2, Modified DEF ContentsOK, Version
<1>compute. ASSUME computeKernelStatistics
            PROVE  ContentsInv' /\ ResultsInv' /\ (reference \in BOOLEAN)'
  BY <1>0, <1>1, <1>compute, StatisticsChanged
  DEF computeKernelStatistics, contents, ContentsOK, Statistic
<1>normalize. ASSUME normalizeWeights
              PROVE  ContentsInv' /\ ResultsInv' /\ (reference \in BOOLEAN)'
  <2>1. CASE kernels = << >>
    BY <1>0, <1>1, <1>normalize, <2>1, StatisticsChanged
    DEF normalizeWeights, contents, ContentsOK, ResultsOK, ResultsFresh, Fresh,
        Present, Statistic
  <2>2. CASE kernels # << >>
    <3>1. "weight" \in Aspect /\ "width" \in Aspect /\ "place" \in Aspect
      BY DEF Aspect
    <3>2. /\ version' \in [Aspect -> Version]
          /\ version'["weight"] = version["weight"] + 1
          /\ version'["width"] = version["width"]
          /\ version'["place"] = version["place"]
          /\ UNCHANGED <<kernels, kernelType, torn, deco, reference>>
      BY <1>2, <1>normalize, <2>2, <3>1 DEF normalizeWeights
    <3>3. CASE totalWeight = None
      BY <1>0, <1>1, <1>normalize, <2>2, <3>1, <3>2, <3>3, StatisticsChanged
      DEF normalizeWeights, Statistic
    <3>4. CASE totalWeight # None
      <4>1. totalWeight = version["weight"] \/ "totalWeight" \in late
        BY <1>0, <2>2, <3>4 DEF ResultsFresh, Fresh, Present, Statistic
      <4>2. maxLocCutPoint # None =>
              maxLocCutPoint = version["width"] \/ "maxLocCutPoint" \in late
        BY <1>0, <2>2 DEF ResultsFresh, Fresh, Present, Statistic
      <4>3. /\ UNCHANGED <<maxLocCutPoint, late>>
            /\ totalWeight' \in {version'["weight"], NotTheSum}
            /\ totalWeight = version["weight"] => totalWeight' = version'["weight"]
        BY <1>normalize, <2>2, <3>4 DEF normalizeWeights
      <4>4. version'["weight"] \in Version
        BY <3>1, <3>2
      <4> QED
        BY <1>0, <3>2, <4>1, <4>2, <4>3, <4>4, StatisticsChanged DEF ResultsOK
    <3> QED BY <3>3, <3>4
  <2> QED BY <2>1, <2>2
<1>uniformize. ASSUME uniformizeWeights
               PROVE  ContentsInv' /\ ResultsInv' /\ (reference \in BOOLEAN)'
  <2>1. maxLocCutPoint # None =>
          \/ maxLocCutPoint = version["width"] \/ "maxLocCutPoint" \in late
    BY <1>0 DEF ResultsFresh, Fresh, Present, Statistic
  <2>2. CASE kernels = << >>
    BY <1>0, <1>uniformize, <2>1, <2>2, StatisticsChanged
    DEF uniformizeWeights, ContentsOK, ResultsOK, Statistic
  <2>3. CASE kernels # << >>
    <3>1. "weight" \in Aspect /\ "width" \in Aspect /\ "place" \in Aspect
      BY DEF Aspect
    <3>2. /\ version' \in [Aspect -> Version]
          /\ version'["weight"] \in Version
          /\ version'["width"] = version["width"]
          /\ version'["place"] = version["place"]
          /\ totalWeight' = version'["weight"]
      BY <1>2, <1>uniformize, <2>3, <3>1 DEF uniformizeWeights
    <3> QED
      BY <1>0, <1>uniformize, <2>1, <3>2, StatisticsChanged
      DEF uniformizeWeights, ResultsOK, Statistic
  <2> QED BY <2>2, <2>3
<1>locH. ASSUME setKernelLocH
         PROVE  ContentsInv' /\ ResultsInv' /\ (reference \in BOOLEAN)'
  <2>1. totalWeight # None =>
          \/ totalWeight = version["weight"]
          \/ "totalWeight" \in late \/ kernels = << >>
    BY <1>0 DEF ResultsFresh, Fresh, Present, Statistic
  <2>2. maxLocCutPoint # None =>
          \/ maxLocCutPoint = version["width"] \/ "maxLocCutPoint" \in late
    BY <1>0 DEF ResultsFresh, Fresh, Present, Statistic
  <2>3. CASE kernels = << >>
    BY <1>0, <1>locH, <2>1, <2>2, <2>3, StatisticsChanged
    DEF setKernelLocH, ContentsOK, ResultsOK, Statistic
  <2>4. CASE kernels # << >>
    <3>1. "weight" \in Aspect /\ "width" \in Aspect /\ "place" \in Aspect
      BY DEF Aspect
    <3>2. /\ version' \in [Aspect -> Version]
          /\ version'["width"] \in Version
          /\ version'["weight"] = version["weight"]
          /\ version'["place"] = version["place"]
          /\ maxLocCutPoint' = version'["width"]
      BY <1>2, <1>locH, <2>4, <3>1 DEF setKernelLocH
    <3> QED
      BY <1>0, <1>locH, <2>1, <2>4, <3>2, StatisticsChanged
      DEF setKernelLocH, ResultsOK, Statistic
  <2> QED BY <2>3, <2>4
<1>write. ASSUME NEW a \in Aspect, WriteThroughReference(a)
          PROVE  ContentsInv' /\ ResultsInv' /\ (reference \in BOOLEAN)'
  <2>1. /\ version' \in [Aspect -> Version]
        /\ \A b \in Aspect : b # a => version'[b] = version[b]
        /\ UNCHANGED <<kernels, kernelType, torn, totalWeight, maxLocCutPoint, deco, reference>>
        /\ late' = late \union {k \in Present : Depends(k) = a}
    BY <1>2, <1>write DEF WriteThroughReference, statistics
  <2>2. ContentsInv'
    BY <1>0, <2>1 DEF ContentsInv, ContentsOK, Homogeneous
  <2>3. Present' = Present /\ Present \subseteq Key \union Statistic
    BY <1>0, <2>1 DEF Present, ResultsOK
  <2>4. ResultsOK' /\ TreeOfMesh'
    BY <1>0, <2>1, <2>3 DEF ResultsOK, TreeOfMesh
  <2>5. ASSUME NEW k \in Present, Depends(k) # a, Fresh(k)
        PROVE  Fresh(k)'
    <3>1. Depends(k) \in Aspect /\ version'[Depends(k)] = version[Depends(k)]
      BY <2>1, <2>5 DEF Depends, Aspect
    <3> QED BY <2>1, <2>3, <2>5, <3>1 DEF Fresh, Depends, Key, Statistic
  <2>6. ResultsFresh'
    BY <1>0, <2>1, <2>3, <2>5 DEF ResultsFresh
  <2> QED BY <1>0, <2>1, <2>2, <2>4, <2>6 DEF ResultsInv
<1>stutter. ASSUME UNCHANGED vars
            PROVE  ContentsInv' /\ ResultsInv' /\ (reference \in BOOLEAN)'
  BY <1>0, <1>stutter, ContentsKept
  DEF vars, contents, results, statistics, ResultsInv, ResultsOK, ResultsFresh,
      TreeOfMesh, Present, Fresh
<1> QED
  BY <1>clear, <1>add, <1>replace, <1>Access, <1>transform, <1>assign, <1>search,
     <1>mesh, <1>views, <1>compute, <1>normalize,
     <1>uniformize, <1>locH, <1>write, <1>stutter
  DEF Next, ContainerNext, ResultsNext, sampleBegin

LEMMA Invariant == Spec => []IInv
BY InitInv, NextInv, PTL DEF Spec

\* Every variable keeps its type.
THEOREM TypeCorrect == Spec => []TypeOK
BY Invariant, PTL DEF IInv

\* KernelCollection.h:80-82: after any sequence of calls, a result that is still
\* stored was computed from the kernels as they are, unless the caller wrote to
\* them through a reference it had kept.
THEOREM NoStaleResults == Spec => []ResultsFresh
BY Invariant, PTL DEF IInv

\* A collection holds kernels of one type, the one it has recorded, so that the
\* casts of staticEvaluationAt() are right; one that a load left part way has
\* kernels and no recorded type, until it is cleared or assigned.
THEOREM OneType == Spec => []Homogeneous
BY Invariant, PTL DEF IInv

\* An AABB tree is never left without, or with another than, its mesh.
THEOREM TreeHasItsMesh == Spec => []TreeOfMesh
BY Invariant, PTL DEF IInv
=============================================================================

------------------------ MODULE PoseEstimatorProofs ------------------------
(***************************************************************************)
(* For all clouds, thresholds, numbers of chains and weights, and however  *)
(* often models are loaded: once load() has returned, no query of an       *)
(* estimation lacks what it needs and no null pointer is dereferenced;     *)
(* before, no pose is returned.  The results that the two models hold are  *)
(* those of their present kernels throughout.                              *)
(***************************************************************************)
EXTENDS PoseEstimator, TLAPS

\* The phases of load(), in order.
Loading == pc \in LoadPC
TypesKnown == {"light", "sample", "widths", "statistics", "tree", "mesh", "cache", "finish"}
Weighed == {"tree", "mesh", "cache", "finish"}
Indexed == {"mesh", "cache", "finish"}

Versions == /\ oVersion \in [Object!Aspect -> Nat]
            /\ sVersion \in [Object!Aspect -> Nat]

\* The phases of load() once the normals of the object are settled, and what
\* they are settled to: a cloud of points has been given them if they were
\* asked for.
Prepared == LoadPC \ {"check", "objectFront", "objectTree", "objectNormals"}
Oriented == args.computeNormals /\ oKernelType = R3 => R3 = OrientedType

\* What load() has established when it reaches each of its phases, and what it
\* has not: until the end, the object has no weights or its mesh is missing.
Phases ==
  /\ Loading => ~complete
  /\ Loading /\ pc \notin Weighed => oTotalWeight = None
  /\ Loading /\ pc \notin {"cache", "finish"} => "mesh" \notin DOMAIN oDeco
  /\ pc \in {"mesh", "cache"} => partialview
  /\ pc \in Prepared => Oriented
  /\ pc \in TypesKnown => ~Empty /\ oKernelType = sKernelType
  /\ pc \in Weighed => oTotalWeight /= None /\ sMaxLocCutPoint /= None
  /\ pc \in Indexed => "kdtree" \in DOMAIN sDeco
  /\ pc = "finish" /\ partialview => HasMesh /\ "viewcache" \in DOMAIN oDeco

\* The models of a load that has returned answer every query; those of one
\* that has not cannot be sampled, or lack their mesh.
Loaded ==
  /\ complete => /\ Sampled /\ SceneAnswers /\ Oriented
                 /\ Progress => pi
                 /\ partialview /\ ~switched => HasMesh /\ "viewcache" \in DOMAIN oDeco
  /\ ~complete /\ ~Loading => \/ oTotalWeight = None \/ Empty
                              \/ partialview /\ ~HasMesh

\* A chain that has returned has sampled the models.
Chains ==
  /\ pc = "chains" /\ results /= {} => Sampled
  /\ pc = "score" => Sampled /\ results = Run!Task /\ pose \in Best(weight)

IInv ==
  /\ Versions /\ Phases /\ Loaded /\ Chains
  /\ NoQueryUnmet /\ PoseOfOneLoad /\ BestOfChains /\ NoCrashOnceLoaded

USE EstimatorAssumption, CollectionAssumption

LEMMA InitInv == Init => IInv
<1> SUFFICES ASSUME Init PROVE IInv
  OBVIOUS
<1>1. pc = "idle" /\ result = "none" /\ complete = FALSE /\ results = {}
  BY DEF Init, Run!Init
<1>2. oTotalWeight = None /\ Versions
  BY DEF Init, Object!Init, Scene!Init, Versions, Object!Aspect, Scene!Aspect
<1> QED BY <1>1, <1>2 DEF IInv, Phases, Loaded, Chains, Loading, LoadPC, Prepared, TypesKnown,
                          Weighed, Indexed, NoQueryUnmet, PoseOfOneLoad, BestOfChains,
                          NoCrashOnceLoaded

(***************************************************************************)
(* What the operations of a collection change                              *)
(***************************************************************************)
LEMMA RepeatFacts ==
  ASSUME NEW t, NEW n \in Nat \ {0}
  PROVE  /\ Object!Repeat(t, n) /= << >> /\ Object!Repeat(t, n)[1] = t
         /\ Scene!Repeat(t, n) /= << >> /\ Scene!Repeat(t, n)[1] = t
<1>1. 1 \in DOMAIN [i \in 1 .. n |-> t]
  OBVIOUS
<1>2. [i \in 1 .. n |-> t] /= << >>
  BY <1>1
<1> QED BY <1>2 DEF Object!Repeat, Scene!Repeat

LEMMA ObjectFacts ==
  ASSUME Versions
  PROVE  /\ \A ts : Object!Assign(ts) => /\ oTotalWeight' = None /\ DOMAIN oDeco' = {}
                                         /\ oVersion' \in [Object!Aspect -> Nat]
                                         /\ oKernelType' = IF ts = << >> THEN None ELSE ts[1]
         /\ Object!Access => /\ oTotalWeight' = None /\ DOMAIN oDeco' = {}
                             /\ UNCHANGED <<oKernels, oKernelType, oVersion>>
         /\ Object!setKernelLocH => /\ UNCHANGED <<oKernels, oKernelType, oTotalWeight, oDeco>>
                                    /\ oVersion' \in [Object!Aspect -> Nat]
         /\ Object!computeKernelStatistics =>
              oTotalWeight' /= None /\ UNCHANGED <<oKernels, oKernelType, oVersion, oDeco>>
<1> USE DEF Versions, Object!Aspect
<1>1. ASSUME NEW A, Object!Modify(A) PROVE oVersion' \in [Object!Aspect -> Nat]
  BY <1>1 DEF Object!Modify
<1>2. ASSUME NEW ts, Object!Assign(ts)
      PROVE  /\ oTotalWeight' = None /\ DOMAIN oDeco' = {}
             /\ oVersion' \in [Object!Aspect -> Nat]
             /\ oKernelType' = IF ts = << >> THEN None ELSE ts[1]
  BY <1>1, <1>2 DEF Object!Assign, Object!invalidateHelperStructures, Object!NoDeco
<1>3. ASSUME Object!Access
      PROVE  /\ oTotalWeight' = None /\ DOMAIN oDeco' = {}
             /\ UNCHANGED <<oKernels, oKernelType, oVersion>>
  BY <1>3 DEF Object!Access, Object!invalidateHelperStructures, Object!NoDeco,
              Object!contents
<1>4. ASSUME Object!setKernelLocH
      PROVE  /\ UNCHANGED <<oKernels, oKernelType, oTotalWeight, oDeco>>
             /\ oVersion' \in [Object!Aspect -> Nat]
  BY <1>1, <1>4 DEF Object!setKernelLocH
<1>5. ASSUME Object!computeKernelStatistics
      PROVE  oTotalWeight' /= None /\ UNCHANGED <<oKernels, oKernelType, oVersion, oDeco>>
  BY <1>5 DEF Object!computeKernelStatistics, Object!contents
<1> QED BY <1>2, <1>3, <1>4, <1>5

LEMMA SceneFacts ==
  ASSUME Versions
  PROVE  /\ \A ts : Scene!Assign(ts) =>
              /\ sVersion' \in [Object!Aspect -> Nat]
              /\ sKernels' = ts /\ (ts /= << >> => sKernelType' = ts[1])
         /\ Scene!Access => UNCHANGED <<sKernels, sKernelType, sVersion>>
         /\ Scene!setKernelLocH => /\ UNCHANGED <<sKernels, sKernelType>>
                                   /\ sVersion' \in [Object!Aspect -> Nat]
         /\ Scene!computeKernelStatistics =>
              sMaxLocCutPoint' /= None /\ UNCHANGED <<sKernels, sKernelType, sVersion>>
<1> USE DEF Versions, Object!Aspect, Scene!Aspect
<1>1. ASSUME NEW A, Scene!Modify(A) PROVE sVersion' \in [Object!Aspect -> Nat]
  BY <1>1 DEF Scene!Modify
<1>2. ASSUME NEW ts, Scene!Assign(ts)
      PROVE  /\ sVersion' \in [Object!Aspect -> Nat]
             /\ sKernels' = ts /\ (ts /= << >> => sKernelType' = ts[1])
  BY <1>1, <1>2 DEF Scene!Assign
<1>3. ASSUME Scene!Access PROVE UNCHANGED <<sKernels, sKernelType, sVersion>>
  BY <1>3 DEF Scene!Access, Scene!contents
<1>4. ASSUME Scene!setKernelLocH
      PROVE  UNCHANGED <<sKernels, sKernelType>> /\ sVersion' \in [Object!Aspect -> Nat]
  BY <1>1, <1>4 DEF Scene!setKernelLocH
<1>5. ASSUME Scene!computeKernelStatistics
      PROVE  sMaxLocCutPoint' /= None /\ UNCHANGED <<sKernels, sKernelType, sVersion>>
  BY <1>5 DEF Scene!computeKernelStatistics, Scene!contents
<1> QED BY <1>2, <1>3, <1>4, <1>5

\* A decoration is added, and nothing else changes.
LEMMA DecorateFacts ==
  /\ \A f : Object!Decorate(f) =>
       /\ DOMAIN oDeco' = DOMAIN oDeco \union DOMAIN f
       /\ UNCHANGED <<oKernels, oKernelType, oVersion, oTotalWeight>>
  /\ \A f : Scene!Decorate(f) =>
       /\ DOMAIN sDeco' = DOMAIN sDeco \union DOMAIN f
       /\ UNCHANGED <<sKernels, sKernelType, sVersion, sMaxLocCutPoint>>
BY DEF Object!Decorate, Object!contents, Object!statistics,
       Scene!Decorate, Scene!contents, Scene!statistics

(***************************************************************************)
(* load()                                                                  *)
(***************************************************************************)
Here == /\ UNCHANGED <<settings, args, chains, history>>
        /\ \/ pc' \in LoadPC /\ result' = result
           \/ pc' = "crashed" /\ result' = result
           \/ pc' = "idle" /\ result' \in {"error", "missing"}

\* While a load is running, what is true of results and chains is unaffected.
LEMMA LoadKeeps ==
  ASSUME IInv, Loading, Here
  PROVE  /\ ~complete' /\ UNCHANGED <<partialview, switched, pi>>
         /\ Chains' /\ NoQueryUnmet' /\ PoseOfOneLoad' /\ BestOfChains' /\ NoCrashOnceLoaded'
<1>1. ~complete /\ UNCHANGED <<partialview, switched, pi, complete>>
  BY DEF Here, history, settings, IInv, Phases
<1>2. pc' \notin {"chains", "score"} /\ (pc' = "idle" => result' \in {"error", "missing"})
  BY DEF Here, LoadPC
<1> QED BY <1>1, <1>2 DEF Chains, NoQueryUnmet, PoseOfOneLoad, BestOfChains, NoCrashOnceLoaded

\* Enough for a step of load() that leaves the invariant true.
LEMMA LoadSuffices ==
  ASSUME IInv, Loading, Here, Versions', Phases',
         pc' \in {"idle", "crashed"} =>
           oTotalWeight' = None \/ Empty' \/ (partialview /\ ~HasMesh')
  PROVE  IInv'
<1>1. Loaded'
  BY LoadKeeps DEF Here, Loaded, Loading, LoadPC
<1> QED BY <1>1, LoadKeeps DEF IInv

LEMMA FrontInv ==
  ASSUME IInv, check \/ objectFront \/ sceneFront \/ domains,
         UNCHANGED <<settings, args, chains, history>>
  PROVE  IInv'
<1> USE DEF Loading, LoadPC, Prepared, Oriented, TypesKnown, Weighed, Indexed, Goto, Returns
<1>0. Versions /\ Phases
  BY DEF IInv
<1>1. CASE check
  <2>1. /\ Here /\ pc = "check" /\ pc' \in {"idle", "objectFront"}
        /\ UNCHANGED <<objectModel, sceneModel>>
    BY <1>1 DEF check, Here
  <2>2. Versions' /\ Phases'
    BY <1>0, <2>1 DEF Versions, Phases, objectModel, sceneModel, history, settings
  <2>3. oTotalWeight' = None
    BY <1>0, <2>1 DEF Phases, objectModel
  <2> QED BY <2>1, <2>2, <2>3, LoadSuffices
<1>2. CASE objectFront
  <2>1. /\ Here /\ pc = "objectFront"
        /\ pc' = IF oKernelType = R3 /\ args.computeNormals THEN "objectTree" ELSE "sceneFront"
    BY <1>2 DEF objectFront, Here
  <2>2. /\ Versions' /\ oTotalWeight' = None /\ DOMAIN oDeco' = {}
        /\ oKernelType' = oKernelType
    BY <1>0, <1>2, ObjectFacts DEF objectFront, sceneModel, Versions
  <2>3. Phases'
    BY <1>0, <2>1, <2>2 DEF Phases, history, settings
  <2> QED BY <2>1, <2>2, <2>3, LoadSuffices
<1>3. CASE sceneFront
  <2>1. Here /\ pc = "sceneFront" /\ pc' \in {"sceneTree", "domains"} /\ UNCHANGED objectModel
    BY <1>3 DEF sceneFront, Here
  <2>2. Versions'
    BY <1>0, <1>3, <2>1, SceneFacts DEF sceneFront, Versions, objectModel
  <2>3. Phases'
    BY <1>0, <2>1 DEF Phases, history, settings, objectModel
  <2> QED BY <2>1, <2>2, <2>3, LoadSuffices
<1>4. CASE domains
  <2>1. Here /\ pc = "domains" /\ pc' \in {"crashed", "idle", "light", "widths"}
    BY <1>4 DEF domains, Here
  <2>2. /\ Versions' /\ oTotalWeight' = None /\ DOMAIN oDeco' = {}
        /\ UNCHANGED <<oKernels, oKernelType, sKernels, sKernelType>>
    BY <1>0, <1>4, ObjectFacts, SceneFacts DEF domains, Versions
  <2>3. pc' \in {"light", "widths"} => ~Empty' /\ oKernelType' = sKernelType'
    BY <1>4, <2>2 DEF domains, Empty
  <2>4. Phases'
    BY <1>0, <2>1, <2>2, <2>3 DEF Phases, history, settings
  <2> QED BY <2>1, <2>2, <2>4, LoadSuffices
<1> QED BY <1>1, <1>2, <1>3, <1>4

LEMMA NormalsInv ==
  ASSUME IInv, objectTree \/ objectNormals \/ sceneTree \/ sceneNormals,
         UNCHANGED <<settings, args, chains, history>>
  PROVE  IInv'
<1> USE DEF Loading, LoadPC, Prepared, Oriented, TypesKnown, Weighed, Indexed, Goto, Returns
<1>0. Versions /\ Phases
  BY DEF IInv
<1>1. CASE objectTree
  <2>1. Here /\ pc = "objectTree" /\ pc' = "objectNormals" /\ UNCHANGED sceneModel
    BY <1>1 DEF objectTree, Here
  <2>2. /\ DOMAIN oDeco' = DOMAIN oDeco \union {"nstree"}
        /\ UNCHANGED <<oVersion, oTotalWeight>>
    BY <1>1, DecorateFacts DEF objectTree, Object!buildNeighborSearchTree
  <2>3. Versions' /\ Phases'
    BY <1>0, <2>1, <2>2 DEF Versions, Phases, history, settings, sceneModel
  <2> QED BY <2>1, <2>3, LoadSuffices
<1>2. CASE objectNormals
  <2>1. Here /\ pc = "objectNormals" /\ pc' = "sceneFront" /\ UNCHANGED sceneModel
    BY <1>2 DEF objectNormals, Here
  <2>2. PICK n \in 0 .. Len(oKernels) : Object!Assign(Object!Repeat(OrientedType, n))
    BY <1>2 DEF objectNormals, Object!computeSurfaceNormals
  <2>3. /\ oTotalWeight' = None /\ DOMAIN oDeco' = {} /\ oVersion' \in [Object!Aspect -> Nat]
        /\ oKernelType' = IF Object!Repeat(OrientedType, n) = << >> THEN None
                          ELSE Object!Repeat(OrientedType, n)[1]
    BY <1>0, <2>2, ObjectFacts
  <2>4. Object!Repeat(OrientedType, n) = << >> \/ Object!Repeat(OrientedType, n)[1] = OrientedType
    BY DEF Object!Repeat
  <2>5. oKernelType' \in {None, OrientedType}
    BY <2>3, <2>4
  <2>6. Oriented'
    BY <2>5
  <2>7. Versions' /\ Phases'
    BY <1>0, <2>1, <2>3, <2>6 DEF Versions, Phases, history, settings, sceneModel
  <2> QED BY <2>1, <2>7, LoadSuffices
<1>3. CASE sceneTree
  <2>1. Here /\ pc = "sceneTree" /\ pc' = "sceneNormals" /\ UNCHANGED objectModel
    BY <1>3 DEF sceneTree, Here
  <2>2. sVersion' = sVersion
    BY <1>3, DecorateFacts DEF sceneTree, Scene!buildNeighborSearchTree
  <2>3. Versions' /\ Phases'
    BY <1>0, <2>1, <2>2 DEF Versions, Phases, history, settings, objectModel
  <2> QED BY <2>1, <2>3, LoadSuffices
<1>4. CASE sceneNormals
  <2>1. Here /\ pc = "sceneNormals" /\ pc' = "domains" /\ UNCHANGED objectModel
    BY <1>4 DEF sceneNormals, Here
  <2>2. sVersion' \in [Object!Aspect -> Nat]
    BY <1>0, <1>4, SceneFacts DEF sceneNormals, Scene!computeSurfaceNormals
  <2>3. Versions' /\ Phases'
    BY <1>0, <2>1, <2>2 DEF Versions, Phases, history, settings, objectModel
  <2> QED BY <2>1, <2>3, LoadSuffices
<1> QED BY <1>1, <1>2, <1>3, <1>4

LEMMA StatisticsInv ==
  ASSUME IInv, light \/ sample \/ widths \/ statistics \/ tree,
         UNCHANGED <<settings, args, chains, history>>
  PROVE  IInv'
<1> USE DEF Loading, LoadPC, Prepared, Oriented, TypesKnown, Weighed, Indexed, Goto, Returns
<1>0. Versions /\ Phases
  BY DEF IInv
<1>1. CASE light
  <2>1. Here /\ pc = "light" /\ pc' = "sample" /\ UNCHANGED objectModel
    BY <1>1 DEF light, Here
  <2>2. UNCHANGED <<sKernels, sKernelType, sVersion>>
    BY <1>0, <1>1, SceneFacts DEF light
  <2>3. Versions' /\ Phases'
    BY <1>0, <2>1, <2>2 DEF Versions, Phases, Empty, history, settings, objectModel
  <2> QED BY <2>1, <2>3, LoadSuffices
<1>2. CASE sample
  <2>1. Here /\ pc = "sample" /\ pc' = "widths" /\ UNCHANGED objectModel
    BY <1>2 DEF sample, Here
  <2>2. sVersion' \in [Object!Aspect -> Nat] /\ sKernels' /= << >> /\ sKernelType' = sKernelType
    BY <1>0, <1>2, SceneFacts, RepeatFacts DEF sample
  <2>3. Versions' /\ Phases'
    BY <1>0, <2>1, <2>2 DEF Versions, Phases, Empty, history, settings, objectModel
  <2> QED BY <2>1, <2>3, LoadSuffices
<1>3. CASE widths
  <2>1. Here /\ pc = "widths" /\ pc' = "statistics"
    BY <1>3 DEF widths, Here
  <2>2. /\ Versions'
        /\ UNCHANGED <<oKernels, oKernelType, oTotalWeight, oDeco, sKernels, sKernelType>>
    BY <1>0, <1>3, ObjectFacts, SceneFacts DEF widths, Versions
  <2>3. Phases'
    BY <1>0, <2>1, <2>2 DEF Phases, Empty, history, settings
  <2> QED BY <2>1, <2>2, <2>3, LoadSuffices
<1>4. CASE statistics
  <2>1. Here /\ pc = "statistics" /\ pc' = "tree"
    BY <1>4 DEF statistics, Here
  <2>2. /\ Versions' /\ oTotalWeight' /= None /\ sMaxLocCutPoint' /= None
        /\ UNCHANGED <<oKernels, oKernelType, oDeco, sKernels, sKernelType>>
    BY <1>0, <1>4, ObjectFacts, SceneFacts DEF statistics, Versions
  <2>3. Phases'
    BY <1>0, <2>1, <2>2 DEF Phases, Empty, history, settings
  <2> QED BY <2>1, <2>2, <2>3, LoadSuffices
<1>5. CASE tree
  <2>1. /\ Here /\ pc = "tree" /\ pc' = (IF partialview THEN "mesh" ELSE "finish")
        /\ UNCHANGED objectModel
    BY <1>5 DEF tree, Here
  <2>2. /\ DOMAIN sDeco' = DOMAIN sDeco \union {"kdtree"}
        /\ UNCHANGED <<sKernels, sKernelType, sVersion, sMaxLocCutPoint>>
    <3>1. Scene!Decorate([k \in {"kdtree"} |-> sVersion["place"]])
      BY <1>5 DEF tree, Scene!buildKdTree
    <3> QED BY <3>1, DecorateFacts
  <2>3. /\ UNCHANGED <<oKernels, oKernelType, oVersion, oTotalWeight, oDeco>>
        /\ UNCHANGED <<partialview, complete>>
    BY <2>1 DEF objectModel, Here, settings, history
  <2>4. Versions'
    BY <1>0, <2>2, <2>3 DEF Versions
  <2>5. CASE partialview
    <3>1. pc' = "mesh"
      BY <2>1, <2>5
    <3>2. Phases'
      BY <1>0, <2>1, <2>2, <2>3, <2>5, <3>1 DEF Phases, Empty
    <3> QED BY <2>1, <2>4, <3>1, <3>2, LoadSuffices
  <2>6. CASE ~partialview
    <3>1. pc' = "finish"
      BY <2>1, <2>6
    <3>2. Phases'
      BY <1>0, <2>1, <2>2, <2>3, <2>6, <3>1 DEF Phases, Empty
    <3> QED BY <2>1, <2>4, <3>1, <3>2, LoadSuffices
  <2> QED BY <2>5, <2>6
<1> QED BY <1>1, <1>2, <1>3, <1>4, <1>5

LEMMA MeshInv ==
  ASSUME IInv, mesh \/ cache, UNCHANGED <<settings, args, chains, history>>
  PROVE  IInv'
<1> USE DEF Loading, LoadPC, Prepared, Oriented, TypesKnown, Weighed, Indexed, Goto, Returns
<1>0. Versions /\ Phases
  BY DEF IInv
<1>1. CASE mesh
  <2>1. Here /\ pc = "mesh" /\ UNCHANGED sceneModel
    BY <1>1 DEF mesh, Here
  <2>2. CASE (Object!readMeshFromOffFile \/ Object!buildMesh) /\ Goto("cache")
    <3>1. \E f : Object!Decorate(f)
      BY <2>2 DEF Object!readMeshFromOffFile, Object!buildMesh
    <3>2. UNCHANGED <<oKernels, oKernelType, oVersion, oTotalWeight>>
      BY <3>1, DecorateFacts
    <3>3. pc' = "cache"
      BY <2>2
    <3>4. Versions' /\ Phases'
      BY <1>0, <2>1, <3>2, <3>3
         DEF Versions, Phases, Empty, history, settings, sceneModel
    <3> QED BY <2>1, <3>3, <3>4, LoadSuffices
  <2>3. CASE Returns("error") /\ UNCHANGED objectModel
    <3>1. pc' = "idle" /\ partialview /\ ~HasMesh'
      BY <1>0, <2>1, <2>3 DEF Phases, HasMesh, objectModel
    <3>2. Versions' /\ Phases'
      BY <1>0, <2>1, <2>3, <3>1
         DEF Versions, Phases, history, settings, sceneModel, objectModel
    <3> QED BY <2>1, <3>1, <3>2, LoadSuffices
  <2> QED BY <1>1, <2>2, <2>3 DEF mesh
<1>2. CASE cache
  <2>1. Here /\ pc = "cache" /\ UNCHANGED sceneModel
    BY <1>2 DEF cache, Here
  <2>2. CASE HasMesh
    <3>1. pc' = "finish" /\ Object!buildPartialViewCache
      BY <1>2, <2>2 DEF cache
    <3>2. PICK v : Object!Decorate([k \in {"viewcache"} |-> v])
      BY <3>1 DEF Object!buildPartialViewCache
    <3>3. /\ DOMAIN oDeco' = DOMAIN oDeco \union {"viewcache"}
          /\ UNCHANGED <<oKernels, oKernelType, oVersion, oTotalWeight>>
      BY <3>2, DecorateFacts
    <3>4. Versions' /\ Phases'
      BY <1>0, <2>1, <2>2, <3>1, <3>3
         DEF Versions, Phases, Empty, HasMesh, history, settings, sceneModel
    <3> QED BY <2>1, <3>1, <3>4, LoadSuffices
  <2>3. CASE ~HasMesh
    <3>1. pc' = "idle" /\ partialview /\ ~HasMesh' /\ UNCHANGED objectModel
      BY <1>0, <1>2, <2>3 DEF Phases, HasMesh, objectModel, cache
    <3>2. Versions' /\ Phases'
      BY <1>0, <2>1, <3>1
         DEF Versions, Phases, history, settings, sceneModel, objectModel
    <3> QED BY <2>1, <3>1, <3>2, LoadSuffices
  <2> QED BY <2>2, <2>3
<1> QED BY <1>1, <1>2

LEMMA FinishInv == ASSUME IInv, finish PROVE IInv'
<1> USE DEF Loading, LoadPC, Prepared, Oriented, TypesKnown, Weighed, Indexed, Returns
<1>1. /\ pc = "finish" /\ pc' = "idle" /\ result' = "loaded" /\ complete'
      /\ pi' = (pi \/ Progress) /\ UNCHANGED <<objectModel, sceneModel, partialview, args, chains>>
  BY DEF finish
<1>2. Versions' /\ Phases'
  BY <1>1 DEF IInv, Versions, Phases, objectModel, sceneModel
<1>3. Oriented /\ Sampled /\ SceneAnswers /\ (partialview => HasMesh /\ "viewcache" \in DOMAIN oDeco)
  BY <1>1 DEF IInv, Phases, Sampled, SceneAnswers
<1>4. Loaded'
  BY <1>1, <1>3 DEF Loaded, Sampled, SceneAnswers, Empty, HasMesh, objectModel, sceneModel
<1> QED BY <1>1, <1>2, <1>4 DEF IInv, Chains, NoQueryUnmet, PoseOfOneLoad, BestOfChains,
                                NoCrashOnceLoaded

LEMMA LoadInv ==
  ASSUME IInv, NEW o, NEW s, NEW a, load(o, s, a)
  PROVE  IInv'
<1>1. /\ pc' = "check" /\ ~complete' /\ oTotalWeight' = None /\ DOMAIN oDeco' = {}
      /\ Versions'
  BY ObjectFacts, SceneFacts DEF load, Goto, IInv, Versions
<1>2. Phases'
  BY <1>1 DEF Phases, Loading, LoadPC, Prepared, Oriented, TypesKnown, Weighed, Indexed
<1> QED BY <1>1, <1>2 DEF IInv, Loaded, Loading, LoadPC, Chains, NoQueryUnmet, PoseOfOneLoad,
                          BestOfChains, NoCrashOnceLoaded

(***************************************************************************)
(* The estimation                                                          *)
(***************************************************************************)
\* Outside load(), the models stay what they are.
LEMMA ModelsKept ==
  ASSUME IInv, ~Loading, pc' \notin LoadPC,
         UNCHANGED <<objectModel, sceneModel, partialview, pi, args, complete, switched>>
  PROVE  Versions' /\ Phases' /\ Loaded' /\ UNCHANGED <<Sampled, Evaluated>>
<1>1. Versions' /\ UNCHANGED <<Sampled, SceneAnswers, HasMesh, Empty, Evaluated>>
  BY DEF IInv, Versions, Sampled, SceneAnswers, HasMesh, Empty, Evaluated,
         objectModel, sceneModel
<1>2. Phases'
  BY DEF Phases, Loading, LoadPC, Prepared, Oriented, TypesKnown, Weighed, Indexed
<1>3. Loaded'
  BY <1>1 DEF IInv, Loaded, Loading, Oriented, objectModel
<1> QED BY <1>1, <1>2, <1>3

\* On the models of a load that has returned, nothing lacks unless the view has
\* been switched since.
LEMMA NothingLacks == ASSUME IInv, complete, ~switched PROVE Sampled /\ Evaluated
BY DEF IInv, Loaded, Evaluated

\* Nor does it to a score, which fails only for the type of the kernels.
LEMMA ScoreFacts ==
  ASSUME IInv, NEW r, NEW r0 \in {"pose", "score"}, r \in Scores(r0)
  PROVE  /\ r \in {r0, "missing", "badcast"}
         /\ r = "missing" => ~complete \/ switched
         /\ r = "badcast" =>
              ~complete \/ (partialview /\ (args.computeNormals => oKernelType /= R3))
         /\ r = r0 => ~(partialview /\ ~HasMesh)
<1>1. complete /\ ~switched => SceneAnswers /\ (partialview => HasMesh)
  BY NothingLacks DEF Evaluated
<1>2. complete => Oriented
  BY DEF IInv, Loaded
<1> QED BY <1>1, <1>2 DEF Scores, ViewCasts, Oriented

LEMMA CallsInv ==
  ASSUME IInv, \/ readThrows \/ usePartialViewEstimation \/ setCustomIntegrandFactor
               \/ modelToSceneTransformation \/ findMatchingScore \/ writeAlignedModel
  PROVE  IInv'
<1> USE DEF Goto, Returns, Loading, LoadPC
<1>1. CASE readThrows
  <2>1. Versions' /\ Phases' /\ Loaded'
    BY <1>1, ModelsKept DEF readThrows, settings, history
  <2> QED BY <1>1, <2>1 DEF readThrows, IInv, Chains, NoQueryUnmet, PoseOfOneLoad, BestOfChains,
                            NoCrashOnceLoaded
<1>2. CASE usePartialViewEstimation
  <2>1. /\ pc = "idle" /\ pc' = "idle" /\ partialview'
        /\ switched' = (switched \/ (complete /\ ~partialview))
        /\ UNCHANGED <<objectModel, sceneModel, pi, args, result, chains, complete>>
    BY <1>2 DEF usePartialViewEstimation
  <2>2. Versions' /\ UNCHANGED <<Sampled, SceneAnswers, HasMesh, Empty>>
    BY <2>1 DEF IInv, Versions, Sampled, SceneAnswers, HasMesh, Empty, objectModel, sceneModel
  <2>3. Phases'
    BY <2>1 DEF Phases, Prepared, Oriented, TypesKnown, Weighed, Indexed
  <2>4. Loaded'
    BY <2>1, <2>2 DEF IInv, Loaded, Oriented, objectModel
  <2> QED BY <2>1, <2>2, <2>3, <2>4
             DEF IInv, Chains, NoQueryUnmet, PoseOfOneLoad, BestOfChains, NoCrashOnceLoaded,
                 chains, objectModel
<1>3. CASE setCustomIntegrandFactor
  <2>1. Versions' /\ Phases' /\ Loaded'
    BY <1>3, ModelsKept DEF setCustomIntegrandFactor, history
  <2> QED BY <1>3, <2>1
             DEF setCustomIntegrandFactor, IInv, Chains, NoQueryUnmet, PoseOfOneLoad,
                 BestOfChains, NoCrashOnceLoaded, chains, history, objectModel
<1>4. CASE modelToSceneTransformation
  <2>1. /\ pc = "idle" /\ pc' = (IF Progress /\ ~pi THEN "crashed" ELSE "chains")
        /\ results' = {}
        /\ UNCHANGED <<objectModel, sceneModel, partialview, pi, args, complete, switched, result>>
    BY <1>4 DEF modelToSceneTransformation, settings, history
  <2>2. Versions' /\ Phases' /\ Loaded'
    BY <2>1, ModelsKept
  <2>3. pc' = "crashed" => ~complete
    BY <2>1 DEF IInv, Loaded
  <2> QED BY <2>1, <2>2, <2>3 DEF IInv, Chains, NoQueryUnmet, PoseOfOneLoad, BestOfChains,
                                  NoCrashOnceLoaded, objectModel
<1>5. CASE findMatchingScore
  <2>1. /\ pc = "idle" /\ pc' = "idle" /\ result' \in Scores("score")
        /\ UNCHANGED <<objectModel, sceneModel, partialview, pi, args, complete, switched, chains>>
    BY <1>5 DEF findMatchingScore, settings, history
  <2>2. Versions' /\ Phases' /\ Loaded'
    BY <2>1, ModelsKept
  <2>3. NoQueryUnmet'
    BY <2>1, ScoreFacts DEF NoQueryUnmet, objectModel
  <2>4. result' /= "pose"
    BY <2>1, ScoreFacts
  <2> QED BY <2>1, <2>2, <2>3, <2>4 DEF IInv, Chains, PoseOfOneLoad, BestOfChains, NoCrashOnceLoaded
<1>6. CASE writeAlignedModel
  <2>1. /\ pc = "idle" /\ pc' = "idle" /\ result' \in {"missing", "written"}
        /\ result' = "missing" => partialview /\ ~HasMesh
        /\ UNCHANGED <<objectModel, sceneModel, partialview, pi, args, complete, switched, chains>>
    BY <1>6 DEF writeAlignedModel, settings, history
  <2>2. Versions' /\ Phases' /\ Loaded'
    BY <2>1, ModelsKept
  <2>3. NoQueryUnmet'
    BY <2>1 DEF NoQueryUnmet, IInv, Loaded
  <2> QED BY <2>1, <2>2, <2>3 DEF IInv, Chains, PoseOfOneLoad, BestOfChains, NoCrashOnceLoaded
<1> QED BY <1>1, <1>2, <1>3, <1>4, <1>5, <1>6

LEMMA RunInv ==
  ASSUME IInv, RunStep \/ RunFails
  PROVE  IInv'
<1> USE DEF Goto, Returns, Loading, LoadPC
<1>1. ASSUME NEW i \in Run!Task, ChainReturns(i) PROVE IInv'
  <2>1. /\ pc = "chains" /\ Sampled
        /\ UNCHANGED <<objectModel, sceneModel, settings, args, pc, result, history>>
    BY <1>1 DEF ChainReturns
  <2>2. Versions' /\ Phases' /\ Loaded' /\ UNCHANGED Sampled
    BY <2>1, ModelsKept DEF settings, history
  <2> QED BY <2>1, <2>2 DEF IInv, Chains, NoQueryUnmet, PoseOfOneLoad, BestOfChains,
                            NoCrashOnceLoaded, history, settings, objectModel
<1>2. CASE ChainThrows
  <2>1. /\ pc = "chains" /\ (~Sampled \/ ~Evaluated) /\ pc' = "idle" /\ result' = "missing"
        /\ UNCHANGED <<objectModel, sceneModel, settings, args, history>>
    BY <1>2 DEF ChainThrows
  <2>2. Versions' /\ Phases' /\ Loaded'
    BY <2>1, ModelsKept DEF settings, history
  <2>3. NoQueryUnmet'
    BY <1>2, <2>1, NothingLacks DEF NoQueryUnmet, ChainThrows, history
  <2> QED BY <2>1, <2>2, <2>3 DEF IInv, Chains, PoseOfOneLoad, BestOfChains, NoCrashOnceLoaded
<1>3. CASE RunFails
  <2>1. /\ pc = "chains" /\ pc' = "idle" /\ result' = "error"
        /\ UNCHANGED <<objectModel, sceneModel, settings, args, history>>
    BY <1>3 DEF RunFails
  <2>2. Versions' /\ Phases' /\ Loaded'
    BY <2>1, ModelsKept DEF settings, history
  <2> QED BY <2>1, <2>2 DEF IInv, Chains, NoQueryUnmet, PoseOfOneLoad, BestOfChains,
                            NoCrashOnceLoaded
<1>4. CASE RunReturns
  <2>1. /\ pc = "chains" /\ pc' = "score" /\ results = Run!Task /\ results' = results
        /\ pose' \in Best(weight) /\ weight' = weight
        /\ UNCHANGED <<objectModel, sceneModel, settings, args, result, history>>
    BY <1>4 DEF RunReturns, Run!Return
  <2>2. Versions' /\ Phases' /\ Loaded' /\ UNCHANGED Sampled
    BY <2>1, ModelsKept DEF settings, history
  <2>3. 0 \in Run!Task
    BY DEF Run!Task
  <2>4. Sampled
    BY <2>1, <2>3 DEF IInv, Chains
  <2>5. Chains'
    BY <2>1, <2>2, <2>4 DEF Chains
  <2> QED BY <2>1, <2>2, <2>5 DEF IInv, NoQueryUnmet, PoseOfOneLoad, BestOfChains,
                                  NoCrashOnceLoaded, history, settings, objectModel
<1>5. CASE Score
  <2>1. /\ pc = "score" /\ pc' = "idle" /\ result' \in Scores("pose")
        /\ UNCHANGED <<objectModel, sceneModel, settings, args, chains, history>>
    BY <1>5 DEF Score
  <2>2. Versions' /\ Phases' /\ Loaded'
    BY <2>1, ModelsKept DEF settings, history
  <2>3. NoQueryUnmet'
    BY <2>1, ScoreFacts DEF NoQueryUnmet, settings, history, objectModel
  <2>4. result' = "pose" => complete
    BY <2>1, ScoreFacts DEF IInv, Loaded, Chains, Sampled
  <2>5. PoseOfOneLoad'
    BY <2>1, <2>4 DEF PoseOfOneLoad, history
  <2>6. BestOfChains'
    BY <2>1 DEF IInv, Chains, BestOfChains, chains
  <2> QED BY <2>1, <2>2, <2>3, <2>5, <2>6 DEF IInv, Chains, NoCrashOnceLoaded
<1> QED BY <1>1, <1>2, <1>3, <1>4, <1>5 DEF RunStep

LEMMA NextInv == IInv /\ [Next]_vars => IInv'
<1> SUFFICES ASSUME IInv, [Next]_vars PROVE IInv'
  OBVIOUS
<1>1. ASSUME NEW o, NEW s, NEW a, load(o, s, a) PROVE IInv'
  BY <1>1, LoadInv
<1>2. CASE LoadStep
  BY <1>2, FrontInv, NormalsInv, StatisticsInv, MeshInv, FinishInv DEF LoadStep
<1>3. CASE \/ readThrows \/ usePartialViewEstimation \/ setCustomIntegrandFactor
           \/ modelToSceneTransformation \/ findMatchingScore \/ writeAlignedModel
  BY <1>3, CallsInv
<1>4. CASE RunStep \/ RunFails
  BY <1>4, RunInv
<1>5. CASE UNCHANGED vars
  <2>1. /\ UNCHANGED <<objectModel, sceneModel, partialview, args, pi, pc, result>>
        /\ UNCHANGED <<complete, switched>>
        /\ UNCHANGED <<results, weight, pose>>
    BY <1>5 DEF vars, settings, history, chains
  <2>2. UNCHANGED <<Sampled, SceneAnswers, HasMesh, Empty, Oriented>>
    BY <2>1 DEF Sampled, SceneAnswers, HasMesh, Empty, Oriented, objectModel, sceneModel
  <2> QED BY <2>1, <2>2
             DEF IInv, Versions, Phases, Loaded, Chains, Loading, NoQueryUnmet, PoseOfOneLoad,
                 BestOfChains, NoCrashOnceLoaded, objectModel, sceneModel
<1> QED BY <1>1, <1>2, <1>3, <1>4, <1>5 DEF Next

THEOREM Invariance == Spec => []IInv
BY InitInv, NextInv, PTL DEF Spec

\* After a load() that returned, no query of an estimation, a score or an
\* export ever lacks a weight, a tree, a mesh or a view.
THEOREM QueriesAreMet == Spec => []NoQueryUnmet
<1>1. IInv => NoQueryUnmet
  BY DEF IInv
<1> QED BY <1>1, Invariance, PTL

\* A pose is only returned for models that one load() has prepared to its end.
THEOREM PosesAreOfOneLoad == Spec => []PoseOfOneLoad
<1>1. IInv => PoseOfOneLoad
  BY DEF IInv
<1> QED BY <1>1, Invariance, PTL

\* The pose returned is the best of those of all the chains of the call.
THEOREM PoseIsBest == Spec => []BestOfChains
<1>1. IInv => BestOfChains
  BY DEF IInv
<1> QED BY <1>1, Invariance, PTL

\* Once a load() has returned, no null pointer or empty cloud is dereferenced.
THEOREM NoCrash == Spec => []NoCrashOnceLoaded
<1>1. IInv => NoCrashOnceLoaded
  BY DEF IInv
<1> QED BY <1>1, Invariance, PTL

(***************************************************************************)
(* What the operations of a collection leave of its results: the same      *)
(* lemmas for the two instances                                            *)
(***************************************************************************)
\* Object: its type, and every result it holds is of its present kernels.
ObjectOK == Object!TypeOK /\ \A k \in Object!Present : Object!Fresh(k)

LEMMA ObjectCleared ==
  ASSUME Object!invalidateHelperStructures, Object!ContentsOK', oReference' \in BOOLEAN
  PROVE  ObjectOK'
<1>1. /\ oTotalWeight' = None /\ oMaxLocCutPoint' = None
      /\ DOMAIN oDeco' = {} /\ oLate' = {}
  BY DEF Object!invalidateHelperStructures, Object!NoDeco
<1>2. Object!Present' = {}
  BY <1>1 DEF Object!Present, Object!Statistic
<1>3. Object!ResultsOK'
  BY <1>1 DEF Object!ResultsOK
<1> QED BY <1>2, <1>3 DEF ObjectOK, Object!TypeOK

LEMMA ObjectModified ==
  ASSUME Object!ContentsOK, NEW A \in SUBSET Object!Aspect, Object!Modify(A)
  PROVE  /\ oVersion' \in [Object!Aspect -> Object!Version]
         /\ \A a \in Object!Aspect \ A : oVersion'[a] = oVersion[a]
<1> USE DEF Object!Version
<1>1. \A a \in Object!Aspect : oVersion[a] + (IF a \in A THEN 1 ELSE 0) \in 0 .. MaxVersion
  BY DEF Object!ContentsOK, Object!Modify
<1> QED BY <1>1 DEF Object!ContentsOK, Object!Modify

\* A cloud is assigned, or the kernels computeSurfaceNormals() has kept.
LEMMA ObjectAssigned ==
  ASSUME Object!ContentsOK, NEW t \in Type, NEW n \in 0 .. MaxSize,
         Object!Assign(Object!Repeat(t, n))
  PROVE  ObjectOK'
<1> DEFINE ts == Object!Repeat(t, n)
<1>1. ts \in Seq(Type) /\ Len(ts) = n /\ DOMAIN ts = 1 .. n /\ \A i \in 1 .. n : ts[i] = t
  BY DEF Object!Repeat
<1>2. ts = << >> \/ ts[1] \in Type
  BY <1>1
<1>3. /\ oKernels' = ts /\ oKernelType' = IF ts = << >> THEN None ELSE ts[1]
      /\ oTorn' = FALSE /\ oReference' = FALSE /\ Object!invalidateHelperStructures
  BY DEF Object!Assign
<1>4. oVersion' \in [Object!Aspect -> Object!Version]
  BY ObjectModified DEF Object!Assign
<1> HIDE DEF ts
<1>5. Object!ContentsOK'
  <2>1. oKernelType' \in Type \union {None}
    BY <1>2, <1>3
  <2>2. oTorn' \in BOOLEAN
    BY <1>3
  <2>3. ts \in Seq(Type) /\ Len(ts) <= MaxSize
    BY <1>1
  <2> QED BY <1>3, <1>4, <2>1, <2>2, <2>3 DEF Object!ContentsOK
<1> QED BY <1>3, <1>5, ObjectCleared

LEMMA ObjectAccessed ==
  ASSUME ObjectOK, Object!Access
  PROVE  ObjectOK'
<1>1. Object!ContentsOK' /\ oReference' \in BOOLEAN
  BY DEF ObjectOK, Object!TypeOK, Object!ContentsOK, Object!Access, Object!contents
<1> QED BY <1>1, ObjectCleared DEF Object!Access

\* A decoration computed from the present places or from a mesh file.
LEMMA ObjectDecorated ==
  ASSUME ObjectOK, NEW f, Object!Decorate(f),
         DOMAIN f \subseteq Object!Key,
         \A k \in DOMAIN f : /\ k \in {"hull", "kdtree", "nstree"} => f[k] = oVersion["place"]
                             /\ k \in {"mesh", "aabbtree"} =>
                                  f[k] \in MeshFile \union {oVersion["place"]}
                             /\ k = "viewcache" =>
                                  /\ f[k] \in [place : Object!Version, mesh : Object!MeshSource]
                                  /\ f[k].place = oVersion["place"]
  PROVE  ObjectOK'
<1> USE DEF Object!Key
<1>1. /\ DOMAIN oDeco' = DOMAIN oDeco \union DOMAIN f
      /\ \A k \in DOMAIN oDeco' : oDeco'[k] = IF k \in DOMAIN f THEN f[k] ELSE oDeco[k]
      /\ oLate' \subseteq oLate
      /\ UNCHANGED <<oKernels, oKernelType, oVersion, oTorn, oTotalWeight, oMaxLocCutPoint,
                     oReference>>
  BY DEF Object!Decorate, Object!contents, Object!statistics
<1>2. oVersion["place"] \in Object!Version
  BY DEF ObjectOK, Object!TypeOK, Object!ContentsOK, Object!Aspect
<1>3. Object!ContentsOK' /\ oReference' \in BOOLEAN
  BY <1>1 DEF ObjectOK, Object!TypeOK, Object!ContentsOK
<1>4. Object!ResultsOK
  BY DEF ObjectOK, Object!TypeOK
<1>5. /\ DOMAIN oDeco' \subseteq Object!Key
      /\ oTotalWeight' \in Object!Version \union {Object!NotTheSum, None}
      /\ oMaxLocCutPoint' \in Object!Version \union {None}
      /\ oLate' \subseteq Object!Key \union Object!Statistic
  BY <1>1, <1>4 DEF Object!ResultsOK
<1>6. ASSUME NEW k \in DOMAIN oDeco'
      PROVE  /\ k \in {"hull", "kdtree", "nstree"} => oDeco'[k] \in Object!Version
             /\ k \in {"mesh", "aabbtree"} => oDeco'[k] \in Object!MeshSource
             /\ k = "viewcache" => oDeco'[k] \in [place : Object!Version, mesh : Object!MeshSource]
  <2>1. CASE k \in DOMAIN f
    BY <1>1, <1>2, <2>1 DEF Object!MeshSource
  <2>2. CASE k \notin DOMAIN f
    BY <1>1, <1>4, <2>2 DEF Object!ResultsOK
  <2> QED BY <2>1, <2>2
<1>7. Object!ResultsOK'
  BY <1>5, <1>6 DEF Object!ResultsOK
<1>8. ASSUME NEW k \in Object!Present' PROVE Object!Fresh(k)'
  <2>1. k \in DOMAIN f \/ k \in Object!Present
    BY <1>1 DEF Object!Present, Object!Statistic
  <2>2. CASE k \in DOMAIN f
    <3>1. oDeco'[k] = f[k]
      BY <1>1, <2>2
    <3> QED BY <1>1, <2>2, <3>1 DEF Object!Fresh
  <2>3. CASE k \in Object!Present /\ k \notin DOMAIN f
    <3>1. Object!Fresh(k)
      BY <2>3 DEF ObjectOK
    <3>2. k \in Object!Statistic \/ oDeco'[k] = oDeco[k]
      BY <1>1, <2>3 DEF Object!Present
    <3> QED BY <1>1, <3>1, <3>2 DEF Object!Fresh, Object!Statistic
  <2> QED BY <2>1, <2>2, <2>3
<1> QED BY <1>3, <1>7, <1>8 DEF ObjectOK, Object!TypeOK

\* The statistics are set, and perhaps the widths with them.
LEMMA ObjectMeasured ==
  ASSUME ObjectOK, Object!computeKernelStatistics \/ Object!setKernelLocH
  PROVE  ObjectOK'
<1>1. /\ oVersion["weight"] \in Object!Version /\ oVersion["width"] \in Object!Version
      /\ Object!ContentsOK /\ Object!ResultsOK /\ oReference \in BOOLEAN
  BY DEF ObjectOK, Object!TypeOK, Object!ContentsOK, Object!Aspect
<1>2. /\ UNCHANGED <<oKernels, oKernelType, oTorn, oDeco, oReference>>
      /\ oVersion' \in [Object!Aspect -> Object!Version]
      /\ oVersion'["place"] = oVersion["place"] /\ oVersion'["weight"] = oVersion["weight"]
      /\ oTotalWeight' \in {oTotalWeight, oVersion["weight"]}
      /\ oMaxLocCutPoint' = oVersion'["width"]
           \/ UNCHANGED <<oVersion, oMaxLocCutPoint>>
      /\ oLate' \subseteq oLate
  <2>1. CASE Object!computeKernelStatistics
    BY <1>1, <2>1 DEF Object!computeKernelStatistics, Object!contents, Object!ContentsOK
  <2>2. CASE Object!setKernelLocH /\ oKernels = << >>
    BY <1>1, <2>2 DEF Object!setKernelLocH, Object!ContentsOK
  <2>3. CASE Object!setKernelLocH /\ oKernels /= << >>
    <3>1. Object!Modify({"width"}) /\ {"width"} \in SUBSET Object!Aspect
      BY <2>3 DEF Object!setKernelLocH, Object!Aspect
    <3>2. /\ oVersion' \in [Object!Aspect -> Object!Version]
          /\ \A a \in Object!Aspect \ {"width"} : oVersion'[a] = oVersion[a]
      BY <1>1, <3>1, ObjectModified
    <3> QED BY <2>3, <3>2 DEF Object!setKernelLocH, Object!Aspect
  <2> QED BY <2>1, <2>2, <2>3
<1>3. oMaxLocCutPoint' \in Object!Version \union {None}
  BY <1>1, <1>2 DEF Object!ResultsOK, Object!Aspect
<1>4. Object!ContentsOK' /\ Object!ResultsOK'
  BY <1>1, <1>2, <1>3 DEF Object!ContentsOK, Object!ResultsOK
<1>5. ASSUME NEW k \in Object!Present' PROVE Object!Fresh(k)'
  <2>1. CASE k \in DOMAIN oDeco
    <3>1. Object!Fresh(k) /\ k \notin Object!Statistic
      BY <1>1, <2>1 DEF ObjectOK, Object!Present, Object!ResultsOK, Object!Key, Object!Statistic
    <3> QED BY <1>2, <3>1 DEF Object!Fresh, Object!Statistic
  <2>2. CASE k = "totalWeight"
    <3>1. oTotalWeight' /= None
      BY <1>1, <1>2, <2>2 DEF Object!Present, Object!ResultsOK, Object!Key
    <3>2. oTotalWeight' = oTotalWeight => Object!Fresh(k)
      BY <2>2, <3>1 DEF ObjectOK, Object!Present, Object!Statistic
    <3> QED BY <1>2, <2>2, <3>2 DEF Object!Fresh
  <2>3. CASE k = "maxLocCutPoint"
    <3>1. oMaxLocCutPoint' /= None
      BY <1>1, <1>2, <2>3 DEF Object!Present, Object!ResultsOK, Object!Key
    <3>2. oMaxLocCutPoint' = oMaxLocCutPoint => Object!Fresh(k)
      BY <2>3, <3>1 DEF ObjectOK, Object!Present, Object!Statistic
    <3> QED BY <1>2, <2>3, <3>2 DEF Object!Fresh
  <2> QED BY <1>2, <2>1, <2>2, <2>3 DEF Object!Present, Object!Statistic
<1> QED BY <1>1, <1>2, <1>4, <1>5 DEF ObjectOK, Object!TypeOK

\* The same of the scene.
SceneOK == Scene!TypeOK /\ \A k \in Scene!Present : Scene!Fresh(k)

LEMMA SceneCleared ==
  ASSUME Scene!invalidateHelperStructures, Scene!ContentsOK', sReference' \in BOOLEAN
  PROVE  SceneOK'
<1>1. /\ sTotalWeight' = None /\ sMaxLocCutPoint' = None
      /\ DOMAIN sDeco' = {} /\ sLate' = {}
  BY DEF Scene!invalidateHelperStructures, Scene!NoDeco
<1>2. Scene!Present' = {}
  BY <1>1 DEF Scene!Present, Scene!Statistic
<1>3. Scene!ResultsOK'
  BY <1>1 DEF Scene!ResultsOK
<1> QED BY <1>2, <1>3 DEF SceneOK, Scene!TypeOK

LEMMA SceneModified ==
  ASSUME Scene!ContentsOK, NEW A \in SUBSET Scene!Aspect, Scene!Modify(A)
  PROVE  /\ sVersion' \in [Scene!Aspect -> Scene!Version]
         /\ \A a \in Scene!Aspect \ A : sVersion'[a] = sVersion[a]
<1> USE DEF Scene!Version
<1>1. \A a \in Scene!Aspect : sVersion[a] + (IF a \in A THEN 1 ELSE 0) \in 0 .. MaxVersion
  BY DEF Scene!ContentsOK, Scene!Modify
<1> QED BY <1>1 DEF Scene!ContentsOK, Scene!Modify

\* A cloud is assigned, or the kernels computeSurfaceNormals() has kept.
LEMMA SceneAssigned ==
  ASSUME Scene!ContentsOK, NEW t \in Type, NEW n \in 0 .. MaxSize,
         Scene!Assign(Scene!Repeat(t, n))
  PROVE  SceneOK'
<1> DEFINE ts == Scene!Repeat(t, n)
<1>1. ts \in Seq(Type) /\ Len(ts) = n /\ DOMAIN ts = 1 .. n /\ \A i \in 1 .. n : ts[i] = t
  BY DEF Scene!Repeat
<1>2. ts = << >> \/ ts[1] \in Type
  BY <1>1
<1>3. /\ sKernels' = ts /\ sKernelType' = IF ts = << >> THEN None ELSE ts[1]
      /\ sTorn' = FALSE /\ sReference' = FALSE /\ Scene!invalidateHelperStructures
  BY DEF Scene!Assign
<1>4. sVersion' \in [Scene!Aspect -> Scene!Version]
  BY SceneModified DEF Scene!Assign
<1> HIDE DEF ts
<1>5. Scene!ContentsOK'
  <2>1. sKernelType' \in Type \union {None}
    BY <1>2, <1>3
  <2>2. sTorn' \in BOOLEAN
    BY <1>3
  <2>3. ts \in Seq(Type) /\ Len(ts) <= MaxSize
    BY <1>1
  <2> QED BY <1>3, <1>4, <2>1, <2>2, <2>3 DEF Scene!ContentsOK
<1> QED BY <1>3, <1>5, SceneCleared

LEMMA SceneAccessed ==
  ASSUME SceneOK, Scene!Access
  PROVE  SceneOK'
<1>1. Scene!ContentsOK' /\ sReference' \in BOOLEAN
  BY DEF SceneOK, Scene!TypeOK, Scene!ContentsOK, Scene!Access, Scene!contents
<1> QED BY <1>1, SceneCleared DEF Scene!Access

\* A decoration computed from the present places or from a mesh file.
LEMMA SceneDecorated ==
  ASSUME SceneOK, NEW f, Scene!Decorate(f),
         DOMAIN f \subseteq Scene!Key,
         \A k \in DOMAIN f : /\ k \in {"hull", "kdtree", "nstree"} => f[k] = sVersion["place"]
                             /\ k \in {"mesh", "aabbtree"} =>
                                  f[k] \in MeshFile \union {sVersion["place"]}
                             /\ k = "viewcache" =>
                                  /\ f[k] \in [place : Scene!Version, mesh : Scene!MeshSource]
                                  /\ f[k].place = sVersion["place"]
  PROVE  SceneOK'
<1> USE DEF Scene!Key
<1>1. /\ DOMAIN sDeco' = DOMAIN sDeco \union DOMAIN f
      /\ \A k \in DOMAIN sDeco' : sDeco'[k] = IF k \in DOMAIN f THEN f[k] ELSE sDeco[k]
      /\ sLate' \subseteq sLate
      /\ UNCHANGED <<sKernels, sKernelType, sVersion, sTorn, sTotalWeight, sMaxLocCutPoint,
                     sReference>>
  BY DEF Scene!Decorate, Scene!contents, Scene!statistics
<1>2. sVersion["place"] \in Scene!Version
  BY DEF SceneOK, Scene!TypeOK, Scene!ContentsOK, Scene!Aspect
<1>3. Scene!ContentsOK' /\ sReference' \in BOOLEAN
  BY <1>1 DEF SceneOK, Scene!TypeOK, Scene!ContentsOK
<1>4. Scene!ResultsOK
  BY DEF SceneOK, Scene!TypeOK
<1>5. /\ DOMAIN sDeco' \subseteq Scene!Key
      /\ sTotalWeight' \in Scene!Version \union {Scene!NotTheSum, None}
      /\ sMaxLocCutPoint' \in Scene!Version \union {None}
      /\ sLate' \subseteq Scene!Key \union Scene!Statistic
  BY <1>1, <1>4 DEF Scene!ResultsOK
<1>6. ASSUME NEW k \in DOMAIN sDeco'
      PROVE  /\ k \in {"hull", "kdtree", "nstree"} => sDeco'[k] \in Scene!Version
             /\ k \in {"mesh", "aabbtree"} => sDeco'[k] \in Scene!MeshSource
             /\ k = "viewcache" => sDeco'[k] \in [place : Scene!Version, mesh : Scene!MeshSource]
  <2>1. CASE k \in DOMAIN f
    BY <1>1, <1>2, <2>1 DEF Scene!MeshSource
  <2>2. CASE k \notin DOMAIN f
    BY <1>1, <1>4, <2>2 DEF Scene!ResultsOK
  <2> QED BY <2>1, <2>2
<1>7. Scene!ResultsOK'
  BY <1>5, <1>6 DEF Scene!ResultsOK
<1>8. ASSUME NEW k \in Scene!Present' PROVE Scene!Fresh(k)'
  <2>1. k \in DOMAIN f \/ k \in Scene!Present
    BY <1>1 DEF Scene!Present, Scene!Statistic
  <2>2. CASE k \in DOMAIN f
    <3>1. sDeco'[k] = f[k]
      BY <1>1, <2>2
    <3> QED BY <1>1, <2>2, <3>1 DEF Scene!Fresh
  <2>3. CASE k \in Scene!Present /\ k \notin DOMAIN f
    <3>1. Scene!Fresh(k)
      BY <2>3 DEF SceneOK
    <3>2. k \in Scene!Statistic \/ sDeco'[k] = sDeco[k]
      BY <1>1, <2>3 DEF Scene!Present
    <3> QED BY <1>1, <3>1, <3>2 DEF Scene!Fresh, Scene!Statistic
  <2> QED BY <2>1, <2>2, <2>3
<1> QED BY <1>3, <1>7, <1>8 DEF SceneOK, Scene!TypeOK

\* The statistics are set, and perhaps the widths with them.
LEMMA SceneMeasured ==
  ASSUME SceneOK, Scene!computeKernelStatistics \/ Scene!setKernelLocH
  PROVE  SceneOK'
<1>1. /\ sVersion["weight"] \in Scene!Version /\ sVersion["width"] \in Scene!Version
      /\ Scene!ContentsOK /\ Scene!ResultsOK /\ sReference \in BOOLEAN
  BY DEF SceneOK, Scene!TypeOK, Scene!ContentsOK, Scene!Aspect
<1>2. /\ UNCHANGED <<sKernels, sKernelType, sTorn, sDeco, sReference>>
      /\ sVersion' \in [Scene!Aspect -> Scene!Version]
      /\ sVersion'["place"] = sVersion["place"] /\ sVersion'["weight"] = sVersion["weight"]
      /\ sTotalWeight' \in {sTotalWeight, sVersion["weight"]}
      /\ sMaxLocCutPoint' = sVersion'["width"]
           \/ UNCHANGED <<sVersion, sMaxLocCutPoint>>
      /\ sLate' \subseteq sLate
  <2>1. CASE Scene!computeKernelStatistics
    BY <1>1, <2>1 DEF Scene!computeKernelStatistics, Scene!contents, Scene!ContentsOK
  <2>2. CASE Scene!setKernelLocH /\ sKernels = << >>
    BY <1>1, <2>2 DEF Scene!setKernelLocH, Scene!ContentsOK
  <2>3. CASE Scene!setKernelLocH /\ sKernels /= << >>
    <3>1. Scene!Modify({"width"}) /\ {"width"} \in SUBSET Scene!Aspect
      BY <2>3 DEF Scene!setKernelLocH, Scene!Aspect
    <3>2. /\ sVersion' \in [Scene!Aspect -> Scene!Version]
          /\ \A a \in Scene!Aspect \ {"width"} : sVersion'[a] = sVersion[a]
      BY <1>1, <3>1, SceneModified
    <3> QED BY <2>3, <3>2 DEF Scene!setKernelLocH, Scene!Aspect
  <2> QED BY <2>1, <2>2, <2>3
<1>3. sMaxLocCutPoint' \in Scene!Version \union {None}
  BY <1>1, <1>2 DEF Scene!ResultsOK, Scene!Aspect
<1>4. Scene!ContentsOK' /\ Scene!ResultsOK'
  BY <1>1, <1>2, <1>3 DEF Scene!ContentsOK, Scene!ResultsOK
<1>5. ASSUME NEW k \in Scene!Present' PROVE Scene!Fresh(k)'
  <2>1. CASE k \in DOMAIN sDeco
    <3>1. Scene!Fresh(k) /\ k \notin Scene!Statistic
      BY <1>1, <2>1 DEF SceneOK, Scene!Present, Scene!ResultsOK, Scene!Key, Scene!Statistic
    <3> QED BY <1>2, <3>1 DEF Scene!Fresh, Scene!Statistic
  <2>2. CASE k = "totalWeight"
    <3>1. sTotalWeight' /= None
      BY <1>1, <1>2, <2>2 DEF Scene!Present, Scene!ResultsOK, Scene!Key
    <3>2. sTotalWeight' = sTotalWeight => Scene!Fresh(k)
      BY <2>2, <3>1 DEF SceneOK, Scene!Present, Scene!Statistic
    <3> QED BY <1>2, <2>2, <3>2 DEF Scene!Fresh
  <2>3. CASE k = "maxLocCutPoint"
    <3>1. sMaxLocCutPoint' /= None
      BY <1>1, <1>2, <2>3 DEF Scene!Present, Scene!ResultsOK, Scene!Key
    <3>2. sMaxLocCutPoint' = sMaxLocCutPoint => Scene!Fresh(k)
      BY <2>3, <3>1 DEF SceneOK, Scene!Present, Scene!Statistic
    <3> QED BY <1>2, <2>3, <3>2 DEF Scene!Fresh
  <2> QED BY <1>2, <2>1, <2>2, <2>3 DEF Scene!Present, Scene!Statistic
<1> QED BY <1>1, <1>2, <1>4, <1>5 DEF SceneOK, Scene!TypeOK

(***************************************************************************)
(* Types, and the freshness of what the models hold                        *)
(***************************************************************************)
ChainsOK == /\ Run!TypeOK
            /\ weight \in [Run!Task -> Weight] /\ pose \in Run!Task
CallsOK == /\ {partialview, cif, pi, complete, switched} \subseteq BOOLEAN
           /\ args \in [light : BOOLEAN, computeNormals : BOOLEAN]
           /\ pc \in LoadPC \union {"idle", "chains", "score", "crashed"}
           /\ result \in {"none", "loaded", "error", "missing", "badcast", "pose", "score", "written"}
           /\ loads \in 0 .. MaxLoads
\* A scene that is to be reduced is large enough, and its type is known.
Reducible == /\ sKernels /= << >> => sKernelType \in Type
             /\ pc \in {"light", "sample"} => Len(sKernels) > LightMax

TInv == ObjectOK /\ SceneOK /\ Reducible /\ ChainsOK /\ CallsOK

LEMMA InitTypes == Init => TInv
<1> SUFFICES ASSUME Init PROVE TInv
  OBVIOUS
<1> USE DEF Init
<1>1. ObjectOK
  <2>1. /\ oKernels = << >> /\ oVersion = [a \in Object!Aspect |-> 0]
        /\ oTotalWeight = None /\ oMaxLocCutPoint = None /\ DOMAIN oDeco = {} /\ oLate = {}
        /\ oKernelType = None /\ oTorn = FALSE /\ oReference = FALSE
    BY DEF Object!Init, Object!NoDeco
  <2>2. oVersion \in [Object!Aspect -> Object!Version]
    <3>1. 0 \in Object!Version
      BY DEF Object!Version
    <3> QED BY <2>1, <3>1
  <2>3. Object!ContentsOK
    <3>1. << >> \in Seq(Type) /\ Len(<< >>) = 0 /\ 0 <= MaxSize
      OBVIOUS
    <3> QED BY <2>1, <2>2, <3>1 DEF Object!ContentsOK
  <2>4. Object!ResultsOK
    BY <2>1 DEF Object!ResultsOK
  <2>5. Object!Present = {}
    BY <2>1 DEF Object!Present, Object!Statistic
  <2> QED BY <2>1, <2>3, <2>4, <2>5 DEF ObjectOK, Object!TypeOK
<1>2. SceneOK /\ sKernels = << >>
  <2>1. /\ sKernels = << >> /\ sVersion = [a \in Scene!Aspect |-> 0]
        /\ sTotalWeight = None /\ sMaxLocCutPoint = None /\ DOMAIN sDeco = {} /\ sLate = {}
        /\ sKernelType = None /\ sTorn = FALSE /\ sReference = FALSE
    BY DEF Scene!Init, Scene!NoDeco
  <2>2. sVersion \in [Scene!Aspect -> Scene!Version]
    <3>1. 0 \in Scene!Version
      BY DEF Scene!Version
    <3> QED BY <2>1, <3>1
  <2>3. Scene!ContentsOK
    <3>1. << >> \in Seq(Type) /\ Len(<< >>) = 0 /\ 0 <= MaxSize
      OBVIOUS
    <3> QED BY <2>1, <2>2, <3>1 DEF Scene!ContentsOK
  <2>4. Scene!ResultsOK
    BY <2>1 DEF Scene!ResultsOK
  <2>5. Scene!Present = {}
    BY <2>1 DEF Scene!Present, Scene!Statistic
  <2> QED BY <2>1, <2>3, <2>4, <2>5 DEF SceneOK, Scene!TypeOK
<1>3. ChainsOK
  BY DEF ChainsOK, Run!Init, Run!TypeOK, Run!Outcome, Run!Task
<1>4. CallsOK
  <2>1. args \in [light : BOOLEAN, computeNormals : BOOLEAN]
    OBVIOUS
  <2>2. /\ partialview \in BOOLEAN /\ cif \in BOOLEAN /\ pi \in BOOLEAN
        /\ complete \in BOOLEAN /\ switched \in BOOLEAN
    OBVIOUS
  <2>3. pc = "idle" /\ result = "none" /\ loads \in 0 .. MaxLoads
    OBVIOUS
  <2> QED BY <2>1, <2>2, <2>3 DEF CallsOK
<1> QED BY <1>1, <1>2, <1>3, <1>4 DEF TInv, Reducible

\* Every step leaves the two models as they are or calls their methods.
LEMMA ObjectStep ==
  ASSUME TInv, [Next]_vars
  PROVE  ObjectOK'
<1>0. ObjectOK /\ Object!ContentsOK
  BY DEF TInv, ObjectOK, Object!TypeOK
<1>1. ASSUME NEW o \in Cloud(ObjectSizes), Object!Assign(o) PROVE ObjectOK'
  <2>1. PICK t \in Type, n \in ObjectSizes : o = Object!Repeat(t, n)
    BY <1>1 DEF Cloud
  <2>2. n \in 0 .. MaxSize
    OBVIOUS
  <2> QED BY <1>0, <1>1, <2>1, <2>2, ObjectAssigned
<1>2. ASSUME Object!computeSurfaceNormals PROVE ObjectOK'
  <2>1. PICK n \in 0 .. Len(oKernels) : Object!Assign(Object!Repeat(OrientedType, n))
    BY <1>2 DEF Object!computeSurfaceNormals
  <2>2. n \in 0 .. MaxSize
    BY <1>0 DEF Object!ContentsOK
  <2> QED BY <1>0, <2>1, <2>2, ObjectAssigned
<1>3. ASSUME Object!buildNeighborSearchTree PROVE ObjectOK'
  <2> DEFINE f == [k \in {"nstree"} |-> oVersion["place"]]
  <2>1. DOMAIN f = {"nstree"} /\ f["nstree"] = oVersion["place"] /\ Object!Decorate(f)
    BY <1>3 DEF Object!buildNeighborSearchTree
  <2> HIDE DEF f
  <2> QED BY <1>0, <2>1, ObjectDecorated DEF Object!Key
<1>4. ASSUME Object!buildMesh \/ Object!readMeshFromOffFile PROVE ObjectOK'
  <2>1. PICK m \in MeshFile \union {oVersion["place"]} :
          Object!Decorate([k \in {"mesh", "aabbtree"} |-> m])
    BY <1>4 DEF Object!buildMesh, Object!readMeshFromOffFile
  <2> DEFINE f == [k \in {"mesh", "aabbtree"} |-> m]
  <2>2. /\ DOMAIN f = {"mesh", "aabbtree"} /\ \A k \in DOMAIN f : f[k] = m
        /\ Object!Decorate(f)
    BY <2>1
  <2> HIDE DEF f
  <2> QED BY <1>0, <2>2, ObjectDecorated DEF Object!Key
<1>5. ASSUME Object!buildPartialViewCache PROVE ObjectOK'
  <2> DEFINE views == [place |-> oVersion["place"], mesh |-> oDeco["mesh"]]
             f == [k \in {"viewcache"} |-> views]
  <2>1. oVersion["place"] \in Object!Version /\ oDeco["mesh"] \in Object!MeshSource
    BY <1>0, <1>5 DEF Object!buildPartialViewCache, ObjectOK, Object!TypeOK,
                      Object!ContentsOK, Object!ResultsOK, Object!Aspect
  <2>2. /\ views \in [place : Object!Version, mesh : Object!MeshSource]
        /\ views.place = oVersion["place"]
    BY <2>1
  <2>3. DOMAIN f = {"viewcache"} /\ f["viewcache"] = views /\ Object!Decorate(f)
    BY <1>5 DEF Object!buildPartialViewCache
  <2> HIDE DEF f, views
  <2> QED BY <1>0, <2>2, <2>3, ObjectDecorated DEF Object!Key
<1>6. ASSUME UNCHANGED objectModel PROVE ObjectOK'
  BY <1>0, <1>6 DEF objectModel, ObjectOK, Object!TypeOK, Object!ContentsOK, Object!ResultsOK,
                    Object!Present, Object!Fresh
<1>7. \/ \E o \in Cloud(ObjectSizes) : Object!Assign(o)
      \/ Object!Access \/ Object!computeSurfaceNormals
      \/ Object!computeKernelStatistics \/ Object!setKernelLocH
      \/ Object!buildNeighborSearchTree \/ Object!buildMesh \/ Object!readMeshFromOffFile
      \/ Object!buildPartialViewCache \/ UNCHANGED objectModel
  <2>1. CASE \E o \in Cloud(ObjectSizes), s \in Cloud(SceneSizes),
                a \in [light : BOOLEAN, computeNormals : BOOLEAN] : load(o, s, a)
    BY <2>1 DEF load
  <2>2. CASE LoadStep
    BY <2>2 DEF LoadStep, check, objectFront, objectTree, objectNormals, sceneFront, sceneTree,
                sceneNormals, domains, light, sample, widths, statistics, tree, mesh, cache, finish
  <2>3. CASE \/ readThrows \/ usePartialViewEstimation \/ setCustomIntegrandFactor
             \/ modelToSceneTransformation \/ findMatchingScore \/ writeAlignedModel
    BY <2>3 DEF readThrows, usePartialViewEstimation, setCustomIntegrandFactor,
                modelToSceneTransformation, findMatchingScore, writeAlignedModel
  <2>4. CASE RunStep \/ RunFails
    BY <2>4 DEF RunStep, RunFails, ChainReturns, ChainThrows, RunReturns, Score
  <2>5. CASE UNCHANGED vars
    BY <2>5 DEF vars
  <2> QED BY <2>1, <2>2, <2>3, <2>4, <2>5 DEF Next
<1> QED BY <1>0, <1>1, <1>2, <1>3, <1>4, <1>5, <1>6, <1>7, ObjectAccessed, ObjectMeasured

\* What a method of the scene makes of its kernels.
LEMMA SceneStep ==
  ASSUME TInv, [Next]_vars
  PROVE  SceneOK' /\ Reducible'
<1>0. SceneOK /\ Scene!ContentsOK /\ Reducible
  BY DEF TInv, SceneOK, Scene!TypeOK
<1> DEFINE Typed == sKernels /= << >> => sKernelType \in Type
<1>1. ASSUME NEW t \in Type, NEW n \in 0 .. MaxSize, Scene!Assign(Scene!Repeat(t, n))
      PROVE  SceneOK' /\ Typed'
  <2>1. SceneOK'
    BY <1>0, <1>1, SceneAssigned
  <2>2. /\ sKernels' = Scene!Repeat(t, n)
        /\ sKernelType' = IF Scene!Repeat(t, n) = << >> THEN None ELSE Scene!Repeat(t, n)[1]
    BY <1>1 DEF Scene!Assign
  <2>3. n = 0 => Scene!Repeat(t, n) = << >>
    BY DEF Scene!Repeat
  <2>4. n /= 0 => Scene!Repeat(t, n)[1] = t
    BY DEF Scene!Repeat
  <2> QED BY <2>1, <2>2, <2>3, <2>4
<1>2. ASSUME NEW s \in Cloud(SceneSizes), Scene!Assign(s) PROVE SceneOK' /\ Typed'
  <2>1. PICK t \in Type, n \in SceneSizes : s = Scene!Repeat(t, n)
    BY <1>2 DEF Cloud, Object!Repeat, Scene!Repeat
  <2>2. n \in 0 .. MaxSize
    OBVIOUS
  <2> QED BY <1>1, <1>2, <2>1, <2>2
<1>3. ASSUME Scene!computeSurfaceNormals PROVE SceneOK' /\ Typed'
  <2>1. PICK n \in 0 .. Len(sKernels) : Scene!Assign(Scene!Repeat(OrientedType, n))
    BY <1>3 DEF Scene!computeSurfaceNormals
  <2>2. n \in 0 .. MaxSize
    BY <1>0 DEF Scene!ContentsOK
  <2> QED BY <1>1, <2>1, <2>2
<1>4. ASSUME sample PROVE SceneOK' /\ Typed'
  <2>1. Len(sKernels) > LightMax /\ Len(sKernels) <= MaxSize /\ sKernels \in Seq(Type)
    BY <1>0, <1>4 DEF sample, Reducible, Scene!ContentsOK
  <2>2. LightMax \in 0 .. MaxSize /\ sKernelType \in Type
    BY <1>0, <2>1 DEF Reducible
  <2> QED BY <1>1, <1>4, <2>2 DEF sample
<1>5. ASSUME Scene!buildKdTree \/ Scene!buildNeighborSearchTree PROVE SceneOK' /\ Typed'
  <2>1. PICK i \in {"kdtree", "nstree"} : Scene!Decorate([k \in {i} |-> sVersion["place"]])
    BY <1>5 DEF Scene!buildKdTree, Scene!buildNeighborSearchTree
  <2> DEFINE f == [k \in {i} |-> sVersion["place"]]
  <2>2. DOMAIN f = {i} /\ f[i] = sVersion["place"] /\ Scene!Decorate(f)
    BY <2>1
  <2> HIDE DEF f
  <2>3. SceneOK'
    BY <1>0, <2>2, SceneDecorated DEF Scene!Key
  <2> QED BY <1>0, <2>2, <2>3 DEF Scene!Decorate, Scene!contents, Reducible
<1>6. ASSUME Scene!Access \/ Scene!computeKernelStatistics \/ Scene!setKernelLocH
      PROVE  SceneOK' /\ Typed'
  <2>1. SceneOK'
    BY <1>0, <1>6, SceneAccessed, SceneMeasured
  <2>2. UNCHANGED <<sKernels, sKernelType>>
    BY <1>6 DEF Scene!Access, Scene!computeKernelStatistics, Scene!setKernelLocH, Scene!contents
  <2> QED BY <1>0, <2>1, <2>2 DEF Reducible
<1>7. ASSUME UNCHANGED sceneModel PROVE SceneOK' /\ Typed'
  BY <1>0, <1>7 DEF sceneModel, SceneOK, Scene!TypeOK, Scene!ContentsOK, Scene!ResultsOK,
                    Scene!Present, Scene!Fresh, Reducible
<1> USE DEF Goto, Returns
<1>8. /\ \/ \E s \in Cloud(SceneSizes) : Scene!Assign(s)
         \/ Scene!Access \/ Scene!computeSurfaceNormals \/ sample
         \/ Scene!computeKernelStatistics \/ Scene!setKernelLocH
         \/ Scene!buildNeighborSearchTree \/ Scene!buildKdTree \/ UNCHANGED sceneModel
      /\ pc' \in {"light", "sample"} => Len(sKernels') > LightMax
  <2>1. CASE \E o \in Cloud(ObjectSizes), s \in Cloud(SceneSizes),
                a \in [light : BOOLEAN, computeNormals : BOOLEAN] : load(o, s, a)
    BY <2>1 DEF load
  <2>2. CASE check \/ objectFront \/ objectTree \/ objectNormals
    BY <2>2 DEF check, objectFront, objectTree, objectNormals
  <2>3. CASE sceneFront \/ sceneTree \/ sceneNormals
    BY <2>3 DEF sceneFront, sceneTree, sceneNormals
  <2>4. CASE domains
    <3>1. UNCHANGED sKernels /\ Scene!Access
      BY <2>4 DEF domains, Scene!Access, Scene!contents
    <3>2. pc' \in {"light", "sample"} => Len(sKernels) > LightMax
      BY <2>4 DEF domains
    <3> QED BY <3>1, <3>2
  <2>5. CASE light
    <3>1. UNCHANGED sKernels /\ Len(sKernels) > LightMax /\ Scene!computeKernelStatistics
      BY <1>0, <2>5 DEF light, Scene!computeKernelStatistics, Scene!contents, Reducible
    <3> QED BY <3>1
  <2>6. CASE sample \/ widths \/ statistics \/ tree
    BY <2>6 DEF sample, widths, statistics, tree
  <2>7. CASE mesh \/ cache \/ finish
    BY <2>7 DEF mesh, cache, finish
  <2>8. CASE \/ readThrows \/ usePartialViewEstimation \/ setCustomIntegrandFactor
             \/ modelToSceneTransformation \/ findMatchingScore \/ writeAlignedModel
    BY <2>8 DEF readThrows, usePartialViewEstimation, setCustomIntegrandFactor,
                modelToSceneTransformation, findMatchingScore, writeAlignedModel
  <2>9. CASE RunStep \/ RunFails
    BY <2>9 DEF RunStep, RunFails, ChainReturns, ChainThrows, RunReturns, Score
  <2>10. CASE UNCHANGED vars
    BY <1>0, <2>10 DEF vars, sceneModel, Reducible
  <2> QED BY <2>1, <2>2, <2>3, <2>4, <2>5, <2>6, <2>7, <2>8, <2>9, <2>10 DEF Next, LoadStep
<1> QED BY <1>2, <1>3, <1>4, <1>5, <1>6, <1>7, <1>8 DEF Reducible

LEMMA CallsStep ==
  ASSUME TInv, [Next]_vars
  PROVE  CallsOK'
<1>0. CallsOK
  BY DEF TInv
<1> USE DEF Goto, Returns, LoadPC
<1>1. CASE \E o \in Cloud(ObjectSizes), s \in Cloud(SceneSizes),
              a \in [light : BOOLEAN, computeNormals : BOOLEAN] : load(o, s, a)
  <2>1. /\ args' \in [light : BOOLEAN, computeNormals : BOOLEAN]
        /\ loads < MaxLoads /\ loads' = loads + 1 /\ complete' = FALSE /\ switched' = FALSE
        /\ pc' = "check" /\ UNCHANGED <<partialview, cif, pi, result>>
    BY <1>1 DEF load, settings
  <2>2. loads' \in 0 .. MaxLoads
    BY <1>0, <2>1 DEF CallsOK
  <2> QED BY <1>0, <2>1, <2>2 DEF CallsOK
<1>2. CASE LoadStep /\ ~finish
  <2>1. UNCHANGED <<settings, args, history>>
    BY <1>2 DEF LoadStep
  <2>2. /\ pc' \in LoadPC \union {"idle", "crashed"}
        /\ result' \in {result, "error", "missing"}
    <3>1. CASE check \/ objectFront \/ objectTree \/ objectNormals
      BY <3>1 DEF check, objectFront, objectTree, objectNormals
    <3>2. CASE sceneFront \/ sceneTree \/ sceneNormals \/ domains
      BY <3>2 DEF sceneFront, sceneTree, sceneNormals, domains
    <3>3. CASE light \/ sample \/ widths \/ statistics \/ tree
      BY <3>3 DEF light, sample, widths, statistics, tree
    <3>4. CASE mesh \/ cache
      BY <3>4 DEF mesh, cache
    <3> QED BY <1>2, <3>1, <3>2, <3>3, <3>4 DEF LoadStep
  <2> QED BY <1>0, <2>1, <2>2 DEF CallsOK, settings, history
<1>3. CASE finish
  BY <1>0, <1>3 DEF finish, CallsOK
<1>4. CASE readThrows \/ usePartialViewEstimation \/ setCustomIntegrandFactor
  BY <1>0, <1>4 DEF readThrows, usePartialViewEstimation, setCustomIntegrandFactor, CallsOK,
                    settings, history
<1>5. CASE modelToSceneTransformation \/ findMatchingScore \/ writeAlignedModel
  BY <1>0, <1>5 DEF modelToSceneTransformation, findMatchingScore, Scores, writeAlignedModel, CallsOK,
                    settings, history
<1>6. CASE RunStep \/ RunFails
  BY <1>0, <1>6 DEF RunStep, RunFails, ChainReturns, ChainThrows, RunReturns, Score, Scores,
                    CallsOK, settings, history
<1>7. CASE UNCHANGED vars
  BY <1>0, <1>7 DEF vars, CallsOK, settings, history
<1> QED BY <1>1, <1>2, <1>3, <1>4, <1>5, <1>6, <1>7 DEF Next

LEMMA ChainsStep ==
  ASSUME TInv, [Next]_vars
  PROVE  ChainsOK'
<1>0. ChainsOK
  BY DEF TInv
<1> USE DEF ChainsOK, Run!TypeOK, Run!Outcome
<1>1. CASE UNCHANGED chains
  BY <1>0, <1>1 DEF chains
<1>2. CASE modelToSceneTransformation
  BY <1>0, <1>2 DEF modelToSceneTransformation, Run!Task
<1>3. ASSUME NEW i \in Run!Task, ChainReturns(i) PROVE ChainsOK'
  <2>1. PICK w \in Weight : weight' = [weight EXCEPT ![i] = w]
    BY <1>3 DEF ChainReturns
  <2> QED BY <1>0, <1>3, <2>1 DEF ChainReturns, Run!Collect
<1>4. CASE ChainThrows \/ RunFails
  BY <1>0, <1>4 DEF ChainThrows, RunFails, Run!Fail
<1>5. CASE RunReturns
  BY <1>0, <1>5 DEF RunReturns, Run!Return, Best
<1>6. CASE Score
  BY <1>0, <1>1, <1>6 DEF Score
<1>7. CASE \/ \E o \in Cloud(ObjectSizes), s \in Cloud(SceneSizes),
                a \in [light : BOOLEAN, computeNormals : BOOLEAN] : load(o, s, a)
           \/ LoadStep \/ readThrows \/ usePartialViewEstimation \/ setCustomIntegrandFactor
           \/ findMatchingScore \/ writeAlignedModel
  BY <1>1, <1>7 DEF load, LoadStep, finish, readThrows, usePartialViewEstimation,
                    setCustomIntegrandFactor, findMatchingScore, writeAlignedModel
<1>8. CASE UNCHANGED vars
  BY <1>1, <1>8 DEF vars
<1> QED BY <1>2, <1>3, <1>4, <1>5, <1>6, <1>7, <1>8 DEF Next, RunStep

LEMMA TypesInvariance == Spec => []TInv
<1>1. TInv /\ [Next]_vars => TInv'
  BY ObjectStep, SceneStep, CallsStep, ChainsStep DEF TInv
<1> QED BY <1>1, InitTypes, PTL DEF Spec

\* The variables of the estimator, and of its two models, keep their types: no load
\* leaves a model of more than MaxSize kernels or a decoration of a wrong kind.
THEOREM TypeCorrect == Spec => []TypeOK
<1>1. TInv => TypeOK
  BY DEF TInv, ObjectOK, SceneOK, ChainsOK, CallsOK, TypeOK
<1> QED BY <1>1, TypesInvariance, PTL

\* However often models are loaded, and whatever a load leaves when it throws,
\* the statistics, trees and meshes of both are those of their present kernels.
THEOREM ResultsAreFresh == Spec => []ModelsFresh
<1>1. TInv => ModelsFresh
  BY DEF TInv, ObjectOK, SceneOK, ModelsFresh
<1> QED BY <1>1, TypesInvariance, PTL
=============================================================================

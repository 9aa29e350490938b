--------------------------- MODULE PoseEstimator ---------------------------
(***************************************************************************)
(* nuklei::PoseEstimator (kernel/PoseEstimator.cpp and .h): two kernel     *)
(* collections, those of the object and of the scene, each a               *)
(* KernelCollection; load(), which computes what the queries of the chains *)
(* need; and modelToSceneTransformation(), which runs the chains by        *)
(* parallelizer::run (ParallelRun), takes the best and scores it.          *)
(*                                                                         *)
(* A chain is reduced to what it asks of the two collections and to the    *)
(* weight it returns; its steps are in module Metropolis.                  *)
(***************************************************************************)
EXTENDS Naturals, Sequences

CONSTANTS
  Type, OrientedType, MeshFile, None, MaxSize, MaxVersion,  \* KernelCollection's
  R3,             \* the type whose normals load() computes
  Progress,       \* progress_: is an indicator shown?
  Exhaustive,     \* 1000: the largest size evaluationAt() evaluates one by one
  LightMax,       \* 10000: the size to which a light scene is reduced
  NChains,        \* nChains_
  Weight,         \* the weights of poses
  ObjectSizes, SceneSizes,  \* bound: the sizes of the clouds that are loaded
  MaxLoads        \* bound: the number of loads

ASSUME EstimatorAssumption ==
  /\ R3 \in Type /\ Progress \in BOOLEAN /\ NChains \in Nat \ {0}
  /\ Exhaustive \in Nat /\ LightMax \in Nat \ {0} /\ 0 \in Weight /\ Weight \subseteq Nat
  /\ ObjectSizes \union SceneSizes \subseteq 0 .. MaxSize
  /\ MaxLoads \in Nat
\* KernelCollection's.
ASSUME CollectionAssumption ==
  /\ OrientedType \in Type /\ None \notin Type \union Nat \union MeshFile
  /\ MeshFile \intersect Nat = {} /\ MaxSize \in Nat /\ MaxVersion \in Nat
\* A load changes the contents of a collection four times at most.
ASSUME LoadAssumption == MaxVersion >= 4 * MaxLoads

VARIABLES
  \* objectModel_ and sceneModel_: see KernelCollection
  oKernels, oKernelType, oVersion, oTorn, oTotalWeight, oMaxLocCutPoint, oDeco, oReference, oLate,
  sKernels, sKernelType, sVersion, sTorn, sTotalWeight, sMaxLocCutPoint, sDeco, sReference, sLate,
  partialview,   \* partialview_
  cif,           \* is there a CustomIntegrandFactor?
  pi,            \* has pi_ been set?
  args,          \* light and computeNormals of the load that is running
  pc,
  result,        \* what the last call returned or threw
  results, outcome,  \* of parallelizer::run: see ParallelRun
  weight,        \* weight[i]: that of the pose chain i has returned
  pose,          \* the chain whose pose is returned
  loads,
  complete,      \* history: are the models those of a load that has returned?
  switched       \* history: was partialview_ set after they were loaded?

objectModel == <<oKernels, oKernelType, oVersion, oTorn, oTotalWeight, oMaxLocCutPoint,
                 oDeco, oReference, oLate>>
sceneModel == <<sKernels, sKernelType, sVersion, sTorn, sTotalWeight, sMaxLocCutPoint,
                sDeco, sReference, sLate>>
settings == <<partialview, cif, pi>>
chains == <<results, outcome, weight, pose>>
history == <<loads, complete, switched>>
vars == <<objectModel, sceneModel, settings, args, pc, result, chains, history>>

\* Neither is ever torn: a file is read into another collection, and copied
\* once it has been read.
Object == INSTANCE KernelCollection WITH
  kernels <- oKernels, kernelType <- oKernelType, version <- oVersion,
  totalWeight <- oTotalWeight, maxLocCutPoint <- oMaxLocCutPoint,
  deco <- oDeco, torn <- oTorn, reference <- oReference, late <- oLate
Scene == INSTANCE KernelCollection WITH
  kernels <- sKernels, kernelType <- sKernelType, version <- sVersion,
  totalWeight <- sTotalWeight, maxLocCutPoint <- sMaxLocCutPoint,
  deco <- sDeco, torn <- sTorn, reference <- sReference, late <- sLate
Run == INSTANCE ParallelRun WITH N <- NChains

LoadPC == {"check", "objectFront", "objectTree", "objectNormals", "sceneFront",
           "sceneTree", "sceneNormals", "domains", "light", "sample", "widths",
           "statistics", "tree", "mesh", "cache", "finish"}

TypeOK ==
  /\ Object!TypeOK /\ Scene!TypeOK /\ Run!TypeOK
  /\ {partialview, cif, pi, complete, switched} \subseteq BOOLEAN
  /\ args \in [light : BOOLEAN, computeNormals : BOOLEAN]
  /\ pc \in LoadPC \union {"idle", "chains", "score", "crashed"}
  /\ result \in {"none", "loaded", "error", "missing", "badcast", "pose", "score", "written"}
  /\ weight \in [Run!Task -> Weight] /\ pose \in Run!Task
  /\ loads \in 0 .. MaxLoads

Init ==
  /\ Object!Init /\ Scene!Init /\ Run!Init
  /\ partialview \in BOOLEAN /\ cif \in BOOLEAN /\ pi = FALSE
  /\ args = [light |-> TRUE, computeNormals |-> TRUE]
  /\ pc = "idle" /\ result = "none"
  /\ weight = [i \in Run!Task |-> 0] /\ pose = 0
  /\ loads = 0 /\ complete = FALSE /\ switched = FALSE

Goto(l) == pc' = l /\ UNCHANGED result
Returns(r) == pc' = "idle" /\ result' = r

(***************************************************************************)
(* load()                                                                  *)
(***************************************************************************)
\* The two clouds are copied.  Results the caller has computed of its own do
\* not outlive front() below, and serve no one if a cloud is empty.
load(o, s, a) ==
  /\ pc = "idle" /\ loads < MaxLoads
  /\ Object!Assign(o) /\ Scene!Assign(s)
  /\ args' = a
  /\ loads' = loads + 1 /\ complete' = FALSE /\ switched' = FALSE
  /\ Goto("check")
  /\ UNCHANGED <<settings, chains>>

\* A wrong load() of files: the cloud of the scene is read in place.
readThrowsMidway ==
  /\ pc = "idle" /\ loads < MaxLoads
  /\ Scene!Assign(Scene!Repeat(OrientedType, 1))
  /\ complete' = FALSE /\ loads' = loads + 1
  /\ Returns("error")
  /\ UNCHANGED <<objectModel, settings, args, chains, switched>>

\* load() of files reads both before it assigns either.
readThrows ==
  /\ pc = "idle" /\ loads < MaxLoads
  /\ Returns("error")
  /\ UNCHANGED <<objectModel, sceneModel, settings, args, chains, history>>

check ==
  /\ pc = "check"
  /\ IF << >> \in {oKernels, sKernels} THEN Returns("error") ELSE Goto("objectFront")
  /\ UNCHANGED <<objectModel, sceneModel>>

\* front() is called on models that are not const: it destroys their results.
objectFront ==
  /\ pc = "objectFront"
  /\ Object!Access
  /\ Goto(IF oKernelType = R3 /\ args.computeNormals THEN "objectTree" ELSE "sceneFront")
  /\ UNCHANGED sceneModel

objectTree ==
  /\ pc = "objectTree"
  /\ Object!buildNeighborSearchTree
  /\ Goto("objectNormals")
  /\ UNCHANGED sceneModel

objectNormals ==
  /\ pc = "objectNormals"
  /\ Object!computeSurfaceNormals
  /\ Goto("sceneFront")
  /\ UNCHANGED sceneModel

sceneFront ==
  /\ pc = "sceneFront"
  /\ Scene!Access
  /\ Goto(IF sKernelType = R3 /\ args.computeNormals THEN "sceneTree" ELSE "domains")
  /\ UNCHANGED objectModel

sceneTree ==
  /\ pc = "sceneTree"
  /\ Scene!buildNeighborSearchTree
  /\ Goto("sceneNormals")
  /\ UNCHANGED objectModel

sceneNormals ==
  /\ pc = "sceneNormals"
  /\ Scene!computeSurfaceNormals
  /\ Goto("domains")
  /\ UNCHANGED objectModel

\* A cloud whose kernels computeSurfaceNormals() has all dropped has no front().
domains ==
  /\ pc = "domains"
  /\ Object!Access /\ Scene!Access
  /\ IF << >> \in {oKernels, sKernels} THEN Goto("crashed")
     ELSE IF oKernelType /= sKernelType THEN Returns("error")
     ELSE Goto(IF args.light /\ Len(sKernels) > LightMax THEN "light" ELSE "widths")

light ==
  /\ pc = "light"
  /\ Scene!computeKernelStatistics
  /\ Goto("sample")
  /\ UNCHANGED objectModel

\* A wrong sample: the other kernels are erased from the scene behind the back
\* of the collection.
sampleInPlace ==
  /\ pc = "sample"
  /\ sTotalWeight /= None
  /\ sKernels' = Scene!Repeat(sKernelType, LightMax)
  /\ Scene!Modify(Scene!Aspect)
  /\ UNCHANGED <<sKernelType, sTorn, sTotalWeight, sMaxLocCutPoint, sDeco, sReference, sLate>>
  /\ Goto("widths")
  /\ UNCHANGED objectModel

\* The sample is gathered in a collection that is then assigned.
sample ==
  /\ pc = "sample"
  /\ sTotalWeight /= None
  /\ Scene!Assign(Scene!Repeat(sKernelType, LightMax))
  /\ Goto("widths")
  /\ UNCHANGED objectModel

\* setKernelLocH(); setKernelOriH() changes nothing that a result depends on.
widths ==
  /\ pc = "widths"
  /\ Object!setKernelLocH /\ Scene!setKernelLocH
  /\ Goto("statistics")

statistics ==
  /\ pc = "statistics"
  /\ Object!computeKernelStatistics /\ Scene!computeKernelStatistics
  /\ Goto("tree")

\* A wrong load(): the tree of the scene is left out.
treeForgotten ==
  /\ pc = "tree"
  /\ Goto(IF partialview THEN "mesh" ELSE "finish")
  /\ UNCHANGED <<objectModel, sceneModel>>

tree ==
  /\ pc = "tree"
  /\ Scene!buildKdTree
  /\ Goto(IF partialview THEN "mesh" ELSE "finish")
  /\ UNCHANGED objectModel

\* The mesh is read from a file or built; both may throw.
mesh ==
  /\ pc = "mesh"
  /\ \/ (Object!readMeshFromOffFile \/ Object!buildMesh) /\ Goto("cache")
     \/ Returns("error") /\ UNCHANGED objectModel
  /\ UNCHANGED sceneModel

HasMesh == {"mesh", "aabbtree"} \subseteq DOMAIN oDeco

\* as_const(objectModel_).front() leaves the results alone.
cache ==
  /\ pc = "cache"
  /\ IF HasMesh THEN Object!buildPartialViewCache /\ Goto("finish")
     ELSE Returns("missing") /\ UNCHANGED objectModel
  /\ UNCHANGED sceneModel

\* A wrong end of load(): only partial views get an indicator.
finishPartial ==
  /\ pc = "finish"
  /\ pi' = (pi \/ (Progress /\ partialview))
  /\ complete' = TRUE
  /\ Returns("loaded")
  /\ UNCHANGED <<objectModel, sceneModel, partialview, cif, args, chains, loads, switched>>

finish ==
  /\ pc = "finish"
  /\ pi' = (pi \/ Progress)
  /\ complete' = TRUE
  /\ Returns("loaded")
  /\ UNCHANGED <<objectModel, sceneModel, partialview, cif, args, chains, loads, switched>>

LoadStep ==
  \/ /\ \/ check \/ objectFront \/ objectTree \/ objectNormals
        \/ sceneFront \/ sceneTree \/ sceneNormals \/ domains
        \/ light \/ sample \/ widths \/ statistics \/ tree \/ mesh \/ cache
     /\ UNCHANGED <<settings, args, chains, history>>
  \/ finish

(***************************************************************************)
(* What the queries of the estimation need.  evaluationAt() of a scene     *)
(* asserts that the types agree, and above Exhaustive kernels throws       *)
(* without a kd-tree or a cut point; a partial view throws without a mesh. *)
(***************************************************************************)
Empty == << >> \in {oKernels, sKernels}
Sampled == oTotalWeight /= None /\ ~Empty
SceneAnswers ==
  /\ oKernelType = sKernelType
  /\ Len(sKernels) > Exhaustive =>
       "kdtree" \in DOMAIN sDeco /\ sMaxLocCutPoint /= None
Evaluated ==
  SceneAnswers /\ (partialview => HasMesh /\ "viewcache" \in DOMAIN oDeco)

\* No proposal passes cif_->test(), or none shows the point it was drawn from.
NothingProposed == cif \/ (partialview /\ HasMesh)

(***************************************************************************)
(* The estimation                                                          *)
(***************************************************************************)
usePartialViewEstimation ==
  /\ pc = "idle"
  /\ partialview' = TRUE
  /\ switched' = (switched \/ (complete /\ ~partialview))
  /\ UNCHANGED <<objectModel, sceneModel, cif, pi, args, pc, result, chains, loads, complete>>

setCustomIntegrandFactor ==
  /\ pc = "idle"
  /\ \E b \in BOOLEAN : cif' = b
  /\ UNCHANGED <<objectModel, sceneModel, partialview, pi, args, pc, result, chains, history>>

\* modelToSceneTransformation(): pi_ is null until a load() has returned.
modelToSceneTransformation ==
  /\ pc = "idle"
  /\ Goto(IF Progress /\ ~pi THEN "crashed" ELSE "chains")
  /\ results' = {} /\ outcome' = "running"
  /\ weight' = [i \in Run!Task |-> 0] /\ pose' = 0
  /\ UNCHANGED <<objectModel, sceneModel, settings, args, history>>

\* mcmc() returns its best pose: that of weight 0 if it has evaluated none.
ChainReturns(i) ==
  /\ pc = "chains"
  /\ Run!Collect(i)
  /\ Sampled
  /\ \E w \in Weight :
       /\ IF Evaluated THEN TRUE ELSE w = 0 /\ NothingProposed
       /\ weight' = [weight EXCEPT ![i] = w]
  /\ UNCHANGED <<objectModel, sceneModel, settings, args, pc, result, pose, history>>

ChainThrows ==
  /\ pc = "chains"
  /\ ~Sampled \/ ~Evaluated
  /\ Run!Fail
  /\ Returns("missing")
  /\ UNCHANGED <<objectModel, sceneModel, settings, args, weight, pose, history>>

\* parallelizer::run() fails for reasons of its own.
RunFails ==
  /\ pc = "chains"
  /\ Run!Fail
  /\ Returns("error")
  /\ UNCHANGED <<objectModel, sceneModel, settings, args, weight, pose, history>>

Best(w) == {i \in DOMAIN w : \A j \in DOMAIN w : w[j] <= w[i]}

\* The poses are gathered in a collection, of which sortBegin(1) is the first.
RunReturns ==
  /\ pc = "chains"
  /\ Run!Return
  /\ pose' \in Best(weight)
  /\ Goto("score")
  /\ UNCHANGED <<objectModel, sceneModel, settings, args, weight, history>>

\* findMatchingScore() views the mesh without the cache and takes the angle
\* between the rays and the normals into account: partialView() casts every
\* kernel of the object to r3xs2p.  It evaluates nothing when a model is empty,
\* nor in a view in which nothing is visible.
ViewCasts == partialview /\ oKernels /= << >> /\ oKernelType /= OrientedType
Scores(r) ==
  IF partialview /\ ~HasMesh THEN {"missing"}
  ELSE IF ViewCasts THEN {"badcast"}
  ELSE IF Empty \/ SceneAnswers THEN {r}
  ELSE IF partialview THEN {"missing", r} ELSE {"missing"}

Score ==
  /\ pc = "score"
  /\ \E r \in Scores("pose") : Returns(r)
  /\ UNCHANGED <<objectModel, sceneModel, settings, args, chains, history>>

findMatchingScore ==
  /\ pc = "idle"
  /\ \E r \in Scores("score") : Returns(r)
  /\ UNCHANGED <<objectModel, sceneModel, settings, args, chains, history>>

\* In a partial view, the kernels that are visible are coloured.
writeAlignedModel ==
  /\ pc = "idle"
  /\ Returns(IF partialview /\ oKernels /= << >> /\ ~HasMesh THEN "missing" ELSE "written")
  /\ UNCHANGED <<objectModel, sceneModel, settings, args, chains, history>>

RunStep ==
  (\E i \in Run!Task : ChainReturns(i)) \/ ChainThrows \/ RunReturns \/ Score

Cloud(sizes) == {Object!Repeat(t, n) : t \in Type, n \in sizes}

Next ==
  \/ \E o \in Cloud(ObjectSizes), s \in Cloud(SceneSizes),
        a \in [light : BOOLEAN, computeNormals : BOOLEAN] : load(o, s, a)
  \/ readThrows
  \/ LoadStep
  \/ usePartialViewEstimation \/ setCustomIntegrandFactor
  \/ modelToSceneTransformation \/ RunStep \/ RunFails
  \/ findMatchingScore \/ writeAlignedModel

Spec == Init /\ [][Next]_vars

(***************************************************************************)
(* Properties                                                              *)
(***************************************************************************)
\* On models whose load() has returned, no query of an estimation, a score or
\* an export lacks what it needs (weights, cut point, kd-tree, mesh, views),
\* whatever the sizes and types of the clouds and however often others have
\* been loaded before; unless partial views were asked for after load().  A
\* score of a partial view is not refused for the type of the kernels when
\* load() was asked to compute the normals of a cloud of points: it may be when
\* the cloud was of another type, or its normals were not wanted.
NoQueryUnmet ==
  /\ result = "missing" => ~complete \/ switched
  /\ result = "badcast" =>
       ~complete \/ (partialview /\ (args.computeNormals => oKernelType /= R3))

\* A pose is only returned for models that one load() has prepared to its end:
\* what a load() that threw leaves behind, half of it new, is never used.
PoseOfOneLoad == pc = "idle" /\ result = "pose" => complete

\* The pose returned is that of a chain no other chain of the same call beats,
\* once all of them have delivered theirs.
BestOfChains ==
  pc = "idle" /\ result = "pose" => results = Run!Task /\ pose \in Best(weight)

\* Whatever load() makes and whoever is loaded after whom, the statistics, trees
\* and meshes the models hold are those of their present kernels: an estimation
\* evaluates no density, and sees no view, of kernels that are gone.
ModelsFresh ==
  /\ \A k \in Object!Present : Object!Fresh(k)
  /\ \A k \in Scene!Present : Scene!Fresh(k)

\* The null indicator of an estimator never loaded and the first kernel of a
\* cloud emptied by computeSurfaceNormals() are the only things dereferenced
\* in vain: never once a load() has returned.
NoCrashOnceLoaded == pc = "crashed" => ~complete

=============================================================================

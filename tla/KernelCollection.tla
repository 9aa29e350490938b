-------------------------- MODULE KernelCollection --------------------------
(***************************************************************************)
(* nuklei::KernelCollection (kernel/nuklei/KernelCollection.h and          *)
(* kernel/KernelCollection*.cpp): a vector of kernels of one type, and the *)
(* intermediary results computed from them and kept until a method that    *)
(* may modify the kernels destroys them.                                   *)
(*                                                                         *)
(* The data is abstracted to what the intermediary results depend on.      *)
(* version[a] numbers the contents of one aspect of the kernels: their     *)
(* weights, their bandwidths, the set of their places.  A result holds the *)
(* version it was computed from, and is fresh while that version is the    *)
(* current one.  The kernels themselves are a sequence of types.           *)
(***************************************************************************)
EXTENDS Naturals, Sequences

CONSTANTS
  Type,           \* the kernel types (R3, R3XS2, R3XS2P, SE3)
  OrientedType,   \* R3XS2P, the type computeSurfaceNormals() produces
  MeshFile,       \* the mesh files that may be read
  None,
  MaxSize,        \* bound: the largest size of the collection
  MaxVersion      \* bound: how often an aspect is modified

ASSUME TypeAssumption == OrientedType \in Type /\ None \notin Type
ASSUME VersionAssumption == None \notin Nat /\ MeshFile \intersect Nat = {}
                            /\ None \notin MeshFile
ASSUME BoundAssumption == MaxSize \in Nat /\ MaxVersion \in Nat

Aspect == {"weight", "width", "place"}

\* The keys of deco_, the results kept as decorations.
Key == {"hull", "kdtree", "nstree", "mesh", "aabbtree", "viewcache"}
Statistic == {"totalWeight", "maxLocCutPoint"}

VARIABLES
  kernels,        \* kernels_: the type of each kernel
  kernelType,     \* kernelType_, or None
  version,        \* version[a]: the current contents of aspect a
  totalWeight,    \* totalWeight_: the version of the weights summed, or None
  maxLocCutPoint, \* maxLocCutPoint_: the version of the widths, or None
  deco,           \* deco_: what each decoration present was computed from
  torn,           \* history: did a load throw after it had read kernels?
  reference,      \* does the caller hold a mutable reference to a kernel?
  late            \* history: the results outdated through a reference

statistics == <<totalWeight, maxLocCutPoint>>
contents == <<kernels, kernelType, version, torn>>
results == <<statistics, deco, late>>
vars == <<contents, results, reference>>

Version == 0 .. MaxVersion

\* totalWeight_ when it is not the sum of any contents the weights have had.
NotTheSum == MaxVersion + 1

\* What a mesh was made from: the places of a version, or a file.
MeshSource == Version \union MeshFile

ContentsOK ==
  /\ kernels \in Seq(Type) /\ Len(kernels) <= MaxSize
  /\ kernelType \in Type \union {None}
  /\ version \in [Aspect -> Version]
  /\ torn \in BOOLEAN

ResultsOK ==
  /\ totalWeight \in Version \union {NotTheSum, None}
  /\ maxLocCutPoint \in Version \union {None}
  /\ DOMAIN deco \subseteq Key
  /\ \A k \in DOMAIN deco \intersect {"hull", "kdtree", "nstree"} :
       deco[k] \in Version
  /\ \A k \in DOMAIN deco \intersect {"mesh", "aabbtree"} :
       deco[k] \in MeshSource
  /\ "viewcache" \in DOMAIN deco =>
       deco["viewcache"] \in [place : Version, mesh : MeshSource]
  /\ late \subseteq Key \union Statistic

TypeOK == ContentsOK /\ ResultsOK /\ reference \in BOOLEAN

NoDeco == [k \in {} |-> None]

Init ==
  /\ kernels = << >>
  /\ kernelType = None
  /\ version = [a \in Aspect |-> 0]
  /\ torn = FALSE
  /\ totalWeight = None /\ maxLocCutPoint = None
  /\ deco = NoDeco
  /\ reference = FALSE
  /\ late = {}

invalidateHelperStructures ==
  /\ totalWeight' = None /\ maxLocCutPoint' = None
  /\ deco' = NoDeco
  /\ late' = {}

\* The aspects in A change; the model stops where their versions run out.
Modify(A) ==
  /\ \A a \in A : version[a] < MaxVersion
  /\ version' = [a \in Aspect |-> version[a] + IF a \in A THEN 1 ELSE 0]

(***************************************************************************)
(* The container                                                           *)
(***************************************************************************)
clear ==
  /\ kernels' = << >>
  /\ kernelType' = None
  /\ torn' = FALSE
  /\ Modify(IF kernels = << >> THEN {} ELSE Aspect)
  /\ invalidateHelperStructures
  /\ reference' = FALSE

\* A wrong add(f): the type is not checked.
addUnchecked(t) ==
  /\ Len(kernels) < MaxSize
  /\ invalidateHelperStructures
  /\ kernels' = Append(kernels, t)
  /\ kernelType' = t
  /\ Modify(Aspect)
  /\ UNCHANGED <<torn, reference>>

\* add(f) for a kernel of type t.  The results are destroyed before the type
\* is checked: a refused kernel costs them too.  A torn collection has kernels
\* and no kernelType_: what the check reads through the empty optional is
\* undefined, and it may come out either way.
add(t) ==
  /\ Len(kernels) < MaxSize
  /\ invalidateHelperStructures
  /\ \/ /\ kernels = << >> \/ kernelType = t
        /\ kernels' = Append(kernels, t)
        /\ kernelType' = t
        /\ Modify(Aspect)
        /\ UNCHANGED torn
     \/ kernels /= << >> /\ kernelType /= t /\ UNCHANGED contents
     \/ /\ torn
        /\ kernels' = Append(kernels, t)
        /\ Modify(Aspect)
        /\ UNCHANGED <<kernelType, torn>>
  /\ UNCHANGED reference

\* replace(idx, k) asserts before it changes anything.
replace(idx, t) ==
  /\ idx \in DOMAIN kernels
  /\ kernelType = t \/ torn
  /\ kernels' = [kernels EXCEPT ![idx] = t]
  /\ Modify(Aspect)
  /\ invalidateHelperStructures
  /\ UNCHANGED <<kernelType, torn, reference>>

\* The non-const at(), front(), back(), begin(), end(), rbegin(), rend() and
\* sortBegin().
Access ==
  /\ invalidateHelperStructures
  /\ reference' = (reference \/ kernels /= << >>)
  /\ UNCHANGED contents

\* The non-const sampleBegin() throws before it destroys anything when the
\* total weight is not known.
sampleBegin ==
  /\ totalWeight /= None
  /\ Access

\* The caller writes one aspect of a kernel through a reference it was given
\* earlier (setWeight, setLocH, setLoc).  The collection cannot know.
Depends(k) ==
  IF k = "totalWeight" THEN "weight"
  ELSE IF k = "maxLocCutPoint" THEN "width" ELSE "place"

Present ==
  DOMAIN deco \union {s \in Statistic :
    \/ s = "totalWeight" /\ totalWeight /= None
    \/ s = "maxLocCutPoint" /\ maxLocCutPoint /= None}

WriteThroughReference(a) ==
  /\ reference
  /\ Modify({a})
  /\ late' = late \union {k \in Present : Depends(k) = a}
  /\ UNCHANGED <<kernels, kernelType, torn, statistics, deco, reference>>

(***************************************************************************)
(* Statistics, weights and bandwidths                                      *)
(***************************************************************************)
computeKernelStatistics ==
  /\ totalWeight' = version["weight"]
  /\ maxLocCutPoint' = version["width"]
  /\ late' = late \ Statistic
  /\ UNCHANGED <<contents, deco, reference>>

\* The weights are divided by totalWeight_, computed if need be; the new
\* weights sum to 1 exactly if it was their sum.
normalizeWeights ==
  IF kernels = << >>
    THEN /\ totalWeight' = version["weight"]
         /\ UNCHANGED <<contents, maxLocCutPoint, deco, late, reference>>
    ELSE /\ Modify({"weight"})
         /\ totalWeight' = IF totalWeight \in {None, version["weight"]}
                             THEN version'["weight"] ELSE NotTheSum
         /\ IF totalWeight = None
              THEN /\ maxLocCutPoint' = version["width"]
                   /\ late' = late \ Statistic
              ELSE UNCHANGED <<maxLocCutPoint, late>>
         /\ UNCHANGED <<kernels, kernelType, torn, deco, reference>>

\* Every weight becomes 1/size() and totalWeight_ 1, even of no kernel.
uniformizeWeights ==
  /\ IF kernels = << >>
       THEN totalWeight' = NotTheSum /\ UNCHANGED version
       ELSE Modify({"weight"}) /\ totalWeight' = version'["weight"]
  /\ late' = late \ {"totalWeight"}
  /\ UNCHANGED <<kernels, kernelType, torn, maxLocCutPoint, deco, reference>>

\* All the kernels get one bandwidth, of which the cut point is the same for
\* every type: that of the last is that of them all.
setKernelLocH ==
  /\ IF kernels = << >>
       THEN UNCHANGED <<version, maxLocCutPoint, late>>
       ELSE /\ Modify({"width"})
            /\ maxLocCutPoint' = version'["width"]
            /\ late' = late \ {"maxLocCutPoint"}
  /\ UNCHANGED <<kernels, kernelType, torn, totalWeight, deco, reference>>

\* A wrong transformWith(): the decorations stay.
transformUndecorated ==
  /\ totalWeight' = None /\ maxLocCutPoint' = None
  /\ Modify(IF kernels = << >> THEN {} ELSE {"place"})
  /\ UNCHANGED <<kernels, kernelType, torn, deco, late, reference>>

transformWith ==
  /\ invalidateHelperStructures
  /\ Modify(IF kernels = << >> THEN {} ELSE {"place"})
  /\ UNCHANGED <<kernels, kernelType, torn, reference>>

(***************************************************************************)
(* Methods that assign a new collection to this one                        *)
(***************************************************************************)
\* *this = another, whose kernels are ts and which has no results.
Assign(ts) ==
  /\ kernels' = ts
  /\ kernelType' = IF ts = << >> THEN None ELSE ts[1]
  /\ torn' = FALSE
  /\ Modify(Aspect)
  /\ invalidateHelperStructures
  /\ reference' = FALSE

Repeat(t, n) == [i \in 1 .. n |-> t]

\* resetWithSampleOf(kc, n) draws from this collection, never from kc.  The
\* sample is of one type, or add() throws before anything is assigned.
resetWithSampleOf(n) ==
  /\ totalWeight /= None
  /\ \/ kernels = << >> /\ Assign(<< >>)
     \/ \E i \in DOMAIN kernels : Assign(Repeat(kernels[i], n))

\* The kernels whose neighbourhood cannot be fitted are dropped.
computeSurfaceNormals ==
  /\ "nstree" \in DOMAIN deco
  /\ \E n \in 0 .. Len(kernels) : Assign(Repeat(OrientedType, n))

\* A KernelReader clears its collection, then loads kernels of a file that a
\* collection was written to.  The kernels come before their type and are put
\* in place one by one: an archive that throws part way leaves those it has
\* read, without a type.
load ==
  \E t \in Type, n \in 0 .. MaxSize :
    \/ Assign(Repeat(t, n))
    \/ /\ kernels' = Repeat(t, n)
       /\ kernelType' = None
       /\ torn' = (n /= 0)
       /\ Modify(Aspect)
       /\ invalidateHelperStructures
       /\ reference' = FALSE

(***************************************************************************)
(* The decorations                                                         *)
(***************************************************************************)
\* if (deco_.has_key(k)) deco_.erase(k); deco_.insert(k, v), for the keys of
\* the function "new".
Decorate(new) ==
  /\ deco' = [k \in DOMAIN deco \union DOMAIN new |->
                IF k \in DOMAIN new THEN new[k] ELSE deco[k]]
  /\ late' = late \ DOMAIN new
  /\ UNCHANGED <<contents, statistics, reference>>

\* The hull is that of a random sample of the kernels: it needs their weights.
buildConvexHull ==
  /\ totalWeight /= None
  /\ Decorate([k \in {"hull"} |-> version["place"]])

buildKdTree == Decorate([k \in {"kdtree"} |-> version["place"]])

buildNeighborSearchTree == Decorate([k \in {"nstree"} |-> version["place"]])

\* A mesh and the tree of its facets are always replaced together: the tree
\* refers to the mesh.
buildMesh ==
  Decorate([k \in {"mesh", "aabbtree"} |-> version["place"]])

\* A wrong readMeshFromOffFile(): the tree of the former mesh stays.
readMeshOnly ==
  \E f \in MeshFile : Decorate([k \in {"mesh"} |-> f])

readMeshFromOffFile ==
  \E f \in MeshFile : Decorate([k \in {"mesh", "aabbtree"} |-> f])

buildPartialViewCache ==
  /\ kernels /= << >>
  /\ {"mesh", "aabbtree"} \subseteq DOMAIN deco
  /\ Decorate([k \in {"viewcache"} |->
                [place |-> version["place"], mesh |-> deco["mesh"]]])

ContainerNext ==
  \/ clear
  \/ \E t \in Type : add(t) \/ \E i \in DOMAIN kernels : replace(i, t)
  \/ Access \/ sampleBegin
  \/ transformWith
  \/ \E n \in 0 .. MaxSize : resetWithSampleOf(n)
  \/ computeSurfaceNormals \/ load

ResultsNext ==
  \/ computeKernelStatistics \/ normalizeWeights \/ uniformizeWeights
  \/ setKernelLocH
  \/ buildConvexHull \/ buildKdTree \/ buildNeighborSearchTree
  \/ buildMesh \/ readMeshFromOffFile \/ buildPartialViewCache

Next ==
  \/ ContainerNext
  \/ ResultsNext
  \/ \E a \in Aspect : WriteThroughReference(a)

Spec == Init /\ [][Next]_vars

(***************************************************************************)
(* Properties                                                              *)
(***************************************************************************)
Fresh(k) ==
  /\ k = "totalWeight" => totalWeight = version["weight"]
  /\ k = "maxLocCutPoint" => maxLocCutPoint = version["width"]
  /\ k \in {"hull", "kdtree", "nstree"} => deco[k] = version["place"]
  /\ k \in {"mesh", "aabbtree"} => deco[k] \in MeshFile \union {version["place"]}
  /\ k = "viewcache" => deco[k].place = version["place"]

\* Whatever sequence of methods is called, a result that is still there was
\* computed from the current kernels, unless the caller itself outdated it by
\* writing through a reference obtained before the result was computed; the
\* total weight of no kernel at all is the one exception.
ResultsFresh ==
  \A k \in Present :
    \/ Fresh(k)
    \/ k \in late
    \/ k = "totalWeight" /\ kernels = << >>

\* All the kernels have the type recorded in kernelType_, which the
\* evaluation relies on to cast them (staticEvaluationAt), and which is
\* recorded exactly while there are kernels: unless a load threw part way, and
\* then no type is recorded of the kernels it left.
Homogeneous ==
  /\ torn => kernelType = None /\ kernels /= << >>
  /\ ~ torn => /\ kernelType = None <=> kernels = << >>
               /\ \A i \in DOMAIN kernels : kernels[i] = kernelType

\* The AABB tree refers to the facets of a mesh, which it does not keep alive:
\* it is there with its mesh, and it is the tree of that mesh.
TreeOfMesh ==
  /\ "mesh" \in DOMAIN deco <=> "aabbtree" \in DOMAIN deco
  /\ "mesh" \in DOMAIN deco => deco["mesh"] = deco["aabbtree"]

IInv == TypeOK /\ ResultsFresh /\ Homogeneous /\ TreeOfMesh

\* partialView() "returns the indices of points visible from viewpoint. See
\* isVisibleFrom()" (KernelCollection.h:476-480), which computes it from the
\* mesh: the views it takes from the cache are those of the present mesh.
CachedViewsAreOfTheMesh ==
  "viewcache" \in DOMAIN deco /\ late = {} =>
    deco["viewcache"].mesh = deco["mesh"]
=============================================================================

SPECIFICATION Spec
CONSTANTS
  r3 = r3
  r3xs2p = r3xs2p
  Type = {r3, r3xs2p}
  OrientedType = r3xs2p
  off1 = off1
  MeshFile = {off1}
  None = None
  MaxSize = 2
  MaxVersion = 2
INVARIANTS
  CachedViewsAreOfTheMesh

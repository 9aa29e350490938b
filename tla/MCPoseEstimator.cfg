\* The chains of an estimation, on clouds below and above the thresholds.
CONSTANTS
  R3 = R3
  OrientedType = R3XS2P
  Type = {R3, R3XS2P}
  MeshFile = {file}
  None = None
  MaxSize = 3
  MaxVersion = 8
  Progress = TRUE
  Exhaustive = 1
  LightMax = 2
  NChains = 2
  Weight = {0, 1}
  ObjectSizes = {0, 1}
  SceneSizes = {1, 3}
  MaxLoads = 2

SPECIFICATION Spec

INVARIANTS
  NoQueryUnmet
  PoseOfOneLoad
  ModelsFresh
  NoCrashOnceLoaded

\* A null pointer takes the process down.
CHECK_DEADLOCK FALSE

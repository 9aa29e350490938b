SPECIFICATION Spec
CONSTANTS
  Points = 2
  PartialView = FALSE
  ViewSize <- MCViewSize
  MinView = 3
  Tries = 2
  Steps = 3
  p1 = p1
  p2 = p2
  p3 = p3
  Pose <- MCPose
  Reachable <- MCReachable
  Identity = p1
  MaxWeight = 3
INVARIANTS
  NeverForbidden

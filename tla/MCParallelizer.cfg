\* Three tasks by every method; the second may throw or die.
CONSTANTS
  N = 3
  Type = {"openmp", "fork", "pthread", "single", "unknown"}
  Thread = {t1, t2}
  Caller = t1
  Faulty <- MCFaulty
  OsMayFail = TRUE
  SpawnMayFail = TRUE
  None = None

SPECIFICATION FairSpec

INVARIANTS
  CompleteOnReturn
  NothingVanishes
  EachIterationOnce
  SlotHandover

PROPERTIES
  MergedStays
  ForkEnds
  LoopEnds
  PthreadEnds
  ImplementsRun

\* run_fork may wait for ever for a child that was lost; the others end.
CHECK_DEADLOCK FALSE

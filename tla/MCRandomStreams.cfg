\* Two chains on one thread or two, three runs, seeds next to the wrap-around.
CONSTANTS
  N = 2
  Method = {"single", "openmp", "fork", "pthread"}
  Thread = 2
  Width = 16
  GslDefault = 8
  Seed = {0, 14}
  Parent = Parent
  None = None
  Draws = 2
  MaxRuns = 3

SPECIFICATION Spec

INVARIANTS
  TypeOK
  DrawnOnce
  ForkRepeats

\* The runs come to an end.
CHECK_DEADLOCK FALSE

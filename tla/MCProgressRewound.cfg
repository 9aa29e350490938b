SPECIFICATION Spec
CONSTANTS
  t1 = t1
  t2 = t2
  Thread <- MCThread
  Calls = 3
  spanStart_ = 1
  scale_ = 4
  backspace_ = TRUE
  MaxLogs = 0
  MaxRuns = 2
  None = None
INVARIANT
  ShowsWhatIsDone

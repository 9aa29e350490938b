SPECIFICATION Spec
CONSTANTS
  N = 3
  Grain = 3
  PopulationWeight <- MCPopulationWeight
  SampleSize <- MCSampleSize
INVARIANTS
  ExactSize
  Proportional

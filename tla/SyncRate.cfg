SPECIFICATION Spec
CONSTANTS
  Limits <- SmallLimits
  Gaps <- SmallGaps
  Arrivals <- Any
INVARIANTS
  BurstEndsInError
  SparseMissesTolerated

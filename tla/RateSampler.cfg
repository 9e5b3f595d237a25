SPECIFICATION Spec
CONSTANTS
  MaxName = 2
  Ids = {1, 2}
  MaxCount = 2
CHECK_DEADLOCK FALSE
INVARIANTS
  TypeOK
  RatesAddUp
  MixedRateNeedsAMove
PROPERTY
  NoRateAcrossAGap

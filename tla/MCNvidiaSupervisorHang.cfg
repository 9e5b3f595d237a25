SPECIFICATION Spec
CONSTANTS
  DefaultPeriod = 1
  MinPeriod = 1
  MaxPeriod = 1
  StaleFactor = 2
  MaxBackoff = 2
  MaxFailures = 2
  Slots = {s1}
  NoChild = NoChild
  PipeReports = 1
  AgeCap = 3
PROPERTY CallsReturn

SPECIFICATION Spec
CONSTANTS
  DefaultPeriod = 1
  MinPeriod = 1
  MaxPeriod = 2
  StaleFactor = 2
  MaxBackoff = 3
  MaxFailures = 2
  Slots = {s1}
  NoChild = NoChild
  PipeReports = 1
  AgeCap = 5
PROPERTIES
  CallsReturnIfDriverLetsGo
  LostChildIsReplaced
  ReadingsKeepComing

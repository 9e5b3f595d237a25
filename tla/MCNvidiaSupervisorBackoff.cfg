\* A child that starts and dies, again and again, without reporting a row.
SPECIFICATION Spec
CONSTANTS
  DefaultPeriod = 1
  MinPeriod = 1
  MaxPeriod = 1
  StaleFactor = 2
  MaxBackoff = 5
  MaxFailures = 3
  Slots = {s1}
  NoChild = NoChild
  PipeReports = 1
  AgeCap = 5
PROPERTY BackoffGrows

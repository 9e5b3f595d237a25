\* A child that writes up to three reports of one to three rows, with blank
\* lines and reports cut short by a change of the device set.
SPECIFICATION Spec
CONSTANTS
  MaxReports = 3
  MaxGPUs = 3
  PipeSize = 3
  ReadSize = 2
  Noise = {"blank", "cut"}
  MaxNoise = 1
CHECK_DEADLOCK FALSE
INVARIANTS
  TypeOK
  TickIsOneReport
  MemoryIsBounded
PROPERTIES
  DrainTakesTheNewest
  ImplementsReportFeed
  FinishedReportIsFramed

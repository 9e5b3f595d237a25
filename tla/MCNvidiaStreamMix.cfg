\* A child that also writes a line without a count between two rows.
SPECIFICATION Spec
CONSTANTS
  MaxReports = 3
  MaxGPUs = 2
  PipeSize = 3
  ReadSize = 2
  Noise = {"junk"}
  MaxNoise = 1
CHECK_DEADLOCK FALSE
INVARIANT NeverMixesTwoReports

SPECIFICATION Spec
CONSTANTS
  MaxWord = 7
  SectorSize = 2
  Millisecond = 2
  Unit = 2
  Megabyte = 2
  Hour = 2
  MaxDuration = 4
  Paths = {hwdata, misc}
  MaxVersions = 3
  Clients = {a, b}
  render = render
  video = video
  Classes = {render, video}
  Instances <- MCInstances
  MaxTime = 2
  MaxChanges = 1
CHECK_DEADLOCK FALSE
INVARIANTS
  RatesAreExact
  CapacitiesAreExact
  BatteryChargeIsBetween
  BatteryTimeIsBetween
  BatteryHealthIsOfOneFamily
  ThermalSourceIsBest
  CardReadingsAreItsOwn
  NamesAreOfTheFiles
  UsageIsBacked
  SteadyWorkCounts

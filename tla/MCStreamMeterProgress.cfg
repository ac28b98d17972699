\* Every way an exchange ends, with a meter that may be stuck or die.
CONSTANTS
  None = None
  Garbage = Garbage
  Answers <- Short
  Capacity = 1
  MaxChunk = 3
  Faults = {"upstream_dies", "client_gone", "meter_dies"}
SPECIFICATION RelaySpec
PROPERTIES RelayNeverWaits MeterReports

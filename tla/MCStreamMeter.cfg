\* Streams of all dialects cut into chunks at every place, over a channel of two.
CONSTANTS
  None = None
  Garbage = Garbage
  Answers <- Everything
  Capacity = 2
  MaxChunk = 3
  Faults = {"upstream_dies", "client_gone", "meter_dies"}
SPECIFICATION Spec
INVARIANTS TypeOK WholeStreamIsExact NeverOvercounts CompleteIsEarned

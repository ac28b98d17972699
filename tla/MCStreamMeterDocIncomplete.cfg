\* A message requested without streaming: one JSON object.
CONSTANTS
  None = None
  Garbage = Garbage
  Answers <- OneObject
  Capacity = 1
  MaxChunk = 3
  Faults = {}
SPECIFICATION Spec
INVARIANT IncompleteIsExplained

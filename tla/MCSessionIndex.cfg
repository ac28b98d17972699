\* Conversations of one, two and four messages that part at any place; sessions may be
\* dropped, and two shadow tasks wait at a time.
CONSTANTS
  None = None
  Messages = {m1, m2}
  Lengths = {1, 2, 4}
  Conversations <- Lists
  MinLevel = 2
  Retaining = TRUE
  MaxAnswers = 3
  MaxSpawned = 2
  NotesKept = 2
SPECIFICATION ShadowSpec
SYMMETRY MessageSymmetry
INVARIANTS TypeOK NoFalseMerge NoFalseSplit OneCandidate SamePartition
PROPERTIES SharedDepthIsHonest ImplementsSessions

\* Websockets and plain requests on a task and its second turn, one restart: an http upstream, then https.
CONSTANTS
  None = None
  r1 = r1  r2 = r2  r3 = r3  r4 = r4  s = s  x = x  y = y  z = z
  Reqs = {r1, r2, r3}
  Refs <- Turns
  Usages = {3}
  Rate = 1
  Scale = 2
  Ceiling = 1
  Share = None
  Scheme <- HttpThenHttps
  Upgrades = TRUE
  Faults = {"client_gone", "rewrite"}
  MaxRestarts = 1
  OrderlyClients = FALSE
SPECIFICATION FairSpec
INVARIANTS OneRecordPerRequest LiveCountsOpenAndLeaked PeakSurvives LedgerRebuildsArena
PROPERTIES PeakIsHighWater AnswersAreRecorded

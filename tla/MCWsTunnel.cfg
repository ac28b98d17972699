\* Tunnels cut at every byte through sockets of two bytes, ended by either peer at any time.
CONSTANTS
  None = None  Garbage = Garbage
  Requests <- AllHeaders
  Answers <- Codex
  ClientBytes <- Said
  Capacity = 2
  ChunkSize = 2
  MaxHead = 2
  Faults = {"client_gone", "upstream_gone", "upgrade_fails"}
SPECIFICATION FairSpec
CHECK_DEADLOCK FALSE
INVARIANTS InOrder RecordIsTheBill AnswerIsWhole UpgradeSurvives
PROPERTIES TunnelEnds NobodyBlocks

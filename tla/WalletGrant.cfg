\* One grant, with a node two ledgers behind and a change by another tool.
SPECIFICATION Spec
CONSTANTS
  MaxLedger = 5
  MaxEntries = 3
  MaxRules = 2
  MaxForeign = 1
  Lag = 2
  ReviewIds = {1}
  LiveTTL = 1
  ConsentMin = 1
  RunMin = 1
  InstallTTL = 3
  RemoveTTL = 3
  EvidenceAge = 4
  Window = 2
  MaxSessions = 1
PROPERTY SubmitsAlone
\* The ledger bound ends every behaviour.
CHECK_DEADLOCK FALSE

\* Install, remove, replace and install again, with a restart of the backend at any point.
SPECIFICATION Spec
CONSTANTS
  MaxLedger = 7
  MaxEntries = 5
  MaxRules = 2
  MaxForeign = 0
  Lag = 0
  ReviewIds = {1}
  LiveTTL = 1
  ConsentMin = 1
  RunMin = 1
  InstallTTL = 2
  RemoveTTL = 2
  EvidenceAge = 3
  Window = 2
  MaxSessions = 2
INVARIANTS OneGrantInForce RemovalSentOnce
\* The ledger bound ends every behaviour.
CHECK_DEADLOCK FALSE

\* Acquisitions from an endpoint whose nodes are at different ledgers.
CONSTANTS
    Ledgers <- MCLedgers
    MAX_U32 = 18
    MAX_LEDGER_ENTRY_KEYS = 7
    MAX_SUPPORTED_PROTOCOL = 3
    Base <- MCBase
    Setups <- MCSetups
    Faults = 1
    CAPTURE_ATTEMPTS = 2
    MAX_I64 = 7
SPECIFICATION Spec
INVARIANTS
    CapturedIsOneLedger
    RecordingIsTrue
    AssembledFits

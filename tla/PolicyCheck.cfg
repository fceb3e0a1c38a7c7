\* One prediction against ledgers that move while it reads.
CONSTANTS
    Accounts = {"self"}
    RuleIds = {1}
    Signers <- MCSigners
    Rules <- MCRules
    Requests = {}
    Jobs <- MCJobs
    Self = "self"
    KnownAccounts = {"hAccount"}
    Schemes <- MCSchemes
    KeyLimit = 18
    MAX_SIGNERS = 2
    MAX_POLICIES = 3
    MaxCandidates = 3
    MaxHistory = 3
    MAX_I128 = 8
    Lag = 1
    MaxOmit = 1
SPECIFICATION CheckSpec
INVARIANTS
    PredictionIsOfItsLedger
    CaptureIsWhole
PROPERTY
    CheckEnds

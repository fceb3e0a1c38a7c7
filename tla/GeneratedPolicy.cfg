\* Two accounts share one deployment; the window closes at ledger 5 of 6, beyond MaxTtl, so extensions recur.
SPECIFICATION Spec
CONSTANTS
    Accounts = {"a1", "a2"}
    RuleIds = {1}
    Signers = {"s1", "s2", "s3"}
    Rules <- LifecycleRules
    Requests <- LifecycleRequests
    MaxLedger = 6
    PermitBound = 2
    MinTtl = 2
    MaxTtl = 3
INVARIANTS CallBudget UseKeepsAlive PermitsAgree
PROPERTY RentOnlyForUse

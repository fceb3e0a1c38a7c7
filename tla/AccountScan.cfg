\* An account that changes at any point of the scan, nodes a ledger apart that
\* answer in any order, and an entry missing from any response.
SPECIFICATION Spec
CONSTANTS
    Instance = "instance"
    Rule <- MCRule
    Entries = {"policy", "signer"}
    Contracts = {"code"}
    Classics = {"classic", "owner"}
    Targets = {"owner"}
    Accounts <- MCAccounts
    Bounds <- MCBounds
    KeyLimit = 6
    FirstSlots = 1
    Lag = 1
    MaxOmit = 1
    MaxLedger = 2
INVARIANT AcceptedIsOneLedger
PROPERTY ScanEnds
CHECK_DEADLOCK FALSE

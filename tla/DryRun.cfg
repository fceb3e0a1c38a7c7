\* Every policy departure with a steady worker; the right policy with every worker departure.
SPECIFICATION Spec
VIEW View
CONSTANTS
    Accounts = {Acct}
    RuleIds = {1}
    Signers = {"s1", "s2", "x1", "u1", "u2"}
    Rules = {}
    Requests = {}
    I128Min <- MinI128
    I128Max = 100
    U32Max = 2000
    U64Max = 3000
    Unknown = "u1"
    Unknown2 = "u2"
    Stranger = Stranger
    Acct = Acct
    Bob = Bob
    True = True
    False = False
    ExternalSigners = {"x1"}
    Bootstrap = "bootstrap"
    AccountPin = "pin"
    MaxRuleCalls = 2
    MaxRuleArgs = 3
    MaxSuite = 60
    MaxStateful = 3
    MaxRequests = 60
    Sac = "sac"
    MaxAmount = 50
    RequiredDenials = 5
    Setups <- MCSetups
    Commands <- MCCommands
    ArgLists <- MCArgLists
INVARIANTS AcceptedIsSound CorrectPolicyMeets RunEndsClean
PROPERTY CoordinatorEnds
CHECK_DEADLOCK FALSE

\* Recordings of one account on two targets, edited documents, every kind of decision.
SPECIFICATION Spec
CONSTANTS
    Acct = Acct
    Bob = Bob
    Carol = Carol
    Token = Token
    Router = Router
    AccountCode = AccountCode
    RouterCode = RouterCode
    OtherCode = OtherCode
    BadText = BadText
    Stranger = Stranger
    True = True
    False = False
    Contracts = {Acct, Token, Router}
    MaxXdr = 4
    MaxTotal = 8
    MaxAuth = 2
    MaxChanges = 2
    MaxObserved = 3
    MaxProtocol = 25
    MaxPreimage = 6
    ExternalSigners = {"x1"}
    MaxRules = 2
    MaxRecordings = 2
    MaxCalls = 3
    MaxPolicies = 2
    MaxSigners = 3
    MaxArgs = 3
    MaxJustifications = 3
    Accounts = {Acct}
    RuleIds = {1}
    Signers = {"s1", "s2", "x1", "u1", "u2"}
    Rules = {}
    Requests = {}
    I128Min <- MinI128
    I128Max = 100
    U32Max = 2000
    U64Max = 3000
    Unknown = "u1"
    Unknown2 = "u2"
    RootKeys = {"root"}
    RootThreshold = 1
    PinnedAccount = AccountCode
    ReviewedSchemes <- NoSchemes
    Implemented <- MCImplemented
    MaxIndex = 9
    Acquisitions <- MCAcquisitions
    BundleEdits <- MCBundleEdits
    EditBundle <- MCEditBundle
    SynthRequests <- MCSynthRequests
    SpecEdits <- MCSpecEdits
    EditSpec <- MCEditSpec
    RegistryTrust <- MCRegistryTrust
    Now = 30
    ArgValues <- MCArgValues
INVARIANTS GroundedEvidence NoWiderThanDecided SuiteSound SuiteRefutesWeaker
CHECK_DEADLOCK FALSE

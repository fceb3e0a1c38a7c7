SPECIFICATION Spec
CONSTANTS
    AccountCode = "account_code"
    PasskeyCode = "passkey_code"
    Ed25519Code = "ed25519_code"
    LimitWasm = "limit_wasm"
    PolicyWasm = "policy_wasm"
    StrangeWasm = "strange_wasm"
    AddressKind <- MCAddressKind
    PublicKey <- MCPublicKey
    Wallet <- MCWallet
    KeyHeads <- MCKeyHeads
    Published <- MCPublished
    FirstTrust <- MCFirstTrust
    Setups <- MCSetups
    ReviewedSchemes <- MCReviewedSchemes
    TrueScheme <- MCReviewedSchemes
    Implemented <- MCImplemented
    LimitCode = {"limit_wasm"}
    RootKeys = {"r1"}
    RootThreshold = 1
    PinnedAccount = "account_code"
    MaxIndex = 100
    Testnet = "testnet"
    DevelopmentRoot = "r1"
    PasskeyVerifierCode = "passkey_code"
    NativeAsset = "asset"
    MonitorWindow = 1
INVARIANTS
    OnlyTrustedControl
    LimitIsTheOnlyWay
    CommitmentCoversPower
    UnchangedIsTrue
    OneRegistryHistory
CHECK_DEADLOCK FALSE

SPECIFICATION Spec
CONSTANTS
    Callers = {"c1", "c2"}
    Sessions = {"c1", "c2"}
    SessionOf <- MCSessionOf
    Tools = {"generate_code", "prepare_dry_run", "check_policy_call_surface",
             "record_transaction"}
    Specs = {"p1"}
    Toolchains = {"t1", "t2"}
    Identity <- MCIdentity
    KEPT_ARTIFACTS = 1
    HttpLimit = 2
    Metered = {"check_policy_call_surface"}
    DefaultPerMinute = 60
    Overrides <- MCOverrides
    Window = 3
    Config <- MCConfig
    BuildLimit = 1
    Cpus = 2
    MaxTimeout = 3
    MaxJobs = 2
    Bounds <- MCBounds
    MaxBuilds = 1
    MaxReads = 1
INVARIANTS
    OnePermittedRead
    BuildersBounded
    DeclaredToolsBuilt
    QuotaAcrossWindows
PROPERTIES
    EveryCallAnswered
    PermitComesBack
CHECK_DEADLOCK FALSE

\* Every short path, and every construct of a script, over a file system with two
\* changing places.
SPECIFICATION WalkerSpec
CONSTANTS
    Tree <- TreeOf
    Slot <- SlotOf
    Entry <- EntryOf
    Given <- GivenOf
    Workspace <- WorkspaceOf
    Cwd <- CwdOf
    Home <- HomeDir
    Art <- ArtOf
    Logs = "logs"
    Control = {"git"}
    Secrets <- SecretsOf
    Persistence <- PersistenceOf
    ScratchDirs <- ScratchOf
    SystemDirs <- SystemOf
    KernelLinks = 4
    GoLinks = 8
    Longest = 2
    NoPath = NoPath
    Command <- CommandOf
    Scripts <- ScriptsOf
    Moves <- Moving
    Leaks <- Leaking
    Followed <- Following
    MaxDepth = 1
    Credential = {"key"}
    NoScript = NoScript
INVARIANTS
    KernelDecides
    NameStaysProtected
    NoNeedlessDistrust
    WalkerTypeOK
    CommandsChecked
    FollowedIsTracked
    AllowKeepsPromise
    RootsSurvive

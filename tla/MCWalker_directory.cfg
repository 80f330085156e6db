\* Where the walker believes bash to be, when a cd may fail.
SPECIFICATION WalkerSpec
CONSTANTS
    Tree <- TreeOf
    Slot <- SlotOf
    Entry <- EntryOf
    Given <- GivenOf
    Workspace <- WorkspaceOf
    Cwd <- CwdOf
    Home <- HomeDir
    Art <- ArtOf
    Logs = "logs"
    Control = {"git"}
    Secrets <- SecretsOf
    Persistence <- PersistenceOf
    ScratchDirs <- ScratchOf
    SystemDirs <- SystemOf
    KernelLinks = 4
    GoLinks = 8
    Longest = 2
    NoPath = NoPath
    Command <- CommandOf
    Scripts <- MovesOf
    Moves <- Moving
    Leaks <- Leaking
    Followed <- Following
    MaxDepth = 1
    Credential = {"key"}
    NoScript = NoScript
INVARIANTS
    DirectoryTracked

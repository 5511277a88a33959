SPECIFICATION AccessSpec
CONSTANTS
    r1 = r1
    r2 = r2
    MCParts <- AllParts
    Reqs <- MCReqs
    Mixes <- MCMixes
    MaxMails = 2
    MaxFams = 2
    MaxRot = 3
    Threshold = 2
    MaxMisses = 2
    MaxEnrol = 2
    MaxJobs = 2
    MaxDeaths = 1
    Calls <- MCReqs
    CallMixes <- MCCallMixes
    Bundles <- MCBundles
    Folders <- MCFolders
    Schemas <- MCSchemas
    MaxStrats = 3
    MaxSecrets = 3
    Procs <- MCReqs
    MaxFlips = 2
    MaxFails = 2
    DeskReqs <- MCReqs
    Numbers <- MCNumbers
    TsNumbers <- MCTsNumbers
    MaxIds = 3
    MaxActive = 2
    MaxTurns = 3
    MaxMute = 1
    TsCalls <- MCReqs
    TsAccounts <- MCTsAccounts
    MaxLogins = 2
    MaxTokens = 3
    Desks <- MCReqs
    MaxDeputies = 2
INVARIANTS
    SessionsEnd
    GuessingIsBounded
    UploadsWhole
    DefaultsBounded
    StreamsHonest
    RowStaysUsable
PROPERTIES
    NothingComesBack
    OnlyConfirmedDevices
    DueGetsErased
    CopiesAreHarmless
    AccessConverges
CHECK_DEADLOCK FALSE

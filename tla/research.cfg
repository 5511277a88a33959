SPECIFICATION ResearchSpec
CONSTANTS
    c1 = c1
    c2 = c2
    MCParts <- AllParts
    Trip = 1
    EnvKey = FALSE
    Callers <- MCCallers
    Limit = 2
    HistoryKeep = 1
    MaxScreens = 2
    MaxKills = 1
    Clients <- MCCallers
    Cap = 1
    Checks = 1
    MaxRuns = 3
    MaxCrashes = 1
    Prices <- MCPrices
    Volumes <- MCVolumes
    Wanted <- MCWanted
    Bars = 6
    MaxFillBars = 2
    Slip = 1
    PerOrder = 1
    Lines <- MCLines
    Junk = Junk
    SmaWindows <- MCSma
    MaxNumber = 50
    PctMax = 10
    LimitMax = 4
    HistoryMax = 8
    MaxLines = 3
    Names <- MCNames
    Caps <- MCCaps
    Histories <- MCHistories
    Windows <- MCSma
    SLOPE_LOOKBACK = 1
    HIGH_WINDOW = 3
    Asked <- MCAsked
    Configs <- MCConfigs
    MaxWindows = 4
    Weekdays <- MCWeekdays
    LastDay = 7
    Closes <- MCPrices
    Fast = 2
    Slow = 3
    Declared <- MCDeclared
    Refinements <- MCRefinements
    Readings <- MCReadings
    Momentum <- MCMomentum
    Losses <- MCLosses
    Opinions <- MCOpinions
    Profiles <- MCProfiles
    Asks <- MCAsks
    Stories <- MCStories
    Impacts <- MCImpacts
    Sweepers <- MCSweepers
    MaxArticles = 2
    Batch = 1
    MaxAge = 1
    MaxAggs = 2
    MaxCuts = 1
INVARIANTS
    OneActiveScreen
    FinishedIsWhole
    CapHolds
    BooksClose
    ComputationsAgree
    SizingIsSafe
    SizeFollowsStress
    NewestNewsRead
PROPERTIES
    ResearchEnds
    ArticlesEndScored
CHECK_DEADLOCK FALSE

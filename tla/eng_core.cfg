CONSTANTS
    EngineServices <- EveryService
    Tasks = {"d1", "d2", "batch"}
    IOTasks = {"d1", "d2"}
    Persist = {"d1", "d2"}
    MaxConcurrentDownloads = 2
    MaxConcurrentOperations = 1
    Job <- Jobs
    Clients = {"c1"}
    Betas = {"beta"}
    LibGames = {"x", "y"}
    ClicksOverlap = FALSE
    MaxKills = 1
    Personas = {"ann", "bob"}
    MaxProfile = 2
    ProfileCallsOverlap = FALSE
    ExplicitLaunch = FALSE
    PlanGames = {"g1", "g2"}
    SteamGames = {"g1"}
    NativeGames = {}
    Players = {"p1", "p2"}
    PrefixChoices = {"shared"}
    MaxPlanEdits = 1
    PlanApart = TRUE
    Requests <- OptionCases
    Updaters = {"u1"}
    ToolCallsOverlap = FALSE
    MaxRelease = 2
    TrashGames = {"t1", "t2"}
    Abroad = {"t2"}
    TrashFiles = {"exe", "save"}
    TrashCallsOverlap = FALSE
    LaunchDuringTrash = FALSE
    MaxTrashName = 2
    MaxContent = 2
SPECIFICATION Spec
CHECK_DEADLOCK FALSE
INVARIANTS
    
    BranchKept
    BatchReaches
    LaunchPersona
    PrefixAsPlanned
    ToolsHonest
    NothingLost
    LaunchExplained

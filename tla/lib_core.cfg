CONSTANTS
    LibraryParts <- EveryPart
    Callers = {k1, k2}
    MaxChange = 2
    Items = {"w1"}
    Titles = {"t1", "t2"}
    Manual = {"m1"}
    MaxTime = 2
    ModCallsOverlap = FALSE
    VersionTTL = 1
    SteamTTL = 1
    MaxNow = 1
    MaxBuild <- Builds
    MaxStatus = 1
    Catalog <- SixDepots
    Kind <- Files
    EmuPaths = {"api"}
    Requests <- FiveRequests
    SystemLanguage = "english"
    MaxDamage = 1
    AppOrder <- TwoApps
    Executables <- TwoBinaries
    Traits <- TwoTraits
    LaunchEntries <- SteamEntries
    Platform = "windows"
    StartTrees <- Trees
    ExitsOverlap = FALSE
    MaxRebinds = 1
SPECIFICATION Spec
CHECK_DEADLOCK FALSE
INVARIANTS
    CacheFresh
    
    StatusHonest
    VerifyExact
    SelectionWhole
    ChoiceKept
PROPERTIES
    
    AppKept
SYMMETRY
    CallerSymmetry

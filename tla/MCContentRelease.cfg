SPECIFICATION Spec
CONSTANTS
    StartupTimeout = 2
    ProbeTimeout = 4
    ShutdownTimeout = 3
    ProcessTimeout = 4
    ClientPatience = 3
    TermPatience = 1
    Stale = 2
    Grace = 1
    MaxStalls = 2
    Refused = Refused
    Revisable = {"frames"}
    HandEdited = {"levels", "manifest", "bosses"}
    OldVersion = 8
    MaxEdits = 2
INVARIANTS
    OkMeansAnswered
    LiveParentIsSeen
    VerifyMeansFresh
    RegenerateConverges
PROPERTIES
    NothingLeftBehind
    SmokeEnds
CHECK_DEADLOCK FALSE

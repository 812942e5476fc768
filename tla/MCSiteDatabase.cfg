SPECIFICATION FairSpec
CONSTANTS
    Keys = {mac}
    Requested = {mac, linux}
    Workers = {w1, w2}
    MaxEvents = 2
    Procs = {server, tool}
    Server = server
    Names = {latest, beta}
    Singleton = latest
    OldReleases = {1, 3}
    OldCurrents = {0, 1}
    OldTables = TRUE
    MaxRows = 3
    None = None
INVARIANT TotalsMatchEvents
INVARIANT AcceptedIsCounted
INVARIANT LegacyComplete
PROPERTY SavedOnLoaded
PROPERTY NumbersGoUp
PROPERTY EveryDownloadAnswers

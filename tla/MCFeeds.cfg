SPECIFICATION FairSpec
CONSTANTS
    n1 = n1
    n2 = n2
    m1 = m1
    m2 = m2
    Names = {n1}
    Contents = {m1, m2, big, foreign}
    Manifests = {m1, m2, big}
    Readable = {m1, m2}
    Absent = Absent
    Legacy <- BothLegacy
    LegacyCurrent <- Pointers
    Workers = {w1, w2}
    MaxRevisions = 3
    None = None
INVARIANT ExportComplete
PROPERTY ImportKeepsFiles
PROPERTY SwitchesOnce
PROPERTY HistoryOnlyGrows
PROPERTY SavedMeansSaved
PROPERTY EverySaveAnswers
PROPERTY ImplementsStore

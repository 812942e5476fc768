SPECIFICATION Spec
CONSTANTS
    n1 = n1
    n2 = n2
    m1 = m1
    m2 = m2
    Names = {n1, n2}
    Contents = {m1, foreign}
    Manifests = {m1}
    Readable = {m1}
    Absent = Absent
    Legacy <- NoLegacy
    LegacyCurrent <- Pointers
    Workers = {w1}
    MaxRevisions = 2
    None = None
INVARIANT ManifestsAppearInAdmin

SPECIFICATION Spec
CONSTANTS
    v1 = v1
    v2 = v2
    v3 = v3
    allowed = allowed
    foreign = foreign
    Versions = {v1, v2, v3}
    Types = {png, jpg}
    Origins = {allowed, foreign}
    Allowed = {allowed}
    OriginOf <- OneForeign
    Workers = {w1, w2}
    MaxRedirects = 3
    Stray = Stray
    Partial = Partial
    Absent = Absent
    None = None
SYMMETRY Symmetry
INVARIANT NoNeedlessFetch
INVARIANT OneFileLeft
INVARIANT AloneIsServed
INVARIANT AllowedHosts
PROPERTY ServedIsOwn

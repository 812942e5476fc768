SPECIFICATION Spec
CONSTANTS
    k1 = k1
    k2 = k2
    Keys = {k1, k2}
    Callers = {c1, c2}
    Limit <- TwoLimits
    Window = 3
    SweepAge = 4
    Capacity = 1
    MaxDelay = 1
    MaxTime = 7
    None = None
SYMMETRY Symmetry
INVARIANT RateBound
PROPERTY DenialJustified

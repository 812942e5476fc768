SPECIFICATION Spec
CONSTANTS
    Keys = {mac}
    Paths = {f1, f2}
    Contents = {b1, b2}
    Publishers = {p1, p2}
    Absent = Absent
    None = None
SYMMETRY Symmetry
PROPERTY AloneDescribesFile
PROPERTY AloneKeepsFile

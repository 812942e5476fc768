SPECIFICATION Spec
CONSTANTS
    Tabs = {t1, t2}
    Attempts = {a1, a2, a3}
    Allowed = {a1, a2}
    Plain = {a1, a3}
    Trusted = {"start", "continue"}
    Sessions = {s1, s2}
    Mangled = Mangled
    None = None
SYMMETRY Symmetry
INVARIANT RedirectUnmixed
INVARIANT CalmComesHome
PROPERTY NoReplay

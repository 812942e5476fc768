SPECIFICATION Spec
CONSTANTS
    Workers = {w1, w2}
    SessionIds = {s1, s2}
    TicketIds = {t1, t2}
    StateIds = {o1, o2}
    CodeIds = {}
    Digits = {}
    Emails = {"a", "b"}
    Subjects = {"g1", "g2"}
    AdminEmails = {}
    MaxUsers = 2
    MaxTime = 1
    SessionTTL = 2
    TicketTTL = 1
    StateTTL = 1
    CodeTTL = 1
    None = None
    Kinds = {"googleStart", "googleDesktopStart", "googleCallback", "desktopTicket"}
SYMMETRY Symmetry
INVARIANT SingleUse
INVARIANT RightOwner

SPECIFICATION Spec
CONSTANTS
    Workers = {w1, w2}
    SessionIds = {s1}
    TicketIds = {}
    StateIds = {}
    CodeIds = {c1}
    Digits = {"111111"}
    Emails = {"a", "b"}
    Subjects = {"g1"}
    AdminEmails = {"a"}
    MaxUsers = 2
    MaxTime = 0
    SessionTTL = 1
    TicketTTL = 1
    StateTTL = 1
    CodeTTL = 1
    None = None
    Kinds = {"emailCodeStart", "emailCodeVerify", "desktopIdToken", "authentikSession", "adminSave"}
SYMMETRY Symmetry
INVARIANT OriginLinked
INVARIANT AdminsAreConfigured
INVARIANT RightOwner
INVARIANT AdminSaveByAdmin
PROPERTY IdentityNeverMoves

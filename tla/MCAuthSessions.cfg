SPECIFICATION Spec
CONSTANTS
    Workers = {w1, w2}
    SessionIds = {s1}
    TicketIds = {t1}
    StateIds = {}
    CodeIds = {}
    Digits = {}
    Emails = {"a"}
    Subjects = {"g1"}
    AdminEmails = {"a"}
    MaxUsers = 1
    MaxTime = 2
    SessionTTL = 2
    TicketTTL = 1
    StateTTL = 1
    CodeTTL = 1
    None = None
    Kinds = {"login", "desktopToken", "marketRead", "marketWrite", "adminSave", "logout", "desktopTicket", "desktopContinue", "desktopBridge"}
SYMMETRY Symmetry
INVARIANT RenewalKeepsStart
PROPERTY GrantNeedsLiveSession
PROPERTY DisabledStaysOut

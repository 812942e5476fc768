SPECIFICATION Spec
CONSTANTS
    Workers = {w1, w2}
    SessionIds = {s1, s2}
    TicketIds = {}
    StateIds = {}
    CodeIds = {c1, c2}
    Digits = {"111111", "222222"}
    Emails = {"a", "b"}
    Subjects = {}
    AdminEmails = {}
    MaxUsers = 2
    MaxTime = 1
    SessionTTL = 2
    TicketTTL = 1
    StateTTL = 1
    CodeTTL = 1
    None = None
    Kinds = {"emailCodeStart", "emailCodeVerify"}
SYMMETRY Symmetry
INVARIANT TypeOK
INVARIANT SingleUse

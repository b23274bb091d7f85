SPECIFICATION Spec
CONSTANTS
    a = a
    b = b
    c = c
    d = d
    p = p
    q = q
    p1 = p1
    p2 = p2
    Users = {a, b, c, d}
    NoUser = NoUser
    SecurityRoles = {}
    Procs = {p1, p2}
    Passwords = {p, q}
    NoPassword = NoPassword
    PasswordHistory = 1
    LockoutThreshold = 2
    Lockout = 1
    MaxAge = 0
    Inactive = 0
    Expiries <- NeverOnly
    Initial <- FirstAccounts
    Installations <- AtFirst
    Modes <- AllModes
    MaxTokens = 6
    MaxTime = 1
SYMMETRY Symmetric
INVARIANTS
    DutyIsHeld
    TemporaryIsMarked
    LoginGuessesAreBounded
    DecisionKept
PROPERTIES
    DeletedStaysDeleted
CHECK_DEADLOCK FALSE

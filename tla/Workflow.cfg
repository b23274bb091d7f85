SPECIFICATION Spec
CONSTANTS
    w1 = w1
    w2 = w2
    u1 = u1
    u2 = u2
    d1 = d1
    g1 = g1
    Workers = {w1, w2}
    Users = {u1, u2}
    Detections = {d1}
    Groups = {g1}
    GroupOf <- SameGroup
    NoGroup = NoGroup
    Nobody = Nobody
    Modes <- AllModes
    MaxRelated = 1
    MaxAlerts = 2
    MaxTickets = 2
SYMMETRY Symmetric
INVARIANTS
    ReviewedByAnother
    OneOpenTicket
    Covered
    AlertInStep
CHECK_DEADLOCK FALSE

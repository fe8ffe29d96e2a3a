SPECIFICATION FairSpec
CONSTANTS
    None = None
    w1 = w1
    w2 = w2
    w3 = w3
    guest1 = guest1
    guest2 = guest2
    host = host
    admin = admin
    a1 = a1
    r1 = r1
    r2 = r2
    v1 = v1
    v2 = v2
    Role <- MCRole
    Workers = {w1, w2}
    Users = {guest1, host}
    ActivityIds = {a1}
    RegistrationIds = {r1, r2}
    Vouchers = {v1}
    Capacities = {0}
    UniqueSignup = TRUE
    Operations = {"update", "delete", "signup", "offline", "cancel", "review", "checkIn"}
PROPERTIES
    EveryRequestEnds

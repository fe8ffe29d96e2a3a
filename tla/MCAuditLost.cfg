SPECIFICATION ServicesSpec
CONSTANTS
    None = None
    w1 = w1
    w2 = w2
    u1 = u1
    u2 = u2
    bob = bob
    eve = eve
    spacedBob = spacedBob
    secret1 = secret1
    secret2 = secret2
    nick = nick
    guest = guest
    host = host
    root = root
    c1 = c1
    c2 = c2
    r1 = r1
    r2 = r2
    Workers = {w1, w2}
    Ids = {u1, u2}
    Names = {bob, eve, spacedBob}
    Trim <- MCTrim
    Passwords = {secret1, secret2}
    Nicknames = {nick}
    Users = {guest, host, root}
    Admins = {root}
    CommentIds = {c1, c2}
    Asked = {0, 1, 5}
    Role <- MCRole
    Requests = {r1, r2}
SYMMETRY MCSymmetry
INVARIANTS
    WritesAreRecorded
CHECK_DEADLOCK FALSE

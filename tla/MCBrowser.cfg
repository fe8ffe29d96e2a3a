SPECIFICATION MCSpec
CONSTANTS
    None = None
    t1 = t1
    t2 = t2
    all = all
    drafts = drafts
    ann = ann
    ben = ben
    n1 = n1
    n2 = n2
    n3 = n3
    c1 = c1
    c2 = c2
    c3 = c3
    k1 = k1
    k2 = k2
    Tabs = {t1, t2}
    Patient = {t1}
    MaxTokens = 2
    Pages = {"list", "organizer"}
    Filters = {all, drafts}
    MaxCalls = 3
    MaxVersion = 1
    MaxErrors = 1
    Users = {ann, ben}
    Hasty = {ben}
    MaxLost = 1
    Ids = {n1, n2, n3}
    PageSize = 2
    Calls = {c1, c2, c3}
    Pair = {k1, k2}
SYMMETRY MCSymmetry
INVARIANTS
    ShownUserIsTheTokens
    SettledListIsTheOneAsked
    FavoritedAtMostOnce
    ButtonTellsTheTruth
    ShownReadIsRead
PROPERTIES
    LoginLasts
CHECK_DEADLOCK FALSE

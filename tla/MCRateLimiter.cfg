SPECIFICATION FairSpec
CONSTANTS
    None = None
    ip1 = ip1
    ip2 = ip2
    Addresses = {ip1, ip2}
    Capacity = 3
    Minute = 4
    Pause <- MCPause
INVARIANTS
    TypeOK
    AtMostCapacityPerMinute
PROPERTIES
    RefusedIsServedLater

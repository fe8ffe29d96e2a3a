SPECIFICATION FairSpec
CONSTANT
    MaxFailures = 4
INVARIANT
    PresetsBelongToTheirUsers
PROPERTY
    ServesInTheEnd
CHECK_DEADLOCK FALSE

CONSTANTS
    l1 = l1
    l2 = l2
    g1 = g1
    g2 = g2
    z1 = z1
    c1 = c1
    Lights = {l1, l2}
    Groups = {g1, g2}
    Zones = {z1}
    Scenes = {c1}
    NoGroup = NoGroup
    Me = Me
    Other = Other
    Nobody = Nobody
    InitialBridges <- MCInitialBridges
    MaxSessions = 1
    useForcedActivation = FALSE
    MaxChanges = 2
    MaxFetches = 2
    MaxLocations = 2
SPECIFICATION Spec
CHECK_DEADLOCK FALSE
INVARIANTS
    ResourcesFollow
PROPERTIES
    SelectionIsValid
    StreamLossIsTold

CONSTANTS
    b1 = b1
    b2 = b2
    i1 = i1
    i2 = i2
    g1 = g1
    g2 = g2
    Ids = {b1, b2}
    NoId = NoId
    Ips = {i1, i2, loopback}
    Loopback = loopback
    NoIp = NoIp
    Groups = {g1, g2}
    NoGroup = NoGroup
    Objects = {1, 2, 3, 4, 5, 6, 7, 8, 9, 10}
    NoFile = NoFile
    Setups <- ResetComesFirst
SPECIFICATION Spec
CHECK_DEADLOCK FALSE
PROPERTIES
    ResetBridgeKeepsOthers

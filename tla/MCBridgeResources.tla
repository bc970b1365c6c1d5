-------------------------- MODULE MCBridgeResources --------------------------
(* The bridges to begin with: a light in two places of a group and in a     *)
(* zone; a group that streams; two groups, the second with another streamer.*)
EXTENDS BridgeResources

CONSTANTS l1, l2, g1, g2, z1, c1

MCBridge(devices, on, groups, zones, scenes) ==
    [devices |-> devices, on |-> [l \in Lights |-> l \in on],
     reachable |-> [l \in Lights |-> TRUE], groups |-> groups, zones |-> zones,
     scenes |-> scenes,
     spent |-> devices \cup DOMAIN groups \cup DOMAIN zones \cup DOMAIN scenes]

MCGroup(locations, owner) == [locations |-> locations, owner |-> owner]

MCInitialBridges ==
    {MCBridge({l1, l2}, {l1}, g1 :> MCGroup(<<l1, l1>>, Nobody), z1 :> {l1}, <<>>),
     MCBridge({l1}, {}, g1 :> MCGroup(<<l1>>, Me), <<>>, <<>>),
     MCBridge({l1, l2}, {l2}, g1 :> MCGroup(<<l1>>, Nobody) @@ g2 :> MCGroup(<<l2, l1>>, Other),
              z1 :> {l1, l2}, c1 :> [zone |-> z1, look |-> 0])}

============================================================================

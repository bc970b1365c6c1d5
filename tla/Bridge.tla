------------------------------- MODULE Bridge -------------------------------
(***************************************************************************)
(* common/data/Bridge.cpp: what the library knows about one Hue bridge,    *)
(* reduced to the facts its decisions depend on, and the status it derives *)
(* from them.                                                              *)
(*                                                                         *)
(*   id       _id, NoId when empty                                         *)
(*   ip       _ipAddress, NoIp when empty                                  *)
(*   validIp  _isValidIp: the last request to the address was answered     *)
(*   auth     _isAuthorized                                                *)
(*   model    IsValidModelId: the model id names a supported bridge        *)
(*   version  IsValidApiVersion                                            *)
(*   v2       IsSupportingClipV2                                           *)
(*   cred     "none" (no user), "user" (a user without a client key) or    *)
(*            "full" (a user and a 32 character client key)                *)
(*   groups   the ids of _groups                                           *)
(*   sel      _selectedGroup, NoGroup when empty; it may be stale          *)
(*   mine     the groups that are active and owned by this application     *)
(*   busy     _isBusy: the bridge refused a stream                         *)
(***************************************************************************)
EXTENDS FiniteSets, Sequences

CONSTANTS Ids, NoId, Ips, NoIp, Groups, NoGroup

ASSUME NoValueAssumption ==
    NoId \notin Ids /\ NoIp \notin Ips /\ NoGroup \notin Groups

Credentials == {"none", "user", "full"}

Bridges == [id : Ids \cup {NoId}, ip : Ips \cup {NoIp}, validIp : BOOLEAN,
            auth : BOOLEAN, model : BOOLEAN, version : BOOLEAN, v2 : BOOLEAN,
            cred : Credentials, groups : SUBSET Groups,
            sel : Groups \cup {NoGroup}, mine : SUBSET Groups, busy : BOOLEAN]

(* A new Bridge object.  Bridge::Clear leaves this and the _swversion,     *)
(* which the new bridge it is called for (after a Load) does not have yet. *)
EmptyBridge == [id |-> NoId, ip |-> NoIp, validIp |-> FALSE, auth |-> FALSE,
                model |-> FALSE, version |-> FALSE, v2 |-> FALSE,
                cred |-> "none", groups |-> {}, sel |-> NoGroup, mine |-> {},
                busy |-> FALSE]

IsEmpty(b) == b.ip = NoIp
IsFound(b) == ~IsEmpty(b) /\ b.id # NoId
IsConnectable(b) == IsFound(b) /\ b.cred # "none" /\ b.auth /\ b.model
IsConnected(b) == IsConnectable(b) /\ b.validIp
IsValidGroupSelected(b) == b.sel \in b.groups
HasEverBeenAuthorizedForStreaming(b) ==
    IsFound(b) /\ b.model /\ b.cred = "full"
IsAuthorizedForStreaming(b) == HasEverBeenAuthorizedForStreaming(b) /\ b.auth

(* The first test that fails names the status. *)
GetStatus(b) ==
    IF IsEmpty(b) THEN "EMPTY"
    ELSE IF ~IsFound(b) THEN "NOT_FOUND"
    ELSE IF ~b.model THEN "INVALID_MODEL"
    ELSE IF ~IsConnectable(b) THEN "NOT_CONNECTABLE"
    ELSE IF ~IsConnected(b) THEN "NOT_CONNECTED"
    ELSE IF ~b.version THEN "INVALID_VERSION"
    ELSE IF b.cred # "full" THEN "INVALID_CLIENTKEY"
    ELSE IF b.groups = {} THEN "NO_GROUP_AVAILABLE"
    ELSE IF ~IsValidGroupSelected(b) THEN "INVALID_GROUP_SELECTED"
    ELSE IF b.busy THEN "BUSY"
    ELSE IF b.sel \in b.mine THEN "STREAMING"
    ELSE "READY"

IsReadyToStream(b) == GetStatus(b) = "READY"
IsStreaming(b) == GetStatus(b) = "STREAMING"

(* SelectGroupIfOnlyOneOption: returns whether it selected. *)
HasOneGroup(b) == Cardinality(b.groups) = 1
SelectOnlyGroup(b) == [b EXCEPT !.sel = CHOOSE g \in b.groups : TRUE]

(* What comes back of a bridge that was saved and loaded: a group's stream *)
(* state and the busy flag are not written to the file.                    *)
Stored(b) == [b EXCEPT !.mine = {}, !.busy = FALSE]

(* CompareBridges (BridgeStreamingChecker.cpp): the feedback messages that *)
(* tell a client how bridge old became bridge new, in their order.  The    *)
(* messages about names, groups and lights, which nobody acts upon, are    *)
(* the one message BRIDGE_CHANGED.                                         *)
CompareBridges(old, new) ==
    LET When(c, id) == IF c THEN <<id>> ELSE <<>>
    IN  When(~IsConnected(old) /\ IsConnected(new), "BRIDGE_CONNECTED")
     \o When(IsConnected(old) /\ ~IsConnected(new), "BRIDGE_DISCONNECTED")
     \o When(~IsStreaming(old) /\ IsStreaming(new), "STREAMING_CONNECTED")
     \o When(IsStreaming(old) /\ ~IsStreaming(new), "STREAMING_DISCONNECTED")
     \o When(\E f \in {"id", "ip", "model", "version", "cred", "groups",
                       "mine"} : old[f] # new[f],
             "BRIDGE_CHANGED")
=============================================================================

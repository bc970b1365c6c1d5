--------------------------- MODULE BridgeResources ---------------------------
(***************************************************************************)
(* The data half of BridgeConfigRetriever: what it keeps of the resources  *)
(* of a CLIP v2 bridge, filled by a fetch and kept up to date by events.   *)
(*                                                                         *)
(* A device, its light service, its zigbee connectivity and its            *)
(* entertainment service are one member of Lights.  The on state of a      *)
(* light stands for all that UpdateLight copies.  The bridge is external:  *)
(* it changes, sends an event of each change, and batches events.  The     *)
(* callbacks of the requests and of the event stream run one at a time, on *)
(* the HTTP thread; the selection of a group and the monitor's events come *)
(* between them.                                                           *)
(***************************************************************************)
EXTENDS Naturals, FiniteSets, Sequences, SequencesExt

CONSTANTS
    Lights, Groups, Zones, Scenes,  \* ids of resources that the bridge may have
    InitialBridges,                 \* the bridges to begin with
    NoGroup,                        \* no group is selected
    Me, Other, Nobody,              \* who streams to a group
    MaxSessions,                    \* _bridge->GetMaxNoStreamingSessions()
    useForcedActivation,            \* _useForcedActivation
    MaxChanges,                     \* bound: changes of the bridge
    MaxFetches,                     \* bound: retrievals and refreshes
    MaxLocations                    \* bound: places of lights in a group

ASSUME BoundAssumption == {MaxSessions, MaxChanges, MaxFetches, MaxLocations} \subseteq Nat
ASSUME NoneAssumption == NoGroup \notin Groups /\ Cardinality({Me, Other, Nobody}) = 3

VARIABLES
    real,       \* external: what the bridge has
    events,     \* external: the messages on their way, each a sequence of items
    app,        \* what the retriever and its _bridge have
    stage,      \* the resource that the fetch gets next, "listening" or "idle"
    refreshing, \* _refreshing
    canSendStreamingDisconnectedEvent,
    missed,     \* history: the bridge changed while no one listened
    told,       \* history: how often ID_STREAMING_DISCONNECTED was sent
    changes, fetches    \* history: count what MaxChanges and MaxFetches bound

vars == <<real, events, app, stage, refreshing, canSendStreamingDisconnectedEvent, missed, told,
          changes, fetches>>

\* The order in which a fetch gets the resources and a message is parsed.
Types == <<"device", "zigbee_connectivity", "light", "zone", "entertainment_configuration",
           "scene">>

Stages == {"idle", "listening"} \cup {Types[i] : i \in DOMAIN Types}

Item(type, op, id, data) == [type |-> type, op |-> op, id |-> id, data |-> data]

Change(list, P(_), F(_)) == [i \in DOMAIN list |-> IF P(list[i]) THEN F(list[i]) ELSE list[i]]
Ids(list) == {list[i].id : i \in DOMAIN list}
Count(g, l) == Cardinality({i \in DOMAIN g.lights : g.lights[i].id = l})

-----------------------------------------------------------------------------
(* The records of the retriever.  devices, zigbee, light and scene are the  *)
(* maps of JSON nodes; latest, drift, kept and unreckoned are history: the  *)
(* last on state told of a light; the groups and zones that have a light in *)
(* another state than that, or a light that is gone; the groups whose on    *)
(* state is not that of their lights; whether busy was set before the last  *)
(* group was there or selected, or by the flow.                             *)

Empty(selected, busy) ==
    [devices |-> {}, zigbee |-> <<>>, light |-> <<>>, scene |-> <<>>,
     groups |-> <<>>, zones |-> <<>>, selected |-> selected, busy |-> busy,
     latest |-> <<>>, drift |-> {}, kept |-> {}, unreckoned |-> {}, uncounted |-> TRUE]

Put(f, x, y) == [z \in DOMAIN f \cup {x} |-> IF z = x THEN y ELSE f[z]]
Erase(f, x) == [z \in DOMAIN f \ {x} |-> f[z]]

SelectedGroup(s) == SelectSeq(s.groups, LAMBDA g : g.id = s.selected)

IsStreaming(s) ==
    LET sel == SelectedGroup(s) IN sel # <<>> /\ ~s.busy /\ Head(sel).owner = Me

\* What the end of ParseStreamActive sets _isBusy to.
Busy(s) ==
    LET sel == SelectedGroup(s)
        overtaken == sel # <<>> /\ Head(sel).owner # Nobody /\ useForcedActivation
    IN Cardinality({i \in DOMAIN s.groups : s.groups[i].owner # Nobody}) >= MaxSessions
       /\ ~overtaken

UpdateBusy(s) ==
    IF IsStreaming(s) THEN s ELSE [s EXCEPT !.busy = Busy(s), !.uncounted = FALSE]

ParseLightInfo(s, l) ==
    [id |-> l, on |-> s.light[l],
     reachable |-> l \in s.devices /\ l \in DOMAIN s.zigbee /\ s.zigbee[l]]

On(g) == \E i \in DOMAIN g.lights : g.lights[i].reachable /\ g.lights[i].on

UpdateGroupOn(g) == [g EXCEPT !.on = On(g)]

\* The lights of the locations, by the devices of their entertainment services.
ParseLights(s, g, locations) ==
    LET known == SelectSeq(locations, LAMBDA l : l \in s.devices /\ l \in DOMAIN s.light)
    IN UpdateGroupOn([g EXCEPT !.lights = [i \in DOMAIN known |-> ParseLightInfo(s, known[i])]])

ParseZoneLights(s, z, children) ==
    [z EXCEPT !.lights = {ParseLightInfo(s, l) : l \in children \cap DOMAIN s.light}]

\* History: c, a group or a zone, has the lights as the map has them.
Parsed(s, c) ==
    [s EXCEPT !.drift = {p \in @ : p[1] # c}
                        \cup {<<c, l>> : l \in {k \in DOMAIN s.light : s.light[k] # s.latest[k]}},
              !.kept = {p \in @ : p[1] # c},
              !.unreckoned = @ \ {c}]

-----------------------------------------------------------------------------
(* ParseJsonEvent, for one item *)

Device(s, it) ==
    [s EXCEPT !.devices = IF it.op = "add" THEN @ \cup {it.id}
                          ELSE IF it.op = "delete" THEN @ \ {it.id} ELSE @]

AddZigbeeConnectivity(s, it) ==
    IF it.id \in s.devices THEN [s EXCEPT !.zigbee = Put(@, it.id, it.data)] ELSE s

\* The first light of that id in each group; the on states of the groups stay.
SetFirst(g, l, F(_)) ==
    LET i == CHOOSE i \in DOMAIN g.lights :
                 g.lights[i].id = l /\ \A j \in 1 .. i - 1 : g.lights[j].id # l
    IN [g EXCEPT !.lights[i] = F(@)]

UpdateZigbeeConnectivity(s, it) ==
    LET Has(g) == Count(g, it.id) > 0
        Set(g) == SetFirst(g, it.id, LAMBDA x : [x EXCEPT !.reachable = it.data])
        t == [s EXCEPT !.zigbee[it.id] = it.data]
        had == {s.groups[i].id : i \in {j \in DOMAIN s.groups : Has(s.groups[j])}}
        more == {s.groups[i].id : i \in {j \in DOMAIN s.groups : Count(s.groups[j], it.id) > 1}}
    IN IF it.id \notin DOMAIN s.zigbee THEN s
       ELSE IF it.id \notin s.devices THEN t
       ELSE [t EXCEPT !.groups = Change(@, Has, Set),
                      !.unreckoned = @ \cup had,
                      !.drift = @ \cup {<<g, it.id>> : g \in more}]

AddLight(s, it) ==
    [s EXCEPT !.light = Put(@, it.id, it.data), !.latest = Put(@, it.id, it.data)]

\* The node that it changes is a copy: the map keeps the state of before.
UpdateLight(s, it) ==
    LET l == it.id
        Has(g) == Count(g, l) > 0
        SetOn(x) == [x EXCEPT !.on = it.data]
        Set(g) == UpdateGroupOn(SetFirst(g, l, SetOn))
        had == {s.groups[i].id : i \in {j \in DOMAIN s.groups : Has(s.groups[j])}}
        more == {s.groups[i].id : i \in {j \in DOMAIN s.groups : Count(s.groups[j], l) > 1}}
    IN IF l \notin DOMAIN s.light THEN s
       ELSE [s EXCEPT
               !.groups = Change(@, Has, Set),
               !.zones = Change(@, LAMBDA z : TRUE,
                            LAMBDA z : [z EXCEPT !.lights = {IF x.id = l THEN SetOn(x) ELSE x
                                                             : x \in @}]),
               !.latest[l] = it.data,
               !.unreckoned = @ \ had,
               !.drift = {p \in @ : p[2] # l} \cup {<<g, l>> : g \in more}]

\* Each further light of that id starts again from the list as it was: of two
\* one remains.
DeleteLight(s, it) ==
    LET l == it.id
        Has(g) == Count(g, l) > 0
        last(g) == CHOOSE i \in DOMAIN g.lights :
                       g.lights[i].id = l
                       /\ \A j \in i + 1 .. Len(g.lights) : g.lights[j].id # l
        Dropped(g) == UpdateGroupOn([g EXCEPT !.lights = RemoveAt(@, last(g))])
        had == {s.groups[i].id : i \in {j \in DOMAIN s.groups : Has(s.groups[j])}}
        more == {s.groups[i].id : i \in {j \in DOMAIN s.groups : Count(s.groups[j], l) > 1}}
    IN [s EXCEPT !.light = Erase(@, l), !.latest = Erase(@, l),
                 !.groups = Change(@, Has, Dropped),
                 !.unreckoned = @ \ had,
                 !.kept = @ \cup {<<g, l>> : g \in more}]

AddZone(s, it) ==
    LET z == [id |-> it.id, lights |-> {}, scenes |-> <<>>]
    IN Parsed([s EXCEPT !.zones = Append(@, ParseZoneLights(s, z, it.data))], it.id)

UpdateZone(s, it) ==
    IF it.id \notin Ids(s.zones) THEN s
    ELSE Parsed([s EXCEPT !.zones = Change(@, LAMBDA z : z.id = it.id,
                                           LAMBDA z : ParseZoneLights(s, z, it.data))], it.id)

DeleteZone(s, it) == [s EXCEPT !.zones = SelectSeq(@, LAMBDA z : z.id # it.id)]

\* ParseStreamActive comes before the group is in the list.
AddEntertainmentConfiguration(s, it) ==
    LET g == [id |-> it.id, owner |-> it.data.owner, on |-> FALSE, lights |-> <<>>]
        t == UpdateBusy(s)
    IN Parsed([t EXCEPT !.groups = Append(@, ParseLights(s, g, it.data.locations)),
                        !.uncounted = it.data.owner # Nobody], it.id)

\* Either the status and the streamer have changed, or the locations have.
UpdateEntertainmentConfiguration(s, it) ==
    LET Is(g) == g.id = it.id
    IN IF it.id \notin Ids(s.groups) THEN s
       ELSE IF "owner" \in DOMAIN it.data
       THEN UpdateBusy([s EXCEPT !.groups =
                            Change(@, Is, LAMBDA g : [g EXCEPT !.owner = it.data.owner])])
       ELSE Parsed([s EXCEPT !.groups =
                        Change(@, Is, LAMBDA g : ParseLights(s, g, it.data.locations))], it.id)

\* Mutant: the group stays selected.
BugDeleteEntertainmentConfiguration(s, it) ==
    [s EXCEPT !.groups = SelectSeq(@, LAMBDA g : g.id # it.id)]

DeleteEntertainmentConfiguration(s, it) ==
    [s EXCEPT !.groups = SelectSeq(@, LAMBDA g : g.id # it.id),
              !.selected = IF @ = it.id THEN NoGroup ELSE @]

\* The zone of a scene, none or one: that of its group or, in an item without
\* one, that of the node that was kept.
GetZoneFromScene(s, it) ==
    Ids(s.zones) \cap IF it.op = "add" THEN {it.data.zone}
                      ELSE {s.scene[c] : c \in DOMAIN s.scene \cap {it.id}}

SetScene(s, it, F(_)) ==
    [s EXCEPT !.zones = Change(@, LAMBDA z : z.id \in GetZoneFromScene(s, it),
                               LAMBDA z : [z EXCEPT !.scenes = F(@)])]

AddScene(s, it) ==
    IF GetZoneFromScene(s, it) = {} THEN s
    ELSE [SetScene(s, it, LAMBDA f : Put(f, it.id, it.data.look))
             EXCEPT !.scene = Put(@, it.id, it.data.zone)]

UpdateScene(s, it) ==
    SetScene(s, it, LAMBDA f : IF it.id \in DOMAIN f THEN Put(f, it.id, it.data.look) ELSE f)

DeleteScene(s, it) ==
    IF GetZoneFromScene(s, it) = {} THEN s
    ELSE [SetScene(s, it, LAMBDA f : Erase(f, it.id)) EXCEPT !.scene = Erase(@, it.id)]

-----------------------------------------------------------------------------
Apply(s, it) ==
    LET type == it.type
        op == it.op
    IN CASE type = "device" -> Device(s, it)
         [] type = "zigbee_connectivity" /\ op = "add" -> AddZigbeeConnectivity(s, it)
         [] type = "zigbee_connectivity" /\ op = "update" -> UpdateZigbeeConnectivity(s, it)
         [] type = "zigbee_connectivity" /\ op = "delete" -> [s EXCEPT !.zigbee = Erase(@, it.id)]
         [] type = "light" /\ op = "add" -> AddLight(s, it)
         [] type = "light" /\ op = "update" -> UpdateLight(s, it)
         [] type = "light" /\ op = "delete" -> DeleteLight(s, it)
         [] type = "zone" /\ op = "add" -> AddZone(s, it)
         [] type = "zone" /\ op = "update" -> UpdateZone(s, it)
         [] type = "zone" /\ op = "delete" -> DeleteZone(s, it)
         [] type = "entertainment_configuration" /\ op = "add" ->
                AddEntertainmentConfiguration(s, it)
         [] type = "entertainment_configuration" /\ op = "update" ->
                UpdateEntertainmentConfiguration(s, it)
         [] type = "entertainment_configuration" /\ op = "delete" ->
                DeleteEntertainmentConfiguration(s, it)
         [] type = "scene" /\ op = "add" -> AddScene(s, it)
         [] type = "scene" /\ op = "update" -> UpdateScene(s, it)
         [] type = "scene" /\ op = "delete" -> DeleteScene(s, it)

OfType(items, type) == SelectSeq(items, LAMBDA it : it.type = type)

\* Mutant: the items are parsed as they come.
BugByType(items) == items

\* The items of a message in the order in which they are parsed.
ByType(items) == FlattenSeq([i \in DOMAIN Types |-> OfType(items, Types[i])])

\* Mutant: it is found out after each item.
BugTells(after) ==
    LET items == ByType(Head(events))
    IN canSendStreamingDisconnectedEvent /\ IsStreaming(app)
       /\ \E n \in DOMAIN items : ~IsStreaming(FoldLeft(Apply, app, SubSeq(items, 1, n)))

\* Whether ID_STREAMING_DISCONNECTED is sent.
Tells(after) ==
    canSendStreamingDisconnectedEvent /\ IsStreaming(app) /\ ~IsStreaming(after)

ParseJsonEvent ==
    /\ stage = "listening" /\ events # <<>>
    /\ app' = FoldLeft(Apply, app, ByType(Head(events)))
    /\ events' = Tail(events)
    /\ told' = IF Tells(app') THEN told + 1 ELSE told
    /\ UNCHANGED <<real, stage, refreshing, canSendStreamingDisconnectedEvent, missed, changes,
                   fetches>>

-----------------------------------------------------------------------------
(* The fetch *)

\* DoExecute and GetFullConfig, for a retrieval or a refresh; while connected
\* a retrieval gets nothing.
StartFetch(refresh) ==
    /\ stage = "idle" \/ (refresh /\ stage = "listening")
    /\ fetches < MaxFetches
    /\ fetches' = fetches + 1
    /\ stage' = Head(Types)
    /\ refreshing' = refresh
    /\ app' = Empty(app.selected, app.busy)
    /\ events' = <<>>
    /\ missed' = FALSE
    /\ UNCHANGED <<real, canSendStreamingDisconnectedEvent, told, changes>>

\* What the bridge answers: the resources of a type that it has now.
Resources(type) ==
    CASE type = "device" -> {Item(type, "add", l, l) : l \in real.devices}
      [] type = "zigbee_connectivity" ->
            {Item(type, "add", l, real.reachable[l]) : l \in real.devices}
      [] type = "light" -> {Item(type, "add", l, real.on[l]) : l \in real.devices}
      [] type = "zone" -> {Item(type, "add", z, real.zones[z]) : z \in DOMAIN real.zones}
      [] type = "entertainment_configuration" ->
            {Item(type, "add", g, real.groups[g]) : g \in DOMAIN real.groups}
      [] type = "scene" -> {Item(type, "add", c, real.scenes[c]) : c \in DOMAIN real.scenes}

NextType(type) == Types[1 + CHOOSE i \in DOMAIN Types : Types[i] = type]

\* The end of OnGetResource: a refresh deselects a group that is no longer there.
End(s) ==
    IF refreshing /\ SelectedGroup(s) = <<>> THEN [s EXCEPT !.selected = NoGroup] ELSE s

OnGetResource ==
    /\ stage \in Stages \ {"idle", "listening"}
    /\ \E items \in SetToSeqs(Resources(stage)) :
          LET s == FoldLeft(Apply, app, items)
          IN IF stage = Last(Types)
             THEN app' = End(s) /\ stage' = "listening" /\ refreshing' = FALSE
             ELSE app' = s /\ stage' = NextType(stage) /\ UNCHANGED refreshing
    /\ UNCHANGED <<real, events, canSendStreamingDisconnectedEvent, missed, told, changes,
                   fetches>>

\* A request fails, the event stream ends, or the bridge disconnects.
Fails ==
    /\ stage # "idle"
    /\ stage' = "idle"
    /\ refreshing' = FALSE
    /\ events' = <<>>
    /\ UNCHANGED <<real, app, canSendStreamingDisconnectedEvent, missed, told, changes, fetches>>

SelectGroup(g) ==
    /\ stage \in {"idle", "listening"}
    /\ g \in Ids(app.groups) \ {app.selected}
    /\ app' = [app EXCEPT !.selected = g, !.uncounted = TRUE]
    /\ UNCHANGED <<real, events, stage, refreshing, canSendStreamingDisconnectedEvent, missed,
                   told, changes, fetches>>

\* The flow and the stream reset _isBusy on their own.
ResetBusy ==
    /\ stage \in {"idle", "listening"}
    /\ app.busy
    /\ app' = [app EXCEPT !.busy = FALSE, !.uncounted = TRUE]
    /\ UNCHANGED <<real, events, stage, refreshing, canSendStreamingDisconnectedEvent, missed,
                   told, changes, fetches>>

\* ID_USERPROCEDURE_STARTED and ID_USERPROCEDURE_FINISHED of an activation or
\* a deactivation.
OnBridgeMonitorEvent ==
    /\ canSendStreamingDisconnectedEvent' = ~canSendStreamingDisconnectedEvent
    /\ UNCHANGED <<real, events, app, stage, refreshing, missed, told, changes, fetches>>

-----------------------------------------------------------------------------
(* The bridge: it changes to r, and sends items in a message of their own   *)
(* or in the last one.                                                      *)

Changes(r, items) ==
    /\ changes < MaxChanges
    /\ changes' = changes + 1
    /\ real' = r
    /\ \/ stage = "listening" /\ events' = Append(events, items)
       \/ events # <<>> /\ events' = Append(Front(events), Last(events) \o items)
       \/ stage # "listening" /\ UNCHANGED events
    /\ missed' = (missed \/ stage \notin {"idle", "listening", Head(Types)})
    /\ UNCHANGED <<app, stage, refreshing, canSendStreamingDisconnectedEvent, told, fetches>>

EC == "entertainment_configuration"
Locations == {locs \in SeqOf(real.devices, MaxLocations) : locs # <<>>}
Without(locs, l) == SelectSeq(locs, LAMBDA k : k # l)

NewLight(l) ==
    /\ l \notin real.spent
    /\ Changes([real EXCEPT !.devices = @ \cup {l}, !.spent = @ \cup {l}],
               <<Item("light", "add", l, real.on[l]),
                 Item("zigbee_connectivity", "add", l, real.reachable[l]),
                 Item("device", "add", l, l)>>)

LightChanges(l) ==
    /\ l \in real.devices
    /\ \/ Changes([real EXCEPT !.on[l] = ~@], <<Item("light", "update", l, ~real.on[l])>>)
       \/ Changes([real EXCEPT !.reachable[l] = ~@],
                  <<Item("zigbee_connectivity", "update", l, ~real.reachable[l])>>)

\* The zones are told their lights, the configurations theirs or not.
LightGone(l, tell) ==
    /\ l \in real.devices
    /\ LET r == [real EXCEPT
                    !.devices = @ \ {l},
                    !.groups = [g \in DOMAIN @ |-> [@[g] EXCEPT !.locations = Without(@, l)]],
                    !.zones = [z \in DOMAIN @ |-> @[z] \ {l}]]
           zones == SetToSeq({z \in DOMAIN real.zones : l \in real.zones[z]})
           groups == SetToSeq({g \in DOMAIN real.groups : r.groups[g] # real.groups[g]})
       IN Changes(r, [i \in DOMAIN zones |->
                        Item("zone", "update", zones[i], r.zones[zones[i]])]
                     \o (IF tell THEN [i \in DOMAIN groups |->
                            Item(EC, "update", groups[i],
                                 [locations |-> r.groups[groups[i]].locations])]
                         ELSE <<>>)
                     \o <<Item("light", "delete", l, l),
                          Item("zigbee_connectivity", "delete", l, l),
                          Item("device", "delete", l, l)>>)

NewGroup(g) ==
    /\ g \notin real.spent
    /\ \E locs \in Locations :
          LET data == [locations |-> locs, owner |-> Nobody]
          IN Changes([real EXCEPT !.groups = Put(@, g, data), !.spent = @ \cup {g}],
                     <<Item(EC, "add", g, data)>>)

GroupMoves(g) ==
    /\ g \in DOMAIN real.groups
    /\ \E locs \in Locations \ {real.groups[g].locations} :
          Changes([real EXCEPT !.groups[g].locations = locs],
                  <<Item(EC, "update", g, [locations |-> locs])>>)

\* A streamer that takes over makes the configuration inactive first.
GroupStreams(g, who) ==
    /\ g \in DOMAIN real.groups
    /\ LET was == real.groups[g].owner
           r == [real EXCEPT !.groups[g].owner = who]
           update(o) == <<Item(EC, "update", g, [owner |-> o])>>
       IN /\ who # was
          /\ Cardinality({h \in DOMAIN r.groups : r.groups[h].owner # Nobody}) <= MaxSessions
          /\ Changes(r, (IF Nobody \in {was, who} THEN <<>> ELSE update(Nobody)) \o update(who))

GroupGone(g) ==
    /\ g \in DOMAIN real.groups
    /\ real.groups[g].owner = Nobody
    /\ Changes([real EXCEPT !.groups = Erase(@, g)], <<Item(EC, "delete", g, g)>>)

NewZone(z) ==
    /\ z \notin real.spent
    /\ \E children \in SUBSET real.devices :
          Changes([real EXCEPT !.zones = Put(@, z, children), !.spent = @ \cup {z}],
                  <<Item("zone", "add", z, children)>>)

ZoneMoves(z) ==
    /\ z \in DOMAIN real.zones
    /\ \E children \in SUBSET real.devices \ {real.zones[z]} :
          Changes([real EXCEPT !.zones[z] = children], <<Item("zone", "update", z, children)>>)

\* Its scenes go with it.
ZoneGone(z) ==
    /\ z \in DOMAIN real.zones
    /\ LET gone == {c \in DOMAIN real.scenes : real.scenes[c].zone = z}
           scenes == SetToSeq(gone)
       IN Changes([real EXCEPT !.zones = Erase(@, z),
                               !.scenes = [c \in DOMAIN @ \ gone |-> @[c]]],
                  [i \in DOMAIN scenes |-> Item("scene", "delete", scenes[i], z)]
                  \o <<Item("zone", "delete", z, z)>>)

NewScene(c) ==
    /\ c \notin real.spent
    /\ \E z \in DOMAIN real.zones :
          LET data == [zone |-> z, look |-> 0]
          IN Changes([real EXCEPT !.scenes = Put(@, c, data), !.spent = @ \cup {c}],
                     <<Item("scene", "add", c, data)>>)

SceneChanges(c) ==
    /\ c \in DOMAIN real.scenes
    /\ LET look == 1 - real.scenes[c].look
       IN \/ Changes([real EXCEPT !.scenes[c].look = look],
                     <<Item("scene", "update", c, [look |-> look])>>)
          \/ Changes([real EXCEPT !.scenes = Erase(@, c)], <<Item("scene", "delete", c, c)>>)

BridgeChanges ==
    \/ \E l \in Lights : NewLight(l) \/ LightChanges(l)
                         \/ \E tell \in BOOLEAN : LightGone(l, tell)
    \/ \E g \in Groups : NewGroup(g) \/ GroupMoves(g) \/ GroupGone(g)
                         \/ \E who \in {Me, Other, Nobody} : GroupStreams(g, who)
    \/ \E z \in Zones : NewZone(z) \/ ZoneMoves(z) \/ ZoneGone(z)
    \/ \E c \in Scenes : NewScene(c) \/ SceneChanges(c)

-----------------------------------------------------------------------------
\* A group may be selected from an earlier time.
Init ==
    /\ real \in InitialBridges
    /\ events = <<>>
    /\ \E g \in Groups \cup {NoGroup} : app = Empty(g, FALSE)
    /\ stage = "idle" /\ refreshing = FALSE
    /\ canSendStreamingDisconnectedEvent = TRUE
    /\ missed = FALSE /\ told = 0 /\ changes = 0 /\ fetches = 0

Next ==
    \/ ParseJsonEvent \/ OnGetResource \/ Fails \/ ResetBusy \/ OnBridgeMonitorEvent
    \/ \E refresh \in BOOLEAN : StartFetch(refresh)
    \/ \E g \in Groups : SelectGroup(g)
    \/ BridgeChanges

Spec == Init /\ [][Next]_vars

-----------------------------------------------------------------------------
(* Properties *)

\* The types, and the flag of a refresh is set only in one.
TypeOK ==
    /\ stage \in Stages
    /\ {refreshing, canSendStreamingDisconnectedEvent, missed, app.busy} \subseteq BOOLEAN
    /\ app.devices \subseteq Lights /\ DOMAIN app.light \subseteq Lights
    /\ DOMAIN app.zigbee \subseteq Lights /\ DOMAIN app.scene \subseteq Scenes
    /\ Ids(app.groups) \subseteq Groups /\ Ids(app.zones) \subseteq Zones
    /\ app.selected \in Groups \cup {NoGroup}
    /\ events # <<>> => stage = "listening"
    /\ refreshing => stage \notin {"idle", "listening"}
    /\ changes \in 0 .. MaxChanges /\ fetches \in 0 .. MaxFetches

\* Nothing is on its way, and the bridge did not change between the answer of a
\* request and the opening of the event stream.
UpToDate == stage = "listening" /\ events = <<>> /\ ~missed

Wrong(c) == {p[2] : p \in {q \in app.drift \cup app.kept : q[1] = c}}

(***************************************************************************)
(* After any events the app has the entertainment configurations of the    *)
(* bridge, once each, with its streamers and their lights in as many       *)
(* places - but for a light that had several places when it was deleted.   *)
(***************************************************************************)
GroupsFollow ==
    UpToDate =>
        /\ Ids(app.groups) = DOMAIN real.groups
        /\ Len(app.groups) = Cardinality(Ids(app.groups))
        /\ \A i \in DOMAIN app.groups :
              LET g == app.groups[i]
                  r == real.groups[g.id]
              IN /\ g.owner = r.owner
                 /\ \A l \in Lights : <<g.id, l>> \notin app.kept =>
                       Count(g, l) = Cardinality({k \in DOMAIN r.locations : r.locations[k] = l})

(***************************************************************************)
(* Every light of a group or a zone has the state that the bridge told     *)
(* last - but for one that has several places in the group, and one the    *)
(* list of which was parsed after UpdateLight had changed it.              *)
(***************************************************************************)
LightsFollow ==
    UpToDate =>
        /\ \A i \in DOMAIN app.groups : \A k \in DOMAIN app.groups[i].lights :
              LET x == app.groups[i].lights[k]
              IN x.id \in Wrong(app.groups[i].id)
                 \/ (x.on = real.on[x.id] /\ x.reachable = real.reachable[x.id])
        /\ \A i \in DOMAIN app.zones : \A x \in app.zones[i].lights :
              x.id \in Wrong(app.zones[i].id) \/ x.on = real.on[x.id]

(***************************************************************************)
(* A group is on when a light that the bridge reaches in it is - but after *)
(* a connectivity that has changed, which UpdateZigbeeConnectivity does    *)
(* not reckon with.                                                        *)
(***************************************************************************)
GroupOnFollows ==
    UpToDate =>
        \A i \in DOMAIN app.groups :
           LET g == app.groups[i]
               lights == Range(real.groups[g.id].locations)
           IN g.id \in app.unreckoned \/ Wrong(g.id) \cap lights # {}
              \/ (\E p \in app.kept : p[1] = g.id)
              \/ g.on = (\E l \in lights : real.on[l] /\ real.reachable[l])

\* The app has the zones of the bridge, with their lights and their scenes as
\* they were changed last, also when an item of a scene does not name its zone.
ZonesFollow ==
    UpToDate =>
        /\ Ids(app.zones) = DOMAIN real.zones
        /\ Len(app.zones) = Cardinality(Ids(app.zones))
        /\ \A i \in DOMAIN app.zones :
              LET z == app.zones[i]
                  has == {c \in DOMAIN real.scenes : real.scenes[c].zone = z.id}
              IN /\ {x.id : x \in z.lights} = real.zones[z.id]
                 /\ DOMAIN z.scenes = has
                 /\ \A c \in has : z.scenes[c] = real.scenes[c].look

(***************************************************************************)
(* _isBusy, which decides whether a stream can start, says that the        *)
(* sessions of the bridge are in use - but after a group was added while   *)
(* it streams, which ParseStreamActive does not count, and after another   *)
(* group was selected or the flow reset it.                                *)
(***************************************************************************)
BusyIsCounted ==
    UpToDate /\ ~app.uncounted /\ ~IsStreaming(app) =>
        LET active == {g \in DOMAIN real.groups : real.groups[g].owner # Nobody}
        IN app.busy = (Cardinality(active) >= MaxSessions
                       /\ ~(useForcedActivation /\ app.selected \in active))

\* The app's picture of the bridge follows the events; the types.
ResourcesFollow ==
    TypeOK /\ GroupsFollow /\ LightsFollow /\ GroupOnFollows /\ ZonesFollow /\ BusyIsCounted

(***************************************************************************)
(* A group that the app had and selected does not disappear and stay       *)
(* selected, by an event or by a refresh.                                  *)
(***************************************************************************)
SelectionIsValid ==
    [][(stage = "listening" \/ refreshing) /\ stage' = "listening"
       /\ (refreshing \/ app.selected \in Ids(app.groups)) =>
           app'.selected \in Ids(app'.groups) \cup {NoGroup}]_vars

(***************************************************************************)
(* The loss of the streaming session is told when the bridge gave it to    *)
(* another one or ended it, outside a procedure of the app - and not when  *)
(* the app has it again by the end of the message.                         *)
(***************************************************************************)
StreamLossIsTold ==
    [][ParseJsonEvent =>
           /\ told' # told /\ events' = <<>> /\ ~missed =>
                 \A g \in DOMAIN real.groups : g = app.selected => real.groups[g].owner # Me
           /\ IsStreaming(app) /\ ~IsStreaming(app)' /\ canSendStreamingDisconnectedEvent =>
                 told' = told + 1]_vars

============================================================================

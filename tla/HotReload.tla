------------------------------ MODULE HotReload ------------------------------
(***************************************************************************)
(* Incremental hot reload of the collection scheduler                      *)
(* (internal/core/scheduler.go), with the configuration store it follows   *)
(* (internal/store/sqlite.go) and the schedule table it maintains          *)
(* (internal/core/pollsched.go).                                           *)
(*                                                                         *)
(* The API handlers edit the store at any time.  One goroutine,            *)
(* Scheduler.Run, waits for a change signal, reads the store, and          *)
(* reconciles the running devices with what it read, one connection group  *)
(* after another.  Edits interleave with every step of a reload.           *)
(*                                                                         *)
(* A group is identified by its key <<connection ID, configuration>>; the  *)
(* driver is part of the configuration value.  A device connection (the    *)
(* driver.Conn of a runtime) is <<device, n>>, the n-th one opened for the *)
(* device.  `enabled' stands for "enabled and having a point".             *)
(***************************************************************************)
EXTENDS Naturals, FiniteSets

CONSTANTS
    Devices,        \* device IDs
    Connections,    \* connection IDs
    ConnConfigs,    \* driver and configuration of a connection, one value
    PushConfigs,    \* those whose driver subscribes or listens; the others poll
    Params,         \* values of the device parameters (slave ID, ...)
    Points,         \* values of the device's point list
    Intervals,      \* values of the polling interval
    SavedRows,      \* the device rows the API may save
    InitStores,     \* the stored configurations the process may boot with
    MaxEdits        \* bound on the number of edits of the store

ASSUME HotReloadAssumption ==
    /\ PushConfigs \subseteq ConnConfigs
    /\ MaxEdits \in Nat

NoRow    == [row |-> "none"]
NoConfig == [config |-> "none"]

Row == [conn : Connections, params : Params, points : Points,
        interval : Intervals, enabled : BOOLEAN]
Sig == [params : Params, points : Points, interval : Intervals]
Key == Connections \X ConnConfigs

VARIABLES
    rows,       \* gw_device and gw_point: a Row or NoRow for each device
    conns,      \* gw_connection: a configuration or NoConfig
    changed,    \* the buffered(1) OnChange channel of the scheduler
    edits,      \* number of edits so far (bounds the model)
    pc,         \* what Scheduler.Run is doing
    listed,     \* devices read by reload
    desired,    \* the plan built from them: device -> [key, sig]
    groups,     \* keys of the groups still to reconcile
    newRt,      \* the runtimes of the reload in progress
    runtimes,   \* Scheduler.runtimes: device -> [n, key, sig]
    opens,      \* number of connections opened for each device
    live,       \* open device connections
    byID,       \* pollScheduler.byID: device -> n of the connection its job reads
    jobPoints,  \* points of the newest job of each device
    failed,     \* history: devices the last reload could not open
    readFailed, \* history: the last reload could not read the store
    reopened,   \* history: devices reopened in place (new one opened, old one stopped)
    moved,      \* history: devices found running under the key of another group
    twice       \* history: devices one of whose connections was closed twice

storeVars  == <<rows, conns, changed, edits>>
planVars   == <<listed, desired, groups>>
deviceVars == <<newRt, runtimes, opens, live, byID, jobPoints>>
history    == <<failed, readFailed, reopened, moved, twice>>
vars == <<storeVars, pc, planVars, deviceVars, history>>

Polls(key) == key[2] \notin PushConfigs

SigOf(row) == [params |-> row.params, points |-> row.points, interval |-> row.interval]

Empty == [d \in {} |-> 0]

\* The function g, overridden by the function f.
f ++ g == [d \in DOMAIN f \cup DOMAIN g |-> IF d \in DOMAIN f THEN f[d] ELSE g[d]]

\* The function f without the elements of S in its domain.
Without(f, S) == [d \in DOMAIN f \ S |-> f[d]]

-----------------------------------------------------------------------------
(* The store: each edit commits and then signals every subscriber without   *)
(* blocking, so a signal that is already waiting absorbs the new one.       *)

\* Mutant: the signal is lost unless the scheduler is waiting for it.
MNotifyOnlyWhenWaiting == IF pc = "idle" THEN changed' = TRUE ELSE UNCHANGED changed

Notify == changed' = TRUE

Edited ==
    /\ edits < MaxEdits
    /\ edits' = edits + 1
    /\ Notify
    /\ UNCHANGED <<pc, planVars, deviceVars, history>>

\* Also SetDeviceEnabled, AddPoint and DeletePoint: they change a part of the row.
SaveDevice(d, row) ==
    /\ rows' = [rows EXCEPT ![d] = row]
    /\ UNCHANGED conns
    /\ Edited

DeleteDevice(d) ==
    /\ rows[d] # NoRow
    /\ rows' = [rows EXCEPT ![d] = NoRow]
    /\ UNCHANGED conns
    /\ Edited

SaveConnection(c, config) ==
    /\ conns' = [conns EXCEPT ![c] = config]
    /\ UNCHANGED rows
    /\ Edited

DeleteConnection(c) ==
    /\ conns[c] # NoConfig
    /\ \A d \in Devices : rows[d] # NoRow => rows[d].conn # c
    /\ conns' = [conns EXCEPT ![c] = NoConfig]
    /\ UNCHANGED rows
    /\ Edited

\* Outputs and alert rules signal the scheduler too: nothing it reads has changed.
SaveOther ==
    /\ UNCHANGED <<rows, conns>>
    /\ Edited

-----------------------------------------------------------------------------
(* Scheduler.Run and the first half of reload.                              *)

ReceiveChange ==
    /\ pc = "idle"
    /\ changed
    /\ changed' = FALSE
    /\ pc' = "list"
    /\ UNCHANGED <<rows, conns, edits, planVars, deviceVars, history>>

ListDevices ==
    /\ pc = "list"
    /\ listed' = rows
    /\ pc' = "build"
    /\ UNCHANGED <<storeVars, desired, groups, deviceVars, history>>

\* The store cannot be read: reload returns, everything keeps running as it was.
ListDevicesFails ==
    /\ pc = "list"
    /\ pc' = "idle"
    /\ readFailed' = TRUE
    /\ UNCHANGED <<storeVars, planVars, deviceVars, failed, reopened, moved, twice>>

Collected(S) == {d \in Devices : S[d] # NoRow /\ S[d].enabled}

DesiredPlan ==
    [d \in {e \in Collected(listed) : conns[listed[e].conn] # NoConfig} |->
        [key |-> <<listed[d].conn, conns[listed[d].conn]>>, sig |-> SigOf(listed[d])]]

KeysOf(f) == {f[d].key : d \in DOMAIN f}

\* A device whose connection is gone is reported offline and left out.
BuildDesired ==
    /\ pc = "build"
    /\ desired' = DesiredPlan
    /\ groups' = KeysOf(runtimes) \cup KeysOf(DesiredPlan)
    /\ newRt' = Empty
    /\ failed' = Collected(listed) \ DOMAIN DesiredPlan
    /\ readFailed' = FALSE
    /\ pc' = "reconcile"
    /\ UNCHANGED <<storeVars, listed, runtimes, opens, live, byID, jobPoints,
                   reopened, moved, twice>>

-----------------------------------------------------------------------------
(* reconcile: one step for each connection group.                           *)

OldOf(g) == {d \in DOMAIN runtimes : runtimes[d].key = g}
NewOf(g) == {d \in DOMAIN desired : desired[d].key = g}

\* A group of pushing devices restarts as a whole when a member disappears from
\* the configuration or changes.
GroupRestarts(g) ==
    /\ ~Polls(g)
    /\ \E d \in OldOf(g) :
          ~(d \in DOMAIN desired /\ desired[d].sig = runtimes[d].sig)

\* How the devices wanted in a group are treated: by their old runtime, looked up by
\* device ID alone, whatever group it belongs to.
Kept(g)     == {d \in NewOf(g) \cap DOMAIN runtimes : runtimes[d].sig = desired[d].sig}
Updated(g)  == {d \in (NewOf(g) \cap DOMAIN runtimes) \ Kept(g) :
                  runtimes[d].sig.params = desired[d].sig.params}
Reopened(g) == (NewOf(g) \cap DOMAIN runtimes) \ (Kept(g) \cup Updated(g))
Added(g)    == NewOf(g) \ DOMAIN runtimes

\* Mutant: every running device that the group does not want is stopped with it.
MGoneAll(g) == DOMAIN runtimes \ NewOf(g)

Gone(g) == OldOf(g) \ NewOf(g)

\* updatePollDevice finds no job in the runtime of a pushing device: nil dereference.
NilJob(g) ==
    /\ OldOf(g) # {} /\ NewOf(g) # {} /\ ~GroupRestarts(g)
    /\ \E d \in Updated(g) : ~Polls(runtimes[d].key)

\* Mutant: stopping a device leaves its schedule entry.
MForgetRemove(S, R) == S ++ byID

\* pollScheduler.schedule for the jobs of S, then pollScheduler.remove for the devices of R:
\* remove takes whatever entry the device has.
ScheduleThenRemove(S, R) == Without(S ++ byID, R)

\* Mutant: stopping a device leaves its connection open.
MCloseNothing(S) == {}

\* stopDevice closes the connection of the runtime it is given.
ClosedBy(S) == {<<d, runtimes[d].n>> : d \in S}

PollersOf(S) == {d \in S : Polls(runtimes[d].key)}

\* The whole effect of a group on the devices: open `open' and update `upd' in place, carry
\* `keep' and `upd' over, stop `stop'.  A stopped device is never scheduled before its stop
\* unless it is reopened in place: new connection and job first, then the stop.
Apply(g, keep, upd, open, stop) ==
    LET opened == [d \in open |-> [n |-> opens[d] + 1, key |-> g, sig |-> desired[d].sig]]
        edited == [d \in upd |-> [runtimes[d] EXCEPT !.sig = desired[d].sig]]
        paced  == {d \in upd : runtimes[d].sig.interval # desired[d].sig.interval}
        fresh  == IF Polls(g) THEN open ELSE {}
    IN  /\ newRt' = opened ++ edited ++ [d \in keep |-> runtimes[d]] ++ newRt
        /\ runtimes' = edited ++ runtimes
        /\ opens' = [d \in Devices |-> opens[d] + IF d \in open THEN 1 ELSE 0]
        /\ live' = (live \cup {<<d, opens[d] + 1>> : d \in open}) \ ClosedBy(stop)
        /\ byID' = ScheduleThenRemove(
                       [d \in paced |-> runtimes[d].n] ++ [d \in fresh |-> opens[d] + 1],
                       PollersOf(stop))
        /\ jobPoints' = [d \in fresh \cup upd |-> desired[d].sig.points] ++ jobPoints
        /\ twice' = twice \cup {d \in stop : <<d, runtimes[d].n>> \notin live}

\* Opening or registering some of the devices may fail: they are left out until a later reload.
OpenGroup(g) ==
    /\ OldOf(g) = {}
    /\ \E lost \in SUBSET NewOf(g) :
          /\ Apply(g, {}, {}, NewOf(g) \ lost, {})
          /\ failed' = failed \cup lost
    /\ UNCHANGED <<reopened, moved>>

StopGroup(g) ==
    /\ NewOf(g) = {}
    /\ Apply(g, {}, {}, {}, OldOf(g))
    /\ UNCHANGED <<failed, reopened, moved>>

RestartGroup(g) ==
    /\ OldOf(g) # {} /\ NewOf(g) # {}
    /\ GroupRestarts(g)
    /\ \E lost \in SUBSET NewOf(g) :
          /\ Apply(g, {}, {}, NewOf(g) \ lost, OldOf(g))
          /\ failed' = failed \cup lost
    /\ UNCHANGED <<reopened, moved>>

UpdateGroup(g) ==
    /\ OldOf(g) # {} /\ NewOf(g) # {}
    /\ ~GroupRestarts(g) /\ ~NilJob(g)
    /\ \E lost \in SUBSET (Reopened(g) \cup Added(g)) :
          /\ Apply(g, Kept(g), Updated(g), (Reopened(g) \cup Added(g)) \ lost,
                   Reopened(g) \cup Gone(g))
          /\ failed' = failed \cup lost
    /\ reopened' = reopened \cup Reopened(g)
    /\ moved' = moved \cup ((NewOf(g) \cap DOMAIN runtimes) \ OldOf(g))

\* Groups that were running come first, in any order; then the new ones.
Pending(g) ==
    /\ pc = "reconcile"
    /\ g \in groups
    /\ g \in KeysOf(runtimes) \/ groups \cap KeysOf(runtimes) = {}

ReconcileGroup(g) ==
    /\ Pending(g)
    /\ OpenGroup(g) \/ StopGroup(g) \/ RestartGroup(g) \/ UpdateGroup(g)
    /\ groups' = groups \ {g}
    /\ UNCHANGED <<storeVars, pc, listed, desired, readFailed>>

Panic(g) ==
    /\ Pending(g)
    /\ NilJob(g)
    /\ pc' = "panicked"
    /\ UNCHANGED <<storeVars, planVars, deviceVars, history>>

Installed == newRt

FinishReload ==
    /\ pc = "reconcile"
    /\ groups = {}
    /\ runtimes' = Installed
    /\ newRt' = Empty
    /\ desired' = Empty
    /\ listed' = [d \in Devices |-> NoRow]
    /\ pc' = "idle"
    /\ UNCHANGED <<storeVars, groups, opens, live, byID, jobPoints, history>>

-----------------------------------------------------------------------------
\* The process boots: Run subscribes before its first reload, which finds nothing running.
Init ==
    /\ \E s \in InitStores : rows = s.rows /\ conns = s.conns
    /\ changed = FALSE
    /\ edits = 0
    /\ pc = "list"
    /\ listed = [d \in Devices |-> NoRow]
    /\ desired = Empty
    /\ groups = {}
    /\ newRt = Empty
    /\ runtimes = Empty
    /\ opens = [d \in Devices |-> 0]
    /\ live = {}
    /\ byID = Empty
    /\ jobPoints = Empty
    /\ failed = {}
    /\ readFailed = FALSE
    /\ reopened = {}
    /\ moved = {}
    /\ twice = {}

Edit ==
    \/ \E d \in Devices : DeleteDevice(d) \/ \E row \in SavedRows : SaveDevice(d, row)
    \/ \E c \in Connections : DeleteConnection(c) \/ \E k \in ConnConfigs : SaveConnection(c, k)
    \/ SaveOther

Reload ==
    \/ ReceiveChange
    \/ ListDevices
    \/ ListDevicesFails
    \/ BuildDesired
    \/ \E g \in groups : ReconcileGroup(g) \/ Panic(g)
    \/ FinishReload

Next == Edit \/ Reload

Spec == Init /\ [][Next]_vars

-----------------------------------------------------------------------------
Idle == pc = "idle"

Running(d) == d \in DOMAIN runtimes

Scheduled(d) ==
    /\ d \in DOMAIN byID /\ byID[d] = runtimes[d].n
    /\ d \in DOMAIN jobPoints /\ jobPoints[d] = runtimes[d].sig.points

\* The schedule table is that of the running devices.  Between reloads every running device
\* of a polling connection has the job that reads its own connection and its configured
\* points - the code keeps this for every device that it neither reopened in place nor found
\* under another connection: for those see NoPollingGap - and no job of a removed, disabled
\* or reopened device survives.  During a reload, a device that is updated in place has its
\* job, and the nil dereference needs one that moved from a pushing connection.
TableFollowsRuntimes ==
    /\ Idle => \A d \in DOMAIN runtimes \ (reopened \cup moved) :
                  Polls(runtimes[d].key) => Scheduled(d)
    /\ Idle => \A d \in DOMAIN byID : Running(d) /\ byID[d] = runtimes[d].n
    /\ pc = "panicked" => \E g \in groups : \E d \in NewOf(g) : Running(d) /\ runtimes[d].key # g

\* The same without the exception.  "avoids a gap in the device's collection" is the comment
\* at scheduler.go:308 on opening the new connection before stopping the old one.
NoPollingGap ==
    Idle => \A d \in DOMAIN runtimes : Polls(runtimes[d].key) => Scheduled(d)

\* Between reloads the open device connections are those of the running devices: a failed
\* open, a removal or a restart leaks none, and no running device has had its connection
\* closed under it.  Each is closed once: the drivers count references, and a second Close
\* releases the physical connection of the devices that share it.  A device moved between
\* two connections is excepted.
ConnectionsOwned ==
    /\ twice \subseteq moved
    /\ Idle => /\ \A c \in live : Running(c[1]) /\ c[2] = runtimes[c[1]].n
               /\ \A d \in DOMAIN runtimes \ moved : <<d, runtimes[d].n>> \in live

\* When no signal is waiting and the last reload could read the store, the running devices
\* are exactly the stored ones, with their stored parameters, points, interval and connection,
\* less those that could not be opened: no edit is lost, whenever it was made.
ReflectsStore ==
    LET wanted == {d \in Collected(rows) : conns[rows[d].conn] # NoConfig}
    IN  Idle /\ ~changed /\ ~readFailed =>
          /\ DOMAIN runtimes \subseteq wanted
          /\ wanted \ failed \subseteq DOMAIN runtimes
          /\ \A d \in DOMAIN runtimes :
                /\ runtimes[d].sig = SigOf(rows[d])
                /\ d \notin moved =>
                      runtimes[d].key = <<rows[d].conn, conns[rows[d].conn]>>

\* Reconciling a group leaves a device whose own configuration and connection did not change
\* alone: same connection, still open, same job.  A pushing device is only disturbed with its
\* group.  This is the reason for the incremental reload (scheduler.go:109).
LeavesUnchangedAlone ==
    [][\A d \in DOMAIN runtimes \cap DOMAIN desired :
         LET rt == runtimes[d]
             same == desired[d] = [key |-> rt.key, sig |-> rt.sig]
         IN  pc = "reconcile" /\ same /\ ~GroupRestarts(rt.key) =>
               /\ <<d, rt.n>> \in live => <<d, rt.n>> \in live'
               /\ d \in DOMAIN byID => d \in DOMAIN byID' /\ byID'[d] = byID[d]
               /\ d \in DOMAIN runtimes' => runtimes'[d] = rt]_vars
=============================================================================

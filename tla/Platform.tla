------------------------------ MODULE Platform ------------------------------
(***************************************************************************)
(* The configuration of the gateway, and those who write it: the users of  *)
(* the REST API (api/api.go) and the platform outputs, which copy the      *)
(* controllers and devices of the platform's configuration file into the   *)
(* store (output/smardaten/sync.go, store/sqlite.go).                      *)
(*                                                                         *)
(* A sync runs when an output is built and when the platform pushes a new  *)
(* file; the two run on different goroutines, and on those of another      *)
(* output, with nothing to order them.  Every statement on the database is *)
(* a step; between two of them anything may happen.  What a row says is a  *)
(* content; a device takes its content from its controller.                *)
(***************************************************************************)
EXTENDS Naturals, FiniteSets

CONSTANTS
    Connections,    \* ids of connections, which are those of the platform's controllers
    Devices,        \* ids of devices
    Contents,       \* what a controller can say, and a connection: its endpoint above all
    Edited,         \* a device's content after its points were edited one by one
    Outputs,        \* platform outputs: their marks in managed_by
    Manual,         \* the mark of a row that no output manages
    Syncs,          \* goroutines that sync
    Requests,       \* API requests that take more than one statement
    Absent,         \* no such row, no such entry of the configuration
    Skipped,        \* a controller of the file that is disabled or cannot be converted
    Files,          \* the configuration files the platform sends
    MaxEvents       \* bound: files sent, API requests, restarts and failed statements together

ASSUME PlatformAssumption ==
    /\ Absent \notin Contents /\ Skipped \notin Contents /\ Manual \notin Outputs
    /\ Connections \cap Devices = {}   \* an id tells its table
    /\ Absent \notin Connections \cup Devices \cup Files
    /\ Files \subseteq [controllers : [Connections -> Contents \cup {Skipped, Absent}],
                        devices     : [Devices -> Connections \cup {Absent}]]
    /\ MaxEvents \in Nat

VARIABLES
    connections,    \* table gw_connection
    devices,        \* tables gw_device and gw_point
    file,           \* output |-> its file application.json
    syncs,          \* goroutine |-> its sync
    requests,       \* request |-> what it has read
    written,        \* history: table entry |-> the outputs that have written it
    events          \* bound: files sent, API requests, restarts and failed statements so far

vars == <<connections, devices, file, syncs, requests, written, events>>
---------------------------------------------------------------------------
Marks == Outputs \cup {Manual}

ConnectionRows == [content : Contents, managedBy : Marks]
DeviceRows     == [connection : Connections, content : Contents \cup {Edited}, enabled : BOOLEAN,
                   managedBy : Marks]

Phases == {"idle", "load", "controllers", "devices", "orphan devices", "orphan connections", "done"}

Nothing == [phase |-> "idle", output |-> Absent, config |-> Absent, left |-> {}, saving |-> Absent,
            synced |-> {}, undisturbed |-> FALSE]

TypeOK ==
    /\ connections \in [Connections -> ConnectionRows \cup {Absent}]
    /\ devices \in [Devices -> DeviceRows \cup {Absent}]
    /\ file \in [Outputs -> Files \cup {Absent}]
    /\ \A s \in Syncs :
        /\ syncs[s].phase \in Phases
        /\ syncs[s].output \in Outputs \cup {Absent}
        /\ syncs[s].config \in Files \cup {Absent}
        /\ syncs[s].left \subseteq Connections \cup Devices
        /\ syncs[s].saving \in syncs[s].left \cup {Absent}
        /\ syncs[s].synced \subseteq Connections
        /\ syncs[s].undisturbed \in BOOLEAN
    /\ \A r \in Requests : requests[r].op \in {"none", "put", "delete", "clone"}
    /\ written \in [Connections \cup Devices -> SUBSET Outputs]
    /\ events \in 0 .. MaxEvents

Init ==
    /\ connections = [c \in Connections |-> Absent] /\ devices = [d \in Devices |-> Absent]
    /\ file \in [Outputs -> Files \cup {Absent}]
    /\ syncs = [s \in Syncs |-> Nothing] /\ requests = [r \in Requests |-> [op |-> "none"]]
    /\ written = [id \in Connections \cup Devices |-> {}]
    /\ events = 0
---------------------------------------------------------------------------
(* The store                                                                *)

Busy == {s \in Syncs : syncs[s].phase # "idle"}

\* Bound: two syncs overlap only while at most one event has happened.
Overlap(busy, n) == Cardinality(busy) > 1 => n <= 1

Count == events < MaxEvents /\ events' = events + 1 /\ Overlap(Busy, events')

References(c) == {d \in Devices : devices[d] # Absent /\ devices[d].connection = c}

ManagedBy(table, o) == {id \in DOMAIN table : table[id] # Absent /\ table[id].managedBy = o}

\* The entries of a sync's configuration, those that are skipped included.
PresentConnections(config) == {c \in Connections : config.controllers[c] # Absent}
PresentDevices(config)     == {d \in Devices : config.devices[d] # Absent}

\* The rows that a running sync is about: what its configuration names or its output's mark is
\* on, and the devices that refer to such a connection.
Business(sync, conns, devs) ==
    LET mine == PresentConnections(sync.config) \cup ManagedBy(conns, sync.output)
    IN mine \cup PresentDevices(sync.config) \cup ManagedBy(devs, sync.output)
            \cup {d \in Devices : devs[d] # Absent /\ devs[d].connection \in mine}

Changed == {c \in Connections : connections'[c] # connections[c]} \cup
           {d \in Devices : devices'[d] # devices[d]}

\* What a sync is after somebody else's write (history).
Disturbed(sync) ==
    IF /\ sync.config # Absent
       /\ Changed \cap (Business(sync, connections, devices) \cup
                        Business(sync, connections', devices')) # {}
    THEN [sync EXCEPT !.undisturbed = FALSE]
    ELSE sync

Others(s, next) == syncs' = [x \in Syncs |-> IF x = s THEN next ELSE Disturbed(syncs[x])]

SaveConnection(c, row) == connections' = [connections EXCEPT ![c] = row] /\ UNCHANGED devices

\* saveDeviceTx: the row and all its points, in a transaction.
SaveDevice(d, row) == devices' = [devices EXCEPT ![d] = row] /\ UNCHANGED connections

\* DELETE of a row that does not exist is no error.
Delete(id) ==
    /\ connections' = [c \in Connections |-> IF c = id THEN Absent ELSE connections[c]]
    /\ devices' = [d \in Devices |-> IF d = id THEN Absent ELSE devices[d]]
---------------------------------------------------------------------------
(* The sync of an output                                                    *)

\* loadConfig, and with it syncToGateway, which begins with the controllers that can be
\* converted.
LoadConfig(s, o) ==
    LET f == file[o]
    IN syncs' = [syncs EXCEPT ![s] =
                   IF f = Absent THEN Nothing
                   ELSE [Nothing EXCEPT !.phase = "controllers", !.output = o, !.config = f,
                                        !.undisturbed = TRUE,
                                        !.left = {c \in Connections : f.controllers[c] \in Contents}]]

\* It is called when the output is built: the gateway starts, or the outputs are reloaded.
New(s, o) ==
    /\ syncs[s].phase = "idle" /\ Overlap(Busy \cup {s}, events) /\ LoadConfig(s, o)
    /\ UNCHANGED <<connections, devices, file, requests, written, events>>

\* downloadConfig: the file replaces the old one when all of it has come.
Downloaded(o, f) == [file EXCEPT ![o] = f]

\* handleConfigSet downloads a file ...
HandleConfigSet(s, o, f) ==
    /\ syncs[s].phase = "idle"
    /\ Count /\ Overlap(Busy \cup {s}, events')
    /\ file' = Downloaded(o, f)
    /\ syncs' = [syncs EXCEPT ![s] = [Nothing EXCEPT !.phase = "load", !.output = o]]
    /\ UNCHANGED <<connections, devices, requests, written>>

\* ... and loads what is there.
Reload(s) ==
    /\ syncs[s].phase = "load" /\ LoadConfig(s, syncs[s].output)
    /\ UNCHANGED <<connections, devices, file, requests, written, events>>

ConnectionOf(sync, c) == [content |-> sync.config.controllers[c], managedBy |-> sync.output]

DeviceOf(sync, d) ==
    LET c == sync.config.devices[d]
    IN [connection |-> c, content |-> sync.config.controllers[c], enabled |-> TRUE,
        managedBy |-> sync.output]

\* Mutant of HandledOne: the entry in hand is not let go.
MHandledOne(sync, id, synced) == [sync EXCEPT !.left = @ \ {id}, !.synced = @ \cup synced]

HandledOne(sync, id, synced) ==
    [sync EXCEPT !.left = @ \ {id}, !.saving = Absent, !.synced = @ \cup synced]

\* Mutant of Same: the comparison leaves out the mark.
MSame(sync, id) ==
    \/ id \in Connections /\ connections[id] # Absent
          /\ connections[id].content = ConnectionOf(sync, id).content
    \/ id \in Devices /\ devices[id] = DeviceOf(sync, id)

\* connectionEqual and deviceEqual, the mark included.
Same(sync, id) ==
    \/ id \in Connections /\ connections[id] = ConnectionOf(sync, id)
    \/ id \in Devices /\ devices[id] = DeviceOf(sync, id)

\* connectionNeedsSave and deviceNeedsSave: the row is read and compared.
Compare(s, id) ==
    LET sync == syncs[s]
    IN /\ sync.phase \in {"controllers", "devices"} /\ sync.saving = Absent /\ id \in sync.left
       /\ syncs' = [syncs EXCEPT ![s] =
                      IF Same(sync, id) THEN HandledOne(sync, id, {id} \cap Connections)
                      ELSE [sync EXCEPT !.saving = id]]
       /\ UNCHANGED <<connections, devices, file, requests, written, events>>

Save(s) ==
    LET sync == syncs[s]
        id   == sync.saving
    IN /\ sync.phase \in {"controllers", "devices"} /\ id # Absent
       /\ \/ id \in Connections /\ SaveConnection(id, ConnectionOf(sync, id))
          \/ id \in Devices /\ SaveDevice(id, DeviceOf(sync, id))
       /\ Others(s, HandledOne(sync, id, {id} \cap Connections))
       /\ written' = [written EXCEPT ![id] = @ \cup {sync.output}]
       /\ UNCHANGED <<file, requests, events>>

\* A statement fails: the sync goes on with the next entry.
StatementFails(s) ==
    LET sync == syncs[s]
    IN /\ sync.saving # Absent /\ Count
       /\ syncs' = [syncs EXCEPT ![s] =
                      [HandledOne(sync, sync.saving, {}) EXCEPT !.undisturbed = FALSE]]
       /\ UNCHANGED <<connections, devices, file, requests, written>>

\* The devices of controllers that were synced.
Syncable(sync) == {d \in Devices : sync.config.devices[d] \in sync.synced}

\* Mutant of Orphans: the rows of every output.
MOrphans(sync, table, present) == (UNION {ManagedBy(table, o) : o \in Outputs}) \ present

\* ListManagedDeviceIDs and ListManagedConnectionIDs, less what the configuration names.
Orphans(sync, table, present) == ManagedBy(table, sync.output) \ present

Enter(s, phase, left) ==
    syncs' = [syncs EXCEPT ![s] = [@ EXCEPT !.phase = phase, !.left = left]]

NextPhase(s) ==
    LET sync == syncs[s]
    IN /\ sync.left = {}
       /\ \/ sync.phase = "controllers" /\ Enter(s, "devices", Syncable(sync))
          \/ /\ sync.phase = "devices"
             /\ Enter(s, "orphan devices", Orphans(sync, devices, PresentDevices(sync.config)))
          \/ /\ sync.phase = "orphan devices"
             /\ Enter(s, "orphan connections",
                      Orphans(sync, connections, PresentConnections(sync.config)))
          \/ sync.phase = "orphan connections" /\ Enter(s, "done", {})
       /\ UNCHANGED <<connections, devices, file, requests, written, events>>

\* The rows cannot be listed: the cleanup is left to the next sync.
ListFails(s) ==
    /\ syncs[s].phase \in {"devices", "orphan devices"} /\ syncs[s].left = {} /\ Count
    /\ syncs' = [syncs EXCEPT ![s].phase = "done", ![s].undisturbed = FALSE]
    /\ UNCHANGED <<connections, devices, file, requests, written>>

\* A device is deleted outright, a connection after its references were counted.
PickOrphan(s, id) ==
    LET sync == syncs[s]
    IN /\ sync.phase \in {"orphan devices", "orphan connections"}
       /\ sync.saving = Absent /\ id \in sync.left
       /\ syncs' = [syncs EXCEPT ![s] =
                      IF id \in Connections /\ References(id) # {} THEN HandledOne(sync, id, {})
                      ELSE [sync EXCEPT !.saving = id]]
       /\ UNCHANGED <<connections, devices, file, requests, written, events>>

DeleteOrphan(s) ==
    LET sync == syncs[s]
    IN /\ sync.phase \in {"orphan devices", "orphan connections"} /\ sync.saving # Absent
       /\ Delete(sync.saving)
       /\ Others(s, HandledOne(sync, sync.saving, {}))
       /\ UNCHANGED <<file, requests, written, events>>

\* publishConfigResponse, whatever happened.
Respond(s) ==
    /\ syncs[s].phase = "done"
    /\ syncs' = [syncs EXCEPT ![s] = Nothing]
    /\ UNCHANGED <<connections, devices, file, requests, written, events>>
---------------------------------------------------------------------------
(* The REST API                                                             *)

\* The mark is a field of the body: a client that sends back what it has read keeps it.
Body(table, id) == {Manual} \cup {table[i].managedBy : i \in {id} \ {j \in {id} : table[j] = Absent}}

\* checkEndpointConflict: no other connection has the endpoint.
EndpointFree(c, content) ==
    \A other \in Connections \ {c} :
       connections[other] # Absent => connections[other].content # content

\* The connections are listed before the row is written.
PutConnection(r, c, content, mark) ==
    /\ requests[r].op = "none" /\ Count
    /\ EndpointFree(c, content)
    /\ requests' = [requests EXCEPT ![r] =
                      [op |-> "put", id |-> c, row |-> [content |-> content, managedBy |-> mark]]]
    /\ UNCHANGED <<connections, devices, file, syncs, written>>

\* deleteConnection and batchConnections: the references are counted before.
DeleteConnection(r, c) ==
    /\ requests[r].op = "none" /\ Count
    /\ References(c) = {}
    /\ requests' = [requests EXCEPT ![r] = [op |-> "delete", id |-> c]]
    /\ UNCHANGED <<connections, devices, file, syncs, written>>

\* cloneDevice: the copy has no mark.
CloneDevice(r, source, d) ==
    /\ requests[r].op = "none" /\ Count
    /\ devices[source] # Absent
    /\ requests' = [requests EXCEPT ![r] =
                      [op |-> "clone", id |-> d, row |-> [devices[source] EXCEPT !.managedBy = Manual]]]
    /\ UNCHANGED <<connections, devices, file, syncs, written>>

Finish(r) ==
    /\ \/ requests[r].op = "put" /\ SaveConnection(requests[r].id, requests[r].row)
       \/ requests[r].op = "delete" /\ Delete(requests[r].id)
       \/ requests[r].op = "clone" /\ SaveDevice(requests[r].id, requests[r].row)
    /\ syncs' = [s \in Syncs |-> Disturbed(syncs[s])]
    /\ requests' = [requests EXCEPT ![r] = [op |-> "none"]]
    /\ UNCHANGED <<file, written, events>>

\* createDevice and putDevice: nothing looks whether the connection exists.
PutDevice(d, row) ==
    /\ Count /\ SaveDevice(d, row)
    /\ syncs' = [s \in Syncs |-> Disturbed(syncs[s])]
    /\ UNCHANGED <<file, requests, written>>

\* deleteDevice, batchDevices.
DeleteDevice(d) ==
    /\ Count /\ Delete(d)
    /\ syncs' = [s \in Syncs |-> Disturbed(syncs[s])]
    /\ UNCHANGED <<file, requests, written>>

\* batchDevices, addPoint, deletePoint.  The points of a device that does not exist go to no
\* device: the next SaveDevice removes them.
EditDevice(d, enabled, content) ==
    /\ Count /\ devices[d] # Absent
    /\ SaveDevice(d, [devices[d] EXCEPT !.enabled = enabled, !.content = content])
    /\ syncs' = [s \in Syncs |-> Disturbed(syncs[s])]
    /\ UNCHANGED <<file, requests, written>>

\* The process ends, and starts again with the tables and the files.
Restart ==
    /\ Count
    /\ syncs' = [s \in Syncs |-> Nothing] /\ requests' = [r \in Requests |-> [op |-> "none"]]
    /\ UNCHANGED <<connections, devices, file, written>>
---------------------------------------------------------------------------
SyncSteps(s) ==
    \/ Reload(s) \/ Save(s) \/ StatementFails(s) \/ NextPhase(s) \/ ListFails(s)
    \/ DeleteOrphan(s) \/ Respond(s)
    \/ \E id \in Connections \cup Devices : Compare(s, id) \/ PickOrphan(s, id)

UserSteps ==
    \/ \E r \in Requests :
        \/ \E c \in Connections :
            \/ \E content \in Contents : \E mark \in Body(connections, c) : PutConnection(r, c, content, mark)
            \/ DeleteConnection(r, c)
        \/ \E source, d \in Devices : CloneDevice(r, source, d)
        \/ Finish(r)
    \/ \E d \in Devices :
        \/ \E c \in Connections, content \in Contents : \E mark \in Body(devices, d) :
               PutDevice(d, [connection |-> c, content |-> content, enabled |-> TRUE, managedBy |-> mark])
        \/ DeleteDevice(d)
        \/ \E enabled \in BOOLEAN : \E content \in {Edited} \cup
               {devices[i].content : i \in {d} \cap {j \in Devices : devices[j] # Absent}} :
               EditDevice(d, enabled, content)

Next ==
    \/ \E s \in Syncs :
        \/ \E o \in Outputs : New(s, o) \/ \E f \in Files : HandleConfigSet(s, o, f)
        \/ SyncSteps(s)
    \/ UserSteps
    \/ Restart

Spec == Init /\ [][Next]_vars
---------------------------------------------------------------------------
\* What a sync leaves behind: every controller and device it could convert, and no row with its
\* mark that the platform has removed, but a connection that a device still refers to.
Exact(sync) ==
    LET f == sync.config
        o == sync.output
        synced == {c \in Connections : f.controllers[c] \in Contents}
    IN /\ \A c \in synced : connections[c] = ConnectionOf(sync, c)
       /\ \A d \in Devices : f.devices[d] \in synced => devices[d] = DeviceOf(sync, d)
       /\ \A c \in ManagedBy(connections, o) : f.controllers[c] # Absent \/ References(c) # {}
       /\ \A d \in ManagedBy(devices, o) : f.devices[d] # Absent

\* A sync in which no statement failed, and into whose rows nobody else wrote, leaves exactly the
\* platform's configuration, from whatever the store held before: rows of a former
\* configuration, of a sync that a restart cut off, of another output or of a user
\* (sync.go:151-273).
SyncIsExact ==
    \A s \in Syncs : syncs[s].phase = "done" /\ syncs[s].undisturbed => Exact(syncs[s])

\* The cleanup takes for an orphan only what a sync of the same output has once written: nothing
\* that is a user's alone, or another output's (sync.go:216-273).
CleanupSparesOthers ==
    \A s \in Syncs : syncs[s].phase \in {"orphan devices", "orphan connections"} =>
        \A id \in syncs[s].left : syncs[s].output \in written[id]
=============================================================================

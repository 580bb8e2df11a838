---------------------------- MODULE PlatformProofs ----------------------------
(* For any connections, devices, outputs, files and number of syncs and users: *)
(* what a sync of the platform's configuration leaves behind, and what its     *)
(* cleanup takes for an orphan; and for any instances of an output, size of    *)
(* its queue and number of commands, that each command is carried out once;    *)
(* and for any finite lists of points, that a Read of a device is exact.       *)
EXTENDS AllPlatform, FiniteSetTheorems, SequenceTheorems, WellFoundedInduction, TLAPS

-----------------------------------------------------------------------------
(* The inductive invariant.  Its parts about a sync name the tables they speak *)
(* of, so that they can be stated of the tables before and after a step.       *)

Active == {"controllers", "devices", "orphan devices", "orphan connections", "done"}

SyncRecord ==
    [phase : Phases, output : Outputs \cup {Absent}, config : Files \cup {Absent},
     left : SUBSET (Connections \cup Devices), saving : Connections \cup Devices \cup {Absent},
     synced : SUBSET Connections, undisturbed : BOOLEAN]

(* The controllers that can be converted. *)
Wanted(sync) == {c \in Connections : sync.config.controllers[c] \in Contents}

(* A sync's list is the one of its phase; what it is about to clean up is not named by its  *)
(* file, and was once written by a sync of the same output.                                 *)
SyncOK(sync, history) ==
    /\ sync \in SyncRecord
    /\ sync.saving \in sync.left \cup {Absent}
    /\ sync.phase \in {"idle", "load", "done"} => sync.left = {}
    /\ sync.phase = "load" => sync.output \in Outputs
    /\ sync.phase \in Active =>
         sync.output \in Outputs /\ sync.config \in Files /\ sync.synced \subseteq Wanted(sync)
    /\ sync.phase = "controllers" => sync.left \subseteq Wanted(sync)
    /\ sync.phase = "devices" => sync.left \subseteq Syncable(sync)
    /\ sync.phase = "orphan devices" => sync.left \subseteq Devices \ PresentDevices(sync.config)
    /\ sync.phase = "orphan connections" =>
         sync.left \subseteq Connections \ PresentConnections(sync.config)
    /\ sync.phase \in {"orphan devices", "orphan connections"} =>
         \A id \in sync.left : sync.output \in history[id]

ReferencesIn(devs, c) == {d \in Devices : devs[d] # Absent /\ devs[d].connection = c}

(* How far a sync has come: what is not as its file says is still on its list. *)
ConnectionsWritten(sync, conns) ==
    /\ Wanted(sync) = sync.synced \cup (IF sync.phase = "controllers" THEN sync.left ELSE {})
    /\ \A c \in sync.synced : conns[c] = ConnectionOf(sync, c)

DevicesWritten(sync, devs) ==
    sync.phase # "controllers" =>
        \A d \in Devices : sync.config.devices[d] \in Wanted(sync) =>
            devs[d] = DeviceOf(sync, d) \/ (sync.phase = "devices" /\ d \in sync.left)

DevicesCleaned(sync, devs) ==
    sync.phase \in {"orphan devices", "orphan connections", "done"} =>
        \A d \in ManagedBy(devs, sync.output) :
            sync.config.devices[d] # Absent \/ (sync.phase = "orphan devices" /\ d \in sync.left)

ConnectionsCleaned(sync, conns, devs) ==
    sync.phase \in {"orphan connections", "done"} =>
        \A c \in ManagedBy(conns, sync.output) :
            \/ sync.config.controllers[c] # Absent \/ ReferencesIn(devs, c) # {}
            \/ sync.phase = "orphan connections" /\ c \in sync.left

Progress(sync, conns, devs) ==
    /\ ConnectionsWritten(sync, conns) /\ DevicesWritten(sync, devs)
    /\ DevicesCleaned(sync, devs) /\ ConnectionsCleaned(sync, conns, devs)

ProgressOf(sync, conns, devs) == sync.undisturbed /\ sync.phase \in Active => Progress(sync, conns, devs)

SyncsInv ==
    \A s \in Syncs : SyncOK(syncs[s], written) /\ ProgressOf(syncs[s], connections, devices)

(* A row carries the mark of an output only if a sync of that output once wrote it. *)
TablesInv ==
    /\ connections \in [Connections -> ConnectionRows \cup {Absent}]
    /\ devices \in [Devices -> DeviceRows \cup {Absent}]
    /\ written \in [Connections \cup Devices -> SUBSET Outputs]
    /\ \A o \in Outputs : \A id \in ManagedBy(connections, o) \cup ManagedBy(devices, o) : o \in written[id]

(* What a request of the API is about to write. *)
RequestOK(request, history) ==
    /\ request.op \in {"none", "put", "delete", "clone"}
    /\ request.op = "put" =>
         request.id \in Connections /\ request.row \in ConnectionRows
         /\ request.row.managedBy \in history[request.id] \cup {Manual}
    /\ request.op = "delete" => request.id \in Connections
    /\ request.op = "clone" =>
         request.id \in Devices /\ request.row \in DeviceRows /\ request.row.managedBy = Manual

RequestsInv == DOMAIN requests = Requests /\ \A r \in Requests : RequestOK(requests[r], written)

OtherInv ==
    /\ file \in [Outputs -> Files \cup {Absent}]
    /\ events \in 0 .. MaxEvents
    /\ DOMAIN syncs = Syncs

PlatformInv == SyncsInv /\ TablesInv /\ RequestsInv /\ OtherInv

-----------------------------------------------------------------------------
LEMMA FileTypes ==
    ASSUME NEW f \in Files
    PROVE  /\ f.controllers \in [Connections -> Contents \cup {Skipped, Absent}]
           /\ f.devices \in [Devices -> Connections \cup {Absent}]
BY PlatformAssumption

(* A sync keeps its progress while nobody writes a row of its business. *)
LEMMA Stable ==
    ASSUME NEW sync, NEW history, SyncOK(sync, history), sync.phase \in Active,
           NEW conns \in [Connections -> ConnectionRows \cup {Absent}],
           NEW devs \in [Devices -> DeviceRows \cup {Absent}],
           NEW conns2 \in [Connections -> ConnectionRows \cup {Absent}],
           NEW devs2 \in [Devices -> DeviceRows \cup {Absent}],
           NEW changed,
           \A c \in Connections : conns2[c] # conns[c] => c \in changed,
           \A d \in Devices : devs2[d] # devs[d] => d \in changed,
           changed \cap Business(sync, conns, devs) = {},
           changed \cap Business(sync, conns2, devs2) = {},
           Progress(sync, conns, devs)
    PROVE  Progress(sync, conns2, devs2)
<1>1. /\ sync.config \in Files /\ sync.output \in Outputs /\ sync.synced \subseteq Wanted(sync)
  BY DEF SyncOK
<1>2. /\ sync.config.controllers \in [Connections -> Contents \cup {Skipped, Absent}]
      /\ sync.config.devices \in [Devices -> Connections \cup {Absent}]
  BY <1>1, FileTypes
<1>3. \A c \in PresentConnections(sync.config) \cup ManagedBy(conns, sync.output)
                 \cup ManagedBy(conns2, sync.output) : c \in Connections /\ conns2[c] = conns[c]
  BY DEF Business, PresentConnections, ManagedBy
<1>4. \A d \in PresentDevices(sync.config) \cup ManagedBy(devs, sync.output)
                 \cup ManagedBy(devs2, sync.output) : d \in Devices /\ devs2[d] = devs[d]
  BY DEF Business, PresentDevices, ManagedBy
<1>5. Wanted(sync) \subseteq PresentConnections(sync.config)
  BY <1>2, PlatformAssumption DEF Wanted, PresentConnections
<1>6. ConnectionsWritten(sync, conns2)
  BY <1>1, <1>3, <1>5 DEF Progress, ConnectionsWritten
<1>7. DevicesWritten(sync, devs2)
  <2>1. \A d \in Devices : sync.config.devices[d] \in Wanted(sync) => d \in PresentDevices(sync.config)
    BY PlatformAssumption DEF Wanted, PresentDevices
  <2> QED BY <1>4, <2>1 DEF Progress, DevicesWritten
<1>8. DevicesCleaned(sync, devs2)
  <2>1. ManagedBy(devs2, sync.output) \subseteq ManagedBy(devs, sync.output)
    BY <1>4 DEF ManagedBy
  <2> QED BY <2>1 DEF Progress, DevicesCleaned
<1>9. ConnectionsCleaned(sync, conns2, devs2)
  <2>1. ManagedBy(conns2, sync.output) \subseteq ManagedBy(conns, sync.output)
    BY <1>3 DEF ManagedBy
  <2>2. ASSUME NEW c \in ManagedBy(conns, sync.output), ReferencesIn(devs, c) # {}
        PROVE  ReferencesIn(devs2, c) # {}
    <3>1. PICK d \in Devices : devs[d] # Absent /\ devs[d].connection = c
      BY <2>2 DEF ReferencesIn
    <3>2. d \in Business(sync, conns, devs)
      BY <3>1 DEF Business
    <3>3. devs2[d] = devs[d]
      BY <3>2
    <3> QED BY <3>1, <3>3 DEF ReferencesIn
  <2> QED BY <2>1, <2>2 DEF Progress, ConnectionsCleaned
<1> QED BY <1>6, <1>7, <1>8, <1>9 DEF Progress

(* What somebody else's write leaves of a sync. *)
LEMMA TheirStep ==
    ASSUME PlatformInv, TablesInv', \A id \in Connections \cup Devices : written[id] \subseteq written'[id],
           NEW s \in Syncs, syncs'[s] = Disturbed(syncs[s])
    PROVE  /\ SyncOK(syncs'[s], written')
           /\ ProgressOf(syncs'[s], connections', devices')
<1>1. SyncOK(syncs[s], written) /\ ProgressOf(syncs[s], connections, devices)
  BY DEF PlatformInv, SyncsInv
<1>2. PICK sync : sync = syncs[s]
  OBVIOUS
<1>3. SyncOK(sync, written) /\ ProgressOf(sync, connections, devices) /\ syncs'[s] = Disturbed(sync)
  BY <1>1, <1>2
<1>4. SyncOK(sync, written')
  <2>1. sync.left \subseteq Connections \cup Devices
    BY <1>3 DEF SyncOK, SyncRecord
  <2> QED BY <1>3, <2>1 DEF SyncOK
<1>5. CASE Disturbed(sync) = sync /\ ~(sync.undisturbed /\ sync.phase \in Active)
  BY <1>3, <1>4, <1>5 DEF ProgressOf
<1>6. CASE Disturbed(sync) = [sync EXCEPT !.undisturbed = FALSE]
  <2>1. [sync EXCEPT !.undisturbed = FALSE] \in SyncRecord
    BY <1>4 DEF SyncOK, SyncRecord
  <2>2. PICK next : next = [sync EXCEPT !.undisturbed = FALSE]
    OBVIOUS
  <2>3. /\ next \in SyncRecord /\ next.phase = sync.phase /\ next.output = sync.output
        /\ next.config = sync.config /\ next.left = sync.left /\ next.saving = sync.saving
        /\ next.synced = sync.synced /\ next.undisturbed = FALSE
    BY <2>1, <2>2, <1>4 DEF SyncOK, SyncRecord
  <2>4. SyncOK(next, written')
    BY <1>4, <2>3 DEF SyncOK, Wanted, Syncable
  <2>5. ProgressOf(next, connections', devices')
    BY <2>3 DEF ProgressOf
  <2> QED BY <1>3, <1>6, <2>2, <2>4, <2>5
<1>7. CASE /\ sync.undisturbed /\ sync.phase \in Active /\ Disturbed(sync) = sync
           /\ Changed \cap (Business(sync, connections, devices) \cup
                            Business(sync, connections', devices')) = {}
  <2>1. Progress(sync, connections, devices)
    BY <1>3, <1>7 DEF ProgressOf
  <2>2. /\ \A c \in Connections : connections'[c] # connections[c] => c \in Changed
        /\ \A d \in Devices : devices'[d] # devices[d] => d \in Changed
    BY DEF Changed
  <2>3. /\ connections \in [Connections -> ConnectionRows \cup {Absent}]
        /\ devices \in [Devices -> DeviceRows \cup {Absent}]
        /\ connections' \in [Connections -> ConnectionRows \cup {Absent}]
        /\ devices' \in [Devices -> DeviceRows \cup {Absent}]
    BY DEF PlatformInv, TablesInv
  <2>4. /\ Changed \cap Business(sync, connections, devices) = {}
        /\ Changed \cap Business(sync, connections', devices') = {}
    BY <1>7
  <2>5. Progress(sync, connections', devices')
    BY <1>3, <1>7, <2>1, <2>2, <2>3, <2>4, Stable
  <2> QED BY <1>3, <1>4, <1>7, <2>5 DEF ProgressOf
<1>8. sync.phase \in Active => sync.config # Absent
  BY <1>3, PlatformAssumption DEF SyncOK
<1> QED BY <1>5, <1>6, <1>7, <1>8 DEF Disturbed

(* A step of a sync that writes no row. *)
LEMMA OwnStep ==
    ASSUME PlatformInv, NEW s \in Syncs, NEW next, syncs' = [syncs EXCEPT ![s] = next],
           SyncOK(next, written), ProgressOf(next, connections, devices),
           UNCHANGED <<connections, devices, written, requests>>,
           file' \in [Outputs -> Files \cup {Absent}], events' \in 0 .. MaxEvents
    PROVE  PlatformInv'
<1>1. DOMAIN syncs = Syncs
  BY DEF PlatformInv, OtherInv
<1>2. SyncsInv'
  <2> SUFFICES ASSUME NEW x \in Syncs
               PROVE  /\ SyncOK(syncs'[x], written')
                      /\ ProgressOf(syncs'[x], connections', devices')
    BY DEF SyncsInv
  <2>1. written' = written /\ connections' = connections /\ devices' = devices
    OBVIOUS
  <2>2. CASE x = s
    <3>1. syncs'[x] = next
      BY <1>1, <2>2
    <3> QED BY <3>1, <2>1
  <2>3. CASE x # s
    <3>1. syncs'[x] = syncs[x]
      BY <1>1, <2>3
    <3> QED BY <3>1, <2>1 DEF PlatformInv, SyncsInv
  <2> QED BY <2>2, <2>3
<1>3. TablesInv'
  BY DEF PlatformInv, TablesInv, ManagedBy
<1>4. RequestsInv'
  BY DEF PlatformInv, RequestsInv
<1>5. OtherInv'
  BY <1>1 DEF OtherInv
<1> QED BY <1>2, <1>3, <1>4, <1>5 DEF PlatformInv

(* A write by somebody who syncs nothing. *)
LEMMA UserStep ==
    ASSUME PlatformInv, TablesInv', RequestsInv', syncs' = [s \in Syncs |-> Disturbed(syncs[s])],
           UNCHANGED <<file, written>>, events' \in 0 .. MaxEvents
    PROVE  PlatformInv'
<1>1. SyncsInv'
  <2> SUFFICES ASSUME NEW x \in Syncs
               PROVE  /\ SyncOK(syncs'[x], written')
                      /\ ProgressOf(syncs'[x], connections', devices')
    BY DEF SyncsInv
  <2> QED BY TheirStep
<1>2. OtherInv'
  BY DEF PlatformInv, OtherInv
<1> QED BY <1>1, <1>2 DEF PlatformInv

(* A write by a sync. *)
LEMMA WritingStep ==
    ASSUME PlatformInv, TablesInv', NEW s \in Syncs, NEW next, Others(s, next),
           SyncOK(next, written'), ProgressOf(next, connections', devices'),
           \A id \in Connections \cup Devices : written[id] \subseteq written'[id],
           UNCHANGED <<file, requests, events>>
    PROVE  PlatformInv'
<1>1. SyncsInv'
  <2> SUFFICES ASSUME NEW x \in Syncs
               PROVE  /\ SyncOK(syncs'[x], written')
                      /\ ProgressOf(syncs'[x], connections', devices')
    BY DEF SyncsInv
  <2>1. CASE x = s
    BY <2>1 DEF Others
  <2>2. CASE x # s
    <3>1. syncs'[x] = Disturbed(syncs[x])
      BY <2>2 DEF Others
    <3> QED BY <3>1, TheirStep
  <2> QED BY <2>1, <2>2
<1>2. OtherInv'
  BY DEF PlatformInv, OtherInv, Others
<1>3. RequestsInv'
  <2> SUFFICES ASSUME NEW r \in Requests PROVE RequestOK(requests[r], written')
    BY DEF PlatformInv, RequestsInv
  <2>1. RequestOK(requests[r], written)
    BY DEF PlatformInv, RequestsInv
  <2> QED BY <2>1 DEF RequestOK
<1> QED BY <1>1, <1>2, <1>3 DEF PlatformInv

-----------------------------------------------------------------------------
(* What a write of one row leaves of the tables.                               *)

LEMMA ConnectionSaved ==
    ASSUME TablesInv, NEW c \in Connections, NEW row \in ConnectionRows, SaveConnection(c, row),
           written' \in [Connections \cup Devices -> SUBSET Outputs],
           \A id \in Connections \cup Devices : written[id] \subseteq written'[id],
           row.managedBy \in written'[c] \cup {Manual}
    PROVE  TablesInv'
<1>1. /\ connections' = [connections EXCEPT ![c] = row]
      /\ connections' \in [Connections -> ConnectionRows \cup {Absent}] /\ devices' = devices
  BY DEF TablesInv, SaveConnection
<1>2. ASSUME NEW o \in Outputs, NEW id \in ManagedBy(connections', o) \cup ManagedBy(devices', o)
      PROVE  o \in written'[id]
  <2>1. CASE id \in ManagedBy(connections', o) /\ id = c
    BY <1>1, <2>1, PlatformAssumption DEF ManagedBy
  <2>2. CASE id \in ManagedBy(connections', o) /\ id # c
    <3>1. id \in Connections /\ id \in ManagedBy(connections, o)
      BY <1>1, <2>2 DEF ManagedBy, TablesInv
    <3> QED BY <3>1 DEF TablesInv
  <2>3. CASE id \in ManagedBy(devices', o)
    <3>1. id \in Devices /\ id \in ManagedBy(devices, o)
      BY <1>1, <2>3 DEF ManagedBy, TablesInv
    <3> QED BY <3>1 DEF TablesInv
  <2> QED BY <1>2, <2>1, <2>2, <2>3
<1>3. devices' \in [Devices -> DeviceRows \cup {Absent}]
  BY <1>1 DEF TablesInv
<1> QED BY <1>1, <1>2, <1>3 DEF TablesInv

LEMMA DeviceSaved ==
    ASSUME TablesInv, NEW d \in Devices, NEW row \in DeviceRows, SaveDevice(d, row),
           written' \in [Connections \cup Devices -> SUBSET Outputs],
           \A id \in Connections \cup Devices : written[id] \subseteq written'[id],
           row.managedBy \in written'[d] \cup {Manual}
    PROVE  TablesInv'
<1>1. /\ devices' = [devices EXCEPT ![d] = row]
      /\ devices' \in [Devices -> DeviceRows \cup {Absent}] /\ connections' = connections
  BY DEF TablesInv, SaveDevice
<1>2. ASSUME NEW o \in Outputs, NEW id \in ManagedBy(connections', o) \cup ManagedBy(devices', o)
      PROVE  o \in written'[id]
  <2>1. CASE id \in ManagedBy(devices', o) /\ id = d
    BY <1>1, <2>1, PlatformAssumption DEF ManagedBy
  <2>2. CASE id \in ManagedBy(devices', o) /\ id # d
    <3>1. id \in Devices /\ id \in ManagedBy(devices, o)
      BY <1>1, <2>2 DEF ManagedBy, TablesInv
    <3> QED BY <3>1 DEF TablesInv
  <2>3. CASE id \in ManagedBy(connections', o)
    <3>1. id \in Connections /\ id \in ManagedBy(connections, o)
      BY <1>1, <2>3 DEF ManagedBy, TablesInv
    <3> QED BY <3>1 DEF TablesInv
  <2> QED BY <1>2, <2>1, <2>2, <2>3
<1>3. connections' \in [Connections -> ConnectionRows \cup {Absent}]
  BY <1>1 DEF TablesInv
<1> QED BY <1>1, <1>2, <1>3 DEF TablesInv

LEMMA Deleted ==
    ASSUME TablesInv, NEW id, Delete(id), UNCHANGED written
    PROVE  TablesInv'
<1>1. /\ connections' \in [Connections -> ConnectionRows \cup {Absent}]
      /\ devices' \in [Devices -> DeviceRows \cup {Absent}]
  BY DEF TablesInv, Delete
<1>2. ASSUME NEW o \in Outputs
      PROVE  /\ ManagedBy(connections', o) \subseteq ManagedBy(connections, o)
             /\ ManagedBy(devices', o) \subseteq ManagedBy(devices, o)
  BY DEF ManagedBy, Delete, TablesInv
<1> QED BY <1>1, <1>2 DEF TablesInv

(* The mark of a row is an output's only if a sync of that output once wrote the row. *)
LEMMA BodyMarks ==
    ASSUME TablesInv, NEW id, NEW mark,
           \/ id \in Connections /\ mark \in Body(connections, id)
           \/ id \in Devices /\ mark \in Body(devices, id)
    PROVE  mark \in Marks /\ mark \in written[id] \cup {Manual}
<1>1. CASE mark = Manual
  BY <1>1 DEF Marks
<1>2. CASE mark # Manual /\ id \in Connections /\ mark \in Body(connections, id)
  <2>1. connections[id] # Absent /\ mark = connections[id].managedBy
    BY <1>2 DEF Body
  <2>2. connections[id] \in ConnectionRows
    BY <1>2, <2>1 DEF TablesInv
  <2>3. mark \in Outputs
    BY <1>2, <2>1, <2>2 DEF ConnectionRows, Marks
  <2>4. id \in ManagedBy(connections, mark)
    BY <1>2, <2>1 DEF ManagedBy, TablesInv
  <2> QED BY <2>3, <2>4 DEF TablesInv, Marks
<1>3. CASE mark # Manual /\ id \in Devices /\ mark \in Body(devices, id)
  <2>1. devices[id] # Absent /\ mark = devices[id].managedBy
    BY <1>3 DEF Body
  <2>2. devices[id] \in DeviceRows
    BY <1>3, <2>1 DEF TablesInv
  <2>3. mark \in Outputs
    BY <1>3, <2>1, <2>2 DEF DeviceRows, Marks
  <2>4. id \in ManagedBy(devices, mark)
    BY <1>3, <2>1 DEF ManagedBy, TablesInv
  <2> QED BY <2>3, <2>4 DEF TablesInv, Marks
<1> QED BY <1>1, <1>2, <1>3

-----------------------------------------------------------------------------
(* The REST API                                                                *)

(* A request that only reads. *)
LEMMA RequestStep ==
    ASSUME PlatformInv, NEW r \in Requests, NEW next, requests' = [requests EXCEPT ![r] = next],
           RequestOK(next, written), UNCHANGED <<connections, devices, file, syncs, written>>,
           events' \in 0 .. MaxEvents
    PROVE  PlatformInv'
<1>1. RequestsInv'
  <2> SUFFICES ASSUME NEW q \in Requests PROVE RequestOK(requests'[q], written')
    BY DEF PlatformInv, RequestsInv
  <2>1. CASE q = r
    BY <2>1 DEF PlatformInv, RequestsInv
  <2>2. CASE q # r
    BY <2>2 DEF PlatformInv, RequestsInv
  <2> QED BY <2>1, <2>2
<1>2. SyncsInv'
  <2>1. SyncsInv
    BY DEF PlatformInv
  <2>2. UNCHANGED <<syncs, written, connections, devices>>
    OBVIOUS
  <2> QED BY <2>1, <2>2 DEF SyncsInv
<1>3. TablesInv'
  BY DEF PlatformInv, TablesInv, ManagedBy
<1>4. OtherInv'
  BY DEF PlatformInv, OtherInv
<1> QED BY <1>1, <1>2, <1>3, <1>4 DEF PlatformInv

LEMMA Counted ==
    ASSUME PlatformInv, Count
    PROVE  events' \in 0 .. MaxEvents
BY PlatformAssumption DEF PlatformInv, OtherInv, Count

LEMMA PutConnectionKeeps ==
    ASSUME PlatformInv, NEW r \in Requests, NEW c \in Connections, NEW content \in Contents,
           NEW mark \in Body(connections, c), PutConnection(r, c, content, mark)
    PROVE  PlatformInv'
<1> DEFINE next == [op |-> "put", id |-> c, row |-> [content |-> content, managedBy |-> mark]]
<1>1. mark \in Marks /\ mark \in written[c] \cup {Manual}
  BY BodyMarks DEF PlatformInv
<1>2. next.row \in ConnectionRows
  BY <1>1 DEF ConnectionRows
<1>3. RequestOK(next, written)
  BY <1>1, <1>2 DEF RequestOK
<1>4. events' \in 0 .. MaxEvents
  BY Counted DEF PutConnection
<1>5. requests' = [requests EXCEPT ![r] = next] /\ UNCHANGED <<connections, devices, file, syncs, written>>
  BY DEF PutConnection
<1> HIDE DEF next
<1> QED BY <1>3, <1>4, <1>5, RequestStep

LEMMA DeleteConnectionKeeps ==
    ASSUME PlatformInv, NEW r \in Requests, NEW c \in Connections, DeleteConnection(r, c)
    PROVE  PlatformInv'
<1> DEFINE next == [op |-> "delete", id |-> c]
<1>1. RequestOK(next, written)
  BY DEF RequestOK
<1>2. events' \in 0 .. MaxEvents
  BY Counted DEF DeleteConnection
<1>3. requests' = [requests EXCEPT ![r] = next] /\ UNCHANGED <<connections, devices, file, syncs, written>>
  BY DEF DeleteConnection
<1> HIDE DEF next
<1> QED BY <1>1, <1>2, <1>3, RequestStep

LEMMA CloneDeviceKeeps ==
    ASSUME PlatformInv, NEW r \in Requests, NEW source \in Devices, NEW d \in Devices,
           CloneDevice(r, source, d)
    PROVE  PlatformInv'
<1> DEFINE next == [op |-> "clone", id |-> d, row |-> [devices[source] EXCEPT !.managedBy = Manual]]
<1>1. devices[source] \in DeviceRows
  BY DEF PlatformInv, TablesInv, CloneDevice
<1>2. next.row \in DeviceRows /\ next.row.managedBy = Manual
  BY <1>1 DEF DeviceRows, Marks
<1>3. RequestOK(next, written)
  BY <1>2 DEF RequestOK
<1>4. events' \in 0 .. MaxEvents
  BY Counted DEF CloneDevice
<1>5. requests' = [requests EXCEPT ![r] = next] /\ UNCHANGED <<connections, devices, file, syncs, written>>
  BY DEF CloneDevice
<1> HIDE DEF next
<1> QED BY <1>3, <1>4, <1>5, RequestStep

LEMMA FinishKeeps ==
    ASSUME PlatformInv, NEW r \in Requests, Finish(r)
    PROVE  PlatformInv'
<1>1. RequestOK(requests[r], written)
  BY DEF PlatformInv, RequestsInv
<1>2. TablesInv /\ written \in [Connections \cup Devices -> SUBSET Outputs] /\ UNCHANGED written
  BY DEF PlatformInv, TablesInv, Finish
<1>3. TablesInv'
  <2>1. CASE requests[r].op = "put" /\ SaveConnection(requests[r].id, requests[r].row)
    BY <1>1, <1>2, <2>1, ConnectionSaved DEF RequestOK
  <2>2. CASE requests[r].op = "delete" /\ Delete(requests[r].id)
    BY <1>2, <2>2, Deleted
  <2>3. CASE requests[r].op = "clone" /\ SaveDevice(requests[r].id, requests[r].row)
    BY <1>1, <1>2, <2>3, DeviceSaved DEF RequestOK
  <2> QED BY <2>1, <2>2, <2>3 DEF Finish
<1>4. RequestsInv'
  <2>1. RequestOK([op |-> "none"], written)
    BY DEF RequestOK
  <2>2. requests' = [requests EXCEPT ![r] = [op |-> "none"]]
    BY DEF Finish
  <2> QED BY <1>2, <2>1, <2>2 DEF PlatformInv, RequestsInv
<1>5. events' \in 0 .. MaxEvents
  BY DEF Finish, PlatformInv, OtherInv
<1> QED BY <1>3, <1>4, <1>5, UserStep DEF Finish

LEMMA RequestsKept ==
    ASSUME PlatformInv, UNCHANGED <<requests, written>>
    PROVE  RequestsInv'
BY DEF PlatformInv, RequestsInv

LEMMA PutDeviceKeeps ==
    ASSUME PlatformInv, NEW d \in Devices, NEW c \in Connections, NEW content \in Contents,
           NEW mark \in Body(devices, d),
           PutDevice(d, [connection |-> c, content |-> content, enabled |-> TRUE, managedBy |-> mark])
    PROVE  PlatformInv'
<1> DEFINE row == [connection |-> c, content |-> content, enabled |-> TRUE, managedBy |-> mark]
<1>1. mark \in Marks /\ mark \in written[d] \cup {Manual}
  BY BodyMarks DEF PlatformInv
<1>2. row \in DeviceRows /\ row.managedBy = mark
  BY <1>1 DEF DeviceRows
<1>3. SaveDevice(d, row) /\ UNCHANGED <<file, requests, written>> /\ Count
      /\ syncs' = [s \in Syncs |-> Disturbed(syncs[s])]
  BY DEF PutDevice
<1> HIDE DEF row
<1>4. TablesInv'
  BY <1>1, <1>2, <1>3, DeviceSaved DEF PlatformInv, TablesInv
<1> QED BY <1>3, <1>4, Counted, RequestsKept, UserStep

LEMMA DeleteDeviceKeeps ==
    ASSUME PlatformInv, NEW d \in Devices, DeleteDevice(d)
    PROVE  PlatformInv'
<1>1. Delete(d) /\ UNCHANGED <<file, requests, written>> /\ Count
      /\ syncs' = [s \in Syncs |-> Disturbed(syncs[s])]
  BY DEF DeleteDevice
<1>2. TablesInv'
  BY <1>1, Deleted DEF PlatformInv
<1> QED BY <1>1, <1>2, Counted, RequestsKept, UserStep

LEMMA EditDeviceKeeps ==
    ASSUME PlatformInv, NEW d \in Devices, NEW enabled \in BOOLEAN,
           NEW content \in {Edited} \cup
               {devices[i].content : i \in {d} \cap {j \in Devices : devices[j] # Absent}},
           EditDevice(d, enabled, content)
    PROVE  PlatformInv'
<1> DEFINE row == [devices[d] EXCEPT !.enabled = enabled, !.content = content]
<1>1. devices[d] \in DeviceRows /\ d \in DOMAIN devices /\ devices[d] # Absent
  BY DEF PlatformInv, TablesInv, EditDevice
<1>2. content \in Contents \cup {Edited}
  BY <1>1 DEF DeviceRows
<1>3. row \in DeviceRows /\ row.managedBy = devices[d].managedBy
  BY <1>1, <1>2 DEF DeviceRows
<1>4. devices[d].managedBy \in written[d] \cup {Manual}
  <2>1. devices[d].managedBy \in Body(devices, d)
    BY <1>1 DEF Body
  <2> QED BY <2>1, BodyMarks DEF PlatformInv
<1>5. SaveDevice(d, row) /\ UNCHANGED <<file, requests, written>> /\ Count
      /\ syncs' = [s \in Syncs |-> Disturbed(syncs[s])]
  BY DEF EditDevice
<1>6. PICK saved : saved = row
  OBVIOUS
<1>7. TablesInv'
  <2>1. saved \in DeviceRows /\ SaveDevice(d, saved) /\ saved.managedBy \in written[d] \cup {Manual}
    BY <1>3, <1>4, <1>5, <1>6
  <2> HIDE DEF row
  <2> QED BY <1>5, <2>1, DeviceSaved DEF PlatformInv, TablesInv
<1> HIDE DEF row
<1> QED BY <1>5, <1>7, Counted, RequestsKept, UserStep

-----------------------------------------------------------------------------
(* The sync of an output                                                       *)

(* The fields of a sync with which it is called at each phase. *)
LEMMA NothingOK ==
    ASSUME NEW history, NEW conns, NEW devs
    PROVE  SyncOK(Nothing, history) /\ ProgressOf(Nothing, conns, devs)
BY DEF Nothing, SyncOK, SyncRecord, Phases, Active, ProgressOf

LEMMA LoadConfigKeeps ==
    ASSUME PlatformInv, NEW s \in Syncs, NEW o \in Outputs, LoadConfig(s, o),
           UNCHANGED <<connections, devices, file, requests, written, events>>
    PROVE  PlatformInv'
<1> DEFINE begun == [Nothing EXCEPT !.phase = "controllers", !.output = o, !.config = file[o],
                                    !.undisturbed = TRUE,
                                    !.left = {c \in Connections : file[o].controllers[c] \in Contents}]
           next == IF file[o] = Absent THEN Nothing ELSE begun
<1>1. syncs' = [syncs EXCEPT ![s] = next]
  BY DEF LoadConfig
<1>2. file \in [Outputs -> Files \cup {Absent}] /\ events \in 0 .. MaxEvents
  BY DEF PlatformInv, OtherInv
<1>3. CASE file[o] = Absent
  <2>1. next = Nothing
    BY <1>3
  <2>2. SyncOK(next, written) /\ ProgressOf(next, connections, devices)
    BY <2>1, NothingOK
  <2> HIDE DEF next
  <2> QED BY <1>1, <1>2, <2>2, OwnStep
<1>4. CASE file[o] # Absent
  <2>1. file[o] \in Files
    BY <1>2, <1>4
  <2>2. next = begun
    BY <1>4
  <2>3. /\ next.phase = "controllers" /\ next.output = o /\ next.config = file[o]
        /\ next.left = {c \in Connections : file[o].controllers[c] \in Contents}
        /\ next.saving = Absent /\ next.synced = {} /\ next.undisturbed = TRUE
        /\ next \in SyncRecord
    BY <2>1, <2>2 DEF Nothing, SyncRecord, Phases
  <2> HIDE DEF next, begun
  <2>4. Wanted(next) = next.left
    BY <2>3 DEF Wanted
  <2>5. SyncOK(next, written)
    BY <2>1, <2>3, <2>4 DEF SyncOK, Active
  <2>6. Progress(next, connections, devices)
    BY <2>3, <2>4 DEF Progress, ConnectionsWritten, DevicesWritten, DevicesCleaned, ConnectionsCleaned
  <2> QED BY <1>1, <1>2, <2>5, <2>6, OwnStep DEF ProgressOf
<1> QED BY <1>3, <1>4

LEMMA NewKeeps ==
    ASSUME PlatformInv, NEW s \in Syncs, NEW o \in Outputs, New(s, o)
    PROVE  PlatformInv'
BY LoadConfigKeeps DEF New

LEMMA ReloadKeeps ==
    ASSUME PlatformInv, NEW s \in Syncs, Reload(s)
    PROVE  PlatformInv'
<1>1. syncs[s].output \in Outputs
  BY DEF PlatformInv, SyncsInv, SyncOK, Reload
<1> QED BY <1>1, LoadConfigKeeps DEF Reload

LEMMA HandleConfigSetKeeps ==
    ASSUME PlatformInv, NEW s \in Syncs, NEW o \in Outputs, NEW f \in Files, HandleConfigSet(s, o, f)
    PROVE  PlatformInv'
<1> DEFINE next == [Nothing EXCEPT !.phase = "load", !.output = o]
<1>1. /\ next.phase = "load" /\ next.output = o /\ next.left = {} /\ next.saving = Absent
      /\ next \in SyncRecord
  BY DEF Nothing, SyncRecord, Phases
<1>2. syncs' = [syncs EXCEPT ![s] = next] /\ Count /\ file' = [file EXCEPT ![o] = f]
      /\ UNCHANGED <<connections, devices, requests, written>>
  BY DEF HandleConfigSet, Downloaded
<1>3. file' \in [Outputs -> Files \cup {Absent}]
  BY <1>2 DEF PlatformInv, OtherInv
<1> HIDE DEF next
<1>4. SyncOK(next, written) /\ ProgressOf(next, connections, devices)
  BY <1>1 DEF SyncOK, Active, ProgressOf
<1> QED BY <1>2, <1>3, <1>4, Counted, OwnStep

(* The sync at work, with its fields. *)
LEMMA AtWork ==
    ASSUME PlatformInv, NEW s \in Syncs
    PROVE  /\ SyncOK(syncs[s], written) /\ syncs[s] \in SyncRecord
           /\ ProgressOf(syncs[s], connections, devices)
           /\ TablesInv /\ file \in [Outputs -> Files \cup {Absent}] /\ events \in 0 .. MaxEvents
BY DEF PlatformInv, SyncsInv, OtherInv, SyncOK

LEMMA Handled ==
    ASSUME NEW sync \in SyncRecord, NEW id, NEW synced \in SUBSET Connections
    PROVE  LET next == HandledOne(sync, id, synced)
           IN /\ next \in SyncRecord /\ next.phase = sync.phase /\ next.output = sync.output
              /\ next.config = sync.config /\ next.left = sync.left \ {id} /\ next.saving = Absent
              /\ next.synced = sync.synced \cup synced /\ next.undisturbed = sync.undisturbed
BY DEF HandledOne, SyncRecord

LEMMA HandledOnly ==
    ASSUME NEW sync \in SyncRecord, NEW id
    PROVE  LET next == HandledOne(sync, id, {})
           IN /\ next.phase = sync.phase /\ next.output = sync.output
              /\ next.config = sync.config /\ next.left = sync.left \ {id}
              /\ next.synced = sync.synced /\ next.undisturbed = sync.undisturbed
BY DEF HandledOne, SyncRecord

(* An entry that is handled leaves the list; a controller joins the synced ones. *)
LEMMA HandledKeepsSyncOK ==
    ASSUME NEW history, NEW sync, SyncOK(sync, history), NEW id \in sync.left,
           NEW synced \in SUBSET ({id} \cap Connections),
           sync.phase \in {"controllers", "devices"} \/ synced = {},
           sync.phase = "devices" => id \in Devices
    PROVE  SyncOK(HandledOne(sync, id, synced), history)
<1>1. sync \in SyncRecord /\ synced \in SUBSET Connections
  BY DEF SyncOK
<1>2. PICK next : next = HandledOne(sync, id, synced)
  OBVIOUS
<1>3. /\ next \in SyncRecord /\ next.phase = sync.phase /\ next.output = sync.output
      /\ next.config = sync.config /\ next.left = sync.left \ {id} /\ next.saving = Absent
      /\ next.synced = sync.synced \cup synced
  BY <1>1, <1>2, Handled
<1>4. sync.phase = "devices" => synced = {}
  BY PlatformAssumption
<1>5. sync.phase \in {"idle", "load", "done"} => FALSE
  BY DEF SyncOK
<1>6. Wanted(next) = Wanted(sync)
  BY <1>3 DEF Wanted
<1>7. next.phase \in Active =>
         next.output \in Outputs /\ next.config \in Files /\ next.synced \subseteq Wanted(next)
  BY <1>1, <1>3, <1>4, <1>6 DEF SyncOK, Active
<1>8. next.phase = "devices" => next.left \subseteq Syncable(next)
  BY <1>3, <1>4 DEF SyncOK, Syncable
<1>9. SyncOK(next, history)
  BY <1>1, <1>3, <1>5, <1>6, <1>7, <1>8 DEF SyncOK
<1> QED BY <1>2, <1>9

LEMMA CompareKeeps ==
    ASSUME PlatformInv, NEW s \in Syncs, NEW id \in Connections \cup Devices, Compare(s, id)
    PROVE  PlatformInv'
<1>1. PICK sync : sync = syncs[s]
  OBVIOUS
<1>2. /\ SyncOK(sync, written) /\ sync \in SyncRecord /\ ProgressOf(sync, connections, devices)
      /\ file' \in [Outputs -> Files \cup {Absent}] /\ events' \in 0 .. MaxEvents
      /\ UNCHANGED <<connections, devices, file, requests, written, events>>
  BY <1>1, AtWork DEF Compare
<1>3. sync.phase \in {"controllers", "devices"} /\ sync.saving = Absent /\ id \in sync.left
  BY <1>1 DEF Compare
<1>4. CASE Same(sync, id)
  <2>1. PICK next : next = HandledOne(sync, id, {id} \cap Connections)
    OBVIOUS
  <2>2. syncs' = [syncs EXCEPT ![s] = next]
    BY <1>1, <1>4, <2>1 DEF Compare
  <2>3. sync.phase = "devices" => id \in Devices
    BY <1>2, <1>3 DEF SyncOK, Syncable
  <2>4. SyncOK(next, written)
    BY <1>2, <1>3, <2>1, <2>3, HandledKeepsSyncOK
  <2>5. /\ next.phase = sync.phase /\ next.output = sync.output
        /\ next.config = sync.config /\ next.left = sync.left \ {id}
        /\ next.synced = sync.synced \cup ({id} \cap Connections) /\ next.undisturbed = sync.undisturbed
    BY <1>2, <2>1, Handled
  <2>6. ASSUME Progress(sync, connections, devices) PROVE Progress(next, connections, devices)
    <3>1. /\ Wanted(next) = Wanted(sync) /\ \A c : ConnectionOf(next, c) = ConnectionOf(sync, c)
          /\ \A d : DeviceOf(next, d) = DeviceOf(sync, d)
      BY <2>5 DEF Wanted, ConnectionOf, DeviceOf
    <3>2. id \in Connections => connections[id] = ConnectionOf(sync, id)
      BY <1>4, PlatformAssumption DEF Same
    <3>3. id \in Devices => devices[id] = DeviceOf(sync, id)
      BY <1>4, PlatformAssumption DEF Same
    <3>4. sync.phase = "controllers" => id \in Connections
      BY <1>2, <1>3 DEF SyncOK, Wanted
    <3>5. ConnectionsWritten(next, connections)
      BY <1>3, <2>3, <2>5, <2>6, <3>1, <3>2, <3>4, PlatformAssumption DEF Progress, ConnectionsWritten
    <3>6. DevicesWritten(next, devices)
      BY <2>5, <2>6, <3>1, <3>3 DEF Progress, DevicesWritten
    <3>7. DevicesCleaned(next, devices) /\ ConnectionsCleaned(next, connections, devices)
      BY <1>3, <2>5 DEF DevicesCleaned, ConnectionsCleaned
    <3> QED BY <3>5, <3>6, <3>7 DEF Progress
  <2>7. ProgressOf(next, connections, devices)
    BY <1>2, <2>5, <2>6 DEF ProgressOf
  <2> QED BY <1>2, <2>2, <2>4, <2>7, OwnStep
<1>5. CASE ~Same(sync, id)
  <2>1. PICK next : next = [sync EXCEPT !.saving = id]
    OBVIOUS
  <2>2. syncs' = [syncs EXCEPT ![s] = next]
    BY <1>1, <1>5, <2>1 DEF Compare
  <2>3. /\ next \in SyncRecord /\ next.phase = sync.phase /\ next.output = sync.output
        /\ next.config = sync.config /\ next.left = sync.left /\ next.saving = id
        /\ next.synced = sync.synced /\ next.undisturbed = sync.undisturbed
    BY <1>2, <2>1 DEF SyncRecord
  <2>4. SyncOK(next, written)
    BY <1>2, <1>3, <2>3 DEF SyncOK, Wanted, Syncable
  <2>5. ProgressOf(next, connections, devices)
    BY <1>2, <2>3, ZenonT(30) DEF ProgressOf, Progress, ConnectionsWritten, DevicesWritten, DevicesCleaned,
                       ConnectionsCleaned, Wanted, ConnectionOf, DeviceOf
  <2> QED BY <1>2, <2>2, <2>4, <2>5, OwnStep
<1> QED BY <1>4, <1>5

LEMMA SaveKeeps ==
    ASSUME PlatformInv, NEW s \in Syncs, Save(s)
    PROVE  PlatformInv'
<1>1. PICK sync : sync = syncs[s]
  OBVIOUS
<1>2. PICK id : id = sync.saving
  OBVIOUS
<1>3. /\ SyncOK(sync, written) /\ sync \in SyncRecord /\ ProgressOf(sync, connections, devices)
      /\ TablesInv /\ UNCHANGED <<file, requests, events>>
  BY <1>1, AtWork DEF Save
<1>4. /\ sync.phase \in {"controllers", "devices"} /\ id \in sync.left
      /\ sync.output \in Outputs /\ sync.config \in Files /\ sync.synced \subseteq Wanted(sync)
  BY <1>1, <1>2, <1>3 DEF Save, SyncOK, Active
<1>5. written' = [written EXCEPT ![id] = @ \cup {sync.output}]
  BY <1>1, <1>2 DEF Save
<1>6. id \in Connections \cup Devices
  BY <1>3, <1>4 DEF SyncRecord
<1>7. /\ written' \in [Connections \cup Devices -> SUBSET Outputs]
      /\ \A i \in Connections \cup Devices : written[i] \subseteq written'[i]
      /\ sync.output \in written'[id]
  BY <1>3, <1>4, <1>5, <1>6 DEF TablesInv
<1>8. PICK next : next = HandledOne(sync, id, {id} \cap Connections)
  OBVIOUS
<1>9. Others(s, next)
  BY <1>1, <1>2, <1>8 DEF Save
<1>10. sync.phase = "devices" => id \in Devices
  BY <1>3, <1>4 DEF SyncOK, Syncable
<1>11. SyncOK(sync, written')
  BY <1>3, <1>7 DEF SyncOK, SyncRecord
<1>12. SyncOK(next, written')
  BY <1>4, <1>8, <1>10, <1>11, HandledKeepsSyncOK
<1>13. /\ next.phase = sync.phase /\ next.output = sync.output
       /\ next.config = sync.config /\ next.left = sync.left \ {id}
       /\ next.synced = sync.synced \cup ({id} \cap Connections) /\ next.undisturbed = sync.undisturbed
  BY <1>3, <1>8, Handled
<1>14. /\ Wanted(next) = Wanted(sync) /\ \A c : ConnectionOf(next, c) = ConnectionOf(sync, c)
       /\ \A d : DeviceOf(next, d) = DeviceOf(sync, d)
  BY <1>13 DEF Wanted, ConnectionOf, DeviceOf
<1>15. /\ sync.config.controllers \in [Connections -> Contents \cup {Skipped, Absent}]
       /\ sync.config.devices \in [Devices -> Connections \cup {Absent}]
  BY <1>4, FileTypes
<1>16. sync.undisturbed => Progress(sync, connections, devices)
  BY <1>3, <1>4 DEF ProgressOf, Active
<1>17. CASE sync.phase = "controllers"
  <2>1. id \in Wanted(sync) /\ id \in Connections /\ id \notin Devices
    BY <1>3, <1>4, <1>17, PlatformAssumption DEF SyncOK, Wanted
  <2>2. SaveConnection(id, ConnectionOf(sync, id))
    BY <1>1, <1>2, <2>1 DEF Save
  <2>3. ConnectionOf(sync, id) \in ConnectionRows /\ ConnectionOf(sync, id).managedBy = sync.output
    BY <1>4, <2>1 DEF ConnectionOf, ConnectionRows, Wanted, Marks
  <2>4. TablesInv'
    BY <1>3, <1>7, <2>1, <2>2, <2>3, ConnectionSaved
  <2>5. connections' = [connections EXCEPT ![id] = ConnectionOf(sync, id)] /\ id \in DOMAIN connections
    BY <1>3, <2>1, <2>2 DEF SaveConnection, TablesInv
  <2>6. ASSUME Progress(sync, connections, devices) PROVE ConnectionsWritten(next, connections')
    <3>1. \A c \in next.synced : connections'[c] = ConnectionOf(next, c)
      BY <1>3, <1>13, <1>14, <2>5, <2>6 DEF Progress, ConnectionsWritten, TablesInv, SyncRecord
    <3>2. Wanted(next) = next.synced \cup next.left
      BY <1>4, <1>13, <1>14, <1>17, <2>1, <2>6 DEF Progress, ConnectionsWritten
    <3> QED BY <1>13, <1>17, <3>1, <3>2 DEF ConnectionsWritten
  <2>7. /\ DevicesWritten(next, devices') /\ DevicesCleaned(next, devices')
        /\ ConnectionsCleaned(next, connections', devices')
    BY <1>13, <1>17 DEF DevicesWritten, DevicesCleaned, ConnectionsCleaned
  <2>8. ProgressOf(next, connections', devices')
    BY <1>13, <1>16, <2>6, <2>7 DEF ProgressOf, Progress
  <2> QED BY <1>3, <1>7, <1>9, <1>12, <2>4, <2>8, WritingStep
<1>18. CASE sync.phase = "devices"
  <2>1. id \in Devices /\ id \notin Connections /\ sync.config.devices[id] \in sync.synced
    BY <1>3, <1>4, <1>10, <1>18, PlatformAssumption DEF SyncOK, Syncable
  <2>2. SaveDevice(id, DeviceOf(sync, id))
    BY <1>1, <1>2, <2>1 DEF Save
  <2>3. DeviceOf(sync, id) \in DeviceRows /\ DeviceOf(sync, id).managedBy = sync.output
    BY <1>4, <2>1 DEF DeviceOf, DeviceRows, Wanted, Marks
  <2>4. TablesInv'
    BY <1>3, <1>7, <2>1, <2>2, <2>3, DeviceSaved
  <2>5. /\ devices' = [devices EXCEPT ![id] = DeviceOf(sync, id)] /\ id \in DOMAIN devices
        /\ DOMAIN devices = Devices /\ connections' = connections
    BY <1>3, <2>1, <2>2 DEF SaveDevice, TablesInv
  <2>6. ASSUME Progress(sync, connections, devices) PROVE ConnectionsWritten(next, connections')
    BY <1>13, <1>14, <1>18, <2>1, <2>5, <2>6 DEF Progress, ConnectionsWritten
  <2>7. ASSUME Progress(sync, connections, devices) PROVE DevicesWritten(next, devices')
    <3> SUFFICES ASSUME NEW d \in Devices, sync.config.devices[d] \in Wanted(sync)
                 PROVE  devices'[d] = DeviceOf(sync, d) \/ d \in next.left
      BY <1>13, <1>14, <1>18 DEF DevicesWritten
    <3>1. CASE d = id
      BY <2>5, <3>1
    <3>2. CASE d # id
      <4>1. devices'[d] = devices[d]
        BY <2>5, <3>2
      <4> QED BY <1>13, <1>18, <2>7, <3>2, <4>1 DEF Progress, DevicesWritten
    <3> QED BY <3>1, <3>2
  <2>8. DevicesCleaned(next, devices') /\ ConnectionsCleaned(next, connections', devices')
    BY <1>13, <1>18 DEF DevicesCleaned, ConnectionsCleaned
  <2>9. ProgressOf(next, connections', devices')
    BY <1>13, <1>16, <2>6, <2>7, <2>8 DEF ProgressOf, Progress
  <2> QED BY <1>3, <1>7, <1>9, <1>12, <2>4, <2>9, WritingStep
<1> QED BY <1>4, <1>17, <1>18

LEMMA StatementFailsKeeps ==
    ASSUME PlatformInv, NEW s \in Syncs, StatementFails(s)
    PROVE  PlatformInv'
<1>1. PICK sync : sync = syncs[s]
  OBVIOUS
<1>2. /\ SyncOK(sync, written) /\ sync \in SyncRecord /\ file' \in [Outputs -> Files \cup {Absent}]
      /\ UNCHANGED <<connections, devices, file, requests, written>> /\ Count
  BY <1>1, AtWork DEF StatementFails
<1>3. sync.saving \in sync.left
  BY <1>1, <1>2 DEF StatementFails, SyncOK
<1>4. PICK handled : handled = HandledOne(sync, sync.saving, {})
  OBVIOUS
<1>5. PICK next : next = [handled EXCEPT !.undisturbed = FALSE]
  OBVIOUS
<1>6. syncs' = [syncs EXCEPT ![s] = next]
  BY <1>1, <1>4, <1>5 DEF StatementFails
<1>7. SyncOK(handled, written)
  <2>1. sync.phase = "devices" => sync.saving \in Devices
    BY <1>2, <1>3 DEF SyncOK, Syncable
  <2> QED BY <1>2, <1>3, <1>4, <2>1, HandledKeepsSyncOK
<1>8. /\ next \in SyncRecord /\ next.phase = handled.phase /\ next.output = handled.output
      /\ next.config = handled.config /\ next.left = handled.left /\ next.saving = handled.saving
      /\ next.synced = handled.synced /\ next.undisturbed = FALSE
  BY <1>5, <1>7 DEF SyncOK, SyncRecord
<1>9. SyncOK(next, written) /\ ProgressOf(next, connections, devices)
  BY <1>7, <1>8 DEF SyncOK, Wanted, Syncable, ProgressOf
<1> QED BY <1>2, <1>6, <1>9, Counted, OwnStep

LEMMA NextPhaseKeeps ==
    ASSUME PlatformInv, NEW s \in Syncs, NextPhase(s)
    PROVE  PlatformInv'
<1>1. PICK sync : sync = syncs[s]
  OBVIOUS
<1>2. /\ SyncOK(sync, written) /\ sync \in SyncRecord /\ ProgressOf(sync, connections, devices)
      /\ file' \in [Outputs -> Files \cup {Absent}] /\ events' \in 0 .. MaxEvents
      /\ UNCHANGED <<connections, devices, file, requests, written, events>> /\ TablesInv
  BY <1>1, AtWork DEF NextPhase
<1>3. sync.left = {} /\ sync.saving = Absent
  BY <1>1, <1>2 DEF NextPhase, SyncOK
<1>4. DOMAIN connections = Connections /\ DOMAIN devices = Devices
  BY <1>2 DEF TablesInv
<1>5. ASSUME NEW stage \in Phases, NEW left \in SUBSET (Connections \cup Devices),
             Enter(s, stage, left),
             \A next : /\ next \in SyncRecord /\ next.phase = stage /\ next.left = left
                       /\ next.output = sync.output /\ next.config = sync.config
                       /\ next.saving = Absent /\ next.synced = sync.synced
                       /\ next.undisturbed = sync.undisturbed
                       => SyncOK(next, written) /\ ProgressOf(next, connections, devices)
      PROVE  PlatformInv'
  <2>1. PICK next : next = [sync EXCEPT !.phase = stage, !.left = left]
    OBVIOUS
  <2>2. syncs' = [syncs EXCEPT ![s] = next]
    BY <1>1, <1>5, <2>1 DEF Enter
  <2>3. /\ next \in SyncRecord /\ next.phase = stage /\ next.left = left
        /\ next.output = sync.output /\ next.config = sync.config
        /\ next.saving = Absent /\ next.synced = sync.synced
        /\ next.undisturbed = sync.undisturbed
    BY <1>2, <1>3, <2>1 DEF SyncRecord
  <2>4. SyncOK(next, written) /\ ProgressOf(next, connections, devices)
    BY <1>5, <2>3
  <2> QED BY <1>2, <2>2, <2>4, OwnStep
<1>6. ASSUME sync.phase \in Active, sync.undisturbed PROVE Progress(sync, connections, devices)
  BY <1>2, <1>6 DEF ProgressOf
<1>7. sync.phase \in Active =>
         sync.output \in Outputs /\ sync.config \in Files /\ sync.synced \subseteq Wanted(sync)
  BY <1>2 DEF SyncOK
<1>8. CASE sync.phase = "controllers" /\ Enter(s, "devices", Syncable(sync))
  <2> SUFFICES ASSUME NEW next, next \in SyncRecord, next.phase = "devices", next.left = Syncable(sync),
                      next.output = sync.output, next.config = sync.config,
                      next.saving = Absent, next.synced = sync.synced,
                      next.undisturbed = sync.undisturbed
               PROVE  SyncOK(next, written) /\ ProgressOf(next, connections, devices)
    <3>1. Syncable(sync) \in SUBSET (Connections \cup Devices)
      BY DEF Syncable
    <3> QED BY <1>5, <1>8, <3>1 DEF Phases
  <2>1. /\ Wanted(next) = Wanted(sync) /\ Syncable(next) = Syncable(sync)
        /\ \A c : ConnectionOf(next, c) = ConnectionOf(sync, c)
    BY DEF Wanted, Syncable, ConnectionOf
  <2>2. SyncOK(next, written)
    BY <1>7, <1>8, <2>1 DEF SyncOK, Active
  <2>3. ASSUME Progress(sync, connections, devices) PROVE Progress(next, connections, devices)
    <3>1. Wanted(sync) = sync.synced /\ \A c \in sync.synced : connections[c] = ConnectionOf(sync, c)
      BY <1>3, <1>8, <2>3 DEF Progress, ConnectionsWritten
    <3>2. DevicesWritten(next, devices)
      BY <2>1, <3>1 DEF DevicesWritten, Syncable
    <3>3. ConnectionsWritten(next, connections)
      BY <2>1, <3>1 DEF ConnectionsWritten
    <3> QED BY <3>2, <3>3 DEF Progress, DevicesCleaned, ConnectionsCleaned
  <2> QED BY <1>6, <1>8, <2>2, <2>3 DEF ProgressOf, Active
<1>9. CASE /\ sync.phase = "devices"
           /\ Enter(s, "orphan devices", Orphans(sync, devices, PresentDevices(sync.config)))
  <2> SUFFICES ASSUME NEW next, next \in SyncRecord, next.phase = "orphan devices",
                      next.left = Orphans(sync, devices, PresentDevices(sync.config)),
                      next.output = sync.output, next.config = sync.config,
                      next.saving = Absent, next.synced = sync.synced,
                      next.undisturbed = sync.undisturbed
               PROVE  SyncOK(next, written) /\ ProgressOf(next, connections, devices)
    <3>1. Orphans(sync, devices, PresentDevices(sync.config)) \in SUBSET (Connections \cup Devices)
      BY <1>4 DEF Orphans, ManagedBy
    <3> QED BY <1>5, <1>9, <3>1 DEF Phases
  <2>1. /\ Wanted(next) = Wanted(sync)
        /\ \A c : ConnectionOf(next, c) = ConnectionOf(sync, c)
        /\ \A d : DeviceOf(next, d) = DeviceOf(sync, d)
    BY DEF Wanted, ConnectionOf, DeviceOf
  <2>2. SyncOK(next, written)
    <3>1. next.left \subseteq Devices \ PresentDevices(next.config)
      BY <1>4 DEF Orphans, ManagedBy
    <3>2. \A id \in next.left : next.output \in written[id]
      BY <1>2, <1>7, <1>9 DEF Orphans, TablesInv, Active
    <3> QED BY <1>7, <1>9, <2>1, <3>1, <3>2 DEF SyncOK, Active
  <2>3. ASSUME Progress(sync, connections, devices) PROVE Progress(next, connections, devices)
    <3>1. ConnectionsWritten(next, connections) /\ DevicesWritten(next, devices)
      BY <1>3, <1>9, <2>1, <2>3 DEF Progress, ConnectionsWritten, DevicesWritten
    <3>2. DevicesCleaned(next, devices)
      BY <1>4 DEF DevicesCleaned, Orphans, PresentDevices, ManagedBy
    <3> QED BY <3>1, <3>2 DEF Progress, ConnectionsCleaned
  <2> QED BY <1>6, <1>9, <2>2, <2>3 DEF ProgressOf, Active
<1>10. CASE /\ sync.phase = "orphan devices"
            /\ Enter(s, "orphan connections",
                     Orphans(sync, connections, PresentConnections(sync.config)))
  <2> SUFFICES ASSUME NEW next, next \in SyncRecord, next.phase = "orphan connections",
                      next.left = Orphans(sync, connections, PresentConnections(sync.config)),
                      next.output = sync.output, next.config = sync.config,
                      next.saving = Absent, next.synced = sync.synced,
                      next.undisturbed = sync.undisturbed
               PROVE  SyncOK(next, written) /\ ProgressOf(next, connections, devices)
    <3>1. Orphans(sync, connections, PresentConnections(sync.config)) \in SUBSET (Connections \cup Devices)
      BY <1>4 DEF Orphans, ManagedBy
    <3> QED BY <1>5, <1>10, <3>1 DEF Phases
  <2>1. /\ Wanted(next) = Wanted(sync)
        /\ \A c : ConnectionOf(next, c) = ConnectionOf(sync, c)
        /\ \A d : DeviceOf(next, d) = DeviceOf(sync, d)
    BY DEF Wanted, ConnectionOf, DeviceOf
  <2>2. SyncOK(next, written)
    <3>1. next.left \subseteq Connections \ PresentConnections(next.config)
      BY <1>4 DEF Orphans, ManagedBy
    <3>2. \A id \in next.left : next.output \in written[id]
      BY <1>2, <1>7, <1>10 DEF Orphans, TablesInv, Active
    <3> QED BY <1>7, <1>10, <2>1, <3>1, <3>2 DEF SyncOK, Active
  <2>3. ASSUME Progress(sync, connections, devices) PROVE Progress(next, connections, devices)
    <3>1. ConnectionsWritten(next, connections) /\ DevicesWritten(next, devices)
      BY <1>10, <2>1, <2>3 DEF Progress, ConnectionsWritten, DevicesWritten
    <3>2. DevicesCleaned(next, devices)
      BY <1>3, <1>10, <2>3 DEF Progress, DevicesCleaned
    <3>3. ConnectionsCleaned(next, connections, devices)
      BY <1>4 DEF ConnectionsCleaned, Orphans, PresentConnections, ManagedBy
    <3> QED BY <3>1, <3>2, <3>3 DEF Progress
  <2> QED BY <1>6, <1>10, <2>2, <2>3 DEF ProgressOf, Active
<1>11. CASE sync.phase = "orphan connections" /\ Enter(s, "done", {})
  <2> SUFFICES ASSUME NEW next, next \in SyncRecord, next.phase = "done", next.left = {},
                      next.output = sync.output, next.config = sync.config,
                      next.saving = Absent, next.synced = sync.synced,
                      next.undisturbed = sync.undisturbed
               PROVE  SyncOK(next, written) /\ ProgressOf(next, connections, devices)
    BY <1>5, <1>11 DEF Phases
  <2>1. /\ Wanted(next) = Wanted(sync)
        /\ \A c : ConnectionOf(next, c) = ConnectionOf(sync, c)
        /\ \A d : DeviceOf(next, d) = DeviceOf(sync, d)
    BY DEF Wanted, ConnectionOf, DeviceOf
  <2>2. SyncOK(next, written)
    BY <1>7, <1>11, <2>1 DEF SyncOK, Active
  <2>3. ASSUME Progress(sync, connections, devices) PROVE Progress(next, connections, devices)
    BY <1>3, <1>11, <2>1, <2>3 DEF Progress, ConnectionsWritten, DevicesWritten, DevicesCleaned,
                                   ConnectionsCleaned
  <2> QED BY <1>6, <1>11, <2>2, <2>3 DEF ProgressOf, Active
<1> QED BY <1>1, <1>8, <1>9, <1>10, <1>11 DEF NextPhase

LEMMA ListFailsKeeps ==
    ASSUME PlatformInv, NEW s \in Syncs, ListFails(s)
    PROVE  PlatformInv'
<1>1. PICK sync : sync = syncs[s]
  OBVIOUS
<1>2. /\ SyncOK(sync, written) /\ sync \in SyncRecord
      /\ file' \in [Outputs -> Files \cup {Absent}] /\ Count /\ DOMAIN syncs = Syncs
      /\ UNCHANGED <<connections, devices, file, requests, written>>
      /\ sync.left = {} /\ sync.phase \in {"devices", "orphan devices"}
  BY <1>1, AtWork DEF ListFails, PlatformInv, OtherInv
<1>3. PICK next : next = [sync EXCEPT !.phase = "done", !.undisturbed = FALSE]
  OBVIOUS
<1>4. syncs' = [syncs EXCEPT ![s] = next]
  BY <1>1, <1>2, <1>3 DEF ListFails
<1>5. /\ next \in SyncRecord /\ next.phase = "done" /\ next.left = {} /\ next.output = sync.output
      /\ next.config = sync.config /\ next.saving = sync.saving /\ next.synced = sync.synced
      /\ next.undisturbed = FALSE
  BY <1>2, <1>3 DEF SyncRecord, Phases
<1>6. SyncOK(next, written) /\ ProgressOf(next, connections, devices)
  BY <1>2, <1>5 DEF SyncOK, Wanted, Active, ProgressOf
<1> QED BY <1>2, <1>4, <1>6, Counted, OwnStep

(* Progress of a cleanup does not depend on what the sync is about to delete. *)
LEMMA CleanupAt ==
    ASSUME NEW history, NEW sync, SyncOK(sync, history), NEW id \in sync.left,
           sync.phase \in {"orphan devices", "orphan connections"}
    PROVE  /\ sync.phase = "orphan devices" =>
                id \in Devices /\ id \notin Connections /\ id \notin PresentDevices(sync.config)
           /\ sync.phase = "orphan connections" =>
                id \in Connections /\ id \notin Devices /\ id \notin PresentConnections(sync.config)
           /\ sync.output \in Outputs /\ sync.config \in Files
BY PlatformAssumption DEF SyncOK, Active

LEMMA PickOrphanKeeps ==
    ASSUME PlatformInv, NEW s \in Syncs, NEW id \in Connections \cup Devices, PickOrphan(s, id)
    PROVE  PlatformInv'
<1>1. PICK sync : sync = syncs[s]
  OBVIOUS
<1>2. /\ SyncOK(sync, written) /\ sync \in SyncRecord /\ ProgressOf(sync, connections, devices)
      /\ file' \in [Outputs -> Files \cup {Absent}] /\ events' \in 0 .. MaxEvents
      /\ UNCHANGED <<connections, devices, file, requests, written, events>>
  BY <1>1, AtWork DEF PickOrphan
<1>3. /\ sync.phase \in {"orphan devices", "orphan connections"} /\ sync.saving = Absent
      /\ id \in sync.left
  BY <1>1 DEF PickOrphan
<1>4. CASE id \in Connections /\ References(id) # {}
  <2>1. PICK next : next = HandledOne(sync, id, {})
    OBVIOUS
  <2>2. syncs' = [syncs EXCEPT ![s] = next]
    BY <1>1, <1>4, <2>1 DEF PickOrphan
  <2>3. SyncOK(next, written)
    BY <1>2, <1>3, <2>1, HandledKeepsSyncOK
  <2>4. /\ next.phase = sync.phase /\ next.output = sync.output
        /\ next.config = sync.config /\ next.left = sync.left \ {id}
        /\ next.synced = sync.synced /\ next.undisturbed = sync.undisturbed
    BY <1>2, <2>1, HandledOnly
  <2>5. sync.phase = "orphan connections" /\ ReferencesIn(devices, id) # {}
    BY <1>2, <1>3, <1>4, CleanupAt DEF References, ReferencesIn
  <2>6. ASSUME Progress(sync, connections, devices) PROVE Progress(next, connections, devices)
    <3>1. /\ Wanted(next) = Wanted(sync)
          /\ \A c : ConnectionOf(next, c) = ConnectionOf(sync, c)
          /\ \A d : DeviceOf(next, d) = DeviceOf(sync, d)
      BY <2>4 DEF Wanted, ConnectionOf, DeviceOf
    <3>2. /\ ConnectionsWritten(next, connections) /\ DevicesWritten(next, devices)
          /\ DevicesCleaned(next, devices)
      BY <2>4, <2>5, <2>6, <3>1 DEF Progress, ConnectionsWritten, DevicesWritten, DevicesCleaned
    <3>3. ConnectionsCleaned(next, connections, devices)
      BY <2>4, <2>5, <2>6 DEF Progress, ConnectionsCleaned
    <3> QED BY <3>2, <3>3 DEF Progress
  <2> QED BY <1>2, <2>2, <2>3, <2>4, <2>6, OwnStep DEF ProgressOf
<1>5. CASE ~(id \in Connections /\ References(id) # {})
  <2>1. PICK next : next = [sync EXCEPT !.saving = id]
    OBVIOUS
  <2>2. syncs' = [syncs EXCEPT ![s] = next]
    BY <1>1, <1>5, <2>1 DEF PickOrphan
  <2>3. /\ next \in SyncRecord /\ next.phase = sync.phase /\ next.output = sync.output
        /\ next.config = sync.config /\ next.left = sync.left /\ next.saving = id
        /\ next.synced = sync.synced /\ next.undisturbed = sync.undisturbed
    BY <1>2, <2>1 DEF SyncRecord
  <2>4. SyncOK(next, written)
    BY <1>2, <1>3, <2>3 DEF SyncOK, Wanted, Syncable
  <2>5. ProgressOf(next, connections, devices)
    BY <1>2, <2>3, ZenonT(30) DEF ProgressOf, Progress, ConnectionsWritten, DevicesWritten, DevicesCleaned,
                       ConnectionsCleaned, Wanted, ConnectionOf, DeviceOf
  <2> QED BY <1>2, <2>2, <2>4, <2>5, OwnStep
<1> QED BY <1>4, <1>5

LEMMA DeleteOrphanKeeps ==
    ASSUME PlatformInv, NEW s \in Syncs, DeleteOrphan(s)
    PROVE  PlatformInv'
<1>1. PICK sync : sync = syncs[s]
  OBVIOUS
<1>2. PICK id : id = sync.saving
  OBVIOUS
<1>3. /\ SyncOK(sync, written) /\ sync \in SyncRecord /\ ProgressOf(sync, connections, devices)
      /\ TablesInv /\ UNCHANGED <<file, requests, written, events>>
      /\ sync.phase \in {"orphan devices", "orphan connections"} /\ Delete(id)
  BY <1>1, <1>2, AtWork DEF DeleteOrphan
<1>4. id \in sync.left
  BY <1>1, <1>2, <1>3 DEF DeleteOrphan, SyncOK
<1>5. PICK next : next = HandledOne(sync, id, {})
  OBVIOUS
<1>6. Others(s, next)
  BY <1>1, <1>2, <1>5 DEF DeleteOrphan
<1>7. SyncOK(next, written')
  <2>1. SyncOK(next, written)
    BY <1>3, <1>4, <1>5, HandledKeepsSyncOK
  <2> QED BY <1>3, <2>1
<1>8. /\ next.phase = sync.phase /\ next.output = sync.output
      /\ next.config = sync.config /\ next.left = sync.left \ {id}
      /\ next.synced = sync.synced /\ next.undisturbed = sync.undisturbed
  BY <1>3, <1>5, HandledOnly
<1>9. TablesInv'
  BY <1>3, Deleted
<1>10. /\ Wanted(next) = Wanted(sync)
       /\ \A c : ConnectionOf(next, c) = ConnectionOf(sync, c)
       /\ \A d : DeviceOf(next, d) = DeviceOf(sync, d)
  BY <1>8 DEF Wanted, ConnectionOf, DeviceOf
<1>11. /\ sync.config.controllers \in [Connections -> Contents \cup {Skipped, Absent}]
       /\ sync.config.devices \in [Devices -> Connections \cup {Absent}]
       /\ sync.synced \subseteq Wanted(sync)
  BY <1>3, <1>4, CleanupAt, FileTypes DEF SyncOK, Active
<1>12. /\ connections' = [c \in Connections |-> IF c = id THEN Absent ELSE connections[c]]
       /\ devices' = [d \in Devices |-> IF d = id THEN Absent ELSE devices[d]]
       /\ DOMAIN connections = Connections /\ DOMAIN devices = Devices
  BY <1>3 DEF Delete, TablesInv
<1>13. id \notin Wanted(sync)
  BY <1>3, <1>4, <1>11, CleanupAt, PlatformAssumption DEF Wanted, PresentConnections
<1>14. \A d \in Devices : sync.config.devices[d] \in Wanted(sync) => d # id
  BY <1>3, <1>4, <1>11, CleanupAt, PlatformAssumption, ZenonT(30) DEF Wanted, PresentDevices
<1>15. ASSUME Progress(sync, connections, devices) PROVE Progress(next, connections', devices')
  <2>1. ConnectionsWritten(next, connections')
    BY <1>3, <1>8, <1>10, <1>11, <1>12, <1>13, <1>15 DEF Progress, ConnectionsWritten, Wanted
  <2>2. DevicesWritten(next, devices')
    BY <1>3, <1>8, <1>10, <1>12, <1>14, <1>15 DEF Progress, DevicesWritten
  <2>3. DevicesCleaned(next, devices')
    <3>1. ManagedBy(devices', sync.output) \subseteq ManagedBy(devices, sync.output) \ {id}
      BY <1>12 DEF ManagedBy
    <3> QED BY <1>3, <1>8, <1>15, <3>1 DEF Progress, DevicesCleaned
  <2>4. ConnectionsCleaned(next, connections', devices')
    <3> SUFFICES ASSUME sync.phase = "orphan connections",
                        NEW c \in ManagedBy(connections', sync.output)
                 PROVE  \/ sync.config.controllers[c] # Absent \/ ReferencesIn(devices', c) # {}
                        \/ c \in next.left
      BY <1>3, <1>8 DEF ConnectionsCleaned
    <3>1. c \in ManagedBy(connections, sync.output) /\ c # id
      BY <1>12 DEF ManagedBy
    <3>2. id \notin Devices
      BY <1>3, <1>4, CleanupAt
    <3>3. devices' = devices
      <4>1. \A d \in Devices : devices'[d] = devices[d]
        BY <1>12, <3>2
      <4> QED BY <1>3, <1>12, <4>1 DEF TablesInv
    <3>4. \/ sync.config.controllers[c] # Absent \/ ReferencesIn(devices, c) # {}
          \/ c \in sync.left
      BY <1>15, <3>1 DEF Progress, ConnectionsCleaned
    <3> QED BY <1>8, <3>1, <3>3, <3>4
  <2> QED BY <2>1, <2>2, <2>3, <2>4 DEF Progress
<1>16. ProgressOf(next, connections', devices')
  BY <1>3, <1>8, <1>15 DEF ProgressOf
<1>17. \A i \in Connections \cup Devices : written[i] \subseteq written'[i]
  BY <1>3
<1> QED BY <1>3, <1>6, <1>7, <1>9, <1>16, <1>17, WritingStep

LEMMA RespondKeeps ==
    ASSUME PlatformInv, NEW s \in Syncs, Respond(s)
    PROVE  PlatformInv'
<1>1. SyncOK(Nothing, written) /\ ProgressOf(Nothing, connections, devices)
  BY NothingOK
<1>2. file' \in [Outputs -> Files \cup {Absent}] /\ events' \in 0 .. MaxEvents
  BY AtWork DEF Respond
<1> QED BY <1>1, <1>2, OwnStep DEF Respond

LEMMA RestartKeeps ==
    ASSUME PlatformInv, Restart
    PROVE  PlatformInv'
<1>1. UNCHANGED <<connections, devices, file, written>> /\ Count
      /\ syncs' = [s \in Syncs |-> Nothing] /\ requests' = [r \in Requests |-> [op |-> "none"]]
  BY DEF Restart
<1>2. SyncsInv'
  <2> SUFFICES ASSUME NEW s \in Syncs
               PROVE  /\ SyncOK(syncs'[s], written') /\ ProgressOf(syncs'[s], connections', devices')
    BY DEF SyncsInv
  <2>1. syncs'[s] = Nothing
    BY <1>1
  <2> QED BY <2>1, NothingOK
<1>3. RequestsInv'
  BY <1>1 DEF RequestsInv, RequestOK
<1>4. TablesInv'
  BY <1>1 DEF PlatformInv, TablesInv, ManagedBy
<1>5. OtherInv'
  BY <1>1, Counted DEF PlatformInv, OtherInv
<1> QED BY <1>2, <1>3, <1>4, <1>5 DEF PlatformInv

-----------------------------------------------------------------------------
LEMMA PlatformInitially == Init => PlatformInv
<1> SUFFICES ASSUME Init PROVE PlatformInv
  OBVIOUS
<1>1. SyncsInv
  BY NothingOK DEF Init, SyncsInv
<1>2. TablesInv
  BY DEF Init, TablesInv, ManagedBy
<1>3. RequestsInv
  BY DEF Init, RequestsInv, RequestOK
<1>4. OtherInv
  BY PlatformAssumption DEF Init, OtherInv
<1> QED BY <1>1, <1>2, <1>3, <1>4 DEF PlatformInv

LEMMA SyncStepKeeps ==
    ASSUME PlatformInv, NEW s \in Syncs, SyncSteps(s)
    PROVE  PlatformInv'
BY ReloadKeeps, SaveKeeps, StatementFailsKeeps, NextPhaseKeeps, ListFailsKeeps, DeleteOrphanKeeps,
   RespondKeeps, CompareKeeps, PickOrphanKeeps DEF SyncSteps

LEMMA UserStepKeeps ==
    ASSUME PlatformInv, UserSteps
    PROVE  PlatformInv'
<1>1. CASE \E r \in Requests :
              \/ \E c \in Connections :
                  \/ \E content \in Contents : \E mark \in Body(connections, c) :
                        PutConnection(r, c, content, mark)
                  \/ DeleteConnection(r, c)
              \/ \E source, d \in Devices : CloneDevice(r, source, d)
              \/ Finish(r)
  BY <1>1, PutConnectionKeeps, DeleteConnectionKeeps, CloneDeviceKeeps, FinishKeeps
<1>2. CASE \E d \in Devices :
              \E c \in Connections, content \in Contents : \E mark \in Body(devices, d) :
                 PutDevice(d, [connection |-> c, content |-> content, enabled |-> TRUE,
                               managedBy |-> mark])
  BY <1>2, PutDeviceKeeps
<1>3. CASE \E d \in Devices : DeleteDevice(d)
  BY <1>3, DeleteDeviceKeeps
<1>4. CASE \E d \in Devices : \E enabled \in BOOLEAN : \E content \in {Edited} \cup
               {devices[i].content : i \in {d} \cap {j \in Devices : devices[j] # Absent}} :
               EditDevice(d, enabled, content)
  BY <1>4, EditDeviceKeeps
<1> QED BY <1>1, <1>2, <1>3, <1>4 DEF UserSteps

LEMMA PlatformStepKeeps == PlatformInv /\ [Next]_vars => PlatformInv'
<1> SUFFICES ASSUME PlatformInv, [Next]_vars PROVE PlatformInv'
  OBVIOUS
<1>1. CASE UNCHANGED vars
  <2>1. UNCHANGED <<connections, devices, file, syncs, requests, written, events>>
    BY <1>1 DEF vars
  <2>2. SyncsInv' /\ RequestsInv' /\ OtherInv'
    BY <2>1 DEF PlatformInv, SyncsInv, RequestsInv, OtherInv
  <2>3. TablesInv'
    BY <2>1 DEF PlatformInv, TablesInv, ManagedBy
  <2> QED BY <2>2, <2>3 DEF PlatformInv
<1>2. CASE \E s \in Syncs : \E o \in Outputs : New(s, o) \/ \E f \in Files : HandleConfigSet(s, o, f)
  BY <1>2, NewKeeps, HandleConfigSetKeeps
<1>3. CASE \E s \in Syncs : SyncSteps(s)
  BY <1>3, SyncStepKeeps
<1>4. CASE UserSteps
  BY <1>4, UserStepKeeps
<1>5. CASE Restart
  BY <1>5, RestartKeeps
<1> QED BY <1>1, <1>2, <1>3, <1>4, <1>5 DEF Next

LEMMA PlatformAlways == Spec => []PlatformInv
BY PlatformInitially, PlatformStepKeeps, PTL DEF Spec

(* The tables, the syncs and the requests have their types (store/sqlite.go:139-186,          *)
(* sync.go:151-273), for any number of them.                                                  *)
THEOREM PlatformTypeCorrect == Spec => []TypeOK
<1>1. PlatformInv => TypeOK
  <2> SUFFICES ASSUME PlatformInv PROVE TypeOK
    OBVIOUS
  <2>1. /\ connections \in [Connections -> ConnectionRows \cup {Absent}]
        /\ devices \in [Devices -> DeviceRows \cup {Absent}]
        /\ written \in [Connections \cup Devices -> SUBSET Outputs]
    BY DEF PlatformInv, TablesInv
  <2>2. file \in [Outputs -> Files \cup {Absent}] /\ events \in 0 .. MaxEvents
    BY DEF PlatformInv, OtherInv
  <2>3. ASSUME NEW s \in Syncs
        PROVE  /\ syncs[s].phase \in Phases
               /\ syncs[s].output \in Outputs \cup {Absent}
               /\ syncs[s].config \in Files \cup {Absent}
               /\ syncs[s].left \subseteq Connections \cup Devices
               /\ syncs[s].saving \in syncs[s].left \cup {Absent}
               /\ syncs[s].synced \subseteq Connections
               /\ syncs[s].undisturbed \in BOOLEAN
    BY AtWork DEF SyncOK, SyncRecord
  <2>4. \A r \in Requests : requests[r].op \in {"none", "put", "delete", "clone"}
    BY DEF PlatformInv, RequestsInv, RequestOK
  <2> QED BY <2>1, <2>2, <2>3, <2>4 DEF TypeOK
<1> QED BY <1>1, PlatformAlways, PTL

(* A sync in which no statement failed, and into whose rows nobody else wrote, leaves every   *)
(* controller and device of its file as the file says, and no other row with its mark, but a  *)
(* connection that a device refers to (sync.go:151-273): for any number of outputs that sync  *)
(* at once, of users, and of rows left over from before.                                      *)
THEOREM SyncsAreExact == Spec => []SyncIsExact
<1>1. PlatformInv => SyncIsExact
  <2> SUFFICES ASSUME PlatformInv, NEW s \in Syncs, syncs[s].phase = "done", syncs[s].undisturbed
               PROVE  Exact(syncs[s])
    BY DEF SyncIsExact
  <2>1. PICK sync : sync = syncs[s]
    OBVIOUS
  <2>2. Progress(sync, connections, devices) /\ sync.phase = "done"
    BY <2>1, AtWork DEF ProgressOf, Active
  <2>3. Exact(sync)
    BY <2>2 DEF Progress, ConnectionsWritten, DevicesWritten, DevicesCleaned, ConnectionsCleaned,
                Wanted, Exact, References, ReferencesIn
  <2> QED BY <2>1, <2>3
<1> QED BY <1>1, PlatformAlways, PTL

(* What a cleanup takes for an orphan was once written by a sync of the same output: never a  *)
(* row that is a user's alone or another output's (sync.go:216-273).                          *)
THEOREM CleanupIsOwn == Spec => []CleanupSparesOthers
<1>1. PlatformInv => CleanupSparesOthers
  BY DEF PlatformInv, SyncsInv, SyncOK, CleanupSparesOthers
<1> QED BY <1>1, PlatformAlways, PTL

-----------------------------------------------------------------------------
(* The inductive invariant of the commands.                                    *)

CommandTypes ==
    /\ output \in Receivers
    /\ phase \in [Instances -> {"none", "run", "closing", "closed"}]
    /\ writer \in [Instances -> BOOLEAN]
    /\ owner \in Instances \cup {Nil}
    /\ queue \in [Instances -> Seq(CommandRecords)]
    /\ writing \in [Instances -> Writings \cup {Nil}]
    /\ sent \in 0..MaxCommands
    /\ fate \in [Commands -> {"none", "refused", "taken", "rejected", "failed"}]
    /\ device \in 0..MaxCommands
    /\ answers \subseteq [n : Commands, ok : BOOLEAN, by : Instances]
    /\ dropped \subseteq [n : Commands, why : {"full", "closed"}]
    /\ overlapped \in BOOLEAN
    /\ output = "thingsboard" => \A i \in Instances : Len(queue[i]) <= QueueSize

Dropped(n)  == \E d \in dropped : d.n = n
HasAnswer(n) == \E a \in answers : a.n = n

(* A command that waits has met no fate; it waits in one place, behind those that came       *)
(* before it.                                                                                *)
QueuedOK(i, k, n) ==
    /\ n <= sent /\ fate[n] = "none" /\ ~Dropped(n)
    /\ \A l \in DOMAIN queue[i] : k < l => n < queue[i][l].n
    /\ \A j \in Instances \ {i} : \A l \in DOMAIN queue[j] : queue[j][l].n # n

QueuesOK == \A i \in Instances : \A k \in DOMAIN queue[i] : QueuedOK(i, k, queue[i][k].n)

(* So does one that is being carried out; it keeps its place until it is answered.           *)
WritingOK(i, n, err) ==
    /\ n <= sent /\ ~Dropped(n) /\ ~HasAnswer(n)
    /\ err = Nil => fate[n] = "none"
    /\ err = TRUE => fate[n] # "none"
    /\ err = FALSE => fate[n] \in {"taken", "rejected"}
    /\ \A k \in DOMAIN queue[i] : n < queue[i][k].n
    /\ \A j \in Instances \ {i} :
         /\ \A l \in DOMAIN queue[j] : queue[j][l].n # n
         /\ writing[j] # Nil => writing[j].command.n # n

WritingsOK ==
    \A i \in Instances :
        writing[i] # Nil => WritingOK(i, writing[i].command.n, writing[i].err)

AnswersOK ==
    /\ \A a \in answers : fate[a.n] # "none" /\ (a.ok => fate[a.n] \in {"taken", "rejected"})
    /\ \A a, b \in answers : a.n = b.n => a = b

(* Nothing is known of a command before it is sent, and every one that was sent is somewhere. *)
PlacesOK ==
    /\ \A n \in Commands : n > sent => fate[n] = "none" /\ ~Dropped(n)
    /\ \A n \in Commands : Dropped(n) => fate[n] = "none"
    /\ \A n \in 1..sent : Waits(n) \/ InHand(n) \/ fate[n] # "none" \/ Dropped(n)

(* While only one instance had commands, those that it still has are later than those that   *)
(* were taken.                                                                               *)
OrderOK ==
    ~overlapped =>
        /\ device # 0 => fate[device] = "taken"
        /\ \A m \in Commands : fate[m] = "taken" =>
              /\ m <= device
              /\ \A i \in Instances : \A k \in DOMAIN queue[i] : m < queue[i][k].n
              /\ \A i \in Instances : writing[i] # Nil /\ writing[i].err = Nil =>
                    m < writing[i].command.n
        /\ \A i, j \in Instances : Has(i) /\ Has(j) => i = j

CommandsInv == CommandTypes /\ QueuesOK /\ WritingsOK /\ AnswersOK /\ PlacesOK /\ OrderOK

-----------------------------------------------------------------------------
LEMMA CommandsInitially == CommandInit => CommandsInv
<1> SUFFICES ASSUME CommandInit PROVE CommandsInv
  OBVIOUS
<1>1. /\ queue = [i \in Instances |-> <<>>] /\ writing = [i \in Instances |-> Nil]
      /\ answers = {} /\ dropped = {} /\ sent = 0 /\ device = 0 /\ ~overlapped
      /\ fate = [n \in Commands |-> "none"]
  BY DEF CommandInit
<1>2. CommandTypes
  <2>1. 0 \in 0..MaxCommands /\ \A i \in Instances : Len(queue[i]) <= QueueSize
    BY <1>1, DownlinkAssumption
  <2>2. queue \in [Instances -> Seq(CommandRecords)] /\ writing \in [Instances -> Writings \cup {Nil}]
    BY <1>1
  <2> QED BY <1>1, <2>1, <2>2 DEF CommandInit, CommandTypes
<1>3. QueuesOK /\ WritingsOK /\ AnswersOK
  BY <1>1 DEF QueuesOK, WritingsOK, AnswersOK
<1>4. PlacesOK
  BY <1>1, DownlinkAssumption DEF PlacesOK, Dropped, Commands
<1>5. OrderOK
  BY <1>1 DEF OrderOK, Has
<1> QED BY <1>2, <1>3, <1>4, <1>5 DEF CommandsInv

(* Steps that concern the connection alone. *)
LEMMA ConnectionStep ==
    ASSUME CommandsInv,
           UNCHANGED <<output, queue, writing, sent, fate, device, answers, dropped, overlapped>>,
           phase' \in [Instances -> {"none", "run", "closing", "closed"}],
           writer' \in [Instances -> BOOLEAN], owner' \in Instances \cup {Nil}
    PROVE  CommandsInv'
<1>1. CommandTypes'
  BY DEF CommandsInv, CommandTypes
<1>2. QueuesOK' /\ WritingsOK' /\ AnswersOK'
  BY DEF CommandsInv, QueuesOK, QueuedOK, WritingsOK, WritingOK, AnswersOK, Dropped, HasAnswer
<1>3. PlacesOK'
  BY DEF CommandsInv, PlacesOK, Dropped, Waits, InHand
<1>4. OrderOK'
  BY DEF CommandsInv, OrderOK, Has
<1> QED BY <1>1, <1>2, <1>3, <1>4 DEF CommandsInv

LEMMA ConnectionKeeps ==
    ASSUME CommandsInv, NEW i \in Instances, Build(i) \/ OnConnect(i) \/ Stop(i) \/ WriterExits(i)
    PROVE  CommandsInv'
<1>1. CommandTypes
  BY DEF CommandsInv
<1>2. CASE Build(i)
  <2>1. writer' \in [Instances -> BOOLEAN]
    BY <1>1, <1>2 DEF Build, CommandTypes
  <2> QED BY <1>1, <1>2, <2>1, ConnectionStep DEF Build, CommandTypes
<1>3. CASE OnConnect(i)
  BY <1>1, <1>3, ConnectionStep DEF OnConnect, CommandTypes
<1>4. CASE Stop(i)
  BY <1>1, <1>4, ConnectionStep DEF Stop, CommandTypes
<1>5. CASE WriterExits(i)
  BY <1>1, <1>5, ConnectionStep DEF WriterExits, CommandTypes
<1> QED BY <1>2, <1>3, <1>4, <1>5

LEMMA QueueEntries ==
    ASSUME CommandTypes, NEW i \in Instances, NEW k \in DOMAIN queue[i]
    PROVE  queue[i][k] \in CommandRecords /\ queue[i][k].n \in Commands /\ queue[i][k].n \in Nat
<1>1. queue[i] \in Seq(CommandRecords)
  BY DEF CommandTypes
<1>2. queue[i][k] \in CommandRecords
  BY <1>1
<1> QED BY <1>2, DownlinkAssumption DEF CommandRecords, Commands

LEMMA WritingEntry ==
    ASSUME CommandTypes, NEW i \in Instances, writing[i] # Nil
    PROVE  /\ writing[i] \in Writings /\ writing[i].command \in CommandRecords
           /\ writing[i].command.n \in Commands /\ writing[i].command.n \in Nat
           /\ writing[i].err \in BOOLEAN \cup {Nil}
<1>1. writing[i] \in Writings
  BY DEF CommandTypes
<1> QED BY <1>1, DownlinkAssumption DEF Writings, CommandRecords, Commands

LEMMA DisconnectKeeps ==
    ASSUME CommandsInv, NEW i \in Instances, Disconnect(i)
    PROVE  CommandsInv'
<1> DEFINE lost == {[n |-> c.n, why |-> "closed"] : c \in ToSet(queue[i])}
<1>1. CommandTypes /\ queue \in [Instances -> Seq(CommandRecords)]
  BY DEF CommandsInv, CommandTypes
<1>2. /\ queue' = [queue EXCEPT ![i] = <<>>] /\ dropped' = dropped \cup lost
      /\ UNCHANGED <<output, writer, writing, sent, fate, device, answers, overlapped>>
  BY DEF Disconnect
<1>3. /\ \A j \in Instances : j # i => queue'[j] = queue[j]
      /\ queue'[i] = <<>> /\ DOMAIN queue'[i] = {}
  BY <1>1, <1>2
<1>4. ASSUME NEW n PROVE Dropped(n)' <=> Dropped(n) \/ \E k \in DOMAIN queue[i] : queue[i][k].n = n
  <2>1. \A c : c \in ToSet(queue[i]) <=> \E k \in DOMAIN queue[i] : queue[i][k] = c
    BY DEF ToSet
  <2>2. (\E d \in lost : d.n = n) <=> \E c \in ToSet(queue[i]) : c.n = n
    <3>1. ASSUME NEW d \in lost, d.n = n PROVE \E c \in ToSet(queue[i]) : c.n = n
      <4>1. PICK c \in ToSet(queue[i]) : d = [n |-> c.n, why |-> "closed"]
        OBVIOUS
      <4> QED BY <3>1, <4>1
    <3>2. ASSUME NEW c \in ToSet(queue[i]), c.n = n PROVE \E d \in lost : d.n = n
      <4>1. [n |-> c.n, why |-> "closed"] \in lost
        OBVIOUS
      <4>2. [n |-> c.n, why |-> "closed"].n = n
        BY <3>2
      <4> HIDE DEF lost
      <4> QED BY <4>1, <4>2
    <3> QED BY <3>1, <3>2
  <2> HIDE DEF lost
  <2> QED BY <1>2, <2>1, <2>2 DEF Dropped
<1>5. CommandTypes'
  <2>1. lost \subseteq [n : Commands, why : {"full", "closed"}]
    BY <1>1, QueueEntries DEF ToSet
  <2>2. phase' \in [Instances -> {"none", "run", "closing", "closed"}] /\ owner' \in Instances \cup {Nil}
    BY <1>1 DEF Disconnect, CommandTypes
  <2>3. queue' \in [Instances -> Seq(CommandRecords)]
    BY <1>1, <1>2
  <2>4. output' = "thingsboard" => \A j \in Instances : Len(queue'[j]) <= QueueSize
    BY <1>1, <1>2, <1>3, DownlinkAssumption DEF CommandTypes
  <2> HIDE DEF lost
  <2> QED BY <1>1, <1>2, <2>1, <2>2, <2>3, <2>4 DEF CommandTypes
<1>6. QueuesOK'
  <2> SUFFICES ASSUME NEW j \in Instances, NEW k \in DOMAIN queue'[j], NEW n, n = queue'[j][k].n
               PROVE  QueuedOK(j, k, n)'
    BY DEF QueuesOK
  <2>1. j # i /\ queue'[j] = queue[j] /\ QueuedOK(j, k, n)
    BY <1>3 DEF CommandsInv, QueuesOK
  <2>2. ~Dropped(n)'
    BY <1>4, <2>1 DEF QueuedOK
  <2> QED BY <1>2, <1>3, <2>1, <2>2 DEF QueuedOK
<1>7. WritingsOK'
  <2> SUFFICES ASSUME NEW j \in Instances, writing[j] # Nil, NEW n, n = writing[j].command.n,
                      NEW err, err = writing[j].err
               PROVE  WritingOK(j, n, err)'
    BY <1>2 DEF WritingsOK
  <2>1. WritingOK(j, n, err) /\ n \in Nat
    BY <1>1, WritingEntry DEF CommandsInv, WritingsOK
  <2>2. \A k \in DOMAIN queue[i] : queue[i][k].n # n
    BY <1>1, <2>1, QueueEntries DEF WritingOK
  <2>3. ~Dropped(n)'
    BY <1>4, <2>1, <2>2 DEF WritingOK
  <2> QED BY <1>2, <1>3, <2>1, <2>3 DEF WritingOK, HasAnswer
<1>8. AnswersOK'
  BY <1>2 DEF CommandsInv, AnswersOK
<1>9. PlacesOK'
  <2>1. \A n : InHand(n)' <=> InHand(n)
    BY <1>2 DEF InHand
  <2>2. ASSUME NEW n, Waits(n) PROVE Waits(n)' \/ Dropped(n)'
    <3>1. PICK j \in Instances : \E k \in DOMAIN queue[j] : queue[j][k].n = n
      BY <2>2 DEF Waits, ToSet
    <3>2. CASE j = i
      BY <1>4, <3>1, <3>2
    <3>3. CASE j # i
      BY <1>3, <3>1, <3>3 DEF Waits, ToSet
    <3> QED BY <3>2, <3>3
  <2>3. ASSUME NEW n \in Commands, Dropped(n)' PROVE fate[n] = "none" /\ n <= sent
    <3>1. CASE Dropped(n)
      BY <1>1, <3>1, DownlinkAssumption DEF CommandsInv, PlacesOK, CommandTypes, Commands
    <3>2. CASE \E k \in DOMAIN queue[i] : queue[i][k].n = n
      BY <3>2 DEF CommandsInv, QueuesOK, QueuedOK
    <3> QED BY <1>4, <2>3, <3>1, <3>2
  <2>4. \A n \in 1..sent : Waits(n)' \/ InHand(n)' \/ fate[n] # "none" \/ Dropped(n)'
    BY <1>4, <2>1, <2>2 DEF CommandsInv, PlacesOK
  <2>5. \A n \in Commands : n > sent => fate[n] = "none"
    BY DEF CommandsInv, PlacesOK
  <2>6. \A n \in Commands : n > sent => ~Dropped(n)'
    BY <1>1, <2>3, DownlinkAssumption DEF CommandTypes, Commands
  <2> QED BY <1>2, <2>3, <2>4, <2>5, <2>6 DEF PlacesOK
<1>10. OrderOK'
  <2>1. \A j \in Instances : Has(j)' => Has(j)
    BY <1>2, <1>3 DEF Has
  <2> QED BY <1>2, <1>3, <2>1 DEF CommandsInv, OrderOK
<1> QED BY <1>5, <1>6, <1>7, <1>8, <1>9, <1>10 DEF CommandsInv

(* A command arrives: nothing is known of it yet. *)
LEMMA NewCommand ==
    ASSUME CommandsInv, sent < MaxCommands
    PROVE  /\ sent \in Nat /\ sent + 1 \in Commands /\ sent + 1 \in 1..MaxCommands
           /\ fate[sent + 1] = "none" /\ ~Dropped(sent + 1) /\ ~HasAnswer(sent + 1)
           /\ \A i \in Instances : \A k \in DOMAIN queue[i] : queue[i][k].n < sent + 1
           /\ \A i \in Instances : writing[i] # Nil => writing[i].command.n < sent + 1
<1>1. CommandTypes /\ sent \in Nat /\ sent + 1 \in Commands
  BY DownlinkAssumption DEF CommandsInv, CommandTypes, Commands
<1>2. fate[sent + 1] = "none" /\ ~Dropped(sent + 1)
  BY <1>1 DEF CommandsInv, PlacesOK
<1>3. ~HasAnswer(sent + 1)
  BY <1>2 DEF CommandsInv, AnswersOK, HasAnswer
<1>4. \A i \in Instances : \A k \in DOMAIN queue[i] : queue[i][k].n < sent + 1
  BY <1>1, QueueEntries DEF CommandsInv, QueuesOK, QueuedOK
<1>5. \A i \in Instances : writing[i] # Nil => writing[i].command.n < sent + 1
  BY <1>1, WritingEntry DEF CommandsInv, WritingsOK, WritingOK
<1> QED BY <1>1, <1>2, <1>3, <1>4, <1>5 DEF Commands

LEMMA DroppedOne ==
    ASSUME NEW m, NEW why, dropped' = dropped \cup {[n |-> m, why |-> why]}, NEW n
    PROVE  Dropped(n)' <=> Dropped(n) \/ n = m
<1>1. PICK d : d = [n |-> m, why |-> why]
  OBVIOUS
<1>2. d.n = m /\ dropped' = dropped \cup {d}
  BY <1>1
<1> QED BY <1>2 DEF Dropped

LEMMA ArrivesKeeps ==
    ASSUME CommandsInv, NEW i \in Instances, NEW asks \in BOOLEAN, Arrives(i),
           Enqueue(i, Command(sent + 1, asks)), UNCHANGED <<fate, answers>>
    PROVE  CommandsInv'
<1>1. CommandTypes /\ sent < MaxCommands /\ sent' = sent + 1
      /\ UNCHANGED <<output, phase, writer, owner, writing, device, fate, answers>>
      /\ overlapped' = (overlapped \/ \E j \in Instances \ {i} : Has(j))
  BY DEF CommandsInv, Arrives
<1>2. /\ sent \in Nat /\ sent + 1 \in Commands /\ sent + 1 \in 1..MaxCommands
      /\ fate[sent + 1] = "none" /\ ~Dropped(sent + 1) /\ ~HasAnswer(sent + 1)
      /\ \A j \in Instances : \A k \in DOMAIN queue[j] : queue[j][k].n < sent + 1
      /\ \A j \in Instances : writing[j] # Nil => writing[j].command.n < sent + 1
  BY <1>1, NewCommand
<1>3. PICK c : c = Command(sent + 1, asks)
  OBVIOUS
<1>4. c \in CommandRecords /\ c.n = sent + 1
  BY <1>2, <1>3 DEF Command, CommandRecords
<1>5. sent' \in 0..MaxCommands /\ overlapped' \in BOOLEAN
  BY <1>1, <1>2 DEF CommandTypes
<1>6. AnswersOK'
  BY <1>1 DEF CommandsInv, AnswersOK
<1>7. \A n : InHand(n)' <=> InHand(n)
  BY <1>1 DEF InHand
<1>8. \A j \in Instances : \A k \in DOMAIN queue[j] : queue[j][k].n \in Nat
  BY <1>1, QueueEntries
<1>9. \A j \in Instances : writing[j] # Nil => writing[j].command.n \in Nat
  BY <1>1, WritingEntry
<1>10. CASE HasRoom(i) /\ queue' = [queue EXCEPT ![i] = Append(@, c)] /\ UNCHANGED dropped
  <2>1. queue[i] \in Seq(CommandRecords) /\ Len(queue[i]) \in Nat
    BY <1>1 DEF CommandTypes
  <2>2. queue'[i] = Append(queue[i], c) /\ \A j \in Instances \ {i} : queue'[j] = queue[j]
    BY <1>1, <1>10 DEF CommandTypes
  <2>3. /\ DOMAIN queue'[i] = 1..(Len(queue[i]) + 1) /\ DOMAIN queue[i] = 1..Len(queue[i])
        /\ \A k \in DOMAIN queue[i] : queue'[i][k] = queue[i][k]
        /\ queue'[i][Len(queue[i]) + 1] = c /\ Len(queue'[i]) = Len(queue[i]) + 1
    BY <1>4, <2>1, <2>2
  <2>4. ASSUME NEW k \in DOMAIN queue'[i]
        PROVE  \/ k \in DOMAIN queue[i] /\ queue'[i][k] = queue[i][k]
               \/ k = Len(queue[i]) + 1 /\ queue'[i][k] = c
    BY <2>1, <2>3
  <2>5. CommandTypes'
    <3>1. queue' \in [Instances -> Seq(CommandRecords)]
      BY <1>1, <1>4, <1>10 DEF CommandTypes
    <3>2. output = "thingsboard" => \A j \in Instances : Len(queue'[j]) <= QueueSize
      BY <1>1, <1>10, <2>1, <2>2, <2>3, DownlinkAssumption DEF CommandTypes, HasRoom
    <3> QED BY <1>1, <1>5, <1>10, <3>1, <3>2 DEF CommandTypes
  <2>6. QueuesOK'
    <3> SUFFICES ASSUME NEW j \in Instances, NEW k \in DOMAIN queue'[j], NEW n, n = queue'[j][k].n
                 PROVE  QueuedOK(j, k, n)'
      BY DEF QueuesOK
    <3>1. CASE j = i /\ k = Len(queue[i]) + 1
      <4>1. n = sent + 1
        BY <1>4, <2>3, <3>1
      <4>2. n <= sent' /\ fate'[n] = "none" /\ ~Dropped(n)'
        BY <1>1, <1>2, <1>10, <4>1 DEF Dropped
      <4>3. \A l \in DOMAIN queue'[j] : ~(k < l)
        BY <2>1, <2>3, <3>1
      <4>4. \A m \in Instances \ {j} : \A l \in DOMAIN queue'[m] : queue'[m][l].n # n
        BY <1>2, <1>8, <2>2, <3>1, <4>1
      <4> QED BY <4>2, <4>3, <4>4 DEF QueuedOK
    <3>2. CASE j = i /\ k \in DOMAIN queue[i]
      <4>1. QueuedOK(i, k, n) /\ n < sent + 1 /\ n \in Nat
        BY <1>2, <1>8, <2>3, <3>2 DEF CommandsInv, QueuesOK
      <4>2. n <= sent' /\ fate'[n] = "none" /\ ~Dropped(n)'
        BY <1>1, <1>2, <1>10, <4>1 DEF Dropped, QueuedOK
      <4>3. \A l \in DOMAIN queue'[j] : k < l => n < queue'[j][l].n
        BY <1>4, <2>4, <3>2, <4>1 DEF QueuedOK
      <4>4. \A m \in Instances \ {j} : \A l \in DOMAIN queue'[m] : queue'[m][l].n # n
        BY <2>2, <3>2, <4>1 DEF QueuedOK
      <4> QED BY <4>2, <4>3, <4>4 DEF QueuedOK
    <3>3. CASE j # i
      <4>1. QueuedOK(j, k, n) /\ n < sent + 1 /\ n \in Nat /\ queue'[j] = queue[j]
        BY <1>2, <1>8, <2>2, <3>3 DEF CommandsInv, QueuesOK
      <4>2. n <= sent' /\ fate'[n] = "none" /\ ~Dropped(n)'
        BY <1>1, <1>2, <1>10, <4>1 DEF Dropped, QueuedOK
      <4>3. \A l \in DOMAIN queue'[j] : k < l => n < queue'[j][l].n
        BY <4>1 DEF QueuedOK
      <4>4. ASSUME NEW m \in Instances \ {j}, NEW l \in DOMAIN queue'[m]
            PROVE  queue'[m][l].n # n
        <5>1. \A k2 \in DOMAIN queue[m] : queue[m][k2].n # n
          BY <4>1 DEF QueuedOK
        <5>2. CASE m # i
          BY <2>2, <5>1, <5>2
        <5>3. CASE m = i
          <6>1. (l \in DOMAIN queue[i] /\ queue'[i][l] = queue[i][l]) \/ queue'[i][l] = c
            BY <2>4, <5>3
          <6>2. c.n # n
            BY <1>2, <1>4, <4>1
          <6> QED BY <5>1, <5>3, <6>1, <6>2
        <5> QED BY <5>2, <5>3
      <4> QED BY <4>2, <4>3, <4>4 DEF QueuedOK
    <3> QED BY <2>4, <3>1, <3>2, <3>3
  <2>7. WritingsOK'
    <3> SUFFICES ASSUME NEW j \in Instances, writing[j] # Nil, NEW n, n = writing[j].command.n,
                        NEW err, err = writing[j].err
                 PROVE  WritingOK(j, n, err)'
      BY <1>1 DEF WritingsOK
    <3>1. WritingOK(j, n, err) /\ n \in Nat /\ n < sent + 1
      BY <1>2, <1>9 DEF CommandsInv, WritingsOK
    <3>2. ~Dropped(n)' /\ ~HasAnswer(n)' /\ n <= sent'
      BY <1>1, <1>2, <1>10, <3>1 DEF WritingOK, Dropped, HasAnswer
    <3>3. \A k \in DOMAIN queue'[j] : n < queue'[j][k].n
      BY <1>4, <2>2, <2>4, <3>1, SMTT(30) DEF WritingOK
    <3>4. \A m \in Instances \ {j} : \A l \in DOMAIN queue'[m] : queue'[m][l].n # n
      <4> SUFFICES ASSUME NEW m \in Instances \ {j}, NEW l \in DOMAIN queue'[m]
                   PROVE  queue'[m][l].n # n
        OBVIOUS
      <4>1. \A h \in DOMAIN queue[m] : queue[m][h].n # n
        BY <3>1 DEF WritingOK
      <4>2. CASE m = i
        BY <1>2, <1>4, <2>4, <3>1, <4>1, <4>2
      <4>3. CASE m # i
        BY <2>2, <4>1, <4>3
      <4> QED BY <4>2, <4>3
    <3>5. \A m \in Instances \ {j} : writing'[m] # Nil => writing'[m].command.n # n
      <4>1. \A m \in Instances \ {j} : writing[m] # Nil => writing[m].command.n # n
        BY <3>1 DEF WritingOK
      <4>2. writing' = writing
        BY <1>1
      <4> QED BY <4>1, <4>2
    <3>6. /\ err = Nil => fate'[n] = "none"
          /\ err = TRUE => fate'[n] # "none"
          /\ err = FALSE => fate'[n] \in {"taken", "rejected"}
      BY <1>1, <3>1 DEF WritingOK
    <3> QED BY <3>2, <3>3, <3>4, <3>5, <3>6 DEF WritingOK
  <2>8. PlacesOK'
    <3>1. ASSUME NEW n, Waits(n) PROVE Waits(n)'
      <4>1. PICK j \in Instances : \E k \in DOMAIN queue[j] : queue[j][k].n = n
        BY <3>1 DEF Waits, ToSet
      <4>2. PICK k \in DOMAIN queue[j] : queue[j][k].n = n
        BY <4>1
      <4>3. k \in DOMAIN queue'[j] /\ queue'[j][k].n = n
        BY <2>2, <2>3, <4>2, <2>1
      <4> QED BY <4>3 DEF Waits, ToSet
    <3>2. ASSUME NEW n, n = sent + 1 PROVE Waits(n)'
      <4>1. Len(queue[i]) + 1 \in DOMAIN queue'[i] /\ queue'[i][Len(queue[i]) + 1].n = sent + 1
        BY <1>4, <2>1, <2>3
      <4> QED BY <3>2, <4>1 DEF Waits, ToSet
    <3>3. \A n : Dropped(n)' <=> Dropped(n)
      BY <1>10 DEF Dropped
    <3>4. \A n \in 1..(sent + 1) : n \in 1..sent \/ n = sent + 1
      BY <1>2
    <3>5. \A n \in Commands : n > sent + 1 => n > sent
      BY <1>2 DEF Commands
    <3> QED BY <1>1, <1>7, <3>1, <3>2, <3>3, <3>4, <3>5 DEF CommandsInv, PlacesOK
  <2>9. OrderOK'
    <3> SUFFICES ASSUME ~overlapped' PROVE OrderOK'
      BY DEF OrderOK
    <3>1. ~overlapped /\ \A j \in Instances \ {i} : ~Has(j)
      BY <1>1, <1>5
    <3>2. \A j \in Instances \ {i} : ~Has(j)'
      BY <1>1, <2>2, <3>1 DEF Has
    <3>3. \A j, k \in Instances : Has(j)' /\ Has(k)' => j = k
      BY <3>2
    <3>4. ASSUME NEW m \in Commands, fate[m] = "taken"
          PROVE  /\ m <= device
                 /\ \A j \in Instances : \A k \in DOMAIN queue'[j] : m < queue'[j][k].n
                 /\ \A j \in Instances : writing[j] # Nil /\ writing[j].err = Nil =>
                       m < writing[j].command.n
      <4>1. m <= sent /\ m < sent + 1 /\ m \in Nat
        BY <1>1, <1>2, <3>4 DEF CommandsInv, PlacesOK, Commands
      <4> QED BY <1>4, <2>2, <2>4, <3>1, <3>4, <4>1, SMTT(30) DEF CommandsInv, OrderOK
    <3> QED BY <1>1, <3>1, <3>3, <3>4 DEF CommandsInv, OrderOK
  <2> QED BY <1>6, <2>5, <2>6, <2>7, <2>8, <2>9 DEF CommandsInv
<1>11. CASE dropped' = dropped \cup {[n |-> c.n, why |-> "full"]} /\ UNCHANGED queue
  <2>1. \A n : Dropped(n)' <=> Dropped(n) \/ n = sent + 1
    BY <1>4, <1>11, DroppedOne
  <2>2. CommandTypes'
    <3>1. dropped' \subseteq [n : Commands, why : {"full", "closed"}]
      BY <1>1, <1>2, <1>4, <1>11 DEF CommandTypes
    <3> QED BY <1>1, <1>5, <1>11, <3>1 DEF CommandTypes
  <2>3. QueuesOK'
    <3> SUFFICES ASSUME NEW j \in Instances, NEW k \in DOMAIN queue[j], NEW n, n = queue[j][k].n
                 PROVE  QueuedOK(j, k, n)'
      BY <1>11 DEF QueuesOK
    <3>1. QueuedOK(j, k, n) /\ n < sent + 1 /\ n \in Nat
      BY <1>2, <1>8 DEF CommandsInv, QueuesOK
    <3> QED BY <1>1, <1>2, <1>11, <2>1, <3>1 DEF QueuedOK
  <2>4. WritingsOK'
    <3> SUFFICES ASSUME NEW j \in Instances, writing[j] # Nil, NEW n, n = writing[j].command.n,
                        NEW err, err = writing[j].err
                 PROVE  WritingOK(j, n, err)'
      BY <1>1 DEF WritingsOK
    <3>1. WritingOK(j, n, err) /\ n \in Nat /\ n < sent + 1
      BY <1>2, <1>9 DEF CommandsInv, WritingsOK
    <3> QED BY <1>1, <1>2, <1>11, <2>1, <3>1 DEF WritingOK, HasAnswer
  <2>5. PlacesOK'
    <3>1. \A n : Waits(n)' <=> Waits(n)
      BY <1>11 DEF Waits
    <3>2. \A n \in 1..(sent + 1) : n \in 1..sent \/ n = sent + 1
      BY <1>2
    <3>3. \A n \in Commands : n > sent + 1 => n > sent /\ n # sent + 1
      BY <1>2 DEF Commands
    <3> QED BY <1>1, <1>2, <1>7, <2>1, <3>1, <3>2, <3>3 DEF CommandsInv, PlacesOK
  <2>6. OrderOK'
    <3>1. \A j \in Instances : Has(j)' <=> Has(j)
      BY <1>1, <1>11 DEF Has
    <3> QED BY <1>1, <1>5, <1>11, <3>1 DEF CommandsInv, OrderOK
  <2> QED BY <1>6, <2>2, <2>3, <2>4, <2>5, <2>6 DEF CommandsInv
<1> QED BY <1>3, <1>10, <1>11 DEF Enqueue

(* Answers are those there were, and at most that of one command. *)
LEMMA PublishedAnswer ==
    ASSUME NEW i, NEW c, NEW ok, Published(i, Answer(i, c, ok))
    PROVE  /\ answers \subseteq answers'
           /\ \A a \in answers' : a \in answers \/ (a.n = c.n /\ a.ok = ok /\ a.by = i)
           /\ \A a, b \in answers' : a \in answers \/ b \in answers \/ a = b
           /\ \A a \in answers' : a \in answers \/ a = [n |-> c.n, ok |-> ok, by |-> i]
<1>1. PICK answer : answer = [n |-> c.n, ok |-> ok, by |-> i]
  OBVIOUS
<1>2. \A a \in Answer(i, c, ok) : a = answer
  BY <1>1 DEF Answer
<1>3. answers' = answers \/ answers' = answers \cup Answer(i, c, ok)
  BY DEF Published
<1>4. answer.n = c.n /\ answer.ok = ok /\ answer.by = i
  BY <1>1
<1> QED BY <1>1, <1>2, <1>3, <1>4

LEMMA RefuseKeeps ==
    ASSUME CommandsInv, NEW i \in Instances, Refuse(i)
    PROVE  CommandsInv'
<1>1. CommandTypes /\ sent < MaxCommands /\ sent' = sent + 1
      /\ UNCHANGED <<output, phase, writer, owner, queue, writing, device, dropped>>
      /\ overlapped' = (overlapped \/ \E j \in Instances \ {i} : Has(j))
      /\ fate' = [fate EXCEPT ![sent + 1] = "refused"]
  BY DEF CommandsInv, Refuse, Arrives
<1>2. PICK new : new = sent + 1
  OBVIOUS
<1>3. /\ sent \in Nat /\ new \in Commands /\ new \in 1..MaxCommands
      /\ fate[new] = "none" /\ ~Dropped(new) /\ ~HasAnswer(new)
      /\ \A j \in Instances : \A k \in DOMAIN queue[j] : queue[j][k].n < new
      /\ \A j \in Instances : writing[j] # Nil => writing[j].command.n < new
  BY <1>1, <1>2, NewCommand
<1>4. /\ answers \subseteq answers'
      /\ \A a \in answers' : a \in answers \/ (a.n = new /\ a.ok = FALSE /\ a.by = i)
      /\ \A a, b \in answers' : a \in answers \/ b \in answers \/ a = b
      /\ \A a \in answers' : a \in answers \/ a = [n |-> new, ok |-> FALSE, by |-> i]
  <2>1. PICK c : c = Command(sent + 1, TRUE)
    OBVIOUS
  <2>2. c.n = new /\ Published(i, Answer(i, c, FALSE))
    BY <1>2, <2>1 DEF Refuse, Command
  <2>3. /\ answers \subseteq answers'
        /\ \A a \in answers' : a \in answers \/ (a.n = c.n /\ a.ok = FALSE /\ a.by = i)
        /\ \A a, b \in answers' : a \in answers \/ b \in answers \/ a = b
        /\ \A a \in answers' : a \in answers \/ a = [n |-> c.n, ok |-> FALSE, by |-> i]
    BY ONLY <2>2, PublishedAnswer
  <2> QED BY <2>2, <2>3
<1>5. fate'[new] = "refused" /\ (\A n \in Commands \ {new} : fate'[n] = fate[n]) /\ sent' = new
      /\ fate' \in [Commands -> {"none", "refused", "taken", "rejected", "failed"}]
  <2>1. fate \in [Commands -> {"none", "refused", "taken", "rejected", "failed"}]
    BY <1>1 DEF CommandTypes
  <2>2. fate' = [fate EXCEPT ![new] = "refused"] /\ sent' = new /\ new \in Commands
    BY <1>1, <1>2, <1>3
  <2> QED BY <2>1, <2>2
<1>6. \A n : Dropped(n)' <=> Dropped(n)
  BY <1>1 DEF Dropped
<1>7. \A j \in Instances : \A k \in DOMAIN queue[j] : queue[j][k].n \in Commands /\ queue[j][k].n \in Nat
  BY <1>1, QueueEntries
<1>8. \A j \in Instances :
         writing[j] # Nil => writing[j].command.n \in Commands /\ writing[j].command.n \in Nat
  BY <1>1, WritingEntry
<1>9. CommandTypes'
  <2>1. answers' \subseteq [n : Commands, ok : BOOLEAN, by : Instances]
    <3>1. [n |-> new, ok |-> FALSE, by |-> i] \in [n : Commands, ok : BOOLEAN, by : Instances]
      BY <1>3
    <3> QED BY <1>1, <1>4, <3>1 DEF CommandTypes
  <2>2. sent' \in 0..MaxCommands /\ overlapped' \in BOOLEAN
    BY <1>1, <1>2, <1>3 DEF CommandTypes
  <2> QED BY <1>1, <1>5, <2>1, <2>2 DEF CommandTypes
<1>10. QueuesOK'
  <2> SUFFICES ASSUME NEW j \in Instances, NEW k \in DOMAIN queue[j], NEW n, n = queue[j][k].n
               PROVE  QueuedOK(j, k, n)'
    BY <1>1 DEF QueuesOK
  <2>1. QueuedOK(j, k, n) /\ n < new /\ n \in Nat /\ n \in Commands
    BY <1>3, <1>7 DEF CommandsInv, QueuesOK
  <2>2. n <= sent' /\ fate'[n] = "none" /\ ~Dropped(n)' /\ queue' = queue
    BY <1>1, <1>2, <1>3, <1>5, <1>6, <2>1 DEF QueuedOK
  <2> QED BY <2>1, <2>2 DEF QueuedOK
<1>11. WritingsOK'
  <2> SUFFICES ASSUME NEW j \in Instances, writing[j] # Nil, NEW n, n = writing[j].command.n,
                      NEW err, err = writing[j].err
               PROVE  WritingOK(j, n, err)'
    BY <1>1 DEF WritingsOK
  <2>1. WritingOK(j, n, err) /\ n < new /\ n \in Nat /\ n \in Commands
    BY <1>3, <1>8 DEF CommandsInv, WritingsOK
  <2>2. n <= sent' /\ fate'[n] = fate[n] /\ ~Dropped(n)' /\ queue' = queue /\ writing' = writing
    BY <1>1, <1>2, <1>3, <1>5, <1>6, <2>1 DEF WritingOK
  <2>3. ~HasAnswer(n)'
    BY <1>2, <1>3, <1>4, <2>1 DEF WritingOK, HasAnswer
  <2> QED BY <2>1, <2>2, <2>3 DEF WritingOK
<1>12. AnswersOK'
  <2>1. \A a \in answers : a.n # new /\ a.n \in Commands
    BY <1>1, <1>3 DEF HasAnswer, CommandTypes
  <2>2. ASSUME NEW a \in answers' PROVE fate'[a.n] # "none" /\ (a.ok => fate'[a.n] \in {"taken", "rejected"})
    <3>1. CASE a \in answers
      BY <1>5, <2>1, <3>1 DEF CommandsInv, AnswersOK
    <3>2. CASE a.n = new /\ a.ok = FALSE
      BY <1>5, <3>2
    <3> QED BY <1>4, <3>1, <3>2
  <2>3. ASSUME NEW a \in answers', NEW b \in answers', a.n = b.n PROVE a = b
    BY <1>4, <2>1, <2>3 DEF CommandsInv, AnswersOK
  <2> QED BY <2>2, <2>3 DEF AnswersOK
<1>13. PlacesOK'
  <2>1. \A n : (Waits(n)' <=> Waits(n)) /\ (InHand(n)' <=> InHand(n))
    BY <1>1 DEF Waits, InHand
  <2>2. \A n \in 1..new : n \in Commands /\ (n = new \/ n \in 1..sent)
    BY <1>2, <1>3, DownlinkAssumption DEF Commands
  <2>3. \A n \in Commands : n > new => n > sent /\ n # new
    BY <1>2, <1>3 DEF Commands
  <2> QED BY <1>1, <1>3, <1>5, <1>6, <2>1, <2>2, <2>3 DEF CommandsInv, PlacesOK
<1>14. OrderOK'
  <2> SUFFICES ASSUME ~overlapped' PROVE OrderOK'
    BY DEF OrderOK
  <2>1. ~overlapped
    BY <1>1
  <2>2. \A j \in Instances : Has(j)' <=> Has(j)
    BY <1>1 DEF Has
  <2>3. \A m \in Commands : fate'[m] = "taken" <=> fate[m] = "taken"
    BY <1>3, <1>5
  <2>4. device # 0 => device \in Commands
    BY <1>1, DownlinkAssumption DEF CommandTypes, Commands
  <2> QED BY <1>1, <2>1, <2>2, <2>3, <2>4 DEF CommandsInv, OrderOK
<1> QED BY <1>9, <1>10, <1>11, <1>12, <1>13, <1>14 DEF CommandsInv

LEMMA TakeKeeps ==
    ASSUME CommandsInv, NEW i \in Instances, Take(i)
    PROVE  CommandsInv'
<1>1. PICK c, rest : c = Head(queue[i]) /\ rest = Tail(queue[i])
  OBVIOUS
<1>2. CommandTypes /\ queue[i] # <<>> /\ writing[i] = Nil
      /\ writing' = [writing EXCEPT ![i] = [command |-> c, err |-> Nil]]
      /\ queue' = [queue EXCEPT ![i] = rest]
      /\ UNCHANGED <<output, phase, writer, owner, sent, fate, device, answers, dropped, overlapped>>
  BY <1>1 DEF CommandsInv, Take, FirstOf, RestOf
<1>3. queue[i] \in Seq(CommandRecords) /\ Len(queue[i]) \in Nat /\ Len(queue[i]) > 0
  BY <1>2 DEF CommandTypes
<1>4. /\ rest \in Seq(CommandRecords) /\ Len(rest) = Len(queue[i]) - 1
      /\ DOMAIN queue[i] = 1..Len(queue[i]) /\ DOMAIN rest = 1..(Len(queue[i]) - 1)
      /\ \A k \in DOMAIN rest : k \in Nat /\ k + 1 \in DOMAIN queue[i] /\ rest[k] = queue[i][k + 1]
      /\ 1 \in DOMAIN queue[i] /\ c = queue[i][1] /\ c \in CommandRecords
  BY <1>1, <1>3
<1>5. QueuedOK(i, 1, c.n)
  BY <1>4 DEF CommandsInv, QueuesOK
<1>6. PICK hand : hand = [command |-> c, err |-> Nil]
  OBVIOUS
<1>7. hand \in Writings /\ hand.command = c /\ hand.err = Nil /\ hand # Nil
  BY <1>4, <1>6, DownlinkAssumption DEF Writings
<1>8. /\ writing'[i] = hand /\ queue'[i] = rest
      /\ \A j \in Instances \ {i} : writing'[j] = writing[j] /\ queue'[j] = queue[j]
  BY <1>2, <1>6 DEF CommandTypes
<1>9. \A k \in DOMAIN rest : rest[k].n > c.n /\ rest[k].n \in Nat /\ c.n \in Nat
  <2>1. ASSUME NEW k \in DOMAIN rest PROVE 1 < k + 1 /\ k + 1 \in DOMAIN queue[i]
    BY <1>3, <1>4
  <2>2. c.n \in Nat
    BY <1>2, <1>4, QueueEntries
  <2>3. ASSUME NEW k \in DOMAIN rest PROVE queue[i][k + 1].n \in Nat /\ c.n < queue[i][k + 1].n
    BY <1>2, <1>4, <1>5, <2>1, QueueEntries DEF QueuedOK
  <2> QED BY <1>4, <2>2, <2>3
<1>10. (\A n : Dropped(n)' <=> Dropped(n)) /\ (\A n : HasAnswer(n)' <=> HasAnswer(n))
  BY <1>2 DEF Dropped, HasAnswer
<1>11. CommandTypes'
  <2>1. queue' \in [Instances -> Seq(CommandRecords)] /\ writing' \in [Instances -> Writings \cup {Nil}]
    BY <1>2, <1>4, <1>6, <1>7 DEF CommandTypes
  <2>2. output = "thingsboard" => \A j \in Instances : Len(queue'[j]) <= QueueSize
    BY <1>2, <1>3, <1>4, <1>8, DownlinkAssumption DEF CommandTypes
  <2> QED BY <1>2, <2>1, <2>2 DEF CommandTypes
<1>12. ~HasAnswer(c.n)
  BY <1>5 DEF CommandsInv, AnswersOK, QueuedOK, HasAnswer
<1>13. ASSUME NEW j \in Instances, NEW k \in DOMAIN queue'[j]
       PROVE  \E h \in DOMAIN queue[j] : queue'[j][k] = queue[j][h] /\ (j = i => h = k + 1)
  <2>1. CASE j = i
    BY <1>4, <1>8, <2>1
  <2>2. CASE j # i
    BY <1>8, <2>2
  <2> QED BY <2>1, <2>2
<1>14. QueuesOK'
  <2> SUFFICES ASSUME NEW j \in Instances, NEW k \in DOMAIN queue'[j], NEW n, n = queue'[j][k].n
               PROVE  QueuedOK(j, k, n)'
    BY DEF QueuesOK
  <2>1. PICK h \in DOMAIN queue[j] : queue'[j][k] = queue[j][h] /\ (j = i => h = k + 1)
                                     /\ (j # i => h = k)
    BY <1>4, <1>8
  <2>2. QueuedOK(j, h, n)
    BY <2>1 DEF CommandsInv, QueuesOK
  <2>3. \A l \in DOMAIN queue'[j] : k < l => n < queue'[j][l].n
    <3>1. CASE j = i
      <4> SUFFICES ASSUME NEW l \in DOMAIN rest, k < l PROVE n < rest[l].n
        BY <1>8, <3>1
      <4>1. k \in DOMAIN rest /\ k + 1 < l + 1 /\ l + 1 \in DOMAIN queue[i] /\ rest[l] = queue[i][l + 1]
        BY <1>3, <1>4, <1>8, <3>1, SMTT(30)
      <4> QED BY <2>1, <2>2, <3>1, <4>1 DEF QueuedOK
    <3>2. CASE j # i
      BY <1>8, <2>1, <2>2, <3>2 DEF QueuedOK
    <3> QED BY <3>1, <3>2
  <2>4. \A m \in Instances \ {j} : \A l \in DOMAIN queue'[m] : queue'[m][l].n # n
    BY <1>13, <2>2 DEF QueuedOK
  <2>5. n <= sent' /\ fate'[n] = "none" /\ ~Dropped(n)'
    BY <1>2, <1>10, <2>2 DEF QueuedOK
  <2> QED BY <2>3, <2>4, <2>5 DEF QueuedOK
<1>15. WritingsOK'
  <2> SUFFICES ASSUME NEW j \in Instances, writing'[j] # Nil, NEW n, n = writing'[j].command.n,
                      NEW err, err = writing'[j].err
               PROVE  WritingOK(j, n, err)'
    BY DEF WritingsOK
  <2>1. CASE j = i
    <3>1. n = c.n /\ err = Nil
      BY <1>7, <1>8, <2>1
    <3>2. n <= sent' /\ ~Dropped(n)' /\ ~HasAnswer(n)' /\ fate'[n] = "none"
      BY <1>2, <1>5, <1>10, <1>12, <3>1 DEF QueuedOK
    <3>3. \A k \in DOMAIN queue'[i] : n < queue'[i][k].n
      BY <1>8, <1>9, <3>1
    <3>4. \A m \in Instances \ {i} : \A l \in DOMAIN queue'[m] : queue'[m][l].n # n
      BY <1>5, <1>8, <3>1 DEF QueuedOK
    <3>5. \A m \in Instances \ {i} : writing'[m] # Nil => writing'[m].command.n # n
      <4> SUFFICES ASSUME NEW m \in Instances \ {i}, writing[m] # Nil PROVE writing[m].command.n # n
        BY <1>8
      <4>1. WritingOK(m, writing[m].command.n, writing[m].err)
        BY DEF CommandsInv, WritingsOK
      <4> QED BY <1>4, <3>1, <4>1 DEF WritingOK
    <3>6. err # TRUE /\ err # FALSE
      BY <3>1, DownlinkAssumption
    <3> QED BY <2>1, <3>2, <3>3, <3>4, <3>5, <3>6 DEF WritingOK
  <2>2. CASE j # i
    <3>1. WritingOK(j, n, err) /\ writing[j] # Nil /\ n = writing[j].command.n
      BY <1>8, <2>2 DEF CommandsInv, WritingsOK
    <3>2. n <= sent' /\ ~Dropped(n)' /\ ~HasAnswer(n)' /\ fate' = fate
      BY <1>2, <1>10, <3>1 DEF WritingOK
    <3>3. \A k \in DOMAIN queue'[j] : n < queue'[j][k].n
      BY <1>8, <2>2, <3>1 DEF WritingOK
    <3>4. \A m \in Instances \ {j} : \A l \in DOMAIN queue'[m] : queue'[m][l].n # n
      BY <1>13, <3>1 DEF WritingOK
    <3>5. \A m \in Instances \ {j} : writing'[m] # Nil => writing'[m].command.n # n
      <4> SUFFICES ASSUME NEW m \in Instances \ {j}, writing'[m] # Nil PROVE writing'[m].command.n # n
        OBVIOUS
      <4>1. CASE m = i
        <5>1. c.n # n
          BY <1>4, <2>2, <3>1 DEF WritingOK
        <5> QED BY <1>7, <1>8, <4>1, <5>1
      <4>2. CASE m # i
        BY <1>8, <3>1, <4>2 DEF WritingOK
      <4> QED BY <4>1, <4>2
    <3> QED BY <3>1, <3>2, <3>3, <3>4, <3>5 DEF WritingOK
  <2> QED BY <2>1, <2>2
<1>16. AnswersOK'
  BY <1>2 DEF CommandsInv, AnswersOK
<1>17. PlacesOK'
  <2>1. ASSUME NEW n, Waits(n) PROVE Waits(n)' \/ InHand(n)'
    <3>1. PICK j \in Instances : \E k \in DOMAIN queue[j] : queue[j][k].n = n
      BY <2>1 DEF Waits, ToSet
    <3>2. PICK k \in DOMAIN queue[j] : queue[j][k].n = n
      BY <3>1
    <3>3. CASE j = i /\ k = 1
      BY <1>4, <1>7, <1>8, <3>2, <3>3 DEF InHand
    <3>4. CASE j = i /\ k # 1
      <4>1. k - 1 \in DOMAIN rest /\ rest[k - 1] = queue[i][k]
        BY <1>3, <1>4, <3>4
      <4> QED BY <1>8, <3>2, <3>4, <4>1 DEF Waits, ToSet
    <3>5. CASE j # i
      BY <1>8, <3>2, <3>5 DEF Waits, ToSet
    <3> QED BY <3>3, <3>4, <3>5
  <2>2. ASSUME NEW n, InHand(n) PROVE InHand(n)'
    BY <1>2, <1>8, <2>2 DEF InHand
  <2> QED BY <1>2, <1>10, <2>1, <2>2 DEF CommandsInv, PlacesOK
<1>18. OrderOK'
  <2> SUFFICES ASSUME ~overlapped PROVE OrderOK'
    BY <1>2 DEF OrderOK
  <2>1. \A j \in Instances : Has(j)' => Has(j)
    BY <1>2, <1>8 DEF Has
  <2>2. ASSUME NEW m \in Commands, fate[m] = "taken"
        PROVE  /\ m <= device
               /\ \A j \in Instances : \A k \in DOMAIN queue'[j] : m < queue'[j][k].n
               /\ \A j \in Instances : writing'[j] # Nil /\ writing'[j].err = Nil =>
                     m < writing'[j].command.n
    <3>1. /\ m <= device
          /\ \A j \in Instances : \A k \in DOMAIN queue[j] : m < queue[j][k].n
          /\ \A j \in Instances : writing[j] # Nil /\ writing[j].err = Nil => m < writing[j].command.n
      BY <2>2 DEF CommandsInv, OrderOK
    <3>2. \A j \in Instances : \A k \in DOMAIN queue'[j] : m < queue'[j][k].n
      BY <1>13, <3>1
    <3>3. m < c.n
      BY <1>4, <3>1
    <3>4. ASSUME NEW j \in Instances, writing'[j] # Nil, writing'[j].err = Nil
          PROVE  m < writing'[j].command.n
      <4>1. CASE j = i
        BY <1>7, <1>8, <3>3, <4>1
      <4>2. CASE j # i
        BY <1>8, <3>1, <3>4, <4>2
      <4> QED BY <4>1, <4>2
    <3> QED BY <3>1, <3>2, <3>4
  <2> QED BY <1>2, <2>1, <2>2 DEF CommandsInv, OrderOK
<1> QED BY <1>11, <1>14, <1>15, <1>16, <1>17, <1>18 DEF CommandsInv

LEMMA WritePointKeeps ==
    ASSUME CommandsInv, NEW i \in Instances, NEW what \in {"taken", "rejected", "failed"}, NEW value,
           NEW err \in BOOLEAN, WritePoint(i, what, value, err),
           value = IF what = "taken" THEN writing[i].command.n ELSE device,
           what = "failed" => err
    PROVE  CommandsInv'
<1>1. PICK done : done = writing[i].command.n
  OBVIOUS
<1>2. CommandTypes /\ writing[i] # Nil /\ writing[i].err = Nil
      /\ fate' = [fate EXCEPT ![done] = what] /\ device' = value
      /\ writing' = [writing EXCEPT ![i].err = err]
      /\ UNCHANGED <<output, phase, writer, owner, queue, sent, answers, dropped, overlapped>>
  BY <1>1 DEF CommandsInv, WritePoint
<1>3. /\ writing[i] \in Writings /\ done \in Commands /\ done \in Nat
      /\ WritingOK(i, done, Nil)
  BY <1>1, <1>2, WritingEntry DEF CommandsInv, WritingsOK
<1>4. fate[done] = "none" /\ ~Dropped(done) /\ ~HasAnswer(done) /\ done <= sent
  BY <1>3 DEF WritingOK
<1>5. /\ fate'[done] = what /\ \A n \in Commands \ {done} : fate'[n] = fate[n]
      /\ fate' \in [Commands -> {"none", "refused", "taken", "rejected", "failed"}]
  BY <1>2, <1>3 DEF CommandTypes
<1>6. PICK hand : hand = [writing[i] EXCEPT !.err = err]
  OBVIOUS
<1>7. hand \in Writings /\ hand.command.n = done /\ hand.err = err /\ hand # Nil
  BY <1>1, <1>3, <1>6, DownlinkAssumption DEF Writings
<1>8. writing'[i] = hand /\ (\A j \in Instances \ {i} : writing'[j] = writing[j])
      /\ writing' \in [Instances -> Writings \cup {Nil}]
  BY <1>2, <1>6, <1>7 DEF CommandTypes
<1>9. (\A n : Dropped(n)' <=> Dropped(n)) /\ (\A n : HasAnswer(n)' <=> HasAnswer(n))
      /\ (\A n : Waits(n)' <=> Waits(n))
  BY <1>2 DEF Dropped, HasAnswer, Waits
<1>10. device' \in 0..MaxCommands
  BY <1>1, <1>2, <1>3, DownlinkAssumption DEF CommandTypes, Commands
<1>11. CommandTypes'
  BY <1>2, <1>5, <1>8, <1>10 DEF CommandTypes
<1>12. QueuesOK'
  <2> SUFFICES ASSUME NEW j \in Instances, NEW k \in DOMAIN queue[j], NEW n, n = queue[j][k].n
               PROVE  QueuedOK(j, k, n)'
    BY <1>2 DEF QueuesOK
  <2>1. QueuedOK(j, k, n) /\ n \in Commands
    BY <1>2, QueueEntries DEF CommandsInv, QueuesOK
  <2>2. n # done
    BY <1>3 DEF WritingOK
  <2>3. n <= sent' /\ fate'[n] = "none" /\ ~Dropped(n)' /\ queue' = queue
    BY <1>2, <1>5, <1>9, <2>1, <2>2 DEF QueuedOK
  <2> QED BY <2>1, <2>3 DEF QueuedOK
<1>13. WritingsOK'
  <2> SUFFICES ASSUME NEW j \in Instances, writing'[j] # Nil, NEW n, n = writing'[j].command.n,
                      NEW e, e = writing'[j].err
               PROVE  WritingOK(j, n, e)'
    BY DEF WritingsOK
  <2>1. \A m \in Instances : writing'[m] # Nil =>
           writing[m] # Nil /\ writing'[m].command.n = writing[m].command.n
    BY <1>1, <1>2, <1>7, <1>8
  <2>2. WritingOK(j, n, writing[j].err)
    BY <2>1 DEF CommandsInv, WritingsOK
  <2>3. /\ n <= sent' /\ ~Dropped(n)' /\ ~HasAnswer(n)'
        /\ \A k \in DOMAIN queue'[j] : n < queue'[j][k].n
        /\ \A m \in Instances \ {j} : \A l \in DOMAIN queue'[m] : queue'[m][l].n # n
    BY <1>2, <1>9, <2>2 DEF WritingOK
  <2>4. \A m \in Instances \ {j} : writing'[m] # Nil => writing'[m].command.n # n
    BY <2>1, <2>2 DEF WritingOK
  <2>5. /\ e = Nil => fate'[n] = "none"
        /\ e = TRUE => fate'[n] # "none"
        /\ e = FALSE => fate'[n] \in {"taken", "rejected"}
    <3>1. CASE j = i
      <4>1. n = done /\ e = err /\ fate'[n] = what
        BY <1>5, <1>7, <1>8, <3>1
      <4> QED BY <4>1, DownlinkAssumption
    <3>2. CASE j # i
      <4>1. writing[j] # Nil /\ n = writing[j].command.n /\ e = writing[j].err /\ n \in Commands
        BY <1>2, <1>8, <3>2, WritingEntry
      <4>2. n # done
        BY <1>3, <3>2, <4>1 DEF WritingOK
      <4> QED BY <1>5, <2>2, <4>1, <4>2 DEF WritingOK
    <3> QED BY <3>1, <3>2
  <2> QED BY <2>3, <2>4, <2>5 DEF WritingOK
<1>14. AnswersOK'
  <2>1. \A a \in answers : a.n # done /\ a.n \in Commands
    BY <1>2, <1>4 DEF HasAnswer, CommandTypes
  <2> QED BY <1>2, <1>5, <2>1 DEF CommandsInv, AnswersOK
<1>15. PlacesOK'
  <2>1. ASSUME NEW n, InHand(n), n # done PROVE InHand(n)'
    <3>1. PICK j \in Instances : writing[j] # Nil /\ writing[j].err = Nil /\ writing[j].command.n = n
      BY <2>1 DEF InHand
    <3>2. j # i
      BY <1>1, <2>1, <3>1
    <3> QED BY <1>8, <3>1, <3>2 DEF InHand
  <2>2. \A n \in Commands : n > sent => n # done
    BY <1>2, <1>4, <1>3, DownlinkAssumption DEF CommandTypes, Commands
  <2>3. \A n \in 1..sent : n \in Commands
    BY <1>2, DownlinkAssumption DEF CommandTypes, Commands
  <2>4. \A n \in 1..sent : Waits(n)' \/ InHand(n)' \/ fate'[n] # "none" \/ Dropped(n)'
    BY <1>5, <1>9, <2>1, <2>3 DEF CommandsInv, PlacesOK
  <2>5. \A n \in Commands : n > sent => fate'[n] = "none" /\ ~Dropped(n)'
    BY <1>5, <1>9, <2>2 DEF CommandsInv, PlacesOK
  <2>6. \A n \in Commands : Dropped(n)' => fate'[n] = "none"
    BY <1>4, <1>5, <1>9 DEF CommandsInv, PlacesOK
  <2> QED BY <1>2, <2>4, <2>5, <2>6 DEF PlacesOK
<1>16. OrderOK'
  <2> SUFFICES ASSUME ~overlapped PROVE OrderOK'
    BY <1>2 DEF OrderOK
  <2>1. /\ device # 0 => fate[device] = "taken"
        /\ \A m \in Commands : fate[m] = "taken" =>
              /\ m <= device
              /\ \A j \in Instances : \A k \in DOMAIN queue[j] : m < queue[j][k].n
              /\ \A j \in Instances : writing[j] # Nil /\ writing[j].err = Nil =>
                    m < writing[j].command.n
        /\ \A j, k \in Instances : Has(j) /\ Has(k) => j = k
    BY DEF CommandsInv, OrderOK
  <2>2. \A j \in Instances : Has(j)' => Has(j)
    BY <1>2, <1>8 DEF Has
  <2>3. \A m \in Commands : fate[m] = "taken" => m < done
    BY <1>1, <1>2, <2>1
  <2>4. \A j \in Instances \ {i} : queue[j] = <<>> /\ writing[j] = Nil
    BY <1>2, <2>1 DEF Has
  <2>5. device # 0 => device \in Commands
    BY <1>2, DownlinkAssumption DEF CommandTypes, Commands
  <2>6. device' # 0 => fate'[device'] = "taken"
    <3>1. CASE what = "taken"
      BY <1>1, <1>2, <1>5, <3>1
    <3>2. CASE what # "taken"
      BY <1>2, <1>4, <1>5, <2>1, <2>5, <3>2
    <3> QED BY <3>1, <3>2
  <2>7. ASSUME NEW m \in Commands, fate'[m] = "taken"
        PROVE  /\ m <= device'
               /\ \A j \in Instances : \A k \in DOMAIN queue[j] : m < queue[j][k].n
               /\ \A j \in Instances : writing'[j] # Nil /\ writing'[j].err = Nil =>
                     m < writing'[j].command.n
    <3>1. m \in Nat /\ hand.err # Nil
      BY <1>7, DownlinkAssumption DEF Commands
    <3>2. CASE m = done
      <4>1. what = "taken" /\ device' = done
        BY <1>1, <1>2, <1>5, <2>7, <3>2
      <4>2. \A j \in Instances : \A k \in DOMAIN queue[j] : m < queue[j][k].n
        BY <1>3, <2>4, <3>2 DEF WritingOK
      <4>3. \A j \in Instances : writing'[j] # Nil => j = i
        BY <1>8, <2>4
      <4> QED BY <1>8, <3>1, <3>2, <4>1, <4>2, <4>3
    <3>3. CASE m # done
      <4>1. fate[m] = "taken" /\ m < done
        BY <1>5, <2>3, <2>7, <3>3
      <4>2. m <= device'
        BY <1>1, <1>2, <1>3, <2>1, <3>1, <4>1
      <4> QED BY <1>8, <2>1, <2>4, <3>1, <4>1, <4>2
    <3> QED BY <3>2, <3>3
  <2> QED BY <1>2, <2>1, <2>2, <2>6, <2>7 DEF OrderOK
<1> QED BY <1>11, <1>12, <1>13, <1>14, <1>15, <1>16 DEF CommandsInv

LEMMA ReplyKeeps ==
    ASSUME CommandsInv, NEW i \in Instances, Reply(i)
    PROVE  CommandsInv'
<1>1. PICK c, ok : c = writing[i].command /\ ok = ~writing[i].err
  OBVIOUS
<1>2. CommandTypes /\ writing[i] # Nil /\ writing[i].err # Nil
      /\ Published(i, Answer(i, c, ok))
      /\ writing' = [writing EXCEPT ![i] = Nil]
      /\ UNCHANGED <<output, phase, writer, owner, queue, sent, fate, device, dropped, overlapped>>
  BY <1>1 DEF CommandsInv, Reply
<1>3. /\ writing[i] \in Writings /\ c \in CommandRecords /\ c.n \in Commands /\ writing[i].err \in BOOLEAN
      /\ ok \in BOOLEAN
      /\ WritingOK(i, c.n, writing[i].err)
  BY <1>1, <1>2, WritingEntry DEF CommandsInv, WritingsOK
<1>4. /\ answers \subseteq answers'
      /\ \A a \in answers' : a \in answers \/ (a.n = c.n /\ a.ok = ok /\ a.by = i)
      /\ \A a, b \in answers' : a \in answers \/ b \in answers \/ a = b
      /\ \A a \in answers' : a \in answers \/ a = [n |-> c.n, ok |-> ok, by |-> i]
  BY <1>2, PublishedAnswer
<1>5. fate[c.n] # "none" /\ (ok => fate[c.n] \in {"taken", "rejected"}) /\ ~HasAnswer(c.n)
  <2>1. CASE writing[i].err = TRUE
    BY <1>1, <1>3, <2>1 DEF WritingOK
  <2>2. CASE writing[i].err = FALSE
    BY <1>1, <1>3, <2>2 DEF WritingOK
  <2> QED BY <1>3, <2>1, <2>2
<1>6. writing'[i] = Nil /\ (\A j \in Instances \ {i} : writing'[j] = writing[j])
      /\ writing' \in [Instances -> Writings \cup {Nil}]
  BY <1>2 DEF CommandTypes
<1>7. (\A n : Dropped(n)' <=> Dropped(n)) /\ (\A n : Waits(n)' <=> Waits(n))
  BY <1>2 DEF Dropped, Waits
<1>8. CommandTypes'
  <2>1. [n |-> c.n, ok |-> ok, by |-> i] \in [n : Commands, ok : BOOLEAN, by : Instances]
    BY <1>3
  <2>2. answers' \subseteq [n : Commands, ok : BOOLEAN, by : Instances]
    BY <1>2, <1>4, <2>1 DEF CommandTypes
  <2> QED BY <1>2, <1>6, <2>2 DEF CommandTypes
<1>9. QueuesOK'
  BY <1>2, <1>7 DEF CommandsInv, QueuesOK, QueuedOK
<1>10. WritingsOK'
  <2> SUFFICES ASSUME NEW j \in Instances, writing'[j] # Nil, NEW n, n = writing'[j].command.n,
                      NEW err, err = writing'[j].err
               PROVE  WritingOK(j, n, err)'
    BY DEF WritingsOK
  <2>1. j # i /\ writing[j] # Nil /\ n = writing[j].command.n /\ err = writing[j].err
    BY <1>6
  <2>2. WritingOK(j, n, err)
    BY <2>1 DEF CommandsInv, WritingsOK
  <2>3. n # c.n
    BY <1>1, <1>2, <2>1, <2>2 DEF WritingOK
  <2>4. ~HasAnswer(n)'
    BY <1>4, <2>2, <2>3 DEF WritingOK, HasAnswer
  <2>5. \A m \in Instances \ {j} : writing'[m] # Nil => writing'[m].command.n # n
    BY <1>6, <2>2 DEF WritingOK
  <2> QED BY <1>2, <1>7, <2>2, <2>4, <2>5 DEF WritingOK
<1>11. AnswersOK'
  <2>1. \A a \in answers : a.n # c.n
    BY <1>5 DEF HasAnswer
  <2>2. ASSUME NEW a \in answers' PROVE fate[a.n] # "none" /\ (a.ok => fate[a.n] \in {"taken", "rejected"})
    BY <1>4, <1>5 DEF CommandsInv, AnswersOK
  <2>3. ASSUME NEW a \in answers', NEW b \in answers', a.n = b.n PROVE a = b
    BY <1>4, <2>1, <2>3 DEF CommandsInv, AnswersOK
  <2> QED BY <1>2, <2>2, <2>3 DEF AnswersOK
<1>12. PlacesOK'
  <2>1. ASSUME NEW n, InHand(n) PROVE InHand(n)'
    BY <1>2, <1>6, <2>1 DEF InHand
  <2> QED BY <1>2, <1>7, <2>1 DEF CommandsInv, PlacesOK
<1>13. OrderOK'
  <2>1. \A j \in Instances : Has(j)' => Has(j)
    BY <1>2, <1>6 DEF Has
  <2>2. \A j \in Instances : writing'[j] # Nil => writing'[j] = writing[j]
    BY <1>6
  <2> QED BY <1>2, <2>1, <2>2 DEF CommandsInv, OrderOK
<1> QED BY <1>8, <1>9, <1>10, <1>11, <1>12, <1>13 DEF CommandsInv

LEMMA CommandStep == CommandsInv /\ [CommandNext]_commandVars => CommandsInv'
<1> SUFFICES ASSUME CommandsInv, [CommandNext]_commandVars PROVE CommandsInv'
  OBVIOUS
<1>1. CASE UNCHANGED commandVars
  <2>1. CommandTypes
    BY DEF CommandsInv
  <2> QED BY <1>1, <2>1, ConnectionStep DEF commandVars, CommandTypes
<1>2. CASE CommandNext
  <2>1. PICK i \in Instances :
           \/ Build(i) \/ OnConnect(i) \/ Stop(i) \/ WriterExits(i) \/ Disconnect(i)
           \/ Attribute(i) \/ RPC(i) \/ Refuse(i) \/ ServiceCall(i)
           \/ Take(i) \/ Takes(i) \/ Rejects(i) \/ Fails(i) \/ Doubtful(i) \/ Reply(i)
    BY <1>2 DEF CommandNext
  <2>2. CASE Build(i) \/ OnConnect(i) \/ Stop(i) \/ WriterExits(i)
    BY <2>2, ConnectionKeeps
  <2>3. CASE Disconnect(i)
    BY <2>3, DisconnectKeeps
  <2>4. CASE Attribute(i) \/ RPC(i) \/ ServiceCall(i)
    BY <2>4, ArrivesKeeps DEF Attribute, RPC, ServiceCall
  <2>5. CASE Refuse(i)
    BY <2>5, RefuseKeeps
  <2>6. CASE Take(i)
    BY <2>6, TakeKeeps
  <2>7. CASE Takes(i)
    <3>1. WritePoint(i, "taken", writing[i].command.n, FALSE)
      BY <2>7 DEF Takes
    <3> QED BY <3>1, WritePointKeeps
  <2>8. CASE Rejects(i)
    <3>1. WritePoint(i, "rejected", device, FALSE)
      BY <2>8 DEF Rejects
    <3> QED BY <3>1, WritePointKeeps
  <2>9. CASE Fails(i)
    <3>1. WritePoint(i, "failed", device, TRUE)
      BY <2>9 DEF Fails
    <3> QED BY <3>1, WritePointKeeps
  <2>10. CASE Doubtful(i)
    <3>1. WritePoint(i, "taken", writing[i].command.n, TRUE)
      BY <2>10 DEF Doubtful
    <3> QED BY <3>1, WritePointKeeps
  <2>11. CASE Reply(i)
    BY <2>11, ReplyKeeps
  <2> QED BY <2>1, <2>2, <2>3, <2>4, <2>5, <2>6, <2>7, <2>8, <2>9, <2>10, <2>11
<1> QED BY <1>1, <1>2

LEMMA CommandInvariance == CommandSpec => []CommandsInv
<1> QED BY CommandsInitially, CommandStep, PTL DEF CommandSpec

-----------------------------------------------------------------------------
(* What the invariant says of one command.                                     *)

LEMMA OnePlace ==
    ASSUME CommandsInv, NEW n \in 1..sent
    PROVE  \/ Waits(n) /\ ~InHand(n) /\ fate[n] = "none" /\ ~Dropped(n)
           \/ ~Waits(n) /\ InHand(n) /\ fate[n] = "none" /\ ~Dropped(n)
           \/ ~Waits(n) /\ ~InHand(n) /\ fate[n] # "none" /\ ~Dropped(n)
           \/ ~Waits(n) /\ ~InHand(n) /\ fate[n] = "none" /\ Dropped(n)
<1>1. CommandTypes /\ n \in Commands
  BY DownlinkAssumption DEF CommandsInv, CommandTypes, Commands
<1>2. ASSUME Waits(n) PROVE ~InHand(n) /\ fate[n] = "none" /\ ~Dropped(n)
  <2>1. PICK i \in Instances : \E k \in DOMAIN queue[i] : queue[i][k].n = n
    BY <1>2 DEF Waits, ToSet
  <2>2. PICK k \in DOMAIN queue[i] : queue[i][k].n = n
    BY <2>1
  <2>3. fate[n] = "none" /\ ~Dropped(n)
    BY <2>2 DEF CommandsInv, QueuesOK, QueuedOK
  <2>4. ASSUME NEW j \in Instances, writing[j] # Nil PROVE writing[j].command.n # n
    <3>1. WritingOK(j, writing[j].command.n, writing[j].err) /\ writing[j].command.n \in Nat
      BY <1>1, <2>4, WritingEntry DEF CommandsInv, WritingsOK
    <3>2. CASE j = i
      BY <2>2, <3>1, <3>2 DEF WritingOK
    <3>3. CASE j # i
      BY <2>2, <3>1, <3>3 DEF WritingOK
    <3> QED BY <3>2, <3>3
  <2> QED BY <2>3, <2>4 DEF InHand
<1>3. ASSUME InHand(n) PROVE fate[n] = "none" /\ ~Dropped(n)
  <2>1. PICK i \in Instances : writing[i] # Nil /\ writing[i].err = Nil /\ writing[i].command.n = n
    BY <1>3 DEF InHand
  <2> QED BY <2>1 DEF CommandsInv, WritingsOK, WritingOK
<1>4. Dropped(n) => fate[n] = "none"
  BY <1>1 DEF CommandsInv, PlacesOK
<1>5. Waits(n) \/ InHand(n) \/ fate[n] # "none" \/ Dropped(n)
  BY DEF CommandsInv, PlacesOK
<1> QED BY <1>2, <1>3, <1>4, <1>5

LEMMA OnceEach == CommandsInv => CarriedOutOnce
<1> SUFFICES ASSUME CommandsInv, NEW n \in 1..sent
             PROVE  /\ Cardinality({p \in {"waits", "in hand", "done", "dropped"} :
                          \/ p = "waits" /\ Waits(n)
                          \/ p = "in hand" /\ InHand(n)
                          \/ p = "done" /\ fate[n] # "none"
                          \/ p = "dropped" /\ \E d \in dropped : d.n = n}) = 1
                    /\ Cardinality({a \in answers : a.n = n}) <= 1
  BY DEF CarriedOutOnce
<1> DEFINE places == {p \in {"waits", "in hand", "done", "dropped"} :
                          \/ p = "waits" /\ Waits(n)
                          \/ p = "in hand" /\ InHand(n)
                          \/ p = "done" /\ fate[n] # "none"
                          \/ p = "dropped" /\ \E d \in dropped : d.n = n}
           given  == {a \in answers : a.n = n}
<1>1. \E p : places = {p}
  <2>1. CASE Waits(n) /\ ~InHand(n) /\ fate[n] = "none" /\ ~Dropped(n)
    <3>1. places = {"waits"}
      BY <2>1 DEF Dropped
    <3> QED BY <3>1
  <2>2. CASE ~Waits(n) /\ InHand(n) /\ fate[n] = "none" /\ ~Dropped(n)
    <3>1. places = {"in hand"}
      BY <2>2 DEF Dropped
    <3> QED BY <3>1
  <2>3. CASE ~Waits(n) /\ ~InHand(n) /\ fate[n] # "none" /\ ~Dropped(n)
    <3>1. places = {"done"}
      BY <2>3 DEF Dropped
    <3> QED BY <3>1
  <2>4. CASE ~Waits(n) /\ ~InHand(n) /\ fate[n] = "none" /\ Dropped(n)
    <3>1. places = {"dropped"}
      BY <2>4 DEF Dropped
    <3> QED BY <3>1
  <2> HIDE DEF places
  <2> QED BY <2>1, <2>2, <2>3, <2>4, OnePlace
<1>2. given = {} \/ \E a : given = {a}
  BY DEF CommandsInv, AnswersOK
<1> HIDE DEF places, given
<1>3. Cardinality(places) = 1
  BY <1>1, FS_Singleton
<1>4. Cardinality(given) <= 1
  <2>1. CASE given = {}
    <3>1. Cardinality(given) = 0
      BY <2>1, FS_EmptySet
    <3> QED BY <3>1
  <2>2. CASE \E a : given = {a}
    <3>1. Cardinality(given) = 1
      BY <2>2, FS_Singleton
    <3> QED BY <3>1
  <2> QED BY <1>2, <2>1, <2>2
<1> QED BY <1>3, <1>4 DEF places, given

LEMMA LastWins == CommandsInv => LastCommandWins
<1> SUFFICES ASSUME CommandsInv, ~overlapped
             PROVE  device = Max({0} \cup {n \in Commands : fate[n] = "taken"})
  BY DEF LastCommandWins
<1> DEFINE taken == {0} \cup {n \in Commands : fate[n] = "taken"}
<1>1. taken \subseteq Nat /\ device \in Nat
  BY DownlinkAssumption DEF CommandsInv, CommandTypes, Commands
<1>2. device \in taken
  BY DownlinkAssumption DEF CommandsInv, CommandTypes, OrderOK, Commands
<1>3. \A m \in taken : m <= device
  BY <1>1 DEF CommandsInv, OrderOK
<1> HIDE DEF taken
<1>4. ASSUME NEW x \in taken, \A y \in taken : x >= y PROVE x = device
  <2>1. x >= device /\ x <= device /\ x \in Nat
    BY <1>1, <1>2, <1>3, <1>4
  <2> QED BY <1>1, <2>1
<1>5. \A y \in taken : device >= y
  BY <1>1, <1>3
<1>6. Max(taken) = device
  <2>1. Max(taken) \in taken /\ \A y \in taken : Max(taken) >= y
    BY <1>2, <1>5 DEF Max
  <2> QED BY <1>4, <2>1
<1> QED BY <1>6 DEF taken

\* The queues, the command being written and the answers have their types in every reachable
\* state; the queue of the ThingsBoard output never holds more than writeQueueSize commands,
\* although the callbacks and the writer work on it concurrently (thingsboard.go:265-358,
\* smardaten.go:459-552).
THEOREM CommandTypesCorrect == CommandSpec => []CommandTypeOK
<1>1. CommandsInv => CommandTypeOK
  <2> SUFFICES ASSUME CommandsInv PROVE CommandTypeOK
    OBVIOUS
  <2>1. CommandTypes
    BY DEF CommandsInv
  <2>2. \A i \in Instances : ToSet(queue[i]) \subseteq CommandRecords
    BY <2>1, QueueEntries DEF ToSet
  <2>3. \A i \in Instances : writing[i] = Nil \/ writing[i].command.n \in Commands
    BY <2>1, WritingEntry
  <2> QED BY <2>1, <2>2, <2>3 DEF CommandTypes, CommandTypeOK
<1> QED BY <1>1, CommandInvariance, PTL

\* No command is carried out twice, forgotten without a trace, answered twice or answered with
\* a success that is none, and the point has the value of the last command that the device took
\* as long as one instance had commands, whatever the number of instances, of commands and the
\* size of the queue (thingsboard.go:265-358, smardaten.go:459-552).
THEOREM CommandsExact == CommandSpec => []CommandsAreExact
<1>1. CommandsInv => AnsweredAsItWas
  BY DEF CommandsInv, AnswersOK, AnsweredAsItWas
<1>2. CommandsInv => CommandsAreExact
  BY <1>1, OnceEach, LastWins DEF CommandsAreExact
<1> QED BY <1>2, CommandInvariance, PTL
(* The types of both, as the run checks them: a behaviour of the whole is one of each part. *)
THEOREM AllTypesCorrect == Spec /\ CommandSpec => []TypesOK
<1>1. TypeOK /\ CommandTypeOK => TypesOK
  BY DEF TypesOK
<1> QED BY <1>1, PlatformTypeCorrect, CommandTypesCorrect, PTL

-----------------------------------------------------------------------------
(* The reading of a Modbus device.                                            *)
(*                                                                            *)
(* What the sort and the folds of ReadPlan yield is proved without induction: *)
(* from the least size, or the least index, for which it would not hold.      *)

(* A set of natural numbers that is not empty has a least element. *)
LEMMA LeastNumber ==
    ASSUME NEW T \in SUBSET Nat, T # {}
    PROVE  \E x \in T : \A y \in T : ~(y < x)
<1> DEFINE R == OpToRel(<, Nat)
<1>1. IsWellFoundedOn(R, Nat)
  BY NatLessThanWellFounded
<1>2. ASSUME NEW x \in Nat, NEW y \in Nat, x < y PROVE <<x, y>> \in R
  BY <1>2 DEF OpToRel
<1> HIDE DEF R
<1>3. PICK x \in T : \A y \in T : ~(<<y, x>> \in R)
  BY <1>1, WFMin
<1> QED BY <1>2, <1>3

(* What the solvers need to be told of intervals and sequences. *)
LEMMA LastIndex == ASSUME NEW m \in Nat, m # 0 PROVE m \in 1 .. m
OBVIOUS

LEMMA IsSequence ==
    ASSUME NEW T, NEW n \in Nat, NEW f, f = [i \in 1 .. n |-> f[i]], \A i \in 1 .. n : f[i] \in T
    PROVE  f \in Seq(T) /\ Len(f) = n
<1>1. f \in [1 .. n -> T]
  OBVIOUS
<1> QED BY <1>1
-----------------------------------------------------------------------------
(* The order of the points.                                                   *)

Sorts(s, S) ==
    /\ s \in [1 .. Cardinality(S) -> S] /\ ToSet(s) = S
    /\ \A i, j \in DOMAIN s : i < j => s[i].register <= s[j].register

(* A point that belongs behind all others is put there. *)
LEMMA SortedAppend ==
    ASSUME NEW S, IsFiniteSet(S), NEW s, Sorts(s, S), NEW p, p \notin S,
           \A q \in S : q.register <= p.register
    PROVE  \E t : Sorts(t, S \cup {p})
<1> DEFINE n == Cardinality(S)
           t == [i \in 1 .. n + 1 |-> IF i = n + 1 THEN p ELSE s[i]]
<1>1. n \in Nat /\ Cardinality(S \cup {p}) = n + 1
  BY FS_CardinalityType, FS_AddElement
<1> HIDE DEF n
<1>2. /\ s \in [1 .. n -> S] /\ \A q \in S : \E i \in 1 .. n : s[i] = q
      /\ \A i, j \in 1 .. n : i < j => s[i].register <= s[j].register
  BY DEF Sorts, ToSet, n
<1>3. t \in [1 .. n + 1 -> S \cup {p}]
  BY <1>1, <1>2
<1>4. ToSet(t) = S \cup {p}
  <2>1. \A i \in 1 .. n : i \in 1 .. n + 1 /\ i # n + 1
    BY <1>1
  <2>2. \A i \in 1 .. n : t[i] = s[i]
    BY <2>1
  <2>3. n + 1 \in 1 .. n + 1 /\ t[n + 1] = p
    BY <1>1
  <2> HIDE DEF t
  <2>4. \A q \in S : \E i \in 1 .. n + 1 : t[i] = q
    BY <1>2, <2>1, <2>2
  <2>5. DOMAIN t = 1 .. n + 1 /\ \A i \in 1 .. n + 1 : t[i] \in S \cup {p}
    BY <1>3
  <2> QED BY <2>3, <2>4, <2>5 DEF ToSet
<1>5. \A i, j \in 1 .. n + 1 : i < j => t[i].register <= t[j].register
  <2> SUFFICES ASSUME NEW i \in 1 .. n + 1, NEW j \in 1 .. n + 1, i < j
               PROVE  t[i].register <= t[j].register
    OBVIOUS
  <2>1. i \in 1 .. n /\ t[i] = s[i] /\ s[i] \in S
    BY <1>1, <1>2
  <2>2. CASE j = n + 1
    BY <2>1, <2>2
  <2>3. CASE j # n + 1
    BY <1>1, <1>2, <2>1, <2>3
  <2> QED BY <2>2, <2>3
<1> HIDE DEF t
<1>6. Sorts(t, S \cup {p})
  BY <1>1, <1>3, <1>4, <1>5 DEF Sorts
<1> QED BY <1>6

(* Every finite set of points can be sorted: the last of all but one point, or that one, *)
(* belongs behind the others.                                                            *)
LEMMA SortsExist ==
    ASSUME NEW S \in SUBSET Points, IsFiniteSet(S)
    PROVE  \E s : Sorts(s, S)
<1> DEFINE Bad == {T \in SUBSET Points : IsFiniteSet(T) /\ ~ \E s : Sorts(s, T)}
           sizes == {Cardinality(T) : T \in Bad}
<1> SUFFICES ASSUME sizes # {} PROVE FALSE
  OBVIOUS
<1>1. PICK n \in sizes : \A m \in sizes : ~(m < n)
  <2>1. sizes \in SUBSET Nat
    BY FS_CardinalityType
  <2> HIDE DEF sizes
  <2> QED BY <2>1, LeastNumber
<1>2. PICK T \in Bad : n = Cardinality(T)
  BY <1>1
<1>3. T \in SUBSET Points /\ IsFiniteSet(T) /\ n \in Nat /\ ~ \E s : Sorts(s, T)
  BY <1>2, FS_CardinalityType
<1>4. \A p \in T : \E s : Sorts(s, T \ {p})
  <2> SUFFICES ASSUME NEW p \in T PROVE \E s : Sorts(s, T \ {p})
    OBVIOUS
  <2>1. /\ T \ {p} \in SUBSET Points /\ IsFiniteSet(T \ {p})
        /\ Cardinality(T \ {p}) = n - 1 /\ n - 1 < n
    BY <1>2, <1>3, FS_RemoveElement
  <2>2. n - 1 \notin sizes
    BY <1>1, <2>1
  <2> QED BY <2>1, <2>2
<1>5. CASE T = {}
  <2>1. Cardinality(T) = 0
    BY <1>5, FS_EmptySet
  <2>2. Sorts(<<>>, T)
    BY <1>5, <2>1 DEF Sorts, ToSet
  <2> QED BY <1>3, <2>2
<1>6. ASSUME NEW p \in T, \A q \in T \ {p} : q.register <= p.register PROVE FALSE
  <2>1. PICK s : Sorts(s, T \ {p})
    BY <1>4
  <2>2. IsFiniteSet(T \ {p}) /\ (T \ {p}) \cup {p} = T
    BY <1>3, FS_RemoveElement
  <2>3. \E t : Sorts(t, (T \ {p}) \cup {p})
    BY <1>6, <2>1, <2>2, SortedAppend
  <2> QED BY <1>3, <2>2, <2>3
<1>7. CASE T # {}
  <2>1. PICK p \in T : TRUE
    BY <1>7
  <2>2. PICK s : Sorts(s, T \ {p})
    BY <1>4
  <2> DEFINE m == Cardinality(T \ {p})
  <2>3. m \in Nat /\ m = n - 1
    <3>1. IsFiniteSet(T \ {p}) /\ Cardinality(T \ {p}) = Cardinality(T) - 1
      BY <1>3, <2>1, FS_RemoveElement
    <3>2. Cardinality(T \ {p}) \in Nat
      BY <3>1, FS_CardinalityType
    <3> QED BY <1>2, <3>1, <3>2
  <2> HIDE DEF m
  <2>4. /\ s \in [1 .. m -> T \ {p}] /\ \A q \in T \ {p} : \E i \in 1 .. m : s[i] = q
        /\ \A i, j \in 1 .. m : i < j => s[i].register <= s[j].register
    BY <2>2 DEF Sorts, ToSet, m
  <2>5. \A q \in T : q.register \in Int
    BY <1>3, ReadPlanAssumption DEF Points
  <2>6. CASE m = 0
    <3>1. T \ {p} = {}
      BY <2>4, <2>6
    <3> QED BY <1>6, <2>1, <3>1
  <2>7. CASE m # 0
    <3> DEFINE q == s[m]
    <3>1. m \in 1 .. m /\ q \in T \ {p}
      <4>1. m \in 1 .. m
        BY <2>3, <2>7, LastIndex
      <4> QED BY <2>4, <4>1
    <3>2. \A r \in T \ {p} : r.register <= q.register
      <4> SUFFICES ASSUME NEW r \in T \ {p} PROVE r.register <= q.register
        OBVIOUS
      <4>1. PICK i \in 1 .. m : s[i] = r
        BY <2>4
      <4>2. i < m \/ i = m
        BY <2>3
      <4>3. r.register \in Int
        BY <2>5
      <4> QED BY <2>4, <3>1, <4>1, <4>2, <4>3
    <3> HIDE DEF q
    <3>3. CASE q.register <= p.register
      <4>1. \A r \in T \ {p} : r.register <= p.register
        BY <2>1, <2>5, <3>1, <3>2, <3>3
      <4> QED BY <1>6, <2>1, <4>1
    <3>4. CASE ~(q.register <= p.register)
      <4>1. \A r \in T \ {q} : r.register <= q.register
        BY <2>1, <2>5, <3>1, <3>2, <3>4
      <4> QED BY <1>6, <3>1, <4>1
    <3> QED BY <3>3, <3>4
  <2> QED BY <2>6, <2>7
<1> QED BY <1>5, <1>7

(* What Sorted chooses is sorted, and holds every point. *)
LEMMA SortedSorts ==
    ASSUME NEW S \in SUBSET Points, IsFiniteSet(S)
    PROVE  /\ Sorted(S) \in Seq(S) /\ Len(Sorted(S)) \in Nat
           /\ \A p \in S : \E i \in 1 .. Len(Sorted(S)) : Sorted(S)[i] = p
           /\ \A i, j \in 1 .. Len(Sorted(S)) :
                 i < j => Sorted(S)[i].register <= Sorted(S)[j].register
<1> DEFINE s == Sorted(S)
           n == Cardinality(S)
<1>1. n \in Nat
  BY FS_CardinalityType
<1>2. Sorts(s, S)
  <2>1. PICK t : Sorts(t, S)
    BY SortsExist
  <2>2. /\ t \in [1 .. Cardinality(S) -> S]
        /\ ToSet(t) = S /\ \A i, j \in DOMAIN t : i < j => t[i].register <= t[j].register
    BY <2>1 DEF Sorts
  <2> QED BY <2>2 DEF Sorts, Sorted
<1> HIDE DEF s, n
<1>3. /\ s \in [1 .. n -> S] /\ \A p \in S : \E i \in 1 .. n : s[i] = p
      /\ \A i, j \in 1 .. n : i < j => s[i].register <= s[j].register
  BY <1>2 DEF Sorts, ToSet, n
<1>4. s \in Seq(S) /\ Len(s) = n
  BY <1>1, <1>3
<1> QED BY <1>1, <1>3, <1>4 DEF s
-----------------------------------------------------------------------------
(* The folds of the sorted points into blocks and into ranges.                *)

(* A fold over the points of s is the function of its results up to each of them. *)
Step(what, done, p) == IF what = "ranges" THEN Joined(done, p) ELSE Merge(done, p)

Folds(what, s, f) ==
    f = [k \in 0 .. Len(s) |-> IF k = 0 THEN <<>> ELSE Step(what, f[k - 1], s[k])]

FoldsUpTo(what, s, n, f) ==
    f = [k \in 0 .. n |-> IF k = 0 THEN <<>> ELSE Step(what, f[k - 1], s[k])]

LEMMA FoldGrows ==
    ASSUME NEW what, NEW s, NEW n \in Nat, NEW f, FoldsUpTo(what, s, n, f)
    PROVE  \E g : FoldsUpTo(what, s, n + 1, g)
<1> DEFINE g == [k \in 0 .. n + 1 |-> IF k = n + 1 THEN Step(what, f[n], s[n + 1]) ELSE f[k]]
<1>1. \A k \in 0 .. n : g[k] = f[k] /\ k # n + 1 /\ k \in 0 .. n + 1
  OBVIOUS
<1>2. g[n + 1] = Step(what, f[n], s[n + 1]) /\ n + 1 \in 0 .. n + 1 /\ n \in 0 .. n /\ n + 1 # 0
  OBVIOUS
<1>3. \A k \in 0 .. n : f[k] = IF k = 0 THEN <<>> ELSE Step(what, f[k - 1], s[k])
  BY DEF FoldsUpTo
<1>4. DOMAIN g = 0 .. n + 1 /\ g = [k \in DOMAIN g |-> g[k]]
  OBVIOUS
<1> HIDE DEF g
<1>5. ASSUME NEW k \in 0 .. n + 1
      PROVE  g[k] = IF k = 0 THEN <<>> ELSE Step(what, g[k - 1], s[k])
  <2>1. CASE k = n + 1
    <3>1. k - 1 = n /\ k # 0
      BY <2>1
    <3>2. g[k - 1] = f[n]
      BY <1>1, <1>2, <3>1
    <3> QED BY <1>2, <2>1, <3>1, <3>2
  <2>2. CASE k # n + 1
    <3>1. k \in 0 .. n /\ (k # 0 => k - 1 \in 0 .. n)
      BY <2>2
    <3>2. g[k] = f[k] /\ (k # 0 => g[k - 1] = f[k - 1])
      BY <1>1, <3>1
    <3> QED BY <1>3, <3>1, <3>2
  <2> QED BY <2>1, <2>2
<1>6. FoldsUpTo(what, s, n + 1, g)
  BY <1>4, <1>5 DEF FoldsUpTo
<1> QED BY <1>6

LEMMA FoldExists ==
    ASSUME NEW what, NEW s, Len(s) \in Nat
    PROVE  \E f : Folds(what, s, f)
<1> DEFINE Bad == {n \in Nat : ~ \E f : FoldsUpTo(what, s, n, f)}
<1>1. CASE Bad = {}
  <2>1. \E f : FoldsUpTo(what, s, Len(s), f)
    BY <1>1
  <2> QED BY <2>1 DEF Folds, FoldsUpTo
<1>2. CASE Bad # {}
  <2>1. PICK n \in Bad : \A m \in Bad : ~(m < n)
    <3> HIDE DEF Bad
    <3>1. Bad \in SUBSET Nat
      BY DEF Bad
    <3> QED BY <1>2, <3>1, LeastNumber
  <2>2. CASE n = 0
    <3> DEFINE f == [k \in 0 .. 0 |-> <<>>]
    <3>1. f = [k \in 0 .. 0 |-> IF k = 0 THEN <<>> ELSE Step(what, f[k - 1], s[k])]
      OBVIOUS
    <3> HIDE DEF f
    <3>2. FoldsUpTo(what, s, n, f)
      BY <2>2, <3>1 DEF FoldsUpTo
    <3> QED BY <3>2
  <2>3. CASE n # 0
    <3>1. n - 1 \in Nat /\ n - 1 < n /\ (n - 1) + 1 = n
      BY <2>3
    <3>2. n - 1 \notin Bad
      BY <2>1, <3>1
    <3>3. \E f : FoldsUpTo(what, s, n - 1, f)
      BY <3>1, <3>2
    <3>4. \E f : FoldsUpTo(what, s, n, f)
      BY <3>1, <3>3, FoldGrows
    <3> QED BY <3>4
  <2> QED BY <2>2, <2>3
<1> QED BY <1>1, <1>2

(* Merged and JoinedRanges are the last element of such a fold. *)
LEMMA MergedFolds ==
    ASSUME NEW s, Len(s) \in Nat
    PROVE  /\ \E f : Folds("blocks", s, f) /\ Merged(s) = f[Len(s)]
           /\ \E f : Folds("ranges", s, f) /\ JoinedRanges(s) = f[Len(s)]
<1>1. \E f : Folds("blocks", s, f) /\ Merged(s) = f[Len(s)]
  <2> DEFINE f == CHOOSE g : g = [k \in 0 .. Len(s) |->
                                    IF k = 0 THEN <<>> ELSE Merge(g[k - 1], s[k])]
  <2>1. \E g : g = [k \in 0 .. Len(s) |-> IF k = 0 THEN <<>> ELSE Merge(g[k - 1], s[k])]
    <3>1. PICK g : Folds("blocks", s, g)
      BY FoldExists
    <3>2. g = [k \in 0 .. Len(s) |-> IF k = 0 THEN <<>> ELSE Merge(g[k - 1], s[k])]
      BY <3>1 DEF Folds, Step
    <3> QED BY <3>2
  <2>2. f = [k \in 0 .. Len(s) |-> IF k = 0 THEN <<>> ELSE Merge(f[k - 1], s[k])]
    BY <2>1
  <2>3. Merged(s) = f[Len(s)]
    BY DEF Merged
  <2> HIDE DEF f
  <2>4. Folds("blocks", s, f)
    BY <2>2 DEF Folds, Step
  <2> QED BY <2>3, <2>4
<1>2. \E f : Folds("ranges", s, f) /\ JoinedRanges(s) = f[Len(s)]
  <2> DEFINE f == CHOOSE g : g = [k \in 0 .. Len(s) |->
                                    IF k = 0 THEN <<>> ELSE Joined(g[k - 1], s[k])]
  <2>1. \E g : g = [k \in 0 .. Len(s) |-> IF k = 0 THEN <<>> ELSE Joined(g[k - 1], s[k])]
    <3>1. PICK g : Folds("ranges", s, g)
      BY FoldExists
    <3>2. g = [k \in 0 .. Len(s) |-> IF k = 0 THEN <<>> ELSE Joined(g[k - 1], s[k])]
      BY <3>1 DEF Folds, Step
    <3> QED BY <3>2
  <2>2. f = [k \in 0 .. Len(s) |-> IF k = 0 THEN <<>> ELSE Joined(f[k - 1], s[k])]
    BY <2>1
  <2>3. JoinedRanges(s) = f[Len(s)]
    BY DEF JoinedRanges
  <2> HIDE DEF f
  <2>4. Folds("ranges", s, f)
    BY <2>2 DEF Folds, Step
  <2> QED BY <2>3, <2>4
<1> QED BY <1>1, <1>2

(* The last of the blocks is replaced. *)
LEMMA LastReplaced ==
    ASSUME NEW S, NEW s \in Seq(S), s # <<>>, NEW x \in S
    PROVE  /\ Front(s) \o <<x>> \in Seq(S) /\ Len(Front(s) \o <<x>>) = Len(s)
           /\ \A i \in 1 .. Len(s) : (Front(s) \o <<x>>)[i] = IF i = Len(s) THEN x ELSE s[i]
<1>1. Len(s) \in Nat /\ Len(s) # 0 /\ \A i \in 1 .. Len(s) : s[i] \in S
  OBVIOUS
<1>2. Front(s) = SubSeq(s, 1, Len(s) - 1)
  BY DEF Front
<1> DEFINE q == SubSeq(s, 1, Len(s) - 1)
<1>3. q = [i \in 1 .. Len(s) - 1 |-> s[i]]
  BY <1>1
<1>4. q \in Seq(S) /\ Len(q) = Len(s) - 1 /\ \A i \in 1 .. Len(s) - 1 : q[i] = s[i]
  <2>1. Len(s) - 1 \in Nat /\ \A i \in 1 .. Len(s) - 1 : i \in 1 .. Len(s)
    BY <1>1
  <2> HIDE DEF q
  <2>2. \A i \in 1 .. Len(s) - 1 : q[i] = s[i]
    BY <1>3
  <2>3. q = [i \in 1 .. Len(s) - 1 |-> q[i]] /\ \A i \in 1 .. Len(s) - 1 : q[i] \in S
    BY <1>1, <1>3, <2>1, <2>2
  <2> QED BY <2>1, <2>2, <2>3, IsSequence
<1> HIDE DEF q
<1>5. /\ q \o <<x>> \in Seq(S) /\ Len(q \o <<x>>) = Len(s)
      /\ \A i \in 1 .. Len(s) : (q \o <<x>>)[i] = IF i = Len(s) THEN x ELSE s[i]
  BY <1>1, <1>4
<1> QED BY <1>2, <1>5 DEF q

-----------------------------------------------------------------------------
(* The driver's own blocks.                                                   *)

ReadTypes == function \in Functions /\ points \in PointLists /\ declared \in BOOLEAN

(* The arithmetic of 16-bit numbers; the proofs below need not know how many they are. *)
LEMMA WordIs == Word \in Nat /\ Word > 4000
BY SMT DEF Word

LEMMA MaxIs == MaxQuantity \in Nat /\ MaxQuantity >= 2 /\ MaxQuantity <= 2000
BY SMT DEF MaxQuantity, MaxCoils, MaxRegisters

LEMMA Remainder ==
    ASSUME NEW w \in Nat, w > 0, NEW n \in Int
    PROVE  /\ n % w \in 0 .. w - 1
           /\ n \in 0 .. w - 1 => n % w = n
           /\ n \in w .. 2 * w - 1 => n % w = n - w
<1>1. n % w \in 0 .. w - 1
  BY SMT
<1>2. n \in 0 .. w - 1 => n % w = n
  BY SMT
<1>3. n \in w .. 2 * w - 1 => n % w = n - w
  BY SMT
<1> QED BY <1>1, <1>2, <1>3

LEMMA WrapIs ==
    ASSUME NEW n \in Int
    PROVE  /\ Wrap(n) \in 0 .. Word - 1
           /\ n \in 0 .. Word - 1 => Wrap(n) = n
           /\ n \in Word .. 2 * Word - 1 => Wrap(n) = n - Word
<1>1. Word > 0
  BY WordIs
<1> QED BY <1>1, WordIs, Remainder DEF Wrap

(* Where a point ends: behind its last register, or at the start again if it touches the end. *)
LEMMA PointIs ==
    ASSUME ReadTypes, NEW p \in points
    PROVE  /\ p \in Points /\ p.register \in Int /\ Quantity(p) \in 1 .. 2 /\ Width(p) \in 1 .. 4
           /\ Quantity(p) <= Width(p)
           /\ PointEnd(p) \in 0 .. Word - 1
           /\ Parses(p) => /\ p.register \in 0 .. Word - 1
                           /\ ~LastWord(p) => PointEnd(p) = p.register + Quantity(p)
                           /\ LastWord(p) => PointEnd(p) <= 1
<1>1. p \in Points /\ p.register \in Int
  BY ReadPlanAssumption DEF ReadTypes, Points
<1>2. p.type = "short" \/ p.type = "long" \/ p.type = "huge"
  BY <1>1 DEF Points, Types
<1>3. Quantity(p) \in 1 .. 2 /\ Width(p) \in 1 .. 4 /\ Quantity(p) <= Width(p)
  BY <1>2 DEF Quantity, Width
<1>4. PointEnd(p) \in 0 .. Word - 1
  BY <1>1, <1>3, WrapIs DEF PointEnd
<1>5. ASSUME Parses(p)
      PROVE  /\ p.register \in 0 .. Word - 1
             /\ ~LastWord(p) => PointEnd(p) = p.register + Quantity(p)
             /\ LastWord(p) => PointEnd(p) <= 1
  <2> DEFINE e == p.register + Quantity(p)
  <2>1. p.register \in 0 .. Word - 1 /\ e \in Int /\ 0 <= e /\ e <= Word + 1
    BY <1>3, <1>5, WordIs DEF Parses
  <2>2. PointEnd(p) = Wrap(e) /\ (LastWord(p) <=> e >= Word)
    BY DEF PointEnd, LastWord
  <2> HIDE DEF e
  <2>3. CASE e >= Word
    BY <2>1, <2>2, <2>3, WrapIs, WordIs
  <2>4. CASE e < Word
    BY <2>1, <2>2, <2>4, WrapIs, WordIs DEF e
  <2> QED BY <2>1, <2>3, <2>4, WordIs
<1> QED BY <1>1, <1>3, <1>4, <1>5

Blocks == [start : 0 .. Word - 1, end : 0 .. Word - 1, items : SUBSET Parsed]

(* A block starts at the first of its points, and ends behind the last of them unless that *)
(* touches the end of the address space.                                                    *)
BlockOK(b) ==
    /\ \E q \in b.items : b.start = q.register
    /\ \E q \in b.items : b.end = PointEnd(q)
    /\ \A p \in b.items : /\ b.start <= p.register
                          /\ (p.register - b.start) + Quantity(p) <= MaxQuantity
                          /\ LastWord(p) \/ p.register + Quantity(p) <= b.end

(* After k points: every block is as it must be, and holds some of them; every point is in one. *)
MergedOK(blocks, s, k) ==
    /\ blocks \in Seq(Blocks)
    /\ \A i \in 1 .. Len(blocks) :
          BlockOK(blocks[i]) /\ \A p \in blocks[i].items : \E j \in 1 .. k : s[j] = p
    /\ \A j \in 1 .. k : \E i \in 1 .. Len(blocks) : s[j] \in blocks[i].items

Ordered(s) == \A i, j \in 1 .. Len(s) : i < j => s[i].register <= s[j].register

(* A block stays as it must be when it is begun, and when a point joins it. *)
LEMMA OneBlockOK ==
    ASSUME ReadTypes, NEW p \in Parsed
    PROVE  OneBlock(p) \in Blocks /\ BlockOK(OneBlock(p))
<1>1. p \in points /\ Parses(p)
  BY DEF Parsed
<1>2. /\ OneBlock(p).start = p.register /\ OneBlock(p).end = PointEnd(p)
      /\ OneBlock(p).items = {p} /\ OneBlock(p) \in Blocks
  BY <1>1, PointIs DEF OneBlock, Blocks
<1>3. Quantity(p) <= MaxQuantity
  BY <1>1, PointIs, MaxIs
<1>4. LastWord(p) \/ p.register + Quantity(p) <= PointEnd(p)
  BY <1>1, PointIs
<1> QED BY <1>1, <1>2, <1>3, <1>4, PointIs DEF BlockOK

LEMMA ExtendedOK ==
    ASSUME ReadTypes, NEW b \in Blocks, BlockOK(b), NEW p \in Parsed, Fits(b, p),
           b.start <= p.register
    PROVE  Extended(b, p) \in Blocks /\ BlockOK(Extended(b, p))
<1> DEFINE e == Extended(b, p)
<1>1. p \in points /\ Parses(p) /\ b.items \subseteq points
  BY DEF Parsed, Blocks
<1>2. /\ e.start = b.start /\ e.items = b.items \cup {p}
      /\ e.end = IF PointEnd(p) > b.end THEN PointEnd(p) ELSE b.end
      /\ e \in Blocks
  BY <1>1, PointIs DEF Extended, Blocks
<1>3. b.start \in 0 .. Word - 1 /\ b.end \in 0 .. Word - 1
  BY DEF Blocks
<1> HIDE DEF e
<1>4. e.end \in Int /\ e.end >= b.end /\ e.end >= PointEnd(p)
  BY <1>1, <1>2, <1>3, PointIs
<1>5. \E q \in e.items : e.start = q.register
  BY <1>2 DEF BlockOK
<1>6. \E q \in e.items : e.end = PointEnd(q)
  BY <1>2 DEF BlockOK
<1>7. ASSUME NEW q \in e.items
      PROVE  /\ e.start <= q.register
             /\ (q.register - e.start) + Quantity(q) <= MaxQuantity
             /\ LastWord(q) \/ q.register + Quantity(q) <= e.end
  <2>1. CASE q = p
    <3>1. p.register - b.start \in 0 .. Word - 1
      BY <1>1, <1>3, PointIs, WordIs
    <3>2. Wrap(p.register - b.start) = p.register - b.start
      BY <3>1, WrapIs
    <3>3. (p.register - b.start) + Quantity(p) <= MaxQuantity
      BY <3>2 DEF Fits
    <3>4. LastWord(p) \/ p.register + Quantity(p) <= e.end
      BY <1>1, <1>4, PointIs
    <3> QED BY <1>2, <2>1, <3>3, <3>4
  <2>2. CASE q \in b.items
    <3>1. q.register \in Int /\ Quantity(q) \in Int
      BY <1>1, <2>2, PointIs
    <3> QED BY <1>2, <1>3, <1>4, <2>2, <3>1 DEF BlockOK
  <2> QED BY <1>2, <2>1, <2>2
<1>8. BlockOK(e)
  BY <1>5, <1>6, <1>7 DEF BlockOK
<1> QED BY <1>2, <1>8 DEF e

LEMMA MergeKeeps ==
    ASSUME ReadTypes, NEW s \in Seq(Parsed), Ordered(s), NEW k \in 1 .. Len(s),
           NEW blocks, MergedOK(blocks, s, k - 1)
    PROVE  MergedOK(Merge(blocks, s[k]), s, k)
<1> DEFINE p == s[k]
           n == Len(blocks)
<1>1. /\ p \in Parsed /\ blocks \in Seq(Blocks) /\ n \in Nat
      /\ \A i \in 1 .. n : blocks[i] \in Blocks
      /\ Len(s) \in Nat
  BY DEF MergedOK
<1>2. \A j \in 1 .. k : j = k \/ j \in 1 .. k - 1
  OBVIOUS
<1>3. \A j \in 1 .. k - 1 : j \in 1 .. k
  OBVIOUS
<1>4. CASE blocks # <<>> /\ Fits(Last(blocks), p)
  <2> DEFINE e == Extended(Last(blocks), p)
             more == Front(blocks) \o <<e>>
  <2>1. n \in 1 .. n /\ Last(blocks) = blocks[n] /\ Last(blocks) \in Blocks /\ BlockOK(Last(blocks))
    <3>1. n # 0
      BY <1>1, <1>4
    <3>2. Last(blocks) = blocks[n]
      BY DEF Last
    <3> QED BY <1>1, <3>1, <3>2 DEF MergedOK
  <2>2. Last(blocks).start <= p.register
    <3>1. PICK q \in Last(blocks).items : Last(blocks).start = q.register
      BY <2>1 DEF BlockOK
    <3>2. PICK j \in 1 .. k - 1 : s[j] = q
      BY <2>1, <3>1 DEF MergedOK
    <3> QED BY <1>1, <3>1, <3>2 DEF Ordered
  <2>3. e \in Blocks /\ BlockOK(e) /\ e.items = Last(blocks).items \cup {p}
    <3>1. e.items = Last(blocks).items \cup {p}
      BY <2>1 DEF Extended, Blocks
    <3> QED BY <1>1, <1>4, <2>1, <2>2, <3>1, ExtendedOK
  <2>4. Merge(blocks, p) = more
    BY <1>4 DEF Merge
  <2> HIDE DEF e
  <2>5. /\ more \in Seq(Blocks) /\ Len(more) = n
        /\ \A i \in 1 .. n : more[i] = IF i = n THEN e ELSE blocks[i]
    BY <1>1, <1>4, <2>3, LastReplaced
  <2> HIDE DEF more
  <2>6. ASSUME NEW i \in 1 .. n
        PROVE  BlockOK(more[i]) /\ \A q \in more[i].items : \E j \in 1 .. k : s[j] = q
    <3>1. CASE i = n
      <4>1. more[i] = e
        BY <2>5, <3>1
      <4>2. \A q \in Last(blocks).items : \E j \in 1 .. k : s[j] = q
        BY <1>3, <2>1 DEF MergedOK
      <4>3. k \in 1 .. k /\ s[k] = p
        OBVIOUS
      <4> HIDE DEF p
      <4> QED BY <2>3, <4>1, <4>2, <4>3
    <3>2. CASE i # n
      BY <1>3, <2>5, <3>2 DEF MergedOK
    <3> QED BY <3>1, <3>2
  <2>7. ASSUME NEW j \in 1 .. k PROVE \E i \in 1 .. n : s[j] \in more[i].items
    <3>1. CASE j = k
      BY <2>1, <2>3, <2>5, <3>1
    <3>2. CASE j # k
      <4>1. PICK i \in 1 .. n : s[j] \in blocks[i].items
        BY <1>2, <3>2 DEF MergedOK
      <4>2. s[j] \in more[i].items
        BY <2>1, <2>3, <2>5, <4>1
      <4> QED BY <4>2
    <3> QED BY <3>1, <3>2
  <2> QED BY <2>4, <2>5, <2>6, <2>7 DEF MergedOK
<1>5. CASE ~(blocks # <<>> /\ Fits(Last(blocks), p))
  <2> DEFINE one == OneBlock(p)
             more == Append(blocks, one)
  <2>1. Merge(blocks, p) = more
    BY <1>5 DEF Merge
  <2>2. one \in Blocks /\ BlockOK(one) /\ one.items = {p}
    BY <1>1, OneBlockOK DEF OneBlock
  <2> HIDE DEF one
  <2>3. /\ more \in Seq(Blocks) /\ Len(more) = n + 1 /\ more[n + 1] = one
        /\ \A i \in 1 .. n : more[i] = blocks[i]
    BY <1>1, <2>2
  <2> HIDE DEF more
  <2>4. \A i \in 1 .. n + 1 : i = n + 1 \/ i \in 1 .. n
    BY <1>1
  <2>5. n + 1 \in 1 .. n + 1 /\ \A i \in 1 .. n : i \in 1 .. n + 1
    BY <1>1
  <2>6. ASSUME NEW i \in 1 .. n + 1
        PROVE  BlockOK(more[i]) /\ \A q \in more[i].items : \E j \in 1 .. k : s[j] = q
    <3>1. CASE i = n + 1
      <4>1. more[i] = one /\ k \in 1 .. k /\ s[k] = p
        BY <2>3, <3>1
      <4> HIDE DEF p
      <4> QED BY <2>2, <4>1
    <3>2. CASE i \in 1 .. n
      BY <1>3, <2>3, <3>2 DEF MergedOK
    <3> QED BY <2>4, <3>1, <3>2
  <2>7. ASSUME NEW j \in 1 .. k PROVE \E i \in 1 .. n + 1 : s[j] \in more[i].items
    <3>1. CASE j = k
      BY <2>2, <2>3, <2>5, <3>1
    <3>2. CASE j # k
      <4>1. PICK i \in 1 .. n : s[j] \in blocks[i].items
        BY <1>2, <3>2 DEF MergedOK
      <4> QED BY <2>3, <2>5, <4>1
    <3> QED BY <3>1, <3>2
  <2> QED BY <2>1, <2>3, <2>6, <2>7 DEF MergedOK
<1> QED BY <1>4, <1>5

LEMMA MergedIsOK ==
    ASSUME ReadTypes, NEW s \in Seq(Parsed), Ordered(s)
    PROVE  MergedOK(Merged(s), s, Len(s))
<1> DEFINE n == Len(s)
<1>1. n \in Nat
  OBVIOUS
<1>2. PICK f : Folds("blocks", s, f) /\ Merged(s) = f[n]
  BY <1>1, MergedFolds
<1>3. f[0] = <<>> /\ \A k \in 1 .. n : f[k] = Merge(f[k - 1], s[k])
  BY <1>1, <1>2 DEF Folds, Step
<1> DEFINE Bad == {k \in 0 .. n : ~MergedOK(f[k], s, k)}
<1>4. CASE Bad # {}
  <2>1. PICK k \in Bad : \A m \in Bad : ~(m < k)
    <3>1. Bad \in SUBSET Nat
      OBVIOUS
    <3> HIDE DEF Bad
    <3> QED BY <1>4, <3>1, LeastNumber
  <2>2. CASE k = 0
    <3>1. MergedOK(<<>>, s, 0)
      BY DEF MergedOK
    <3> QED BY <1>3, <2>1, <2>2, <3>1
  <2>3. CASE k # 0
    <3>1. k \in 1 .. n /\ k - 1 \in 0 .. n /\ k - 1 < k
      BY <2>1, <2>3
    <3>2. MergedOK(f[k - 1], s, k - 1)
      BY <2>1, <3>1
    <3>3. MergedOK(Merge(f[k - 1], s[k]), s, k)
      BY <3>1, <3>2, MergeKeeps
    <3> QED BY <1>3, <2>1, <3>1, <3>3
  <2> QED BY <2>2, <2>3
<1>5. CASE Bad = {}
  <2>1. n \in 0 .. n
    BY <1>1
  <2> QED BY <1>2, <1>5, <2>1
<1> QED BY <1>4, <1>5

-----------------------------------------------------------------------------
(* The requests.                                                              *)

ReadRequests ==
    [start : 0 .. Word - 1, quantity : 0 .. Word - 1, items : SUBSET Parsed]

(* The points that a Read without a lost request serves. *)
Usable(p) == ~Unusable(p) /\ ~(declared /\ (~Decodes \/ BeyondOneRequest(p)))

(* A request never begins behind one of its points, and it serves those that can be. *)
Serves(r) ==
    \A p \in r.items :
        /\ r.start <= p.register
        /\ Usable(p) => Allowed(r) /\ FillResult(r, p).quality = "good"

LEMMA AnswerIsLong ==
    ASSUME NEW r, r.quantity \in Nat
    PROVE  AnswerLength(r) \in Int /\ AnswerLength(r) >= r.quantity
BY DEF AnswerLength

(* What is cut out of an answer is the point's own. *)
LEMMA FilledExactly ==
    ASSUME ReadTypes, NEW r \in ReadRequests, NEW p \in r.items, r.start <= p.register
    PROVE  /\ FillResult(r, p).quality = "good" => FillResult(r, p).value = Exactly(p)
           /\ p.register + Quantity(p) <= r.start + r.quantity /\ ~Unusable(p) =>
                 FillResult(r, p).quality = "good"
<1> DEFINE offset == Wrap(p.register - r.start)
           words  == IF function = "coil" THEN 1 ELSE Quantity(p)
<1>1. p \in points /\ Parses(p) /\ p.register \in 0 .. Word - 1 /\ Quantity(p) \in 1 .. 2
  BY PointIs DEF ReadRequests, Parsed
<1>2. r.start \in 0 .. Word - 1 /\ r.quantity \in 0 .. Word - 1
  BY DEF ReadRequests
<1>3. offset = p.register - r.start
  <2>1. p.register - r.start \in 0 .. Word - 1
    BY <1>1, <1>2, WordIs
  <2> QED BY <2>1, WrapIs
<1>4. words \in 1 .. 2 /\ words <= Quantity(p)
  BY <1>1
<1>5. FillResult(r, p) =
        IF offset + words > AnswerLength(r) \/ (p.type = "huge" /\ function # "coil")
        THEN [quality |-> "uncertain", value |-> None]
        ELSE [quality |-> "good", value |-> [k \in 1 .. words |-> r.start + offset + k - 1]]
  BY DEF FillResult
<1>6. Exactly(p) = [k \in 1 .. words |-> p.register + k - 1]
  BY DEF Exactly
<1> HIDE DEF offset, words
<1>7. [k \in 1 .. words |-> r.start + offset + k - 1] = [k \in 1 .. words |-> p.register + k - 1]
  <2>1. \A k \in 1 .. words : r.start + offset + k - 1 = p.register + k - 1
    BY <1>1, <1>2, <1>3, <1>4
  <2> QED BY <2>1
<1>8. FillResult(r, p).quality = "good" => FillResult(r, p).value = Exactly(p)
  <2> DEFINE v == [k \in 1 .. words |-> r.start + offset + k - 1]
  <2>1. v = Exactly(p)
    BY <1>6, <1>7
  <2> HIDE DEF v
  <2>2. \/ FillResult(r, p) = [quality |-> "uncertain", value |-> None]
        \/ FillResult(r, p) = [quality |-> "good", value |-> v]
    BY <1>5 DEF v
  <2> QED BY <2>1, <2>2
<1>9. ASSUME p.register + Quantity(p) <= r.start + r.quantity, ~Unusable(p)
      PROVE  FillResult(r, p).quality = "good"
  <2>1. AnswerLength(r) \in Int /\ AnswerLength(r) >= r.quantity
    BY <1>2, AnswerIsLong, WordIs
  <2>2. ~(offset + words > AnswerLength(r))
    BY <1>1, <1>2, <1>3, <1>4, <1>9, <2>1
  <2>3. ~(p.type = "huge" /\ function # "coil")
    BY <1>9 DEF Unusable
  <2> QED BY <1>5, <2>2, <2>3
<1> QED BY <1>8, <1>9

(* The request of one of the driver's blocks. *)
LEMMA BlockServes ==
    ASSUME ReadTypes, NEW b \in Blocks, BlockOK(b)
    PROVE  LET r == Request(b.start, Wrap(b.end - b.start), b.items)
           IN r \in ReadRequests /\ Serves(r)
<1> DEFINE r == Request(b.start, Wrap(b.end - b.start), b.items)
<1>1. b.start \in 0 .. Word - 1 /\ b.end \in 0 .. Word - 1 /\ b.items \subseteq Parsed
  BY DEF Blocks
<1>2. /\ r.start = b.start /\ r.quantity = Wrap(b.end - b.start) /\ r.items = b.items
      /\ r \in ReadRequests
  BY <1>1, WrapIs DEF Request, ReadRequests
<1> HIDE DEF r
<1>3. \A p \in b.items : p \in points /\ Parses(p)
  BY <1>1 DEF Parsed
<1>4. ASSUME NEW p \in b.items, Usable(p)
      PROVE  Allowed(r) /\ p.register + Quantity(p) <= r.start + r.quantity
  <2>1. p.register + Quantity(p) <= b.end /\ b.start <= p.register
    BY <1>4 DEF BlockOK, Usable, Unusable
  <2>2. p.register \in 0 .. Word - 1 /\ Quantity(p) \in 1 .. 2
    BY <1>3, <1>4, PointIs
  <2>3. b.end - b.start \in 1 .. Word - 1
    BY <1>1, <2>1, <2>2, WordIs
  <2>4. r.quantity = b.end - b.start
    BY <1>2, <2>3, WrapIs, WordIs
  <2>5. PICK q \in b.items : b.end = PointEnd(q)
    BY DEF BlockOK
  <2>6. /\ q.register \in 0 .. Word - 1 /\ Quantity(q) \in 1 .. 2
        /\ b.start <= q.register /\ (q.register - b.start) + Quantity(q) <= MaxQuantity
        /\ ~LastWord(q) => b.end = q.register + Quantity(q)
        /\ LastWord(q) => b.end <= 1 /\ q.register + Quantity(q) >= Word
    BY <1>3, <2>5, PointIs DEF BlockOK, LastWord
  <2>7. MaxQuantity \in 1 .. 2000
    BY MaxIs
  <2>8. ~LastWord(q)
    <3> SUFFICES ASSUME LastWord(q) PROVE FALSE
      OBVIOUS
    <3>1. b.start = 0
      BY <1>1, <2>1, <2>2, <2>6
    <3> QED BY <2>6, <2>7, <3>1, WordIs, SMTT(30)
  <2>9. b.end - b.start <= MaxQuantity
    BY <1>1, <2>6, <2>8
  <2>10. r.start + r.quantity = b.end
    BY <1>1, <1>2, <2>4
  <2> QED BY <1>1, <1>2, <2>1, <2>3, <2>4, <2>7, <2>9, <2>10, WordIs DEF Allowed
<1>5. ASSUME NEW p \in r.items
      PROVE  /\ r.start <= p.register
             /\ Usable(p) => Allowed(r) /\ FillResult(r, p).quality = "good"
  <2>1. r.start <= p.register
    BY <1>2 DEF BlockOK
  <2>2. Usable(p) => ~Unusable(p)
    BY DEF Usable
  <2> QED BY <1>2, <1>4, <2>1, <2>2, FilledExactly
<1>6. Serves(r)
  BY <1>5 DEF Serves
<1> QED BY <1>2, <1>6 DEF r

LEMMA PlanBlocksServe ==
    ASSUME ReadTypes
    PROVE  /\ PlanBlocks \in Seq(ReadRequests)
           /\ \A r \in ToSet(PlanBlocks) : Serves(r)
           /\ \A p \in Parsed : \E r \in ToSet(PlanBlocks) : p \in r.items
<1> DEFINE s == Sorted(Parsed)
           blocks == Merged(s)
           n == Len(blocks)
<1>1. Parsed \in SUBSET Points /\ IsFiniteSet(Parsed)
  <2>1. points \subseteq Points /\ IsFiniteSet(points) /\ Parsed \subseteq points
    BY ReadPlanAssumption DEF ReadTypes, Parsed
  <2> QED BY <2>1, FS_Subset
<1>2. /\ s \in Seq(Parsed) /\ Ordered(s) /\ \A p \in Parsed : \E j \in 1 .. Len(s) : s[j] = p
  BY <1>1, SortedSorts DEF Ordered
<1> HIDE DEF s
<1>3. MergedOK(blocks, s, Len(s))
  BY <1>2, MergedIsOK
<1>4. /\ blocks \in Seq(Blocks) /\ n \in Nat /\ DOMAIN blocks = 1 .. n
      /\ \A i \in 1 .. n : blocks[i] \in Blocks /\ BlockOK(blocks[i])
  BY <1>3 DEF MergedOK
<1>5. PlanBlocks = [i \in DOMAIN blocks |->
          Request(blocks[i].start, Wrap(blocks[i].end - blocks[i].start), blocks[i].items)]
  BY DEF PlanBlocks, s
<1> HIDE DEF blocks, n
<1>6. \A i \in 1 .. n : /\ PlanBlocks[i] \in ReadRequests /\ Serves(PlanBlocks[i])
                        /\ PlanBlocks[i].items = blocks[i].items
  <2> SUFFICES ASSUME NEW i \in 1 .. n
               PROVE  /\ PlanBlocks[i] \in ReadRequests /\ Serves(PlanBlocks[i])
                      /\ PlanBlocks[i].items = blocks[i].items
    OBVIOUS
  <2>1. PlanBlocks[i] =
          Request(blocks[i].start, Wrap(blocks[i].end - blocks[i].start), blocks[i].items)
    BY <1>4, <1>5
  <2>2. blocks[i] \in Blocks /\ BlockOK(blocks[i])
    BY <1>4
  <2>3. PlanBlocks[i].items = blocks[i].items
    BY <2>1 DEF Request
  <2> QED BY <2>1, <2>2, <2>3, BlockServes
<1>7. DOMAIN PlanBlocks = 1 .. n /\ PlanBlocks = [i \in 1 .. n |-> PlanBlocks[i]]
  BY <1>4, <1>5
<1>8. PlanBlocks \in Seq(ReadRequests)
  BY <1>4, <1>6, <1>7
<1>9. ASSUME NEW p \in Parsed PROVE \E r \in ToSet(PlanBlocks) : p \in r.items
  <2>1. PICK j \in 1 .. Len(s) : s[j] = p
    BY <1>2
  <2>2. PICK i \in 1 .. n : s[j] \in blocks[i].items
    BY <1>3 DEF MergedOK, n
  <2> QED BY <1>6, <1>7, <2>1, <2>2 DEF ToSet
<1> QED BY <1>6, <1>7, <1>8, <1>9 DEF ToSet

-----------------------------------------------------------------------------
(* The blocks that the sync declares.                                         *)

Ranges == [start : Int, end : Int]

(* After k points: every range starts at one of them, and every point lies in a range. *)
JoinedOK(ranges, s, k) ==
    /\ ranges \in Seq(Ranges)
    /\ \A i \in 1 .. Len(ranges) : \E j \in 1 .. k : ranges[i].start = s[j].register
    /\ \A j \in 1 .. k : \E i \in 1 .. Len(ranges) :
          /\ ranges[i].start <= s[j].register
          /\ s[j].register + Width(s[j]) - 1 <= ranges[i].end

LEMMA JoinKeeps ==
    ASSUME ReadTypes, NEW s \in Seq(points), Ordered(s), NEW k \in 1 .. Len(s),
           NEW ranges, JoinedOK(ranges, s, k - 1)
    PROVE  JoinedOK(Joined(ranges, s[k]), s, k)
<1> DEFINE p == s[k]
           n == Len(ranges)
           last == Last(ranges)
           pEnd == p.register + Width(p) - 1
<1>1. /\ ranges \in Seq(Ranges) /\ n \in Nat /\ Len(s) \in Nat
      /\ \A i \in 1 .. n : ranges[i] \in Ranges
      /\ p \in points
  BY DEF JoinedOK
<1>2. \A j \in 1 .. k : j = k \/ j \in 1 .. k - 1
  OBVIOUS
<1>3. \A j \in 1 .. k - 1 : j \in 1 .. k /\ j < k
  OBVIOUS
<1>4. \A j \in 1 .. k : s[j] \in points /\ s[j].register \in Int /\ Width(s[j]) \in 1 .. 4
  <2> SUFFICES ASSUME NEW j \in 1 .. k
               PROVE  s[j] \in points /\ s[j].register \in Int /\ Width(s[j]) \in 1 .. 4
    OBVIOUS
  <2>1. s[j] \in points
    BY <1>1
  <2> QED BY <2>1, PointIs
<1>5. p.register \in Int /\ pEnd \in Int /\ k \in 1 .. k /\ k \in 1 .. Len(s)
  BY <1>4
<1>6. CASE ranges # <<>> /\ p.register <= last.end + MaxGap
  <2> DEFINE e == [last EXCEPT !.end = IF pEnd > @ THEN pEnd ELSE @]
             more == Front(ranges) \o <<e>>
  <2>1. n \in 1 .. n /\ last = ranges[n] /\ last \in Ranges
    <3>1. n # 0
      BY <1>1, <1>6
    <3>2. last = ranges[n]
      BY DEF Last
    <3> HIDE DEF last
    <3> QED BY <1>1, <3>1, <3>2
  <2>2. Joined(ranges, p) = more
    BY <1>6 DEF Joined
  <2>3. PICK m \in 1 .. k - 1 : last.start = s[m].register
    BY <2>1 DEF JoinedOK
  <2>4. last.start <= p.register
    BY <1>3, <1>5, <2>3 DEF Ordered
  <2> HIDE DEF last, pEnd
  <2>5. /\ e \in Ranges /\ e.start = last.start /\ e.end >= last.end /\ e.end >= pEnd
        /\ last.end \in Int /\ last.start \in Int /\ e.end \in Int
    BY <1>5, <2>1, SMTT(30) DEF Ranges
  <2> HIDE DEF e
  <2>6. /\ more \in Seq(Ranges) /\ Len(more) = n
        /\ \A i \in 1 .. n : more[i] = IF i = n THEN e ELSE ranges[i]
    BY <1>1, <1>6, <2>5, LastReplaced
  <2> HIDE DEF more
  <2>7. ASSUME NEW i \in 1 .. n PROVE \E j \in 1 .. k : more[i].start = s[j].register
    <3>1. more[i].start = ranges[i].start
      BY <2>1, <2>5, <2>6
    <3>2. PICK j \in 1 .. k - 1 : ranges[i].start = s[j].register
      BY DEF JoinedOK
    <3> QED BY <1>3, <3>1, <3>2
  <2>8. ASSUME NEW j \in 1 .. k
        PROVE  \E i \in 1 .. n : /\ more[i].start <= s[j].register
                                 /\ s[j].register + Width(s[j]) - 1 <= more[i].end
    <3>1. CASE j = k
      <4>1. more[n] = e
        BY <2>1, <2>6
      <4>2. s[j].register + Width(s[j]) - 1 = pEnd /\ s[j].register = p.register
        BY <3>1 DEF pEnd
      <4>3. more[n].start <= s[j].register /\ s[j].register + Width(s[j]) - 1 <= more[n].end
        BY <1>5, <2>4, <2>5, <4>1, <4>2
      <4> QED BY <2>1, <4>3
    <3>2. CASE j # k
      <4>1. PICK i \in 1 .. n : /\ ranges[i].start <= s[j].register
                                /\ s[j].register + Width(s[j]) - 1 <= ranges[i].end
        BY <1>2, <3>2 DEF JoinedOK
      <4>2. CASE i = n
        <5>1. more[i] = e /\ ranges[i] = last
          BY <2>1, <2>6, <4>2
        <5>2. s[j].register \in Int /\ Width(s[j]) \in Int
          BY <1>4, SMTT(30)
        <5>3. more[i].start <= s[j].register /\ s[j].register + Width(s[j]) - 1 <= more[i].end
          BY <2>5, <4>1, <5>1, <5>2, SMTT(30)
        <5> QED BY <5>3
      <4>3. CASE i # n
        BY <2>6, <4>1, <4>3
      <4> QED BY <4>2, <4>3
    <3> QED BY <3>1, <3>2
  <2> QED BY <2>2, <2>6, <2>7, <2>8 DEF JoinedOK
<1>7. CASE ~(ranges # <<>> /\ p.register <= last.end + MaxGap)
  <2> DEFINE one == [start |-> p.register, end |-> pEnd]
             more == Append(ranges, one)
  <2>1. Joined(ranges, p) = more
    BY <1>7 DEF Joined
  <2>2. one \in Ranges /\ one.start = p.register /\ one.end = pEnd
    BY <1>5 DEF Ranges
  <2> HIDE DEF one
  <2>3. /\ more \in Seq(Ranges) /\ Len(more) = n + 1 /\ more[n + 1] = one
        /\ \A i \in 1 .. n : more[i] = ranges[i]
    BY <1>1, <2>2
  <2> HIDE DEF more
  <2>4. /\ \A i \in 1 .. n + 1 : i = n + 1 \/ i \in 1 .. n
        /\ n + 1 \in 1 .. n + 1 /\ \A i \in 1 .. n : i \in 1 .. n + 1
    BY <1>1
  <2>5. ASSUME NEW i \in 1 .. n + 1 PROVE \E j \in 1 .. k : more[i].start = s[j].register
    <3>1. CASE i = n + 1
      BY <1>5, <2>2, <2>3, <3>1
    <3>2. CASE i \in 1 .. n
      <4>1. PICK j \in 1 .. k - 1 : ranges[i].start = s[j].register
        BY <3>2 DEF JoinedOK
      <4> QED BY <1>3, <2>3, <3>2, <4>1
    <3> QED BY <2>4, <3>1, <3>2
  <2>6. ASSUME NEW j \in 1 .. k
        PROVE  \E i \in 1 .. n + 1 : /\ more[i].start <= s[j].register
                                     /\ s[j].register + Width(s[j]) - 1 <= more[i].end
    <3>1. CASE j = k
      BY <1>5, <2>2, <2>3, <2>4, <3>1
    <3>2. CASE j # k
      <4>1. PICK i \in 1 .. n : /\ ranges[i].start <= s[j].register
                                /\ s[j].register + Width(s[j]) - 1 <= ranges[i].end
        BY <1>2, <3>2 DEF JoinedOK
      <4> QED BY <2>3, <2>4, <4>1
    <3> QED BY <3>1, <3>2
  <2> QED BY <2>1, <2>3, <2>5, <2>6 DEF JoinedOK
<1> QED BY <1>6, <1>7

LEMMA JoinedIsOK ==
    ASSUME ReadTypes, NEW s \in Seq(points), Ordered(s)
    PROVE  JoinedOK(JoinedRanges(s), s, Len(s))
<1> DEFINE n == Len(s)
<1>1. n \in Nat
  OBVIOUS
<1>2. PICK f : Folds("ranges", s, f) /\ JoinedRanges(s) = f[n]
  BY <1>1, MergedFolds
<1>3. f[0] = <<>> /\ \A k \in 1 .. n : f[k] = Joined(f[k - 1], s[k])
  BY <1>1, <1>2 DEF Folds, Step
<1> DEFINE Bad == {k \in 0 .. n : ~JoinedOK(f[k], s, k)}
<1>4. CASE Bad # {}
  <2>1. PICK k \in Bad : \A m \in Bad : ~(m < k)
    <3>1. Bad \in SUBSET Nat
      OBVIOUS
    <3> HIDE DEF Bad
    <3> QED BY <1>4, <3>1, LeastNumber
  <2>2. CASE k = 0
    <3>1. JoinedOK(<<>>, s, 0)
      BY DEF JoinedOK
    <3> QED BY <1>3, <2>1, <2>2, <3>1
  <2>3. CASE k # 0
    <3>1. k \in 1 .. n /\ k - 1 \in 0 .. n /\ k - 1 < k
      BY <2>1, <2>3
    <3>2. JoinedOK(f[k - 1], s, k - 1)
      BY <2>1, <3>1
    <3>3. JoinedOK(Joined(f[k - 1], s[k]), s, k)
      BY <3>1, <3>2, JoinKeeps
    <3> QED BY <1>3, <2>1, <3>1, <3>3
  <2> QED BY <2>2, <2>3
<1>5. CASE Bad = {}
  <2>1. n \in 0 .. n
    BY <1>1
  <2> QED BY <1>2, <1>5, <2>1
<1> QED BY <1>4, <1>5

(* Every point lies in one of the declared blocks. *)
LEMMA PollBlocksCover ==
    ASSUME ReadTypes
    PROVE  /\ PollBlocks \in Seq([start : Int, count : Int])
           /\ \A p \in points : \E b \in ToSet(PollBlocks) :
                 b.start <= p.register /\ p.register + Width(p) <= b.start + b.count
<1> DEFINE s == Sorted(points)
           ranges == JoinedRanges(s)
           n == Len(ranges)
<1>1. points \in SUBSET Points /\ IsFiniteSet(points)
  BY ReadPlanAssumption DEF ReadTypes
<1>2. /\ s \in Seq(points) /\ Ordered(s) /\ \A p \in points : \E j \in 1 .. Len(s) : s[j] = p
  BY <1>1, SortedSorts DEF Ordered
<1> HIDE DEF s
<1>3. JoinedOK(ranges, s, Len(s))
  BY <1>2, JoinedIsOK
<1>4. /\ ranges \in Seq(Ranges) /\ n \in Nat /\ DOMAIN ranges = 1 .. n
      /\ \A i \in 1 .. n : ranges[i] \in Ranges
  BY <1>3 DEF JoinedOK
<1>5. PollBlocks = [i \in DOMAIN ranges |->
          [start |-> ranges[i].start, count |-> ranges[i].end - ranges[i].start + 1]]
  BY DEF PollBlocks, s
<1> HIDE DEF ranges, n
<1>6. \A i \in 1 .. n : /\ ranges[i].start \in Int /\ ranges[i].end \in Int
                        /\ PollBlocks[i] \in [start : Int, count : Int]
                        /\ PollBlocks[i].start = ranges[i].start
                        /\ PollBlocks[i].count = ranges[i].end - ranges[i].start + 1
  BY <1>4, <1>5 DEF Ranges
<1>7. DOMAIN PollBlocks = 1 .. n /\ PollBlocks = [i \in 1 .. n |-> PollBlocks[i]]
  BY <1>4, <1>5
<1>8. PollBlocks \in Seq([start : Int, count : Int])
  <2>1. \A i \in 1 .. n : PollBlocks[i] \in [start : Int, count : Int]
    BY <1>6
  <2> QED BY <1>4, <1>7, <2>1, IsSequence
<1>9. ASSUME NEW p \in points
      PROVE  \E b \in ToSet(PollBlocks) :
                b.start <= p.register /\ p.register + Width(p) <= b.start + b.count
  <2>1. PICK j \in 1 .. Len(s) : s[j] = p
    BY <1>2
  <2>2. PICK i \in 1 .. n : ranges[i].start <= p.register /\ p.register + Width(p) - 1 <= ranges[i].end
    BY <1>3, <2>1 DEF JoinedOK, n
  <2>3. p.register \in Int /\ Width(p) \in Int
    BY PointIs
  <2>4. /\ PollBlocks[i].start <= p.register
        /\ p.register + Width(p) <= PollBlocks[i].start + PollBlocks[i].count
    <3>1. /\ ranges[i].start \in Int /\ ranges[i].end \in Int
          /\ PollBlocks[i].start = ranges[i].start
          /\ PollBlocks[i].count = ranges[i].end - ranges[i].start + 1
      BY <1>6
    <3>2. PICK first, last, from, width \in Int :
             /\ first = ranges[i].start /\ last = ranges[i].end
             /\ from = p.register /\ width = Width(p)
      BY <2>3, <3>1
    <3>3. first <= from /\ from + width - 1 <= last
      BY <2>2, <3>2
    <3>4. first <= from /\ from + width <= first + (last - first + 1)
      BY <3>3
    <3> QED BY <3>1, <3>2, <3>4
  <2>5. PollBlocks[i] \in ToSet(PollBlocks)
    BY <1>7 DEF ToSet
  <2> QED BY <2>4, <2>5
<1> QED BY <1>8, <1>9

(* A declared block that fits in one request serves the points that lie in it. *)
LEMMA ReadPollBlocksServe ==
    ASSUME ReadTypes, declared, Decodes
    PROVE  /\ ReadPollBlocks \in Seq(ReadRequests)
           /\ \A r \in ToSet(ReadPollBlocks) : Serves(r)
           /\ \A p \in points : Usable(p) => \E r \in ToSet(ReadPollBlocks) : p \in r.items
<1> DEFINE n == Len(PollBlocks)
           within(b) == {p \in Parsed : PointInBlock(p, b)}
<1>1. PollBlocks \in Seq([start : Int, count : Int]) /\ n \in Nat /\ DOMAIN PollBlocks = 1 .. n
  BY PollBlocksCover
<1>2. ReadPollBlocks = [i \in 1 .. n |->
          Request(PollBlocks[i].start, PollBlocks[i].count, within(PollBlocks[i]))]
  BY <1>1 DEF ReadPollBlocks
<1>3. \A b \in ToSet(PollBlocks) : b.start \in 0 .. Word - 1 /\ b.count \in 0 .. Word - 1
  BY DEF Decodes
<1>4. \A i \in 1 .. n : PollBlocks[i] \in ToSet(PollBlocks)
  BY <1>1 DEF ToSet
<1> HIDE DEF n
<1>5. ASSUME NEW b \in ToSet(PollBlocks), NEW p \in points, Usable(p), b.start <= p.register
      PROVE  /\ p \in Parsed /\ PointEnd(p) = p.register + Quantity(p)
             /\ p.register < b.start + b.count =>
                   b.count <= MaxQuantity /\ b.start + b.count < Word
  <2>1. Parses(p) /\ ~LastWord(p) /\ ~BeyondOneRequest(p)
    BY <1>5 DEF Usable, Unusable
  <2>2. p \in Parsed /\ PointEnd(p) = p.register + Quantity(p) /\ p.register \in Int
    BY <2>1, PointIs DEF Parsed
  <2>3. ASSUME p.register < b.start + b.count
        PROVE  b.count <= MaxQuantity /\ b.start + b.count < Word
    <3>1. p.register \in b.start .. b.start + b.count - 1
      BY <1>3, <1>5, <2>2, <2>3
    <3>2. ~(b.count > MaxQuantity \/ b.start + b.count >= Word)
      BY <2>1, <3>1 DEF BeyondOneRequest
    <3>3. MaxQuantity \in Int /\ Word \in Int /\ b.start + b.count \in Int /\ b.count \in Int
      BY <1>3, MaxIs, WordIs
    <3> QED BY <3>2, <3>3
  <2> QED BY <2>2, <2>3
<1>6. ASSUME NEW b \in ToSet(PollBlocks)
      PROVE  LET r == Request(b.start, b.count, within(b))
             IN r \in ReadRequests /\ Serves(r)
  <2> DEFINE r == Request(b.start, b.count, within(b))
  <2>1. /\ r.start = b.start /\ r.quantity = b.count /\ r \in ReadRequests
        /\ \A p \in r.items : p \in Parsed /\ PointInBlock(p, b)
    BY <1>3 DEF Request, ReadRequests
  <2> HIDE DEF r
  <2>2. ASSUME NEW p \in r.items
        PROVE  /\ r.start <= p.register
               /\ Usable(p) => Allowed(r) /\ FillResult(r, p).quality = "good"
    <3>1. p \in points /\ p.register \in Int /\ Quantity(p) \in 1 .. 2
      BY <2>1, PointIs DEF Parsed
    <3>2. b.start \in 0 .. Word - 1 /\ b.count \in 0 .. Word - 1
      BY <1>3
    <3>3. r.start <= p.register
      BY <2>1, <3>1, <3>2 DEF PointInBlock
    <3>4. ASSUME Usable(p) PROVE Allowed(r) /\ FillResult(r, p).quality = "good"
      <4>1. PointEnd(p) = p.register + Quantity(p)
        BY <1>5, <2>1, <3>1, <3>3, <3>4
      <4>2. p.register + Quantity(p) <= b.start + b.count
        <5>1. b.start + b.count \in 0 .. 2 * Word - 1
          BY <3>2, WordIs
        <5>2. Wrap(b.start + b.count) <= b.start + b.count
          BY <5>1, WrapIs, WordIs
        <5>3. p.register + Quantity(p) <= Wrap(b.start + b.count)
          BY <2>1, <4>1 DEF PointInBlock
        <5>4. Wrap(b.start + b.count) \in Int
          BY <5>1, WrapIs, WordIs
        <5> QED BY <3>1, <5>1, <5>2, <5>3, <5>4
      <4>3. b.count <= MaxQuantity /\ b.start + b.count < Word
        BY <1>5, <2>1, <3>1, <3>2, <3>3, <3>4, <4>2
      <4>4. b.count >= 1
        BY <2>1, <3>1, <3>2, <3>3, <4>2
      <4>5. MaxQuantity \in Int
        BY MaxIs
      <4>6. Allowed(r)
        BY <2>1, <3>2, <4>3, <4>4, <4>5, WordIs DEF Allowed
      <4>7. ~Unusable(p)
        BY <3>4 DEF Usable
      <4> QED BY <2>1, <3>3, <4>2, <4>6, <4>7, FilledExactly
    <3> QED BY <3>3, <3>4
  <2>3. Serves(r)
    BY <2>2 DEF Serves
  <2> QED BY <2>1, <2>3 DEF r
<1>7. \A i \in 1 .. n : ReadPollBlocks[i] \in ReadRequests /\ Serves(ReadPollBlocks[i])
  <2> HIDE DEF within
  <2> QED BY <1>2, <1>4, <1>6
<1>8. DOMAIN ReadPollBlocks = 1 .. n /\ ReadPollBlocks = [i \in 1 .. n |-> ReadPollBlocks[i]]
  BY <1>2
<1>9. n \in Nat
  BY <1>1 DEF n
<1>10. ReadPollBlocks \in Seq(ReadRequests)
  BY <1>7, <1>8, <1>9
<1>11. ASSUME NEW p \in points, Usable(p) PROVE \E r \in ToSet(ReadPollBlocks) : p \in r.items
  <2>1. PICK b \in ToSet(PollBlocks) :
           b.start <= p.register /\ p.register + Width(p) <= b.start + b.count
    BY PollBlocksCover
  <2>2. PICK i \in 1 .. n : b = PollBlocks[i]
    BY <1>1 DEF ToSet, n
  <2>3. /\ p.register \in Int /\ Width(p) \in 1 .. 4 /\ Quantity(p) \in 1 .. 2
        /\ Quantity(p) <= Width(p)
    BY PointIs
  <2>4. b.start \in 0 .. Word - 1 /\ b.count \in 0 .. Word - 1
    BY <1>3
  <2>5. p.register < b.start + b.count
    BY <2>1, <2>3, <2>4
  <2>6. p \in Parsed /\ PointEnd(p) = p.register + Quantity(p) /\ b.start + b.count < Word
    BY <1>5, <1>11, <2>1, <2>5
  <2>7. Wrap(b.start + b.count) = b.start + b.count
    BY <2>4, <2>6, WrapIs, WordIs
  <2>8. PointInBlock(p, b)
    BY <2>1, <2>3, <2>4, <2>6, <2>7 DEF PointInBlock
  <2>9. p \in ReadPollBlocks[i].items
    BY <1>2, <2>2, <2>6, <2>8 DEF Request
  <2> QED BY <1>8, <2>9 DEF ToSet
<1> QED BY <1>7, <1>8, <1>10, <1>11 DEF ToSet

(* Every plan consists of requests that serve, and has one for every usable point. *)
LEMMA PlanServes ==
    ASSUME ReadTypes
    PROVE  /\ Plan \in Seq(ReadRequests)
           /\ \A r \in ToSet(Plan) : Serves(r)
           /\ \A p \in points : Usable(p) => \E r \in ToSet(Plan) : p \in r.items
<1>1. CASE ~declared
  <2>1. Plan = PlanBlocks
    BY <1>1 DEF Plan
  <2>2. \A p \in points : Usable(p) => p \in Parsed
    BY DEF Usable, Unusable, Parsed
  <2> QED BY <2>1, <2>2, PlanBlocksServe
<1>2. CASE declared /\ Decodes
  <2>1. Plan = ReadPollBlocks
    BY <1>2 DEF Plan
  <2> QED BY <1>2, <2>1, ReadPollBlocksServe
<1>3. CASE declared /\ ~Decodes
  <2>1. Plan = <<>> /\ ToSet(Plan) = {}
    BY <1>3 DEF Plan, ToSet
  <2>2. \A p \in points : ~Usable(p)
    BY <1>3 DEF Usable
  <2> QED BY <2>1, <2>2
<1> QED BY <1>1, <1>2, <1>3 DEF ReadTypes

-----------------------------------------------------------------------------
(* One Read.                                                                  *)

(* Until a request is lost, every usable point is good or still in a request. *)
ReadInv ==
    /\ ReadTypes /\ failed \in BOOLEAN
    /\ todo \in Seq(ReadRequests) /\ \A r \in ToSet(todo) : Serves(r)
    /\ \A p \in points : results[p].quality = "good" => results[p].value = Exactly(p)
    /\ ~failed => \A p \in points :
          Usable(p) => results[p].quality = "good" \/ \E r \in ToSet(todo) : p \in r.items

LEMMA HeadAndTail ==
    ASSUME NEW S, NEW s \in Seq(S), s # <<>>
    PROVE  Head(s) \in S /\ Tail(s) \in Seq(S) /\ ToSet(s) = {Head(s)} \cup ToSet(Tail(s))
<1>1. /\ Len(s) \in Nat \ {0} /\ Head(s) = s[1] /\ Tail(s) \in Seq(S) /\ Len(Tail(s)) = Len(s) - 1
      /\ \A i \in 1 .. Len(s) - 1 : Tail(s)[i] = s[i + 1]
      /\ \A i \in 1 .. Len(s) : s[i] \in S
      /\ DOMAIN s = 1 .. Len(s) /\ DOMAIN Tail(s) = 1 .. Len(s) - 1
  OBVIOUS
<1>2. 1 \in 1 .. Len(s) /\ \A i \in 1 .. Len(s) - 1 : i + 1 \in 1 .. Len(s)
  BY <1>1
<1>3. \A i \in 1 .. Len(s) : i = 1 \/ (i - 1 \in 1 .. Len(s) - 1 /\ s[i] = Tail(s)[i - 1])
  BY <1>1
<1>4. ToSet(s) \subseteq {Head(s)} \cup ToSet(Tail(s))
  <2> SUFFICES ASSUME NEW i \in 1 .. Len(s) PROVE s[i] \in {Head(s)} \cup ToSet(Tail(s))
    BY <1>1 DEF ToSet
  <2> QED BY <1>1, <1>3 DEF ToSet
<1>5. {Head(s)} \cup ToSet(Tail(s)) \subseteq ToSet(s)
  BY <1>1, <1>2 DEF ToSet
<1> QED BY <1>1, <1>2, <1>4, <1>5

(* A step leaves the device as it is, and so what can be served. *)
LEMMA SameDevice ==
    ASSUME UNCHANGED <<function, points, declared>>
    PROVE  /\ ReadTypes' = ReadTypes /\ ReadRequests' = ReadRequests
           /\ \A p : Usable(p)' = Usable(p) /\ Exactly(p)' = Exactly(p)
           /\ \A r : Serves(r)' = Serves(r)
<1>1. ReadTypes' = ReadTypes /\ MaxQuantity' = MaxQuantity /\ Parsed' = Parsed
  BY DEF ReadTypes, MaxQuantity, Parsed
<1>2. PollBlocks' = PollBlocks
  BY DEF PollBlocks
<1>3. Decodes' = Decodes
  BY <1>2 DEF Decodes
<1>4. ReadRequests' = ReadRequests
  BY <1>1 DEF ReadRequests
<1>5. \A p : Exactly(p)' = Exactly(p)
  BY DEF Exactly
<1>6. \A p : Unusable(p)' = Unusable(p) /\ BeyondOneRequest(p)' = BeyondOneRequest(p)
  BY <1>1, <1>2 DEF Unusable, BeyondOneRequest
<1>7. \A p : Usable(p)' = Usable(p)
  BY <1>3, <1>6 DEF Usable
<1>8. \A r : Allowed(r)' = Allowed(r) /\ AnswerLength(r)' = AnswerLength(r)
  BY <1>1 DEF Allowed, AnswerLength
<1>9. \A r, p : FillResult(r, p)' = FillResult(r, p)
  BY <1>8 DEF FillResult
<1>10. \A r : Serves(r)' = Serves(r)
  BY <1>7, <1>8, <1>9 DEF Serves
<1> QED BY <1>1, <1>4, <1>5, <1>7, <1>10

LEMMA PlanKeeps ==
    ASSUME ReadTypes, todo' = Plan, results' = NoResults, failed' = FALSE,
           UNCHANGED <<function, points, declared>>
    PROVE  ReadInv'
<1>1. /\ Plan \in Seq(ReadRequests)
      /\ \A r \in ToSet(Plan) : Serves(r)
      /\ \A p \in points : Usable(p) => \E r \in ToSet(Plan) : p \in r.items
  BY PlanServes
<1>2. \A p \in points : NoResults[p].quality # "good"
  BY DEF NoResults
<1> QED BY <1>1, <1>2, SameDevice DEF ReadInv

\* A value that a Read returns is that of the point's own registers, and a Read that lost no
\* request leaves no point out that it could serve: for any registers and any finite lists of
\* points, with the driver's blocks and with the declared ones, in 16-bit arithmetic
\* (modbus.go:182-489, sync.go:684-735).
THEOREM ReadsAreExact == ReadSpec => []ReadIsExact
<1>1. ReadInit => ReadInv
  <2> SUFFICES ASSUME ReadInit PROVE ReadInv
    OBVIOUS
  <2>1. ReadTypes /\ todo = Plan /\ results = NoResults /\ failed = FALSE
    BY DEF ReadInit, ReadTypes
  <2>2. \A p \in points : NoResults[p].quality # "good"
    BY DEF NoResults
  <2> QED BY <2>1, <2>2, PlanServes DEF ReadInv
<1>2. ReadInv /\ [ReadNext]_readVars => ReadInv'
  <2> SUFFICES ASSUME ReadInv, [ReadNext]_readVars PROVE ReadInv'
    OBVIOUS
  <2> USE DEF ReadInv
  <2>1. UNCHANGED <<function, points, declared>>
    BY DEF ReadNext, Answered, RequestFails, ReadAgain, readVars
  <2>2. /\ ReadTypes' = ReadTypes /\ ReadRequests' = ReadRequests
        /\ \A p : Usable(p)' = Usable(p) /\ Exactly(p)' = Exactly(p)
        /\ \A r : Serves(r)' = Serves(r)
    BY <2>1, SameDevice
  <2>3. ASSUME todo # <<>>, todo' = Tail(todo)
        PROVE  /\ Head(todo) \in ReadRequests /\ Serves(Head(todo))
               /\ todo' \in Seq(ReadRequests) /\ \A r \in ToSet(todo') : Serves(r)
               /\ ToSet(todo) = {Head(todo)} \cup ToSet(todo')
    BY <2>3, HeadAndTail
  <2>4. CASE Answered
    <3> DEFINE r == Head(todo)
    <3>1. /\ r \in ReadRequests /\ Serves(r)
          /\ todo' \in Seq(ReadRequests) /\ \A q \in ToSet(todo') : Serves(q)
          /\ ToSet(todo) = {r} \cup ToSet(todo')
      BY <2>3, <2>4 DEF Answered
    <3> HIDE DEF r
    <3>2. /\ failed' = failed /\ points' = points
          /\ \A p \in points :
                results'[p] = IF p \in r.items THEN FillResult(r, p) ELSE results[p]
      BY <2>4 DEF Answered, r
    <3>3. ASSUME NEW p \in points, results'[p].quality = "good"
          PROVE  results'[p].value = Exactly(p)
      <4>1. CASE p \in r.items
        <5>1. r.start <= p.register
          BY <3>1, <4>1 DEF Serves
        <5>2. FillResult(r, p).quality = "good" => FillResult(r, p).value = Exactly(p)
          BY <3>1, <4>1, <5>1, FilledExactly
        <5> QED BY <3>2, <3>3, <4>1, <5>2
      <4>2. CASE p \notin r.items
        BY <3>2, <3>3, <4>2
      <4> QED BY <4>1, <4>2
    <3>4. ASSUME ~failed, NEW p \in points, Usable(p)
          PROVE  results'[p].quality = "good" \/ \E q \in ToSet(todo') : p \in q.items
      <4>1. CASE p \in r.items
        BY <3>1, <3>2, <3>4, <4>1 DEF Serves
      <4>2. CASE p \notin r.items
        BY <3>1, <3>2, <3>4, <4>2
      <4> QED BY <4>1, <4>2
    <3> QED BY <2>2, <3>1, <3>2, <3>3, <3>4
  <2>5. CASE RequestFails
    <3> DEFINE r == Head(todo)
    <3>1. /\ Serves(r)
          /\ todo' \in Seq(ReadRequests) /\ \A q \in ToSet(todo') : Serves(q)
          /\ ToSet(todo) = {r} \cup ToSet(todo')
      BY <2>3, <2>5 DEF RequestFails
    <3> HIDE DEF r
    <3>2. /\ failed' = (failed \/ Allowed(r))
          /\ points' = points /\ results' = results
      BY <2>5 DEF RequestFails, r
    <3>3. ASSUME ~failed', NEW p \in points, Usable(p)
          PROVE  results[p].quality = "good" \/ \E q \in ToSet(todo') : p \in q.items
      <4>1. p \notin r.items
        BY <3>1, <3>2, <3>3 DEF Serves
      <4> QED BY <3>1, <3>2, <3>3, <4>1
    <3>4. failed' \in BOOLEAN
      BY <3>2 DEF Allowed
    <3> QED BY <2>2, <3>1, <3>2, <3>3, <3>4
  <2>6. CASE ReadAgain
    BY <2>6, PlanKeeps DEF ReadAgain
  <2>7. CASE UNCHANGED readVars
    BY <2>2, <2>7 DEF readVars
  <2> QED BY <2>4, <2>5, <2>6, <2>7 DEF ReadNext
<1>3. ReadInv => ReadIsExact
  <2> SUFFICES ASSUME ReadInv PROVE ReadIsExact
    OBVIOUS
  <2>1. ASSUME todo = <<>>, ~failed, NEW p \in points
        PROVE  \/ results[p].quality = "good"
               \/ Unusable(p)
               \/ declared /\ (~Decodes \/ BeyondOneRequest(p))
    <3>1. ToSet(todo) = {}
      BY <2>1 DEF ToSet
    <3> QED BY <2>1, <3>1 DEF ReadInv, Usable
  <2> QED BY <2>1 DEF ReadInv, ReadIsExact
<1> QED BY <1>1, <1>2, <1>3, PTL DEF ReadSpec
=============================================================================

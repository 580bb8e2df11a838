------------------------------- MODULE Outputs ------------------------------
(***************************************************************************)
(* The outputs that collect points and send them in batches: the batch     *)
(* mode of mqtt.go, thingsboard.go, tdengine.go and smardaten.go (which    *)
(* reports changes).  One output, of one kind for a whole behaviour, with  *)
(* its pending points, its flusher, its durable queue and what the other   *)
(* side has received.                                                      *)
(*                                                                         *)
(* Publish is called by the goroutine of the output's slot and the replay  *)
(* comes the same way (see Delivery): one call at a time, none in or after *)
(* Close.  The notifications DeviceOnline and DeviceOffline come from the  *)
(* collection at any time.  A device has one point.                        *)
(***************************************************************************)
EXTENDS Naturals, Sequences, FiniteSets, SequencesExt

CONSTANTS
    Kinds,       \* outputs: "mqtt", "thingsboard", "tdengine", "smardaten"
    Devices,     \* devices
    Values,      \* values of a point
    None,        \* no value
    MaxPending,  \* maxPendingPoints
    BatchMax,    \* mqtt: points of one message
    MaxPoints,   \* bound: points of a behaviour
    MaxNotices,  \* bound: notifications of devices that come and go
    MaxOutages,  \* bound: outages of the other side
    MaxFaults,   \* bound: failures of the database
    MaxBuilds,   \* bound: times the output is built again
    MaxMappings  \* bound: changes of the platform's device list

ASSUME OutputsAssumption ==
    /\ Kinds \subseteq {"mqtt", "thingsboard", "tdengine", "smardaten"}
    /\ None \notin Values
    /\ MaxPending \in Nat /\ BatchMax \in Nat \ {0}
    /\ \A n \in {MaxPoints, MaxNotices, MaxOutages, MaxFaults, MaxBuilds, MaxMappings} : n \in Nat

VARIABLES
    kind,      \* which output
    pending,   \* the points to send, for each device
    pendingCount, \* their number
    coming,    \* connects: devices to announce
    leaving,   \* disconnects: devices to take leave of
    connected, \* thingsboard, smardaten: devices that are connected; tdengine: tables made
    last,      \* smardaten: lastValues
    mapped,    \* smardaten: devices of the platform's configuration
    flush,     \* what flush has taken and not yet handled
    phase,     \* "run", "closing", "closed"
    rows,      \* the durable queue of the output
    link,      \* "up"; "retrying": down, and IsConnected says yes; "down": and says no
    peer,      \* the other side: points it got, devices it shows online, the value it shows
    online,    \* the last notification of each device
    skewed,    \* history: devices whose last notification was lost or overtaken
    failed,    \* history: devices of which a report failed
    lost,      \* history: points lost, each with the reason
    made,      \* points collected so far
    used       \* what the other bounds count

own     == <<pending, pendingCount, coming, leaving, connected, last, flush>>
history == <<skewed, failed, lost>>
vars    == <<kind, own, mapped, phase, rows, link, peer, online, history, made, used>>

Points == [dev : Devices, n : 1..MaxPoints, value : Values]

NoPoints == [d \in Devices |-> <<>>]

NoFlush == [leaving |-> {}, coming |-> {}, batch |-> NoPoints]

\* The points that are in one of these maps.
Held(map) == UNION {ToSet(map[d]) : d \in Devices}

Spend(what) == used' = [used EXCEPT ![what] = @ + 1]

Lost(ps, why) == {[point |-> p, why |-> why] : p \in ps}

-----------------------------------------------------------------------------
(* Publish and the notifications.                                            *)

\* saveBackfill: a failure of the database is logged, and the points are gone.
SaveBackfill(queue, ps) ==
    \/ rows' = queue \o ps /\ UNCHANGED <<lost, used>>
    \/ /\ used.faults < MaxFaults
       /\ Spend("faults")
       /\ lost' = lost \cup Lost(ToSet(ps), "database")
       /\ rows' = queue

\* smardaten takes no point of a device the platform does not know.
Ignored(d) == kind = "smardaten" /\ d \notin mapped

\* Mutant: one point too many.
MFull == kind # "tdengine" /\ pendingCount > MaxPending

Full == kind # "tdengine" /\ pendingCount >= MaxPending

\* The point is kept for the flusher, or saved when there is no room.
Publish(p, queue) ==
    /\ phase = "run"
    /\ \/ /\ Ignored(p.dev)
          /\ lost' = lost \cup Lost({p}, "unmapped") /\ rows' = queue
          /\ UNCHANGED <<pending, pendingCount, used>>
       \/ /\ ~Ignored(p.dev) /\ Full
          /\ SaveBackfill(queue, <<p>>)
          /\ UNCHANGED <<pending, pendingCount>>
       \/ /\ ~Ignored(p.dev) /\ ~Full
          /\ pending' = [pending EXCEPT ![p.dev] = Append(@, p)]
          /\ pendingCount' = pendingCount + 1
          /\ rows' = queue
          /\ UNCHANGED <<lost, used>>
    /\ UNCHANGED <<kind, coming, leaving, connected, last, flush, mapped, phase, link, peer, online,
                   skewed, failed>>

Collect(d, v) ==
    /\ made < MaxPoints
    /\ kind # "smardaten" => v = CHOOSE w \in Values : TRUE   \* only smardaten compares values
    /\ made' = made + 1
    /\ Publish([dev |-> d, n |-> made + 1, value |-> v], rows)

\* BackfillHealthy: the MQTT outputs ask their client; tdengine waits for a while after a
\* failure, which may have passed.
Healthy == kind = "tdengine" \/ link # "down"

\* The manager replays the oldest row, if the output seems able to send.
Replay == rows # <<>> /\ Healthy /\ Publish(Head(rows), Tail(rows)) /\ UNCHANGED made

\* A closed output hears nothing, and smardaten nothing of a device it does not know.
Heard(d) == phase # "closed" /\ ~Ignored(d)

\* Mutant: a device that comes back is still taken leave of.
MWithdraw(devs, d) == devs

Withdraw(devs, d) == devs \ {d}

Notice(d, isOnline) ==
    /\ kind \in {"thingsboard", "smardaten"}
    /\ used.notices < MaxNotices
    /\ online[d] # isOnline
    /\ Spend("notices")
    /\ online' = [online EXCEPT ![d] = isOnline]
    /\ skewed' = IF Heard(d) THEN skewed \ {d} ELSE skewed \cup {d}
    /\ UNCHANGED <<kind, pending, pendingCount, connected, last, flush, mapped, phase, rows, link,
                   peer, failed, lost, made>>

DeviceOnline(d) ==
    /\ Notice(d, TRUE)
    /\ coming' = IF Heard(d) THEN coming \cup {d} ELSE coming
    /\ leaving' = IF Heard(d) THEN Withdraw(leaving, d) ELSE leaving

DeviceOffline(d) ==
    /\ Notice(d, FALSE)
    /\ leaving' = IF Heard(d) THEN leaving \cup {d} ELSE leaving
    /\ coming' = IF Heard(d) THEN Withdraw(coming, d) ELSE coming

-----------------------------------------------------------------------------
(* flush.                                                                    *)

\* flush takes what has been collected; Close waits for the flusher before it flushes what is
\* left.  mqtt skips it when there is no connection;
\* smardaten, which tells the platform nothing of it, notes who is connected.
FlushBegins ==
    /\ phase # "closed" /\ flush = NoFlush
    /\ kind = "mqtt" => link # "down"
    /\ <<pending, coming, leaving>> # <<NoPoints, {}, {}>>
    /\ IF kind = "smardaten"
         THEN /\ connected' = (connected \ leaving) \cup coming
              /\ flush' = [NoFlush EXCEPT !.batch = pending]
         ELSE /\ flush' = [leaving |-> leaving, coming |-> coming, batch |-> pending]
              /\ UNCHANGED connected
    /\ pending' = NoPoints /\ pendingCount' = 0 /\ coming' = {} /\ leaving' = {}
    /\ UNCHANGED <<kind, last, mapped, phase, rows, link, peer, online, history, made, used>>

\* Nobody else works on what flush has taken.
Handling ==
    /\ flush # NoFlush
    /\ UNCHANGED <<kind, pending, pendingCount, coming, leaving, mapped, phase, link, online, made>>

PartOf(d) == flush.batch[d]

\* The batch when ps is left of the device's points.
Left(d, ps) == [flush EXCEPT !.batch[d] = ps]

\* A message goes out, or its sending fails; it may come through all the same.
Reaches == IF link = "up" THEN {TRUE} ELSE {TRUE, FALSE}

\* thingsboard: a device that has gone is disconnected, once.
Disconnect(d) ==
    /\ Handling /\ kind = "thingsboard"
    /\ d \in flush.leaving
    /\ flush' = [flush EXCEPT !.leaving = @ \ {d}]
    /\ connected' = connected \ {d}
    /\ \E reaches \in Reaches :
          peer' = IF reaches THEN [peer EXCEPT !.shows = @ \ {d}] ELSE peer
    /\ skewed' = IF link = "up" THEN skewed ELSE skewed \cup {d}
    /\ UNCHANGED <<last, rows, failed, lost, used>>

Connects(d) ==
    \/ link = "up" /\ connected' = connected \cup {d} /\ peer' = [peer EXCEPT !.shows = @ \cup {d}]
    \/ /\ link # "up" /\ UNCHANGED connected
       /\ peer' \in {peer, [peer EXCEPT !.shows = @ \cup {d}]}

\* thingsboard: a device that has come is connected, unless it is.
Connect(d) ==
    /\ Handling /\ kind = "thingsboard"
    /\ flush.leaving = {} /\ d \in flush.coming
    /\ flush' = [flush EXCEPT !.coming = @ \ {d}]
    /\ IF d \in connected THEN UNCHANGED <<connected, peer>> ELSE Connects(d)
    /\ skewed' = IF link = "up" /\ d \in peer'.shows THEN skewed ELSE skewed \cup {d}
    /\ UNCHANGED <<last, rows, failed, lost, used>>

\* The points of a device are the flusher's turn.
Turn(d) == Handling /\ flush.leaving = {} /\ flush.coming = {} /\ PartOf(d) # <<>>

\* thingsboard connects a device before its points, even one that has just gone; tdengine
\* makes the table.  The points are saved when that fails.
Prepare(d) ==
    /\ Turn(d)
    /\ kind \in {"thingsboard", "tdengine"} /\ d \notin connected
    /\ Connects(d)
    /\ IF link = "up"
         THEN UNCHANGED <<flush, rows, lost, used>>
         ELSE flush' = Left(d, <<>>) /\ SaveBackfill(rows, PartOf(d))
    /\ skewed' = skewed \cup IF kind = "thingsboard" THEN {d} ELSE {}
    /\ UNCHANGED <<last, failed>>

Newest(ps) == CHOOSE p \in ToSet(ps) : \A q \in ToSet(ps) : q.n <= p.n

Received(d, ps) == [peer EXCEPT !.got = @ \cup ToSet(ps), !.value[d] = Newest(ps).value]

\* Mutant: only the message that failed is saved.
MUnsent(ps, message) == message

Unsent(ps, message) == ps

\* One message is sent; if that fails, what is left of the device is saved.
Send(d, message, rest) ==
    \/ /\ link = "up"
       /\ peer' = Received(d, message)
       /\ flush' = Left(d, rest)
       /\ UNCHANGED <<rows, lost, used, failed>>
    \/ /\ link # "up"
       /\ peer' \in {peer, Received(d, message)}
       /\ flush' = Left(d, <<>>)
       /\ SaveBackfill(rows, Unsent(message \o rest, message))
       /\ failed' = failed \cup {d}

\* mqtt: messages of at most batchMax points.
PublishBatch(d) ==
    LET ps == PartOf(d)
        n  == IF Len(ps) < BatchMax THEN Len(ps) ELSE BatchMax IN
    /\ Turn(d) /\ kind = "mqtt"
    /\ Send(d, SubSeq(ps, 1, n), SubSeq(ps, n + 1, Len(ps)))
    /\ UNCHANGED <<connected, last, skewed>>

\* thingsboard, tdengine: all points in one message.
PublishAll(d) ==
    /\ Turn(d) /\ kind \in {"thingsboard", "tdengine"} /\ d \in connected
    /\ Send(d, PartOf(d), <<>>)
    /\ UNCHANGED <<connected, last, skewed>>

Drop(d) == flush' = Left(d, <<>>)

Reported(d, v) == [last EXCEPT ![d] = v]

\* smardaten: the newest point stands for all; its value is noted, then it is sent.
ReportChange(d) ==
    LET v == Newest(PartOf(d)).value IN
    /\ Turn(d) /\ kind = "smardaten" /\ d \in mapped
    /\ last' = Reported(d, v)
    /\ Send(d, PartOf(d), <<>>)
    /\ UNCHANGED <<connected, skewed>>

\* A value that is the same as the last one noted is skipped, until maxPubTime is over.
SkipUnchanged(d) ==
    LET v == Newest(PartOf(d)).value IN
    /\ Turn(d) /\ kind = "smardaten" /\ d \in mapped
    /\ last[d] = v
    /\ Drop(d)
    /\ IF peer.value[d] = v
         THEN peer' = Received(d, PartOf(d)) /\ UNCHANGED lost
         ELSE lost' = lost \cup Lost(ToSet(PartOf(d)), "skipped") /\ UNCHANGED peer
    /\ UNCHANGED <<connected, last, rows, skewed, failed, used>>

\* The platform's new configuration does not know the device any more.
SkipUnmapped(d) ==
    /\ Turn(d) /\ Ignored(d)
    /\ Drop(d)
    /\ lost' = lost \cup Lost(ToSet(PartOf(d)), "unmapped")
    /\ UNCHANGED <<connected, last, rows, peer, skewed, failed, used>>

-----------------------------------------------------------------------------
(* Close, New, and the other side.                                           *)

CloseBegins ==
    /\ phase = "run"
    /\ phase' = "closing"
    /\ UNCHANGED <<kind, own, mapped, rows, link, peer, online, history, made, used>>

\* Close is done when all is flushed; mqtt cannot flush without a connection.
CloseEnds ==
    /\ phase = "closing" /\ flush = NoFlush
    /\ \/ pending = NoPoints /\ coming = {} /\ leaving = {} /\ UNCHANGED lost
       \/ kind = "mqtt" /\ link = "down" /\ lost' = lost \cup Lost(Held(pending), "closed")
    /\ phase' = "closed"
    /\ pending' = NoPoints /\ pendingCount' = 0
    /\ peer' = [peer EXCEPT !.shows = {}]
    /\ UNCHANGED <<kind, coming, leaving, connected, last, flush, mapped, rows, link, online,
                   skewed, failed, made, used>>

\* A reload or a restart makes the output anew: it is told nothing of the devices that are
\* online.  tdengine must reach the database.
New ==
    /\ phase = "closed"
    /\ used.builds < MaxBuilds
    /\ Spend("builds")
    /\ kind = "tdengine" => link = "up"
    /\ phase' = "run"
    /\ connected' = {}
    /\ last' = [d \in Devices |-> None]
    /\ skewed' = Devices
    /\ UNCHANGED <<kind, pending, pendingCount, coming, leaving, flush, mapped, rows, link, peer,
                   online, failed, lost, made>>

\* The link fails.  ThingsBoard takes the devices of a gateway that is gone for offline.
Outage ==
    /\ used.outages < MaxOutages
    /\ Spend("outages")
    /\ link = "up" /\ link' \in {"retrying", "down"}
    /\ peer' = [peer EXCEPT !.shows = {}]
    /\ skewed' = Devices
    /\ UNCHANGED <<kind, own, mapped, phase, rows, online, failed, lost, made>>

Reconnect ==
    /\ link # "up" /\ link' = "up"
    /\ UNCHANGED <<kind, own, mapped, phase, rows, peer, online, history, made, used>>

\* buildFrom: the platform sends a new configuration.
BuildFrom(devs) ==
    /\ kind = "smardaten"
    /\ used.mappings < MaxMappings
    /\ Spend("mappings")
    /\ mapped' = devs
    /\ skewed' = skewed \cup (devs \ mapped)
    /\ UNCHANGED <<kind, own, phase, rows, link, peer, online, failed, lost, made>>

-----------------------------------------------------------------------------
Init ==
    /\ kind \in Kinds
    /\ pending = NoPoints /\ pendingCount = 0 /\ rows = <<>>
    /\ coming = {} /\ leaving = {} /\ connected = {}
    /\ last = [d \in Devices |-> None]
    /\ mapped = Devices
    /\ flush = NoFlush
    /\ phase = "run"
    /\ link = "up"
    /\ peer = [got |-> {}, shows |-> {}, value |-> [d \in Devices |-> None]]
    /\ online = [d \in Devices |-> FALSE]
    /\ skewed = {} /\ failed = {} /\ lost = {}
    /\ made = 0
    /\ used = [notices |-> 0, outages |-> 0, faults |-> 0, builds |-> 0, mappings |-> 0]

PublishNext ==
    \/ \E d \in Devices, v \in Values : Collect(d, v)
    \/ Replay
    \/ \E d \in Devices : DeviceOnline(d) \/ DeviceOffline(d)

FlushNext ==
    \/ FlushBegins
    \/ \E d \in Devices :
          \/ Disconnect(d) \/ Connect(d) \/ Prepare(d)
          \/ PublishBatch(d) \/ PublishAll(d)
          \/ ReportChange(d) \/ SkipUnchanged(d) \/ SkipUnmapped(d)

OtherNext ==
    \/ CloseBegins \/ CloseEnds \/ New \/ Outage \/ Reconnect
    \/ \E devs \in SUBSET Devices : BuildFrom(devs)

Next == PublishNext \/ FlushNext \/ OtherNext

Spec == Init /\ [][Next]_vars
-----------------------------------------------------------------------------
(* Properties *)

Batches == [Devices -> Seq(Points)]

\* The types of the variables; only what flush has taken may be connected or sent.
TypeOK ==
    /\ kind \in Kinds
    /\ pending \in Batches
    /\ flush \in [leaving : SUBSET Devices, coming : SUBSET Devices, batch : Batches]
    /\ \A d \in Devices : \A p \in ToSet(pending[d]) \cup ToSet(flush.batch[d]) : p.dev = d
    /\ pendingCount = Cardinality(Held(pending))
    /\ kind # "tdengine" => pendingCount <= MaxPending
    /\ {coming, leaving, connected, mapped, skewed, failed} \subseteq SUBSET Devices
    /\ rows \in Seq(Points)
    /\ last \in [Devices -> Values \cup {None}]
    /\ phase \in {"run", "closing", "closed"}
    /\ link \in {"up", "retrying", "down"}
    /\ peer \in [got : SUBSET Points, shows : SUBSET Devices,
                 value : [Devices -> Values \cup {None}]]
    /\ online \in [Devices -> BOOLEAN]
    /\ lost \subseteq [point : Points, why : {"database", "unmapped", "closed", "skipped"}]
    /\ made \in 0..MaxPoints

\* Every point collected is on its way, saved, or received, whatever fails and whoever
\* flushes, or was lost in one of four ways: the database failed, the platform does not know
\* the device, mqtt was closed while it was not connected, or smardaten skipped the value
\* after an earlier report of it had failed (docs/offline-backfill-design.md:181).
NothingLost ==
    \A n \in 1..made :
       \/ \E p \in peer.got \cup Held(pending) \cup Held(flush.batch) \cup ToSet(rows) : p.n = n
       \/ \E l \in lost : l.point.n = n /\ (l.why = "skipped" => l.point.dev \in failed)

\* When there is nothing left to flush, ThingsBoard shows a device online, and smardaten's
\* diagnosis has it connected, exactly if its last notification said so; except after a
\* failure, a rebuild, or when points of a device that has gone connect it again
\* (thingsboard.go:392-404).
StatusFollows ==
    flush = NoFlush /\ phase = "run" =>
       \A d \in Devices \ (coming \cup leaving \cup skewed) :
          /\ kind = "thingsboard" => (d \in peer.shows <=> online[d])
          /\ kind = "smardaten" => (d \in connected <=> online[d])
=============================================================================

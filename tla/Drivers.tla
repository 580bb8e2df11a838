------------------------------ MODULE Drivers -------------------------------
(***************************************************************************)
(* The shared connections of the three drivers: the pool of modbus.go,     *)
(* opcua.go and modbus_listen.go for one connection of the configuration,  *)
(* with those who use it: the devices the scheduler opens, stops and       *)
(* restarts as a group, the workers that read them, and the one-shot users *)
(* (WritePoint, ProbeDevice, Browse) that open the connection, make one    *)
(* request and close it.  The drivers share no state, so the connection    *)
(* is of one kind for a whole behaviour.                                   *)
(*                                                                         *)
(* A link is the physical connection behind a shared connection: a Modbus  *)
(* client, an OPC UA session, a listening socket.  The scheduler's reload  *)
(* is taken from HotReload, reduced to one connection group; here a device *)
(* edit adds or removes a device, as any edit that restarts a pushing      *)
(* group.                                                                  *)
(***************************************************************************)
EXTENDS Naturals, FiniteSets

CONSTANTS
    Devices,   \* devices of the connection
    Users,     \* one-shot users of the connection
    Workers,   \* polling workers
    Links,     \* shared connections, reused when nothing refers to them any more
    Configs,   \* configurations of the connection
    Kinds,     \* drivers: "modbus", "opcua", "listen"
    UnitOf,    \* the unit (slave) ID of each device
    None,      \* no link, no holder
    MaxEdits,  \* bound: edits of a behaviour
    MaxLost    \* bound: answers of the OPC UA server that are lost

Holders == Devices \cup Users

ASSUME DriversAssumption ==
    /\ Devices \cap Users = {}
    /\ Workers \cap Holders = {}
    /\ Devices # {}
    /\ Configs # {}
    /\ Kinds \subseteq {"modbus", "opcua", "listen"}
    /\ UnitOf \in [Devices -> Nat]
    /\ None \notin Links \cup Holders \cup Workers
    /\ MaxEdits \in Nat
    /\ MaxLost \in Nat

VARIABLES
    kind,      \* the driver of the connection
    stored,    \* the connection and its devices in the database
    known,     \* what the last reload read of it
    reload,    \* the devices the running reload has still to stop, open and register
    user,      \* each one-shot user
    edits,     \* edits so far
    pool,      \* the pool's entry for the connection, or None
    ref,       \* sharedConn.refCount
    built,     \* the configuration each shared connection was made with
    link,      \* its physical link: "none", "open", "closed", or "stray": connected again by
               \* a request that came after the close
    conn,      \* the shared connection each holder has, or None
    survived,  \* history: a restart found the connection still held by a one-shot user
    unit,      \* modbus: the unit ID the handler is set to
    bus,       \* modbus: who holds sharedConn.mu
    req,       \* modbus: the request of each worker and user
    mu,        \* opcua: the holder whose Close holds the pool's lock
    target,    \* opcua: ClientHandle -> device; listen: unit ID -> device; "gone" once the
               \* device is closed, "refused" when its registration failed
    item,      \* opcua: the items the server monitors
    next,      \* opcua: nextHandle
    stop,      \* opcua, listen: the context of the shared connection is cancelled
    sub,       \* opcua: the subscription and its dispatcher: "none", "on", "off"
    peer,      \* listen: a device is connected
    hand,      \* opcua, listen: the target whose callback runs, or None
    lost       \* answers lost so far

callerVars == <<stored, known, reload, user, edits>>
poolVars   == <<pool, ref, built, link, conn, survived>>
busVars    == <<unit, bus, req>>
pushVars   == <<mu, target, item, next, stop, sub, peer, hand, lost>>
vars       == <<kind, callerVars, poolVars, busVars, pushVars>>

Idle == [on |-> FALSE, stop |-> {}, open |-> {}, register |-> {}, late |-> FALSE]

\* A request: the shared connection and unit ID it is for, and whether the bus is its own.
Request(l, n) == [link |-> l, unit |-> n, selected |-> FALSE]

Opened == {d \in Devices : conn[d] # None}

\* Nothing refers to a shared connection any more.
Unused(l) ==
    /\ pool # l
    /\ \A h \in Holders : conn[h] # l
    /\ \A t \in DOMAIN req : req[t] # None => req[t].link # l
    /\ link[l] # "open"
    /\ ~peer[l] /\ hand[l] = None /\ sub[l] # "on"

-----------------------------------------------------------------------------
(* The pool: the same steps in the three drivers, each under its lock.       *)

\* acquire finds the pool's entry: its configuration is not compared.
Join(h) ==
    /\ pool # None
    /\ conn' = [conn EXCEPT ![h] = pool]
    /\ ref' = [ref EXCEPT ![pool] = @ + 1]
    /\ UNCHANGED <<pool, built, link, target, item, next, stop, sub>>

\* Mutant: the holder that makes the connection is not counted.
MFirst == 0

First == 1

\* acquire makes a shared connection, with its link in the given state.
Make(h, cfg, state) ==
    /\ pool = None
    /\ \E l \in Links : Unused(l)
    /\ LET l == CHOOSE k \in Links : Unused(k) IN
          /\ pool' = l
          /\ ref' = [ref EXCEPT ![l] = First]
          /\ built' = [built EXCEPT ![l] = cfg]
          /\ link' = [link EXCEPT ![l] = state]
          /\ conn' = [conn EXCEPT ![h] = l]
          /\ target' = [target EXCEPT ![l] = <<>>]
          /\ item' = [item EXCEPT ![l] = {}]
          /\ next' = [next EXCEPT ![l] = 0]
          /\ stop' = [stop EXCEPT ![l] = FALSE]
          /\ sub' = [sub EXCEPT ![l] = "none"]

AcquireModbus(h, cfg) == kind = "modbus" /\ (Join(h) \/ Make(h, cfg, "open"))
AcquireOpcua(h, cfg)  == kind = "opcua" /\ mu = None /\ (Join(h) \/ Make(h, cfg, "open"))
AcquireListen(h, cfg) == kind = "listen" /\ (Join(h) \/ Make(h, cfg, "none"))

Acquire(h, cfg) ==
    /\ AcquireModbus(h, cfg) \/ AcquireOpcua(h, cfg) \/ AcquireListen(h, cfg)
    /\ UNCHANGED <<mu, peer, hand, lost>>

\* The link is dialled under the pool's lock, and cannot be made.
DialFails ==
    /\ kind # "listen" /\ mu = None /\ pool = None
    /\ UNCHANGED <<poolVars, pushVars>>

\* The targets of a device that is closed are not the device's any more.  Nothing in the
\* code says so: the drivers have no operation that takes a target away.
Disowned(t, h) ==
    [k \in DOMAIN t |-> IF t[k] = [device |-> h, state |-> "on"]
                          THEN [device |-> h, state |-> "gone"] ELSE t[k]]

\* Close of a holder: one reference less.
Leave(h) ==
    /\ conn[h] # None
    /\ conn' = [conn EXCEPT ![h] = None]
    /\ ref' = [ref EXCEPT ![conn[h]] = @ - 1]
    /\ target' = [target EXCEPT ![conn[h]] = Disowned(@, h)]
    /\ UNCHANGED <<built, item, next, peer, hand, lost, survived>>

\* Mutant: the reference that is left is not counted.
MLastOf(l) == ref[l] <= 2

LastOf(l) == ref[l] = 1

ReleaseModbus(h) ==
    LET l == conn[h] IN
    /\ kind = "modbus"
    /\ Leave(h)
    /\ pool' = IF LastOf(l) THEN None ELSE pool
    /\ link' = IF LastOf(l) THEN [link EXCEPT ![l] = "closed"] ELSE link
    /\ UNCHANGED <<mu, stop, sub>>

\* Mutant: the dispatcher is not told.
MCancels == FALSE

Cancels == TRUE

\* The dispatcher is told to stop; while there is one, Close waits for it with the lock.
ReleaseOpcua(h) ==
    LET l == conn[h] IN
    /\ kind = "opcua" /\ mu = None
    /\ Leave(h)
    /\ IF LastOf(l)
         THEN /\ pool' = None
              /\ stop' = [stop EXCEPT ![l] = Cancels]
              /\ mu' = IF sub[l] = "none" THEN None ELSE h
              /\ link' = IF sub[l] = "none" THEN [link EXCEPT ![l] = "closed"] ELSE link
         ELSE UNCHANGED <<pool, stop, mu, link>>
    /\ UNCHANGED sub

\* The context is cancelled; the socket is closed later, by the goroutine of serveLoop.
ReleaseListen(h) ==
    LET l == conn[h] IN
    /\ kind = "listen"
    /\ Leave(h)
    /\ pool' = IF LastOf(l) THEN None ELSE pool
    /\ stop' = IF LastOf(l) THEN [stop EXCEPT ![l] = TRUE] ELSE stop
    /\ UNCHANGED <<mu, link, sub>>

Release(h) == ReleaseModbus(h) \/ ReleaseOpcua(h) \/ ReleaseListen(h)

DispatchDone(l) == sub[l] = "off"

\* The dispatcher is done: Close closes the session and gives the lock back.
ReleaseReturns ==
    \E l \in Links :
       /\ mu # None
       /\ link[l] = "open" /\ pool # l /\ DispatchDone(l)
       /\ link' = [link EXCEPT ![l] = "closed"]
       /\ mu' = None
       /\ UNCHANGED <<kind, callerVars, pool, ref, built, conn, survived, busVars,
                      target, item, next, stop, sub, peer, hand, lost>>

-----------------------------------------------------------------------------
(* The scheduler: one connection group of a reload (see HotReload).          *)

Edit(row) ==
    /\ edits < MaxEdits
    /\ row # stored
    /\ stored' = row
    /\ edits' = edits + 1
    /\ UNCHANGED <<kind, known, reload, user, poolVars, busVars, pushVars>>

SaveConnection == \E cfg \in Configs : Edit([stored EXCEPT !.config = cfg])
SaveDevice     == \E d \in Devices \ stored.devices : Edit([stored EXCEPT !.devices = @ \cup {d}])
DeleteDevice   == \E d \in stored.devices : Edit([stored EXCEPT !.devices = @ \ {d}])

\* Mutant: only the devices that are gone are stopped.
MRestarts == stored.config # known.config

\* Another configuration is another group; a pushing group from which a device goes is
\* opened anew, because no driver can take one device out of a subscription.
Restarts ==
    \/ stored.config # known.config
    \/ kind # "modbus" /\ Opened \ stored.devices # {}

ReloadBegins ==
    /\ reload = Idle
    /\ stored # known
    /\ known' = stored
    /\ reload' = IF Restarts
                   THEN [Idle EXCEPT !.on = TRUE, !.stop = Opened, !.open = stored.devices]
                   ELSE [Idle EXCEPT !.on = TRUE, !.stop = Opened \ stored.devices,
                                     !.open = stored.devices \ Opened, !.late = TRUE]
    /\ UNCHANGED <<kind, stored, user, edits, poolVars, busVars, pushVars>>

Reloading == reload.on /\ mu \notin Devices

\* In a polled group the devices that are gone are stopped last.
StopDevice(d) ==
    /\ Reloading
    /\ d \in reload.stop
    /\ kind = "modbus" /\ reload.late => reload.open = {} /\ reload.register = {}
    /\ reload' = [reload EXCEPT !.stop = @ \ {d}]
    /\ Release(d)
    /\ UNCHANGED <<kind, stored, known, user, edits, busVars>>

OpenDevice(d) ==
    /\ Reloading
    /\ d \in reload.open
    /\ ~reload.late => reload.stop = {}
    /\ \/ /\ Acquire(d, known.config)
          /\ reload' = [reload EXCEPT !.open = @ \ {d}, !.register = @ \cup {d}]
          /\ survived' = (survived \/ (pool # None /\ Opened = {}))
       \/ /\ DialFails
          /\ reload' = [reload EXCEPT !.open = @ \ {d}]
    /\ UNCHANGED <<kind, stored, known, user, edits, busVars>>

\* registerDevice, by what the driver can do; a device that fails is closed at once.
Registering(d) ==
    /\ Reloading
    /\ d \in reload.register
    /\ reload.open = {}
    /\ kind # "modbus" => reload.stop = {}
    /\ UNCHANGED <<kind, stored, known, user, edits, poolVars, busVars, mu, peer, hand, stop>>

Registered(d) == reload' = [reload EXCEPT !.register = @ \ {d}]
Refused(d)    == reload' = [reload EXCEPT !.register = @ \ {d}, !.stop = @ \cup {d}]

Schedule(d) ==
    /\ kind = "modbus"
    /\ Registering(d) /\ Registered(d)
    /\ UNCHANGED <<target, item, next, sub, lost>>

ReloadEnds ==
    /\ Reloading
    /\ reload.stop = {} /\ reload.open = {} /\ reload.register = {}
    /\ reload' = Idle
    /\ UNCHANGED <<kind, stored, known, user, edits, poolVars, busVars, pushVars>>

-----------------------------------------------------------------------------
(* WritePoint, ProbeDevice and Browse: they read the connection, open it     *)
(* with what they read, and close it after one request.                      *)

GetConnection(u) ==
    /\ user[u].pc = "idle"
    /\ user' = [user EXCEPT ![u] = [pc |-> "read", config |-> stored.config]]
    /\ UNCHANGED <<kind, stored, known, reload, edits, poolVars, busVars, pushVars>>

UserOpens(u) ==
    /\ user[u].pc = "read"
    /\ \/ /\ Acquire(u, user[u].config)
          /\ UNCHANGED survived
          /\ user' = [user EXCEPT ![u].pc = IF kind = "modbus" THEN "open" ELSE "done"]
       \/ /\ DialFails
          /\ user' = [user EXCEPT ![u].pc = "idle"]
    /\ UNCHANGED <<kind, stored, known, reload, edits, busVars>>

UserAsks(u) ==
    /\ user[u].pc = "open"
    /\ user' = [user EXCEPT ![u].pc = "done"]
    /\ \E d \in Devices : req' = [req EXCEPT ![u] = Request(conn[u], UnitOf[d])]
    /\ UNCHANGED <<kind, stored, known, reload, edits, poolVars, unit, bus, pushVars>>

UserCloses(u) ==
    /\ user[u].pc = "done"
    /\ kind = "modbus" => req[u] = None
    /\ user' = [user EXCEPT ![u].pc = "idle"]
    /\ Release(u)
    /\ UNCHANGED <<kind, stored, known, reload, edits, busVars>>

-----------------------------------------------------------------------------
(* Modbus: requests of several devices on one half-duplex line.  A polling   *)
(* task carries the connection its device had when the task was queued.      *)

FireTask(w, d) ==
    /\ kind = "modbus"
    /\ req[w] = None
    /\ conn[d] # None /\ d \notin reload.register
    /\ req' = [req EXCEPT ![w] = Request(conn[d], UnitOf[d])]
    /\ UNCHANGED <<kind, callerVars, poolVars, unit, bus, pushVars>>

\* Mutant: requests are not serialised.
MBusFree(l) == TRUE

BusFree(l) == bus[l] = None

\* readRaw and writeOne take the line and set its unit ID ...
SelectUnit(t) ==
    /\ req[t] # None /\ ~req[t].selected
    /\ BusFree(req[t].link)
    /\ bus' = [bus EXCEPT ![req[t].link] = t]
    /\ unit' = [unit EXCEPT ![req[t].link] = req[t].unit]
    /\ req' = [req EXCEPT ![t].selected = TRUE]
    /\ UNCHANGED <<kind, callerVars, poolVars, pushVars>>

\* ... and make the request, which may fail, with the unit ID that is set.  On a link that
\* is closed the client connects again; nobody closes that link any more.
Transact(t) ==
    LET l == req[t].link IN
    /\ req[t] # None /\ req[t].selected
    /\ bus' = [bus EXCEPT ![l] = None]
    /\ req' = [req EXCEPT ![t] = None]
    /\ link' \in {link} \cup IF link[l] = "closed" THEN {[link EXCEPT ![l] = "stray"]} ELSE {}
    /\ UNCHANGED <<kind, callerVars, pool, ref, built, conn, survived, unit, pushVars>>

-----------------------------------------------------------------------------
(* OPC UA: one subscription and one dispatcher for the devices of a session. *)

Target(d, state) == [device |-> d, state |-> state]

\* Mutant: every registration counts from the start.
MHandle(l) == 0

\* The ClientHandle given to the next registration.
Handle(l) == next[l]

\* The items are monitored: those the server accepts get a target.
MonitorAnswers(d, l) ==
    /\ item' = [item EXCEPT ![l] = @ \cup {[handle |-> Handle(l), device |-> d]}]
    /\ target' = [target EXCEPT ![l] =
                    [k \in DOMAIN @ \cup {Handle(l)} |->
                        IF k = Handle(l) THEN Target(d, "on") ELSE @[k]]]
    /\ next' = [next EXCEPT ![l] = @ + 1]
    /\ Registered(d)
    /\ UNCHANGED lost

\* The server rejects the items: the handles are used up, and Subscribe succeeds.
MonitorRejects(d, l) ==
    /\ next' = [next EXCEPT ![l] = @ + 1]
    /\ Registered(d)
    /\ UNCHANGED <<target, item, lost>>

\* The server has the items but its answer does not come: their handles are given again.
MonitorTimesOut(d, l) ==
    /\ lost < MaxLost
    /\ lost' = lost + 1
    /\ item' = [item EXCEPT ![l] = @ \cup {[handle |-> Handle(l), device |-> d]}]
    /\ Refused(d)
    /\ UNCHANGED <<target, next>>

SubscribeFails(d) == Refused(d) /\ UNCHANGED <<target, item, next, sub, lost>>

Subscribe(d) ==
    LET l == conn[d] IN
    /\ kind = "opcua"
    /\ Registering(d)
    /\ \/ sub[l] = "none" /\ SubscribeFails(d)
       \/ /\ sub' = [sub EXCEPT ![l] = IF @ = "none" THEN "on" ELSE @]
          /\ MonitorAnswers(d, l) \/ MonitorRejects(d, l) \/ MonitorTimesOut(d, l)

\* handleNotification: the target of an item is looked up, and called without the lock.
Notify(l) ==
    /\ sub[l] = "on" /\ hand[l] = None
    /\ \E i \in item[l] :
          /\ i.handle \in DOMAIN target[l]
          /\ hand' = [hand EXCEPT ![l] = [key |-> i.handle, about |-> i.device]]
    /\ UNCHANGED <<kind, callerVars, poolVars, busVars, mu, target, item, next, stop, sub,
                   peer, lost>>

Callback(l) ==
    /\ hand[l] # None
    /\ hand' = [hand EXCEPT ![l] = None]
    /\ UNCHANGED <<kind, callerVars, poolVars, busVars, mu, target, item, next, stop, sub,
                   peer, lost>>

\* The dispatcher sees the cancelled context and deletes the subscription.
DispatchExits(l) ==
    /\ kind = "opcua"
    /\ sub[l] = "on" /\ stop[l] /\ hand[l] = None
    /\ sub' = [sub EXCEPT ![l] = "off"]
    /\ item' = [item EXCEPT ![l] = {}]
    /\ UNCHANGED <<kind, callerVars, poolVars, busVars, mu, target, next, stop, hand, peer,
                   lost>>

-----------------------------------------------------------------------------
(* Modbus listener: one socket, and a route for each unit ID.                *)

\* The address, which is the configuration, is bound by another socket.
AddressTaken(l) == \E o \in Links \ {l} : link[o] = "open" /\ built[o] = built[l]

Routed(d, l, state) ==
    target' = [target EXCEPT ![l] =
                 [k \in DOMAIN @ \cup {UnitOf[d]} |->
                     IF k = UnitOf[d] THEN Target(d, state) ELSE @[k]]]

\* register: the route is set first, and stays; without a socket yet, one is bound.
Listen(d) ==
    LET l == conn[d] IN
    /\ kind = "listen"
    /\ Reloading
    /\ d \in reload.register /\ reload.open = {} /\ reload.stop = {}
    /\ \/ link[l] = "open" /\ Routed(d, l, "on") /\ Registered(d) /\ UNCHANGED link
       \/ /\ link[l] = "none" /\ ~AddressTaken(l)
          /\ Routed(d, l, "on") /\ Registered(d)
          /\ link' = [link EXCEPT ![l] = "open"]
       \/ link[l] = "none" /\ Routed(d, l, "refused") /\ Refused(d) /\ UNCHANGED link
    /\ UNCHANGED <<kind, stored, known, user, edits, pool, ref, built, conn, survived, busVars,
                   mu, item, next, stop, sub, peer, hand, lost>>

Accept(l) ==
    /\ kind = "listen" /\ link[l] = "open" /\ ~peer[l]
    /\ peer' = [peer EXCEPT ![l] = TRUE]
    /\ UNCHANGED <<kind, callerVars, poolVars, busVars, mu, target, item, next, stop, sub,
                   hand, lost>>

\* handleConn and dispatch: a frame goes to the device its unit ID is routed to.
Frame(l) ==
    /\ peer[l] /\ hand[l] = None
    /\ \E k \in DOMAIN target[l] :
          hand' = [hand EXCEPT ![l] = [key |-> k, about |-> target[l][k].device]]
    /\ UNCHANGED <<kind, callerVars, poolVars, busVars, mu, target, item, next, stop, sub,
                   peer, lost>>

\* The device goes, or is silent for the read timeout.  Nothing else ends its connection.
PeerLeaves(l) ==
    /\ peer[l] /\ hand[l] = None
    /\ peer' = [peer EXCEPT ![l] = FALSE]
    /\ UNCHANGED <<kind, callerVars, poolVars, busVars, mu, target, item, next, stop, sub,
                   hand, lost>>

\* The goroutine of serveLoop sees the cancelled context.
CloseSocket(l) ==
    /\ kind = "listen" /\ link[l] = "open" /\ stop[l]
    /\ link' = [link EXCEPT ![l] = "closed"]
    /\ UNCHANGED <<kind, callerVars, pool, ref, built, conn, survived, busVars, pushVars>>

-----------------------------------------------------------------------------
Init ==
    /\ kind \in Kinds
    /\ stored \in [config : {CHOOSE cfg \in Configs : TRUE}, devices : (SUBSET Devices) \ {{}}]
    /\ known = [stored EXCEPT !.devices = {}]
    /\ reload = Idle
    /\ user = [u \in Users |-> [pc |-> "idle", config |-> stored.config]]
    /\ edits = 0
    /\ pool = None
    /\ ref = [l \in Links |-> 0]
    /\ built = [l \in Links |-> stored.config]
    /\ link = [l \in Links |-> "none"]
    /\ conn = [h \in Holders |-> None]
    /\ survived = FALSE
    /\ unit = [l \in Links |-> 0]
    /\ bus = [l \in Links |-> None]
    /\ req = [t \in Workers \cup Users |-> None]
    /\ mu = None
    /\ target = [l \in Links |-> <<>>]
    /\ item = [l \in Links |-> {}]
    /\ next = [l \in Links |-> 0]
    /\ stop = [l \in Links |-> FALSE]
    /\ sub = [l \in Links |-> "none"]
    /\ peer = [l \in Links |-> FALSE]
    /\ hand = [l \in Links |-> None]
    /\ lost = 0

SchedulerNext ==
    \/ SaveConnection \/ SaveDevice \/ DeleteDevice
    \/ ReloadBegins \/ ReloadEnds
    \/ \E d \in Devices : StopDevice(d) \/ OpenDevice(d) \/ Schedule(d) \/ Subscribe(d)
                          \/ Listen(d)

UserNext ==
    \E u \in Users : GetConnection(u) \/ UserOpens(u) \/ UserAsks(u) \/ UserCloses(u)

BusNext ==
    \/ \E w \in Workers, d \in Devices : FireTask(w, d)
    \/ \E t \in Workers \cup Users : SelectUnit(t) \/ Transact(t)

PushNext ==
    \/ ReleaseReturns
    \/ \E l \in Links : Notify(l) \/ Callback(l) \/ DispatchExits(l) \/ Accept(l) \/ Frame(l)
                        \/ PeerLeaves(l) \/ CloseSocket(l)

Next == SchedulerNext \/ UserNext \/ BusNext \/ PushNext

\* The dispatcher's select takes one of the ready cases at random: the cancelled context is
\* not passed over for ever.  A callback ends, and so does Close once the dispatcher is done.
Fairness ==
    /\ \A l \in Links : WF_vars(Callback(l)) /\ SF_vars(DispatchExits(l))
    /\ WF_vars(ReleaseReturns)

Spec == Init /\ [][Next]_vars /\ Fairness
-----------------------------------------------------------------------------
(* Properties *)

Requests == {None} \cup [link : Links, unit : Nat, selected : BOOLEAN]

CallerTypes ==
    /\ stored \in [config : Configs, devices : SUBSET Devices]
    /\ known \in [config : Configs, devices : SUBSET Devices]
    /\ reload \in [on : BOOLEAN, stop : SUBSET Devices, open : SUBSET Devices,
                   register : SUBSET Devices, late : BOOLEAN]
    /\ user \in [Users -> [pc : {"idle", "read", "open", "done"}, config : Configs]]
    /\ edits \in 0..MaxEdits

PoolTypes ==
    /\ pool \in Links \cup {None}
    /\ ref \in [Links -> Nat]
    /\ built \in [Links -> Configs]
    /\ link \in [Links -> {"none", "open", "closed", "stray"}]
    /\ conn \in [Holders -> Links \cup {None}]
    /\ survived \in BOOLEAN

BusTypes ==
    /\ unit \in [Links -> Nat]
    /\ bus \in [Links -> Workers \cup Users \cup {None}]
    /\ req \in [Workers \cup Users -> Requests]

TargetTypes ==
    /\ DOMAIN target = Links
    /\ \A l \in Links :
          /\ DOMAIN target[l] \subseteq Nat
          /\ \A k \in DOMAIN target[l] :
                target[l][k] \in [device : Devices, state : {"on", "gone", "refused"}]

PushTypes ==
    /\ mu \in Holders \cup {None}
    /\ TargetTypes
    /\ item \in [Links -> SUBSET [handle : Nat, device : Devices]]
    /\ next \in [Links -> Nat]
    /\ stop \in [Links -> BOOLEAN]
    /\ sub \in [Links -> {"none", "on", "off"}]
    /\ peer \in [Links -> BOOLEAN]
    /\ hand \in [Links -> {None} \cup [key : Nat, about : Devices]]
    /\ lost \in 0..MaxLost

\* The types of the variables.
TypeOK == kind \in Kinds /\ CallerTypes /\ PoolTypes /\ BusTypes /\ PushTypes

\* The pools of the Modbus and OPC UA drivers keep the promise of SharedPool: one physical
\* link while anybody holds the connection, shared by all, closed with the last holder, and
\* never a second one beside it.  The listener does not: it lets go of its socket later.
Pool == INSTANCE SharedPool WITH
            held <- [h \in Holders |-> IF kind = "listen" THEN None ELSE conn[h]],
            open <- {l \in Links : kind # "listen" /\ link[l] = "open"}

RefinesPool == Pool!Spec

\* Devices with different unit IDs share one handler whose unit ID is a field: a request
\* goes out with the unit ID of its own device, whoever else uses the line (modbus.go:451).
AnswersAreOwn ==
    \A t \in Workers \cup Users :
       req[t] # None /\ req[t].selected => unit[req[t].link] = req[t].unit

\* Between reloads and in one, the devices that are open use a connection made with the
\* configuration the reload read, and in the pool's entry no target is left of a device
\* that was stopped: unless a one-shot user held the connection through a restart, which
\* the pool then finds and does not compare (modbus.go:130, opcua.go:283).
FreshAfterRestart ==
    ~survived =>
       /\ \A d \in Opened \ reload.stop : built[conn[d]] = known.config
       /\ reload.stop = {} /\ Opened # {} =>
             \A k \in DOMAIN target[pool] : target[pool][k].state # "gone"

\* A notification is handed to the device its item was monitored for, as long as no answer
\* of the server was lost (opcua.go:650: the handles of such an answer are given again); and
\* none is handed on after the session was closed (opcua.go:312-324).
NotificationsAreSound ==
    \A l \in Links :
       /\ lost = 0 /\ hand[l] # None => target[l][hand[l].key].device = hand[l].about
       /\ link[l] = "closed" => sub[l] # "on" /\ (kind = "opcua" => hand[l] = None)

\* A Close that waits for the dispatcher holds the lock of all OPC UA connections: it ends.
ReleaseEnds == mu # None ~> mu = None
=============================================================================

------------------------------ MODULE Sparkplug -----------------------------
(***************************************************************************)
(* The Sparkplug B output (sparkplugb.go): the births and deaths of the    *)
(* node and its devices, which declare an alias for each point, and the    *)
(* points that are sent under these aliases.  Births are sent by a         *)
(* goroutine of its own after every connection and by the threads that     *)
(* report devices; points by the goroutine of the slot.  None of them      *)
(* holds the output's lock while it sends.                                 *)
(***************************************************************************)
EXTENDS Naturals, FiniteSets

CONSTANTS
    Devices,     \* devices
    Names,       \* names of points
    Notifiers,   \* threads that report devices as online and offline
    Sequence,    \* the thread of birthSequence (birthMu admits one)
    None,        \* no device, no alias
    MaxConnects, \* bound: connections of a behaviour
    MaxNotices,  \* bound: reports of a behaviour
    MaxEdits,    \* bound: edits of the devices' points
    MaxPoints    \* bound: points of a behaviour

Threads == Notifiers \cup {Sequence}

VARIABLES
    connection, \* "up", "down", or "off" after the client was disconnected
    closed,     \* Close has been called
    stored,     \* the points of each device in the database
    bornAll,    \* the node is born
    born,       \* devices that are born
    meta,       \* the alias of each point that was declared
    waiting,    \* birthSequence calls that have not begun
    births,     \* the devices birthSequence has read and not yet treated, or None
    task,       \* what each thread does
    slot,       \* the point that is being sent
    saved,      \* points in the durable queue
    host,       \* what the other side got: declarations, and devices shown as born
    raced,      \* history: devices that two threads worked on at the same time
    unsent,     \* history: devices with a birth or a death that could not be sent
    unresolved, \* history: an alias arrived that no birth had declared
    dropped,    \* history: a point was neither sent nor saved
    count       \* what the bounds count

birthVars == <<bornAll, born, meta, waiting, births, task>>
sparkVars == <<connection, closed, stored, birthVars, slot, saved, host, raced, unsent, unresolved,
               dropped, count>>

Free == [pc |-> "idle", dev |-> None, points |-> {}]
NoPoint == [dev |-> None, name |-> None, alias |-> None]
Count(what) == count' = [count EXCEPT ![what] = @ + 1]

\* A thread begins to work on a device, on which another one may be at work.
Begins(t, pc, d, points) ==
    /\ task[t] = Free
    /\ task' = [task EXCEPT ![t] = [pc |-> pc, dev |-> d, points |-> points]]
    /\ raced' = IF \E u \in Threads : task[u].dev = d THEN raced \cup {d} ELSE raced

Goes(t, pc) == task' = [task EXCEPT ![t].pc = pc]
Done(t) == task' = [task EXCEPT ![t] = Free]

-----------------------------------------------------------------------------
(* birthSequence and sendDeviceBirth.                                        *)

\* OnConnect starts a goroutine.
OnConnect ==
    /\ connection = "down"
    /\ count.connects < MaxConnects /\ Count("connects")
    /\ connection' = "up"
    /\ waiting' = waiting + 1
    /\ UNCHANGED <<closed, stored, bornAll, born, meta, births, task, slot, saved, host, raced,
                   unsent, unresolved, dropped>>

Outage ==
    /\ connection = "up" /\ connection' = "down"
    /\ UNCHANGED <<closed, stored, birthVars, slot, saved, host, raced, unsent, unresolved, dropped,
                   count>>

\* The lock is taken and the devices are read, which may fail; the node's own messages may
\* fail, and are not sent again.
BirthSequence ==
    /\ waiting > 0 /\ births = None
    /\ waiting' = waiting - 1
    /\ births' \in {[d \in {e \in Devices : stored[e] # {}} |-> stored[d]], <<>>}
    /\ UNCHANGED <<connection, closed, stored, bornAll, born, meta, task, slot, saved, host, raced,
                   unsent, unresolved, dropped, count>>

NodeBorn ==
    /\ births # None /\ ~bornAll
    /\ bornAll' = TRUE
    /\ UNCHANGED <<connection, closed, stored, born, meta, waiting, births, task, slot, saved, host,
                   raced, unsent, unresolved, dropped, count>>

\* One device after the other, with the points that were read.
NextBirth ==
    /\ births # None /\ bornAll
    /\ \E d \in DOMAIN births :
          /\ Begins(Sequence, "declare", d, births[d])
          /\ births' = [e \in DOMAIN births \ {d} |-> births[e]]
    /\ UNCHANGED <<connection, closed, stored, bornAll, born, meta, waiting, slot, saved, host,
                   unsent, unresolved, dropped, count>>

SequenceEnds ==
    /\ births # None /\ bornAll
    /\ DOMAIN births = {} /\ task[Sequence] = Free
    /\ births' = None
    /\ UNCHANGED <<connection, closed, stored, bornAll, born, meta, waiting, task, slot, saved, host,
                   raced, unsent, unresolved, dropped, count>>

AliasOf(m, d, n) == (CHOOSE a \in m : a.dev = d /\ a.name = n).alias
Known(m, d, n) == \E a \in m : a.dev = d /\ a.name = n

\* The points get aliases: one they have had, or a new one.
WithAliases(d, names) ==
    LET new   == {n \in names : ~Known(meta, d, n)}
        given == CHOOSE f \in [new -> Cardinality(meta) + 1 .. Cardinality(meta) + Cardinality(new)] :
                    \A m, n \in new : f[m] = f[n] => m = n
    IN meta \cup {[dev |-> d, name |-> n, alias |-> given[n]] : n \in new}

\* sendDeviceBirth, under the lock: nothing to do for a device that is born.
Declare(t) ==
    LET d == task[t].dev IN
    /\ task[t].pc = "declare"
    /\ IF d \in born
         THEN Done(t) /\ UNCHANGED meta
         ELSE /\ Goes(t, "birth")
              /\ meta' = WithAliases(d, task[t].points)
    /\ UNCHANGED <<connection, closed, stored, bornAll, born, waiting, births, slot, saved, host, raced,
                   unsent, unresolved, dropped, count>>

Birth(t) ==
    LET d == task[t].dev
        told == [host EXCEPT !.shows = @ \cup {d},
                             !.declared = @ \cup {a \in meta : a.dev = d /\ a.name \in task[t].points}]
    IN
    /\ task[t].pc = "birth"
    /\ \/ connection = "up" /\ host' = told /\ Goes(t, "mark") /\ UNCHANGED unsent
       \/ connection # "up" /\ host' \in {host, told} /\ Done(t) /\ unsent' = unsent \cup {d}
    /\ UNCHANGED <<connection, closed, stored, bornAll, born, meta, waiting, births, slot, saved,
                   raced, unresolved, dropped, count>>

MarkBorn(t) ==
    /\ task[t].pc = "mark"
    /\ born' = born \cup {task[t].dev}
    /\ Done(t)
    /\ UNCHANGED <<connection, closed, stored, bornAll, meta, waiting, births, slot, saved, host,
                   raced, unsent, unresolved, dropped, count>>

-----------------------------------------------------------------------------
(* DeviceOnline and DeviceOffline.                                           *)

\* A device that is born needs no birth; before the node's birth there is none.
DeviceOnline(t, d) ==
    /\ count.notices < MaxNotices /\ Count("notices")
    /\ bornAll /\ d \notin born
    /\ Begins(t, "read", d, {})
    /\ UNCHANGED <<connection, closed, stored, bornAll, born, meta, waiting, births, slot, saved,
                   host, unsent, unresolved, dropped>>

GetDevice(t) ==
    /\ task[t].pc = "read"
    /\ \/ task' = [task EXCEPT ![t].pc = "declare", ![t].points = stored[task[t].dev]]
       \/ Done(t)
    /\ UNCHANGED <<connection, closed, stored, bornAll, born, meta, waiting, births, slot, saved,
                   host, raced, unsent, unresolved, dropped, count>>

\* Mutant: the device stays born.
MForgotten(d) == born

Forgotten(d) == born \ {d}

DeviceOffline(t, d) ==
    /\ count.notices < MaxNotices /\ Count("notices")
    /\ Begins(t, "death", d, {})
    /\ born' = Forgotten(d)
    /\ UNCHANGED <<connection, closed, stored, bornAll, meta, waiting, births, slot, saved, host,
                   unsent, unresolved, dropped>>

Death(t) ==
    LET d == task[t].dev
        told == [host EXCEPT !.shows = @ \ {d}] IN
    /\ task[t].pc = "death"
    /\ \/ connection = "up" /\ host' = told /\ UNCHANGED unsent
       \/ connection # "up" /\ host' \in {host, told} /\ unsent' = unsent \cup {d}
    /\ Done(t)
    /\ UNCHANGED <<connection, closed, stored, bornAll, born, meta, waiting, births, slot, saved,
                   raced, unresolved, dropped, count>>

-----------------------------------------------------------------------------
(* Publish and Close.                                                        *)

\* A point of a device that is born goes out under its alias, or by its name when it has
\* none; the others are saved.
Publish(d, n, replayed) ==
    /\ ~closed /\ slot = NoPoint
    /\ IF bornAll /\ d \in born
         THEN /\ slot' = [dev |-> d, name |-> n,
                          alias |-> IF Known(meta, d, n) THEN AliasOf(meta, d, n) ELSE None]
              /\ saved' = saved \ replayed
         ELSE slot' = slot /\ saved' = (saved \ replayed) \cup {[dev |-> d, name |-> n]}
    /\ UNCHANGED <<connection, closed, stored, birthVars, host, raced, unsent, unresolved, dropped>>

Collect(d, n) ==
    /\ count.points < MaxPoints /\ Count("points")
    /\ n \in stored[d]
    /\ Publish(d, n, {})

\* BackfillHealthy.
Healthy == connection = "up" /\ bornAll

Replay == \E r \in saved : Healthy /\ Publish(r.dev, r.name, {r}) /\ UNCHANGED count

\* The point is sent.  A failure is returned, and logged by the slot: it is not saved.
Send ==
    /\ slot # NoPoint
    /\ slot' = NoPoint
    /\ \/ /\ connection = "up"
          /\ unresolved' = (unresolved \/ /\ slot.alias # None /\ slot.dev \notin raced \cup unsent
                                          /\ slot \notin host.declared)
          /\ UNCHANGED dropped
       \/ connection # "up" /\ dropped' = TRUE /\ UNCHANGED unresolved
    /\ UNCHANGED <<connection, closed, stored, birthVars, saved, host, raced, unsent, count>>

\* Close takes leave and disconnects, when there is a connection; otherwise the client goes
\* on trying, and is born again when it succeeds.
Close ==
    /\ ~closed /\ slot = NoPoint
    /\ closed' = TRUE
    /\ connection' = IF connection = "up" THEN "off" ELSE connection
    /\ UNCHANGED <<stored, birthVars, slot, saved, host, raced, unsent, unresolved, dropped, count>>

\* The points of a device are edited.
EditDevice(d, names) ==
    /\ count.edits < MaxEdits /\ Count("edits")
    /\ stored' = [stored EXCEPT ![d] = names]
    /\ UNCHANGED <<connection, closed, birthVars, slot, saved, host, raced, unsent, unresolved,
                   dropped>>

-----------------------------------------------------------------------------
SparkInit ==
    /\ connection = "down" /\ closed = FALSE
    /\ stored \in [Devices -> (SUBSET Names) \ {{}}]
    /\ bornAll = FALSE /\ born = {} /\ meta = {}
    /\ waiting = 0 /\ births = None
    /\ task = [t \in Threads |-> Free]
    /\ slot = NoPoint /\ saved = {}
    /\ host = [declared |-> {}, shows |-> {}]
    /\ raced = {} /\ unsent = {} /\ unresolved = FALSE /\ dropped = FALSE
    /\ count = [connects |-> 0, notices |-> 0, edits |-> 0, points |-> 0]

SparkNext ==
    \/ OnConnect \/ Outage \/ Close
    \/ BirthSequence \/ NodeBorn \/ NextBirth \/ SequenceEnds
    \/ \E t \in Threads : Declare(t) \/ Birth(t) \/ MarkBorn(t) \/ GetDevice(t) \/ Death(t)
    \/ \E t \in Notifiers, d \in Devices : DeviceOnline(t, d) \/ DeviceOffline(t, d)
    \/ \E d \in Devices, n \in Names : Collect(d, n)
    \/ \E d \in Devices, names \in SUBSET Names : EditDevice(d, names)
    \/ Replay \/ Send

SparkSpec == SparkInit /\ [][SparkNext]_sparkVars
-----------------------------------------------------------------------------
(* Properties *)

Declarations == [dev : Devices, name : Names, alias : Nat]

\* The types of the variables; no two points ever share an alias.
SparkTypeOK ==
    /\ connection \in {"up", "down", "off"} /\ closed \in BOOLEAN
    /\ stored \in [Devices -> SUBSET Names]
    /\ bornAll \in BOOLEAN /\ born \subseteq Devices
    /\ meta \subseteq Declarations
    /\ \A a, b \in meta : a.alias = b.alias => a = b
    /\ waiting \in 0..MaxConnects
    /\ births = None \/ \A d \in DOMAIN births : d \in Devices /\ births[d] \subseteq Names
    /\ \A t \in Threads :
          /\ task[t].pc \in {"idle", "read", "declare", "birth", "mark", "death"}
          /\ task[t].dev \in Devices \cup {None} /\ task[t].points \subseteq Names
    /\ slot = NoPoint \/ slot.dev \in Devices
    /\ saved \subseteq [dev : Devices, name : Names]
    /\ host.declared \subseteq Declarations /\ host.shows \subseteq Devices

\* What the other side knows is right, whichever threads are sending.  An alias never arrives
\* before a birth of the device has declared it.  When nobody works on a device, it is shown
\* alive exactly if the output takes it for born.  Two threads that treat a device at once
\* break both - the second birth gives aliases that the first one did not declare, and the
\* mark of a birth may come after a death (sparkplugb.go:188-265) - and so does a birth or a
\* death that could not be sent.
HostViewIsRight ==
    /\ ~unresolved
    /\ \A d \in Devices \ (raced \cup unsent) :
          (\A t \in Threads : task[t].dev # d) => (d \in born <=> d \in host.shows)

\* docs/sparkplugb.md:120: what is published while not connected is saved.  Expected to fail:
\* only the devices that are not born are, and a device stays born when the connection goes.
DisconnectedIsSaved == ~dropped
=============================================================================

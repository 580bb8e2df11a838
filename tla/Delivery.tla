------------------------------- MODULE Delivery -------------------------------
(***************************************************************************)
(* From the pipeline to the brokers: the fan-out, the slots of the active  *)
(* outputs with their publishing goroutines, hot reload, the durable queue *)
(* and its replay (internal/output/manager.go, buildset.go, backfill), and *)
(* an output that sends each point at once (internal/output/mqtt).         *)
(*                                                                         *)
(* Every output that is registered supports backfill, and main wires it.   *)
(* Alerts, which have a channel of their own, are not part of this module. *)
(***************************************************************************)
EXTENDS Backfill

CONSTANTS
    Slots,       \* slot objects; one that nothing refers to is used again
    Publishers,  \* goroutines that call Publish: the pipeline, the window flusher
    Reloaders,   \* goroutines that call Reload: main, then the API handlers
    Main,        \* the one that also calls Close
    ChCap,       \* queueSize
    Batch,       \* replayBatch
    Settings,    \* bound: what an edit may make of an output
    Troubles     \* bound: edits, calls of Close and faults (outages, errors of the
                 \* database, crashes) of a behaviour

ASSUME DeliveryAssumption ==
    /\ Outputs # {}
    /\ ChCap \in Nat \ {0}
    /\ Batch \in Nat \ {0}
    /\ Settings \subseteq {"enabled", "disabled", "absent"}
    /\ Troubles \in Nat
    /\ Main \in Reloaders

VARIABLES
    config,      \* each output in the database: "enabled", "disabled" or "absent"
    up,          \* the outputs whose broker is connected
    active,      \* Manager.slots
    owner,       \* the output of each slot
    phase,       \* each slot: "free", "on", "stopping" (done is closed), "exited" (its
                 \* goroutine), "closed" (its output)
    ch,          \* each slot's queue of entries
    hand,        \* the entry each publishing goroutine is sending, as a set
    fan,         \* each publisher: the point it fans out and the slots still to serve
    replay,      \* the replay goroutine
    job,         \* each reloader
    closing,     \* Close was called
    unpublished, \* points still to be published
    accepted,    \* history: each output's points that Publish handed to a slot or saved
    sent,        \* history: each output's points that reached the broker
    lost,        \* history: the entries that were given up, with the cause
    reloads,     \* edits and calls of Close so far
    faults       \* faults so far

slotVars    == <<owner, phase, ch, hand>>
historyVars == <<accepted, sent, lost>>
vars == <<queue, config, up, active, slotVars, fan, replay, job, closing, unpublished,
          historyVars, reloads, faults>>

\* Where a thread is, with its local variables.
Idle              == [pc |-> "idle"]
Fanning(dp, todo) == [pc |-> "fan", dp |-> dp, todo |-> todo]
Scanning(todo)    == [pc |-> "scan", todo |-> todo]
Putting(todo, s, items, acked) ==
    [pc |-> "put", todo |-> todo, slot |-> s, items |-> items, acked |-> acked]
Building          == [pc |-> "build"]
Swapping(new)     == [pc |-> "swap", new |-> new]
Stopping(todo, gone)   == [pc |-> "stop", todo |-> todo, gone |-> gone]
Waiting(s, todo, gone) == [pc |-> "wait", slot |-> s, todo |-> todo, gone |-> gone]

\* A point that goes through a slot, and whether it comes from the durable queue.
Entry == [dp : Points, replayed : BOOLEAN]

Entries(s) == {ch[s][i] : i \in DOMAIN ch[s]} \cup hand[s]
Live(s)    == phase[s] \in {"on", "stopping"}

PointsOf(S) == {e.dp : e \in S}

\* The points that the goroutine of a slot has still to send.
InFlight(s) == IF Live(s) THEN PointsOf(Entries(s)) ELSE {}

Gone(o, dps, cause) == [output : {o}, dp : dps, cause : {cause}]

\* What is lost when entries remain in the queue of a slot that has stopped.
Abandoned(o, S) ==
    Gone(o, {e.dp : e \in {e \in S : ~e.replayed}}, "stopped")
    \cup Gone(o, {e.dp : e \in {e \in S : e.replayed}}, "stopped after replay")

Trouble == reloads + faults < Troubles

\* main starts the pipeline and the HTTP server once its own Reload has returned.
Started == job[Main] = Idle \/ closing

Fault == Trouble /\ faults' = faults + 1

\* saveBackfill: the point is saved, evicting the oldest rows, or the database fails.
SaveOrLose(o, dp) ==
    \/ \E gone \in SUBSET (Mine(o) \cup Inserted(o, <<dp>>)) :
          /\ Save(o, <<dp>>, gone)
          /\ lost' = lost \cup Gone(o, PointsOf(gone), "evicted")
          /\ UNCHANGED faults
    \/ /\ Fault
       /\ lost' = lost \cup Gone(o, {dp}, "not saved")
       /\ UNCHANGED queue

-----------------------------------------------------------------------------
(* Publish: the slots are read under the lock and served without it; a slot  *)
(* whose queue is full has the point saved.                                  *)

Publish(p, dp) ==
    /\ Started
    /\ fan[p] = Idle
    /\ dp \in unpublished
    /\ unpublished' = unpublished \ {dp}
    /\ fan' = [fan EXCEPT ![p] = Fanning(dp, active)]
    /\ UNCHANGED <<queue, config, up, active, slotVars, replay, job, closing, historyVars,
                   reloads, faults>>

\* Mutant: one entry too many.
MHasRoom(s) == Len(ch[s]) <= ChCap

HasRoom(s) == Len(ch[s]) < ChCap

\* Put an entry into a slot's queue.  Nothing takes it out of the queue of a slot whose
\* goroutine has exited.
Put(s, e) ==
    /\ ch' = [ch EXCEPT ![s] = Append(@, e)]
    /\ lost' = IF Live(s) THEN lost ELSE lost \cup Abandoned(owner[s], {e})

\* Mutant: Publish waits for room in the slot's queue.
MFanOut(p, s) ==
    /\ HasRoom(s)
    /\ Put(s, [dp |-> fan[p].dp, replayed |-> FALSE])
    /\ UNCHANGED <<queue, faults>>

FanOut(p, s) ==
    \/ /\ HasRoom(s)
       /\ Put(s, [dp |-> fan[p].dp, replayed |-> FALSE])
       /\ UNCHANGED <<queue, faults>>
    \/ /\ ~HasRoom(s)
       /\ SaveOrLose(owner[s], fan[p].dp)
       /\ UNCHANGED ch

PublishTo(p, s) ==
    /\ fan[p].pc = "fan"
    /\ s \in fan[p].todo
    /\ FanOut(p, s)
    /\ accepted' = [accepted EXCEPT ![owner[s]] = @ \cup {fan[p].dp}]
    /\ fan' = [fan EXCEPT ![p] = Fanning(fan[p].dp, fan[p].todo \ {s})]
    /\ UNCHANGED <<config, up, active, owner, phase, hand, replay, job, closing, unpublished,
                   sent, reloads>>

PublishReturns(p) ==
    /\ fan[p].pc = "fan"
    /\ fan[p].todo = {}
    /\ fan' = [fan EXCEPT ![p] = Idle]
    /\ UNCHANGED <<queue, config, up, active, slotVars, replay, job, closing, unpublished,
                   historyVars, reloads, faults>>

-----------------------------------------------------------------------------
(* The publishing goroutine of a slot.                                       *)

Take(s) ==
    /\ Live(s)
    /\ hand[s] = {}
    /\ ch[s] # <<>>
    /\ hand' = [hand EXCEPT ![s] = {Head(ch[s])}]
    /\ ch' = [ch EXCEPT ![s] = Tail(@)]
    /\ UNCHANGED <<queue, config, up, active, owner, phase, fan, replay, job, closing,
                   unpublished, historyVars, reloads, faults>>

SendFails(s, e) == SaveOrLose(owner[s], e.dp)

\* publishNow: with the broker unreachable the wait for it times out and the point is saved.
\* That the client library may still deliver it later is left out: the point is sent twice.
Send(s) ==
    \E e \in hand[s] :
        /\ hand' = [hand EXCEPT ![s] = {}]
        /\ \/ /\ owner[s] \in up
              /\ sent' = [sent EXCEPT ![owner[s]] = @ \cup {e.dp}]
              /\ UNCHANGED <<queue, lost, faults>>
           \/ /\ owner[s] \notin up
              /\ SendFails(s, e)
              /\ UNCHANGED sent
        /\ UNCHANGED <<config, up, active, owner, phase, ch, fan, replay, job, closing,
                       unpublished, accepted, reloads>>

SlotExits(s) ==
    /\ phase[s] = "stopping"
    /\ hand[s] = {}
    /\ phase' = [phase EXCEPT ![s] = "exited"]
    /\ lost' = lost \cup Abandoned(owner[s], Entries(s))
    /\ UNCHANGED <<queue, config, up, active, owner, ch, hand, fan, replay, job, closing,
                   unpublished, accepted, sent, reloads, faults>>

-----------------------------------------------------------------------------
(* The replay goroutine: the oldest rows of every healthy output are put     *)
(* into the queue of its slot, and those that found room are deleted.        *)

\* A tick may still win against Close, which then waits for the replay to end.
ReplayTick ==
    /\ replay = Idle
    /\ closing => job[Main].pc = "close"
    /\ replay' = Scanning(active)
    /\ UNCHANGED <<queue, config, up, active, slotVars, fan, job, closing, unpublished,
                   historyVars, reloads, faults>>

Healthy(s) == owner[s] \in up /\ phase[s] # "closed"

ReplayPeek(s) ==
    /\ replay.pc = "scan"
    /\ s \in replay.todo
    /\ LET todo == replay.todo \ {s}
       IN  replay' = IF Healthy(s) /\ Mine(owner[s]) # {}
                        THEN Putting(todo, s, Peek(owner[s], Batch), {})
                        ELSE Scanning(todo)
    /\ UNCHANGED <<queue, config, up, active, slotVars, fan, job, closing, unpublished,
                   historyVars, reloads, faults>>

\* Mutant: the rows were read without ORDER BY.
MOldest(items) == items

Oldest(items) == {r \in items : \A i \in items : r.id <= i.id}

ReplayPut ==
    /\ replay.pc = "put"
    /\ HasRoom(replay.slot)
    /\ \E r \in Oldest(replay.items) :
          /\ Put(replay.slot, [dp |-> r.dp, replayed |-> TRUE])
          /\ replay' = Putting(replay.todo, replay.slot, replay.items \ {r}, replay.acked \cup {r})
    /\ UNCHANGED <<queue, config, up, active, owner, phase, hand, fan, job, closing,
                   unpublished, accepted, sent, reloads, faults>>

\* Mutant: the whole batch is acknowledged, also what found no room.
MAcked == replay.acked \cup replay.items

\* Mutant: the rows that were handed over are not acknowledged.
MNoAck == {}

Acked == replay.acked

ReplayAck ==
    /\ replay.pc = "put"
    /\ replay.items = {} \/ ~HasRoom(replay.slot)
    /\ \/ Ack(owner[replay.slot], {r.id : r \in Acked}) /\ UNCHANGED faults
       \/ Fault /\ UNCHANGED queue
    /\ replay' = Scanning(replay.todo)
    /\ UNCHANGED <<config, up, active, slotVars, fan, job, closing, unpublished,
                   historyVars, reloads>>

ReplayReturns ==
    /\ replay.pc = "scan"
    /\ replay.todo = {}
    /\ replay' = Idle
    /\ UNCHANGED <<queue, config, up, active, slotVars, fan, job, closing, unpublished,
                   historyVars, reloads, faults>>

-----------------------------------------------------------------------------
(* Reload, by several goroutines at once: an API handler edits the table of  *)
(* outputs, builds what it then reads there, swaps it in, and stops what it  *)
(* swapped out.  Only the swap is under the lock.                            *)

Edit(r, o, c) ==
    /\ Started /\ ~closing
    /\ r # Main /\ job[r] = Idle
    /\ Trouble
    /\ reloads' = reloads + 1
    /\ config' = [config EXCEPT ![o] = c]
    /\ job' = [job EXCEPT ![r] = Building]
    /\ UNCHANGED <<queue, up, active, slotVars, fan, replay, closing, unpublished,
                   historyVars, faults>>

Enabled == {o \in Outputs : config[o] = "enabled"}

\* Slots that an unfinished fan-out or replay still refers to.
Held == (UNION {fan[p].todo : p \in {p \in Publishers : fan[p].pc = "fan"}})
        \cup (IF replay.pc = "idle" THEN {} ELSE replay.todo)
        \cup (IF replay.pc = "put" THEN {replay.slot} ELSE {})

Available == {s \in Slots : phase[s] \in {"free", "closed"}} \ Held

\* The ways to give each output a slot of its own.
Assignments(built) ==
    {f \in [built -> Available] : \A o, q \in built : f[o] = f[q] => o = q}

\* An output that cannot be built is left out; if that leaves none of the enabled ones, the
\* reload fails and changes nothing.
Build(r) ==
    /\ job[r].pc = "build"
    /\ \E built \in SUBSET Enabled :
          \/ /\ built = {} /\ Enabled # {}
             /\ job' = [job EXCEPT ![r] = Idle]
             /\ UNCHANGED slotVars
          \/ /\ built # {} \/ Enabled = {}
             /\ Assignments(built) # {}
             /\ LET f   == CHOOSE g \in Assignments(built) : TRUE
                    new == {f[o] : o \in built}
                IN  /\ owner' = [s \in Slots |-> IF s \in new
                                    THEN CHOOSE o \in built : f[o] = s ELSE owner[s]]
                    /\ phase' = [s \in Slots |-> IF s \in new THEN "on" ELSE phase[s]]
                    /\ ch'    = [s \in Slots |-> IF s \in new THEN <<>> ELSE ch[s]]
                    /\ hand'  = [s \in Slots |-> IF s \in new THEN {} ELSE hand[s]]
                    /\ job'   = [job EXCEPT ![r] = Swapping(new)]
    /\ UNCHANGED <<queue, config, up, active, fan, replay, closing, unpublished,
                   historyVars, reloads, faults>>

OutputsOf(S) == {owner[s] : s \in S}

\* The slots that Reload swaps out.
Old(r) == active

Swap(r) ==
    /\ job[r].pc = "swap"
    /\ active' = job[r].new
    /\ job' = [job EXCEPT ![r] = Stopping(Old(r), OutputsOf(Old(r)) \ OutputsOf(job[r].new))]
    /\ UNCHANGED <<queue, config, up, slotVars, fan, replay, closing, unpublished,
                   historyVars, reloads, faults>>

\* slot.stop: close done, wait for the goroutine, close the output.
Stop(r, s) ==
    /\ job[r].pc = "stop"
    /\ s \in job[r].todo
    /\ phase' = [phase EXCEPT ![s] = "stopping"]
    /\ job' = [job EXCEPT ![r] = Waiting(s, job[r].todo \ {s}, job[r].gone)]
    /\ UNCHANGED <<queue, config, up, active, owner, ch, hand, fan, replay, closing,
                   unpublished, historyVars, reloads, faults>>

\* Mutant: the output is closed without waiting for the slot's goroutine.
MMayClose(s) == TRUE

MayClose(s) == phase[s] = "exited"

CloseOutput(r) ==
    /\ job[r].pc = "wait"
    /\ MayClose(job[r].slot)
    /\ phase' = [phase EXCEPT ![job[r].slot] = "closed"]
    /\ job' = [job EXCEPT ![r] = Stopping(job[r].todo, job[r].gone)]
    /\ UNCHANGED <<queue, config, up, active, owner, ch, hand, fan, replay, closing,
                   unpublished, historyVars, reloads, faults>>

Stopped(r) == job[r].pc = "stop" /\ job[r].todo = {}

DropRemoved(r, o) ==
    /\ Stopped(r)
    /\ o \in job[r].gone
    /\ \/ /\ DropOutput(o)
          /\ lost' = lost \cup Gone(o, PointsOf(Mine(o)), "dropped")
          /\ UNCHANGED faults
       \/ Fault /\ UNCHANGED <<queue, lost>>
    /\ job' = [job EXCEPT ![r] = Stopping({}, job[r].gone \ {o})]
    /\ UNCHANGED <<config, up, active, slotVars, fan, replay, closing, unpublished,
                   accepted, sent, reloads>>

ReloadReturns(r) ==
    /\ Stopped(r)
    /\ job[r].gone = {}
    /\ r = Main => ~closing
    /\ job' = [job EXCEPT ![r] = Idle]
    /\ UNCHANGED <<queue, config, up, active, slotVars, fan, replay, closing, unpublished,
                   historyVars, reloads, faults>>

-----------------------------------------------------------------------------
(* Close at the end of main, the end of the process, and the next start,     *)
(* which finds the database as it was left and calls Reload.                 *)

CloseBegins ==
    /\ job[Main] = Idle
    /\ Trouble
    /\ reloads' = reloads + 1
    /\ closing' = TRUE
    /\ job' = [job EXCEPT ![Main] = [pc |-> "close"]]
    /\ UNCHANGED <<queue, config, up, active, slotVars, fan, replay, unpublished,
                   historyVars, faults>>

CloseSwaps ==
    /\ job[Main].pc = "close"
    /\ replay = Idle
    /\ active' = {}
    /\ job' = [job EXCEPT ![Main] = Stopping(active, {})]
    /\ UNCHANGED <<queue, config, up, slotVars, fan, replay, closing, unpublished,
                   historyVars, reloads, faults>>

Restart ==
    /\ active' = {}
    /\ phase' = [s \in Slots |-> "free"]
    /\ ch' = [s \in Slots |-> <<>>]
    /\ hand' = [s \in Slots |-> {}]
    /\ lost' = lost \cup UNION {Gone(owner[s], InFlight(s), "exit") : s \in Slots}
    /\ fan' = [p \in Publishers |-> Idle]
    /\ replay' = Idle
    /\ job' = [r \in Reloaders |-> IF r = Main THEN Building ELSE Idle]
    /\ closing' = FALSE
    /\ UNCHANGED <<queue, config, up, owner, unpublished, accepted, sent, reloads>>

Exit ==
    /\ closing
    /\ Stopped(Main)
    /\ Restart
    /\ UNCHANGED faults

Crash == Fault /\ Restart

Outage(o) ==
    /\ Fault
    /\ o \in up
    /\ up' = up \ {o}
    /\ UNCHANGED <<queue, config, active, slotVars, fan, replay, job, closing, unpublished,
                   historyVars, reloads>>

Reconnect(o) ==
    /\ up' = up \cup {o}
    /\ UNCHANGED <<queue, config, active, slotVars, fan, replay, job, closing, unpublished,
                   historyVars, reloads, faults>>

-----------------------------------------------------------------------------
Init ==
    /\ QueueInit
    /\ config = [o \in Outputs |-> "enabled"]
    /\ up = {}
    /\ active = {}
    /\ owner = [s \in Slots |-> CHOOSE o \in Outputs : TRUE]
    /\ phase = [s \in Slots |-> "free"]
    /\ ch = [s \in Slots |-> <<>>]
    /\ hand = [s \in Slots |-> {}]
    /\ fan = [p \in Publishers |-> Idle]
    /\ replay = Idle
    /\ job = [r \in Reloaders |-> IF r = Main THEN Building ELSE Idle]
    /\ closing = FALSE
    /\ unpublished = Points
    /\ accepted = [o \in Outputs |-> {}]
    /\ sent = [o \in Outputs |-> {}]
    /\ lost = {}
    /\ reloads = 0
    /\ faults = 0

Fan(p) == PublishReturns(p) \/ \E s \in Slots : PublishTo(p, s)

SlotNext(s) == Take(s) \/ Send(s) \/ SlotExits(s)

ReplayNext ==
    \/ ReplayTick
    \/ \E s \in Slots : ReplayPeek(s)
    \/ ReplayPut \/ ReplayAck \/ ReplayReturns

Reload(r) ==
    \/ Build(r) \/ Swap(r)
    \/ \E s \in Slots : Stop(r, s)
    \/ CloseOutput(r)
    \/ \E o \in Outputs : DropRemoved(r, o)
    \/ ReloadReturns(r)

Environment ==
    \/ \E p \in Publishers, dp \in Points : Publish(p, dp)
    \/ \E r \in Reloaders, o \in Outputs, c \in Settings : Edit(r, o, c)
    \/ CloseBegins
    \/ Crash
    \/ \E o \in Outputs : Outage(o) \/ Reconnect(o)

Next ==
    \/ Environment
    \/ \E p \in Publishers : Fan(p)
    \/ \E s \in Slots : SlotNext(s)
    \/ ReplayNext
    \/ \E r \in Reloaders : Reload(r)
    \/ CloseSwaps \/ Exit

\* The goroutines run: every wait in them is for another goroutine's lock or has a timeout
\* (mqttutil.PublishTimeout), and the replay has a ticker.
Fairness ==
    /\ \A p \in Publishers : WF_vars(Fan(p))
    /\ \A s \in Slots : WF_vars(SlotNext(s))
    /\ WF_vars(ReplayNext)
    /\ \A r \in Reloaders : WF_vars(Reload(r))
    /\ WF_vars(CloseSwaps \/ Exit)

Spec == Init /\ [][Next]_vars /\ Fairness

-----------------------------------------------------------------------------
Causes == {"stopped", "stopped after replay", "evicted", "not saved", "dropped", "exit"}

JobType ==
    {Idle, Building, [pc |-> "close"]}
    \cup [pc : {"swap"}, new : SUBSET Slots]
    \cup [pc : {"stop"}, todo : SUBSET Slots, gone : SUBSET Outputs]
    \cup [pc : {"wait"}, slot : Slots, todo : SUBSET Slots, gone : SUBSET Outputs]

FanType == {Idle} \cup [pc : {"fan"}, dp : Points, todo : SUBSET Slots]

ReplayType ==
    {Idle}
    \cup [pc : {"scan"}, todo : SUBSET Slots]
    \cup [pc : {"put"}, todo : SUBSET Slots, slot : Slots, items : SUBSET Row,
          acked : SUBSET Row]

SlotsTypeOK ==
    /\ active \subseteq Slots
    /\ owner \in [Slots -> Outputs]
    /\ phase \in [Slots -> {"free", "on", "stopping", "exited", "closed"}]
    /\ ch \in [Slots -> Seq(Entry)]
    /\ \A s \in Slots : Len(ch[s]) <= ChCap
    /\ hand \in [Slots -> SUBSET Entry]

ThreadsTypeOK ==
    /\ fan \in [Publishers -> FanType]
    /\ replay \in ReplayType
    /\ job \in [Reloaders -> JobType]
    /\ closing \in BOOLEAN

HistoryTypeOK ==
    /\ unpublished \subseteq Points
    /\ accepted \in [Outputs -> SUBSET Points]
    /\ sent \in [Outputs -> SUBSET Points]
    /\ lost \subseteq [output : Outputs, dp : Points, cause : Causes]
    /\ reloads \in Nat /\ faults \in Nat

TypeOK ==
    /\ QueueTypeOK
    /\ config \in [Outputs -> {"enabled", "disabled", "absent"}]
    /\ up \subseteq Outputs
    /\ SlotsTypeOK
    /\ ThreadsTypeOK
    /\ HistoryTypeOK

\* The points of o that are still to be sent: in the queue of a slot whose goroutine runs, in
\* that goroutine's hand, or durable.
Pending(o) ==
    (UNION {InFlight(s) : s \in {s \in Slots : owner[s] = o}}) \cup PointsOf(Mine(o))

GivenUp(o) == PointsOf({l \in lost : l.output = o})

\* No point disappears: one that Publish accepted for an output was sent, is pending, or was
\* given up for a cause that the code logs or documents - whatever reloads, replays and
\* restarts come between, and with the acknowledgment of a replayed row coming long after the
\* row was read.
NothingVanishes == \A o \in Outputs : accepted[o] \subseteq sent[o] \cup Pending(o) \cup GivenUp(o)

\* An acknowledgment deletes the rows that were read, and no other row that took their ids,
\* though the queue was evicted, dropped and saved to since it was read.
AckIsExact ==
    replay.pc = "put" =>
        \A read \in replay.items \cup replay.acked, r \in rows : r.id = read.id => r = read

\* The rows of an output are replayed oldest first (docs/offline-backfill-design.md 2.1): none
\* is handed over while an older one stays behind, though rows were saved and evicted since
\* the batch was read, and though earlier batches broke off or were not acknowledged.
ReplayInOrder ==
    replay.pc = "put" =>
        \A done \in replay.acked, r \in Mine(owner[replay.slot]) :
            r.id < done.id => r \in replay.acked

\* Out.Publish never runs in or after Out.Close.
ClosedIsQuiet == \A s \in Slots : phase[s] \in {"exited", "closed"} => hand[s] = {}

\* No caller waits for an output: a fan-out ends though the slots it serves are stopped
\* meanwhile and take nothing any more, and a reload that has swapped stops the old outputs
\* and returns, though publishers and the replay still fill their queues.
CallersReturn ==
    /\ \A p \in Publishers : fan[p].pc = "fan" ~> fan[p] = Idle
    /\ \A r \in Reloaders : job[r].pc \in {"stop", "wait"} ~> job[r].pc \in {"idle", "build"}

\* An output that is active and connected from some time on empties its durable queue.
QueueDrains ==
    \A o \in Outputs : <>[](o \in up /\ o \in OutputsOf(active)) => []<>(Mine(o) = {})

\* An output's hot reload does not lose its queue (docs/offline-backfill-design.md 2.1; "same
\* id rebuilt continues", manager.go:91): a point that was in it is not given up since the
\* slot it was replayed to was stopped.
ReloadKeepsQueue == \A l \in lost : l.cause # "stopped after replay"
=============================================================================

------------------------------ MODULE Collector ------------------------------
(***************************************************************************)
(* The collection threads of the scheduler: the polling timer              *)
(* (internal/core/pollsched.go), the worker pool and the online/offline    *)
(* reports (internal/core/scheduler.go, internal/status/status.go), the    *)
(* data channel to the pipeline (internal/core/pipeline.go), and the       *)
(* shutdown of all of them (stopCollectors).                               *)
(*                                                                         *)
(* HotReload maintains the schedule table; here a reload only adds and     *)
(* removes entries.  What is read is abstracted to one data item per task. *)
(***************************************************************************)
EXTENDS Naturals, Sequences, FiniteSets

CONSTANTS
    Devices,    \* devices that are polled
    Pushed,     \* devices whose driver pushes
    Workers,    \* the goroutines of the pool
    Pushers,    \* goroutines of the drivers that call pushData
    Run,        \* the goroutine of Scheduler.Run
    Reopened,   \* bound: the devices that reloads open while the process runs
    QueueCap,   \* capacity of taskCh
    OutCap      \* capacity of the data channel

ASSUME CollectorAssumption ==
    /\ QueueCap \in Nat \ {0}
    /\ OutCap \in Nat \ {0}
    /\ Devices \cap Pushed = {}
    /\ Reopened \subseteq Devices \cup Pushed
    /\ Run \notin Workers \cup Pushers
    /\ Workers \cap Pushers = {}
    /\ Workers # {}   \* poolSize is 16 when it is not set (scheduler.go:82)

All     == Devices \cup Pushed
Threads == Workers \cup Pushers \cup {Run}

VARIABLES
    cancelled,   \* the process context is cancelled
    stage,       \* how far Run is in stopCollectors
    timer,       \* the timer goroutine: "on" or "exited"
    table,       \* devices with a schedule entry
    due,         \* entries collected under the lock, still to fire
    taskCh,      \* collectTasks queued for the workers
    taskClosed,  \* taskCh is closed
    panicked,    \* a send on the closed taskCh
    at,          \* where each thread is, with its local variables: the device it works for,
                 \* whether it reports it online, the status it has read
    out,         \* number of items in the data channel
    pipeline,    \* the pipeline goroutine: "on" or "exited"
    online,      \* status.Registry: the devices recorded online
    notified,    \* the last notification the outputs received of each device
    wasOnline,   \* history: devices that were recorded online at some time
    raced        \* history: devices that two threads reported at the same time

timerVars  == <<timer, due, panicked>>
queueVars  == <<taskCh, taskClosed>>
outVars    == <<out, pipeline>>
statusVars == <<online, notified, wasOnline, raced>>
vars == <<cancelled, stage, table, timerVars, queueVars, at, outVars, statusVars>>

Idle   == [pc |-> "idle"]
Exited == [pc |-> "exited"]
Reading(d)      == [pc |-> "read", dev |-> d]
Emitting(d, up) == [pc |-> "emit", dev |-> d, up |-> up]
Marking(d, up)  == [pc |-> "get", dev |-> d, up |-> up]

Goto(t, place) == at' = [at EXCEPT ![t] = place]

-----------------------------------------------------------------------------
(* A reload changes the table and reports devices; one thread, Run.          *)

Reloading == stage = "running" /\ at[Run] = Idle

Schedule(d) ==
    /\ Reloading
    /\ table' = table \cup {d}
    /\ UNCHANGED <<cancelled, stage, timerVars, queueVars, at, outVars, statusVars>>

Remove(d) ==
    /\ Reloading
    /\ table' = table \ {d}
    /\ UNCHANGED <<cancelled, stage, timerVars, queueVars, at, outVars, statusVars>>

\* Opening a device failed, or a pushing device was registered.
Report(d, up) ==
    /\ Reloading
    /\ up => d \in Pushed
    /\ Goto(Run, Marking(d, up))
    /\ UNCHANGED <<cancelled, stage, table, timerVars, queueVars, outVars, statusVars>>

-----------------------------------------------------------------------------
(* The timer goroutine: it takes the due entries under the lock and fires    *)
(* them without it, never waiting for room in the queue.                     *)

Tick(S) ==
    /\ timer = "on"
    /\ due = {}
    /\ due' = S
    /\ UNCHANGED <<cancelled, stage, table, timer, panicked, queueVars, at,
                   outVars, statusVars>>

\* Mutant: the timer waits until the queue has room.
MWaitForRoom(d) ==
    /\ Len(taskCh) < QueueCap
    /\ taskCh' = Append(taskCh, d)

Offer(d) ==
    \/ /\ Len(taskCh) < QueueCap
       /\ taskCh' = Append(taskCh, d)
    \/ /\ Len(taskCh) = QueueCap
       /\ UNCHANGED taskCh

Fire(d) ==
    /\ due' = due \ {d}
    /\ \/ taskClosed /\ panicked' = TRUE /\ UNCHANGED taskCh
       \/ ~taskClosed /\ Offer(d) /\ UNCHANGED panicked
    /\ UNCHANGED <<cancelled, stage, table, timer, taskClosed, at, outVars, statusVars>>

TimerExits ==
    /\ stage # "running"
    /\ due = {}
    /\ timer' = "exited"
    /\ UNCHANGED <<cancelled, stage, table, due, panicked, queueVars, at,
                   outVars, statusVars>>

-----------------------------------------------------------------------------
(* The workers: collectOnce.                                                 *)

Take(w) ==
    /\ at[w] = Idle
    /\ taskCh # <<>>
    /\ taskCh' = Tail(taskCh)
    /\ Goto(w, Reading(Head(taskCh)))
    /\ UNCHANGED <<cancelled, stage, table, timerVars, taskClosed, outVars, statusVars>>

\* The read fails, or returns points some of which are good, or points all bad.
ReadReturns(w, result) ==
    /\ at[w].pc = "read"
    /\ Goto(w, CASE result = "error" -> Marking(at[w].dev, FALSE)
                 [] result = "bad"   -> Emitting(at[w].dev, FALSE)
                 [] result = "good"  -> Emitting(at[w].dev, TRUE))
    /\ UNCHANGED <<cancelled, stage, table, timerVars, queueVars, outVars, statusVars>>

WorkerExits(w) ==
    /\ at[w] = Idle
    /\ taskCh = <<>> /\ taskClosed
    /\ Goto(w, Exited)
    /\ UNCHANGED <<cancelled, stage, table, timerVars, queueVars, outVars, statusVars>>

\* pushData: a driver's callback reports the device online, then emits.
Push(p, d) ==
    /\ at[p] = Idle
    /\ stage # "closed"
    /\ Goto(p, Marking(d, TRUE))
    /\ UNCHANGED <<cancelled, stage, table, timerVars, queueVars, outVars, statusVars>>

\* emit: the item goes into the data channel, or the context is cancelled.
Emit(t) ==
    /\ at[t].pc = "emit"
    /\ out < OutCap
    /\ out' = out + 1
    /\ Goto(t, IF t \in Workers THEN Marking(at[t].dev, at[t].up) ELSE Idle)
    /\ UNCHANGED <<cancelled, stage, table, timerVars, queueVars, pipeline, statusVars>>

\* Mutant: emit waits for room whatever happens to the context.
MNoGivingUp == FALSE

GivesUp == cancelled

EmitGivesUp(t) ==
    /\ at[t].pc = "emit"
    /\ GivesUp
    /\ Goto(t, Idle)
    /\ UNCHANGED <<cancelled, stage, table, timerVars, queueVars, outVars, statusVars>>

-----------------------------------------------------------------------------
(* markOnline and markOffline: the status is read, then written, each under  *)
(* the registry's lock; the outputs are notified last, without a lock, when  *)
(* the status that was READ differs.                                         *)

Reports(t, d) == at[t].pc \in {"set", "notify"} /\ at[t].dev = d

AfterMark(t) == IF t \in Pushers THEN Emitting(at[t].dev, TRUE) ELSE Idle

MarkGet(t) ==
    /\ at[t].pc = "get"
    /\ Goto(t, [pc |-> "set", dev |-> at[t].dev, up |-> at[t].up, prev |-> at[t].dev \in online])
    /\ raced' = IF \E u \in Threads : Reports(u, at[t].dev) THEN raced \cup {at[t].dev} ELSE raced
    /\ UNCHANGED <<cancelled, stage, table, timerVars, queueVars, outVars, online, notified,
                   wasOnline>>

\* Mutant: an offline report always notifies.
MNotifies(t) == at[t].prev # at[t].up \/ ~at[t].up

Notifies(t) == at[t].prev # at[t].up

MarkSet(t) ==
    /\ at[t].pc = "set"
    /\ online' = IF at[t].up THEN online \cup {at[t].dev} ELSE online \ {at[t].dev}
    /\ wasOnline' = wasOnline \cup online'
    /\ Goto(t, IF Notifies(t)
                  THEN [pc |-> "notify", dev |-> at[t].dev, up |-> at[t].up]
                  ELSE AfterMark(t))
    /\ UNCHANGED <<cancelled, stage, table, timerVars, queueVars, outVars, notified, raced>>

MarkNotify(t) ==
    /\ at[t].pc = "notify"
    /\ notified' = [notified EXCEPT ![at[t].dev] = IF at[t].up THEN "online" ELSE "offline"]
    /\ Goto(t, AfterMark(t))
    /\ UNCHANGED <<cancelled, stage, table, timerVars, queueVars, outVars, online, wasOnline,
                   raced>>

-----------------------------------------------------------------------------
(* The pipeline consumes the data until the context is cancelled.            *)

Consume ==
    /\ pipeline = "on"
    /\ out > 0
    /\ out' = out - 1
    /\ UNCHANGED <<cancelled, stage, table, timerVars, queueVars, at, pipeline, statusVars>>

PipelineExits ==
    /\ pipeline = "on"
    /\ cancelled
    /\ pipeline' = "exited"
    /\ UNCHANGED <<cancelled, stage, table, timerVars, queueVars, at, out, statusVars>>

-----------------------------------------------------------------------------
(* Shutdown: stopCollectors, in the code's order.                            *)

Cancel ==
    /\ ~cancelled
    /\ cancelled' = TRUE
    /\ UNCHANGED <<stage, table, timerVars, queueVars, at, outVars, statusVars>>

\* Run leaves its loop between two reloads; it also cancels the collection context.
BeginStop ==
    /\ Reloading
    /\ cancelled
    /\ stage' = "stopTimer"
    /\ UNCHANGED <<cancelled, table, timerVars, queueVars, at, outVars, statusVars>>

\* Mutant: the queue is closed without waiting for the timer goroutine.
MTimerStopped == TRUE

TimerStopped == timer = "exited"

CloseQueue ==
    /\ stage = "stopTimer"
    /\ TimerStopped
    /\ taskClosed' = TRUE
    /\ stage' = "waitWorkers"
    /\ UNCHANGED <<cancelled, table, timerVars, taskCh, at, outVars, statusVars>>

WorkersDone == \A w \in Workers : at[w] = Exited

CloseConnections ==
    /\ stage = "waitWorkers"
    /\ WorkersDone
    /\ stage' = "closed"
    /\ UNCHANGED <<cancelled, table, timerVars, queueVars, at, outVars, statusVars>>

-----------------------------------------------------------------------------
Init ==
    /\ cancelled = FALSE
    /\ stage = "running"
    /\ timer = "on"
    /\ table = {}
    /\ due = {}
    /\ taskCh = <<>>
    /\ taskClosed = FALSE
    /\ panicked = FALSE
    /\ at = [t \in Threads |-> Idle]
    /\ out = 0
    /\ pipeline = "on"
    /\ online = {}
    /\ notified = [d \in All |-> "none"]
    /\ wasOnline = {}
    /\ raced = {}

ReloadNext ==
    \/ \E d \in Devices : Schedule(d) \/ Remove(d)
    \/ \E d \in Reopened, up \in BOOLEAN : Report(d, up)

TimerFires == \E d \in due : Fire(d)

TimerNext ==
    \/ \E S \in (SUBSET table) \ {{}} : Tick(S)
    \/ TimerFires

Mark(t) == MarkGet(t) \/ MarkSet(t) \/ MarkNotify(t)

Work(w) ==
    \/ Take(w)
    \/ \E result \in {"good", "bad", "error"} : ReadReturns(w, result)
    \/ Emit(w) \/ EmitGivesUp(w)
    \/ WorkerExits(w)
    \/ Mark(w)

PushOn(p) == Emit(p) \/ EmitGivesUp(p) \/ Mark(p)

Stop == BeginStop \/ CloseQueue \/ CloseConnections

Next ==
    \/ ReloadNext
    \/ TimerNext \/ TimerExits
    \/ \E w \in Workers : Work(w)
    \/ \E p \in Pushers : PushOn(p) \/ \E d \in Pushed : Push(p, d)
    \/ Mark(Run)
    \/ Consume \/ PipelineExits
    \/ Cancel \/ Stop

\* Goroutines that can step do: the workers (a driver's read returns, at the latest at its
\* timeout), the timer, Run.  Run hears the cancellation however many changes are waiting
\* for it, which select guarantees with probability one: strong fairness of BeginStop.
\* The pipeline is not assumed to consume, nor the timer to tick.
Fairness ==
    /\ \A w \in Workers : WF_vars(Work(w))
    /\ WF_vars(TimerFires) /\ SF_vars(TimerExits)
    /\ WF_vars(Mark(Run))
    /\ SF_vars(BeginStop) /\ WF_vars(CloseQueue) /\ WF_vars(CloseConnections)

Spec == Init /\ [][Next]_vars /\ Fairness

-----------------------------------------------------------------------------
TypeOK ==
    /\ cancelled \in BOOLEAN
    /\ stage \in {"running", "stopTimer", "waitWorkers", "closed"}
    /\ timer \in {"on", "exited"}
    /\ table \subseteq Devices
    /\ due \subseteq Devices
    /\ taskCh \in Seq(Devices) /\ Len(taskCh) <= QueueCap
    /\ taskClosed \in BOOLEAN
    /\ panicked \in BOOLEAN
    /\ at \in [Threads -> {Idle, Exited}
                 \cup [pc : {"read"}, dev : Devices]
                 \cup [pc : {"emit", "get", "notify"}, dev : All, up : BOOLEAN]
                 \cup [pc : {"set"}, dev : All, up : BOOLEAN, prev : BOOLEAN]]
    /\ out \in 0..OutCap
    /\ pipeline \in {"on", "exited"}
    /\ online \subseteq All
    /\ notified \in [All -> {"none", "online", "offline"}]
    /\ wasOnline \subseteq All /\ raced \subseteq All

\* The shutdown closes nothing that is still used.  Nothing is sent on the closed task queue,
\* which would end the process: the timer goroutine, which fires entries it collected earlier
\* without a lock, is gone by then.  And the connections are closed when no worker can read
\* one of them any more and no task is left that would.
ClosedIsUnused ==
    /\ ~panicked
    /\ stage = "closed" => /\ taskCh = <<>> /\ due = {}
                           /\ \A w \in Workers : at[w] = Exited

\* "Only when the status turns from offline or unknown to online", and "from online to
\* offline", are the outputs notified (scheduler.go:513, 522): when no thread is reporting a
\* device, the last notification agrees with the recorded status, and none says offline of a
\* device that never was online.  Except for a device that two threads reported at once: the
\* status is read, written and notified in three steps under no common lock.
NotifiedFollowsStatus ==
    /\ \A d \in All : notified[d] = "offline" => d \in wasOnline
    /\ \A d \in All \ raced :
          (\A t \in Threads : ~Reports(t, d)) => (d \in online <=> notified[d] = "online")

\* Once cancelled, the collectors come to a full stop, though the pipeline may have stopped
\* consuming and every worker may be blocked on a full data channel.
ShutdownCompletes == cancelled ~> stage = "closed"

\* The timer goroutine never blocks: what is due is fired though every worker is stuck behind
\* a full data channel and the task queue is full.
TimerNeverBlocks == due # {} ~> due = {}
=============================================================================

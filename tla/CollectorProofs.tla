--------------------------- MODULE CollectorProofs ---------------------------
(* The collection threads, for any number of devices, workers and pushing      *)
(* drivers: types, the shutdown, and the online and offline reports.           *)
EXTENDS Collector, SequenceTheorems, TLAPS

Places ==
    {Idle, Exited}
    \cup [pc : {"read"}, dev : Devices]
    \cup [pc : {"emit", "get", "notify"}, dev : All, up : BOOLEAN]
    \cup [pc : {"set"}, dev : All, up : BOOLEAN, prev : BOOLEAN]

(* The thread that is at a place has the local variables of that place. *)
LEMMA ThreadAt ==
    ASSUME TypeOK, NEW t \in Threads
    PROVE  /\ at[t] \in Places
           /\ at[t].pc = "read" => at[t].dev \in Devices
           /\ at[t].pc \in {"emit", "get", "notify", "set"} =>
                 at[t].dev \in All /\ at[t].up \in BOOLEAN
           /\ at[t].pc = "set" => at[t].prev \in BOOLEAN
BY DEF TypeOK, Places, Idle, Exited

(* What a step does to the places of the threads: one thread moves, to a place of which *)
(* the types are right.                                                                 *)
LEMMA PlacesType ==
    ASSUME TypeOK, NEW t \in Threads, NEW place \in Places, Goto(t, place)
    PROVE  at' \in [Threads -> Places]
BY DEF TypeOK, Places, Goto

LEMMA AfterMarkType ==
    ASSUME TypeOK, NEW t \in Threads, at[t].pc \in {"set", "notify"}
    PROVE  AfterMark(t) \in Places
<1>1. at[t].dev \in All
  BY ThreadAt
<1> QED BY <1>1 DEF AfterMark, Emitting, Places

LEMMA ReloadType == TypeOK /\ ReloadNext => TypeOK'
<1> SUFFICES ASSUME TypeOK, ReloadNext PROVE TypeOK'
  OBVIOUS
<1> USE DEF timerVars, queueVars, outVars, statusVars
<1>1. ASSUME NEW d \in Devices, Schedule(d) \/ Remove(d) PROVE TypeOK'
  BY <1>1 DEF TypeOK, Schedule, Remove
<1>2. ASSUME NEW d \in Reopened, NEW up \in BOOLEAN, Report(d, up) PROVE TypeOK'
  <2>1. Marking(d, up) \in Places
    BY CollectorAssumption DEF Marking, Places, All
  <2>2. at' \in [Threads -> Places]
    BY <1>2, <2>1, PlacesType DEF Report, Threads
  <2> QED BY <1>2, <2>2 DEF TypeOK, Report, Places
<1> QED BY <1>1, <1>2 DEF ReloadNext

LEMMA TimerType == TypeOK /\ (TimerNext \/ TimerExits) => TypeOK'
<1> SUFFICES ASSUME TypeOK, TimerNext \/ TimerExits PROVE TypeOK'
  OBVIOUS
<1> USE DEF timerVars, queueVars, outVars, statusVars
<1>1. ASSUME NEW S \in (SUBSET table) \ {{}}, Tick(S) PROVE TypeOK'
  BY <1>1 DEF TypeOK, Tick
<1>2. ASSUME NEW d \in due, Fire(d) PROVE TypeOK'
  <2>1. d \in Devices /\ taskCh \in Seq(Devices) /\ Len(taskCh) <= QueueCap /\ QueueCap \in Nat
    BY CollectorAssumption DEF TypeOK
  <2>2. taskCh' \in Seq(Devices) /\ Len(taskCh') <= QueueCap
    <3>1. CASE UNCHANGED taskCh
      BY <2>1, <3>1
    <3>2. CASE taskCh' = Append(taskCh, d) /\ Len(taskCh) < QueueCap
      BY <2>1, <3>2
    <3> QED BY <1>2, <3>1, <3>2 DEF Fire, Offer
  <2> QED BY <1>2, <2>2 DEF TypeOK, Fire
<1>3. CASE TimerExits
  BY <1>3 DEF TypeOK, TimerExits
<1> QED BY <1>1, <1>2, <1>3 DEF TimerNext, TimerFires

LEMMA MarkType == ASSUME TypeOK, NEW t \in Threads, Mark(t) PROVE TypeOK'
<1> USE DEF timerVars, queueVars, outVars
<1>1. CASE MarkGet(t)
  <2>1. at[t].dev \in All /\ at[t].up \in BOOLEAN
    BY <1>1, ThreadAt DEF MarkGet
  <2>2. (at[t].dev \in online) \in BOOLEAN
    OBVIOUS
  <2>3. [pc |-> "set", dev |-> at[t].dev, up |-> at[t].up, prev |-> at[t].dev \in online]
          \in Places
    BY <2>1, <2>2 DEF Places
  <2>4. at' \in [Threads -> Places] /\ raced' \subseteq All
    BY <1>1, <2>1, <2>3, PlacesType DEF MarkGet, TypeOK
  <2> QED BY <1>1, <2>4 DEF MarkGet, TypeOK, Places
<1>2. CASE MarkSet(t)
  <2>1. at[t].dev \in All /\ at[t].up \in BOOLEAN
    BY <1>2, ThreadAt DEF MarkSet
  <2>2. [pc |-> "notify", dev |-> at[t].dev, up |-> at[t].up] \in Places
    BY <2>1 DEF Places
  <2>3. AfterMark(t) \in Places
    BY <1>2, AfterMarkType DEF MarkSet
  <2>4. at' \in [Threads -> Places]
    BY <1>2, <2>2, <2>3, PlacesType DEF MarkSet
  <2>5. online' \subseteq All /\ wasOnline' \subseteq All
    BY <1>2, <2>1 DEF MarkSet, TypeOK
  <2> QED BY <1>2, <2>4, <2>5 DEF MarkSet, TypeOK, Places
<1>3. CASE MarkNotify(t)
  <2>1. at[t].dev \in All /\ AfterMark(t) \in Places
    BY <1>3, ThreadAt, AfterMarkType DEF MarkNotify
  <2>2. at' \in [Threads -> Places]
    BY <1>3, <2>1, PlacesType DEF MarkNotify
  <2>3. notified' \in [All -> {"none", "online", "offline"}]
    BY <1>3, <2>1 DEF MarkNotify, TypeOK
  <2> QED BY <1>3, <2>2, <2>3 DEF MarkNotify, TypeOK, Places
<1> QED BY <1>1, <1>2, <1>3 DEF Mark

LEMMA EmitType == ASSUME TypeOK, NEW t \in Threads, Emit(t) \/ EmitGivesUp(t) PROVE TypeOK'
<1> USE DEF timerVars, queueVars, outVars, statusVars
<1>1. at[t].dev \in All /\ at[t].up \in BOOLEAN
  BY ThreadAt DEF Emit, EmitGivesUp
<1>2. Marking(at[t].dev, at[t].up) \in Places /\ Idle \in Places
  BY <1>1 DEF Marking, Places
<1>3. at' \in [Threads -> Places]
  BY <1>2, PlacesType DEF Emit, EmitGivesUp
<1>4. out' \in 0..OutCap
  BY CollectorAssumption DEF Emit, EmitGivesUp, TypeOK
<1> QED BY <1>3, <1>4 DEF Emit, EmitGivesUp, TypeOK, Places

LEMMA WorkType == ASSUME TypeOK, NEW w \in Workers, Work(w) PROVE TypeOK'
<1> USE DEF timerVars, queueVars, outVars, statusVars
<1>0. w \in Threads
  BY DEF Threads
<1>1. CASE Take(w)
  <2>1. taskCh \in Seq(Devices) /\ taskCh # <<>> /\ Len(taskCh) <= QueueCap /\ QueueCap \in Nat
    BY <1>1, CollectorAssumption DEF Take, TypeOK
  <2>2. Head(taskCh) \in Devices /\ Tail(taskCh) \in Seq(Devices)
        /\ Len(Tail(taskCh)) <= QueueCap
    BY <2>1
  <2>3. at' \in [Threads -> Places]
    BY <1>0, <1>1, <2>2, PlacesType DEF Take, Reading, Places
  <2> QED BY <1>1, <2>2, <2>3 DEF Take, TypeOK, Places
<1>2. ASSUME NEW result \in {"good", "bad", "error"}, ReadReturns(w, result) PROVE TypeOK'
  <2>1. at[w].dev \in All
    BY <1>0, <1>2, ThreadAt DEF ReadReturns, All
  <2>2. /\ Marking(at[w].dev, FALSE) \in Places
        /\ Emitting(at[w].dev, FALSE) \in Places
        /\ Emitting(at[w].dev, TRUE) \in Places
    BY <2>1 DEF Marking, Emitting, Places
  <2>3. at' \in [Threads -> Places]
    BY <1>0, <1>2, <2>2, PlacesType DEF ReadReturns
  <2> QED BY <1>2, <2>3 DEF ReadReturns, TypeOK, Places
<1>3. CASE WorkerExits(w)
  <2>1. at' \in [Threads -> Places]
    BY <1>0, <1>3, PlacesType DEF WorkerExits, Places
  <2> QED BY <1>3, <2>1 DEF WorkerExits, TypeOK, Places
<1> QED BY <1>0, <1>1, <1>2, <1>3, EmitType, MarkType DEF Work

LEMMA StepType == TypeOK /\ [Next]_vars => TypeOK'
<1> SUFFICES ASSUME TypeOK, [Next]_vars PROVE TypeOK'
  OBVIOUS
<1> USE DEF timerVars, queueVars, outVars, statusVars
<1>1. ASSUME NEW p \in Pushers, PushOn(p) \/ \E d \in Pushed : Push(p, d) PROVE TypeOK'
  <2>0. p \in Threads
    BY DEF Threads
  <2>1. ASSUME NEW d \in Pushed, Push(p, d) PROVE TypeOK'
    <3>1. Marking(d, TRUE) \in Places
      BY DEF Marking, Places, All
    <3>2. at' \in [Threads -> Places]
      BY <2>0, <2>1, <3>1, PlacesType DEF Push
    <3> QED BY <2>1, <3>2 DEF Push, TypeOK, Places
  <2> QED BY <1>1, <2>0, <2>1, EmitType, MarkType DEF PushOn
<1>2. CASE Mark(Run)
  BY <1>2, MarkType DEF Threads
<1>3. CASE Consume \/ PipelineExits
  BY <1>3, CollectorAssumption DEF Consume, PipelineExits, TypeOK
<1>4. CASE Cancel \/ Stop
  BY <1>4 DEF Cancel, Stop, BeginStop, CloseQueue, CloseConnections, TypeOK
<1>5. CASE UNCHANGED vars
  BY <1>5 DEF vars, TypeOK
<1> QED BY <1>1, <1>2, <1>3, <1>4, <1>5, ReloadType, TimerType, WorkType DEF Next

(* Every variable of the collector keeps its type: the queues stay within their     *)
(* capacity, and a thread that works for a device works for one of the gateway's.   *)
THEOREM CollectorTypeCorrect == Spec => []TypeOK
<1>1. Init => TypeOK
  <2>1. Init => taskCh \in Seq(Devices) /\ Len(taskCh) <= QueueCap
    BY CollectorAssumption DEF Init
  <2>2. Init => out \in 0..OutCap
    BY CollectorAssumption DEF Init
  <2> QED BY <2>1, <2>2 DEF Init, TypeOK
<1> QED BY <1>1, StepType, PTL DEF Spec

-----------------------------------------------------------------------------
(* The shutdown goes one way: the timer goroutine ends before the queue is closed, and  *)
(* a worker ends only when the closed queue is empty.  ClosedIsUnused alone is not      *)
(* inductive: it does not say why nobody fires, and why no task comes, once the queue   *)
(* is closed.                                                                           *)
StopInv ==
    /\ ~panicked
    /\ taskClosed => timer = "exited"
    /\ timer = "exited" => stage # "running" /\ due = {}
    /\ stage \in {"waitWorkers", "closed"} => taskClosed
    /\ \A w \in Workers : at[w] = Exited => taskClosed /\ taskCh = <<>>
    /\ stage = "closed" => WorkersDone

(* A thread moves on, and nothing else happens. *)
LEMMA ThreadMoves ==
    ASSUME TypeOK, StopInv, NEW t \in Threads, NEW place \in Places,
           Goto(t, place), place.pc # "exited", at[t].pc # "exited",
           UNCHANGED <<stage, timerVars, queueVars>>
    PROVE  StopInv'
<1>1. at \in [Threads -> Places] /\ Workers \subseteq Threads
  BY DEF TypeOK, Places, Threads
<1>2. \A w \in Workers : at'[w] = Exited => at[w] = Exited
  BY <1>1 DEF Goto, Exited
<1>3. WorkersDone => WorkersDone'
  BY <1>1 DEF Goto, WorkersDone, Exited
<1> QED BY <1>2, <1>3 DEF StopInv, timerVars, queueVars

LEMMA EmitMoves ==
    ASSUME TypeOK, StopInv, NEW t \in Threads, Emit(t) \/ EmitGivesUp(t)
    PROVE  StopInv'
<1>1. PICK place \in {Idle, Marking(at[t].dev, at[t].up)} : Goto(t, place)
  BY DEF Emit, EmitGivesUp
<1>2. place \in Places /\ place.pc # "exited" /\ at[t].pc # "exited"
  BY ThreadAt DEF Emit, EmitGivesUp, Idle, Marking, Places
<1> QED BY <1>1, <1>2, ThreadMoves DEF Emit, EmitGivesUp

LEMMA MarkMoves ==
    ASSUME TypeOK, StopInv, NEW t \in Threads, Mark(t)
    PROVE  StopInv'
<1>1. at[t].pc \in {"get", "set", "notify"}
  BY DEF Mark, MarkGet, MarkSet, MarkNotify
<1>2. at[t].dev \in All /\ at[t].up \in BOOLEAN
  BY <1>1, ThreadAt
<1>3. PICK place \in {[pc |-> "set", dev |-> at[t].dev, up |-> at[t].up,
                       prev |-> at[t].dev \in online],
                      [pc |-> "notify", dev |-> at[t].dev, up |-> at[t].up],
                      AfterMark(t)} : Goto(t, place)
  BY DEF Mark, MarkGet, MarkSet, MarkNotify
<1>4. place \in Places /\ place.pc # "exited"
  <2>1. CASE place = [pc |-> "set", dev |-> at[t].dev, up |-> at[t].up,
                      prev |-> at[t].dev \in online]
    <3>1. (at[t].dev \in online) \in BOOLEAN
      OBVIOUS
    <3> QED BY <1>2, <2>1, <3>1 DEF Places
  <2>2. CASE place = [pc |-> "notify", dev |-> at[t].dev, up |-> at[t].up]
    BY <1>2, <2>2 DEF Places
  <2>3. CASE place = AfterMark(t)
    BY <1>2, <2>3 DEF AfterMark, Emitting, Idle, Places
  <2> QED BY <1>3, <2>1, <2>2, <2>3
<1> QED BY <1>1, <1>3, <1>4, ThreadMoves DEF Mark, MarkGet, MarkSet, MarkNotify

LEMMA WorkKeepsStop == ASSUME TypeOK, StopInv, NEW w \in Workers, Work(w) PROVE StopInv'
<1>0. w \in Threads /\ at \in [Threads -> Places] /\ Workers \subseteq Threads
  BY DEF TypeOK, Places, Threads
<1>1. CASE Take(w)
  <2>1. \A v \in Workers : at[v] # Exited
    BY <1>1 DEF Take, StopInv
  <2>2. \A v \in Workers : at'[v] # Exited
    BY <1>0, <1>1, <2>1 DEF Take, Goto, Reading, Exited
  <2>3. stage # "closed"
    BY <2>1 DEF StopInv, WorkersDone
  <2> QED BY <1>1, <2>2, <2>3 DEF Take, StopInv, timerVars
<1>2. ASSUME NEW result \in {"good", "bad", "error"}, ReadReturns(w, result) PROVE StopInv'
  <2>1. at[w].dev \in All
    BY <1>0, <1>2, ThreadAt DEF ReadReturns, All
  <2>2. PICK place \in {Marking(at[w].dev, FALSE), Emitting(at[w].dev, FALSE),
                        Emitting(at[w].dev, TRUE)} : Goto(w, place)
    BY <1>2 DEF ReadReturns
  <2>3. place \in Places /\ place.pc # "exited"
    <3>1. PICK up \in BOOLEAN : place = Marking(at[w].dev, up) \/ place = Emitting(at[w].dev, up)
      BY <2>2
    <3> QED BY <2>1, <3>1 DEF Marking, Emitting, Places
  <2> QED BY <1>0, <1>2, <2>2, <2>3, ThreadMoves DEF ReadReturns
<1>3. CASE WorkerExits(w)
  <2>1. \A v \in Workers : at'[v] = Exited => at[v] = Exited \/ v = w
    BY <1>0, <1>3 DEF WorkerExits, Goto
  <2>2. WorkersDone => WorkersDone'
    BY <1>0, <1>3 DEF WorkerExits, Goto, WorkersDone
  <2> QED BY <1>3, <2>1, <2>2 DEF WorkerExits, StopInv, timerVars, queueVars
<1> QED BY <1>0, <1>1, <1>2, <1>3, EmitMoves, MarkMoves DEF Work

LEMMA StopInvStep == TypeOK /\ StopInv /\ [Next]_vars => StopInv'
<1> SUFFICES ASSUME TypeOK, StopInv, [Next]_vars PROVE StopInv'
  OBVIOUS
<1> USE DEF timerVars, queueVars
<1>1. ASSUME NEW d \in Devices, Schedule(d) \/ Remove(d) PROVE StopInv'
  BY <1>1 DEF Schedule, Remove, StopInv, WorkersDone
<1>2. ASSUME NEW d \in Reopened, NEW up \in BOOLEAN, Report(d, up) PROVE StopInv'
  <2>1. Marking(d, up) \in Places /\ Marking(d, up).pc # "exited"
    BY CollectorAssumption DEF Marking, Places, All
  <2> QED BY <1>2, <2>1, ThreadMoves DEF Report, Reloading, Idle, Threads
<1>3. ASSUME NEW S, Tick(S) PROVE StopInv'
  BY <1>3 DEF Tick, StopInv, WorkersDone
<1>4. ASSUME NEW d \in due, Fire(d) PROVE StopInv'
  <2>1. ~taskClosed
    BY DEF StopInv
  <2> QED BY <1>4, <2>1 DEF Fire, StopInv, WorkersDone
<1>5. CASE TimerExits
  BY <1>5 DEF TimerExits, StopInv, WorkersDone
<1>6. ASSUME NEW p \in Pushers, PushOn(p) \/ \E d \in Pushed : Push(p, d) PROVE StopInv'
  <2>0. p \in Threads
    BY DEF Threads
  <2>1. ASSUME NEW d \in Pushed, Push(p, d) PROVE StopInv'
    <3>1. Marking(d, TRUE) \in Places /\ Marking(d, TRUE).pc # "exited"
      BY DEF Marking, Places, All
    <3>2. at[p].pc # "exited"
      BY <2>1 DEF Push, Idle
    <3>3. Goto(p, Marking(d, TRUE)) /\ UNCHANGED <<stage, timerVars, queueVars>>
      BY <2>1 DEF Push
    <3> QED BY <2>0, <3>1, <3>2, <3>3, ThreadMoves
  <2> QED BY <1>6, <2>0, <2>1, EmitMoves, MarkMoves DEF PushOn
<1>7. CASE Mark(Run)
  BY <1>7, MarkMoves DEF Threads
<1>8. CASE Consume \/ PipelineExits \/ Cancel
  BY <1>8 DEF Consume, PipelineExits, Cancel, StopInv, WorkersDone
<1>9. CASE Stop
  BY <1>9 DEF Stop, BeginStop, CloseQueue, CloseConnections, TimerStopped, StopInv, WorkersDone
<1>10. CASE UNCHANGED vars
  BY <1>10 DEF vars, StopInv, WorkersDone
<1> QED
  BY <1>1, <1>2, <1>3, <1>4, <1>5, <1>6, <1>7, <1>8, <1>9, <1>10, WorkKeepsStop
  DEF Next, ReloadNext, TimerNext, TimerFires

(* For any number of workers and pushing drivers, and whenever the process is cancelled:  *)
(* nothing is sent on the closed task queue, and when the connections are closed no task  *)
(* is left that would read one (scheduler.go:437-480, pollsched.go:160-199).              *)
THEOREM ShutdownIsSafe == Spec => []ClosedIsUnused
<1>1. Init => StopInv
  BY DEF Init, StopInv, Idle, Exited, Threads
<1>2. StopInv => ClosedIsUnused
  BY CollectorAssumption DEF StopInv, ClosedIsUnused, WorkersDone
<1> QED BY <1>1, <1>2, StopInvStep, CollectorTypeCorrect, PTL DEF Spec

-----------------------------------------------------------------------------
(* The reports: while a device is not raced one thread reports it at most, and what that *)
(* thread has read, written or is about to notify relates the recorded status to the     *)
(* last notification.                                                                    *)
OneReports(d) ==
    /\ \A t, u \in Threads : Reports(t, d) /\ Reports(u, d) => t = u
    /\ \A t \in Threads : at[t].pc = "set" /\ at[t].dev = d => (at[t].prev <=> d \in online)
    /\ \A t \in Threads : at[t].pc = "notify" /\ at[t].dev = d => (at[t].up <=> d \in online)
    /\ (\A t \in Threads : Reports(t, d) => at[t].pc = "set") =>
          (d \in online <=> notified[d] = "online")

WentOffline(t) ==
    /\ at[t].pc = "set" /\ at[t].prev => at[t].dev \in wasOnline
    /\ at[t].pc = "notify" /\ ~at[t].up => at[t].dev \in wasOnline

ReportInv ==
    /\ online \subseteq wasOnline
    /\ \A d \in All : notified[d] = "offline" => d \in wasOnline
    /\ \A t \in Threads : WentOffline(t)
    /\ \A d \in All \ raced : OneReports(d)

(* What is not a report of the device leaves what is known of its reports alone. *)
LEMMA SameReports ==
    ASSUME NEW d, OneReports(d), d \in online' <=> d \in online, notified'[d] = notified[d],
           \A u \in Threads : Reports(u, d) \/ Reports(u, d)' => at'[u] = at[u]
    PROVE  OneReports(d)'
BY DEF OneReports, Reports

LEMMA ThreadReportsNothing ==
    ASSUME TypeOK, ReportInv, NEW t \in Threads, NEW place \in Places, Goto(t, place),
           place.pc \notin {"set", "notify"}, at[t].pc \notin {"set", "notify"},
           UNCHANGED statusVars
    PROVE  ReportInv'
<1>1. at \in [Threads -> Places]
  BY DEF TypeOK, Places
<1>2. \A u \in Threads : at[u].pc \in {"set", "notify"} \/ at'[u].pc \in {"set", "notify"} =>
                            at'[u] = at[u]
  BY <1>1 DEF Goto
<1>3. ASSUME NEW d \in All \ raced PROVE OneReports(d)'
  BY <1>2, SameReports DEF ReportInv, Reports, statusVars
<1>4. ASSUME NEW u \in Threads PROVE WentOffline(u)'
  BY <1>2 DEF ReportInv, WentOffline, statusVars
<1> QED BY <1>3, <1>4 DEF ReportInv, statusVars

LEMMA EmitReportsNothing ==
    ASSUME TypeOK, ReportInv, NEW t \in Threads, Emit(t) \/ EmitGivesUp(t)
    PROVE  ReportInv'
<1>1. PICK place \in {Idle, Marking(at[t].dev, at[t].up)} : Goto(t, place)
  BY DEF Emit, EmitGivesUp
<1>2. place \in Places /\ place.pc \notin {"set", "notify"}
  BY ThreadAt DEF Emit, EmitGivesUp, Idle, Marking, Places
<1> QED BY <1>1, <1>2, ThreadReportsNothing DEF Emit, EmitGivesUp

LEMMA MarkGetKeeps ==
    ASSUME TypeOK, ReportInv, NEW t \in Threads, MarkGet(t)
    PROVE  ReportInv'
<1>0. PICK x : x = at[t].dev
  OBVIOUS
<1>1. at \in [Threads -> Places] /\ x \in All /\ at[t].pc = "get"
  BY <1>0, ThreadAt DEF MarkGet, TypeOK, Places
<1>2. /\ at'[t] = [pc |-> "set", dev |-> x, up |-> at[t].up, prev |-> x \in online]
      /\ \A u \in Threads \ {t} : at'[u] = at[u]
      /\ UNCHANGED <<online, notified, wasOnline>>
  BY <1>0, <1>1 DEF MarkGet, Goto
<1>3. at'[t].pc = "set" /\ at'[t].dev = x /\ (at'[t].prev <=> x \in online)
  <2>1. PICK b : b = (x \in online)
    OBVIOUS
  <2>2. at'[t] = [pc |-> "set", dev |-> x, up |-> at[t].up, prev |-> b]
    BY <1>2, <2>1
  <2>3. at'[t].pc = "set" /\ at'[t].dev = x /\ at'[t].prev = b
    BY <2>2
  <2> QED BY <2>1, <2>3
<1>4. ASSUME NEW d \in All \ raced' PROVE OneReports(d)'
  <2>1. d \notin raced
    BY DEF MarkGet
  <2>2. CASE d # x
    <3>1. \A u \in Threads : Reports(u, d) \/ Reports(u, d)' => at'[u] = at[u]
      BY <1>1, <1>2, <1>3, <2>2 DEF Reports
    <3> QED BY <1>2, <2>1, <3>1, SameReports DEF ReportInv
  <2>3. CASE d = x
    <3>1. \A u \in Threads : ~Reports(u, x)
      BY <1>0, <2>3 DEF MarkGet
    <3>2. \A u \in Threads : Reports(u, x)' <=> u = t
      BY <1>2, <1>3, <3>1 DEF Reports
    <3>3. x \in online <=> notified[x] = "online"
      BY <2>1, <2>3, <3>1 DEF ReportInv, OneReports
    <3>4. \A u \in Threads : at'[u].pc \in {"set", "notify"} /\ at'[u].dev = x => u = t
      BY <3>2 DEF Reports
    <3> QED BY <1>2, <1>3, <2>3, <3>2, <3>3, <3>4 DEF OneReports
  <2> QED BY <2>2, <2>3
<1>5. ASSUME NEW u \in Threads PROVE WentOffline(u)'
  <2>1. CASE u = t
    BY <1>2, <1>3, <2>1 DEF ReportInv, WentOffline
  <2>2. CASE u # t
    BY <1>2, <2>2 DEF ReportInv, WentOffline
  <2> QED BY <2>1, <2>2
<1> QED BY <1>2, <1>4, <1>5 DEF ReportInv

(* After its report is written or notified, a thread emits or is idle. *)
LEMMA AfterMarkReportsNothing ==
    ASSUME NEW t
    PROVE  AfterMark(t).pc \notin {"set", "notify"}
BY DEF AfterMark, Emitting, Idle

LEMMA MarkSetKeeps ==
    ASSUME TypeOK, ReportInv, NEW t \in Threads, MarkSet(t)
    PROVE  ReportInv'
<1> DEFINE x == at[t].dev
           up == at[t].up
           prev == at[t].prev
<1>1. /\ at \in [Threads -> Places] /\ x \in All /\ at[t].pc = "set"
      /\ up \in BOOLEAN /\ prev \in BOOLEAN
  BY ThreadAt DEF MarkSet, TypeOK, Places
<1>2. /\ \A u \in Threads \ {t} : at'[u] = at[u]
      /\ UNCHANGED <<notified, raced>>
      /\ \A d : d # x => (d \in online' <=> d \in online)
      /\ x \in online' <=> up
      /\ wasOnline' = wasOnline \cup online'
  BY <1>1 DEF MarkSet, Goto
<1>3. CASE prev # up
  <2>1. at'[t] = [pc |-> "notify", dev |-> x, up |-> up]
    BY <1>1, <1>3 DEF MarkSet, Goto, Notifies
  <2>2. at'[t].pc = "notify" /\ at'[t].dev = x /\ at'[t].up = up
    BY <2>1
  <2>3. ASSUME NEW d \in All \ raced PROVE OneReports(d)'
    <3>1. CASE d # x
      <4>1. \A u \in Threads : Reports(u, d) \/ Reports(u, d)' => at'[u] = at[u]
        BY <1>2, <2>2, <3>1 DEF Reports
      <4> QED BY <1>2, <3>1, <4>1, SameReports DEF ReportInv
    <3>2. CASE d = x
      <4>1. \A u \in Threads : Reports(u, x) => u = t
        BY <1>1, <3>2 DEF ReportInv, OneReports, Reports
      <4>2. \A u \in Threads : at'[u].pc \in {"set", "notify"} /\ at'[u].dev = x => u = t
        BY <1>2, <4>1 DEF Reports
      <4> QED BY <1>2, <2>2, <3>2, <4>2 DEF OneReports, Reports
    <3> QED BY <3>1, <3>2
  <2>4. ~up => x \in wasOnline
    BY <1>1, <1>3 DEF ReportInv, WentOffline
  <2>5. ASSUME NEW u \in Threads PROVE WentOffline(u)'
    <3>1. CASE u = t
      BY <1>2, <2>2, <2>4, <3>1 DEF WentOffline
    <3>2. CASE u # t
      BY <1>2, <3>2 DEF ReportInv, WentOffline
    <3> QED BY <3>1, <3>2
  <2> QED BY <1>2, <2>3, <2>5 DEF ReportInv
<1>4. CASE prev = up
  <2>1. at'[t] = AfterMark(t)
    BY <1>1, <1>4 DEF MarkSet, Goto, Notifies
  <2>2. at'[t].pc \notin {"set", "notify"}
    BY <2>1, AfterMarkReportsNothing
  <2>3. ASSUME NEW d \in All \ raced PROVE OneReports(d)'
    <3>1. CASE d # x
      <4>1. \A u \in Threads : Reports(u, d) \/ Reports(u, d)' => at'[u] = at[u]
        BY <1>2, <2>2, <3>1 DEF Reports
      <4> QED BY <1>2, <3>1, <4>1, SameReports DEF ReportInv
    <3>2. CASE d = x
      <4>1. \A u \in Threads : Reports(u, x) => u = t
        BY <1>1, <3>2 DEF ReportInv, OneReports, Reports
      <4>2. \A u \in Threads : ~(at'[u].pc \in {"set", "notify"} /\ at'[u].dev = x)
        BY <1>2, <2>2, <4>1 DEF Reports
      <4>3. (prev <=> x \in online) /\ (x \in online <=> notified[x] = "online")
        BY <1>1, <3>2, <4>1 DEF ReportInv, OneReports
      <4>4. x \in online' <=> notified'[x] = "online"
        BY <1>2, <1>4, <4>3
      <4> QED BY <3>2, <4>2, <4>4 DEF OneReports, Reports
    <3> QED BY <3>1, <3>2
  <2>4. ASSUME NEW u \in Threads PROVE WentOffline(u)'
    <3>1. CASE u = t
      BY <2>2, <3>1 DEF WentOffline
    <3>2. CASE u # t
      BY <1>2, <3>2 DEF ReportInv, WentOffline
    <3> QED BY <3>1, <3>2
  <2> QED BY <1>2, <2>3, <2>4 DEF ReportInv
<1> QED BY <1>3, <1>4

LEMMA MarkNotifyKeeps ==
    ASSUME TypeOK, ReportInv, NEW t \in Threads, MarkNotify(t)
    PROVE  ReportInv'
<1> DEFINE x == at[t].dev
           up == at[t].up
<1>1. /\ at \in [Threads -> Places] /\ x \in All /\ at[t].pc = "notify" /\ up \in BOOLEAN
      /\ notified \in [All -> {"none", "online", "offline"}]
  BY ThreadAt DEF MarkNotify, TypeOK, Places
<1>2. /\ \A u \in Threads \ {t} : at'[u] = at[u]
      /\ at'[t] = AfterMark(t)
      /\ UNCHANGED <<online, wasOnline, raced>>
      /\ notified'[x] = IF up THEN "online" ELSE "offline"
      /\ \A d \in All : d # x => notified'[d] = notified[d]
  BY <1>1 DEF MarkNotify, Goto
<1>3. at'[t].pc \notin {"set", "notify"}
  BY <1>2, AfterMarkReportsNothing
<1>4. ASSUME NEW d \in All \ raced PROVE OneReports(d)'
  <2>1. CASE d # x
    <3>1. \A u \in Threads : Reports(u, d) \/ Reports(u, d)' => at'[u] = at[u]
      BY <1>2, <1>3, <2>1 DEF Reports
    <3> QED BY <1>2, <2>1, <3>1, SameReports DEF ReportInv
  <2>2. CASE d = x
    <3>1. \A u \in Threads : Reports(u, x) => u = t
      BY <1>1, <2>2 DEF ReportInv, OneReports, Reports
    <3>2. \A u \in Threads : ~(at'[u].pc \in {"set", "notify"} /\ at'[u].dev = x)
      BY <1>2, <1>3, <3>1 DEF Reports
    <3>3. up <=> x \in online
      BY <1>1, <2>2 DEF ReportInv, OneReports
    <3>4. x \in online' <=> notified'[x] = "online"
      BY <1>2, <3>3
    <3> QED BY <2>2, <3>2, <3>4 DEF OneReports, Reports
  <2> QED BY <2>1, <2>2
<1>5. ~up => x \in wasOnline
  BY <1>1 DEF ReportInv, WentOffline
<1>6. ASSUME NEW u \in Threads PROVE WentOffline(u)'
  <2>1. CASE u = t
    BY <1>3, <2>1 DEF WentOffline
  <2>2. CASE u # t
    BY <1>2, <2>2 DEF ReportInv, WentOffline
  <2> QED BY <2>1, <2>2
<1>7. \A d \in All : notified'[d] = "offline" => d \in wasOnline'
  BY <1>1, <1>2, <1>5 DEF ReportInv
<1> QED BY <1>2, <1>4, <1>6, <1>7 DEF ReportInv

LEMMA WorkKeepsReports == ASSUME TypeOK, ReportInv, NEW w \in Workers, Work(w) PROVE ReportInv'
<1>0. w \in Threads
  BY DEF Threads
<1>1. CASE Take(w)
  <2>1. Reading(Head(taskCh)) \in Places
    BY <1>1 DEF Take, TypeOK, Reading, Places
  <2> QED BY <1>0, <1>1, <2>1, ThreadReportsNothing DEF Take, Reading, Idle
<1>2. ASSUME NEW result \in {"good", "bad", "error"}, ReadReturns(w, result) PROVE ReportInv'
  <2>1. at[w].dev \in All
    BY <1>0, <1>2, ThreadAt DEF ReadReturns, All
  <2>2. PICK up \in BOOLEAN : \/ Goto(w, Marking(at[w].dev, up))
                              \/ Goto(w, Emitting(at[w].dev, up))
    BY <1>2 DEF ReadReturns
  <2>3. /\ Marking(at[w].dev, up) \in Places /\ Marking(at[w].dev, up).pc = "get"
        /\ Emitting(at[w].dev, up) \in Places /\ Emitting(at[w].dev, up).pc = "emit"
    BY <2>1 DEF Marking, Emitting, Places
  <2> QED BY <1>0, <1>2, <2>2, <2>3, ThreadReportsNothing DEF ReadReturns
<1>3. CASE WorkerExits(w)
  BY <1>0, <1>3, ThreadReportsNothing DEF WorkerExits, Exited, Idle, Places
<1>4. CASE Mark(w)
  BY <1>0, <1>4, MarkGetKeeps, MarkSetKeeps, MarkNotifyKeeps DEF Mark
<1> QED BY <1>0, <1>1, <1>2, <1>3, <1>4, EmitReportsNothing DEF Work

LEMMA ReportInvStep == TypeOK /\ ReportInv /\ [Next]_vars => ReportInv'
<1> SUFFICES ASSUME TypeOK, ReportInv, [Next]_vars PROVE ReportInv'
  OBVIOUS
<1>1. ASSUME UNCHANGED <<at, statusVars>> PROVE ReportInv'
  BY <1>1 DEF ReportInv, OneReports, WentOffline, Reports, statusVars
<1>2. ASSUME NEW d \in Reopened, NEW up \in BOOLEAN, Report(d, up) PROVE ReportInv'
  <2>1. Marking(d, up) \in Places /\ Marking(d, up).pc = "get"
    BY CollectorAssumption DEF Marking, Places, All
  <2> QED BY <1>2, <2>1, ThreadReportsNothing DEF Report, Reloading, Idle, Threads
<1>3. ASSUME NEW p \in Pushers, PushOn(p) \/ \E d \in Pushed : Push(p, d) PROVE ReportInv'
  <2>0. p \in Threads
    BY DEF Threads
  <2>1. ASSUME NEW d \in Pushed, Push(p, d) PROVE ReportInv'
    <3>1. Marking(d, TRUE) \in Places /\ Marking(d, TRUE).pc = "get" /\ at[p].pc = "idle"
      BY <2>1 DEF Push, Idle, Marking, Places, All
    <3> QED BY <2>0, <2>1, <3>1, ThreadReportsNothing DEF Push
  <2> QED
    BY <1>3, <2>0, <2>1, EmitReportsNothing, MarkGetKeeps, MarkSetKeeps, MarkNotifyKeeps
    DEF PushOn, Mark
<1>4. CASE Mark(Run)
  BY <1>4, MarkGetKeeps, MarkSetKeeps, MarkNotifyKeeps DEF Mark, Threads
<1>5. CASE \E d \in Devices : Schedule(d) \/ Remove(d)
  BY <1>1, <1>5 DEF Schedule, Remove
<1>6. CASE TimerNext \/ TimerExits
  BY <1>1, <1>6 DEF TimerNext, TimerFires, Tick, Fire, TimerExits
<1>7. CASE Consume \/ PipelineExits \/ Cancel \/ Stop
  BY <1>1, <1>7
  DEF Consume, PipelineExits, Cancel, Stop, BeginStop, CloseQueue, CloseConnections
<1>8. CASE UNCHANGED vars
  BY <1>1, <1>8 DEF vars
<1> QED
  BY <1>2, <1>3, <1>4, <1>5, <1>6, <1>7, <1>8, WorkKeepsReports DEF Next, ReloadNext

(* For any number of threads that report devices, in any interleaving: no device that   *)
(* never was online is notified offline, and between the reports of a device that no    *)
(* two threads report at once its last notification is its status                       *)
(* (scheduler.go:513-531, status.go:22-60).                                             *)
THEOREM NotificationsFollowStatus == Spec => []NotifiedFollowsStatus
<1>1. Init => ReportInv
  BY DEF Init, ReportInv, OneReports, WentOffline, Reports, Idle
<1>2. ReportInv => NotifiedFollowsStatus
  BY DEF ReportInv, OneReports, NotifiedFollowsStatus
<1> QED BY <1>1, <1>2, ReportInvStep, CollectorTypeCorrect, PTL DEF Spec
=============================================================================

---------------------------- MODULE DeliveryProofs ----------------------------
(* The delivery path uses its durable queue only through the operations of    *)
(* module Backfill, so what is proved of the queue holds of the whole path;   *)
(* the replay never acknowledges a row that it has not read, and keeps the    *)
(* order of the rows; and no point that was accepted vanishes.                *)
EXTENDS Delivery, FiniteSetTheorems, TLAPS

-----------------------------------------------------------------------------
(* The durable queue stays within its limit and its ids stay unique, for any   *)
(* number of outputs and points, any limit and any use of its operations.      *)

QueueInv == QueueTypeOK /\ QueueBounded /\ IdsUnique

(* One row of one output, as the code inserts it. *)
LEMMA InsertedRows ==
    ASSUME lastId \in Nat, NEW o \in Outputs, NEW dps \in Seq(Points)
    PROVE  /\ Inserted(o, dps) \subseteq Row
           /\ \A r \in Inserted(o, dps) : /\ r.output = o
                                          /\ r.id > lastId /\ r.id <= lastId + Len(dps)
           /\ \A r, s \in Inserted(o, dps) : r.id = s.id => r = s
           /\ IsFiniteSet(Inserted(o, dps))
<1> DEFINE RowOf == [i \in 1..Len(dps) |-> [id |-> lastId + i, output |-> o, dp |-> dps[i]]]
<1>1. Len(dps) \in Nat /\ DOMAIN dps = 1..Len(dps) /\ \A i \in 1..Len(dps) : dps[i] \in Points
  OBVIOUS
<1>2. Inserted(o, dps) = {RowOf[i] : i \in 1..Len(dps)}
  BY <1>1 DEF Inserted, NewId
<1>3. \A i \in 1..Len(dps) : /\ RowOf[i].id = lastId + i
                             /\ RowOf[i].output = o
                             /\ RowOf[i] \in Row
  BY <1>1 DEF Row
<1>4. IsFiniteSet({RowOf[i] : i \in 1..Len(dps)})
  <2>1. IsFiniteSet(1..Len(dps))
    BY <1>1, FS_Interval
  <2>2. RowOf \in Surjection(1..Len(dps), {RowOf[i] : i \in 1..Len(dps)})
    BY DEF Surjection
  <2> HIDE DEF RowOf
  <2> QED BY <2>1, <2>2, FS_Surjection
<1> HIDE DEF RowOf
<1> QED BY <1>1, <1>2, <1>3, <1>4

(* Evicting the excess brings any finite set of rows within the limit. *)
LEMMA EvictionBounds ==
    ASSUME NEW T, IsFiniteSet(T), NEW gone, AreOldest(gone, Excess(T), T)
    PROVE  IsFiniteSet(T \ gone) /\ Cardinality(T \ gone) <= Max
<1>1. gone \subseteq T /\ Cardinality(gone) = Excess(T)
  BY DEF AreOldest
<1>2. IsFiniteSet(gone) /\ IsFiniteSet(T \ gone)
  BY <1>1, FS_Subset, FS_Difference
<1>3. T \cap gone = gone
  BY <1>1
<1>4. Cardinality(T \ gone) = Cardinality(T) - Cardinality(gone)
  BY <1>2, <1>3, FS_Difference
<1>5. Cardinality(T) \in Nat
  BY FS_CardinalityType
<1> QED BY <1>1, <1>2, <1>4, <1>5, BackfillAssumption DEF Excess

(* Removing rows, whichever they are, keeps everything. *)
LEMMA RemovalKeeps ==
    ASSUME QueueInv, rows' \subseteq rows, UNCHANGED lastId
    PROVE  QueueInv'
<1>1. QueueTypeOK'
  BY FS_Subset DEF QueueInv, QueueTypeOK
<1>2. QueueBounded'
  <2> SUFFICES ASSUME NEW o \in Outputs PROVE Cardinality(Mine(o)') <= Max
    BY DEF QueueBounded
  <2>1. Mine(o)' \subseteq Mine(o) /\ Mine(o) \subseteq rows
    BY DEF Mine
  <2>2. IsFiniteSet(Mine(o)) /\ Cardinality(Mine(o)) \in Nat
    BY <2>1, FS_Subset, FS_CardinalityType DEF QueueInv, QueueTypeOK
  <2>3. Cardinality(Mine(o)') <= Cardinality(Mine(o)) /\ Cardinality(Mine(o)') \in Nat
    BY <2>1, <2>2, FS_Subset, FS_CardinalityType
  <2>4. Cardinality(Mine(o)) <= Max
    BY DEF QueueInv, QueueBounded
  <2> QED BY <2>2, <2>3, <2>4, BackfillAssumption
<1>3. IdsUnique'
  BY DEF QueueInv, IdsUnique
<1> QED BY <1>1, <1>2, <1>3 DEF QueueInv

LEMMA SaveKeeps ==
    ASSUME QueueInv, NEW o \in Outputs, NEW dps \in Seq(Points), NEW gone, Save(o, dps, gone)
    PROVE  QueueInv'
<1> DEFINE all == Mine(o) \cup Inserted(o, dps)
<1>1. /\ rows' = (rows \cup Inserted(o, dps)) \ gone
      /\ lastId' = lastId + Len(dps)
      /\ AreOldest(gone, Excess(all), all)
  BY DEF Save, Evicts
<1>2. lastId \in Nat /\ Len(dps) \in Nat /\ rows \subseteq Row /\ IsFiniteSet(rows)
  BY DEF QueueInv, QueueTypeOK
<1>3. /\ Inserted(o, dps) \subseteq Row
      /\ \A r \in Inserted(o, dps) : /\ r.output = o
                                     /\ r.id > lastId /\ r.id <= lastId + Len(dps)
      /\ \A r, s \in Inserted(o, dps) : r.id = s.id => r = s
      /\ IsFiniteSet(Inserted(o, dps))
  BY <1>2, InsertedRows
<1>4. QueueTypeOK'
  <2>1. IsFiniteSet(rows \cup Inserted(o, dps))
    BY <1>2, <1>3, FS_Union
  <2>2. rows' \subseteq rows \cup Inserted(o, dps)
    BY <1>1
  <2>3. IsFiniteSet(rows')
    BY <2>1, <2>2, FS_Subset
  <2> QED BY <1>1, <1>2, <1>3, <2>2, <2>3 DEF QueueTypeOK
<1>5. QueueBounded'
  <2> SUFFICES ASSUME NEW q \in Outputs PROVE Cardinality(Mine(q)') <= Max
    BY DEF QueueBounded
  <2>1. gone \subseteq all
    BY <1>1 DEF AreOldest
  <2>2. CASE q = o
    <3>1. Mine(o)' = all \ gone
      BY <1>1, <1>3 DEF Mine
    <3>2. IsFiniteSet(Mine(o))
      BY <1>2, FS_Subset DEF Mine
    <3>3. IsFiniteSet(all)
      BY <3>2, <1>3, FS_Union
    <3> HIDE DEF all
    <3>4. Cardinality(all \ gone) <= Max
      BY <1>1, <3>3, EvictionBounds
    <3> QED BY <2>2, <3>1, <3>4
  <2>3. CASE q # o
    <3>1. Mine(q)' = Mine(q)
      BY <1>1, <1>3, <2>1, <2>3 DEF Mine
    <3> QED BY <3>1 DEF QueueInv, QueueBounded
  <2> QED BY <2>2, <2>3
<1>6. IdsUnique'
  <2>1. \A r \in rows : r.id \in Nat /\ r.id <= lastId
    BY <1>2 DEF QueueInv, IdsUnique, Row
  <2>2. \A r \in Inserted(o, dps) : r.id \in Nat
    BY <1>3 DEF Row
  <2>3. \A r \in rows' : r.id <= lastId'
    BY <1>1, <1>2, <1>3, <2>1, <2>2
  <2>4. \A r, s \in rows' : r.id = s.id => r = s
    <3> SUFFICES ASSUME NEW r \in rows', NEW s \in rows', r.id = s.id PROVE r = s
      OBVIOUS
    <3>1. CASE r \in rows /\ s \in rows
      BY <3>1 DEF QueueInv, IdsUnique
    <3>2. CASE r \in Inserted(o, dps) /\ s \in Inserted(o, dps)
      BY <3>2, <1>3
    <3>3. CASE r \in rows /\ s \in Inserted(o, dps)
      BY <3>3, <2>1, <2>2, <1>3, <1>2
    <3>4. CASE r \in Inserted(o, dps) /\ s \in rows
      BY <3>4, <2>1, <2>2, <1>3, <1>2
    <3> QED BY <3>1, <3>2, <3>3, <3>4, <1>1
  <2> QED BY <2>3, <2>4 DEF IdsUnique
<1> QED BY <1>4, <1>5, <1>6 DEF QueueInv

LEMMA QueueInitially == QueueInit => QueueInv
<1> SUFFICES ASSUME QueueInit PROVE QueueInv
  OBVIOUS
<1>1. rows = {} /\ lastId = 0
  BY DEF QueueInit
<1>2. \A o \in Outputs : Mine(o) = {}
  BY <1>1 DEF Mine
<1>3. \A o \in Outputs : Cardinality(Mine(o)) <= Max
  BY <1>2, FS_EmptySet, BackfillAssumption
<1> QED BY <1>1, <1>3, FS_EmptySet DEF QueueInv, QueueTypeOK, QueueBounded, IdsUnique

LEMMA QueueStepKeeps == QueueInv /\ [QueueNext]_queue => QueueInv'
<1> SUFFICES ASSUME QueueInv, [QueueNext]_queue PROVE QueueInv'
  OBVIOUS
<1>1. CASE UNCHANGED queue
  BY <1>1, RemovalKeeps DEF queue
<1>2. CASE QueueNext
  <2> PICK o \in Outputs :
         \/ \E dps \in Seq(Points) :
               \E gone \in SUBSET (rows \cup Inserted(o, dps)) : Save(o, dps, gone)
         \/ \E ids \in SUBSET Nat : Ack(o, ids)
         \/ DropOutput(o)
    BY <1>2 DEF QueueNext
  <2>1. CASE \E dps \in Seq(Points) :
                \E gone \in SUBSET (rows \cup Inserted(o, dps)) : Save(o, dps, gone)
    BY <2>1, SaveKeeps
  <2>2. CASE \E ids \in SUBSET Nat : Ack(o, ids)
    BY <2>2, RemovalKeeps DEF Ack
  <2>3. CASE DropOutput(o)
    BY <2>3, RemovalKeeps DEF DropOutput
  <2> QED BY <2>1, <2>2, <2>3
<1> QED BY <1>1, <1>2

(* An id names one row for ever: if read was once the row of its id, no later step    *)
(* puts another row under that id.                                                   *)
LEMMA IdNamesOneRow ==
    ASSUME QueueInv, [QueueNext]_queue, NEW read, read.id \in Nat, read.id <= lastId,
           \A r \in rows : r.id = read.id => r = read
    PROVE  /\ (read.id <= lastId)'
           /\ \A r \in rows' : r.id = read.id => r = read
<1>1. CASE rows' \subseteq rows /\ UNCHANGED lastId
  BY <1>1
<1>2. ASSUME NEW o \in Outputs, NEW dps \in Seq(Points), NEW gone, Save(o, dps, gone)
      PROVE  /\ (read.id <= lastId)'
             /\ \A r \in rows' : r.id = read.id => r = read
  <2>1. /\ rows' \subseteq rows \cup Inserted(o, dps)
        /\ lastId' = lastId + Len(dps)
    BY <1>2 DEF Save
  <2>2. lastId \in Nat /\ Len(dps) \in Nat
    BY DEF QueueInv, QueueTypeOK
  <2>3. \A r \in Inserted(o, dps) : r.id \in Nat /\ r.id > lastId
    BY <2>2, InsertedRows DEF Row
  <2>4. \A r \in Inserted(o, dps) : r.id # read.id
    BY <2>2, <2>3
  <2>5. (read.id <= lastId)'
    BY <2>1, <2>2
  <2> QED BY <2>1, <2>4, <2>5
<1>3. \/ rows' \subseteq rows /\ UNCHANGED lastId
      \/ \E o \in Outputs : \E dps \in Seq(Points) :
            \E gone \in SUBSET (rows \cup Inserted(o, dps)) : Save(o, dps, gone)
  BY DEF QueueNext, queue, Ack, DropOutput
<1> QED BY <1>1, <1>2, <1>3

(* The queue of every output stays within Store.max (backfill.go:19), its rows are   *)
(* well-formed and no two rows have one id, under any sequence of Save, Ack and      *)
(* DropOutput for any outputs.                                                       *)
THEOREM QueueInvariant == QueueSpec => [](QueueTypeOK /\ QueueBounded /\ IdsUnique)
<1>1. QueueSpec => []QueueInv
  BY QueueInitially, QueueStepKeeps, PTL DEF QueueSpec
<1>2. QueueInv => QueueTypeOK /\ QueueBounded /\ IdsUnique
  BY DEF QueueInv
<1> QED BY <1>1, <1>2, PTL

-----------------------------------------------------------------------------
(* The delivery path.                                                          *)

(* The thread that is at a place has the local variables of that place. *)
LEMMA FanAt ==
    ASSUME TypeOK, NEW p \in Publishers, fan[p].pc = "fan"
    PROVE  fan[p] \in [pc : {"fan"}, dp : Points, todo : SUBSET Slots]
BY DEF TypeOK, ThreadsTypeOK, FanType, Idle

LEMMA ReplayAt ==
    ASSUME TypeOK
    PROVE  /\ replay.pc = "scan" => replay \in [pc : {"scan"}, todo : SUBSET Slots]
           /\ replay.pc = "put" =>
                 replay \in [pc : {"put"}, todo : SUBSET Slots, slot : Slots,
                             items : SUBSET Row, acked : SUBSET Row]
BY DEF TypeOK, ThreadsTypeOK, ReplayType, Idle

LEMMA JobAt ==
    ASSUME TypeOK, NEW r \in Reloaders
    PROVE  /\ job[r].pc = "swap" => job[r] \in [pc : {"swap"}, new : SUBSET Slots]
           /\ job[r].pc = "stop" =>
                 job[r] \in [pc : {"stop"}, todo : SUBSET Slots, gone : SUBSET Outputs]
           /\ job[r].pc = "wait" =>
                 job[r] \in [pc : {"wait"}, slot : Slots, todo : SUBSET Slots,
                             gone : SUBSET Outputs]
BY DEF TypeOK, ThreadsTypeOK, JobType, Idle, Building

-----------------------------------------------------------------------------
LEMMA SaveOrLoseUsesQueue ==
    ASSUME NEW o \in Outputs, NEW dp \in Points, SaveOrLose(o, dp)
    PROVE  [QueueNext]_queue
<1>1. <<dp>> \in Seq(Points)
  OBVIOUS
<1>2. CASE \E gone \in SUBSET (Mine(o) \cup Inserted(o, <<dp>>)) : Save(o, <<dp>>, gone)
  <2>1. PICK gone \in SUBSET (Mine(o) \cup Inserted(o, <<dp>>)) : Save(o, <<dp>>, gone)
    BY <1>2
  <2>2. gone \in SUBSET (rows \cup Inserted(o, <<dp>>))
    BY DEF Mine
  <2> QED BY <1>1, <2>1, <2>2 DEF QueueNext
<1>3. CASE UNCHANGED queue
  BY <1>3
<1> QED BY <1>2, <1>3 DEF SaveOrLose

LEMMA StepUsesQueue ==
    ASSUME TypeOK, [Next]_vars
    PROVE  [QueueNext]_queue
<1> USE DEF queue
<1>1. ASSUME NEW p \in Publishers, NEW s \in Slots, PublishTo(p, s) PROVE [QueueNext]_queue
  <2>1. owner[s] \in Outputs /\ fan[p].dp \in Points
    BY <1>1, FanAt DEF PublishTo, TypeOK, SlotsTypeOK
  <2>2. UNCHANGED queue \/ SaveOrLose(owner[s], fan[p].dp)
    BY <1>1 DEF PublishTo, FanOut
  <2> QED BY <2>1, <2>2, SaveOrLoseUsesQueue
<1>2. ASSUME NEW s \in Slots, Send(s) PROVE [QueueNext]_queue
  <2>1. PICK e \in hand[s] : UNCHANGED queue \/ SaveOrLose(owner[s], e.dp)
    BY <1>2 DEF Send, SendFails
  <2>2. owner[s] \in Outputs /\ e.dp \in Points
    BY DEF TypeOK, SlotsTypeOK, Entry
  <2> QED BY <2>1, <2>2, SaveOrLoseUsesQueue
<1>3. ASSUME ReplayAck PROVE [QueueNext]_queue
  <2>1. owner[replay.slot] \in Outputs /\ {r.id : r \in Acked} \in SUBSET Nat
    BY <1>3, ReplayAt DEF ReplayAck, Acked, Row, TypeOK, SlotsTypeOK
  <2>2. UNCHANGED queue \/ Ack(owner[replay.slot], {r.id : r \in Acked})
    BY <1>3 DEF ReplayAck
  <2> QED BY <2>1, <2>2 DEF QueueNext
<1>4. ASSUME NEW r \in Reloaders, NEW o \in Outputs, DropRemoved(r, o) PROVE [QueueNext]_queue
  BY <1>4 DEF DropRemoved, QueueNext
<1>5. CASE UNCHANGED vars
  BY <1>5 DEF vars
<1>6. CASE Environment
  BY <1>6 DEF Environment, Publish, Edit, CloseBegins, Crash, Restart, Outage, Reconnect
<1>7. ASSUME NEW p \in Publishers, PublishReturns(p) PROVE [QueueNext]_queue
  BY <1>7 DEF PublishReturns
<1>8. ASSUME NEW s \in Slots, Take(s) \/ SlotExits(s) \/ ReplayPeek(s) PROVE [QueueNext]_queue
  BY <1>8 DEF Take, SlotExits, ReplayPeek
<1>9. CASE ReplayTick \/ ReplayPut \/ ReplayReturns
  BY <1>9 DEF ReplayTick, ReplayPut, ReplayReturns
<1>10. ASSUME NEW r \in Reloaders,
              Build(r) \/ Swap(r) \/ CloseOutput(r) \/ ReloadReturns(r)
       PROVE  [QueueNext]_queue
  BY <1>10 DEF Build, Swap, CloseOutput, ReloadReturns
<1>11. ASSUME NEW r \in Reloaders, NEW s \in Slots, Stop(r, s) PROVE [QueueNext]_queue
  BY <1>11 DEF Stop
<1>12. CASE CloseSwaps \/ Exit
  BY <1>12 DEF CloseSwaps, Exit, Restart
<1> HIDE DEF queue
<1> QED
  BY <1>1, <1>2, <1>3, <1>4, <1>5, <1>6, <1>7, <1>8, <1>9, <1>10, <1>11, <1>12
  DEF Next, Fan, SlotNext, ReplayNext, Reload

-----------------------------------------------------------------------------
(* Type correctness, one lemma for each group of state.                      *)

LEMMA GoneType ==
    ASSUME NEW o \in Outputs, NEW dps \in SUBSET Points, NEW cause \in Causes
    PROVE  Gone(o, dps, cause) \subseteq [output : Outputs, dp : Points, cause : Causes]
BY DEF Gone

LEMMA AbandonedType ==
    ASSUME NEW o \in Outputs, NEW S \in SUBSET Entry
    PROVE  Abandoned(o, S) \subseteq [output : Outputs, dp : Points, cause : Causes]
BY DEF Abandoned, Gone, Entry, Causes

LEMMA EntriesType ==
    ASSUME TypeOK, NEW s \in Slots
    PROVE  Entries(s) \subseteq Entry
BY DEF Entries, TypeOK, SlotsTypeOK

LEMMA PutType ==
    ASSUME TypeOK, NEW s \in Slots, NEW e \in Entry, HasRoom(s), Put(s, e)
    PROVE  /\ ch' \in [Slots -> Seq(Entry)]
           /\ \A t \in Slots : Len(ch'[t]) <= ChCap
           /\ lost' \subseteq [output : Outputs, dp : Points, cause : Causes]
<1>1. ch \in [Slots -> Seq(Entry)] /\ owner[s] \in Outputs
      /\ \A t \in Slots : Len(ch[t]) <= ChCap
  BY DEF TypeOK, SlotsTypeOK
<1>2. ch' = [ch EXCEPT ![s] = Append(ch[s], e)]
  BY DEF Put
<1>3. Append(ch[s], e) \in Seq(Entry) /\ Len(Append(ch[s], e)) <= ChCap
  BY <1>1, DeliveryAssumption DEF HasRoom
<1>4. lost' \subseteq lost \cup Abandoned(owner[s], {e})
  BY DEF Put
<1>5. lost' \subseteq [output : Outputs, dp : Points, cause : Causes]
  BY <1>1, <1>4, AbandonedType DEF TypeOK, HistoryTypeOK
<1> QED BY <1>1, <1>2, <1>3, <1>5

LEMMA SaveOrLoseType ==
    ASSUME TypeOK, NEW o \in Outputs, NEW dp \in Points, SaveOrLose(o, dp)
    PROVE  /\ lost' \subseteq [output : Outputs, dp : Points, cause : Causes]
           /\ faults' \in Nat
<1>1. lost \subseteq [output : Outputs, dp : Points, cause : Causes]
  BY DEF TypeOK, HistoryTypeOK
<1>2. faults \in Nat
  BY DEF TypeOK, HistoryTypeOK
<1>3. CASE \E gone \in SUBSET (Mine(o) \cup Inserted(o, <<dp>>)) :
              /\ lost' = lost \cup Gone(o, PointsOf(gone), "evicted")
              /\ UNCHANGED faults
  <2>1. PICK gone \in SUBSET (Mine(o) \cup Inserted(o, <<dp>>)) :
              /\ lost' = lost \cup Gone(o, PointsOf(gone), "evicted")
              /\ UNCHANGED faults
    BY <1>3
  <2>2. <<dp>> \in Seq(Points) /\ lastId \in Nat /\ Mine(o) \subseteq Row
    BY DEF TypeOK, QueueTypeOK, Mine
  <2>3. gone \subseteq Row
    BY <2>2, InsertedRows
  <2>4. PointsOf(gone) \subseteq Points
    BY <2>3 DEF PointsOf, Row
  <2> QED BY <1>1, <1>2, <2>1, <2>4, GoneType DEF Causes
<1>4. CASE Fault /\ lost' = lost \cup Gone(o, {dp}, "not saved")
  <2>1. Gone(o, {dp}, "not saved") \subseteq [output : Outputs, dp : Points, cause : Causes]
    BY GoneType DEF Causes
  <2>2. lost' = lost \cup Gone(o, {dp}, "not saved")
    BY <1>4
  <2>3. lost' \subseteq [output : Outputs, dp : Points, cause : Causes]
    BY <1>1, <2>1, <2>2
  <2>4. Fault
    BY <1>4
  <2>5. faults' = faults + 1
    BY <2>4 DEF Fault
  <2> QED BY <1>2, <2>3, <2>5
<1>5. \/ \E gone \in SUBSET (Mine(o) \cup Inserted(o, <<dp>>)) :
            /\ lost' = lost \cup Gone(o, PointsOf(gone), "evicted")
            /\ UNCHANGED faults
      \/ Fault /\ lost' = lost \cup Gone(o, {dp}, "not saved")
  BY DEF SaveOrLose
<1> QED BY <1>3, <1>4, <1>5

MemoryTypeOK ==
    /\ config \in [Outputs -> {"enabled", "disabled", "absent"}] /\ up \subseteq Outputs
    /\ SlotsTypeOK /\ ThreadsTypeOK /\ HistoryTypeOK

LEMMA InFlightType ==
    ASSUME TypeOK, NEW s \in Slots
    PROVE  InFlight(s) \subseteq Points
BY EntriesType DEF InFlight, PointsOf, Entry

LEMMA PublishToType ==
    ASSUME TypeOK, NEW p \in Publishers, NEW s \in Slots, PublishTo(p, s)
    PROVE  MemoryTypeOK'
<1>1. fan[p] \in [pc : {"fan"}, dp : Points, todo : SUBSET Slots]
  BY FanAt DEF PublishTo
<1>2. owner[s] \in Outputs /\ [dp |-> fan[p].dp, replayed |-> FALSE] \in Entry
  BY <1>1 DEF TypeOK, SlotsTypeOK, Entry
<1>3. /\ ch' \in [Slots -> Seq(Entry)] /\ \A t \in Slots : Len(ch'[t]) <= ChCap
      /\ lost' \subseteq [output : Outputs, dp : Points, cause : Causes]
      /\ faults' \in Nat
  <2>1. CASE /\ HasRoom(s) /\ Put(s, [dp |-> fan[p].dp, replayed |-> FALSE])
             /\ UNCHANGED faults
    BY <1>2, <2>1, PutType DEF TypeOK, HistoryTypeOK
  <2>2. CASE SaveOrLose(owner[s], fan[p].dp) /\ UNCHANGED ch
    BY <1>1, <1>2, <2>2, SaveOrLoseType DEF TypeOK, SlotsTypeOK
  <2> QED BY <2>1, <2>2 DEF PublishTo, FanOut
<1>4. SlotsTypeOK'
  BY <1>3 DEF PublishTo, TypeOK, SlotsTypeOK
<1>5. fan' \in [Publishers -> FanType]
  BY <1>1 DEF PublishTo, TypeOK, ThreadsTypeOK, FanType, Fanning
<1>6. ThreadsTypeOK'
  BY <1>5 DEF PublishTo, TypeOK, ThreadsTypeOK
<1>7. HistoryTypeOK'
  BY <1>1, <1>2, <1>3 DEF PublishTo, TypeOK, HistoryTypeOK
<1> QED BY <1>4, <1>6, <1>7 DEF PublishTo, TypeOK, MemoryTypeOK

LEMMA SlotNextType ==
    ASSUME TypeOK, NEW s \in Slots, SlotNext(s)
    PROVE  MemoryTypeOK'
<1>1. CASE Take(s)
  <2>1. ch[s] \in Seq(Entry) /\ ch[s] # <<>> /\ Len(ch[s]) <= ChCap
    BY <1>1 DEF Take, TypeOK, SlotsTypeOK
  <2>2. /\ Head(ch[s]) \in Entry /\ Tail(ch[s]) \in Seq(Entry)
        /\ Len(Tail(ch[s])) <= ChCap
    BY <2>1, DeliveryAssumption
  <2>3. SlotsTypeOK'
    BY <1>1, <2>2 DEF Take, TypeOK, SlotsTypeOK
  <2> QED BY <1>1, <2>3 DEF Take, TypeOK, MemoryTypeOK, ThreadsTypeOK, HistoryTypeOK, historyVars
<1>2. CASE Send(s)
  <2>1. PICK e \in hand[s] :
          /\ hand' = [hand EXCEPT ![s] = {}]
          /\ \/ /\ sent' = [sent EXCEPT ![owner[s]] = @ \cup {e.dp}]
                /\ UNCHANGED <<queue, lost, faults>>
             \/ SendFails(s, e) /\ UNCHANGED sent
    BY <1>2 DEF Send
  <2>2. owner[s] \in Outputs /\ e.dp \in Points
    BY DEF TypeOK, SlotsTypeOK, Entry
  <2>3. /\ lost' \subseteq [output : Outputs, dp : Points, cause : Causes]
        /\ faults' \in Nat
        /\ sent' \in [Outputs -> SUBSET Points]
    BY <2>1, <2>2, SaveOrLoseType DEF SendFails, TypeOK, HistoryTypeOK
  <2>4. SlotsTypeOK'
    BY <1>2, <2>1 DEF Send, TypeOK, SlotsTypeOK
  <2>5. HistoryTypeOK'
    BY <1>2, <2>3 DEF Send, TypeOK, HistoryTypeOK
  <2> QED BY <1>2, <2>4, <2>5 DEF Send, TypeOK, MemoryTypeOK, ThreadsTypeOK
<1>3. CASE SlotExits(s)
  <2>1. lost' \subseteq [output : Outputs, dp : Points, cause : Causes]
    BY <1>3, EntriesType, AbandonedType
    DEF SlotExits, TypeOK, SlotsTypeOK, HistoryTypeOK
  <2>2. SlotsTypeOK'
    BY <1>3 DEF SlotExits, TypeOK, SlotsTypeOK
  <2> QED BY <1>3, <2>1, <2>2 DEF SlotExits, TypeOK, MemoryTypeOK, ThreadsTypeOK, HistoryTypeOK
<1> QED BY <1>1, <1>2, <1>3 DEF SlotNext

LEMMA ReplayNextType ==
    ASSUME TypeOK, ReplayNext
    PROVE  MemoryTypeOK'
<1>1. CASE ReplayTick \/ ReplayReturns
  <2>1. replay' \in ReplayType
    BY <1>1 DEF ReplayTick, ReplayReturns, ReplayType, Scanning, TypeOK, SlotsTypeOK
  <2> QED BY <1>1, <2>1 DEF ReplayTick, ReplayReturns, slotVars, historyVars, TypeOK,
                            MemoryTypeOK, SlotsTypeOK, ThreadsTypeOK, HistoryTypeOK
<1>2. ASSUME NEW s \in Slots, ReplayPeek(s) PROVE MemoryTypeOK'
  <2>1. Peek(owner[s], Batch) \subseteq Row
    BY DEF Peek, Mine, TypeOK, QueueTypeOK
  <2>2. replay \in [pc : {"scan"}, todo : SUBSET Slots]
    BY <1>2, ReplayAt DEF ReplayPeek
  <2>3. \/ replay' = Putting(replay.todo \ {s}, s, Peek(owner[s], Batch), {})
        \/ replay' = Scanning(replay.todo \ {s})
    BY <1>2 DEF ReplayPeek
  <2>4. replay' \in ReplayType
    BY <2>1, <2>2, <2>3 DEF ReplayType, Putting, Scanning
  <2> QED BY <1>2, <2>4 DEF ReplayPeek, slotVars, historyVars, TypeOK,
                            MemoryTypeOK, SlotsTypeOK, ThreadsTypeOK, HistoryTypeOK
<1>3. CASE ReplayPut
  <2>1. replay \in [pc : {"put"}, todo : SUBSET Slots, slot : Slots,
                    items : SUBSET Row, acked : SUBSET Row]
    BY <1>3, ReplayAt DEF ReplayPut
  <2>2. PICK r \in replay.items :
          /\ Put(replay.slot, [dp |-> r.dp, replayed |-> TRUE])
          /\ replay' = Putting(replay.todo, replay.slot, replay.items \ {r},
                               replay.acked \cup {r})
    BY <1>3 DEF ReplayPut, Oldest
  <2>3. r \in Row /\ [dp |-> r.dp, replayed |-> TRUE] \in Entry
    BY <2>1 DEF Entry, Row
  <2>4. replay' \in ReplayType
    BY <2>1, <2>2, <2>3 DEF ReplayType, Putting
  <2>5. /\ ch' \in [Slots -> Seq(Entry)] /\ \A t \in Slots : Len(ch'[t]) <= ChCap
        /\ lost' \subseteq [output : Outputs, dp : Points, cause : Causes]
    BY <1>3, <2>1, <2>2, <2>3, PutType DEF ReplayPut
  <2>6. SlotsTypeOK'
    BY <1>3, <2>5 DEF ReplayPut, TypeOK, SlotsTypeOK
  <2> QED BY <1>3, <2>4, <2>5, <2>6 DEF ReplayPut, TypeOK, MemoryTypeOK, ThreadsTypeOK,
                                       HistoryTypeOK
<1>4. CASE ReplayAck
  <2>1. replay \in [pc : {"put"}, todo : SUBSET Slots, slot : Slots,
                    items : SUBSET Row, acked : SUBSET Row]
    BY <1>4, ReplayAt DEF ReplayAck
  <2>2. replay' \in ReplayType
    BY <1>4, <2>1 DEF ReplayAck, ReplayType, Scanning
  <2>3. faults' \in Nat
    BY <1>4 DEF ReplayAck, Fault, TypeOK, HistoryTypeOK
  <2> QED BY <1>4, <2>2, <2>3 DEF ReplayAck, slotVars, historyVars, TypeOK,
                            MemoryTypeOK, SlotsTypeOK, ThreadsTypeOK, HistoryTypeOK
<1> QED BY <1>1, <1>2, <1>3, <1>4 DEF ReplayNext

LEMMA BuildType ==
    ASSUME TypeOK, NEW r \in Reloaders, Build(r)
    PROVE  MemoryTypeOK'
<1>1. CASE job' = [job EXCEPT ![r] = Idle] /\ UNCHANGED slotVars
  BY <1>1 DEF Build, slotVars, historyVars, TypeOK, MemoryTypeOK, SlotsTypeOK, ThreadsTypeOK,
              HistoryTypeOK, JobType
<1>2. CASE ~(job' = [job EXCEPT ![r] = Idle] /\ UNCHANGED slotVars)
  <2>1. \A built : Assignments(built) # {} =>
          (CHOOSE g \in Assignments(built) : TRUE) \in Assignments(built)
    OBVIOUS
  <2>2. PICK built \in SUBSET Enabled : \E f \in Assignments(built) :
          \E new : /\ new = {f[o] : o \in built}
                   /\ owner' = [s \in Slots |-> IF s \in new
                                   THEN CHOOSE o \in built : f[o] = s ELSE owner[s]]
                   /\ phase' = [s \in Slots |-> IF s \in new THEN "on" ELSE phase[s]]
                   /\ ch'    = [s \in Slots |-> IF s \in new THEN <<>> ELSE ch[s]]
                   /\ hand'  = [s \in Slots |-> IF s \in new THEN {} ELSE hand[s]]
                   /\ job'   = [job EXCEPT ![r] = Swapping(new)]
    <3>1. PICK built \in SUBSET Enabled :
            /\ Assignments(built) # {}
            /\ LET f   == CHOOSE g \in Assignments(built) : TRUE
                   new == {f[o] : o \in built}
               IN  /\ owner' = [s \in Slots |-> IF s \in new
                                   THEN CHOOSE o \in built : f[o] = s ELSE owner[s]]
                   /\ phase' = [s \in Slots |-> IF s \in new THEN "on" ELSE phase[s]]
                   /\ ch'    = [s \in Slots |-> IF s \in new THEN <<>> ELSE ch[s]]
                   /\ hand'  = [s \in Slots |-> IF s \in new THEN {} ELSE hand[s]]
                   /\ job'   = [job EXCEPT ![r] = Swapping(new)]
      BY <1>2 DEF Build
    <3> WITNESS built \in SUBSET Enabled
    <3> DEFINE f == CHOOSE g \in Assignments(built) : TRUE
    <3>2. f \in Assignments(built)
      BY <2>1, <3>1
    <3> WITNESS f \in Assignments(built)
    <3> WITNESS {f[o] : o \in built}
    <3> QED BY <3>1
  <2>3a. PICK f \in Assignments(built) :
          \E new : /\ new = {f[o] : o \in built}
                   /\ owner' = [s \in Slots |-> IF s \in new
                                   THEN CHOOSE o \in built : f[o] = s ELSE owner[s]]
                   /\ phase' = [s \in Slots |-> IF s \in new THEN "on" ELSE phase[s]]
                   /\ ch'    = [s \in Slots |-> IF s \in new THEN <<>> ELSE ch[s]]
                   /\ hand'  = [s \in Slots |-> IF s \in new THEN {} ELSE hand[s]]
                   /\ job'   = [job EXCEPT ![r] = Swapping(new)]
    BY <2>2
  <2>3. PICK new :
                   /\ new = {f[o] : o \in built}
                   /\ owner' = [s \in Slots |-> IF s \in new
                                   THEN CHOOSE o \in built : f[o] = s ELSE owner[s]]
                   /\ phase' = [s \in Slots |-> IF s \in new THEN "on" ELSE phase[s]]
                   /\ ch'    = [s \in Slots |-> IF s \in new THEN <<>> ELSE ch[s]]
                   /\ hand'  = [s \in Slots |-> IF s \in new THEN {} ELSE hand[s]]
                   /\ job'   = [job EXCEPT ![r] = Swapping(new)]
    BY <2>3a
  <2>4. new \subseteq Slots /\ built \subseteq Outputs
    BY <2>3 DEF Assignments, Available, Enabled
  <2>5. \A s \in new : (CHOOSE o \in built : f[o] = s) \in Outputs
    BY <2>3, <2>4
  <2>6. owner' \in [Slots -> Outputs]
    BY <2>3, <2>5 DEF TypeOK, SlotsTypeOK
  <2>7. /\ phase' \in [Slots -> {"free", "on", "stopping", "exited", "closed"}]
        /\ hand' \in [Slots -> SUBSET Entry]
    BY <2>3 DEF TypeOK, SlotsTypeOK
  <2>8. <<>> \in Seq(Entry) /\ Len(<<>>) <= ChCap
    BY DeliveryAssumption
  <2>9. ch' \in [Slots -> Seq(Entry)] /\ \A s \in Slots : Len(ch'[s]) <= ChCap
    BY <2>3, <2>8 DEF TypeOK, SlotsTypeOK
  <2>10. job' \in [Reloaders -> JobType]
    BY <2>3, <2>4 DEF JobType, Swapping, TypeOK, ThreadsTypeOK
  <2> QED
    BY <2>6, <2>7, <2>9, <2>10 DEF Build, historyVars, TypeOK, MemoryTypeOK, SlotsTypeOK,
                                   ThreadsTypeOK, HistoryTypeOK
<1> QED BY <1>1, <1>2

LEMMA ReloadType ==
    ASSUME TypeOK, NEW r \in Reloaders, Reload(r)
    PROVE  MemoryTypeOK'
<1> USE DEF slotVars, historyVars
<1>1. CASE Swap(r)
  <2>1. job[r] \in [pc : {"swap"}, new : SUBSET Slots]
    BY <1>1, JobAt DEF Swap
  <2>2. OutputsOf(Old(r)) \subseteq Outputs
    BY DEF OutputsOf, Old, TypeOK, SlotsTypeOK
  <2>3. job' \in [Reloaders -> JobType] /\ active' \subseteq Slots
    BY <1>1, <2>1, <2>2 DEF Swap, Old, Stopping, JobType, TypeOK, SlotsTypeOK, ThreadsTypeOK
  <2> QED BY <1>1, <2>3 DEF Swap, TypeOK, MemoryTypeOK, SlotsTypeOK, ThreadsTypeOK, HistoryTypeOK
<1>2. ASSUME NEW s \in Slots, Stop(r, s) PROVE MemoryTypeOK'
  <2>1. job[r] \in [pc : {"stop"}, todo : SUBSET Slots, gone : SUBSET Outputs]
    BY <1>2, JobAt DEF Stop
  <2>2. job' \in [Reloaders -> JobType]
    BY <1>2, <2>1 DEF Stop, Waiting, JobType, TypeOK, ThreadsTypeOK
  <2> QED BY <1>2, <2>2 DEF Stop, TypeOK, MemoryTypeOK, SlotsTypeOK, ThreadsTypeOK, HistoryTypeOK
<1>3. CASE CloseOutput(r)
  <2>1. job[r] \in [pc : {"wait"}, slot : Slots, todo : SUBSET Slots, gone : SUBSET Outputs]
    BY <1>3, JobAt DEF CloseOutput
  <2>2. job' \in [Reloaders -> JobType]
    BY <1>3, <2>1 DEF CloseOutput, Stopping, JobType, TypeOK, ThreadsTypeOK
  <2> QED BY <1>3, <2>2 DEF CloseOutput, TypeOK, MemoryTypeOK, SlotsTypeOK, ThreadsTypeOK,
                            HistoryTypeOK
<1>4. ASSUME NEW o \in Outputs, DropRemoved(r, o) PROVE MemoryTypeOK'
  <2>1. job[r] \in [pc : {"stop"}, todo : SUBSET Slots, gone : SUBSET Outputs]
    BY <1>4, JobAt DEF DropRemoved, Stopped
  <2>2. job' \in [Reloaders -> JobType]
    BY <1>4, <2>1 DEF DropRemoved, Stopping, JobType, TypeOK, ThreadsTypeOK
  <2>3. PointsOf(Mine(o)) \subseteq Points
    BY DEF PointsOf, Mine, Row, TypeOK, QueueTypeOK
  <2>4. Gone(o, PointsOf(Mine(o)), "dropped")
          \subseteq [output : Outputs, dp : Points, cause : Causes]
    BY <2>3, GoneType DEF Causes
  <2>5. /\ lost' \subseteq [output : Outputs, dp : Points, cause : Causes]
        /\ faults' \in Nat
    BY <1>4, <2>4 DEF DropRemoved, Fault, TypeOK, HistoryTypeOK
  <2> QED BY <1>4, <2>2, <2>5 DEF DropRemoved, TypeOK, MemoryTypeOK, SlotsTypeOK,
                                  ThreadsTypeOK, HistoryTypeOK
<1>5. CASE ReloadReturns(r)
  BY <1>5 DEF ReloadReturns, JobType, TypeOK, MemoryTypeOK, SlotsTypeOK, ThreadsTypeOK,
              HistoryTypeOK
<1> QED BY BuildType, <1>1, <1>2, <1>3, <1>4, <1>5 DEF Reload

LEMMA RestartType ==
    ASSUME TypeOK, Restart, faults' \in Nat
    PROVE  MemoryTypeOK'
<1>1. SlotsTypeOK'
  <2>1. <<>> \in Seq(Entry) /\ Len(<<>>) <= ChCap
    BY DeliveryAssumption
  <2>2. ch' \in [Slots -> Seq(Entry)] /\ \A s \in Slots : Len(ch'[s]) <= ChCap
    BY <2>1 DEF Restart
  <2> QED BY <2>2 DEF Restart, TypeOK, SlotsTypeOK
<1>2. ThreadsTypeOK'
  BY DEF Restart, ThreadsTypeOK, FanType, ReplayType, JobType
<1>3. HistoryTypeOK'
  <2>1. ASSUME NEW s \in Slots
        PROVE  Gone(owner[s], InFlight(s), "exit")
                 \subseteq [output : Outputs, dp : Points, cause : Causes]
    BY InFlightType, GoneType DEF Causes, TypeOK, SlotsTypeOK
  <2>2. UNION {Gone(owner[s], InFlight(s), "exit") : s \in Slots}
          \subseteq [output : Outputs, dp : Points, cause : Causes]
    BY <2>1
  <2>3. lost' \subseteq [output : Outputs, dp : Points, cause : Causes]
    BY <2>2 DEF Restart, TypeOK, HistoryTypeOK
  <2> QED BY <2>3 DEF Restart, TypeOK, HistoryTypeOK
<1> QED BY <1>1, <1>2, <1>3 DEF Restart, TypeOK, MemoryTypeOK

LEMMA EnvironmentType ==
    ASSUME TypeOK, Environment
    PROVE  MemoryTypeOK'
<1> USE DEF slotVars, historyVars
<1>1. ASSUME NEW p \in Publishers, NEW dp \in Points, Publish(p, dp) PROVE MemoryTypeOK'
  <2>1. fan' \in [Publishers -> FanType]
    BY <1>1 DEF Publish, Fanning, FanType, TypeOK, SlotsTypeOK, ThreadsTypeOK
  <2> QED BY <1>1, <2>1 DEF Publish, TypeOK, MemoryTypeOK, SlotsTypeOK, ThreadsTypeOK,
                            HistoryTypeOK
<1>2. ASSUME NEW r \in Reloaders, NEW o \in Outputs, NEW c \in Settings, Edit(r, o, c)
      PROVE  MemoryTypeOK'
  <2>1. c \in {"enabled", "disabled", "absent"}
    BY DeliveryAssumption
  <2>2. job' \in [Reloaders -> JobType]
    BY <1>2 DEF Edit, JobType, TypeOK, ThreadsTypeOK
  <2>3. reloads' \in Nat
    BY <1>2 DEF Edit, TypeOK, HistoryTypeOK
  <2> QED BY <1>2, <2>1, <2>2, <2>3 DEF Edit, TypeOK, MemoryTypeOK, SlotsTypeOK,
                                        ThreadsTypeOK, HistoryTypeOK
<1>3. CASE CloseBegins
  <2>1. job' \in [Reloaders -> JobType]
    BY <1>3 DEF CloseBegins, JobType, TypeOK, ThreadsTypeOK
  <2>2. reloads' \in Nat
    BY <1>3 DEF CloseBegins, TypeOK, HistoryTypeOK
  <2> QED BY <1>3, <2>1, <2>2 DEF CloseBegins, TypeOK, MemoryTypeOK, SlotsTypeOK,
                                  ThreadsTypeOK, HistoryTypeOK
<1>4. CASE Crash
  <2>1. faults \in Nat
    BY DEF TypeOK, HistoryTypeOK
  <2>2. faults' \in Nat
    BY <1>4, <2>1 DEF Crash, Fault
  <2> QED BY <1>4, <2>2, RestartType DEF Crash
<1>5. ASSUME NEW o \in Outputs, Outage(o) \/ Reconnect(o) PROVE MemoryTypeOK'
  <2>1. faults \in Nat
    BY DEF TypeOK, HistoryTypeOK
  <2>2. faults' \in Nat
    BY <1>5, <2>1 DEF Outage, Reconnect, Fault
  <2> QED BY <1>5, <2>2 DEF Outage, Reconnect, TypeOK, MemoryTypeOK, SlotsTypeOK,
                            ThreadsTypeOK, HistoryTypeOK
<1> QED BY <1>1, <1>2, <1>3, <1>4, <1>5 DEF Environment

LEMMA StepType ==
    ASSUME TypeOK, [Next]_vars
    PROVE  MemoryTypeOK'
<1> USE DEF slotVars, historyVars
<1>1. CASE UNCHANGED vars
  BY <1>1 DEF vars, TypeOK, MemoryTypeOK, SlotsTypeOK, ThreadsTypeOK, HistoryTypeOK
<1>2. ASSUME NEW p \in Publishers, PublishReturns(p) PROVE MemoryTypeOK'
  BY <1>2 DEF PublishReturns, FanType, TypeOK, MemoryTypeOK, SlotsTypeOK, ThreadsTypeOK,
              HistoryTypeOK
<1>3. CASE CloseSwaps
  <2>1. job' \in [Reloaders -> JobType] /\ active' \subseteq Slots
    BY <1>3 DEF CloseSwaps, Stopping, JobType, TypeOK, SlotsTypeOK, ThreadsTypeOK
  <2> QED BY <1>3, <2>1 DEF CloseSwaps, TypeOK, MemoryTypeOK, SlotsTypeOK, ThreadsTypeOK,
                            HistoryTypeOK
<1>4. CASE Exit
  <2>1. faults' \in Nat
    BY <1>4 DEF Exit, TypeOK, HistoryTypeOK
  <2> QED BY <1>4, <2>1, RestartType DEF Exit
<1> QED
  BY <1>1, <1>2, <1>3, <1>4, EnvironmentType, PublishToType, SlotNextType, ReplayNextType,
     ReloadType
  DEF Next, Fan

LEMMA InitType == Init => TypeOK /\ QueueInv
<1> SUFFICES ASSUME Init PROVE TypeOK /\ QueueInv
  OBVIOUS
<1>1. QueueInv
  BY QueueInitially DEF Init
<1>2. SlotsTypeOK
  <2>1. <<>> \in Seq(Entry) /\ Len(<<>>) <= ChCap
    BY DeliveryAssumption
  <2>2. ch \in [Slots -> Seq(Entry)] /\ \A s \in Slots : Len(ch[s]) <= ChCap
    BY <2>1 DEF Init
  <2>3. owner \in [Slots -> Outputs]
    BY DeliveryAssumption DEF Init
  <2> QED BY <2>2, <2>3 DEF Init, SlotsTypeOK
<1>3. ThreadsTypeOK
  BY DEF Init, ThreadsTypeOK, FanType, ReplayType, JobType
<1>4. HistoryTypeOK
  BY DEF Init, HistoryTypeOK
<1> QED BY <1>1, <1>2, <1>3, <1>4 DEF QueueInv, Init, TypeOK

-----------------------------------------------------------------------------
DeliveryInv == TypeOK /\ QueueInv

LEMMA DeliveryInvStep == DeliveryInv /\ [Next]_vars => DeliveryInv'
<1> SUFFICES ASSUME DeliveryInv, [Next]_vars PROVE DeliveryInv'
  OBVIOUS
<1>1. QueueInv'
  BY StepUsesQueue, QueueStepKeeps DEF DeliveryInv
<1>2. MemoryTypeOK'
  BY StepType DEF DeliveryInv
<1> QED BY <1>1, <1>2 DEF DeliveryInv, QueueInv, TypeOK, MemoryTypeOK

LEMMA DeliveryInvariant == Spec => []DeliveryInv
<1>1. Init => DeliveryInv
  BY InitType DEF DeliveryInv
<1> QED BY <1>1, DeliveryInvStep, PTL DEF Spec

(* Every variable of the delivery path keeps its type; in particular no slot's queue *)
(* ever holds more than queueSize entries.                                           *)
THEOREM TypeCorrect == Spec => []TypeOK
<1>1. DeliveryInv => TypeOK
  BY DEF DeliveryInv
<1> QED BY <1>1, DeliveryInvariant, PTL

(* Whatever publishers, slots, replay, reloads, crashes and restarts do, and in any  *)
(* order, the durable queue sees a sequence of Save, Ack and DropOutput: the         *)
(* delivery path implements the queue's specification.                               *)
THEOREM ImplementsQueue == Spec => QueueSpec
<1>1. Init => QueueInit
  BY DEF Init
<1>2. TypeOK /\ [Next]_vars => [QueueNext]_queue
  BY StepUsesQueue
<1> QED BY <1>1, <1>2, TypeCorrect, PTL DEF Spec, QueueSpec

(* The disk stays bounded: no output ever has more than Max rows (backfill.go:19).   *)
THEOREM DurableQueueBounded == Spec => []QueueBounded
BY ImplementsQueue, QueueInvariant, PTL

-----------------------------------------------------------------------------
(* The replay's local variables are stale copies of rows.  What makes the            *)
(* acknowledgment exact is that ids are never used again, so that the id of a copy   *)
(* is at most lastId and names, if any row, the row that was read.                   *)
ReadRows == IF replay.pc = "put" THEN replay.items \cup replay.acked ELSE {}

CopiesExact ==
    \A read \in ReadRows : /\ read \in Row
                           /\ read.id <= lastId
                           /\ \A r \in rows : r.id = read.id => r = read

(* What a step does to the replay. *)
LEMMA ReplayCases ==
    ASSUME [Next]_vars
    PROVE  \/ UNCHANGED replay
           \/ replay' = Idle
           \/ \E todo : replay' = Scanning(todo)
           \/ \E s \in Slots : ReplayPeek(s)
           \/ ReplayPut
<1>1. CASE ReplayTick \/ ReplayAck \/ ReplayReturns
  BY <1>1 DEF ReplayTick, ReplayAck, ReplayReturns
<1>2. CASE Environment
  BY <1>2 DEF Environment, Publish, Edit, CloseBegins, Crash, Restart, Outage, Reconnect
<1>3. ASSUME NEW p \in Publishers, Fan(p) PROVE UNCHANGED replay
  BY <1>3 DEF Fan, PublishReturns, PublishTo
<1>4. ASSUME NEW s \in Slots, SlotNext(s) PROVE UNCHANGED replay
  BY <1>4 DEF SlotNext, Take, Send, SlotExits
<1>5. ASSUME NEW r \in Reloaders, Reload(r) PROVE UNCHANGED replay
  BY <1>5 DEF Reload, Build, Swap, Stop, CloseOutput, DropRemoved, ReloadReturns
<1>6. CASE CloseSwaps \/ Exit
  BY <1>6 DEF CloseSwaps, Exit, Restart
<1>7. CASE UNCHANGED vars
  BY <1>7 DEF vars
<1> QED BY <1>1, <1>2, <1>3, <1>4, <1>5, <1>6, <1>7 DEF Next, ReplayNext

LEMMA ReadRowsStep ==
    ASSUME DeliveryInv, [Next]_vars
    PROVE  ReadRows' \subseteq ReadRows \/ (ReadRows' \subseteq rows /\ UNCHANGED queue)
<1>1. CASE UNCHANGED replay \/ replay' = Idle
  BY <1>1 DEF ReadRows, Idle
<1>2. ASSUME NEW todo, replay' = Scanning(todo) PROVE ReadRows' \subseteq ReadRows
  BY <1>2 DEF ReadRows, Scanning
<1>3. ASSUME NEW s \in Slots, ReplayPeek(s)
      PROVE  ReadRows' \subseteq ReadRows \/ (ReadRows' \subseteq rows /\ UNCHANGED queue)
  <2>1. CASE replay' = Putting(replay.todo \ {s}, s, Peek(owner[s], Batch), {})
    <3>1. ReadRows' \subseteq Peek(owner[s], Batch)
      BY <2>1 DEF ReadRows, Putting
    <3>2. Peek(owner[s], Batch) \subseteq rows
      BY DEF Peek, Mine
    <3> QED BY <1>3, <3>1, <3>2 DEF ReplayPeek
  <2> QED BY <1>2, <1>3, <2>1 DEF ReplayPeek
<1>4. CASE ReplayPut
  <2>1. PICK r \in replay.items :
          replay' = Putting(replay.todo, replay.slot, replay.items \ {r}, replay.acked \cup {r})
    BY <1>4 DEF ReplayPut, Oldest
  <2> QED BY <1>4, <2>1 DEF ReadRows, Putting, ReplayPut
<1> QED BY <1>1, <1>2, <1>3, <1>4, ReplayCases

LEMMA CopiesExactStep == DeliveryInv /\ CopiesExact /\ [Next]_vars => CopiesExact'
<1> SUFFICES ASSUME DeliveryInv, CopiesExact, [Next]_vars, NEW read \in ReadRows'
             PROVE  /\ read \in Row
                    /\ (read.id <= lastId)'
                    /\ \A r \in rows' : r.id = read.id => r = read
  BY DEF CopiesExact
<1>1. [QueueNext]_queue
  BY StepUsesQueue DEF DeliveryInv
<1>2. CASE read \in ReadRows
  <2>1. read \in Row /\ read.id \in Nat /\ read.id <= lastId
        /\ \A r \in rows : r.id = read.id => r = read
    BY <1>2 DEF CopiesExact, Row
  <2> QED BY <1>1, <2>1, IdNamesOneRow DEF DeliveryInv
<1>3. CASE read \in rows /\ UNCHANGED queue
  BY <1>3 DEF DeliveryInv, QueueInv, QueueTypeOK, IdsUnique, queue
<1> QED BY <1>2, <1>3, ReadRowsStep

(* An acknowledgment deletes the rows that were read and handed over and no other,   *)
(* however long after the reading it comes and whatever was saved, evicted or        *)
(* dropped in between (manager.go:237-261, backfill.go:146-203).                     *)
THEOREM AckExact == Spec => []AckIsExact
<1>1. Init => CopiesExact
  BY DEF Init, CopiesExact, ReadRows, Idle
<1>2. CopiesExact => AckIsExact
  BY DEF CopiesExact, ReadRows, AckIsExact
<1> QED BY <1>1, <1>2, CopiesExactStep, DeliveryInvariant, PTL DEF Spec

-----------------------------------------------------------------------------
LEMMA ClosedIsQuietStep == TypeOK /\ ClosedIsQuiet /\ [Next]_vars => ClosedIsQuiet'
<1> SUFFICES ASSUME TypeOK, ClosedIsQuiet, [Next]_vars PROVE ClosedIsQuiet'
  OBVIOUS
<1> USE DEF ClosedIsQuiet
<1>0. phase \in [Slots -> {"free", "on", "stopping", "exited", "closed"}]
      /\ hand \in [Slots -> SUBSET Entry]
  BY DEF TypeOK, SlotsTypeOK
<1>1. CASE UNCHANGED <<phase, hand>>
  BY <1>1
<1>2. ASSUME NEW s \in Slots, Take(s) PROVE ClosedIsQuiet'
  BY <1>0, <1>2 DEF Take, Live
<1>3. ASSUME NEW s \in Slots, Send(s) PROVE ClosedIsQuiet'
  BY <1>0, <1>3 DEF Send
<1>4. ASSUME NEW s \in Slots, SlotExits(s) PROVE ClosedIsQuiet'
  BY <1>0, <1>4 DEF SlotExits
<1>5. ASSUME NEW r \in Reloaders, Build(r) PROVE ClosedIsQuiet'
  <2>1. CASE UNCHANGED slotVars
    BY <2>1 DEF slotVars
  <2>2. CASE ~UNCHANGED slotVars
    <3>1. \E new : /\ phase' = [s \in Slots |-> IF s \in new THEN "on" ELSE phase[s]]
                   /\ hand'  = [s \in Slots |-> IF s \in new THEN {} ELSE hand[s]]
      BY <1>5, <2>2 DEF Build
    <3> QED BY <1>0, <3>1
  <2> QED BY <2>1, <2>2
<1>6. ASSUME NEW r \in Reloaders, NEW s \in Slots, Stop(r, s) PROVE ClosedIsQuiet'
  BY <1>0, <1>6 DEF Stop
<1>7. ASSUME NEW r \in Reloaders, CloseOutput(r) PROVE ClosedIsQuiet'
  <2>1. job[r].slot \in Slots
    BY <1>7, JobAt DEF CloseOutput
  <2>2. phase[job[r].slot] = "exited"
    BY <1>7 DEF CloseOutput, MayClose
  <2> QED BY <1>0, <1>7, <2>1, <2>2 DEF CloseOutput
<1>8. CASE Environment
  <2>1. CASE Crash
    BY <2>1 DEF Crash, Restart
  <2>2. CASE ~Crash
    BY <1>1, <1>8, <2>2
    DEF Environment, Publish, Edit, CloseBegins, Outage, Reconnect, slotVars
  <2> QED BY <2>1, <2>2
<1>9. CASE CloseSwaps \/ Exit
  BY <1>1, <1>9 DEF CloseSwaps, Exit, Restart, slotVars
<1>10. ASSUME NEW p \in Publishers, Fan(p) PROVE UNCHANGED <<phase, hand>>
  BY <1>10 DEF Fan, PublishReturns, PublishTo, slotVars
<1>11. CASE ReplayNext
  BY <1>1, <1>11
  DEF ReplayNext, ReplayTick, ReplayPeek, ReplayPut, ReplayAck, ReplayReturns, slotVars
<1>12. ASSUME NEW r \in Reloaders,
              \/ Swap(r) \/ ReloadReturns(r) \/ \E o \in Outputs : DropRemoved(r, o)
       PROVE  UNCHANGED <<phase, hand>>
  BY <1>12 DEF Swap, ReloadReturns, DropRemoved, slotVars
<1>13. CASE UNCHANGED vars
  BY <1>1, <1>13 DEF vars, slotVars
<1> QED
  BY <1>1, <1>2, <1>3, <1>4, <1>5, <1>6, <1>7, <1>8, <1>9, <1>10, <1>11, <1>12, <1>13
  DEF Next, SlotNext, Reload

(* An output is never used in or after its Close: its slot's goroutine has exited    *)
(* with nothing in hand when Close runs, and takes nothing more (manager.go:389-395).*)
THEOREM ClosedQuiet == Spec => []ClosedIsQuiet
<1>1. Init => ClosedIsQuiet
  BY DEF Init, ClosedIsQuiet
<1> QED BY <1>1, ClosedIsQuietStep, TypeCorrect, PTL DEF Spec

-----------------------------------------------------------------------------
(* Nothing vanishes.  A point of an output is settled if it was sent, was    *)
(* given up, or is with a publishing goroutine of that output that runs; and *)
(* covered if it is settled or durable in a row outside S.  With S = {} this *)
(* is the property.  With S the rows that the replay has handed over and not *)
(* yet acknowledged it is what makes the acknowledgment safe: their points   *)
(* are covered without them.                                                 *)
IsLost(o, x) == \E l \in lost : l.output = o /\ l.dp = x

Settled(o, x) ==
    \/ x \in sent[o]
    \/ IsLost(o, x)
    \/ \E s \in Slots : owner[s] = o /\ Live(s) /\ \E e \in Entries(s) : e.dp = x

Covered(o, S, x) == Settled(o, x) \/ \E r \in rows \ S : r.output = o /\ r.dp = x

HandOne == \A s \in Slots : \A e, f \in hand[s] : e = f

AcceptedKept == \A o \in Outputs : \A x \in accepted[o] : Covered(o, {}, x)

AckedKept ==
    replay.pc = "put" =>
        \A r \in replay.acked : Covered(owner[replay.slot], replay.acked, r.dp)

KeptInv == DeliveryInv /\ CopiesExact /\ HandOne /\ AcceptedKept /\ AckedKept

(* A step that takes no entry out of a slot that runs. *)
Grows ==
    /\ \A o \in Outputs : sent[o] \subseteq sent'[o]
    /\ lost \subseteq lost'
    /\ \A s \in Slots :
          Live(s) => Live(s)' /\ owner'[s] = owner[s] /\ Entries(s) \subseteq Entries(s)'

LEMMA SettledGrows ==
    ASSUME Grows, NEW o \in Outputs, NEW x, Settled(o, x)
    PROVE  Settled(o, x)'
BY DEF Grows, Settled, IsLost

LEMMA CoveredGrows ==
    ASSUME Grows, UNCHANGED queue, NEW o \in Outputs, NEW S, NEW x, Covered(o, S, x)
    PROVE  Covered(o, S, x)'
BY SettledGrows DEF Covered, queue

LEMMA GoneLost ==
    ASSUME NEW o, NEW dps, NEW cause, Gone(o, dps, cause) \subseteq lost', NEW x \in dps
    PROVE  IsLost(o, x)'
<1>1. [output |-> o, dp |-> x, cause |-> cause] \in lost'
  BY DEF Gone
<1> QED BY <1>1 DEF IsLost

LEMMA AbandonedLost ==
    ASSUME NEW o, NEW S, Abandoned(o, S) \subseteq lost', NEW e \in S
    PROVE  IsLost(o, e.dp)'
<1>1. CASE e.replayed
  <2>1. e.dp \in {f.dp : f \in {f \in S : f.replayed}}
    BY <1>1
  <2> QED BY <2>1, GoneLost DEF Abandoned
<1>2. CASE ~e.replayed
  <2>1. e.dp \in {f.dp : f \in {f \in S : ~f.replayed}}
    BY <1>2
  <2> QED BY <2>1, GoneLost DEF Abandoned
<1> QED BY <1>1, <1>2

(* A point that is saved becomes a row with a new id, and the rows that are evicted  *)
(* for it are given up: also the one that was just saved, if it is among them.       *)
LEMMA SaveOrLoseCovers ==
    ASSUME DeliveryInv, NEW o \in Outputs, NEW dp \in Points, SaveOrLose(o, dp),
           NEW S, \A r \in S : r \in Row /\ r.id <= lastId
    PROVE  /\ lost \subseteq lost'
           /\ \A r \in rows \ S : r \in rows' \ S \/ IsLost(r.output, r.dp)'
           /\ IsLost(o, dp)' \/ \E r \in rows' \ S : r.output = o /\ r.dp = dp
<1>1. CASE \E gone \in SUBSET (Mine(o) \cup Inserted(o, <<dp>>)) :
              /\ Save(o, <<dp>>, gone)
              /\ lost' = lost \cup Gone(o, PointsOf(gone), "evicted")
  <2>1. PICK gone \in SUBSET (Mine(o) \cup Inserted(o, <<dp>>)) :
              /\ Save(o, <<dp>>, gone)
              /\ lost' = lost \cup Gone(o, PointsOf(gone), "evicted")
    BY <1>1
  <2>2. rows' = (rows \cup Inserted(o, <<dp>>)) \ gone
    BY <2>1 DEF Save
  <2>3. /\ lastId \in Nat
        /\ \A r \in Inserted(o, <<dp>>) : r.output = o /\ r.id > lastId
        /\ Inserted(o, <<dp>>) \subseteq Row
    <3>1. <<dp>> \in Seq(Points)
      OBVIOUS
    <3>2. lastId \in Nat
      BY DEF DeliveryInv, QueueInv, QueueTypeOK
    <3> QED BY <3>1, <3>2, InsertedRows
  <2>4. ASSUME NEW r \in gone PROVE r.output = o /\ IsLost(o, r.dp)'
    <3>1. r.output = o
      BY <2>3 DEF Mine
    <3>2. r.dp \in PointsOf(gone)
      BY DEF PointsOf
    <3> QED BY <2>1, <3>1, <3>2, GoneLost
  <2>5. DEFINE new == [id |-> lastId + 1, output |-> o, dp |-> dp]
  <2>6. new \in Inserted(o, <<dp>>)
    BY DEF Inserted, NewId
  <2>7. new \notin S /\ new.output = o /\ new.dp = dp
    BY <2>3, <2>6
  <2>8. new \in rows' \ S \/ new \in gone
    BY <2>2, <2>6, <2>7
  <2>9. IsLost(o, dp)' \/ \E r \in rows' \ S : r.output = o /\ r.dp = dp
    BY <2>4, <2>7, <2>8
  <2> QED BY <2>1, <2>2, <2>4, <2>9
<1>2. CASE lost' = lost \cup Gone(o, {dp}, "not saved") /\ UNCHANGED queue
  <2>1. IsLost(o, dp)'
    BY <1>2, GoneLost
  <2> QED BY <1>2, <2>1 DEF queue
<1> QED BY <1>1, <1>2 DEF SaveOrLose

(* An entry that is put into a slot is there, or given up if the slot has stopped.   *)
LEMMA PutCovers ==
    ASSUME TypeOK, NEW s \in Slots, NEW e \in Entry, Put(s, e),
           UNCHANGED <<owner, phase, hand>>, NEW o \in Outputs, owner[s] = o
    PROVE  /\ lost \subseteq lost'
           /\ \A t \in Slots : Entries(t) \subseteq Entries(t)'
           /\ Settled(o, e.dp)'
<1>1. ch \in [Slots -> Seq(Entry)]
  BY DEF TypeOK, SlotsTypeOK
<1>2. ch'[s] = Append(ch[s], e) /\ \A t \in Slots \ {s} : ch'[t] = ch[t]
  BY <1>1 DEF Put
<1>3. /\ ch[s] \in Seq(Entry)
      /\ \A i \in DOMAIN ch[s] : i \in DOMAIN ch'[s] /\ ch'[s][i] = ch[s][i]
      /\ Len(ch[s]) + 1 \in DOMAIN ch'[s] /\ ch'[s][Len(ch[s]) + 1] = e
  BY <1>1, <1>2
<1>4. \A t \in Slots : Entries(t) \subseteq Entries(t)'
  BY <1>2, <1>3 DEF Entries
<1>5. e \in Entries(s)'
  BY <1>3 DEF Entries
<1>6. lost \subseteq lost'
  BY DEF Put
<1>7. Settled(o, e.dp)'
  <2>1. CASE Live(s)
    BY <1>5, <2>1 DEF Settled, Live
  <2>2. CASE ~Live(s)
    <3>1. Abandoned(o, {e}) \subseteq lost'
      BY <2>2 DEF Put
    <3>2. IsLost(o, e.dp)'
      BY <3>1, AbandonedLost
    <3> QED BY <3>2 DEF Settled
  <2> QED BY <2>1, <2>2
<1> QED BY <1>4, <1>6, <1>7

-----------------------------------------------------------------------------
(* No step but the acknowledgment uncovers a point.                          *)

LEMMA PublishToCovers ==
    ASSUME DeliveryInv, NEW p \in Publishers, NEW s \in Slots, PublishTo(p, s),
           NEW S, \A r \in S : r \in Row /\ r.id <= lastId
    PROVE  /\ \A o \in Outputs : \A x : Covered(o, S, x) => Covered(o, S, x)'
           /\ \A o \in Outputs : \A x : o = owner[s] /\ x = fan[p].dp => Covered(o, S, x)'
<1>1. /\ UNCHANGED <<owner, phase, hand, sent>>
      /\ \/ Put(s, [dp |-> fan[p].dp, replayed |-> FALSE]) /\ UNCHANGED queue
         \/ SaveOrLose(owner[s], fan[p].dp) /\ UNCHANGED ch
  BY DEF PublishTo, FanOut
<1>2. fan[p].dp \in Points /\ owner[s] \in Outputs /\ TypeOK
  BY FanAt DEF DeliveryInv, PublishTo, TypeOK, SlotsTypeOK
<1>3. PICK q \in Outputs, dp \in Points : q = owner[s] /\ dp = fan[p].dp
  BY <1>2
<1>4. CASE Put(s, [dp |-> dp, replayed |-> FALSE]) /\ UNCHANGED queue
  <2>1. PICK e \in Entry : e = [dp |-> dp, replayed |-> FALSE]
    BY DEF Entry
  <2>2. Put(s, e) /\ e.dp = dp
    BY <1>4, <2>1
  <2>3. /\ lost \subseteq lost'
        /\ \A t \in Slots : Entries(t) \subseteq Entries(t)'
        /\ Settled(q, e.dp)'
    BY <1>1, <1>2, <1>3, <2>2, PutCovers
  <2>4. Grows
    BY <1>1, <2>3 DEF Grows, Live
  <2>5. Covered(q, S, dp)'
    BY <2>2, <2>3 DEF Covered
  <2> QED BY <1>3, <1>4, <2>4, <2>5, CoveredGrows
<1>5. CASE SaveOrLose(q, dp) /\ UNCHANGED ch
  <2>1. /\ lost \subseteq lost'
        /\ \A r \in rows \ S : r \in rows' \ S \/ IsLost(r.output, r.dp)'
        /\ IsLost(q, dp)' \/ \E r \in rows' \ S : r.output = q /\ r.dp = dp
    BY <1>5, SaveOrLoseCovers
  <2>2. Grows
    BY <1>1, <1>5, <2>1 DEF Grows, Live, Entries
  <2>3. ASSUME NEW o \in Outputs, NEW x, Covered(o, S, x) PROVE Covered(o, S, x)'
    <3>1. CASE Settled(o, x)
      BY <2>2, <3>1, SettledGrows DEF Covered
    <3>2. CASE \E r \in rows \ S : r.output = o /\ r.dp = x
      BY <2>1, <3>2 DEF Covered, Settled
    <3> QED BY <2>3, <3>1, <3>2 DEF Covered
  <2>4. Covered(q, S, dp)'
    BY <2>1 DEF Covered, Settled
  <2> QED BY <1>3, <2>3, <2>4
<1> QED BY <1>1, <1>3, <1>4, <1>5

LEMMA TakeGrows ==
    ASSUME TypeOK, NEW s \in Slots, Take(s)
    PROVE  Grows
<1>1. ch \in [Slots -> Seq(Entry)] /\ hand \in [Slots -> SUBSET Entry]
  BY DEF TypeOK, SlotsTypeOK
<1>2. /\ ch[s] \in Seq(Entry) /\ ch[s] # <<>> /\ hand[s] = {}
      /\ ch'[s] = Tail(ch[s]) /\ hand'[s] = {Head(ch[s])}
      /\ \A t \in Slots \ {s} : ch'[t] = ch[t] /\ hand'[t] = hand[t]
      /\ UNCHANGED <<owner, phase, sent, lost>>
  BY <1>1 DEF Take, historyVars
<1>3. ASSUME NEW i \in DOMAIN ch[s]
      PROVE  ch[s][i] = Head(ch[s]) \/ \E j \in DOMAIN Tail(ch[s]) : Tail(ch[s])[j] = ch[s][i]
  <2>1. i = 1 \/ i - 1 \in DOMAIN Tail(ch[s])
    BY <1>2
  <2>2. i - 1 \in DOMAIN Tail(ch[s]) => Tail(ch[s])[i - 1] = ch[s][i]
    BY <1>2
  <2>3. Head(ch[s]) = ch[s][1]
    BY <1>2
  <2> QED BY <2>1, <2>2, <2>3
<1>4. Entries(s) \subseteq Entries(s)'
  BY <1>2, <1>3 DEF Entries
<1>5. \A t \in Slots : Entries(t) \subseteq Entries(t)'
  BY <1>2, <1>4, ZenonT(30) DEF Entries
<1> QED BY <1>2, <1>5 DEF Grows, Live

LEMMA SendCovers ==
    ASSUME DeliveryInv, HandOne, NEW s \in Slots, Send(s),
           NEW S, \A r \in S : r \in Row /\ r.id <= lastId,
           NEW o \in Outputs, NEW x, Covered(o, S, x)
    PROVE  Covered(o, S, x)'
<1>1. PICK e \in hand[s] :
        /\ hand' = [hand EXCEPT ![s] = {}]
        /\ \/ /\ sent' = [sent EXCEPT ![owner[s]] = @ \cup {e.dp}]
              /\ UNCHANGED <<queue, lost>>
           \/ SaveOrLose(owner[s], e.dp) /\ UNCHANGED sent
  BY DEF Send, SendFails
<1>2. /\ UNCHANGED <<owner, phase, ch>>
      /\ owner[s] \in Outputs /\ e.dp \in Points
      /\ hand \in [Slots -> SUBSET Entry] /\ sent \in [Outputs -> SUBSET Points]
  BY DEF DeliveryInv, TypeOK, SlotsTypeOK, HistoryTypeOK, Entry, Send
<1>3. /\ \A q \in Outputs : sent[q] \subseteq sent'[q]
      /\ lost \subseteq lost'
      /\ \A r \in rows \ S : r \in rows' \ S \/ IsLost(r.output, r.dp)'
      /\ o = owner[s] => Covered(o, S, e.dp)'
  <2>1. CASE /\ sent' = [sent EXCEPT ![owner[s]] = @ \cup {e.dp}]
             /\ UNCHANGED <<queue, lost>>
    BY <1>2, <2>1 DEF queue, Covered, Settled
  <2>2. CASE SaveOrLose(owner[s], e.dp) /\ UNCHANGED sent
    <3>1. /\ lost \subseteq lost'
          /\ \A r \in rows \ S : r \in rows' \ S \/ IsLost(r.output, r.dp)'
          /\ o = owner[s] => \/ IsLost(o, e.dp)'
                             \/ \E r \in rows' \ S : r.output = o /\ r.dp = e.dp
      BY <1>2, <2>2, SaveOrLoseCovers
    <3> QED BY <2>2, <3>1 DEF Covered, Settled
  <2> QED BY <1>1, <2>1, <2>2
<1>4. ASSUME NEW t \in Slots, NEW f \in Entries(t) PROVE f \in Entries(t)' \/ (t = s /\ f = e)
  BY <1>1, <1>2 DEF HandOne, Entries
<1>5. CASE \E r \in rows \ S : r.output = o /\ r.dp = x
  BY <1>3, <1>5 DEF Covered, Settled
<1>6. CASE x \in sent[o] \/ IsLost(o, x)
  BY <1>3, <1>6 DEF Covered, Settled, IsLost
<1>7. ASSUME NEW t \in Slots, owner[t] = o, Live(t), NEW f \in Entries(t), f.dp = x
      PROVE  Covered(o, S, x)'
  <2>1. CASE f \in Entries(t)'
    BY <1>2, <1>7, <2>1 DEF Covered, Settled, Live
  <2>2. CASE t = s /\ f = e
    BY <1>3, <1>7, <2>2
  <2> QED BY <1>4, <2>1, <2>2
<1> QED BY <1>5, <1>6, <1>7 DEF Covered, Settled

LEMMA SlotExitsCovers ==
    ASSUME TypeOK, NEW s \in Slots, SlotExits(s),
           NEW S, NEW o \in Outputs, NEW x, Covered(o, S, x)
    PROVE  Covered(o, S, x)'
<1>1. /\ Abandoned(owner[s], Entries(s)) \subseteq lost' /\ lost \subseteq lost'
      /\ UNCHANGED <<queue, owner, ch, hand, sent>>
      /\ \A t \in Slots \ {s} : phase'[t] = phase[t]
  BY DEF SlotExits, TypeOK, SlotsTypeOK
<1>2. CASE \E r \in rows \ S : r.output = o /\ r.dp = x
  BY <1>1, <1>2 DEF Covered, queue
<1>3. CASE x \in sent[o] \/ IsLost(o, x)
  BY <1>1, <1>3 DEF Covered, Settled, IsLost
<1>4. ASSUME NEW t \in Slots, owner[t] = o, Live(t), NEW e \in Entries(t), e.dp = x
      PROVE  Covered(o, S, x)'
  <2>1. CASE t = s
    <3>1. IsLost(o, e.dp)'
      BY <1>1, <1>4, <2>1, AbandonedLost
    <3> QED BY <1>4, <3>1 DEF Covered, Settled
  <2>2. CASE t # s
    BY <1>1, <1>4, <2>2 DEF Covered, Settled, Live, Entries
  <2> QED BY <2>1, <2>2
<1> QED BY <1>2, <1>3, <1>4 DEF Covered, Settled

(* A slot that stops for good because the process ends gives up what it has. *)
LEMMA RestartCovers ==
    ASSUME TypeOK, Restart, NEW S, NEW o \in Outputs, NEW x, Covered(o, S, x)
    PROVE  Covered(o, S, x)'
<1>1. /\ lost' = lost \cup UNION {Gone(owner[s], InFlight(s), "exit") : s \in Slots}
      /\ UNCHANGED <<queue, sent>>
  BY DEF Restart
<1>2. CASE \E r \in rows \ S : r.output = o /\ r.dp = x
  BY <1>1, <1>2 DEF Covered, queue
<1>3. CASE x \in sent[o] \/ IsLost(o, x)
  BY <1>1, <1>3 DEF Covered, Settled, IsLost
<1>4. ASSUME NEW t \in Slots, owner[t] = o, Live(t), NEW e \in Entries(t), e.dp = x
      PROVE  Covered(o, S, x)'
  <2>1. Gone(o, InFlight(t), "exit") \subseteq lost'
    BY <1>1, <1>4
  <2>2. x \in InFlight(t)
    BY <1>4 DEF InFlight, PointsOf
  <2>3. IsLost(o, x)'
    BY <2>1, <2>2, GoneLost
  <2> QED BY <2>3 DEF Covered, Settled
<1> QED BY <1>2, <1>3, <1>4 DEF Covered, Settled

LEMMA DropRemovedCovers ==
    ASSUME NEW r \in Reloaders, NEW q \in Outputs, DropRemoved(r, q),
           NEW S, NEW o \in Outputs, NEW x, Covered(o, S, x)
    PROVE  Covered(o, S, x)'
<1>1. /\ UNCHANGED <<owner, phase, ch, hand, sent>> /\ lost \subseteq lost'
      /\ \/ UNCHANGED queue
         \/ rows' = rows \ Mine(q) /\ Gone(q, PointsOf(Mine(q)), "dropped") \subseteq lost'
  BY DEF DropRemoved, DropOutput, slotVars
<1>2. CASE Settled(o, x)
  BY <1>1, <1>2 DEF Covered, Settled, IsLost, Live, Entries
<1>3. ASSUME NEW row \in rows \ S, row.output = o, row.dp = x PROVE Covered(o, S, x)'
  <2>1. CASE row \in rows'
    BY <1>3, <2>1 DEF Covered
  <2>2. CASE row \notin rows'
    <3>1. row \in Mine(q) /\ Gone(q, PointsOf(Mine(q)), "dropped") \subseteq lost'
      BY <1>1, <1>3, <2>2 DEF queue
    <3>2. o = q /\ x \in PointsOf(Mine(q))
      BY <1>3, <3>1 DEF Mine, PointsOf
    <3>3. IsLost(o, x)'
      BY <3>1, <3>2, GoneLost
    <3> QED BY <3>3 DEF Covered, Settled
  <2> QED BY <2>1, <2>2
<1> QED BY <1>2, <1>3 DEF Covered

LEMMA ReplayPutCovers ==
    ASSUME TypeOK, ReplayPut
    PROVE  /\ Grows /\ UNCHANGED <<queue, owner>>
           /\ \E r \in replay.items :
                 /\ replay' = Putting(replay.todo, replay.slot, replay.items \ {r},
                                      replay.acked \cup {r})
                 /\ \A o \in Outputs : o = owner[replay.slot] => Settled(o, r.dp)'
<1>1. /\ replay.slot \in Slots /\ replay.items \subseteq Row
      /\ UNCHANGED <<queue, owner, phase, hand, sent>>
  BY ReplayAt DEF ReplayPut
<1>2. PICK r \in replay.items :
        /\ Put(replay.slot, [dp |-> r.dp, replayed |-> TRUE])
        /\ replay' = Putting(replay.todo, replay.slot, replay.items \ {r}, replay.acked \cup {r})
  BY DEF ReplayPut, Oldest
<1>3. r.dp \in Points
  BY <1>1 DEF Row
<1>4. PICK s \in Slots, q \in Outputs : s = replay.slot /\ q = owner[s]
  BY <1>1 DEF TypeOK, SlotsTypeOK
<1>5. PICK e \in Entry : e = [dp |-> r.dp, replayed |-> TRUE]
  BY <1>3 DEF Entry
<1>6. Put(s, e) /\ e.dp = r.dp
  BY <1>2, <1>4, <1>5
<1>7. /\ lost \subseteq lost'
      /\ \A t \in Slots : Entries(t) \subseteq Entries(t)'
      /\ Settled(q, e.dp)'
  BY <1>1, <1>4, <1>6, PutCovers
<1>8. Grows
  BY <1>1, <1>7 DEF Grows, Live
<1>9. \A o \in Outputs : o = owner[replay.slot] => Settled(o, r.dp)'
  BY <1>4, <1>6, <1>7
<1> QED BY <1>1, <1>2, <1>8, <1>9

(* A reload builds its slots out of ones that nothing uses. *)
LEMMA BuildSpares ==
    ASSUME NEW r \in Reloaders, Build(r)
    PROVE  /\ \A s \in Slots \ Available :
                 /\ owner'[s] = owner[s] /\ phase'[s] = phase[s]
                 /\ ch'[s] = ch[s] /\ hand'[s] = hand[s]
           /\ UNCHANGED <<queue, fan, replay, historyVars>>
<1>1. UNCHANGED <<queue, fan, replay, historyVars>>
  BY DEF Build
<1>2. CASE UNCHANGED slotVars
  BY <1>1, <1>2 DEF slotVars
<1>3. CASE ~UNCHANGED slotVars
  <2>1. \A built : Assignments(built) # {} =>
          (CHOOSE g \in Assignments(built) : TRUE) \in Assignments(built)
    OBVIOUS
  <2>2. PICK built \in SUBSET Enabled :
          /\ Assignments(built) # {}
          /\ LET f   == CHOOSE g \in Assignments(built) : TRUE
                 new == {f[o] : o \in built}
             IN  /\ owner' = [s \in Slots |-> IF s \in new
                                 THEN CHOOSE o \in built : f[o] = s ELSE owner[s]]
                 /\ phase' = [s \in Slots |-> IF s \in new THEN "on" ELSE phase[s]]
                 /\ ch'    = [s \in Slots |-> IF s \in new THEN <<>> ELSE ch[s]]
                 /\ hand'  = [s \in Slots |-> IF s \in new THEN {} ELSE hand[s]]
    BY <1>3 DEF Build
  <2>3. \A B : \A g \in Assignments(B) : {g[o] : o \in B} \subseteq Available
    BY DEF Assignments
  <2> DEFINE f   == CHOOSE g \in Assignments(built) : TRUE
             new == {f[o] : o \in built}
  <2>4. new \subseteq Available
    BY <2>1, <2>2, <2>3
  <2>5. /\ owner' = [s \in Slots |-> IF s \in new
                        THEN CHOOSE o \in built : f[o] = s ELSE owner[s]]
        /\ phase' = [s \in Slots |-> IF s \in new THEN "on" ELSE phase[s]]
        /\ ch'    = [s \in Slots |-> IF s \in new THEN <<>> ELSE ch[s]]
        /\ hand'  = [s \in Slots |-> IF s \in new THEN {} ELSE hand[s]]
    BY <2>2
  <2> HIDE DEF new, f
  <2> QED BY <1>1, <2>4, <2>5
<1> QED BY <1>2, <1>3

LEMMA BuildGrows ==
    ASSUME NEW r \in Reloaders, Build(r)
    PROVE  /\ Grows /\ UNCHANGED queue
           /\ replay.pc = "put" /\ replay.slot \in Slots =>
                 owner'[replay.slot] = owner[replay.slot]
<1>1. \A s \in Slots : Live(s) => s \notin Available
  BY DEF Live, Available
<1>2. Grows
  BY <1>1, BuildSpares DEF Grows, Live, Entries, historyVars
<1>3. ASSUME replay.pc = "put" PROVE replay.slot \in Held
  BY <1>3 DEF Held
<1>4. replay.pc = "put" => replay.slot \notin Available
  BY <1>3 DEF Available
<1> QED BY <1>2, <1>4, BuildSpares

(* The steps that leave the queue, the slots and the history of the entries alone. *)
Elsewhere == UNCHANGED <<queue, owner, phase, ch, hand, sent, lost>>

LEMMA ElsewhereGrows ==
    ASSUME Elsewhere
    PROVE  Grows /\ UNCHANGED <<queue, owner>>
BY DEF Elsewhere, Grows, Live, Entries

LEMMA StoppingGrows ==
    ASSUME TypeOK, NEW r \in Reloaders,
           CloseOutput(r) \/ \E s \in Slots : Stop(r, s)
    PROVE  Grows /\ UNCHANGED <<queue, owner>>
<1>0. phase \in [Slots -> {"free", "on", "stopping", "exited", "closed"}]
  BY DEF TypeOK, SlotsTypeOK
<1>1. CASE CloseOutput(r)
  <2>1. job[r].slot \in Slots /\ phase[job[r].slot] = "exited"
    BY <1>1, JobAt DEF CloseOutput, MayClose
  <2>2. /\ UNCHANGED <<queue, owner, ch, hand, sent, lost>>
        /\ phase' = [phase EXCEPT ![job[r].slot] = "closed"]
    BY <1>1 DEF CloseOutput, historyVars
  <2>3. \A s \in Slots : Live(s) => Live(s)'
    BY <1>0, <2>1, <2>2 DEF Live
  <2> QED BY <2>2, <2>3 DEF Grows, Entries
<1>2. ASSUME NEW s \in Slots, Stop(r, s) PROVE Grows /\ UNCHANGED <<queue, owner>>
  <2>1. /\ UNCHANGED <<queue, owner, ch, hand, sent, lost>>
        /\ phase' = [phase EXCEPT ![s] = "stopping"]
    BY <1>2 DEF Stop, historyVars
  <2>2. \A t \in Slots : Live(t) => Live(t)'
    BY <1>0, <2>1 DEF Live
  <2> QED BY <2>1, <2>2 DEF Grows, Entries
<1> QED BY <1>1, <1>2

(* The steps by what they do to the entries. *)
LEMMA StepCases ==
    ASSUME TypeOK, [Next]_vars
    PROVE  \/ \E p \in Publishers, s \in Slots : PublishTo(p, s)
           \/ \E s \in Slots : Take(s) \/ Send(s) \/ SlotExits(s)
           \/ ReplayPut \/ ReplayAck
           \/ \E r \in Reloaders : Build(r) \/ CloseOutput(r) \/ \E s \in Slots : Stop(r, s)
           \/ \E r \in Reloaders, o \in Outputs : DropRemoved(r, o)
           \/ Restart
           \/ Elsewhere
<1> USE DEF Elsewhere, slotVars, historyVars
<1>1. CASE UNCHANGED vars
  BY <1>1 DEF vars
<1>2. CASE Environment
  BY <1>2 DEF Environment, Publish, Edit, CloseBegins, Crash, Outage, Reconnect
<1>3. ASSUME NEW p \in Publishers, PublishReturns(p) PROVE Elsewhere
  BY <1>3 DEF PublishReturns
<1>4. ASSUME ReplayTick \/ ReplayReturns \/ \E s \in Slots : ReplayPeek(s) PROVE Elsewhere
  BY <1>4 DEF ReplayTick, ReplayReturns, ReplayPeek
<1>5. ASSUME NEW r \in Reloaders, Swap(r) \/ ReloadReturns(r) PROVE Elsewhere
  BY <1>5 DEF Swap, ReloadReturns
<1>6. CASE CloseSwaps \/ Exit
  BY <1>6 DEF CloseSwaps, Exit
<1> HIDE DEF Elsewhere
<1> QED BY <1>1, <1>2, <1>3, <1>4, <1>5, <1>6 DEF Next, Fan, SlotNext, ReplayNext, Reload

LEMMA StepCovers ==
    ASSUME DeliveryInv, HandOne, [Next]_vars, ~ReplayAck,
           NEW S, \A r \in S : r \in Row /\ r.id <= lastId,
           NEW o \in Outputs, NEW x, Covered(o, S, x)
    PROVE  Covered(o, S, x)'
<1>0. TypeOK
  BY DEF DeliveryInv
<1>1. ASSUME NEW s \in Slots, Take(s) PROVE Covered(o, S, x)'
  BY <1>0, <1>1, TakeGrows, CoveredGrows DEF Take
<1>2. CASE ReplayPut
  BY <1>0, <1>2, ReplayPutCovers, CoveredGrows
<1>3. ASSUME NEW r \in Reloaders, CloseOutput(r) \/ \E s \in Slots : Stop(r, s)
      PROVE  Covered(o, S, x)'
  BY <1>0, <1>3, StoppingGrows, CoveredGrows
<1>4. CASE Elsewhere
  BY <1>4, ElsewhereGrows, CoveredGrows
<1>5. ASSUME NEW r \in Reloaders, Build(r) PROVE Covered(o, S, x)'
  BY <1>5, BuildGrows, CoveredGrows
<1> QED
  BY <1>0, <1>1, <1>2, <1>3, <1>4, <1>5, StepCases, PublishToCovers, SendCovers,
     SlotExitsCovers, RestartCovers, DropRemovedCovers

-----------------------------------------------------------------------------
LEMMA HandOneStep ==
    ASSUME TypeOK, HandOne, [Next]_vars
    PROVE  HandOne'
<1>0. hand \in [Slots -> SUBSET Entry]
  BY DEF TypeOK, SlotsTypeOK
<1>1. CASE UNCHANGED hand
  BY <1>1 DEF HandOne
<1>2. ASSUME NEW s \in Slots, Take(s) \/ Send(s) PROVE HandOne'
  <2>1. CASE Take(s)
    BY <1>0, <2>1 DEF Take, HandOne
  <2>2. CASE Send(s)
    <3>1. hand' = [hand EXCEPT ![s] = {}]
      BY <2>2 DEF Send
    <3> QED BY <1>0, <3>1 DEF HandOne
  <2> QED BY <1>2, <2>1, <2>2
<1>3. ASSUME NEW r \in Reloaders, Build(r) PROVE HandOne'
  <2>1. CASE UNCHANGED slotVars
    BY <1>1, <2>1 DEF slotVars
  <2>2. CASE ~UNCHANGED slotVars
    <3>1. \E new : hand' = [s \in Slots |-> IF s \in new THEN {} ELSE hand[s]]
      BY <1>3, <2>2 DEF Build
    <3> QED BY <3>1 DEF HandOne
  <2> QED BY <2>1, <2>2
<1>4. CASE Restart
  BY <1>4 DEF Restart, HandOne
<1> QED
  BY <1>1, <1>2, <1>3, <1>4, StepCases
  DEF PublishTo, SlotExits, ReplayPut, ReplayAck, CloseOutput, Stop, DropRemoved, Elsewhere,
      slotVars

(* The slot that is being replayed to stays the same output's: no reload builds it anew. *)
LEMMA ReplaySlotStays ==
    ASSUME TypeOK, [Next]_vars, replay.pc = "put"
    PROVE  owner'[replay.slot] = owner[replay.slot]
<1>1. replay.slot \in Slots
  BY ReplayAt
<1>2. ASSUME NEW r \in Reloaders, Build(r) PROVE owner'[replay.slot] = owner[replay.slot]
  BY <1>1, <1>2, BuildGrows
<1> QED
  BY <1>2, StepCases
  DEF PublishTo, Take, Send, SlotExits, ReplayPut, ReplayAck, CloseOutput, Stop, DropRemoved,
      Restart, Elsewhere, slotVars

(* The acknowledgment deletes rows whose points are covered without them. *)
LEMMA AckCovers ==
    ASSUME DeliveryInv, CopiesExact, AckedKept, ReplayAck,
           NEW o \in Outputs, NEW x, Covered(o, {}, x)
    PROVE  Covered(o, {}, x)'
<1>1. /\ UNCHANGED <<owner, phase, ch, hand, sent, lost>>
      /\ \/ rows' = {r \in rows : ~(/\ r.output = owner[replay.slot]
                                    /\ r.id \in {a.id : a \in replay.acked})}
         \/ UNCHANGED queue
  BY DEF ReplayAck, Ack, Acked, slotVars, historyVars
<1>2. ASSUME Settled(o, x) PROVE Covered(o, {}, x)'
  BY <1>1, <1>2 DEF Covered, Settled, IsLost, Live, Entries
<1>3. ASSUME NEW r \in rows, r.output = o, r.dp = x PROVE Covered(o, {}, x)'
  <2>1. CASE r \in rows'
    BY <1>3, <2>1 DEF Covered
  <2>2. CASE r \notin rows'
    <3>1. /\ r.output = owner[replay.slot] /\ r.id \in {a.id : a \in replay.acked}
          /\ rows' = {q \in rows : ~(/\ q.output = owner[replay.slot]
                                     /\ q.id \in {a.id : a \in replay.acked})}
      BY <1>1, <1>3, <2>2 DEF queue
    <3>2. replay.pc = "put" /\ \A a \in replay.acked : a \in ReadRows
      BY DEF ReplayAck, ReadRows
    <3>3. \A q \in rows : q.id \in {a.id : a \in replay.acked} => q \in replay.acked
      BY <3>2 DEF CopiesExact
    <3>4. Covered(o, replay.acked, x)
      BY <1>3, <3>1, <3>2, <3>3 DEF AckedKept
    <3>5. CASE \E q \in rows \ replay.acked : q.output = o /\ q.dp = x
      <4>1. PICK q \in rows \ replay.acked : q.output = o /\ q.dp = x
        BY <3>5
      <4>2. q \in rows'
        BY <3>1, <3>3, <4>1
      <4> QED BY <4>1, <4>2 DEF Covered
    <3> QED BY <1>2, <3>4, <3>5 DEF Covered
  <2> QED BY <2>1, <2>2
<1> QED BY <1>2, <1>3 DEF Covered

LEMMA AcceptedKeptStep ==
    ASSUME KeptInv, [Next]_vars
    PROVE  AcceptedKept'
<1>0. DeliveryInv /\ TypeOK /\ HandOne /\ AcceptedKept /\ accepted \in [Outputs -> SUBSET Points]
  BY DEF KeptInv, DeliveryInv, TypeOK, HistoryTypeOK
<1>1. ASSUME NEW o \in Outputs, NEW x \in accepted[o] PROVE Covered(o, {}, x)'
  <2>1. Covered(o, {}, x)
    BY <1>0, <1>1 DEF AcceptedKept
  <2>2. CASE ReplayAck
    BY <2>1, <2>2, AckCovers DEF KeptInv
  <2>3. CASE ~ReplayAck
    BY <1>0, <2>1, <2>3, StepCovers
  <2> QED BY <2>2, <2>3
<1>2. ASSUME NEW p \in Publishers, NEW s \in Slots, PublishTo(p, s) PROVE AcceptedKept'
  <2>1. \A o \in Outputs : \A x : o = owner[s] /\ x = fan[p].dp => Covered(o, {}, x)'
    BY <1>0, <1>2, PublishToCovers
  <2>2. \A o \in Outputs : \A x \in accepted'[o] :
           x \in accepted[o] \/ (o = owner[s] /\ x = fan[p].dp)
    BY <1>0, <1>2 DEF PublishTo
  <2> QED BY <1>1, <2>1, <2>2 DEF AcceptedKept
<1>3. CASE UNCHANGED accepted
  BY <1>1, <1>3 DEF AcceptedKept
<1>4. \/ \E p \in Publishers, s \in Slots : PublishTo(p, s)
      \/ UNCHANGED accepted
  <2>1. CASE UNCHANGED vars
    BY <2>1 DEF vars, historyVars
  <2>2. CASE Next /\ ~\E p \in Publishers, s \in Slots : PublishTo(p, s)
    BY <2>2
    DEF Next, Fan, SlotNext, ReplayNext, Reload, Environment, Publish, PublishReturns, Take,
        Send, SlotExits, ReplayTick, ReplayPeek, ReplayPut, ReplayAck, ReplayReturns, Edit,
        Build, Swap, Stop, CloseOutput, DropRemoved, ReloadReturns, CloseBegins, CloseSwaps,
        Restart, Exit, Crash, Outage, Reconnect, historyVars
  <2> QED BY <2>1, <2>2
<1> QED BY <1>2, <1>3, <1>4

LEMMA AckedKeptStep ==
    ASSUME KeptInv, [Next]_vars
    PROVE  AckedKept'
<1>0. DeliveryInv /\ TypeOK /\ HandOne /\ CopiesExact /\ AckedKept
  BY DEF KeptInv, DeliveryInv
<1>1. CASE replay' = Idle \/ \E todo : replay' = Scanning(todo)
  BY <1>1 DEF AckedKept, Idle, Scanning
<1>2. ASSUME NEW s \in Slots, ReplayPeek(s) PROVE AckedKept'
  BY <1>2 DEF ReplayPeek, AckedKept, Putting, Scanning
<1>3. ASSUME replay.pc = "put"
      PROVE  /\ replay.slot \in Slots /\ owner[replay.slot] \in Outputs
             /\ \A r \in replay.acked : r \in Row /\ r.id <= lastId
  BY <1>0, <1>3, ReplayAt DEF CopiesExact, ReadRows, TypeOK, SlotsTypeOK
<1>4. CASE UNCHANGED replay /\ replay.pc = "put"
  <2>1. PICK o \in Outputs : o = owner[replay.slot] /\ o = owner'[replay.slot]
    BY <1>0, <1>3, <1>4, ReplaySlotStays
  <2>2. ~ReplayAck
    BY <1>4 DEF ReplayAck, Scanning
  <2>3. ASSUME NEW r \in replay.acked PROVE Covered(o, replay.acked, r.dp)
    BY <1>0, <1>4, <2>1, <2>3 DEF AckedKept
  <2>4. PICK S : S = replay.acked
    OBVIOUS
  <2>5. \A r \in S : Covered(o, S, r.dp)'
    BY <1>0, <1>3, <1>4, <2>2, <2>3, <2>4, StepCovers
  <2> QED BY <1>4, <2>1, <2>4, <2>5 DEF AckedKept
<1>5. CASE ReplayPut
  <2>1. replay.pc = "put"
    BY <1>5 DEF ReplayPut
  <2>2. PICK o \in Outputs : o = owner[replay.slot]
    BY <1>3, <2>1
  <2>3. Grows /\ UNCHANGED <<queue, owner>>
    BY <1>0, <1>5, ReplayPutCovers
  <2>4. PICK r \in replay.items :
          /\ replay' = Putting(replay.todo, replay.slot, replay.items \ {r},
                               replay.acked \cup {r})
          /\ Settled(o, r.dp)'
    BY <1>0, <1>5, <2>2, ReplayPutCovers
  <2>5. PICK S : S = replay.acked \cup {r}
    OBVIOUS
  <2>6. ASSUME NEW a \in S PROVE Covered(o, S, a.dp)'
    <3>1. CASE a.dp = r.dp
      BY <2>4, <3>1 DEF Covered
    <3>2. CASE a.dp # r.dp
      <4>1. Covered(o, replay.acked, a.dp)
        BY <1>0, <2>1, <2>2, <2>5, <2>6, <3>2 DEF AckedKept
      <4>2. Covered(o, S, a.dp)
        BY <2>5, <3>2, <4>1 DEF Covered
      <4> QED BY <2>3, <4>2, CoveredGrows
    <3> QED BY <3>1, <3>2
  <2>7. owner'[replay'.slot] = o /\ replay'.acked = S
    BY <2>2, <2>3, <2>4, <2>5 DEF Putting
  <2> QED BY <2>6, <2>7 DEF AckedKept
<1>6. CASE UNCHANGED replay /\ replay.pc # "put"
  BY <1>6 DEF AckedKept
<1> QED BY <1>1, <1>2, <1>4, <1>5, <1>6, ReplayCases

LEMMA CoveredIsKept == AcceptedKept => NothingVanishes
<1> SUFFICES ASSUME AcceptedKept, NEW o \in Outputs, NEW x \in accepted[o]
             PROVE  x \in sent[o] \cup Pending(o) \cup GivenUp(o)
  BY DEF NothingVanishes
<1>1. Covered(o, {}, x)
  BY DEF AcceptedKept
<1>2. CASE x \in sent[o]
  BY <1>2
<1>3. CASE IsLost(o, x)
  BY <1>3 DEF IsLost, GivenUp, PointsOf
<1>4. CASE \E r \in rows : r.output = o /\ r.dp = x
  BY <1>4 DEF Pending, PointsOf, Mine
<1>5. ASSUME NEW s \in Slots, owner[s] = o, Live(s), NEW e \in Entries(s), e.dp = x
      PROVE  x \in Pending(o)
  <2>1. x \in InFlight(s)
    BY <1>5 DEF InFlight, PointsOf
  <2>2. s \in {t \in Slots : owner[t] = o}
    BY <1>5
  <2> QED BY <2>1, <2>2 DEF Pending
<1> QED BY <1>1, <1>2, <1>3, <1>4, <1>5 DEF Covered, Settled

(* A point that Publish accepted for an output was sent, is still to be sent by a    *)
(* goroutine that runs, is durable, or was given up for a cause that is recorded:    *)
(* fan-out, publishing, eviction, the two halves of a replay, reloads, a crash and   *)
(* the restart after it never let it drop out silently (manager.go:145-281).         *)
THEOREM NothingIsForgotten == Spec => []NothingVanishes
<1>1. Init => KeptInv
  <2> SUFFICES ASSUME Init PROVE KeptInv
    OBVIOUS
  <2>1. DeliveryInv
    BY InitType DEF DeliveryInv
  <2> QED BY <2>1 DEF Init, KeptInv, CopiesExact, ReadRows, Idle, HandOne, AcceptedKept, AckedKept
<1>2. KeptInv /\ [Next]_vars => KeptInv'
  <2> SUFFICES ASSUME KeptInv, [Next]_vars PROVE KeptInv'
    OBVIOUS
  <2>1. DeliveryInv' /\ CopiesExact'
    BY DeliveryInvStep, CopiesExactStep DEF KeptInv
  <2>2. HandOne'
    BY HandOneStep DEF KeptInv, DeliveryInv
  <2> QED BY <2>1, <2>2, AcceptedKeptStep, AckedKeptStep DEF KeptInv
<1>3. KeptInv => NothingVanishes
  BY CoveredIsKept DEF KeptInv
<1> QED BY <1>1, <1>2, <1>3, PTL DEF Spec

-----------------------------------------------------------------------------
(* The order of a replay.  The batch was the oldest rows when it was read,   *)
(* and rows that are saved later are newer: no row that is older than one of *)
(* the batch is outside it.  And what was handed over is older than what is  *)
(* still to be.                                                              *)
BatchOldest ==
    replay.pc = "put" =>
        \A r \in Mine(owner[replay.slot]), read \in ReadRows : r.id < read.id => r \in ReadRows

HandedOldest ==
    replay.pc = "put" => \A done \in replay.acked, i \in replay.items : done.id <= i.id

OrderInv == DeliveryInv /\ CopiesExact /\ BatchOldest /\ HandedOldest

LEMMA NewRowsAreNewer ==
    ASSUME QueueInv, [QueueNext]_queue, NEW r \in rows', r \notin rows
    PROVE  r.id > lastId
<1>1. PICK o \in Outputs, dps \in Seq(Points) :
        \E gone \in SUBSET (rows \cup Inserted(o, dps)) : Save(o, dps, gone)
  BY DEF QueueNext, Ack, DropOutput, queue
<1>2. r \in Inserted(o, dps)
  BY <1>1 DEF Save
<1> QED BY <1>2, InsertedRows DEF QueueInv, QueueTypeOK

(* The n oldest rows, and so with each of them every older one. *)
LEMMA PeekDownward ==
    ASSUME IsFiniteSet(rows), rows \subseteq Row, NEW o \in Outputs,
           NEW read \in Peek(o, Batch), NEW r \in Mine(o), r.id < read.id
    PROVE  r \in Peek(o, Batch)
<1> DEFINE Older(q) == {s \in Mine(o) : s.id < q.id}
<1>1. Older(r) \subseteq Older(read) /\ Older(read) \subseteq rows
  <2>1. \A s \in Mine(o) : s \in rows /\ s.id \in Nat
    BY DEF Mine, Row
  <2>2. read.id \in Nat /\ r.id \in Nat
    BY <2>1 DEF Peek
  <2> QED BY <2>1, <2>2
<1>2. IsFiniteSet(Older(read))
  BY <1>1, FS_Subset
<1>3. Cardinality(Older(r)) <= Cardinality(Older(read)) /\ IsFiniteSet(Older(r))
  BY <1>1, <1>2, FS_Subset
<1>4. Cardinality(Older(r)) \in Nat /\ Cardinality(Older(read)) \in Nat
  BY <1>2, <1>3, FS_CardinalityType
<1>5. Cardinality(Older(read)) < Batch
  BY DEF Peek
<1>6. Cardinality(Older(r)) < Batch
  BY <1>3, <1>4, <1>5, DeliveryAssumption
<1> QED BY <1>6 DEF Peek

LEMMA OrderStep ==
    ASSUME OrderInv, [Next]_vars
    PROVE  BatchOldest' /\ HandedOldest'
<1>0. DeliveryInv /\ TypeOK /\ QueueInv /\ CopiesExact /\ BatchOldest /\ HandedOldest
  BY DEF OrderInv, DeliveryInv
<1>1. CASE replay' = Idle \/ \E todo : replay' = Scanning(todo)
  BY <1>1 DEF BatchOldest, HandedOldest, Idle, Scanning
<1>2. CASE UNCHANGED replay /\ replay.pc = "put"
  <2>1. HandedOldest'
    BY <1>0, <1>2 DEF HandedOldest
  <2>2. owner'[replay.slot] = owner[replay.slot] /\ ReadRows' = ReadRows
    BY <1>0, <1>2, ReplaySlotStays DEF ReadRows
  <2>3. ASSUME NEW r \in rows', r.output = owner[replay.slot],
               NEW read \in ReadRows, r.id < read.id
        PROVE  r \in ReadRows
    <3>1. CASE r \in rows
      BY <1>0, <1>2, <2>3, <3>1 DEF BatchOldest, Mine
    <3>2. CASE r \notin rows
      <4>1. r.id > lastId
        BY <1>0, <3>2, StepUsesQueue, NewRowsAreNewer
      <4>2. read.id \in Nat /\ read.id <= lastId /\ lastId \in Nat
        BY <1>0 DEF CopiesExact, Row, QueueInv, QueueTypeOK
      <4>3. r.id \in Nat
        <5>1. DeliveryInv'
          BY <1>0, DeliveryInvStep
        <5> QED BY <5>1 DEF DeliveryInv, QueueInv, QueueTypeOK, Row
      <4> QED BY <2>3, <4>1, <4>2, <4>3
    <3> QED BY <3>1, <3>2
  <2>4. BatchOldest'
    BY <1>2, <2>2, <2>3 DEF BatchOldest, Mine
  <2> QED BY <2>1, <2>4
<1>3. ASSUME NEW s \in Slots, ReplayPeek(s) PROVE BatchOldest' /\ HandedOldest'
  <2>1. CASE replay' = Putting(replay.todo \ {s}, s, Peek(owner[s], Batch), {})
    <3>1. UNCHANGED <<rows, owner>> /\ owner[s] \in Outputs
      BY <1>0, <1>3 DEF ReplayPeek, slotVars, queue, TypeOK, SlotsTypeOK
    <3>2. /\ replay'.pc = "put" /\ replay'.slot = s /\ replay'.acked = {}
          /\ ReadRows' = Peek(owner[s], Batch)
      BY <2>1 DEF Putting, ReadRows
    <3>3. \A r \in Mine(owner[s]), read \in Peek(owner[s], Batch) :
             r.id < read.id => r \in Peek(owner[s], Batch)
      BY <1>0, <3>1, PeekDownward DEF QueueInv, QueueTypeOK
    <3>4. BatchOldest'
      BY <3>1, <3>2, <3>3 DEF BatchOldest, Mine
    <3> QED BY <3>2, <3>4 DEF HandedOldest
  <2> QED BY <1>1, <1>3, <2>1 DEF ReplayPeek
<1>4. CASE ReplayPut
  <2>1. PICK r \in Oldest(replay.items) :
          replay' = Putting(replay.todo, replay.slot, replay.items \ {r}, replay.acked \cup {r})
    BY <1>4 DEF ReplayPut
  <2>2. replay.pc = "put" /\ UNCHANGED <<rows, owner>>
    BY <1>4 DEF ReplayPut, queue
  <2>3. r \in replay.items /\ \A i \in replay.items : r.id <= i.id
    BY DEF Oldest
  <2>4. /\ replay'.pc = "put" /\ replay'.slot = replay.slot
        /\ replay'.items = replay.items \ {r} /\ replay'.acked = replay.acked \cup {r}
    BY <2>1 DEF Putting
  <2>5. ReadRows' = ReadRows
    BY <2>2, <2>3, <2>4 DEF ReadRows
  <2>6. BatchOldest'
    BY <1>0, <2>2, <2>4, <2>5 DEF BatchOldest, Mine
  <2>7. HandedOldest'
    BY <1>0, <2>2, <2>3, <2>4 DEF HandedOldest
  <2> QED BY <2>6, <2>7
<1>5. CASE UNCHANGED replay /\ replay.pc # "put"
  BY <1>5 DEF BatchOldest, HandedOldest
<1> QED BY <1>1, <1>2, <1>3, <1>4, <1>5, ReplayCases

(* The rows of an output are handed over oldest first, and none while an older one   *)
(* stays behind, whatever is saved and evicted while the batch is being replayed     *)
(* (manager.go:237-261, backfill.go:146-171).                                        *)
THEOREM ReplayKeepsOrder == Spec => []ReplayInOrder
<1>1. Init => OrderInv
  <2> SUFFICES ASSUME Init PROVE OrderInv
    OBVIOUS
  <2>1. DeliveryInv
    BY InitType DEF DeliveryInv
  <2> QED BY <2>1 DEF Init, OrderInv, CopiesExact, ReadRows, Idle, BatchOldest, HandedOldest
<1>2. OrderInv /\ [Next]_vars => OrderInv'
  <2> SUFFICES ASSUME OrderInv, [Next]_vars PROVE OrderInv'
    OBVIOUS
  <2>1. DeliveryInv' /\ CopiesExact'
    BY DeliveryInvStep, CopiesExactStep DEF OrderInv
  <2> QED BY <2>1, OrderStep DEF OrderInv
<1>3. OrderInv => ReplayInOrder
  <2> SUFFICES ASSUME OrderInv, replay.pc = "put",
                      NEW done \in replay.acked, NEW r \in Mine(owner[replay.slot]),
                      r.id < done.id, r \notin replay.acked
               PROVE  FALSE
    BY DEF ReplayInOrder
  <2>1. done \in ReadRows /\ r \in ReadRows
    BY DEF OrderInv, BatchOldest, ReadRows
  <2>2. done.id <= r.id
    BY <2>1 DEF OrderInv, HandedOldest, ReadRows
  <2>3. done.id \in Nat /\ r.id \in Nat
    BY <2>1 DEF OrderInv, CopiesExact, Row
  <2> QED BY <2>2, <2>3
<1> QED BY <1>1, <1>2, <1>3, PTL DEF Spec
=============================================================================

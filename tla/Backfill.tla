------------------------------- MODULE Backfill -------------------------------
(***************************************************************************)
(* The durable queue of points that could not be sent: table               *)
(* gw_backfill_queue, internal/backfill/backfill.go.  Every operation is   *)
(* one SQLite transaction or statement, so each is one step here.  A row   *)
(* that fails to parse is not modelled: Save writes only what parses.      *)
(***************************************************************************)
EXTENDS Naturals, Sequences, FiniteSets

CONSTANTS
    Outputs,    \* the outputs that are configured or may be
    Points,     \* the data points
    Max         \* Store.max: the rows one output may have

ASSUME BackfillAssumption == Max \in Nat \ {0}

VARIABLES
    rows,       \* the rows of the table
    lastId      \* the AUTOINCREMENT sequence: the largest id ever used

queue == <<rows, lastId>>

Row == [id : Nat \ {0}, output : Outputs, dp : Points]

Mine(o) == {r \in rows : r.output = o}

\* S is the n oldest rows of T.
AreOldest(S, n, T) ==
    /\ S \subseteq T
    /\ Cardinality(S) = n
    /\ \A s \in S, t \in T \ S : s.id < t.id

\* Mutant: without AUTOINCREMENT, which takes the ids of deleted rows again.
MNewId(i) == i + (IF rows = {} THEN 0 ELSE (CHOOSE r \in rows : \A s \in rows : s.id <= r.id).id)

NewId(i) == lastId + i

Inserted(o, dps) == {[id |-> NewId(i), output |-> o, dp |-> dps[i]] : i \in DOMAIN dps}

\* Mutant: evict one row too few.
MExcess(T) == IF Cardinality(T) > Max + 1 THEN Cardinality(T) - Max - 1 ELSE 0

Excess(T) == IF Cardinality(T) > Max THEN Cardinality(T) - Max ELSE 0

\* The rows that Save(o, dps) evicts.
Evicts(o, dps, gone) ==
    LET all == Mine(o) \cup Inserted(o, dps)
    IN  AreOldest(gone, Excess(all), all)

Save(o, dps, gone) ==
    /\ Evicts(o, dps, gone)
    /\ rows' = (rows \cup Inserted(o, dps)) \ gone
    /\ lastId' = lastId + Len(dps)

\* The oldest rows of o, limit of them if there are so many.
Peek(o, limit) == {r \in Mine(o) : Cardinality({s \in Mine(o) : s.id < r.id}) < limit}

Ack(o, ids) ==
    /\ rows' = {r \in rows : ~(r.output = o /\ r.id \in ids)}
    /\ UNCHANGED lastId

DropOutput(o) ==
    /\ rows' = rows \ Mine(o)
    /\ UNCHANGED lastId

-----------------------------------------------------------------------------
(* The queue by itself, under any use of it.                                *)

QueueInit == rows = {} /\ lastId = 0

QueueNext ==
    \E o \in Outputs :
        \/ \E dps \in Seq(Points) :
              \E gone \in SUBSET (rows \cup Inserted(o, dps)) : Save(o, dps, gone)
        \/ \E ids \in SUBSET Nat : Ack(o, ids)
        \/ DropOutput(o)

QueueSpec == QueueInit /\ [][QueueNext]_queue

-----------------------------------------------------------------------------
QueueTypeOK ==
    /\ rows \subseteq Row
    /\ IsFiniteSet(rows)
    /\ lastId \in Nat

\* However long an output is unreachable, its queue stays within the limit
\* (backfill.go:19), whatever the other outputs save.
QueueBounded == \A o \in Outputs : Cardinality(Mine(o)) <= Max

\* An id names one row.
IdsUnique ==
    /\ \A r \in rows : r.id <= lastId
    /\ \A r, s \in rows : r.id = s.id => r = s
=============================================================================

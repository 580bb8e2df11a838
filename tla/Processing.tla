------------------------------ MODULE Processing ------------------------------
(***************************************************************************)
(* The edge processing engine (internal/processing/engine.go): filters and *)
(* aggregation windows for each point, between the pipeline and the alert  *)
(* engine, with the hot reload of its rules.                               *)
(*                                                                         *)
(* Three goroutines: the pipeline (Process), flushLoop and Run.  e.mu      *)
(* makes the handling of a point, a flush and the swap of the rules one    *)
(* step each; what passes is handed on without the lock.  Time is left     *)
(* out: a window with data may or may not have lasted long enough whenever *)
(* it is looked at, and one that has is flushed there and then.  The       *)
(* counters of Stats are left out.                                         *)
(***************************************************************************)
EXTENDS Integers, Sequences, SequencesExt

CONSTANTS
    Keys,      \* points of devices
    Numbers,   \* numeric values that points have
    Text,      \* a value that is not a number
    Settings,  \* what the configuration may say of a point: filters and aggregate
    None,      \* no setting, no aggregate, no baseline, no window
    MaxWindow, \* bound: points in one window
    MaxEdits   \* bound: edits of the configuration and failed reads of it

FilterTypes ==
         [type : {"deadband"}, delta : Int]
    \cup [type : {"threshold"}, op : STRING, value : Int, min : Int, max : Int]
    \cup [type : {"quality"}, dropBad : BOOLEAN]

\* A window's length is a name; "invalid" is one that cannot be parsed or is not positive.
AggregateTypes == [type : STRING, window : STRING, emit : STRING]

ASSUME ProcessingAssumption ==
    /\ Numbers \subseteq Int
    /\ Text \notin Int
    /\ \A s \in Settings : /\ s.filters \in Seq(FilterTypes)
                           /\ s.aggregate \in AggregateTypes \cup {None}
    /\ None \notin Settings /\ None \notin Int
    /\ None \notin AggregateTypes
    /\ MaxWindow \in Nat \ {0} /\ MaxEdits \in Nat

DataPoint == [key : Keys, value : Numbers \cup {Text}, good : BOOLEAN]

VARIABLES
    points,    \* the configuration in the store: the setting of each point
    rules,     \* Engine.rules
    last,      \* Engine.last, the deadband baselines
    aggs,      \* Engine.aggs, the windows
    handing,   \* what the pipeline and flushLoop still have to hand on
    changed,   \* a signal is in the engine's OnChange channel
    load,      \* where Run is, with what its reload has read
    missed,    \* history: the last edit was not signalled, or its reload failed
    passed,    \* history: the last number handed on, or taken into the window, of each point
    mixed,     \* history: points that had other settings than one deadband filter
    edits      \* edits and failed reads so far

engineVars  == <<rules, last, aggs>>
historyVars == <<passed, mixed>>
loadVars    == <<changed, load, missed, edits>>
vars == <<points, engineVars, handing, loadVars, historyVars>>

IsNumber(v) == v # Text
Threads == {"pipeline", "flush"}

-----------------------------------------------------------------------------
(* Filters: passFiltersLocked.                                               *)

Abs(n) == IF n < 0 THEN -n ELSE n

CrossesDeadband(v, base, f) == base = None \/ (v # base /\ Abs(v - base) >= f.delta)

PassesThreshold(v, f) ==
    CASE f.op = "gt" -> v > f.value
      [] f.op = "ge" -> v >= f.value
      [] f.op = "lt" -> v < f.value
      [] f.op = "le" -> v <= f.value
      [] f.op = "eq" -> v = f.value
      [] f.op = "ne" -> v # f.value
      [] f.op = "between" -> f.min <= v /\ v <= f.max
      [] f.op = "outside" -> v < f.min \/ v > f.max

Passes(p, base, f) ==
    CASE f.type = "deadband"  -> ~IsNumber(p.value) \/ CrossesDeadband(p.value, base, f)
      [] f.type = "threshold" -> ~IsNumber(p.value) \/ PassesThreshold(p.value, f)
      [] f.type = "quality"   -> ~f.dropBad \/ p.good

\* A deadband filter that passes a number takes it as the baseline at once, whatever the
\* filters after it do.
NewBaseline(p, base, f) == IF f.type = "deadband" /\ IsNumber(p.value) THEN p.value ELSE base

\* The filters in their order, up to the first that drops the point.
Filtered(p, base, filters) ==
    FoldLeft(LAMBDA acc, f :
               IF acc.pass /\ Passes(p, acc.base, f)
                 THEN [acc EXCEPT !.base = NewBaseline(p, @, f)]
                 ELSE [acc EXCEPT !.pass = FALSE],
             [pass |-> TRUE, base |-> base], filters)

-----------------------------------------------------------------------------
(* Windows: aggregator, aggregateAddLocked, flush.  items is not in the code *)
(* but for what the accumulators make of it.                                 *)

Empty(aggregate) ==
    [aggr |-> aggregate, count |-> 0, sum |-> 0, min |-> 0, max |-> 0, last |-> 0, items |-> <<>>]

MinOf(m, n) == IF n < m THEN n ELSE m
MaxOf(m, n) == IF n > m THEN n ELSE m

\* Mutant: the minimum starts from what an empty window holds, zero.
MAdded(w, v) ==
    [w EXCEPT !.count = @ + 1, !.sum = @ + v, !.min = MinOf(@, v),
              !.max = IF w.count = 0 THEN v ELSE MaxOf(@, v), !.last = v, !.items = Append(@, v)]

Added(w, v) ==
    [w EXCEPT !.count = @ + 1, !.sum = @ + v,
              !.min = IF w.count = 0 THEN v ELSE MinOf(@, v),
              !.max = IF w.count = 0 THEN v ELSE MaxOf(@, v),
              !.last = v, !.items = Append(@, v)]

\* Numbers that are handed on are fractions, for the average.
Value(w) ==
    CASE w.aggr.type = "avg"   -> <<w.sum, w.count>>
      [] w.aggr.type = "min"   -> <<w.min, 1>>
      [] w.aggr.type = "max"   -> <<w.max, 1>>
      [] w.aggr.type = "sum"   -> <<w.sum, 1>>
      [] w.aggr.type = "count" -> <<w.count, 1>>
      [] w.aggr.type = "last"  -> <<w.last, 1>>

Derived(k, w) == [key |-> k, name |-> w.aggr.emit, value |-> Value(w)]
Plain(p) == [key |-> p.key, name |-> "", value |-> IF IsNumber(p.value) THEN <<p.value, 1>> ELSE Text]

Open(k) == aggs[k] # None /\ aggs[k].count > 0

-----------------------------------------------------------------------------
(* Process, for one point.                                                   *)

Idle(t) == handing[t] = <<>>

PassThrough(p) ==
    /\ rules[p.key] = None
    /\ handing' = [handing EXCEPT !["pipeline"] = <<Plain(p)>>]
    /\ UNCHANGED <<points, engineVars, loadVars, historyVars>>

OneDeadband(setting) == Len(setting.filters) = 1 /\ setting.filters[1].type = "deadband"

\* The baseline after the filters, and whether the point passes them.
Filter(p) ==
    LET k == p.key
    IN  /\ rules[k] # None
        /\ last' = [last EXCEPT ![k] = Filtered(p, @, rules[k].filters).base]
        /\ passed' = [passed EXCEPT ![k] =
               IF IsNumber(p.value) /\ Filtered(p, last[k], rules[k].filters).pass
                 THEN p.value ELSE @]
        /\ mixed' = IF OneDeadband(rules[k]) THEN mixed ELSE mixed \cup {k}
        /\ UNCHANGED <<points, rules, loadVars>>

Survives(p) == rules[p.key] # None /\ Filtered(p, last[p.key], rules[p.key].filters).pass

Drop(p) ==
    /\ ~Survives(p)
    /\ Filter(p)
    /\ UNCHANGED <<aggs, handing>>

PassOn(p) ==
    /\ Survives(p) /\ rules[p.key].aggregate = None
    /\ Filter(p)
    /\ handing' = [handing EXCEPT !["pipeline"] = <<Plain(p)>>]
    /\ UNCHANGED aggs

\* A number goes into the window; a window that is due is flushed first.  Anything else goes
\* nowhere.
Aggregate(p, due) ==
    LET k == p.key
        w == IF aggs[k] = None THEN Empty(rules[k].aggregate) ELSE aggs[k]
    IN  /\ Survives(p) /\ rules[k].aggregate # None
        /\ due => IsNumber(p.value) /\ Open(k)
        /\ due \/ w.count < MaxWindow
        /\ Filter(p)
        /\ aggs' = [aggs EXCEPT ![k] = IF ~IsNumber(p.value) THEN w
                                       ELSE Added(IF due THEN Empty(w.aggr) ELSE w, p.value)]
        /\ handing' = IF due THEN [handing EXCEPT !["pipeline"] = <<Derived(k, w)>>] ELSE handing

Process(p) ==
    /\ Idle("pipeline")
    /\ \/ PassThrough(p) \/ Drop(p) \/ PassOn(p)
       \/ \E due \in BOOLEAN : Aggregate(p, due)

-----------------------------------------------------------------------------
(* flushLoop: one tick, which flushes the windows D that are due, in any     *)
(* order; and the handing on of what passed, without the lock.               *)

\* Mutant: a window with a single point is not flushed.
MFlushable == {k \in Keys : aggs[k] # None /\ aggs[k].count > 1}

Flushable == {k \in Keys : Open(k)}

Flush(D) ==
    /\ Idle("flush")
    /\ D \subseteq Flushable /\ D # {}
    /\ aggs' = [k \in Keys |-> IF k \in D THEN Empty(aggs[k].aggr) ELSE aggs[k]]
    /\ \E order \in SetToSeqs(D) :
           handing' = [handing EXCEPT !["flush"] = 
               [i \in DOMAIN order |-> Derived(order[i], aggs[order[i]])]]
    /\ UNCHANGED <<points, rules, last, loadVars, historyVars>>

HandOn(t) ==
    /\ ~Idle(t)
    /\ handing' = [handing EXCEPT ![t] = Tail(@)]
    /\ UNCHANGED <<points, engineVars, loadVars, historyVars>>

-----------------------------------------------------------------------------
(* The configuration, Run and reload.                                        *)

Waiting == [pc |-> "wait"]
Booting == [pc |-> "boot"]
Reloading(read, boot) == [pc |-> "swap", read |-> read, boot |-> boot]
After(boot) == IF boot THEN [pc |-> "subscribe"] ELSE Waiting

\* Mutant: a signal is lost during a reload.
MSubscribed == load = Waiting

Subscribed == load = Waiting \/ (load.pc = "swap" /\ ~load.boot)

\* The first load has read the configuration, and the engine is not yet subscribed.
Unheard == load.pc = "subscribe" \/ (load.pc = "swap" /\ load.boot)

Bounded ==
    /\ edits < MaxEdits
    /\ edits' = edits + 1

\* A device is saved, deleted, enabled or disabled: the settings of its points change.
EditPoint(k, setting) ==
    /\ Bounded
    /\ points[k] # setting
    /\ points' = [points EXCEPT ![k] = setting]
    /\ changed' = (changed \/ Subscribed)
    /\ missed' = (missed \/ Unheard)
    /\ UNCHANGED <<engineVars, handing, load, historyVars>>

\* An edit of anything else signals too.
EditElsewhere ==
    /\ changed' = (changed \/ Subscribed)
    /\ UNCHANGED <<points, engineVars, handing, load, missed, edits, historyVars>>

\* ListDevices succeeds or fails.
ReadDevices ==
    /\ \/ load = Booting /\ UNCHANGED changed
       \/ load = Waiting /\ changed /\ changed' = FALSE
    /\ \/ load' = Reloading(points, load = Booting) /\ missed' = FALSE /\ UNCHANGED edits
       \/ load' = After(load = Booting) /\ missed' = TRUE /\ Bounded
    /\ UNCHANGED <<points, engineVars, handing, historyVars>>

ValidFilter(f) ==
    CASE f.type = "deadband"  -> f.delta >= 0
      [] f.type = "threshold" ->
           \/ f.op \in {"gt", "ge", "lt", "le", "eq", "ne"}
           \/ f.op \in {"between", "outside"} /\ f.max >= f.min
      [] f.type = "quality"   -> TRUE

ValidAggregate(a) ==
    a.type \in {"avg", "min", "max", "sum", "count", "last"} /\ a.window # "invalid"

ValidProcessing(s) ==
    /\ \A i \in DOMAIN s.filters : ValidFilter(s.filters[i])
    /\ s.aggregate # None => ValidAggregate(s.aggregate)

RulesOf(config) ==
    [k \in Keys |-> IF config[k] # None /\ ValidProcessing(config[k]) THEN config[k] ELSE None]

\* Mutant: a window is kept when its aggregate changes.
MKept(k, new) ==
    IF aggs[k] = None \/ new[k] = None \/ new[k].aggregate = None THEN None ELSE aggs[k]

\* The window after a reload: gone with its aggregate, empty when the aggregate changed.
Kept(k, new) ==
    IF aggs[k] = None \/ new[k] = None \/ new[k].aggregate = None THEN None
    ELSE IF aggs[k].aggr = new[k].aggregate THEN aggs[k]
    ELSE Empty(new[k].aggregate)

\* Mutant: the baselines of points without a rule stay.
MForgotten(new) == {}

\* The points whose baselines a reload deletes.
Forgotten(new) == {k \in Keys : new[k] = None}

SwapRules ==
    /\ load.pc = "swap"
    /\ LET new == RulesOf(load.read)
       IN  /\ rules' = new
           /\ last' = [k \in Keys |-> IF k \in Forgotten(new) THEN None ELSE last[k]]
           /\ aggs' = [k \in Keys |-> Kept(k, new)]
           /\ passed' = [k \in Keys |-> IF new[k] = None THEN None ELSE passed[k]]
           /\ mixed' = {k \in mixed : new[k] # None}
    /\ load' = After(load.boot)
    /\ UNCHANGED <<points, handing, changed, missed, edits>>

\* Run subscribes after its first load, and starts flushLoop before that.
Subscribe ==
    /\ load.pc = "subscribe"
    /\ load' = Waiting
    /\ UNCHANGED <<points, engineVars, handing, changed, missed, edits, historyVars>>

-----------------------------------------------------------------------------
Init ==
    /\ points \in [Keys -> Settings \cup {None}]
    /\ rules = [k \in Keys |-> None]
    /\ last = [k \in Keys |-> None]
    /\ aggs = [k \in Keys |-> None]
    /\ handing = [t \in Threads |-> <<>>]
    /\ changed = FALSE /\ missed = FALSE
    /\ load = Booting
    /\ passed = [k \in Keys |-> None]
    /\ mixed = {}
    /\ edits = 0

FlushSome(k) == \E D \in SUBSET Flushable : k \in D /\ Flush(D)

Next ==
    \/ \E p \in DataPoint : Process(p)
    \/ \E k \in Keys : FlushSome(k)
    \/ \E t \in Threads : HandOn(t)
    \/ \E k \in Keys, setting \in Settings \cup {None} : EditPoint(k, setting)
    \/ EditElsewhere
    \/ ReadDevices \/ SwapRules \/ Subscribe

\* flushLoop has a ticker, and a window is due in the end; what it hands on is taken, since
\* neither the alert engine nor the output manager waits for anything but the database.
Fairness ==
    /\ \A k \in Keys : WF_vars(FlushSome(k))
    /\ WF_vars(HandOn("flush"))

Spec == Init /\ [][Next]_vars /\ Fairness

-----------------------------------------------------------------------------
Total(s) == FoldLeft(LAMBDA m, n : m + n, 0, s)

Exact(w) ==
    LET taken == ToSet(w.items)
    IN  /\ w.count = Len(w.items)
        /\ w.sum = Total(w.items)
        /\ w.count > 0 => /\ w.min \in taken /\ \A n \in taken : w.min <= n
                          /\ w.max \in taken /\ \A n \in taken : w.max >= n
                          /\ w.last = w.items[w.count]

\* The accumulators say exactly what was taken into the window since it was opened: the
\* derived point is the average, minimum, ... of these numbers and no others.
WindowIsExact == \A k \in Keys : aggs[k] # None => Exact(aggs[k])

\* A window never outlives the aggregate it was opened for: numbers taken in under one
\* configuration do not end up in a derived point of another one (engine.go:175).
WindowFollowsRule ==
    \A k \in Keys : aggs[k] # None => rules[k] # None /\ rules[k].aggregate = aggs[k].aggr

\* The deadband baseline of a point is the last number that passed, since its rule exists:
\* also after edits, and never one of an earlier rule.  Only for points that have had one
\* deadband filter and no other filter all the time: another filter may drop a number that
\* is the baseline already.
BaselineIsLastPassed == \A k \in Keys \ mixed : last[k] = passed[k]

\* Between two signals, the rules are the valid ones of the configuration (but for an edit
\* between the first load and the subscription, and a load that failed).
RulesFollowConfiguration ==
    (load = Waiting /\ ~changed /\ ~missed) => rules = RulesOf(points)

\* "A window without new points is emitted in time as well" (engine.go:407): when the points
\* stop, the window does not stay open.
QuietWindowIsEmitted ==
    \A k \in Keys :
        <>[][\A p \in DataPoint : ~Process(p)]_vars => []<>~Open(k)
=============================================================================

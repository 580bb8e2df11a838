-------------------------------- MODULE Alert --------------------------------
(***************************************************************************)
(* The alert engine (internal/alert/engine.go) with its two tables         *)
(* (internal/store/sqlite.go): rules over the latest values of several     *)
(* points, edge-triggered alerts, hot reload of the rules.                 *)
(*                                                                         *)
(* Process is called by the threads in Callers, Run is a thread of its     *)
(* own.  e.mu is held during an evaluation and during the swap of the      *)
(* rules, and nowhere else: the writes to the table and the copying of the *)
(* rules' state by a reload happen without it.                             *)
(***************************************************************************)
EXTENDS Naturals, FiniteSets

CONSTANTS
    Rules,      \* rule IDs
    Keys,       \* points, each a device and a name
    Values,     \* values of points
    Callers,    \* goroutines that call Process
    Defs,       \* definitions that a rule may be given
    None,       \* no rule, no value, no alert
    MaxFires,   \* bound: alerts of one rule
    MaxEdits,   \* bound: edits of the rules
    MaxFaults   \* bound: failed statements and restarts

\* expr is the value of the expression for the latest values of the points referred to; a
\* definition that does not compile, or is disabled, is not usable.
Definitions ==
    UNION { [refs : {R}, expr : [[R -> Values] -> {"true", "false", "error"}],
             usable : BOOLEAN, cooldown : BOOLEAN] : R \in SUBSET Keys }

AlertIDs == Rules \X (1..MaxFires)
Point    == [key : Keys, value : Values]

\* A compiled rule and the part of its state that a copy has of its own.
Rule == [def : Defs \cup {None}, active : BOOLEAN, id : AlertIDs \cup {None}, cooling : BOOLEAN]

ASSUME AlertAssumption ==
    /\ MaxFires \in Nat /\ MaxEdits \in Nat /\ MaxFaults \in Nat
    /\ Defs \subseteq Definitions
    /\ None \notin Defs /\ None \notin Values /\ None \notin AlertIDs /\ None \notin Rule

VARIABLES
    defs,      \* table gw_alert_rule
    pending,   \* table gw_alert: the alerts with status pending
    resolved,  \* table gw_alert: the alerts with status resolved
    arules,    \* Engine.rules: None or the compiled rule
    seen,      \* compiledRule.state of each rule; a value that is no longer fresh is None
    fired,     \* how many alerts each rule has had (the next alert's ID)
    acting,    \* what each caller has left to write for its last evaluation
    asignal,   \* a signal is in the engine's OnChange channel
    aload,     \* where Run is, with the local variables of reload
    forgotten, \* history: alerts that may stay pending for one of the known reasons
    outdated,  \* history: rules that were given an outdated copy of their state
    amissed,   \* history: the last edit was not signalled, or its reload failed
    edits,     \* edits of the rules so far
    faults     \* failed statements and restarts so far

tableVars   == <<defs, pending, resolved>>
engineVars  == <<arules, seen, fired>>
signalVars  == <<asignal, amissed>>
historyVars == <<forgotten, outdated>>
boundVars   == <<edits, faults>>
alertVars   == <<tableVars, engineVars, acting, signalVars, aload, historyVars, boundVars>>

NoRules  == [r \in Rules |-> None]
Unseen   == [k \in Keys |-> None]
Waiting  == [pc |-> "wait"]
Booting  == [pc |-> "boot"]
Copying(todo, read, new, boot) ==
    [pc |-> "copy", todo |-> todo, read |-> read, new |-> new, boot |-> boot]
Cleaning(orphans, boot) == [pc |-> "clean", orphans |-> orphans, boot |-> boot]

Fault ==
    /\ faults < MaxFaults
    /\ faults' = faults + 1

-----------------------------------------------------------------------------
(* The store.  An edit of any table signals every subscriber.                *)

\* Mutant: a signal is lost during a reload.
MSubscribed == aload = Waiting

Subscribed == aload = Waiting \/ (aload.pc \in {"copy", "clean"} /\ ~aload.boot)

\* The first load has read the rules, and the engine is not yet subscribed.
Unheard == aload.pc = "subscribe" \/ (aload.pc \in {"copy", "clean"} /\ aload.boot)

SignalAlerts ==
    /\ asignal' = (asignal \/ Subscribed)
    /\ UNCHANGED <<pending, resolved, engineVars, acting, aload, historyVars>>

\* SaveAlertRule and DeleteAlertRule.
EditRule(r, d) ==
    /\ edits < MaxEdits
    /\ edits' = edits + 1
    /\ defs[r] # d
    /\ defs' = [defs EXCEPT ![r] = d]
    /\ amissed' = (amissed \/ Unheard)
    /\ SignalAlerts
    /\ UNCHANGED faults

\* An edit of a device, of a connection, of an output.
EditElsewhere ==
    /\ SignalAlerts
    /\ UNCHANGED <<defs, amissed, boundVars>>

InTable(id) == id \in pending \cup resolved

\* UpdateAlertStatus changes nothing when the row is not there.  The alert whose update came
\* too early, or failed, stays pending.
Update(id) ==
    \/ /\ InTable(id)
       /\ pending' = pending \ {id}
       /\ resolved' = resolved \cup {id}
       /\ UNCHANGED <<forgotten, faults>>
    \/ /\ ~InTable(id)
       /\ forgotten' = forgotten \cup ({id} \ {None})
       /\ UNCHANGED <<pending, resolved, faults>>
    \/ /\ Fault
       /\ forgotten' = forgotten \cup ({id} \ {None})
       /\ UNCHANGED <<pending, resolved>>

-----------------------------------------------------------------------------
(* Process, first half: evaluateRulesLocked, under e.mu.                     *)

Hit(r, p) == arules[r] # None /\ p.key \in arules[r].def.refs

SeenAfter(p) == [r \in Rules |-> IF Hit(r, p) THEN [seen[r] EXCEPT ![p.key] = p.value]
                                              ELSE seen[r]]

\* A rule is skipped as long as one of its points is missing or stale.
Outcome(r, p) ==
    LET refs == arules[r].def.refs
        env  == [k \in refs |-> SeenAfter(p)[r][k]]
    IN  IF \E k \in refs : env[k] = None THEN "skipped" ELSE arules[r].def.expr[env]

\* Mutant: an active rule fires again.
MRising(p) ==
    {r \in Rules : /\ Hit(r, p) /\ Outcome(r, p) = "true"
                   /\ ~(arules[r].def.cooldown /\ arules[r].cooling)}

Rising(p) ==
    {r \in Rules : /\ Hit(r, p) /\ Outcome(r, p) = "true" /\ ~arules[r].active
                   /\ ~(arules[r].def.cooldown /\ arules[r].cooling)}

Falling(p) ==
    {r \in Rules : Hit(r, p) /\ Outcome(r, p) = "false" /\ arules[r].active}

\* Mutant: the ID of the last alert is used again.
MNextID(r) == <<r, fired[r]>>

\* newAlertID: the IDs are random, and all different.
NextID(r) == <<r, fired[r] + 1>>

\* Mutant: a resolved alert leaves its rule active.
MFallen(rule) == [rule EXCEPT !.cooling = TRUE]

Fallen(rule) == [rule EXCEPT !.active = FALSE, !.id = None, !.cooling = TRUE]

\* The reload in progress has copied the rule's state already.
Copied(r) == aload.pc = "copy" /\ aload.new[r] # None

Turned(p) == Rising(p) \cup Falling(p)

Evaluate(t, p) ==
    /\ acting[t] = {}
    /\ \A r \in Rising(p) : fired[r] < MaxFires
    /\ seen' = SeenAfter(p)
    /\ fired' = [r \in Rules |-> IF r \in Rising(p) THEN fired[r] + 1 ELSE fired[r]]
    /\ arules' = [r \in Rules |->
           IF r \in Rising(p) THEN [arules[r] EXCEPT !.active = TRUE, !.id = NextID(r)]
           ELSE IF r \in Falling(p) THEN Fallen(arules[r])
           ELSE arules[r]]
    /\ acting' = [acting EXCEPT ![t] =
           {[kind |-> "fire", id |-> NextID(r)] : r \in Rising(p)}
             \cup {[kind |-> "resolve", id |-> arules[r].id] : r \in Falling(p)}]
    /\ forgotten' = forgotten \cup {NextID(r) : r \in {q \in Rising(p) : Copied(q)}}
    /\ outdated' = (outdated \ Turned(p)) \cup {r \in Turned(p) : Copied(r)}
    /\ UNCHANGED <<tableVars, signalVars, aload, boundVars>>

-----------------------------------------------------------------------------
(* Process, second half: the actions, one after the other, without the lock. *)
(* The alert message and the point itself then go to the output manager,     *)
(* which changes nothing here.                                               *)

\* fireAlert.  A failed insert is logged.
FireAlert(t, act) ==
    /\ act \in acting[t] /\ act.kind = "fire"
    /\ \/ pending' = pending \cup {act.id} /\ UNCHANGED faults
       \/ Fault /\ UNCHANGED pending
    /\ acting' = [acting EXCEPT ![t] = @ \ {act}]
    /\ UNCHANGED <<defs, resolved, engineVars, signalVars, aload, historyVars, edits>>

\* resolveAlert.
ResolveAlert(t, act) ==
    /\ act \in acting[t] /\ act.kind = "resolve"
    /\ Update(act.id)
    /\ acting' = [acting EXCEPT ![t] = @ \ {act}]
    /\ UNCHANGED <<defs, engineVars, signalVars, aload, outdated, edits>>

-----------------------------------------------------------------------------
(* Time passes.                                                              *)

\* The value of a point is older than the rule's freshness.
Expires(r, k) ==
    /\ seen[r][k] # None
    /\ seen' = [seen EXCEPT ![r][k] = None]
    /\ UNCHANGED <<tableVars, arules, fired, acting, signalVars, aload, historyVars, boundVars>>

Cooled(rule) == IF rule = None THEN None ELSE [rule EXCEPT !.cooling = FALSE]

CooldownEnds(r) ==
    /\ arules[r] # None /\ arules[r].cooling
    /\ arules' = [arules EXCEPT ![r] = Cooled(@)]
    /\ aload' = IF aload.pc = "copy" THEN [aload EXCEPT !.new[r] = Cooled(@)] ELSE aload
    /\ UNCHANGED <<tableVars, seen, fired, acting, signalVars, historyVars, boundVars>>

-----------------------------------------------------------------------------
(* Run and reload.                                                           *)

After(boot) == IF boot THEN [pc |-> "subscribe"] ELSE Waiting

\* Run starts with a reload, and then reloads at each signal.
ReadRules ==
    /\ \/ aload = Booting /\ UNCHANGED asignal
       \/ aload = Waiting /\ asignal /\ asignal' = FALSE
    /\ \/ /\ aload' = Copying({r \in Rules : defs[r] # None /\ defs[r].usable},
                              defs, NoRules, aload = Booting)
          /\ amissed' = FALSE
          /\ UNCHANGED faults
       \/ /\ Fault
          /\ aload' = After(aload = Booting)
          /\ amissed' = TRUE
    /\ UNCHANGED <<tableVars, engineVars, acting, historyVars, edits>>

\* compileRule copies the state of the rule of the same ID: first active, then the rest.
\* The map of the latest values is shared, not copied.
CopyActive(r) ==
    /\ aload.pc = "copy" /\ r \in aload.todo /\ aload.new[r] = None
    /\ aload' = [aload EXCEPT !.new[r] =
           [def |-> aload.read[r], active |-> arules[r] # None /\ arules[r].active,
            id |-> None, cooling |-> FALSE]]
    /\ UNCHANGED <<tableVars, engineVars, acting, signalVars, historyVars, boundVars>>

CopyRest(r) ==
    /\ aload.pc = "copy" /\ r \in aload.todo /\ aload.new[r] # None
    /\ aload' = [aload EXCEPT !.todo = @ \ {r},
                   !.new[r] = IF arules[r] = None THEN @
                              ELSE [@ EXCEPT !.id = arules[r].id, !.cooling = arules[r].cooling]]
    /\ UNCHANGED <<tableVars, engineVars, acting, signalVars, historyVars, boundVars>>

\* The alerts of active rules that are gone.
Orphans(new) ==
    {arules[r].id : r \in {q \in Rules : arules[q] # None /\ new[q] = None /\ arules[q].active}}

\* The swap, under e.mu.  A rule without a predecessor starts with no values.
SwapRules ==
    /\ aload.pc = "copy" /\ aload.todo = {}
    /\ arules' = aload.new
    /\ seen' = [r \in Rules |-> IF arules[r] = None \/ aload.new[r] = None THEN Unseen ELSE seen[r]]
    /\ outdated' = {r \in outdated : aload.new[r] # None}
    /\ aload' = Cleaning(Orphans(aload.new), aload.boot)
    /\ UNCHANGED <<tableVars, fired, acting, signalVars, forgotten, boundVars>>

ResolveOrphan(id) ==
    /\ aload.pc = "clean" /\ id \in aload.orphans
    /\ Update(id)
    /\ aload' = [aload EXCEPT !.orphans = @ \ {id}]
    /\ UNCHANGED <<defs, engineVars, acting, signalVars, outdated, edits>>

FinishRules ==
    /\ aload.pc = "clean" /\ aload.orphans = {}
    /\ aload' = After(aload.boot)
    /\ UNCHANGED <<tableVars, engineVars, acting, signalVars, historyVars, boundVars>>

\* The engine subscribes after its first load.
SubscribeRules ==
    /\ aload.pc = "subscribe"
    /\ aload' = Waiting
    /\ UNCHANGED <<tableVars, engineVars, acting, signalVars, historyVars, boundVars>>

\* The process ends, and starts again.  Alerts being written are lost.
AlertsRestart ==
    /\ Fault
    /\ arules' = NoRules
    /\ seen' = [r \in Rules |-> Unseen]
    /\ acting' = [t \in Callers |-> {}]
    /\ asignal' = FALSE /\ amissed' = FALSE
    /\ aload' = Booting
    /\ outdated' = {}
    /\ forgotten' = forgotten \cup pending
    /\ UNCHANGED <<tableVars, fired, edits>>

-----------------------------------------------------------------------------
AlertInit ==
    /\ defs \in [Rules -> Defs \cup {None}]
    /\ pending = {} /\ resolved = {}
    /\ arules = NoRules
    /\ seen = [r \in Rules |-> Unseen]
    /\ fired = [r \in Rules |-> 0]
    /\ acting = [t \in Callers |-> {}]
    /\ asignal = FALSE /\ amissed = FALSE
    /\ aload = Booting
    /\ forgotten = {} /\ outdated = {}
    /\ edits = 0 /\ faults = 0

RuleEdits == \E r \in Rules, d \in Defs \cup {None} : EditRule(r, d)

WriteAlerts == \E t \in Callers : \E act \in acting[t] : FireAlert(t, act) \/ ResolveAlert(t, act)

ReloadRules ==
    \/ ReadRules
    \/ \E r \in Rules : CopyActive(r) \/ CopyRest(r)
    \/ SwapRules
    \/ \E id \in AlertIDs \cup {None} : ResolveOrphan(id)
    \/ FinishRules \/ SubscribeRules

RulesAge == \E r \in Rules : CooldownEnds(r) \/ \E k \in Keys : Expires(r, k)

AlertNext ==
    \/ RuleEdits \/ EditElsewhere
    \/ \E t \in Callers, p \in Point : Evaluate(t, p)
    \/ WriteAlerts
    \/ ReloadRules
    \/ RulesAge
    \/ AlertsRestart

AlertSpec == AlertInit /\ [][AlertNext]_alertVars

-----------------------------------------------------------------------------
Action == [kind : {"fire"}, id : AlertIDs] \cup [kind : {"resolve"}, id : AlertIDs \cup {None}]

CopyType == [pc : {"copy"}, todo : SUBSET Rules, read : [Rules -> Defs \cup {None}],
             new : [Rules -> Rule \cup {None}], boot : BOOLEAN]

CleanType == [pc : {"clean"}, orphans : SUBSET (AlertIDs \cup {None}), boot : BOOLEAN]

LoadType == {Booting, Waiting, [pc |-> "subscribe"]} \cup CopyType \cup CleanType

TablesTypeOK ==
    /\ defs \in [Rules -> Defs \cup {None}]
    /\ pending \subseteq AlertIDs /\ resolved \subseteq AlertIDs

EngineTypeOK ==
    /\ arules \in [Rules -> Rule \cup {None}]
    /\ seen \in [Rules -> [Keys -> Values \cup {None}]]
    /\ fired \in [Rules -> 0..MaxFires]
    /\ acting \in [Callers -> SUBSET Action]

RunTypeOK == aload \in LoadType /\ asignal \in BOOLEAN /\ amissed \in BOOLEAN

HistoryTypeOK ==
    /\ forgotten \subseteq AlertIDs /\ outdated \subseteq Rules
    /\ edits \in 0..MaxEdits /\ faults \in 0..MaxFaults

AlertTypeOK == TablesTypeOK /\ EngineTypeOK /\ RunTypeOK /\ HistoryTypeOK

Owned(id) == \E r \in Rules : arules[r] # None /\ arules[r].active /\ arules[r].id = id

BeingResolved(id) ==
    \/ \E t \in Callers : [kind |-> "resolve", id |-> id] \in acting[t]
    \/ aload.pc = "clean" /\ id \in aload.orphans

\* Every pending alert is the alert of an active rule, or is just being resolved; there are
\* four ways only for it to be forgotten: its rule's state was copied by a reload before it
\* fired, its resolution came before it was saved, the database failed, the process ended.
PendingIsOwned ==
    \A id \in pending : Owned(id) \/ BeingResolved(id) \/ id \in forgotten

\* A rule never waits for the resolution of an alert that is resolved: it would keep quiet at
\* the next alarm.  The exception is a rule whose state a reload copied too early.
ActiveIsPending ==
    \A r \in Rules \ outdated :
        (arules[r] # None /\ arules[r].active) => arules[r].id \notin resolved

\* Between two signals, the rules are the ones in the store: those that are enabled and
\* compile, with their latest definitions (but for an edit between the first load and the
\* subscription, and a load that failed).
RulesFollowStore ==
    (aload = Waiting /\ ~asignal /\ ~amissed) =>
        \A r \in Rules :
            IF defs[r] # None /\ defs[r].usable
              THEN arules[r] # None /\ arules[r].def = defs[r]
              ELSE arules[r] = None
=============================================================================

----------------------------- MODULE AlertProofs -----------------------------
(* For any rules, points, callers and bounds: the types of the alert engine,  *)
(* the agreement of its rules with the store, and the ownership of alerts:    *)
(* every pending alert belongs to an active rule, and no active rule to an    *)
(* alert that is resolved, whatever order the callers and the reload take;    *)
(* each with the exceptions that the code leaves open.                        *)
EXTENDS Alert, TLAPS

-----------------------------------------------------------------------------
(* The inductive invariant of the reload.                                     *)

Follows(rules, table) ==
    \A r \in Rules :
        IF table[r] # None /\ table[r].usable
          THEN rules[r] # None /\ rules[r].def = table[r]
          ELSE rules[r] = None

\* The copy being made is that of the usable rules read, and lacks only those left to do.
CopyFollowsRead ==
    aload.pc = "copy" =>
        \A r \in Rules :
            /\ r \in aload.todo \/ aload.new[r] # None => aload.read[r] # None /\ aload.read[r].usable
            /\ aload.new[r] # None => aload.new[r].def = aload.read[r]
            /\ aload.read[r] # None /\ aload.read[r].usable => r \in aload.todo \/ aload.new[r] # None

\* What was read, and later what was swapped in, is what the store holds, or the engine is due
\* another reload, or one of the two known gaps was met.
FollowInv ==
    /\ CopyFollowsRead
    /\ aload.pc = "copy" => aload.read = defs \/ asignal \/ amissed
    /\ aload.pc \in {"clean", "subscribe", "wait"} => Follows(arules, defs) \/ asignal \/ amissed

-----------------------------------------------------------------------------
(* The types.                                                                 *)

(* The reload has the local variables of the place where it is. *)
LEMMA LoadAt ==
    ASSUME RunTypeOK
    PROVE  /\ aload.pc = "copy" => aload \in CopyType
           /\ aload.pc = "clean" => aload \in CleanType
BY DEF RunTypeOK, LoadType, CopyType, CleanType, Booting, Waiting

LEMMA FaultType ==
    ASSUME HistoryTypeOK, Fault \/ UNCHANGED faults
    PROVE  faults' \in 0..MaxFaults
BY AlertAssumption DEF Fault, HistoryTypeOK

LEMMA UpdateType ==
    ASSUME TablesTypeOK, HistoryTypeOK, NEW id \in AlertIDs \cup {None}, Update(id),
           UNCHANGED <<defs, outdated, edits>>
    PROVE  TablesTypeOK' /\ HistoryTypeOK'
<1>1. TablesTypeOK'
  BY AlertAssumption DEF Update, InTable, TablesTypeOK
<1>2. faults' \in 0..MaxFaults
  BY FaultType DEF Update
<1>3. forgotten' \subseteq AlertIDs
  BY DEF Update, HistoryTypeOK
<1> QED BY <1>1, <1>2, <1>3 DEF HistoryTypeOK

LEMMA FireHasID ==
    ASSUME EngineTypeOK, NEW t \in Callers, NEW act \in acting[t], act.kind = "fire"
    PROVE  act.id \in AlertIDs
BY DEF EngineTypeOK, Action

LEMMA AfterType ==
    ASSUME NEW boot \in BOOLEAN
    PROVE  After(boot) \in LoadType
BY DEF After, LoadType

LEMMA NextIDType ==
    ASSUME AlertTypeOK, NEW t \in Callers, NEW p \in Point, Evaluate(t, p), NEW r \in Rising(p)
    PROVE  fired[r] + 1 \in 1..MaxFires /\ NextID(r) \in AlertIDs
<1>1. r \in Rules
  BY DEF Rising
<1>2. fired[r] \in 0..MaxFires /\ fired[r] < MaxFires
  BY <1>1 DEF Evaluate, AlertTypeOK, EngineTypeOK
<1>3. fired[r] + 1 \in 1..MaxFires
  BY <1>2, AlertAssumption
<1> QED BY <1>1, <1>3 DEF NextID, AlertIDs

LEMMA EvaluateType ==
    ASSUME AlertTypeOK, NEW t \in Callers, NEW p \in Point, Evaluate(t, p)
    PROVE  AlertTypeOK'
<1>1. Rising(p) \subseteq Rules /\ Falling(p) \subseteq Rules
  BY DEF Rising, Falling
<1>2. \A r \in Rising(p) \cup Falling(p) : arules[r] \in Rule
  BY DEF Rising, Falling, Hit, AlertTypeOK, EngineTypeOK
<1>3. ASSUME NEW r \in Rising(p) PROVE fired[r] + 1 \in 1..MaxFires /\ NextID(r) \in AlertIDs
  BY NextIDType
<1>4. fired' \in [Rules -> 0..MaxFires]
  <2>1. \A r \in Rising(p) : fired[r] + 1 \in 0..MaxFires
    BY <1>3
  <2> QED BY <2>1 DEF Evaluate, AlertTypeOK, EngineTypeOK
<1>5. arules' \in [Rules -> Rule \cup {None}]
  <2>1. \A r \in Rising(p) :
          [arules[r] EXCEPT !.active = TRUE, !.id = NextID(r)] \in Rule
    BY <1>2, <1>3 DEF Rule
  <2>2. \A r \in Falling(p) : Fallen(arules[r]) \in Rule
    BY <1>2 DEF Rule, Fallen
  <2> QED BY <1>1, <2>1, <2>2 DEF Evaluate, AlertTypeOK, EngineTypeOK
<1>6. acting' \in [Callers -> SUBSET Action]
  <2>1. {[kind |-> "fire", id |-> NextID(r)] : r \in Rising(p)} \subseteq Action
    BY <1>3 DEF Action
  <2>2. {[kind |-> "resolve", id |-> arules[r].id] : r \in Falling(p)} \subseteq Action
    BY <1>2 DEF Action, Rule
  <2> QED BY <2>1, <2>2 DEF Evaluate, AlertTypeOK, EngineTypeOK
<1>7. seen' \in [Rules -> [Keys -> Values \cup {None}]]
  BY DEF Evaluate, SeenAfter, Point, AlertTypeOK, EngineTypeOK
<1>8. HistoryTypeOK'
  <2>1. {NextID(r) : r \in {q \in Rising(p) : Copied(q)}} \subseteq AlertIDs
    BY <1>3
  <2>2. outdated' \subseteq Rules
    BY <1>1 DEF Evaluate, Turned, AlertTypeOK, HistoryTypeOK
  <2> QED BY <2>1, <2>2 DEF Evaluate, boundVars, AlertTypeOK, HistoryTypeOK
<1> QED BY <1>4, <1>5, <1>6, <1>7, <1>8
       DEF Evaluate, tableVars, signalVars, AlertTypeOK, TablesTypeOK, EngineTypeOK, RunTypeOK

LEMMA ReloadType ==
    ASSUME AlertTypeOK, ReloadRules
    PROVE  AlertTypeOK'
<1> USE DEF tableVars, engineVars, signalVars, historyVars, boundVars
<1>1. CASE ReadRules
  <2>1. aload' \in LoadType
    <3>1. CASE aload' = After(aload = Booting)
      BY <3>1, AfterType
    <3>2. CASE aload' = Copying({r \in Rules : defs[r] # None /\ defs[r].usable},
                              defs, NoRules, aload = Booting)
      <4>1. aload' \in CopyType
        BY <3>2 DEF Copying, CopyType, NoRules, AlertTypeOK, TablesTypeOK
      <4> QED BY <4>1 DEF LoadType
    <3> QED BY <1>1, <3>1, <3>2 DEF ReadRules
  <2>2. asignal' \in BOOLEAN /\ amissed' \in BOOLEAN
    BY <1>1 DEF ReadRules, AlertTypeOK, RunTypeOK
  <2>3. faults' \in 0..MaxFaults
    BY <1>1, FaultType DEF ReadRules, AlertTypeOK
  <2> QED BY <1>1, <2>1, <2>2, <2>3
         DEF ReadRules, AlertTypeOK, TablesTypeOK, EngineTypeOK, RunTypeOK, HistoryTypeOK
<1>2. ASSUME NEW r \in Rules, CopyActive(r) PROVE AlertTypeOK'
  <2>1. aload \in CopyType
    BY <1>2, LoadAt DEF CopyActive, AlertTypeOK
  <2>2. arules[r] # None => arules[r].active \in BOOLEAN
    BY DEF AlertTypeOK, EngineTypeOK, Rule
  <2>3. [def |-> aload.read[r], active |-> arules[r] # None /\ arules[r].active,
         id |-> None, cooling |-> FALSE] \in Rule
    BY <2>1, <2>2 DEF CopyType, Rule
  <2>4. aload' \in CopyType
    BY <1>2, <2>1, <2>3 DEF CopyActive, CopyType
  <2> QED BY <1>2, <2>4 DEF CopyActive, LoadType, AlertTypeOK, TablesTypeOK, EngineTypeOK,
                            RunTypeOK, HistoryTypeOK
<1>3. ASSUME NEW r \in Rules, CopyRest(r) PROVE AlertTypeOK'
  <2>1. aload \in CopyType /\ aload.new[r] \in Rule
    BY <1>3, LoadAt DEF CopyRest, CopyType, AlertTypeOK
  <2>2. (IF arules[r] = None THEN aload.new[r]
         ELSE [aload.new[r] EXCEPT !.id = arules[r].id, !.cooling = arules[r].cooling]) \in Rule
    BY <2>1 DEF AlertTypeOK, EngineTypeOK, Rule
  <2>3. aload' \in CopyType
    BY <1>3, <2>1, <2>2 DEF CopyRest, CopyType
  <2> QED BY <1>3, <2>3 DEF CopyRest, LoadType, AlertTypeOK, TablesTypeOK, EngineTypeOK,
                            RunTypeOK, HistoryTypeOK
<1>4. CASE SwapRules
  <2>1. aload \in CopyType
    BY <1>4, LoadAt DEF SwapRules, AlertTypeOK
  <2>2. Orphans(aload.new) \subseteq AlertIDs \cup {None}
    BY DEF Orphans, AlertTypeOK, EngineTypeOK, Rule
  <2>3. aload' \in CleanType
    BY <1>4, <2>1, <2>2 DEF SwapRules, Cleaning, CopyType, CleanType
  <2>4. EngineTypeOK'
    BY <1>4, <2>1 DEF SwapRules, Unseen, CopyType, AlertTypeOK, EngineTypeOK
  <2>5. HistoryTypeOK'
    BY <1>4 DEF SwapRules, AlertTypeOK, HistoryTypeOK
  <2> QED BY <1>4, <2>3, <2>4, <2>5 DEF SwapRules, LoadType, AlertTypeOK, TablesTypeOK, RunTypeOK
<1>5. ASSUME NEW id \in AlertIDs \cup {None}, ResolveOrphan(id) PROVE AlertTypeOK'
  <2>1. aload \in CleanType
    BY <1>5, LoadAt DEF ResolveOrphan, AlertTypeOK
  <2>2. aload' \in CleanType
    BY <1>5, <2>1 DEF ResolveOrphan, CleanType
  <2>3. TablesTypeOK' /\ HistoryTypeOK'
    BY <1>5, UpdateType DEF ResolveOrphan, AlertTypeOK
  <2> QED BY <1>5, <2>2, <2>3 DEF ResolveOrphan, LoadType, AlertTypeOK, EngineTypeOK, RunTypeOK
<1>6. CASE FinishRules
  <2>1. aload.boot \in BOOLEAN
    BY <1>6, LoadAt DEF FinishRules, CleanType, AlertTypeOK
  <2> QED BY <1>6, <2>1, AfterType DEF FinishRules, AlertTypeOK, TablesTypeOK, EngineTypeOK,
                                       RunTypeOK, HistoryTypeOK
<1>7. CASE SubscribeRules
  BY <1>7 DEF SubscribeRules, LoadType, AlertTypeOK, TablesTypeOK, EngineTypeOK, RunTypeOK,
              HistoryTypeOK
<1> QED BY <1>1, <1>2, <1>3, <1>4, <1>5, <1>6, <1>7 DEF ReloadRules

LEMMA StepType ==
    ASSUME AlertTypeOK, [AlertNext]_alertVars
    PROVE  AlertTypeOK'
<1> USE DEF tableVars, engineVars, signalVars, historyVars, boundVars, AlertTypeOK
<1>1. ASSUME NEW r \in Rules, NEW d \in Defs \cup {None}, EditRule(r, d) PROVE AlertTypeOK'
  <2>1. edits' \in 0..MaxEdits
    BY <1>1, AlertAssumption DEF EditRule, HistoryTypeOK
  <2>2. TablesTypeOK'
    BY <1>1 DEF EditRule, SignalAlerts, TablesTypeOK
  <2>3. asignal' \in BOOLEAN /\ amissed' \in BOOLEAN
    BY <1>1 DEF EditRule, SignalAlerts
  <2> QED BY <1>1, <2>1, <2>2, <2>3 DEF EditRule, SignalAlerts, EngineTypeOK, RunTypeOK,
                                        HistoryTypeOK
<1>2. CASE EditElsewhere
  <2>1. asignal' \in BOOLEAN
    BY <1>2 DEF EditElsewhere, SignalAlerts
  <2> QED BY <1>2, <2>1 DEF EditElsewhere, SignalAlerts, TablesTypeOK, EngineTypeOK, RunTypeOK,
                            HistoryTypeOK
<1>3. ASSUME NEW t \in Callers, NEW act \in acting[t], FireAlert(t, act) PROVE AlertTypeOK'
  <2>1. act.id \in AlertIDs
    BY <1>3, FireHasID DEF FireAlert
  <2>2. TablesTypeOK'
    BY <1>3, <2>1 DEF FireAlert, TablesTypeOK
  <2>3. EngineTypeOK'
    BY <1>3 DEF FireAlert, EngineTypeOK
  <2>4. HistoryTypeOK'
    BY <1>3, FaultType DEF FireAlert, HistoryTypeOK
  <2> QED BY <1>3, <2>2, <2>3, <2>4 DEF FireAlert, RunTypeOK
<1>4. ASSUME NEW t \in Callers, NEW act \in acting[t], ResolveAlert(t, act) PROVE AlertTypeOK'
  <2>1. act.id \in AlertIDs \cup {None}
    BY DEF EngineTypeOK, Action
  <2>2. TablesTypeOK' /\ HistoryTypeOK'
    BY <1>4, <2>1, UpdateType DEF ResolveAlert
  <2> QED BY <1>4, <2>2 DEF ResolveAlert, EngineTypeOK, RunTypeOK
<1>5. ASSUME NEW r \in Rules, CooldownEnds(r) PROVE AlertTypeOK'
  <2>1. \A rule \in Rule \cup {None} : Cooled(rule) \in Rule \cup {None}
    BY DEF Cooled, Rule
  <2>2. EngineTypeOK'
    BY <1>5, <2>1 DEF CooldownEnds, EngineTypeOK
  <2>3. CASE aload.pc = "copy"
    <3>1. aload \in CopyType
      BY <2>3, LoadAt
    <3>2. aload' \in CopyType
      BY <1>5, <2>1, <2>3, <3>1 DEF CooldownEnds, CopyType
    <3> QED BY <1>5, <2>2, <3>2 DEF CooldownEnds, LoadType, TablesTypeOK, RunTypeOK,
                                    HistoryTypeOK
  <2>4. CASE aload.pc # "copy"
    BY <1>5, <2>2, <2>4 DEF CooldownEnds, TablesTypeOK, RunTypeOK, HistoryTypeOK
  <2> QED BY <2>3, <2>4
<1>6. ASSUME NEW r \in Rules, NEW k \in Keys, Expires(r, k) PROVE AlertTypeOK'
  BY <1>6 DEF Expires, TablesTypeOK, EngineTypeOK, RunTypeOK, HistoryTypeOK
<1>7. CASE AlertsRestart
  <2>1. EngineTypeOK'
    BY <1>7 DEF AlertsRestart, NoRules, Unseen, EngineTypeOK
  <2>2. HistoryTypeOK' /\ TablesTypeOK'
    BY <1>7, FaultType DEF AlertsRestart, HistoryTypeOK, TablesTypeOK
  <2> QED BY <1>7, <2>1, <2>2 DEF AlertsRestart, LoadType, RunTypeOK
<1>8. CASE UNCHANGED alertVars
  BY <1>8 DEF alertVars, TablesTypeOK, EngineTypeOK, RunTypeOK, HistoryTypeOK
<1> QED BY <1>1, <1>2, <1>3, <1>4, <1>5, <1>6, <1>7, <1>8, EvaluateType, ReloadType
       DEF AlertNext, RuleEdits, WriteAlerts, RulesAge

(* Every variable of the alert engine and its tables keeps its type; in particular an alert  *)
(* is only ever saved or recorded under an ID that was given out.                            *)
THEOREM AlertTypeCorrect == AlertSpec => []AlertTypeOK
<1>1. AlertInit => AlertTypeOK
  <2>1. AlertInit => EngineTypeOK
    BY AlertAssumption DEF AlertInit, EngineTypeOK, NoRules, Unseen
  <2>2. AlertInit => HistoryTypeOK
    BY AlertAssumption DEF AlertInit, HistoryTypeOK
  <2> QED BY <2>1, <2>2 DEF AlertInit, AlertTypeOK, TablesTypeOK, RunTypeOK, LoadType
<1>2. AlertTypeOK /\ [AlertNext]_alertVars => AlertTypeOK'
  BY StepType
<1> QED BY <1>1, <1>2, PTL DEF AlertSpec

-----------------------------------------------------------------------------
(* The rules and the store.                                                   *)

LEMMA PcOfLoad ==
    /\ Waiting.pc = "wait" /\ Booting.pc = "boot"
    /\ \A boot \in BOOLEAN : After(boot).pc \in {"subscribe", "wait"}
BY DEF Waiting, Booting, After

(* An edit of the rules while Run is past its first reading leaves a signal, or is missed.   *)
LEMMA EditFollows ==
    ASSUME AlertTypeOK, FollowInv, NEW r \in Rules, NEW d \in Defs \cup {None}, EditRule(r, d)
    PROVE  FollowInv'
<1>1. aload.pc # "boot" => asignal' \/ amissed'
  <2>1. asignal' = (asignal \/ Subscribed) /\ amissed' = (amissed \/ Unheard)
    BY DEF EditRule, SignalAlerts
  <2>2. aload.pc # "boot" => Subscribed \/ Unheard
    <3>1. CASE aload \in {Booting, Waiting, [pc |-> "subscribe"]}
      BY <3>1 DEF Subscribed, Unheard, Booting
    <3>2. CASE aload \in CopyType \cup CleanType
      BY <3>2 DEF Subscribed, Unheard, CopyType, CleanType
    <3> QED BY <3>1, <3>2 DEF AlertTypeOK, RunTypeOK, LoadType
  <2> QED BY <2>1, <2>2
<1> QED BY <1>1 DEF EditRule, SignalAlerts, FollowInv, CopyFollowsRead

(* A step that changes no rule's definition, and leaves Run alone.                           *)
LEMMA QuietFollows ==
    ASSUME FollowInv, UNCHANGED <<defs, aload, amissed>>, asignal => asignal',
           \A r \in Rules : /\ (arules'[r] = None) <=> (arules[r] = None)
                            /\ arules[r] # None => arules'[r].def = arules[r].def
    PROVE  FollowInv'
<1>1. CopyFollowsRead'
  BY DEF FollowInv, CopyFollowsRead
<1>2. Follows(arules, defs) => Follows(arules, defs)'
  BY DEF Follows
<1> QED BY <1>1, <1>2 DEF FollowInv

LEMMA EvaluateKeepsRules ==
    ASSUME AlertTypeOK, NEW t \in Callers, NEW p \in Point, Evaluate(t, p), NEW r \in Rules
    PROVE  /\ (arules'[r] = None) <=> (arules[r] = None)
           /\ arules[r] # None => arules'[r].def = arules[r].def
<1>1. r \in Rising(p) \cup Falling(p) => arules[r] \in Rule
  BY DEF Rising, Falling, Hit, AlertTypeOK, EngineTypeOK
<1>2. arules'[r] = IF r \in Rising(p) THEN [arules[r] EXCEPT !.active = TRUE, !.id = NextID(r)]
                   ELSE IF r \in Falling(p) THEN Fallen(arules[r]) ELSE arules[r]
  BY DEF Evaluate
<1>3. CASE r \in Rising(p)
  <2>1. arules'[r] = [arules[r] EXCEPT !.active = TRUE, !.id = NextID(r)]
    BY <1>2, <1>3
  <2>2. arules'[r].def = arules[r].def
    BY <1>1, <1>3, <2>1 DEF Rule
  <2>3. arules'[r] \in Rule
    <3>1. NextID(r) \in AlertIDs
      BY <1>3, NextIDType
    <3> QED BY <1>1, <1>3, <2>1, <3>1 DEF Rule
  <2> QED BY <1>3, <2>2, <2>3, AlertAssumption DEF Rising, Hit
<1>4. CASE r \in Falling(p) /\ r \notin Rising(p)
  <2>1. arules'[r] = Fallen(arules[r])
    BY <1>2, <1>4
  <2>2. arules'[r] \in Rule /\ arules'[r].def = arules[r].def
    BY <1>1, <1>4, <2>1 DEF Rule, Fallen
  <2> QED BY <1>4, <2>2, AlertAssumption DEF Falling, Hit
<1>5. CASE r \notin Rising(p) \cup Falling(p)
  BY <1>2, <1>5
<1> QED BY <1>3, <1>4, <1>5

LEMMA ReloadFollows ==
    ASSUME AlertTypeOK, FollowInv, ReloadRules
    PROVE  FollowInv'
<1>1. CASE ReadRules
  <2>1. CASE aload' = Copying({r \in Rules : defs[r] # None /\ defs[r].usable},
                              defs, NoRules, aload = Booting)
    BY <1>1, <2>1 DEF ReadRules, Copying, NoRules, FollowInv, CopyFollowsRead, tableVars
  <2>2. CASE aload' = After(aload = Booting) /\ amissed' = TRUE
    <3>1. aload'.pc \in {"subscribe", "wait"}
      BY <2>2, PcOfLoad
    <3> QED BY <2>2, <3>1 DEF FollowInv, CopyFollowsRead
  <2> QED BY <1>1, <2>1, <2>2 DEF ReadRules
<1>2. ASSUME NEW r \in Rules, CopyActive(r) PROVE FollowInv'
  <2> DEFINE copied == [def |-> aload.read[r], active |-> arules[r] # None /\ arules[r].active,
                        id |-> None, cooling |-> FALSE]
  <2>1. aload \in CopyType /\ aload' = [aload EXCEPT !.new[r] = copied]
    BY <1>2, LoadAt DEF CopyActive, AlertTypeOK
  <2>2. copied # None
    <3>1. copied \in Rule
      BY <2>1 DEF CopyType, Rule, AlertTypeOK, EngineTypeOK
    <3> QED BY <3>1, AlertAssumption
  <2>3. \A q \in Rules : aload'.new[q] = IF q = r THEN copied ELSE aload.new[q]
    BY <2>1 DEF CopyType
  <2>4. aload'.pc = "copy" /\ aload'.read = aload.read /\ aload'.todo = aload.todo
    BY <2>1 DEF CopyType
  <2>5. CopyFollowsRead'
    BY <1>2, <2>2, <2>3, <2>4 DEF FollowInv, CopyFollowsRead, CopyActive
  <2> QED BY <1>2, <2>4, <2>5 DEF FollowInv, CopyActive, tableVars, signalVars
<1>3. ASSUME NEW r \in Rules, CopyRest(r) PROVE FollowInv'
  <2> DEFINE rest == IF arules[r] = None THEN aload.new[r]
                     ELSE [aload.new[r] EXCEPT !.id = arules[r].id, !.cooling = arules[r].cooling]
  <2>1. aload \in CopyType /\ aload.new[r] \in Rule
    BY <1>3, LoadAt DEF CopyRest, CopyType, AlertTypeOK
  <2>2. rest \in Rule /\ rest.def = aload.new[r].def
    BY <2>1 DEF Rule, AlertTypeOK, EngineTypeOK
  <2>3. \A q \in Rules : aload'.new[q] = IF q = r THEN rest ELSE aload.new[q]
    BY <1>3, <2>1 DEF CopyRest, CopyType
  <2>4. aload'.pc = "copy" /\ aload'.read = aload.read /\ aload'.todo = aload.todo \ {r}
    BY <1>3, <2>1 DEF CopyRest, CopyType
  <2>5. CopyFollowsRead'
    BY <1>3, <2>2, <2>3, <2>4, AlertAssumption DEF FollowInv, CopyFollowsRead, CopyRest
  <2> QED BY <1>3, <2>4, <2>5 DEF FollowInv, CopyRest, tableVars, signalVars
<1>4. CASE SwapRules
  <2>1. aload'.pc = "clean"
    BY <1>4 DEF SwapRules, Cleaning
  <2>2. Follows(arules', aload.read)
    BY <1>4 DEF SwapRules, Follows, FollowInv, CopyFollowsRead
  <2>3. Follows(arules, defs)' \/ asignal' \/ amissed'
    BY <1>4, <2>2 DEF SwapRules, FollowInv, tableVars, signalVars
  <2> QED BY <2>1, <2>3 DEF FollowInv, CopyFollowsRead
<1>5. ASSUME NEW id \in AlertIDs \cup {None}, ResolveOrphan(id) PROVE FollowInv'
  <2>1. aload.pc = "clean" /\ aload'.pc = "clean"
    BY <1>5, LoadAt DEF ResolveOrphan, CleanType, AlertTypeOK
  <2> QED BY <1>5, <2>1 DEF ResolveOrphan, FollowInv, CopyFollowsRead, Follows, engineVars,
                            signalVars
<1>6. CASE FinishRules
  <2>1. aload.pc = "clean" /\ aload'.pc \in {"subscribe", "wait"}
    BY <1>6, LoadAt, PcOfLoad DEF FinishRules, CleanType, AlertTypeOK
  <2> QED BY <1>6, <2>1 DEF FinishRules, FollowInv, CopyFollowsRead, Follows, engineVars,
                            tableVars, signalVars
<1>7. CASE SubscribeRules
  <2>1. aload.pc = "subscribe" /\ aload'.pc = "wait"
    BY <1>7, PcOfLoad DEF SubscribeRules
  <2> QED BY <1>7, <2>1 DEF SubscribeRules, FollowInv, CopyFollowsRead, Follows, engineVars,
                            tableVars, signalVars
<1> QED BY <1>1, <1>2, <1>3, <1>4, <1>5, <1>6, <1>7 DEF ReloadRules

LEMMA StepFollows ==
    ASSUME AlertTypeOK, FollowInv, [AlertNext]_alertVars
    PROVE  FollowInv'
<1> USE DEF tableVars, engineVars, signalVars, historyVars, boundVars
<1>1. CASE EditElsewhere
  <2>1. asignal => asignal'
    BY <1>1 DEF EditElsewhere, SignalAlerts
  <2> QED BY <1>1, <2>1, QuietFollows DEF EditElsewhere, SignalAlerts
<1>2. ASSUME NEW t \in Callers, NEW p \in Point, Evaluate(t, p) PROVE FollowInv'
  <2>1. UNCHANGED <<defs, aload, amissed>> /\ asignal' = asignal
    BY <1>2 DEF Evaluate
  <2>2. \A r \in Rules : /\ (arules'[r] = None) <=> (arules[r] = None)
                         /\ arules[r] # None => arules'[r].def = arules[r].def
    BY <1>2, EvaluateKeepsRules
  <2> QED BY <2>1, <2>2, QuietFollows
<1>3. CASE WriteAlerts
  BY <1>3, QuietFollows DEF WriteAlerts, FireAlert, ResolveAlert
<1>4. ASSUME NEW r \in Rules, CooldownEnds(r) PROVE FollowInv'
  <2>1. \A rule \in Rule \cup {None} :
          /\ (Cooled(rule) = None) <=> (rule = None)
          /\ rule # None => Cooled(rule).def = rule.def
    <3>1. \A rule \in Rule : Cooled(rule) \in Rule \cup {None} /\ Cooled(None) = None
      BY DEF Cooled, Rule
    <3>2. \A rule \in Rule : rule # None
      BY AlertAssumption
    <3>3. \A rule \in Rule : Cooled(rule) \in Rule /\ Cooled(rule).def = rule.def
      BY <3>2 DEF Cooled, Rule
    <3> QED BY <3>2, <3>3 DEF Cooled
  <2>2. arules' = [arules EXCEPT ![r] = Cooled(arules[r])]
    BY <1>4 DEF CooldownEnds
  <2>3. Follows(arules, defs) => Follows(arules', defs)
    BY <2>1, <2>2 DEF Follows, AlertTypeOK, EngineTypeOK
  <2>4. CASE aload.pc = "copy"
    <3>1. aload \in CopyType /\ aload' = [aload EXCEPT !.new[r] = Cooled(aload.new[r])]
      BY <1>4, <2>4, LoadAt DEF CooldownEnds, AlertTypeOK
    <3>2. /\ aload'.pc = "copy" /\ aload'.read = aload.read /\ aload'.todo = aload.todo
          /\ \A q \in Rules : aload'.new[q] = IF q = r THEN Cooled(aload.new[q]) ELSE aload.new[q]
      BY <3>1 DEF CopyType
    <3>3. \A q \in Rules : /\ (aload'.new[q] = None) <=> (aload.new[q] = None)
                           /\ aload.new[q] # None => aload'.new[q].def = aload.new[q].def
      BY <2>1, <3>1, <3>2 DEF CopyType
    <3>4. CopyFollowsRead'
      BY <2>4, <3>2, <3>3 DEF FollowInv, CopyFollowsRead
    <3> QED BY <1>4, <2>4, <3>2, <3>4 DEF CooldownEnds, FollowInv
  <2>5. CASE aload.pc # "copy"
    BY <1>4, <2>3, <2>5 DEF CooldownEnds, FollowInv, CopyFollowsRead
  <2> QED BY <2>4, <2>5
<1>5. ASSUME NEW r \in Rules, NEW k \in Keys, Expires(r, k) PROVE FollowInv'
  BY <1>5, QuietFollows DEF Expires
<1>6. CASE AlertsRestart
  BY <1>6, PcOfLoad DEF AlertsRestart, FollowInv, CopyFollowsRead
<1>7. CASE UNCHANGED alertVars
  BY <1>7, QuietFollows DEF alertVars
<1> QED BY <1>1, <1>2, <1>3, <1>4, <1>5, <1>6, <1>7, EditFollows, ReloadFollows
       DEF AlertNext, RuleEdits, RulesAge

(* Between two signals the engine's rules are those of the store: whatever edits, reloads    *)
(* and evaluations happen at the same time, only the edit between the first load and the     *)
(* subscription, and a load that failed, leave it behind.                                    *)
THEOREM RulesFollow == AlertSpec => []RulesFollowStore
<1>1. AlertInit => FollowInv
  BY PcOfLoad DEF AlertInit, FollowInv, CopyFollowsRead
<1>2. AlertTypeOK /\ FollowInv /\ [AlertNext]_alertVars => FollowInv'
  BY StepFollows
<1>3. FollowInv => RulesFollowStore
  BY PcOfLoad DEF FollowInv, Follows, RulesFollowStore
<1> QED BY <1>1, <1>2, <1>3, AlertTypeCorrect, PTL DEF AlertSpec

-----------------------------------------------------------------------------
(* The inductive invariant of the ownership of alerts.                        *)

\* The IDs given out so far, to all rules and to one.
Given      == {None} \cup {id \in AlertIDs : id[2] <= fired[id[1]]}
GivenTo(r) == {id \in Given : id = None \/ id[1] = r}

IDsGiven ==
    /\ pending \cup resolved \subseteq Given
    /\ \A t \in Callers : \A act \in acting[t] : act.id \in Given
    /\ \A r \in Rules : arules[r] # None => arules[r].id \in GivenTo(r)
    /\ aload.pc = "copy" => \A r \in Rules : aload.new[r] # None => aload.new[r].id \in GivenTo(r)
    /\ aload.pc = "clean" => aload.orphans \subseteq Given

\* An alert that is still to be saved is not in the table, and one caller only saves it.
FiredOnce ==
    \A t \in Callers : \A act \in acting[t] :
        act.kind = "fire" => /\ ~InTable(act.id)
                             /\ \A u \in Callers : act \in acting[u] => u = t

Safe(id) == Owned(id) \/ BeingResolved(id) \/ id \in forgotten

FiringIsSafe ==
    \A t \in Callers : \A act \in acting[t] : act.kind = "fire" => Safe(act.id)

\* The copy of an active rule is active, under the same ID, unless it fired since.
CopyKeepsAlert ==
    aload.pc = "copy" =>
        \A r \in Rules :
            (/\ aload.new[r] # None /\ arules[r] # None
             /\ arules[r].active /\ arules[r].id \notin forgotten)
            => aload.new[r].active /\ (r \in aload.todo \/ aload.new[r].id = arules[r].id)

\* The copy is active only if the rule is, under the same ID, unless it turned since.
CopyAddsNoAlert ==
    aload.pc = "copy" =>
        \A r \in Rules \ outdated :
            (aload.new[r] # None /\ aload.new[r].active)
            => /\ arules[r] # None /\ arules[r].active
               /\ r \in aload.todo \/ aload.new[r].id = arules[r].id

ActiveIsNotResolved ==
    \A r \in Rules \ outdated :
        (arules[r] # None /\ arules[r].active)
        => arules[r].id # None /\ arules[r].id \notin resolved /\ ~BeingResolved(arules[r].id)

OwnerInv ==
    /\ IDsGiven /\ FiredOnce
    /\ FiringIsSafe /\ CopyKeepsAlert /\ PendingIsOwned
    /\ CopyAddsNoAlert /\ ActiveIsNotResolved


-----------------------------------------------------------------------------
(* What a step leaves alone.                                                  *)

LEMMA GivenKept ==
    ASSUME UNCHANGED fired
    PROVE  Given' = Given /\ \A r : GivenTo(r)' = GivenTo(r)
BY DEF Given, GivenTo

(* A step of Run that is not about the copied state or the alerts, or a step that is of no  *)
(* concern to the alerts at all.                                                            *)
LEMMA IdleKeepsOwners ==
    ASSUME OwnerInv, UNCHANGED <<pending, resolved, arules, fired, acting, forgotten, outdated>>,
           \/ UNCHANGED aload
           \/ /\ aload.pc = "clean" => aload.orphans = {}
              /\ aload'.pc # "clean"
              /\ aload'.pc = "copy" => \A r \in Rules : aload'.new[r] = None
    PROVE  OwnerInv'
<1>1. \A id : /\ BeingResolved(id)' <=> BeingResolved(id)
              /\ Owned(id)' <=> Owned(id)
              /\ InTable(id)' <=> InTable(id)
  BY DEF BeingResolved, Owned, InTable
<1>2. IDsGiven'
  BY GivenKept DEF OwnerInv, IDsGiven
<1>3. FiredOnce' /\ FiringIsSafe' /\ PendingIsOwned'
  BY <1>1 DEF OwnerInv, FiredOnce, FiringIsSafe, Safe, PendingIsOwned
<1>4. CopyKeepsAlert' /\ CopyAddsNoAlert'
  BY DEF OwnerInv, CopyKeepsAlert, CopyAddsNoAlert
<1>5. ActiveIsNotResolved'
  BY <1>1 DEF OwnerInv, ActiveIsNotResolved
<1> QED BY <1>2, <1>3, <1>4, <1>5 DEF OwnerInv

-----------------------------------------------------------------------------
(* An evaluation.                                                             *)

LEMMA EvaluatedRules ==
    ASSUME AlertTypeOK, NEW t \in Callers, NEW p \in Point, Evaluate(t, p), NEW r \in Rules
    PROVE  /\ r \in Rising(p) => /\ arules[r] # None /\ ~arules[r].active
                                 /\ arules'[r].active /\ arules'[r].id = NextID(r)
           /\ r \in Falling(p) => /\ arules[r] # None /\ arules[r].active
                                  /\ ~arules'[r].active /\ arules'[r].id = None
           /\ r \notin Turned(p) => arules'[r] = arules[r]
<1>1. r \in Turned(p) => arules[r] \in Rule
  BY DEF Turned, Rising, Falling, Hit, AlertTypeOK, EngineTypeOK
<1>2. arules'[r] = IF r \in Rising(p) THEN [arules[r] EXCEPT !.active = TRUE, !.id = NextID(r)]
                   ELSE IF r \in Falling(p) THEN Fallen(arules[r]) ELSE arules[r]
  BY DEF Evaluate
<1>3. ~(r \in Rising(p) /\ r \in Falling(p))
  BY DEF Rising, Falling
<1>4. CASE r \in Rising(p)
  <2>1. arules'[r].active /\ arules'[r].id = NextID(r)
    BY <1>1, <1>2, <1>4 DEF Turned, Rule
  <2> QED BY <1>3, <1>4, <2>1 DEF Rising, Hit, Turned
<1>5. CASE r \in Falling(p)
  <2>1. ~arules'[r].active /\ arules'[r].id = None
    BY <1>1, <1>2, <1>3, <1>5 DEF Turned, Rule, Fallen
  <2> QED BY <1>3, <1>5, <2>1 DEF Falling, Hit, Turned
<1>6. CASE r \notin Turned(p)
  BY <1>2, <1>6 DEF Turned
<1> QED BY <1>4, <1>5, <1>6 DEF Turned

LEMMA EvaluatedActs ==
    ASSUME AlertTypeOK, NEW t \in Callers, NEW p \in Point, Evaluate(t, p),
           NEW u \in Callers, NEW act
    PROVE  /\ u # t => acting'[u] = acting[u]
           /\ acting[t] = {}
           /\ act \in acting'[t] <=>
                \/ \E r \in Rising(p) : act = [kind |-> "fire", id |-> NextID(r)]
                \/ \E r \in Falling(p) : act = [kind |-> "resolve", id |-> arules[r].id]
BY DEF Evaluate, AlertTypeOK, EngineTypeOK

(* The IDs of new alerts are new.                                                           *)
LEMMA GivenGrows ==
    ASSUME AlertTypeOK, NEW t \in Callers, NEW p \in Point, Evaluate(t, p)
    PROVE  /\ Given \subseteq Given' /\ \A r \in Rules : GivenTo(r) \subseteq GivenTo(r)'
           /\ \A r \in Rising(p) : NextID(r) \in GivenTo(r)' \ Given
<1>1. \A r \in Rules : fired'[r] = IF r \in Rising(p) THEN fired[r] + 1 ELSE fired[r]
  BY DEF Evaluate
<1>2. \A r \in Rules : fired[r] \in Nat
  BY AlertAssumption DEF AlertTypeOK, EngineTypeOK
<1>3. \A id \in AlertIDs : id[1] \in Rules /\ id[2] \in Nat
  BY AlertAssumption DEF AlertIDs
<1>4. Given \subseteq Given'
  BY <1>1, <1>2, <1>3 DEF Given
<1>5. \A r \in Rules : GivenTo(r) \subseteq GivenTo(r)'
  BY <1>4 DEF GivenTo
<1>6. ASSUME NEW r \in Rising(p) PROVE NextID(r) \in GivenTo(r)' \ Given
  <2>1. r \in Rules
    BY DEF Rising
  <2>2. NextID(r) \in AlertIDs /\ NextID(r)[1] = r /\ NextID(r)[2] = fired[r] + 1
    BY NextIDType DEF NextID
  <2>3. NextID(r) \in Given'
    BY <1>1, <1>2, <2>1, <2>2 DEF Given
  <2>4. NextID(r) \notin Given
    BY <1>2, <2>1, <2>2, AlertAssumption DEF Given
  <2> QED BY <2>2, <2>3, <2>4 DEF GivenTo
<1> QED BY <1>4, <1>5, <1>6

(* An alert that is safe before an evaluation is safe after it.                             *)
LEMMA EvaluateKeepsSafe ==
    ASSUME AlertTypeOK, NEW t \in Callers, NEW p \in Point, Evaluate(t, p), NEW id, Safe(id)
    PROVE  Safe(id)'
<1>1. CASE Owned(id)
  <2>1. PICK r \in Rules : arules[r] # None /\ arules[r].active /\ arules[r].id = id
    BY <1>1 DEF Owned
  <2>2. CASE r \in Falling(p)
    <3>1. [kind |-> "resolve", id |-> id] \in acting'[t]
      BY <2>1, <2>2, EvaluatedActs
    <3> QED BY <3>1 DEF Safe, BeingResolved
  <2>3. CASE r \notin Falling(p)
    <3>1. arules'[r] = arules[r]
      BY <2>1, <2>3, EvaluatedRules DEF Turned
    <3> QED BY <2>1, <3>1 DEF Safe, Owned
  <2> QED BY <2>2, <2>3
<1>2. CASE BeingResolved(id)
  <2>1. CASE aload.pc = "clean" /\ id \in aload.orphans
    BY <2>1 DEF Evaluate, Safe, BeingResolved
  <2>2. ASSUME NEW u \in Callers, [kind |-> "resolve", id |-> id] \in acting[u]
        PROVE  Safe(id)'
    <3>1. acting'[u] = acting[u]
      BY <2>2, EvaluatedActs
    <3> QED BY <2>2, <3>1 DEF Safe, BeingResolved
  <2> QED BY <1>2, <2>1, <2>2 DEF BeingResolved
<1>3. CASE id \in forgotten
  BY <1>3 DEF Evaluate, Safe
<1> QED BY <1>1, <1>2, <1>3 DEF Safe

LEMMA EvaluateKeepsOwners ==
    ASSUME AlertTypeOK, OwnerInv, NEW t \in Callers, NEW p \in Point, Evaluate(t, p)
    PROVE  OwnerInv'
<1>1. UNCHANGED <<pending, resolved, aload>> /\ forgotten \subseteq forgotten'
  BY DEF Evaluate, tableVars
<1>2. Rising(p) \subseteq Rules /\ Falling(p) \subseteq Rules
  BY DEF Rising, Falling
<1>3. IDsGiven'
  <2>1. (pending \cup resolved \subseteq Given)'
    BY <1>1, GivenGrows DEF OwnerInv, IDsGiven
  <2>2. ASSUME NEW u \in Callers, NEW act \in acting'[u] PROVE act.id \in Given'
    <3>1. CASE act \in acting[u]
      BY <3>1, GivenGrows DEF OwnerInv, IDsGiven
    <3>2. ASSUME NEW r \in Rising(p), act = [kind |-> "fire", id |-> NextID(r)]
          PROVE  act.id \in Given'
      BY <3>2, GivenGrows DEF GivenTo
    <3>3. ASSUME NEW r \in Falling(p), act = [kind |-> "resolve", id |-> arules[r].id]
          PROVE  act.id \in Given'
      <4>1. arules[r].id \in Given
        BY <1>2, EvaluatedRules DEF OwnerInv, IDsGiven, GivenTo
      <4> QED BY <3>3, <4>1, GivenGrows
    <3> QED BY <3>1, <3>2, <3>3, EvaluatedActs
  <2>3. ASSUME NEW r \in Rules, arules'[r] # None PROVE arules'[r].id \in GivenTo(r)'
    <3>1. CASE r \in Rising(p)
      BY <3>1, EvaluatedRules, GivenGrows
    <3>2. CASE r \in Falling(p)
      BY <3>2, EvaluatedRules DEF Given, GivenTo
    <3>3. CASE r \notin Turned(p)
      BY <2>3, <3>3, EvaluatedRules, GivenGrows DEF OwnerInv, IDsGiven
    <3> QED BY <3>1, <3>2, <3>3 DEF Turned
  <2>4. (aload.pc = "copy" =>
           \A r \in Rules : aload.new[r] # None => aload.new[r].id \in GivenTo(r))'
    BY <1>1, GivenGrows DEF OwnerInv, IDsGiven
  <2>5. (aload.pc = "clean" => aload.orphans \subseteq Given)'
    BY <1>1, GivenGrows DEF OwnerInv, IDsGiven
  <2> QED BY <2>1, <2>2, <2>3, <2>4, <2>5 DEF IDsGiven
<1>4. FiredOnce'
  <2> SUFFICES ASSUME NEW u \in Callers, NEW act \in acting'[u], act.kind = "fire"
               PROVE  ~InTable(act.id)' /\ \A v \in Callers : act \in acting'[v] => v = u
    BY DEF FiredOnce
  <2>1. \A v \in Callers : act \in acting[v] => act.id \in Given
    BY DEF OwnerInv, IDsGiven
  <2>2. act \in acting'[t] => act.id \notin Given
    BY EvaluatedActs, GivenGrows
  <2>3. \A v \in Callers \ {t} : acting'[v] = acting[v]
    BY EvaluatedActs
  <2>4. CASE u = t
    <3>1. ~InTable(act.id)'
      BY <1>1, <2>2, <2>4 DEF InTable, OwnerInv, IDsGiven
    <3> QED BY <2>1, <2>2, <2>3, <2>4, <3>1
  <2>5. CASE u # t
    <3>1. act \in acting[u]
      BY <2>3, <2>5
    <3>2. ~InTable(act.id)'
      BY <1>1, <3>1 DEF InTable, OwnerInv, FiredOnce
    <3> QED BY <2>1, <2>2, <2>3, <3>1, <3>2 DEF OwnerInv, FiredOnce
  <2> QED BY <2>4, <2>5
<1>5. FiringIsSafe'
  <2> SUFFICES ASSUME NEW u \in Callers, NEW act \in acting'[u], act.kind = "fire"
               PROVE  Safe(act.id)'
    BY DEF FiringIsSafe
  <2>1. CASE act \in acting[u]
    BY <2>1, EvaluateKeepsSafe DEF OwnerInv, FiringIsSafe
  <2>2. CASE act \notin acting[u]
    <3>1. PICK r \in Rising(p) : act = [kind |-> "fire", id |-> NextID(r)]
      BY <2>2, EvaluatedActs
    <3>2. arules'[r] # None
      BY EvaluateKeepsRules, EvaluatedRules, <1>2
    <3> QED BY <1>2, <3>1, <3>2, EvaluatedRules DEF Safe, Owned
  <2> QED BY <2>1, <2>2
<1>6. PendingIsOwned'
  BY <1>1, EvaluateKeepsSafe DEF OwnerInv, PendingIsOwned, Safe
<1>7. CopyKeepsAlert'
  <2> SUFFICES ASSUME aload.pc = "copy", NEW r \in Rules, aload.new[r] # None,
                      arules'[r] # None, arules'[r].active, arules'[r].id \notin forgotten'
               PROVE  aload.new[r].active /\ (r \in aload.todo \/ aload.new[r].id = arules'[r].id)
    BY <1>1 DEF CopyKeepsAlert
  <2>1. r \notin Rising(p)
    <3>1. r \in Rising(p) => NextID(r) \in forgotten'
      BY DEF Evaluate, Copied
    <3> QED BY <3>1, EvaluatedRules
  <2>2. arules'[r] = arules[r]
    BY <2>1, EvaluatedRules DEF Turned
  <2> QED BY <1>1, <2>2 DEF OwnerInv, CopyKeepsAlert
<1>8. CopyAddsNoAlert'
  <2> SUFFICES ASSUME aload.pc = "copy", NEW r \in Rules \ outdated', aload.new[r] # None,
                      aload.new[r].active
               PROVE  /\ arules'[r] # None /\ arules'[r].active
                      /\ r \in aload.todo \/ aload.new[r].id = arules'[r].id
    BY <1>1 DEF CopyAddsNoAlert
  <2>1. r \notin Turned(p) /\ r \notin outdated
    BY DEF Evaluate, Copied
  <2> QED BY <2>1, EvaluatedRules DEF OwnerInv, CopyAddsNoAlert
<1>9. ActiveIsNotResolved'
  <2> SUFFICES ASSUME NEW r \in Rules \ outdated', arules'[r] # None, arules'[r].active,
                      NEW id, id = arules'[r].id
               PROVE  id # None /\ id \notin resolved /\ ~BeingResolved(id)'
    BY <1>1 DEF ActiveIsNotResolved, BeingResolved
  <2>1. ASSUME NEW x, BeingResolved(x)'
        PROVE  BeingResolved(x) \/ \E q \in Falling(p) : x = arules[q].id
    <3>1. ASSUME NEW u \in Callers, [kind |-> "resolve", id |-> x] \in acting'[u]
          PROVE  BeingResolved(x) \/ \E q \in Falling(p) : x = arules[q].id
      BY <3>1, EvaluatedActs DEF BeingResolved
    <3> QED BY <1>1, <2>1, <3>1 DEF BeingResolved
  <2>2. \A x : BeingResolved(x) => x \in Given
    BY DEF BeingResolved, OwnerInv, IDsGiven
  <2>3. \A q \in Falling(p) : arules[q].id \in GivenTo(q)
    BY <1>2, EvaluatedRules DEF OwnerInv, IDsGiven
  <2>4. CASE r \in Rising(p)
    <3>1. id \notin Given
      BY <2>4, EvaluatedRules, GivenGrows
    <3>2. id # None /\ id \notin resolved
      BY <3>1 DEF Given, OwnerInv, IDsGiven
    <3> QED BY <2>1, <2>2, <2>3, <3>1, <3>2 DEF GivenTo
  <2>5. CASE r \notin Turned(p)
    <3>1. r \notin outdated /\ arules'[r] = arules[r]
      BY <2>5, EvaluatedRules DEF Evaluate
    <3>2. id # None /\ id \notin resolved /\ ~BeingResolved(id) /\ id \in GivenTo(r)
      BY <3>1 DEF OwnerInv, ActiveIsNotResolved, IDsGiven
    <3>3. \A q \in Falling(p) : q # r /\ id # arules[q].id
      BY <2>3, <2>5, <3>2 DEF Turned, GivenTo
    <3> QED BY <2>1, <3>2, <3>3
  <2>6. r \notin Falling(p)
    BY EvaluatedRules
  <2> QED BY <2>4, <2>5, <2>6 DEF Turned
<1> QED BY <1>3, <1>4, <1>5, <1>6, <1>7, <1>8, <1>9 DEF OwnerInv

-----------------------------------------------------------------------------
(* The writes.                                                                *)

LEMMA FireKeepsOwners ==
    ASSUME AlertTypeOK, OwnerInv, NEW t \in Callers, NEW act \in acting[t], FireAlert(t, act)
    PROVE  OwnerInv'
<1>1. /\ UNCHANGED <<resolved, arules, fired, aload, forgotten, outdated>>
      /\ pending' \in {pending, pending \cup {act.id}} /\ act.kind = "fire"
  BY DEF FireAlert, engineVars, historyVars
<1>2. \A u \in Callers : acting'[u] = IF u = t THEN acting[t] \ {act} ELSE acting[u]
  BY DEF FireAlert, AlertTypeOK, EngineTypeOK
<1>3. \A id : /\ BeingResolved(id)' <=> BeingResolved(id)
              /\ Safe(id)' <=> Safe(id)
  <2>1. \A id : [kind |-> "resolve", id |-> id] # act
    BY <1>1
  <2>2. \A id : BeingResolved(id)' <=> BeingResolved(id)
    BY <1>1, <1>2, <2>1 DEF BeingResolved
  <2> QED BY <1>1, <2>2 DEF Safe, Owned
<1>4. IDsGiven'
  BY <1>1, <1>2, GivenKept DEF OwnerInv, IDsGiven
<1>5. FiredOnce'
  <2> SUFFICES ASSUME NEW u \in Callers, NEW a \in acting'[u], a.kind = "fire"
               PROVE  ~InTable(a.id)' /\ \A v \in Callers : a \in acting'[v] => v = u
    BY DEF FiredOnce
  <2>1. a \in acting[u] /\ a # act
    BY <1>1, <1>2 DEF OwnerInv, FiredOnce
  <2>2. a.id # act.id
    <3>1. a \in Action /\ act \in Action
      BY <2>1 DEF AlertTypeOK, EngineTypeOK
    <3> QED BY <1>1, <2>1, <3>1 DEF Action
  <2> QED BY <1>1, <1>2, <2>1, <2>2 DEF InTable, OwnerInv, FiredOnce
<1>6. FiringIsSafe'
  BY <1>2, <1>3 DEF OwnerInv, FiringIsSafe
<1>7. PendingIsOwned'
  <2>1. Safe(act.id)
    BY <1>1 DEF OwnerInv, FiringIsSafe
  <2>2. \A id \in pending' : Safe(id)'
    BY <1>1, <1>3, <2>1 DEF OwnerInv, PendingIsOwned, Safe
  <2> QED BY <2>2 DEF PendingIsOwned, Safe
<1>8. CopyKeepsAlert' /\ CopyAddsNoAlert' /\ ActiveIsNotResolved'
  BY <1>1, <1>3 DEF OwnerInv, CopyKeepsAlert, CopyAddsNoAlert, ActiveIsNotResolved
<1> QED BY <1>4, <1>5, <1>6, <1>7, <1>8 DEF OwnerInv

(* The update that resolves an alert, by whoever was to make it.                            *)
LEMMA UpdateKeepsOwners ==
    ASSUME AlertTypeOK, OwnerInv, NEW id \in AlertIDs \cup {None}, Update(id), BeingResolved(id),
           UNCHANGED <<arules, fired, outdated>>,
           \/ UNCHANGED aload
           \/ aload.pc = "clean" /\ aload'.pc = "clean" /\ aload'.orphans \subseteq aload.orphans,
           \A u \in Callers : /\ acting'[u] \subseteq acting[u]
                              /\ \A act \in acting[u] : act.kind = "fire" => act \in acting'[u],
           \A x : BeingResolved(x) /\ x # id => BeingResolved(x)'
    PROVE  OwnerInv'
<1>1. pending' \subseteq pending /\ forgotten \subseteq forgotten'
  BY DEF Update
<1>2. \/ resolved' = resolved
      \/ InTable(id) /\ id \notin pending' /\ resolved' = resolved \cup {id}
  BY DEF Update
<1>3. \A x : InTable(x)' <=> InTable(x)
  BY DEF Update, InTable
<1>4. \A x : BeingResolved(x)' => BeingResolved(x)
  BY DEF BeingResolved
<1>5. ASSUME NEW x \in AlertIDs, Safe(x)
      PROVE  Safe(x)' \/ (x = id /\ InTable(id) /\ id \notin pending')
  <2>1. CASE x = id
    BY <1>5, <2>1, AlertAssumption DEF Update, Safe
  <2>2. CASE x # id
    BY <1>1, <1>5, <2>2 DEF Safe, Owned
  <2> QED BY <2>1, <2>2
<1>6. IDsGiven'
  <2>1. pending' \cup resolved' \subseteq Given
    BY <1>1, <1>2 DEF InTable, OwnerInv, IDsGiven
  <2> QED BY <2>1, GivenKept DEF OwnerInv, IDsGiven
<1>7. FiredOnce'
  BY <1>3 DEF OwnerInv, FiredOnce
<1>8. FiringIsSafe'
  <2> SUFFICES ASSUME NEW u \in Callers, NEW act \in acting'[u], act.kind = "fire"
               PROVE  Safe(act.id)'
    BY DEF FiringIsSafe
  <2>1. act \in acting[u]
    OBVIOUS
  <2>2. Safe(act.id) /\ ~InTable(act.id) /\ act.id \in AlertIDs
    BY <2>1, FireHasID DEF OwnerInv, FiringIsSafe, FiredOnce, AlertTypeOK
  <2> QED BY <1>5, <2>2
<1>9. PendingIsOwned'
  <2>1. \A x \in pending' : x \in AlertIDs /\ Safe(x)
    BY <1>1 DEF OwnerInv, PendingIsOwned, Safe, AlertTypeOK, TablesTypeOK
  <2>2. \A x \in pending' : Safe(x)'
    BY <1>5, <2>1
  <2> QED BY <2>2 DEF PendingIsOwned, Safe
<1>10. CopyKeepsAlert' /\ CopyAddsNoAlert'
  BY <1>1 DEF OwnerInv, CopyKeepsAlert, CopyAddsNoAlert
<1>11. ActiveIsNotResolved'
  BY <1>2, <1>4 DEF OwnerInv, ActiveIsNotResolved
<1> QED BY <1>6, <1>7, <1>8, <1>9, <1>10, <1>11 DEF OwnerInv

LEMMA ResolveKeepsOwners ==
    ASSUME AlertTypeOK, OwnerInv, NEW t \in Callers, NEW act \in acting[t], ResolveAlert(t, act)
    PROVE  OwnerInv'
<1>1. \A u \in Callers : acting'[u] = IF u = t THEN acting[t] \ {act} ELSE acting[u]
  BY DEF ResolveAlert, AlertTypeOK, EngineTypeOK
<1>2. act \in Action /\ act.kind = "resolve"
  BY DEF ResolveAlert, AlertTypeOK, EngineTypeOK
<1>3. act = [kind |-> "resolve", id |-> act.id] /\ act.id \in AlertIDs \cup {None}
  BY <1>2 DEF Action
<1>4. BeingResolved(act.id)
  BY <1>3 DEF BeingResolved
<1>5. UNCHANGED <<arules, fired, outdated, aload>> /\ Update(act.id)
  BY DEF ResolveAlert, engineVars
<1>6. ASSUME NEW x, BeingResolved(x), x # act.id PROVE BeingResolved(x)'
  <2>1. [kind |-> "resolve", id |-> x] # act
    BY <1>6
  <2> QED BY <1>1, <1>5, <1>6, <2>1 DEF BeingResolved
<1>7. \A u \in Callers : /\ acting'[u] \subseteq acting[u]
                         /\ \A a \in acting[u] : a.kind = "fire" => a \in acting'[u]
  BY <1>1, <1>2
<1> QED BY <1>3, <1>4, <1>5, <1>6, <1>7, UpdateKeepsOwners

LEMMA OrphanKeepsOwners ==
    ASSUME AlertTypeOK, OwnerInv, NEW id \in AlertIDs \cup {None}, ResolveOrphan(id)
    PROVE  OwnerInv'
<1>1. aload \in CleanType
  BY LoadAt DEF ResolveOrphan, AlertTypeOK
<1>2. aload'.pc = "clean" /\ aload'.orphans = aload.orphans \ {id}
  BY <1>1 DEF ResolveOrphan, CleanType
<1>3. UNCHANGED <<arules, fired, outdated, acting>> /\ Update(id) /\ BeingResolved(id)
  BY DEF ResolveOrphan, engineVars, BeingResolved
<1>4. \A x : BeingResolved(x) /\ x # id => BeingResolved(x)'
  BY <1>2, <1>3 DEF BeingResolved
<1> QED BY <1>2, <1>3, <1>4, UpdateKeepsOwners DEF ResolveOrphan

-----------------------------------------------------------------------------
(* The reload.                                                                *)

LEMMA CopyKeepsOwners ==
    ASSUME AlertTypeOK, OwnerInv, NEW r \in Rules, CopyActive(r) \/ CopyRest(r)
    PROVE  OwnerInv'
<1>1. aload \in CopyType /\ aload'.pc = "copy"
  BY LoadAt DEF CopyActive, CopyRest, CopyType, AlertTypeOK
<1>2. UNCHANGED <<pending, resolved, arules, fired, acting, forgotten, outdated>>
  BY DEF CopyActive, CopyRest, tableVars, engineVars, historyVars
<1>3. \A id : /\ BeingResolved(id)' <=> BeingResolved(id)
              /\ Safe(id)' <=> Safe(id)
              /\ InTable(id)' <=> InTable(id)
  BY <1>1, <1>2 DEF BeingResolved, Safe, Owned, InTable, CopyActive, CopyRest
<1>4. \A q \in Rules \ {r} : aload'.new[q] = aload.new[q] /\ (q \in aload'.todo <=> q \in aload.todo)
  <2>1. ASSUME CopyActive(r), NEW q \in Rules \ {r}
        PROVE  aload'.new[q] = aload.new[q] /\ (q \in aload'.todo <=> q \in aload.todo)
    BY <1>1, <2>1 DEF CopyActive, CopyType
  <2>2. ASSUME CopyRest(r), NEW q \in Rules \ {r}
        PROVE  aload'.new[q] = aload.new[q] /\ (q \in aload'.todo <=> q \in aload.todo)
    BY <1>1, <2>2 DEF CopyRest, CopyType
  <2> QED BY <2>1, <2>2
<1>5. /\ arules[r] # None => arules[r].active \in BOOLEAN /\ arules[r].id \in GivenTo(r)
      /\ aload.new[r] # None => aload.new[r] \in Rule
  BY <1>1 DEF CopyType, Rule, AlertTypeOK, EngineTypeOK, OwnerInv, IDsGiven
<1>6. CASE CopyActive(r)
  <2>1. /\ r \in aload'.todo /\ aload'.new[r].id = None
        /\ aload'.new[r].active <=> arules[r] # None /\ arules[r].active
    BY <1>1, <1>6 DEF CopyActive, CopyType
  <2>2. aload'.new[r].id \in GivenTo(r)
    BY <2>1 DEF Given, GivenTo
  <2>3. IDsGiven'
    BY <1>1, <1>2, <1>4, <1>6, <2>2, GivenKept DEF OwnerInv, IDsGiven, CopyActive
  <2>4. CopyKeepsAlert' /\ CopyAddsNoAlert'
    BY <1>1, <1>2, <1>4, <2>1, <1>6 DEF OwnerInv, CopyKeepsAlert, CopyAddsNoAlert, CopyActive
  <2> QED BY <1>2, <1>3, <2>3, <2>4
         DEF OwnerInv, FiredOnce, FiringIsSafe, PendingIsOwned, Safe, ActiveIsNotResolved
<1>7. CASE CopyRest(r)
  <2>1. /\ aload.new[r] # None /\ r \in aload.todo /\ r \notin aload'.todo
        /\ aload'.new[r].active = aload.new[r].active
        /\ arules[r] = None => aload'.new[r] = aload.new[r]
        /\ arules[r] # None => aload'.new[r].id = arules[r].id
    BY <1>1, <1>5, <1>7 DEF CopyRest, CopyType, Rule
  <2>2. aload'.new[r].id \in GivenTo(r)
    BY <1>1, <1>5, <1>7, <2>1 DEF OwnerInv, IDsGiven, CopyRest
  <2>3. IDsGiven'
    BY <1>1, <1>2, <1>4, <1>7, <2>2, GivenKept DEF OwnerInv, IDsGiven, CopyRest
  <2>4. CopyKeepsAlert'
    BY <1>1, <1>2, <1>4, <2>1, <1>7 DEF OwnerInv, CopyKeepsAlert, CopyRest
  <2>5. CopyAddsNoAlert'
    BY <1>1, <1>2, <1>4, <2>1, <1>7 DEF OwnerInv, CopyAddsNoAlert, CopyRest
  <2> QED BY <1>2, <1>3, <2>3, <2>4, <2>5
         DEF OwnerInv, FiredOnce, FiringIsSafe, PendingIsOwned, Safe, ActiveIsNotResolved
<1> QED BY <1>6, <1>7

LEMMA SwapKeepsOwners ==
    ASSUME AlertTypeOK, OwnerInv, SwapRules
    PROVE  OwnerInv'
<1>1. /\ aload.pc = "copy" /\ aload.todo = {} /\ arules' = aload.new
      /\ aload'.pc = "clean" /\ aload'.orphans = Orphans(aload.new)
      /\ UNCHANGED <<pending, resolved, fired, acting, forgotten>>
  BY DEF SwapRules, Cleaning, tableVars
<1>2. \A r \in Rules : arules[r] # None => arules[r].id \in GivenTo(r)
  BY DEF OwnerInv, IDsGiven
<1>3. ASSUME NEW id, Safe(id) PROVE Safe(id)'
  <2>1. CASE Owned(id) /\ id \notin forgotten
    <3>1. PICK r \in Rules : arules[r] # None /\ arules[r].active /\ arules[r].id = id
      BY <2>1 DEF Owned
    <3>2. CASE aload.new[r] = None
      <4>1. id \in Orphans(aload.new)
        BY <3>1, <3>2 DEF Orphans
      <4> QED BY <1>1, <4>1 DEF Safe, BeingResolved
    <3>3. CASE aload.new[r] # None
      BY <1>1, <2>1, <3>1, <3>3 DEF OwnerInv, CopyKeepsAlert, Safe, Owned
    <3> QED BY <3>2, <3>3
  <2>2. CASE BeingResolved(id)
    BY <1>1, <2>2 DEF Safe, BeingResolved
  <2>3. CASE id \in forgotten
    BY <1>1, <2>3 DEF Safe
  <2> QED BY <1>3, <2>1, <2>2, <2>3 DEF Safe
<1>4. IDsGiven'
  <2>1. Orphans(aload.new) \subseteq Given
    BY <1>2 DEF Orphans, GivenTo
  <2> QED BY <1>1, <2>1, GivenKept DEF OwnerInv, IDsGiven
<1>5. FiredOnce'
  BY <1>1 DEF OwnerInv, FiredOnce, InTable
<1>6. FiringIsSafe'
  BY <1>1, <1>3 DEF OwnerInv, FiringIsSafe
<1>7. PendingIsOwned'
  <2>1. \A id \in pending' : Safe(id)'
    BY <1>1, <1>3 DEF OwnerInv, PendingIsOwned, Safe
  <2> QED BY <2>1 DEF PendingIsOwned, Safe
<1>8. CopyKeepsAlert' /\ CopyAddsNoAlert'
  BY <1>1 DEF CopyKeepsAlert, CopyAddsNoAlert
<1>9. ActiveIsNotResolved'
  <2> SUFFICES ASSUME NEW r \in Rules \ outdated', arules'[r] # None, arules'[r].active,
                      NEW id, id = arules'[r].id
               PROVE  id # None /\ id \notin resolved /\ ~BeingResolved(id)'
    BY <1>1 DEF ActiveIsNotResolved, BeingResolved
  <2>1. aload.new[r] # None /\ aload.new[r].active /\ r \notin outdated
    BY <1>1 DEF SwapRules
  <2>2. arules[r] # None /\ arules[r].active /\ id = arules[r].id
    BY <1>1, <2>1 DEF OwnerInv, CopyAddsNoAlert
  <2>3. id # None /\ id \notin resolved /\ ~BeingResolved(id) /\ id \in GivenTo(r)
    BY <1>2, <2>1, <2>2 DEF OwnerInv, ActiveIsNotResolved
  <2>4. id \notin Orphans(aload.new)
    BY <1>2, <2>1, <2>3 DEF Orphans, GivenTo
  <2> QED BY <1>1, <2>3, <2>4 DEF BeingResolved
<1> QED BY <1>4, <1>5, <1>6, <1>7, <1>8, <1>9 DEF OwnerInv

LEMMA CooldownKeepsOwners ==
    ASSUME AlertTypeOK, OwnerInv, NEW r \in Rules, CooldownEnds(r)
    PROVE  OwnerInv'
<1>1. UNCHANGED <<pending, resolved, fired, acting, forgotten, outdated>>
  BY DEF CooldownEnds, tableVars, historyVars
<1>2. \A rule \in Rule : /\ Cooled(rule) # None /\ rule # None
                         /\ Cooled(rule).active = rule.active /\ Cooled(rule).id = rule.id
  <2>1. \A rule \in Rule : rule # None
    BY AlertAssumption
  <2>2. \A rule \in Rule : /\ Cooled(rule) \in Rule
                           /\ Cooled(rule).active = rule.active /\ Cooled(rule).id = rule.id
    BY <2>1 DEF Cooled, Rule
  <2> QED BY <2>1, <2>2
<1>3. \A q \in Rules : arules'[q] = IF q = r THEN Cooled(arules[q]) ELSE arules[q]
  BY DEF CooldownEnds, AlertTypeOK, EngineTypeOK
<1>4. \A q \in Rules : /\ (arules'[q] = None) <=> (arules[q] = None)
                       /\ arules[q] # None => /\ arules'[q].active = arules[q].active
                                              /\ arules'[q].id = arules[q].id
  BY <1>2, <1>3 DEF Cooled, AlertTypeOK, EngineTypeOK
<1>5. aload.pc # "copy" => aload' = aload
  BY DEF CooldownEnds
<1>6. /\ aload'.pc = aload.pc
      /\ aload.pc = "copy" =>
           /\ aload'.todo = aload.todo
           /\ \A q \in Rules : /\ (aload'.new[q] = None) <=> (aload.new[q] = None)
                               /\ aload.new[q] # None => /\ aload'.new[q].active = aload.new[q].active
                                                         /\ aload'.new[q].id = aload.new[q].id
  <2>1. CASE aload.pc = "copy"
    <3>1. aload \in CopyType /\ aload' = [aload EXCEPT !.new[r] = Cooled(aload.new[r])]
      BY <2>1, LoadAt DEF CooldownEnds, AlertTypeOK
    <3>2. /\ aload'.pc = "copy" /\ aload'.todo = aload.todo
          /\ \A q \in Rules : aload'.new[q] = IF q = r THEN Cooled(aload.new[q]) ELSE aload.new[q]
      BY <3>1 DEF CopyType
    <3>3. \A q \in Rules : aload.new[q] \in Rule \cup {None}
      BY <3>1 DEF CopyType
    <3> QED BY <1>2, <2>1, <3>2, <3>3, ZenonT(30) DEF Cooled
  <2> QED BY <1>5, <2>1
<1>7. \A id : /\ BeingResolved(id)' <=> BeingResolved(id)
              /\ Safe(id)' <=> Safe(id)
              /\ InTable(id)' <=> InTable(id)
  BY <1>1, <1>4, <1>5, <1>6 DEF BeingResolved, Safe, Owned, InTable
<1>8. IDsGiven'
  BY <1>1, <1>4, <1>5, <1>6, GivenKept DEF OwnerInv, IDsGiven
<1>9. FiredOnce' /\ FiringIsSafe' /\ PendingIsOwned'
  BY <1>1, <1>7 DEF OwnerInv, FiredOnce, FiringIsSafe, PendingIsOwned, Safe
<1>10. CopyKeepsAlert' /\ CopyAddsNoAlert'
  BY <1>1, <1>4, <1>6 DEF OwnerInv, CopyKeepsAlert, CopyAddsNoAlert
<1>11. ActiveIsNotResolved'
  BY <1>1, <1>4, <1>7 DEF OwnerInv, ActiveIsNotResolved
<1> QED BY <1>8, <1>9, <1>10, <1>11 DEF OwnerInv

(* What was pending when the process ended stays pending: no rule knows of it any more.     *)
LEMMA RestartKeepsOwners ==
    ASSUME AlertTypeOK, OwnerInv, AlertsRestart
    PROVE  OwnerInv'
<1>1. /\ UNCHANGED <<pending, resolved, fired>> /\ pending \subseteq forgotten'
      /\ \A r \in Rules : arules'[r] = None
      /\ \A t \in Callers : acting'[t] = {}
      /\ aload'.pc = "boot"
  BY PcOfLoad DEF AlertsRestart, tableVars, NoRules
<1>2. IDsGiven'
  BY <1>1, GivenKept DEF OwnerInv, IDsGiven
<1> QED BY <1>1, <1>2 DEF OwnerInv, FiredOnce, FiringIsSafe, PendingIsOwned, CopyKeepsAlert,
                          CopyAddsNoAlert, ActiveIsNotResolved

-----------------------------------------------------------------------------
(* The theorems.                                                              *)

LEMMA StepKeepsOwners ==
    ASSUME AlertTypeOK, OwnerInv, [AlertNext]_alertVars
    PROVE  OwnerInv'
<1> USE DEF tableVars, engineVars, signalVars, historyVars, boundVars
<1>1. CASE RuleEdits \/ EditElsewhere
  BY <1>1, IdleKeepsOwners DEF RuleEdits, EditRule, EditElsewhere, SignalAlerts
<1>2. CASE WriteAlerts
  BY <1>2, FireKeepsOwners, ResolveKeepsOwners DEF WriteAlerts
<1>3. CASE ReloadRules
  <2>1. CASE ReadRules
    <3>1. aload.pc # "clean"
      BY <2>1, PcOfLoad DEF ReadRules
    <3>2. aload'.pc # "clean" /\ (aload'.pc = "copy" => \A r \in Rules : aload'.new[r] = None)
      <4>1. CASE aload' = After(aload = Booting)
        <5>1. aload'.pc \in {"subscribe", "wait"}
          BY <4>1, PcOfLoad
        <5> QED BY <5>1
      <4>2. CASE aload' = Copying({r \in Rules : defs[r] # None /\ defs[r].usable},
                                defs, NoRules, aload = Booting)
        BY <4>2 DEF Copying, NoRules
      <4> QED BY <2>1, <4>1, <4>2 DEF ReadRules
    <3> QED BY <2>1, <3>1, <3>2, IdleKeepsOwners DEF ReadRules
  <2>2. CASE FinishRules
    <3>1. aload.orphans = {} /\ aload'.pc \in {"subscribe", "wait"}
      BY <2>2, LoadAt, PcOfLoad DEF FinishRules, CleanType, AlertTypeOK
    <3> QED BY <2>2, <3>1, IdleKeepsOwners DEF FinishRules
  <2>3. CASE SubscribeRules
    BY <2>3, PcOfLoad, IdleKeepsOwners DEF SubscribeRules
  <2> QED BY <1>3, <2>1, <2>2, <2>3, CopyKeepsOwners, SwapKeepsOwners, OrphanKeepsOwners
         DEF ReloadRules
<1>4. ASSUME NEW r \in Rules, NEW k \in Keys, Expires(r, k) PROVE OwnerInv'
  BY <1>4, IdleKeepsOwners DEF Expires
<1>5. CASE UNCHANGED alertVars
  BY <1>5, IdleKeepsOwners DEF alertVars
<1> QED BY <1>1, <1>2, <1>3, <1>4, <1>5, EvaluateKeepsOwners, CooldownKeepsOwners,
           RestartKeepsOwners DEF AlertNext, RulesAge

LEMMA OwnersKept == AlertSpec => []OwnerInv
<1>1. AlertInit => OwnerInv
  BY PcOfLoad DEF AlertInit, NoRules, OwnerInv, IDsGiven, FiredOnce, FiringIsSafe,
         PendingIsOwned, CopyKeepsAlert, CopyAddsNoAlert, ActiveIsNotResolved
<1>2. AlertTypeOK /\ OwnerInv /\ [AlertNext]_alertVars => OwnerInv'
  BY StepKeepsOwners
<1> QED BY <1>1, <1>2, AlertTypeCorrect, PTL DEF AlertSpec

(* A pending alert always belongs to an active rule or is being resolved: evaluations by    *)
(* several callers, writes after the lock is released, and reloads that copy the rules'     *)
(* state meanwhile lose none, but for the four ways in which the code forgets one.          *)
THEOREM PendingOwned == AlertSpec => []PendingIsOwned
<1>1. OwnerInv => PendingIsOwned
  BY DEF OwnerInv
<1> QED BY <1>1, OwnersKept, PTL

(* A rule never waits for the end of an alert that is over, so that its next alarm is       *)
(* raised; the exception is a rule whose state turned after a reload had copied it.         *)
THEOREM ActivePending == AlertSpec => []ActiveIsPending
<1>1. OwnerInv => ActiveIsPending
  BY DEF OwnerInv, ActiveIsNotResolved, ActiveIsPending
<1> QED BY <1>1, OwnersKept, PTL
=============================================================================

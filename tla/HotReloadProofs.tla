--------------------------- MODULE HotReloadProofs ---------------------------
(* What an incremental hot reload keeps, for any devices, connections and     *)
(* configurations, and however the edits of the store fall between its steps. *)
EXTENDS HotReload, TLAPS

-----------------------------------------------------------------------------
(* The inductive invariant.                                                   *)

(* The shape of a runtime, and the counter its number comes from. *)
Runtimes(f) ==
    /\ DOMAIN f \subseteq Devices
    /\ \A d \in DOMAIN f : /\ f[d] = [n |-> f[d].n, key |-> f[d].key, sig |-> f[d].sig]
                           /\ f[d].n \in Nat /\ f[d].n <= opens[d]

ShapeInv ==
    /\ opens \in [Devices -> Nat]
    /\ live \subseteq Devices \X Nat
    /\ Runtimes(runtimes) /\ Runtimes(newRt)
    /\ DOMAIN desired \subseteq Devices
    /\ \A d \in DOMAIN desired :
          desired[d] = [key |-> desired[d].key, sig |-> desired[d].sig]
    /\ pc \notin {"reconcile", "panicked"} => newRt = Empty

(* The group of a device that ran before the reload has not been reconciled. *)
InReload == pc \in {"reconcile", "panicked"}
Untouched(d) == d \in DOMAIN runtimes /\ (InReload => runtimes[d].key \in groups)

(* What a reload in progress has done so far: the new runtimes are those of groups that  *)
(* were reconciled, treated as their old runtime and the plan require.                   *)
PlanInv ==
    \A d \in DOMAIN newRt :
        /\ d \in DOMAIN desired /\ desired[d].key \notin groups
        /\ newRt[d].sig = desired[d].sig
        /\ d \notin moved => newRt[d].key = desired[d].key
        /\ Untouched(d) /\ d \notin moved =>
              newRt[d].n # runtimes[d].n /\ ~Polls(newRt[d].key)

ServedInv ==
    pc = "reconcile" =>
        \A d \in DOMAIN desired : desired[d].key \in groups \/ d \in DOMAIN newRt \/ d \in failed

(* The open connections and the schedule table belong to the old runtimes of the groups  *)
(* that were not reconciled yet, and to the new runtimes of those that were.             *)
LiveInv ==
    /\ twice \subseteq moved
    /\ \A c \in live : \/ Untouched(c[1]) /\ c[2] = runtimes[c[1]].n
                       \/ c[1] \in DOMAIN newRt /\ c[2] = newRt[c[1]].n
    /\ \A d \in Devices \ moved : Untouched(d) => <<d, runtimes[d].n>> \in live
    /\ \A d \in DOMAIN newRt \ moved : <<d, newRt[d].n>> \in live

OwnsJob(d, rt) == byID[d] = rt.n /\ Polls(rt.key)

HasJob(d, rt) ==
    Polls(rt.key) => /\ d \in DOMAIN byID /\ byID[d] = rt.n
                     /\ d \in DOMAIN jobPoints /\ jobPoints[d] = rt.sig.points

TableInv ==
    /\ \A d \in DOMAIN byID : \/ Untouched(d) /\ OwnsJob(d, runtimes[d])
                              \/ d \in DOMAIN newRt /\ OwnsJob(d, newRt[d])
    /\ \A d \in Devices \ (reopened \cup moved) : Untouched(d) => HasJob(d, runtimes[d])
    /\ \A d \in DOMAIN newRt \ (reopened \cup moved) : HasJob(d, newRt[d])

(* Unless an edit has signalled since, what was read is what is stored. *)
Wanted == {d \in Collected(rows) : conns[rows[d].conn] # NoConfig}

Follows(f) ==
    /\ DOMAIN f \subseteq Wanted
    /\ Wanted \ failed \subseteq DOMAIN f
    /\ \A d \in DOMAIN f :
          /\ f[d].sig = SigOf(rows[d])
          /\ d \notin moved => f[d].key = <<rows[d].conn, conns[rows[d].conn]>>

StoreInv ==
    ~changed =>
        /\ pc = "build" => listed = rows
        /\ pc = "reconcile" =>
              /\ DOMAIN desired = Wanted
              /\ \A d \in Wanted : /\ desired[d].sig = SigOf(rows[d])
                                   /\ desired[d].key = <<rows[d].conn, conns[rows[d].conn]>>
        /\ pc = "idle" /\ ~readFailed => Follows(runtimes)

PanicInv ==
    pc = "panicked" =>
        \E g \in groups : \E d \in NewOf(g) : Running(d) /\ runtimes[d].key # g

(* A device that neither changed nor had its group restarted is carried over as it was. *)
Unchanged(d) ==
    /\ d \in DOMAIN runtimes \cap DOMAIN desired
    /\ desired[d] = [key |-> runtimes[d].key, sig |-> runtimes[d].sig]
    /\ ~GroupRestarts(runtimes[d].key)

CarriedInv == \A d \in DOMAIN newRt : Unchanged(d) => newRt[d] = runtimes[d]

-----------------------------------------------------------------------------
(* What the reconciliation of a group does, device by device.                 *)

Fresh(g, open) == IF Polls(g) THEN open ELSE {}

EffectOnRuntimes(g, keep, upd, open, stop) ==
    /\ DOMAIN newRt' = open \cup upd \cup keep \cup DOMAIN newRt
    /\ \A d \in open : newRt'[d] = [n |-> opens[d] + 1, key |-> g, sig |-> desired[d].sig]
    /\ \A d \in upd :
          newRt'[d] = [n |-> runtimes[d].n, key |-> runtimes[d].key, sig |-> desired[d].sig]
    /\ \A d \in keep : newRt'[d] = runtimes[d]
    /\ \A d \in DOMAIN newRt : d \notin open \cup upd \cup keep => newRt'[d] = newRt[d]
    /\ DOMAIN runtimes' = DOMAIN runtimes
    /\ \A d \in upd :
          runtimes'[d] = [n |-> runtimes[d].n, key |-> runtimes[d].key, sig |-> desired[d].sig]
    /\ \A d \in DOMAIN runtimes : d \notin upd => runtimes'[d] = runtimes[d]

EffectOnConns(open, stop) ==
    /\ opens' \in [Devices -> Nat]
    /\ \A d \in Devices : opens'[d] = IF d \in open THEN opens[d] + 1 ELSE opens[d]
    /\ live' = (live \cup {<<d, opens[d] + 1>> : d \in open}) \ {<<d, runtimes[d].n>> : d \in stop}
    /\ twice' = twice \cup {d \in stop : <<d, runtimes[d].n>> \notin live}

EffectOnTable(g, keep, upd, open, stop) ==
    \E paced \in SUBSET upd :
        /\ DOMAIN byID' =
              {d \in paced \cup Fresh(g, open) \cup DOMAIN byID :
                  ~(d \in stop /\ Polls(runtimes[d].key))}
        /\ \A d \in DOMAIN byID' :
              byID'[d] = IF d \in paced THEN runtimes[d].n
                         ELSE IF d \in Fresh(g, open) THEN opens[d] + 1 ELSE byID[d]
        /\ DOMAIN jobPoints' = Fresh(g, open) \cup upd \cup DOMAIN jobPoints
        /\ \A d \in DOMAIN jobPoints' :
              jobPoints'[d] = IF d \in Fresh(g, open) \cup upd THEN desired[d].sig.points
                              ELSE jobPoints[d]

Effect(g, keep, upd, open, stop) ==
    /\ EffectOnRuntimes(g, keep, upd, open, stop)
    /\ EffectOnConns(open, stop)
    /\ EffectOnTable(g, keep, upd, open, stop)

LEMMA ApplyHasEffect ==
    ASSUME ShapeInv, NEW g, NEW keep \in SUBSET DOMAIN runtimes, NEW upd \in SUBSET DOMAIN runtimes,
           NEW open \in SUBSET Devices, NEW stop \in SUBSET DOMAIN runtimes,
           keep \cap upd = {}, keep \cap open = {}, upd \cap open = {},
           Apply(g, keep, upd, open, stop)
    PROVE  Effect(g, keep, upd, open, stop)
<1> DEFINE opened == [d \in open |-> [n |-> opens[d] + 1, key |-> g, sig |-> desired[d].sig]]
           edited == [d \in upd |-> [runtimes[d] EXCEPT !.sig = desired[d].sig]]
           paced  == {d \in upd : runtimes[d].sig.interval # desired[d].sig.interval}
           kept   == [d \in keep |-> runtimes[d]]
           again  == [d \in paced |-> runtimes[d].n]
           first  == [d \in Fresh(g, open) |-> opens[d] + 1]
           points == [d \in Fresh(g, open) \cup upd |-> desired[d].sig.points]
<1>1. /\ newRt' = opened ++ edited ++ kept ++ newRt
      /\ runtimes' = edited ++ runtimes
      /\ opens' = [d \in Devices |-> opens[d] + IF d \in open THEN 1 ELSE 0]
      /\ live' = (live \cup {<<d, opens[d] + 1>> : d \in open}) \ ClosedBy(stop)
      /\ byID' = ScheduleThenRemove(again ++ first, PollersOf(stop))
      /\ jobPoints' = points ++ jobPoints
      /\ twice' = twice \cup {d \in stop : <<d, runtimes[d].n>> \notin live}
  BY DEF Apply, Fresh
<1>2. \A d \in upd :
        edited[d] = [n |-> runtimes[d].n, key |-> runtimes[d].key, sig |-> desired[d].sig]
  <2> SUFFICES ASSUME NEW d \in upd
               PROVE  [runtimes[d] EXCEPT !.sig = desired[d].sig]
                        = [n |-> runtimes[d].n, key |-> runtimes[d].key, sig |-> desired[d].sig]
    OBVIOUS
  <2>1. runtimes[d] = [n |-> runtimes[d].n, key |-> runtimes[d].key, sig |-> runtimes[d].sig]
    BY DEF ShapeInv, Runtimes
  <2> QED BY <2>1
<1>3. EffectOnRuntimes(g, keep, upd, open, stop)
  <2>1. /\ DOMAIN opened = open /\ DOMAIN edited = upd /\ DOMAIN kept = keep
        /\ \A d \in open : opened[d] = [n |-> opens[d] + 1, key |-> g, sig |-> desired[d].sig]
        /\ \A d \in keep : kept[d] = runtimes[d]
    OBVIOUS
  <2> HIDE DEF opened, edited, kept
  <2>2. /\ DOMAIN (opened ++ edited) = open \cup upd
        /\ \A d \in open : (opened ++ edited)[d] = opened[d]
        /\ \A d \in upd : (opened ++ edited)[d] = edited[d]
    BY <2>1 DEF ++
  <2>3. /\ DOMAIN (opened ++ edited ++ kept) = open \cup upd \cup keep
        /\ \A d \in open \cup upd : (opened ++ edited ++ kept)[d] = (opened ++ edited)[d]
        /\ \A d \in keep : (opened ++ edited ++ kept)[d] = kept[d]
    BY <2>1, <2>2 DEF ++
  <2>4. /\ DOMAIN newRt' = open \cup upd \cup keep \cup DOMAIN newRt
        /\ \A d \in open \cup upd \cup keep : newRt'[d] = (opened ++ edited ++ kept)[d]
        /\ \A d \in DOMAIN newRt : d \notin open \cup upd \cup keep => newRt'[d] = newRt[d]
    BY <1>1, <2>3 DEF ++
  <2>5. /\ DOMAIN runtimes' = DOMAIN runtimes
        /\ \A d \in upd : runtimes'[d] = edited[d]
        /\ \A d \in DOMAIN runtimes : d \notin upd => runtimes'[d] = runtimes[d]
    BY <1>1, <2>1 DEF ++
  <2> QED BY <1>2, <2>1, <2>2, <2>3, <2>4, <2>5 DEF EffectOnRuntimes
<1>4. EffectOnConns(open, stop)
  <2>1. opens \in [Devices -> Nat]
    BY DEF ShapeInv
  <2> QED BY <1>1, <2>1 DEF EffectOnConns, ClosedBy
<1>5. EffectOnTable(g, keep, upd, open, stop)
  <2>1. /\ DOMAIN again = paced /\ DOMAIN first = Fresh(g, open)
        /\ DOMAIN points = Fresh(g, open) \cup upd /\ paced \subseteq upd
        /\ \A d \in paced : again[d] = runtimes[d].n
        /\ \A d \in Fresh(g, open) : first[d] = opens[d] + 1
        /\ \A d \in Fresh(g, open) \cup upd : points[d] = desired[d].sig.points
    OBVIOUS
  <2> HIDE DEF again, first, points, paced
  <2>2. /\ DOMAIN (again ++ first) = paced \cup Fresh(g, open)
        /\ \A d \in paced : (again ++ first)[d] = runtimes[d].n
        /\ \A d \in Fresh(g, open) : d \notin paced => (again ++ first)[d] = opens[d] + 1
    BY <2>1 DEF ++
  <2> DEFINE table == again ++ first ++ byID
  <2>3. /\ DOMAIN table = paced \cup Fresh(g, open) \cup DOMAIN byID
        /\ \A d \in DOMAIN table :
              table[d] = IF d \in paced THEN runtimes[d].n
                         ELSE IF d \in Fresh(g, open) THEN opens[d] + 1 ELSE byID[d]
    BY <2>2 DEF ++
  <2>4. byID' = [d \in DOMAIN table \ PollersOf(stop) |-> table[d]]
    BY <1>1 DEF ScheduleThenRemove, Without
  <2> HIDE DEF table
  <2>5. /\ DOMAIN byID' = {d \in paced \cup Fresh(g, open) \cup DOMAIN byID :
                             ~(d \in stop /\ Polls(runtimes[d].key))}
        /\ \A d \in DOMAIN byID' :
              byID'[d] = IF d \in paced THEN runtimes[d].n
                         ELSE IF d \in Fresh(g, open) THEN opens[d] + 1 ELSE byID[d]
    BY <2>3, <2>4 DEF PollersOf
  <2>6. /\ DOMAIN jobPoints' = Fresh(g, open) \cup upd \cup DOMAIN jobPoints
        /\ \A d \in DOMAIN jobPoints' :
              jobPoints'[d] = IF d \in Fresh(g, open) \cup upd THEN desired[d].sig.points
                              ELSE jobPoints[d]
    BY <1>1, <2>1 DEF ++
  <2>7. paced \in SUBSET upd
    BY <2>1
  <2> QED BY <2>5, <2>6, <2>7 DEF EffectOnTable
<1> QED BY <1>3, <1>4, <1>5 DEF Effect

-----------------------------------------------------------------------------
(* How the code treats the devices of a group: the four cases of reconcile    *)
(* have this in common.                                                       *)

Treats(g, keep, upd, open, stop) ==
    /\ keep \subseteq NewOf(g) \cap DOMAIN runtimes
    /\ upd \subseteq NewOf(g) \cap DOMAIN runtimes
    /\ open \subseteq NewOf(g) /\ stop \subseteq DOMAIN runtimes
    /\ keep \cap upd = {} /\ keep \cap open = {} /\ upd \cap open = {}
    /\ keep \cap stop = {} /\ upd \cap stop = {}
    /\ NewOf(g) \subseteq keep \cup upd \cup open \cup failed'
    /\ OldOf(g) \subseteq keep \cup upd \cup stop
    /\ stop \subseteq OldOf(g) \cup NewOf(g)
    /\ \A d \in keep : runtimes[d].sig = desired[d].sig
    /\ \A d \in upd : Polls(runtimes[d].key)
    /\ \A d \in keep \cup upd \cup stop : runtimes[d].key = g \/ d \in moved'
    /\ \A d \in open \cap DOMAIN runtimes :
          runtimes[d].key = g \/ d \in moved' \/ ~Polls(g) \/ runtimes[d].key \notin groups
    /\ \A d \in open \cap stop : d \in reopened' \/ ~Polls(g)
    /\ \A d \in DOMAIN runtimes : Unchanged(d) /\ runtimes[d].key = g => d \in keep
    /\ failed \subseteq failed' /\ moved \subseteq moved' /\ reopened \subseteq reopened'

LEMMA GroupIsTreated ==
    ASSUME ShapeInv, NEW g, Pending(g),
           OpenGroup(g) \/ StopGroup(g) \/ RestartGroup(g) \/ UpdateGroup(g)
    PROVE  \E keep, upd, open, stop :
              Apply(g, keep, upd, open, stop) /\ Treats(g, keep, upd, open, stop)
<1>0. /\ \A d : d \in OldOf(g) <=> d \in DOMAIN runtimes /\ runtimes[d].key = g
      /\ \A d : d \in NewOf(g) <=> d \in DOMAIN desired /\ desired[d].key = g
      /\ \A d : Unchanged(d) => /\ d \in DOMAIN runtimes /\ d \in DOMAIN desired
                                /\ desired[d].key = runtimes[d].key
                                /\ desired[d].sig = runtimes[d].sig
                                /\ ~GroupRestarts(runtimes[d].key)
  BY DEF OldOf, NewOf, Unchanged
<1> USE DEF Treats
<1>1. CASE OpenGroup(g)
  <2>1. PICK lost \in SUBSET NewOf(g) :
          Apply(g, {}, {}, NewOf(g) \ lost, {}) /\ failed' = failed \cup lost
    BY <1>1 DEF OpenGroup
  <2>2. OldOf(g) = {} /\ UNCHANGED <<reopened, moved>>
    BY <1>1 DEF OpenGroup
  <2>3. g \notin KeysOf(runtimes)
    BY <1>0, <2>2 DEF KeysOf
  <2>4. \A d \in DOMAIN runtimes : runtimes[d].key \notin groups
    BY <2>3 DEF Pending, KeysOf
  <2>5. Treats(g, {}, {}, NewOf(g) \ lost, {})
    BY <1>0, <2>1, <2>2, <2>4
  <2> QED BY <2>1, <2>5
<1>2. CASE StopGroup(g)
  <2>1. Apply(g, {}, {}, {}, OldOf(g)) /\ NewOf(g) = {} /\ UNCHANGED <<failed, reopened, moved>>
    BY <1>2 DEF StopGroup
  <2>2. Treats(g, {}, {}, {}, OldOf(g))
    BY <1>0, <2>1
  <2> QED BY <2>1, <2>2
<1>3. CASE RestartGroup(g)
  <2>1. PICK lost \in SUBSET NewOf(g) :
          Apply(g, {}, {}, NewOf(g) \ lost, OldOf(g)) /\ failed' = failed \cup lost
    BY <1>3 DEF RestartGroup
  <2>2. GroupRestarts(g) /\ ~Polls(g) /\ UNCHANGED <<reopened, moved>>
    BY <1>3 DEF RestartGroup, GroupRestarts
  <2>3. Treats(g, {}, {}, NewOf(g) \ lost, OldOf(g))
    BY <1>0, <2>1, <2>2
  <2> QED BY <2>1, <2>3
<1>4. CASE UpdateGroup(g)
  <2> DEFINE both == NewOf(g) \cap DOMAIN runtimes
  <2>1. PICK lost \in SUBSET (Reopened(g) \cup Added(g)) :
          /\ Apply(g, Kept(g), Updated(g), (Reopened(g) \cup Added(g)) \ lost,
                   Reopened(g) \cup Gone(g))
          /\ failed' = failed \cup lost
    BY <1>4 DEF UpdateGroup
  <2>2. /\ ~GroupRestarts(g) /\ \A d \in Updated(g) : Polls(runtimes[d].key)
        /\ reopened' = reopened \cup Reopened(g)
        /\ moved' = moved \cup (both \ OldOf(g))
    BY <1>4 DEF UpdateGroup, NilJob
  <2>3. /\ Kept(g) \subseteq both /\ Updated(g) \subseteq both
        /\ Reopened(g) = both \ (Kept(g) \cup Updated(g))
        /\ Kept(g) \cap Updated(g) = {}
        /\ \A d \in both : d \in Kept(g) <=> runtimes[d].sig = desired[d].sig
        /\ Added(g) = NewOf(g) \ DOMAIN runtimes
        /\ Gone(g) = OldOf(g) \ NewOf(g)
    BY DEF Kept, Updated, Reopened, Added, Gone
  <2>4. OldOf(g) \subseteq DOMAIN runtimes
    BY <1>0
  <2>5. \A d \in both : d \in OldOf(g) \/ d \in moved'
    BY <2>2
  <2>6. Treats(g, Kept(g), Updated(g), (Reopened(g) \cup Added(g)) \ lost,
               Reopened(g) \cup Gone(g))
    BY <1>0, <2>1, <2>2, <2>3, <2>4, <2>5
  <2> QED BY <2>1, <2>6
<1> QED BY <1>1, <1>2, <1>3, <1>4

Reconciled(g, keep, upd, open, stop) ==
    /\ pc = "reconcile" /\ pc' = "reconcile"
    /\ g \in groups /\ groups' = groups \ {g}
    /\ UNCHANGED <<storeVars, listed, desired, readFailed>>
    /\ Treats(g, keep, upd, open, stop)
    /\ Effect(g, keep, upd, open, stop)

LEMMA GroupIsReconciled ==
    ASSUME ShapeInv, NEW g, ReconcileGroup(g)
    PROVE  \E keep, upd, open, stop : Reconciled(g, keep, upd, open, stop)
<1>1. PICK keep, upd, open, stop :
        Apply(g, keep, upd, open, stop) /\ Treats(g, keep, upd, open, stop)
  BY GroupIsTreated DEF ReconcileGroup
<1>2. /\ keep \in SUBSET DOMAIN runtimes /\ upd \in SUBSET DOMAIN runtimes
      /\ open \in SUBSET Devices /\ stop \in SUBSET DOMAIN runtimes
      /\ keep \cap upd = {} /\ keep \cap open = {} /\ upd \cap open = {}
  BY <1>1 DEF Treats, NewOf, ShapeInv
<1>3. Effect(g, keep, upd, open, stop)
  BY <1>1, <1>2, ApplyHasEffect
<1>4. Reconciled(g, keep, upd, open, stop)
  BY <1>1, <1>3 DEF Reconciled, ReconcileGroup, Pending
<1> QED BY <1>4

(* The devices that a step does not treat, and where the others come from. *)
LEMMA ReconciledDevices ==
    ASSUME ShapeInv, PlanInv, NEW g, NEW keep, NEW upd, NEW open, NEW stop,
           Reconciled(g, keep, upd, open, stop)
    PROVE  /\ \A d : Untouched(d)' <=> Untouched(d) /\ runtimes[d].key # g
           /\ \A d \in keep \cup upd \cup open :
                 /\ d \in Devices /\ d \in DOMAIN desired /\ desired[d].key = g
                 /\ d \notin DOMAIN newRt
           /\ \A d \in keep \cup upd \cup stop : d \in DOMAIN runtimes
           /\ \A d \in DOMAIN newRt :
                 d \in DOMAIN newRt' /\ newRt'[d] = newRt[d] /\ desired[d].key # g
           /\ \A d \in DOMAIN newRt' : d \in DOMAIN newRt \cup keep \cup upd \cup open
           /\ DOMAIN runtimes' = DOMAIN runtimes
           /\ \A d \in DOMAIN runtimes : /\ runtimes'[d].n = runtimes[d].n
                                         /\ runtimes'[d].key = runtimes[d].key
<1>1. EffectOnRuntimes(g, keep, upd, open, stop) /\ Treats(g, keep, upd, open, stop)
  BY DEF Reconciled, Effect
<1>2. \A d \in keep \cup upd \cup open : d \in DOMAIN desired /\ desired[d].key = g
  BY <1>1 DEF Treats, NewOf
<1>3. \A d \in DOMAIN newRt : desired[d].key # g
  BY DEF PlanInv, Reconciled
<1>4. /\ DOMAIN runtimes' = DOMAIN runtimes
      /\ \A d \in DOMAIN runtimes : /\ runtimes'[d].n = runtimes[d].n
                                    /\ runtimes'[d].key = runtimes[d].key
  <2>1. \A d \in DOMAIN runtimes : d \in upd \/ runtimes'[d] = runtimes[d]
    BY <1>1 DEF EffectOnRuntimes
  <2>2. \A d \in upd : runtimes'[d].n = runtimes[d].n /\ runtimes'[d].key = runtimes[d].key
    BY <1>1 DEF EffectOnRuntimes
  <2> QED BY <1>1, <2>1, <2>2 DEF EffectOnRuntimes
<1>5. \A d : Untouched(d)' <=> Untouched(d) /\ runtimes[d].key # g
  BY <1>4 DEF Untouched, InReload, Reconciled
<1>6. \A d \in keep \cup upd \cup stop : d \in DOMAIN runtimes
  BY <1>1 DEF Treats
<1>7. \A d \in DOMAIN newRt : d \in DOMAIN newRt' /\ newRt'[d] = newRt[d]
  BY <1>1, <1>2, <1>3 DEF EffectOnRuntimes
<1>8. \A d \in DOMAIN newRt' : d \in DOMAIN newRt \cup keep \cup upd \cup open
  BY <1>1 DEF EffectOnRuntimes
<1> QED BY <1>2, <1>3, <1>4, <1>5, <1>6, <1>7, <1>8 DEF ShapeInv

LEMMA ReconciledShape ==
    ASSUME ShapeInv, PlanInv, NEW g, NEW keep, NEW upd, NEW open, NEW stop,
           Reconciled(g, keep, upd, open, stop)
    PROVE  ShapeInv'
<1>1. EffectOnRuntimes(g, keep, upd, open, stop) /\ EffectOnConns(open, stop)
  BY DEF Reconciled, Effect
<1>2. /\ opens \in [Devices -> Nat] /\ opens' \in [Devices -> Nat]
      /\ \A d \in Devices : opens[d] <= opens'[d] /\ (d \in open => opens'[d] = opens[d] + 1)
  BY <1>1 DEF ShapeInv, EffectOnConns
<1>3. \A d \in DOMAIN runtimes :
         /\ d \in Devices
         /\ runtimes[d] = [n |-> runtimes[d].n, key |-> runtimes[d].key, sig |-> runtimes[d].sig]
         /\ runtimes[d].n \in Nat /\ runtimes[d].n <= opens'[d]
  BY <1>2 DEF ShapeInv, Runtimes
<1>4. Runtimes(runtimes)'
  <2>1. ASSUME NEW d \in DOMAIN runtimes'
        PROVE  /\ d \in Devices
               /\ runtimes'[d] = [n |-> runtimes'[d].n, key |-> runtimes'[d].key,
                                  sig |-> runtimes'[d].sig]
               /\ runtimes'[d].n \in Nat /\ runtimes'[d].n <= opens'[d]
    <3>1. CASE d \in upd
      BY <1>1, <1>3, <3>1 DEF EffectOnRuntimes
    <3>2. CASE d \notin upd
      BY <1>1, <1>3, <3>2 DEF EffectOnRuntimes
    <3> QED BY <3>1, <3>2
  <2> QED BY <2>1 DEF Runtimes
<1>5. Runtimes(newRt)'
  <2>1. ASSUME NEW d \in DOMAIN newRt'
        PROVE  /\ d \in Devices
               /\ newRt'[d] = [n |-> newRt'[d].n, key |-> newRt'[d].key, sig |-> newRt'[d].sig]
               /\ newRt'[d].n \in Nat /\ newRt'[d].n <= opens'[d]
    <3>1. CASE d \in open
      BY <1>1, <1>2, <3>1, ReconciledDevices DEF EffectOnRuntimes
    <3>2. CASE d \in upd
      BY <1>1, <1>3, <3>2, ReconciledDevices DEF EffectOnRuntimes
    <3>3. CASE d \in keep
      BY <1>1, <1>3, <3>3, ReconciledDevices DEF EffectOnRuntimes
    <3>4. CASE d \in DOMAIN newRt
      <4>1. newRt'[d] = newRt[d]
        BY <3>4, ReconciledDevices
      <4> QED BY <1>2, <3>4, <4>1 DEF ShapeInv, Runtimes
    <3> QED BY <3>1, <3>2, <3>3, <3>4, ReconciledDevices
  <2> QED BY <2>1 DEF Runtimes
<1>6. live' \subseteq Devices \X Nat
  <2>1. \A d \in open : d \in Devices /\ opens[d] + 1 \in Nat
    BY <1>2, ReconciledDevices
  <2>2. live' \subseteq live \cup {<<d, opens[d] + 1>> : d \in open}
    BY <1>1 DEF EffectOnConns
  <2> QED BY <2>1, <2>2 DEF ShapeInv
<1> QED BY <1>2, <1>4, <1>5, <1>6 DEF ShapeInv, Reconciled

LEMMA ReconciledPlan ==
    ASSUME ShapeInv, PlanInv, NEW g, NEW keep, NEW upd, NEW open, NEW stop,
           Reconciled(g, keep, upd, open, stop)
    PROVE  PlanInv'
<1>1. /\ EffectOnRuntimes(g, keep, upd, open, stop) /\ Treats(g, keep, upd, open, stop)
      /\ groups' = groups \ {g} /\ desired' = desired /\ pc = "reconcile"
  BY DEF Reconciled, Effect
<1> SUFFICES ASSUME NEW d \in DOMAIN newRt'
             PROVE  /\ d \in DOMAIN desired /\ desired[d].key \notin groups'
                    /\ newRt'[d].sig = desired[d].sig
                    /\ d \notin moved' => newRt'[d].key = desired[d].key
                    /\ Untouched(d)' /\ d \notin moved' =>
                          newRt'[d].n # runtimes'[d].n /\ ~Polls(newRt'[d].key)
  BY <1>1 DEF PlanInv
<1>2. CASE d \in DOMAIN newRt
  <2>1. newRt'[d] = newRt[d] /\ (Untouched(d)' => Untouched(d) /\ runtimes'[d].n = runtimes[d].n)
    BY <1>2, ReconciledDevices DEF Untouched
  <2> QED BY <1>1, <1>2, <2>1 DEF PlanInv, Treats
<1>3. CASE d \in open
  <2>1. newRt'[d] = [n |-> opens[d] + 1, key |-> g, sig |-> desired[d].sig]
    BY <1>1, <1>3 DEF EffectOnRuntimes
  <2>2. d \in Devices /\ d \in DOMAIN desired /\ desired[d].key = g
    BY <1>3, ReconciledDevices
  <2>3. ASSUME Untouched(d)', d \notin moved'
        PROVE  newRt'[d].n # runtimes'[d].n /\ ~Polls(g)
    <3>1. d \in DOMAIN runtimes /\ runtimes[d].key \in groups /\ runtimes[d].key # g
      BY <1>1, <2>3, ReconciledDevices DEF Untouched, InReload
    <3>2. runtimes[d].n \in Nat /\ runtimes[d].n <= opens[d] /\ opens[d] \in Nat
      BY <2>2, <3>1 DEF ShapeInv, Runtimes
    <3>3. runtimes'[d].n = runtimes[d].n
      BY <3>1, ReconciledDevices
    <3>4. ~Polls(g)
      BY <1>1, <1>3, <2>3, <3>1 DEF Treats
    <3> QED BY <2>1, <3>2, <3>3, <3>4
  <2> QED BY <1>1, <2>1, <2>2, <2>3
<1>4. CASE d \in keep \cup upd
  <2>1. /\ newRt'[d].sig = desired[d].sig /\ newRt'[d].key = runtimes[d].key
        /\ runtimes[d].key = g \/ d \in moved'
    BY <1>1, <1>4 DEF EffectOnRuntimes, Treats
  <2>2. d \in DOMAIN desired /\ desired[d].key = g
    BY <1>4, ReconciledDevices
  <2>3. Untouched(d)' => runtimes[d].key # g
    BY ReconciledDevices
  <2> QED BY <1>1, <2>1, <2>2, <2>3
<1> QED BY <1>2, <1>3, <1>4, ReconciledDevices

LEMMA ReconciledServed ==
    ASSUME ShapeInv, PlanInv, ServedInv, NEW g, NEW keep, NEW upd, NEW open, NEW stop,
           Reconciled(g, keep, upd, open, stop)
    PROVE  ServedInv'
<1>1. /\ EffectOnRuntimes(g, keep, upd, open, stop) /\ Treats(g, keep, upd, open, stop)
      /\ groups' = groups \ {g} /\ desired' = desired /\ pc = "reconcile"
  BY DEF Reconciled, Effect
<1> SUFFICES ASSUME NEW d \in DOMAIN desired
             PROVE  desired[d].key \in groups' \/ d \in DOMAIN newRt' \/ d \in failed'
  BY <1>1 DEF ServedInv
<1>2. CASE desired[d].key = g
  <2>1. d \in NewOf(g)
    BY <1>2 DEF NewOf
  <2> QED BY <1>1, <2>1 DEF Treats, EffectOnRuntimes
<1>3. CASE desired[d].key # g
  BY <1>1, <1>3, ReconciledDevices DEF ServedInv, Treats
<1> QED BY <1>2, <1>3

LEMMA ReconciledLive ==
    ASSUME ShapeInv, PlanInv, LiveInv, NEW g, NEW keep, NEW upd, NEW open, NEW stop,
           Reconciled(g, keep, upd, open, stop)
    PROVE  LiveInv'
<1>1. /\ EffectOnRuntimes(g, keep, upd, open, stop) /\ EffectOnConns(open, stop)
      /\ Treats(g, keep, upd, open, stop)
  BY DEF Reconciled, Effect
<1>2. \A d \in open : newRt'[d].n = opens[d] + 1 /\ d \in DOMAIN newRt' /\ opens[d] \in Nat
  <2>1. \A d \in open : opens[d] \in Nat
    BY ReconciledDevices DEF ShapeInv
  <2> QED BY <1>1, <2>1 DEF EffectOnRuntimes
<1>3. \A d \in keep \cup upd : newRt'[d].n = runtimes[d].n /\ d \in DOMAIN newRt'
  BY <1>1 DEF EffectOnRuntimes
<1>4. \A d \in stop : runtimes[d].key = g \/ d \in moved'
  BY <1>1 DEF Treats
<1>5. ASSUME NEW d \in DOMAIN runtimes, runtimes[d].key = g
      PROVE  d \in keep \cup upd \cup stop
  BY <1>1, <1>5 DEF Treats, OldOf
<1>6. \A d \in DOMAIN runtimes : runtimes[d].key = g => Untouched(d)
  BY DEF Reconciled, Untouched
<1>7. twice' \subseteq moved'
  <2>1. ASSUME NEW d \in stop, d \notin moved' PROVE <<d, runtimes[d].n>> \in live
    <3>1. Untouched(d) /\ d \notin moved /\ d \in Devices
      BY <1>1, <1>4, <1>6, <2>1, ReconciledDevices DEF Treats, ShapeInv, Runtimes
    <3> QED BY <3>1 DEF LiveInv
  <2> QED BY <1>1, <2>1 DEF EffectOnConns, LiveInv, Treats
<1>8. ASSUME NEW c \in live'
      PROVE  \/ Untouched(c[1])' /\ c[2] = runtimes'[c[1]].n
             \/ c[1] \in DOMAIN newRt' /\ c[2] = newRt'[c[1]].n
  <2>1. CASE \E d \in open : c = <<d, opens[d] + 1>>
    BY <1>2, <2>1
  <2>2. CASE c \in live /\ c[1] \in DOMAIN newRt /\ c[2] = newRt[c[1]].n
    BY <2>2, ReconciledDevices
  <2>3. CASE c \in live /\ Untouched(c[1]) /\ c[2] = runtimes[c[1]].n
    <3>1. CASE runtimes[c[1]].key # g
      BY <2>3, <3>1, ReconciledDevices DEF Untouched
    <3>2. CASE runtimes[c[1]].key = g
      <4>1. c = <<c[1], runtimes[c[1]].n>>
        BY <2>3 DEF ShapeInv
      <4>2. c[1] \notin stop
        BY <1>1, <1>8, <4>1 DEF EffectOnConns
      <4>3. c[1] \in keep \cup upd
        BY <1>5, <2>3, <3>2, <4>2 DEF Untouched
      <4> QED BY <1>3, <2>3, <4>3
    <3> QED BY <3>1, <3>2
  <2>4. c \in live \/ \E d \in open : c = <<d, opens[d] + 1>>
    BY <1>1, <1>8 DEF EffectOnConns
  <2> QED BY <2>1, <2>2, <2>3, <2>4 DEF LiveInv
<1>9. ASSUME NEW d \in Devices, d \notin moved', Untouched(d)'
      PROVE  <<d, runtimes'[d].n>> \in live'
  <2>1. Untouched(d) /\ runtimes[d].key # g /\ runtimes'[d].n = runtimes[d].n
    BY <1>9, ReconciledDevices DEF Untouched
  <2>2. <<d, runtimes[d].n>> \in live /\ d \notin stop
    BY <1>1, <1>4, <1>9, <2>1 DEF LiveInv, Treats
  <2> QED BY <1>1, <2>1, <2>2 DEF EffectOnConns
<1>10. ASSUME NEW d \in DOMAIN newRt', d \notin moved'
       PROVE  <<d, newRt'[d].n>> \in live'
  <2>0. d \notin moved
    BY <1>1, <1>10 DEF Treats
  <2>1. CASE d \in open
    <3>1. d \in stop => runtimes[d].n \in Nat /\ runtimes[d].n <= opens[d]
      BY ReconciledDevices DEF ShapeInv, Runtimes
    <3>2. d \in stop => runtimes[d].n # opens[d] + 1
      BY <1>2, <2>1, <3>1
    <3> QED BY <1>1, <1>2, <2>1, <3>2 DEF EffectOnConns
  <2>2. CASE d \in keep \cup upd
    <3>1. d \in DOMAIN runtimes /\ runtimes[d].key = g /\ d \in Devices /\ d \notin stop
      BY <1>1, <1>10, <2>2, ReconciledDevices DEF Treats
    <3>2. <<d, runtimes[d].n>> \in live
      BY <1>6, <2>0, <3>1 DEF LiveInv
    <3> QED BY <1>1, <1>3, <2>2, <3>1, <3>2 DEF EffectOnConns
  <2>3. CASE d \in DOMAIN newRt
    <3>1. newRt'[d] = newRt[d] /\ <<d, newRt[d].n>> \in live
      BY <2>0, <2>3, ReconciledDevices DEF LiveInv
    <3>2. d \in stop => newRt[d].n # runtimes[d].n
      BY <1>4, <1>6, <1>10, <2>0, <2>3, ReconciledDevices DEF PlanInv
    <3> QED BY <1>1, <3>1, <3>2 DEF EffectOnConns
  <2> QED BY <2>1, <2>2, <2>3, ReconciledDevices
<1> QED BY <1>7, <1>8, <1>9, <1>10 DEF LiveInv

LEMMA ReconciledCarried ==
    ASSUME ShapeInv, PlanInv, CarriedInv, NEW g, NEW keep, NEW upd, NEW open, NEW stop,
           Reconciled(g, keep, upd, open, stop)
    PROVE  CarriedInv'
<1>1. /\ EffectOnRuntimes(g, keep, upd, open, stop) /\ Treats(g, keep, upd, open, stop)
      /\ desired' = desired
  BY DEF Reconciled, Effect
<1>2. ASSUME NEW q, ~Polls(q) PROVE GroupRestarts(q)' <=> GroupRestarts(q)
  <2>1. \A d \in DOMAIN runtimes : runtimes[d].key = q => runtimes'[d] = runtimes[d]
    BY <1>1, <1>2 DEF Treats, EffectOnRuntimes
  <2>2. OldOf(q)' = OldOf(q)
    BY ReconciledDevices DEF OldOf
  <2> QED BY <1>1, <1>2, <2>1, <2>2 DEF GroupRestarts, OldOf, Polls
<1>3. ASSUME NEW q PROVE GroupRestarts(q)' <=> GroupRestarts(q)
  BY <1>2 DEF GroupRestarts, Polls
<1> SUFFICES ASSUME NEW d \in DOMAIN newRt', Unchanged(d)'
             PROVE  newRt'[d] = runtimes'[d]
  BY DEF CarriedInv
<1>4. /\ d \in DOMAIN runtimes /\ d \in DOMAIN desired
      /\ desired[d].key = runtimes[d].key /\ ~GroupRestarts(runtimes[d].key)
      /\ desired[d] = [key |-> runtimes[d].key, sig |-> runtimes'[d].sig]
  <2>1. runtimes'[d].key = runtimes[d].key /\ d \in DOMAIN runtimes
    BY ReconciledDevices DEF Unchanged
  <2> QED BY <1>1, <1>3, <2>1 DEF Unchanged
<1>5. CASE d \in upd
  BY <1>1, <1>5 DEF EffectOnRuntimes
<1>6. CASE d \notin upd
  <2>1. runtimes'[d] = runtimes[d] /\ Unchanged(d)
    BY <1>1, <1>4, <1>6 DEF EffectOnRuntimes, Unchanged
  <2>2. CASE d \in DOMAIN newRt
    BY <2>1, <2>2, ReconciledDevices DEF CarriedInv
  <2>3. CASE d \in keep
    BY <1>1, <2>1, <2>3 DEF EffectOnRuntimes
  <2>4. CASE d \in open
    <3>1. runtimes[d].key = g
      BY <1>4, <2>4, ReconciledDevices
    <3>2. d \in keep
      BY <1>1, <1>4, <2>1, <3>1 DEF Treats
    <3> QED BY <1>1, <2>4, <3>2 DEF Treats
  <2> QED BY <1>6, <2>2, <2>3, <2>4, ReconciledDevices
<1> QED BY <1>5, <1>6

LEMMA ReconciledTable ==
    ASSUME ShapeInv, PlanInv, TableInv, NEW g, NEW keep, NEW upd, NEW open, NEW stop,
           Reconciled(g, keep, upd, open, stop)
    PROVE  TableInv'
<1>1. /\ EffectOnRuntimes(g, keep, upd, open, stop) /\ Treats(g, keep, upd, open, stop)
      /\ EffectOnTable(g, keep, upd, open, stop)
  BY DEF Reconciled, Effect
<1>2. PICK paced \in SUBSET upd :
        /\ DOMAIN byID' =
              {d \in paced \cup Fresh(g, open) \cup DOMAIN byID :
                  ~(d \in stop /\ Polls(runtimes[d].key))}
        /\ \A d \in DOMAIN byID' :
              byID'[d] = IF d \in paced THEN runtimes[d].n
                         ELSE IF d \in Fresh(g, open) THEN opens[d] + 1 ELSE byID[d]
        /\ DOMAIN jobPoints' = Fresh(g, open) \cup upd \cup DOMAIN jobPoints
        /\ \A d \in DOMAIN jobPoints' :
              jobPoints'[d] = IF d \in Fresh(g, open) \cup upd THEN desired[d].sig.points
                              ELSE jobPoints[d]
  BY <1>1 DEF EffectOnTable
<1>3. \A d : d \in Fresh(g, open) => d \in open /\ Polls(g)
  BY DEF Fresh
<1>4. \A d \in open : /\ d \in DOMAIN newRt' /\ newRt'[d].n = opens[d] + 1 /\ newRt'[d].key = g
                      /\ newRt'[d].sig = desired[d].sig
  BY <1>1 DEF EffectOnRuntimes
<1>5. \A d \in upd : /\ d \in DOMAIN newRt' /\ newRt'[d].n = runtimes[d].n
                     /\ newRt'[d].key = runtimes[d].key /\ newRt'[d].sig = desired[d].sig
                     /\ Polls(runtimes[d].key)
  BY <1>1 DEF EffectOnRuntimes, Treats
<1>6. \A d \in keep : d \in DOMAIN newRt' /\ newRt'[d] = runtimes[d]
  BY <1>1 DEF EffectOnRuntimes
<1>7. \A d \in DOMAIN runtimes : runtimes[d].key = g => Untouched(d) /\ d \in keep \cup upd \cup stop
  BY <1>1 DEF Treats, OldOf, Untouched, Reconciled
<1>8. /\ moved \subseteq moved' /\ reopened \subseteq reopened'
      /\ \A d \in keep \cup upd \cup stop : runtimes[d].key = g \/ d \in moved'
  BY <1>1 DEF Treats
\* No job is left behind.
<1>9. ASSUME NEW d \in DOMAIN byID'
      PROVE  \/ Untouched(d)' /\ byID'[d] = runtimes'[d].n /\ Polls(runtimes'[d].key)
             \/ d \in DOMAIN newRt' /\ byID'[d] = newRt'[d].n /\ Polls(newRt'[d].key)
  <2>1. CASE d \in paced
    BY <1>2, <1>5, <1>9, <2>1
  <2>2. CASE d \in Fresh(g, open) /\ d \notin paced
    BY <1>2, <1>3, <1>4, <1>9, <2>2
  <2>3. CASE d \notin Fresh(g, open) /\ d \notin paced
    <3>1. d \in DOMAIN byID /\ byID'[d] = byID[d] /\ ~(d \in stop /\ Polls(runtimes[d].key))
      BY <1>2, <1>9, <2>3
    <3>2. CASE Untouched(d) /\ OwnsJob(d, runtimes[d])
      <4>1. CASE runtimes[d].key # g
        BY <3>1, <3>2, <4>1, ReconciledDevices DEF OwnsJob, Untouched
      <4>2. CASE runtimes[d].key = g
        <5>1. d \in keep \cup upd
          BY <1>7, <3>1, <3>2, <4>2 DEF OwnsJob, Untouched
        <5> QED BY <1>5, <1>6, <3>1, <3>2, <5>1 DEF OwnsJob
      <4> QED BY <4>1, <4>2
    <3>3. CASE d \in DOMAIN newRt /\ OwnsJob(d, newRt[d])
      BY <3>1, <3>3, ReconciledDevices DEF OwnsJob
    <3> QED BY <3>1, <3>2, <3>3 DEF TableInv
  <2> QED BY <2>1, <2>2, <2>3
\* The jobs of the groups that are still to come are left alone.
<1>10. ASSUME NEW d \in Devices, d \notin reopened', d \notin moved', Untouched(d)',
              Polls(runtimes'[d].key)
       PROVE  /\ d \in DOMAIN byID' /\ byID'[d] = runtimes'[d].n
              /\ d \in DOMAIN jobPoints' /\ jobPoints'[d] = runtimes'[d].sig.points
  <2>1. /\ d \in DOMAIN runtimes /\ Untouched(d) /\ runtimes[d].key # g
        /\ runtimes'[d].n = runtimes[d].n /\ runtimes'[d].key = runtimes[d].key
    BY <1>10, ReconciledDevices DEF Untouched
  <2>2. d \notin upd /\ d \notin keep /\ d \notin stop
    BY <1>8, <1>10, <2>1
  <2>3. d \notin Fresh(g, open)
    <3>1. d \in open => runtimes[d].key \notin groups \/ ~Polls(g)
      BY <1>1, <1>10, <2>1 DEF Treats
    <3> QED BY <1>3, <2>1, <3>1 DEF Untouched, InReload, Reconciled
  <2>4. HasJob(d, runtimes[d])
    BY <1>8, <1>10, <2>1 DEF TableInv
  <2>5. runtimes'[d] = runtimes[d]
    BY <1>1, <2>1, <2>2 DEF EffectOnRuntimes
  <2> QED BY <1>2, <1>10, <2>1, <2>2, <2>3, <2>4, <2>5 DEF HasJob
\* The devices of this group have theirs.
<1>11. ASSUME NEW d \in DOMAIN newRt', d \notin reopened', d \notin moved', Polls(newRt'[d].key)
       PROVE  /\ d \in DOMAIN byID' /\ byID'[d] = newRt'[d].n
              /\ d \in DOMAIN jobPoints' /\ jobPoints'[d] = newRt'[d].sig.points
  <2>0. d \notin reopened /\ d \notin moved
    BY <1>8, <1>11
  <2>1. CASE d \in open
    <3>1. Polls(g) /\ d \in Fresh(g, open)
      BY <1>4, <1>11, <2>1 DEF Fresh
    <3>2. d \notin stop /\ d \notin paced
      BY <1>1, <1>11, <2>1, <3>1 DEF Treats
    <3> QED BY <1>2, <1>4, <2>1, <3>1, <3>2
  <2>2. CASE d \in keep \cup upd
    <3>1. /\ d \in DOMAIN runtimes /\ runtimes[d].key = g /\ d \in Devices
          /\ d \notin stop /\ d \notin open /\ (d \in keep => d \notin upd)
      BY <1>1, <1>8, <1>11, <2>2, ReconciledDevices DEF Treats
    <3>2. HasJob(d, runtimes[d])
      BY <1>7, <2>0, <3>1 DEF TableInv
    <3>3. d \notin Fresh(g, open)
      BY <1>3, <3>1
    <3>4. CASE d \in keep
      BY <1>2, <1>6, <1>11, <3>1, <3>2, <3>3, <3>4 DEF HasJob
    <3>5. CASE d \in upd
      BY <1>2, <1>5, <1>11, <3>1, <3>2, <3>3, <3>5 DEF HasJob
    <3> QED BY <2>2, <3>4, <3>5
  <2>3. CASE d \in DOMAIN newRt
    <3>1. newRt'[d] = newRt[d] /\ HasJob(d, newRt[d]) /\ desired[d].key # g
      BY <2>0, <2>3, ReconciledDevices DEF TableInv
    <3>2. d \notin open /\ d \notin upd /\ d \notin Fresh(g, open)
      BY <1>3, <3>1, ReconciledDevices
    <3>3. d \notin stop
      BY <1>7, <1>8, <1>11, <2>0, <2>3, <3>1, ReconciledDevices DEF PlanInv
    <3> QED BY <1>2, <1>11, <3>1, <3>2, <3>3 DEF HasJob
  <2> QED BY <2>1, <2>2, <2>3, ReconciledDevices
<1> QED BY <1>9, <1>10, <1>11 DEF TableInv, OwnsJob, HasJob

-----------------------------------------------------------------------------
(* The other steps.                                                           *)

ReloadInv ==
    /\ ShapeInv /\ PlanInv /\ ServedInv /\ LiveInv /\ TableInv
    /\ StoreInv /\ PanicInv /\ CarriedInv

LEMMA EmptyFunction == DOMAIN Empty = {}
BY DEF Empty

LEMMA DesiredPlanShape ==
    /\ DOMAIN DesiredPlan = {d \in Collected(listed) : conns[listed[d].conn] # NoConfig}
    /\ \A d \in DOMAIN DesiredPlan :
          /\ DesiredPlan[d].key = <<listed[d].conn, conns[listed[d].conn]>>
          /\ DesiredPlan[d].sig = SigOf(listed[d])
          /\ DesiredPlan[d] = [key |-> DesiredPlan[d].key, sig |-> DesiredPlan[d].sig]
BY DEF DesiredPlan

(* Steps that touch neither the devices nor the plan, nor enter or leave a reload. *)
LEMMA DevicesLeftAlone ==
    ASSUME ReloadInv, UNCHANGED <<deviceVars, desired, groups, failed, reopened, moved, twice>>,
           InReload' <=> InReload, pc' = "reconcile" => pc = "reconcile"
    PROVE  (ShapeInv /\ PlanInv /\ ServedInv /\ LiveInv /\ TableInv /\ CarriedInv)'
<1> USE DEF deviceVars
<1>1. \A d : Untouched(d)' <=> Untouched(d)
  BY DEF Untouched
<1>2. ShapeInv'
  BY DEF ReloadInv, ShapeInv, Runtimes, InReload
<1>3. PlanInv'
  BY <1>1 DEF ReloadInv, PlanInv, Polls
<1>4. ServedInv'
  BY DEF ReloadInv, ServedInv
<1>5. LiveInv'
  BY <1>1 DEF ReloadInv, LiveInv
<1>6. TableInv'
  BY <1>1 DEF ReloadInv, TableInv, OwnsJob, HasJob, Polls
<1>7. CarriedInv'
  BY DEF ReloadInv, CarriedInv, Unchanged, GroupRestarts, OldOf, Polls
<1> QED BY <1>2, <1>3, <1>4, <1>5, <1>6, <1>7

LEMMA BuildStep ==
    ASSUME ReloadInv, BuildDesired
    PROVE  ReloadInv'
<1> USE DEF deviceVars
<1>0. /\ pc = "build" /\ pc' = "reconcile" /\ desired' = DesiredPlan
      /\ groups' = KeysOf(runtimes) \cup KeysOf(DesiredPlan)
      /\ newRt' = Empty /\ newRt = Empty /\ DOMAIN Empty = {}
      /\ UNCHANGED <<storeVars, listed, runtimes, opens, live, byID, jobPoints, reopened, moved,
                     twice>>
  BY EmptyFunction DEF BuildDesired, ReloadInv, ShapeInv
<1>1. \A d : (Untouched(d) <=> d \in DOMAIN runtimes) /\ (Untouched(d)' <=> d \in DOMAIN runtimes)
  BY <1>0 DEF Untouched, InReload, KeysOf
<1>2. ShapeInv'
  <2>1. DOMAIN DesiredPlan \subseteq Devices
    BY DesiredPlanShape DEF Collected
  <2>2. Runtimes(runtimes)' /\ Runtimes(newRt)'
    BY <1>0 DEF ReloadInv, ShapeInv, Runtimes
  <2> QED BY <1>0, <2>1, <2>2, DesiredPlanShape DEF ReloadInv, ShapeInv
<1>3. PlanInv' /\ CarriedInv'
  BY <1>0 DEF PlanInv, CarriedInv
<1>4. ServedInv'
  BY <1>0 DEF ServedInv, KeysOf
<1>5. LiveInv'
  BY <1>0, <1>1 DEF ReloadInv, LiveInv
<1>6. TableInv'
  BY <1>0, <1>1 DEF ReloadInv, TableInv, OwnsJob, HasJob, Polls
<1>7. StoreInv'
  <2> SUFFICES ASSUME ~changed
               PROVE  /\ DOMAIN DesiredPlan = Wanted'
                      /\ \A d \in Wanted' :
                            /\ DesiredPlan[d].sig = SigOf(rows[d])
                            /\ DesiredPlan[d].key = <<rows[d].conn, conns[rows[d].conn]>>
    BY <1>0 DEF StoreInv, storeVars
  <2>1. listed = rows
    BY <1>0 DEF ReloadInv, StoreInv
  <2>2. Wanted' = Wanted
    BY <1>0 DEF Wanted, Collected, storeVars
  <2> QED BY <2>1, <2>2, DesiredPlanShape DEF Wanted
<1>8. PanicInv'
  BY <1>0 DEF PanicInv
<1> QED BY <1>2, <1>3, <1>4, <1>5, <1>6, <1>7, <1>8 DEF ReloadInv

LEMMA ReconcileStep ==
    ASSUME ReloadInv, NEW g, ReconcileGroup(g)
    PROVE  ReloadInv'
<1>1. PICK keep, upd, open, stop : Reconciled(g, keep, upd, open, stop)
  BY GroupIsReconciled DEF ReloadInv
<1>2. (ShapeInv /\ PlanInv /\ ServedInv /\ LiveInv /\ TableInv /\ CarriedInv)'
  BY <1>1, ReconciledShape, ReconciledPlan, ReconciledServed, ReconciledLive, ReconciledTable,
     ReconciledCarried DEF ReloadInv
<1>3. StoreInv'
  <2>1. pc = "reconcile" /\ pc' = "reconcile" /\ UNCHANGED <<rows, conns, changed, desired>>
    BY <1>1 DEF Reconciled, storeVars
  <2>2. Wanted' = Wanted
    BY <2>1 DEF Wanted, Collected
  <2> QED BY <2>1, <2>2 DEF ReloadInv, StoreInv
<1>4. PanicInv'
  BY <1>1 DEF PanicInv, Reconciled
<1> QED BY <1>2, <1>3, <1>4 DEF ReloadInv

LEMMA FinishStep ==
    ASSUME ReloadInv, FinishReload
    PROVE  ReloadInv'
<1>0. /\ pc = "reconcile" /\ pc' = "idle" /\ groups = {} /\ groups' = {}
      /\ runtimes' = newRt /\ newRt' = Empty /\ desired' = Empty /\ DOMAIN Empty = {}
      /\ UNCHANGED <<storeVars, opens, live, byID, jobPoints, history>>
  BY EmptyFunction DEF FinishReload, Installed
<1>1. \A d : ~Untouched(d) /\ (Untouched(d)' <=> d \in DOMAIN newRt)
  BY <1>0 DEF Untouched, InReload
<1>2. ShapeInv'
  <2>1. Runtimes(runtimes)' /\ Runtimes(newRt)'
    BY <1>0 DEF ReloadInv, ShapeInv, Runtimes
  <2> QED BY <1>0, <2>1 DEF ReloadInv, ShapeInv
<1>3. PlanInv' /\ CarriedInv' /\ ServedInv' /\ PanicInv'
  BY <1>0 DEF PlanInv, CarriedInv, ServedInv, PanicInv
<1>4. LiveInv'
  BY <1>0, <1>1 DEF ReloadInv, LiveInv, history
<1>5. TableInv'
  BY <1>0, <1>1 DEF ReloadInv, TableInv, OwnsJob, HasJob, Polls, history
<1>6. StoreInv'
  <2> SUFFICES ASSUME ~changed PROVE Follows(runtimes)'
    BY <1>0 DEF StoreInv, storeVars
  <2>1. Wanted' = Wanted
    BY <1>0 DEF Wanted, Collected, storeVars
  <2>2. /\ DOMAIN desired = Wanted
        /\ \A d \in Wanted : /\ desired[d].sig = SigOf(rows[d])
                             /\ desired[d].key = <<rows[d].conn, conns[rows[d].conn]>>
    BY <1>0 DEF ReloadInv, StoreInv
  <2>3. \A d \in DOMAIN newRt : /\ d \in DOMAIN desired /\ newRt[d].sig = desired[d].sig
                                /\ d \notin moved => newRt[d].key = desired[d].key
    BY DEF ReloadInv, PlanInv
  <2>4. \A d \in DOMAIN desired : d \in DOMAIN newRt \/ d \in failed
    BY <1>0 DEF ReloadInv, ServedInv
  <2> QED BY <1>0, <2>1, <2>2, <2>3, <2>4 DEF Follows, history, storeVars
<1> QED BY <1>2, <1>3, <1>4, <1>5, <1>6 DEF ReloadInv

LEMMA ReloadInvStep == ReloadInv /\ [Next]_vars => ReloadInv'
<1> SUFFICES ASSUME ReloadInv, [Next]_vars PROVE ReloadInv'
  OBVIOUS
<1> USE DEF deviceVars, planVars, storeVars, history
<1>1. CASE UNCHANGED vars
  <2>1. UNCHANGED <<deviceVars, desired, groups, failed, reopened, moved, twice, pc>>
    BY <1>1 DEF vars
  <2>2. (ShapeInv /\ PlanInv /\ ServedInv /\ LiveInv /\ TableInv /\ CarriedInv)'
    BY <2>1, DevicesLeftAlone DEF InReload
  <2>3. StoreInv' /\ PanicInv'
    BY <1>1 DEF ReloadInv, StoreInv, PanicInv, vars, Follows, Wanted, Collected, NewOf, Running
  <2> QED BY <2>2, <2>3 DEF ReloadInv
<1>2. CASE Edit
  <2>1. /\ UNCHANGED <<deviceVars, desired, groups, failed, reopened, moved, twice, pc>>
        /\ changed' = TRUE
    BY <1>2 DEF Edit, SaveDevice, DeleteDevice, SaveConnection, DeleteConnection, SaveOther, Edited,
                Notify
  <2>2. (ShapeInv /\ PlanInv /\ ServedInv /\ LiveInv /\ TableInv /\ CarriedInv)'
    BY <2>1, DevicesLeftAlone DEF InReload
  <2>3. StoreInv' /\ PanicInv'
    BY <2>1 DEF ReloadInv, StoreInv, PanicInv, NewOf, Running
  <2> QED BY <2>2, <2>3 DEF ReloadInv
<1>3. CASE ReceiveChange \/ ListDevices \/ ListDevicesFails
  <2>1. /\ UNCHANGED <<deviceVars, desired, groups, failed, reopened, moved, twice>>
        /\ pc \in {"idle", "list"} /\ pc' \in {"list", "build", "idle"}
        /\ pc' = "build" => listed' = rows /\ UNCHANGED rows
        /\ pc' = "idle" => readFailed'
    BY <1>3 DEF ReceiveChange, ListDevices, ListDevicesFails
  <2>2. (ShapeInv /\ PlanInv /\ ServedInv /\ LiveInv /\ TableInv /\ CarriedInv)'
    BY <2>1, DevicesLeftAlone DEF InReload
  <2>3. StoreInv' /\ PanicInv'
    BY <2>1 DEF StoreInv, PanicInv
  <2> QED BY <2>2, <2>3 DEF ReloadInv
<1>4. ASSUME NEW g \in groups, Panic(g) PROVE ReloadInv'
  <2>1. /\ UNCHANGED <<deviceVars, desired, groups, failed, reopened, moved, twice>>
        /\ pc = "reconcile" /\ pc' = "panicked"
    BY <1>4 DEF Panic, Pending
  <2>2. (ShapeInv /\ PlanInv /\ ServedInv /\ LiveInv /\ TableInv /\ CarriedInv)'
    BY <2>1, DevicesLeftAlone DEF InReload
  <2>3. PICK d \in Updated(g) : ~Polls(runtimes[d].key) /\ ~GroupRestarts(g)
    BY <1>4 DEF Panic, NilJob
  <2>4. d \in NewOf(g) /\ d \in DOMAIN runtimes /\ runtimes[d].sig # desired[d].sig
    BY DEF Updated, Kept
  <2>5. runtimes[d].key # g
    BY <2>3, <2>4 DEF GroupRestarts, OldOf
  <2>6. PanicInv'
    BY <2>1, <2>4, <2>5 DEF PanicInv, NewOf, Running
  <2>7. StoreInv'
    BY <2>1 DEF StoreInv
  <2> QED BY <2>2, <2>6, <2>7 DEF ReloadInv
<1> QED BY <1>1, <1>2, <1>3, <1>4, BuildStep, ReconcileStep, FinishStep DEF Next, Reload

LEMMA ReloadInvariant == Spec => []ReloadInv
<1>1. Init => ReloadInv
  <2> SUFFICES ASSUME Init PROVE ReloadInv
    OBVIOUS
  <2>1. /\ pc = "list" /\ newRt = Empty /\ runtimes = Empty /\ desired = Empty /\ byID = Empty
        /\ live = {} /\ twice = {} /\ opens = [d \in Devices |-> 0] /\ DOMAIN Empty = {}
    BY EmptyFunction DEF Init
  <2>2. \A d : ~Untouched(d)
    BY <2>1 DEF Untouched
  <2>3. ShapeInv
    BY <2>1 DEF ShapeInv, Runtimes
  <2>4. PlanInv /\ ServedInv /\ StoreInv /\ PanicInv /\ CarriedInv
    BY <2>1 DEF PlanInv, ServedInv, StoreInv, PanicInv, CarriedInv
  <2>5. LiveInv /\ TableInv
    BY <2>1, <2>2 DEF LiveInv, TableInv
  <2> QED BY <2>3, <2>4, <2>5 DEF ReloadInv
<1> QED BY <1>1, ReloadInvStep, PTL DEF Spec

-----------------------------------------------------------------------------
(* The results.                                                               *)

(* Between reloads every running device of a polling connection has the job that reads  *)
(* its own connection and points, no job of another device survives, and a panic needs  *)
(* a device that moved between connections (pollsched.go schedule and remove, as        *)
(* scheduler.go openDevice, updatePollDevice and stopDevice call them).                 *)
THEOREM TableFollows == Spec => []TableFollowsRuntimes
<1>1. ReloadInv => TableFollowsRuntimes
  <2> SUFFICES ASSUME ReloadInv PROVE TableFollowsRuntimes
    OBVIOUS
  <2>1. Idle => newRt = Empty /\ DOMAIN Empty = {}
    BY EmptyFunction DEF ReloadInv, ShapeInv, Idle
  <2>2. Idle => \A d : Untouched(d) <=> d \in DOMAIN runtimes
    BY DEF Idle, Untouched, InReload
  <2>3. DOMAIN runtimes \subseteq Devices
    BY DEF ReloadInv, ShapeInv, Runtimes
  <2>4. Idle => \A d \in DOMAIN runtimes \ (reopened \cup moved) :
                   Polls(runtimes[d].key) => Scheduled(d)
    BY <2>2, <2>3 DEF ReloadInv, TableInv, HasJob, Scheduled
  <2>5. Idle => \A d \in DOMAIN byID : Running(d) /\ byID[d] = runtimes[d].n
    BY <2>1, <2>2 DEF ReloadInv, TableInv, OwnsJob, Running
  <2> QED BY <2>4, <2>5 DEF TableFollowsRuntimes, ReloadInv, PanicInv
<1> QED BY <1>1, ReloadInvariant, PTL

(* Between reloads the open connections are those of the running devices, and none is   *)
(* closed twice, but for devices moved between connections (scheduler.go stopDevice,    *)
(* openDevice and the failures of openGroup).                                           *)
THEOREM ConnectionsAreOwned == Spec => []ConnectionsOwned
<1>1. ReloadInv => ConnectionsOwned
  <2> SUFFICES ASSUME ReloadInv PROVE ConnectionsOwned
    OBVIOUS
  <2>1. Idle => newRt = Empty /\ DOMAIN Empty = {}
    BY EmptyFunction DEF ReloadInv, ShapeInv, Idle
  <2>2. Idle => \A d : Untouched(d) <=> d \in DOMAIN runtimes
    BY DEF Idle, Untouched, InReload
  <2>3. DOMAIN runtimes \subseteq Devices
    BY DEF ReloadInv, ShapeInv, Runtimes
  <2>4. Idle => \A c \in live : Running(c[1]) /\ c[2] = runtimes[c[1]].n
    BY <2>1, <2>2 DEF ReloadInv, LiveInv, Running
  <2>5. Idle => \A d \in DOMAIN runtimes \ moved : <<d, runtimes[d].n>> \in live
    BY <2>2, <2>3 DEF ReloadInv, LiveInv
  <2> QED BY <2>4, <2>5 DEF ConnectionsOwned, ReloadInv, LiveInv
<1> QED BY <1>1, ReloadInvariant, PTL

(* When no signal waits and the last reload could read the store, what runs is what is  *)
(* stored: the signal of the store (sqlite.go notify) and Scheduler.Run lose no edit,   *)
(* at whatever step of a reload it was made.                                            *)
THEOREM NoEditIsLost == Spec => []ReflectsStore
<1>1. ReloadInv => ReflectsStore
  BY DEF ReloadInv, StoreInv, Follows, Wanted, ReflectsStore, Idle
<1> QED BY <1>1, ReloadInvariant, PTL

LEMMA ReconcileLeavesUnchanged ==
    ASSUME ReloadInv, NEW g, ReconcileGroup(g), NEW d \in DOMAIN runtimes, Unchanged(d)
    PROVE  /\ <<d, runtimes[d].n>> \in live => <<d, runtimes[d].n>> \in live'
           /\ d \in DOMAIN byID => d \in DOMAIN byID' /\ byID'[d] = byID[d]
           /\ runtimes'[d] = runtimes[d]
<1>1. PICK keep, upd, open, stop : Reconciled(g, keep, upd, open, stop)
  BY GroupIsReconciled DEF ReloadInv
<1>2. /\ EffectOnRuntimes(g, keep, upd, open, stop) /\ EffectOnConns(open, stop)
      /\ EffectOnTable(g, keep, upd, open, stop) /\ Treats(g, keep, upd, open, stop)
  BY <1>1 DEF Reconciled, Effect
<1>3. d \notin upd /\ d \notin open /\ d \notin stop
  <2>1. CASE runtimes[d].key = g
    BY <1>2, <2>1 DEF Treats
  <2>2. CASE runtimes[d].key # g
    <3>1. d \notin NewOf(g) /\ d \notin OldOf(g)
      BY <2>2 DEF Unchanged, NewOf, OldOf
    <3> QED BY <1>2, <3>1 DEF Treats
  <2> QED BY <2>1, <2>2
<1>4. <<d, runtimes[d].n>> \in live => <<d, runtimes[d].n>> \in live'
  BY <1>2, <1>3 DEF EffectOnConns
<1>5. d \in DOMAIN byID => d \in DOMAIN byID' /\ byID'[d] = byID[d]
  BY <1>2, <1>3 DEF EffectOnTable, Fresh
<1>6. runtimes'[d] = runtimes[d]
  BY <1>2, <1>3 DEF EffectOnRuntimes
<1> QED BY <1>4, <1>5, <1>6

(* No step of a reload disturbs a device whose own configuration and connection are as  *)
(* they were, unless it pushes and its group restarts: its connection stays open, its   *)
(* job stays in the table, and it is carried over as it was (scheduler.go reconcile).   *)
THEOREM UnchangedAreLeftAlone == Spec => LeavesUnchangedAlone
<1> DEFINE Alone(d) ==
             /\ <<d, runtimes[d].n>> \in live => <<d, runtimes[d].n>> \in live'
             /\ d \in DOMAIN byID => d \in DOMAIN byID' /\ byID'[d] = byID[d]
             /\ d \in DOMAIN runtimes' => runtimes'[d] = runtimes[d]
           Step == \A d \in DOMAIN runtimes \cap DOMAIN desired :
                      LET rt == runtimes[d]
                          same == desired[d] = [key |-> rt.key, sig |-> rt.sig]
                      IN  pc = "reconcile" /\ same /\ ~GroupRestarts(rt.key) =>
                            /\ <<d, rt.n>> \in live => <<d, rt.n>> \in live'
                            /\ d \in DOMAIN byID => d \in DOMAIN byID' /\ byID'[d] = byID[d]
                            /\ d \in DOMAIN runtimes' => runtimes'[d] = rt
<1>1. ReloadInv /\ [Next]_vars => Step
  <2> SUFFICES ASSUME ReloadInv, [Next]_vars,
                      NEW d \in DOMAIN runtimes, Unchanged(d), pc = "reconcile"
               PROVE  Alone(d)
    BY DEF Unchanged
  <2>1. CASE UNCHANGED deviceVars
    BY <2>1 DEF deviceVars
  <2>2. CASE FinishReload
    <3>1. UNCHANGED <<live, byID>> /\ runtimes' = newRt
      BY <2>2 DEF FinishReload, Installed
    <3> QED BY <3>1 DEF ReloadInv, CarriedInv
  <2>3. ASSUME NEW g \in groups, ReconcileGroup(g) PROVE Alone(d)
    BY <2>3, ReconcileLeavesUnchanged
  <2>4. UNCHANGED vars \/ Edit \/ (\E g \in groups : Panic(g)) => UNCHANGED deviceVars
    BY DEF vars, Edit, SaveDevice, DeleteDevice, SaveConnection, DeleteConnection, SaveOther,
           Edited, Panic
  <2>5. ~ReceiveChange /\ ~ListDevices /\ ~ListDevicesFails /\ ~BuildDesired
    BY DEF ReceiveChange, ListDevices, ListDevicesFails, BuildDesired
  <2> QED BY <2>1, <2>2, <2>3, <2>4, <2>5 DEF Next, Reload
<1>2. ReloadInv /\ [Next]_vars => [Step]_vars
  BY <1>1
<1> QED BY <1>2, ReloadInvariant, PTL DEF Spec, LeavesUnchangedAlone
=============================================================================

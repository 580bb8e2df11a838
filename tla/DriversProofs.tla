---------------------------- MODULE DriversProofs ----------------------------
(* The shared connections, for any number of devices, one-shot users, workers, *)
(* links and configurations: types, the pool as an implementation of           *)
(* SharedPool, the line of the Modbus driver, what a restart leaves behind and *)
(* where notifications go.                                                     *)
EXTENDS Drivers, FiniteSetTheorems, TLAPS

Asking == Workers \cup Users

HoldersOn == {h \in Holders : conn[h] # None}

(* Who holds: a user between its open and its close; no device that is to be opened, *)
(* except those a restart stops first; and only devices that hold are registered.    *)
CallerInv ==
    /\ \A u \in Users : conn[u] # None <=> user[u].pc \in {"open", "done"}
    /\ reload.open \cap Opened \subseteq IF reload.late THEN {} ELSE reload.stop
    /\ reload.stop \subseteq Opened
    /\ reload.register \subseteq Opened \ (reload.open \cup reload.stop)
    /\ kind # "modbus" /\ reload.late /\ reload.open # {} => reload.stop = {}
    /\ ~reload.on => reload = Idle

(* Everybody holds the pool's entry, which counts them. *)
PoolInv ==
    /\ \A h \in Holders : conn[h] # None => conn[h] = pool
    /\ IsFiniteSet(HoldersOn)
    /\ pool = None => HoldersOn = {}
    /\ pool # None => HoldersOn # {} /\ ref[pool] = Cardinality(HoldersOn)

(* At most one link is open: the pool's, or the one a Close that waits will close, and *)
(* nobody opens another meanwhile.                                                     *)
LinkInv ==
    /\ kind # "opcua" => mu = None
    /\ mu # None => pool = None
    /\ kind # "listen" =>
          /\ pool # None => link[pool] = "open"
          /\ \A l \in Links : link[l] = "open" => l = pool \/ mu # None
          /\ \A l, k \in Links : link[l] = "open" /\ link[k] = "open" => l = k

-----------------------------------------------------------------------------
(* The pool's steps.                                                         *)

LEMMA JoinKeeps ==
    ASSUME PoolTypes, PoolInv, NEW h \in Holders, conn[h] = None, Join(h)
    PROVE  PoolInv' /\ pool # None /\ ref' \in [Links -> Nat]
<1>1. pool \in Links /\ pool # None /\ pool' = pool
  BY DEF Join, PoolTypes
<1>2. HoldersOn' = HoldersOn \cup {h} /\ h \notin HoldersOn
  BY <1>1 DEF Join, HoldersOn, PoolTypes
<1>3. IsFiniteSet(HoldersOn') /\ Cardinality(HoldersOn') = Cardinality(HoldersOn) + 1
  BY <1>2, FS_AddElement DEF PoolInv
<1>4. Cardinality(HoldersOn) \in Nat
  BY FS_CardinalityType DEF PoolInv
<1>5. ref'[pool] = ref[pool] + 1 /\ ref' \in [Links -> Nat]
  BY <1>1 DEF Join, PoolTypes
<1>6. \A g \in Holders : conn'[g] # None => conn'[g] = pool
  BY <1>1 DEF Join, PoolTypes, PoolInv
<1> QED BY <1>1, <1>2, <1>3, <1>4, <1>5, <1>6 DEF PoolInv

LEMMA MakeKeeps ==
    ASSUME PoolTypes, PoolInv, NEW h \in Holders, NEW cfg, NEW state, Make(h, cfg, state)
    PROVE  /\ PoolInv'
           /\ pool' \in Links /\ Unused(pool')
           /\ ref' = [ref EXCEPT ![pool'] = 1]
           /\ built' = [built EXCEPT ![pool'] = cfg]
           /\ link' = [link EXCEPT ![pool'] = state]
           /\ conn' = [conn EXCEPT ![h] = pool']
           /\ target' = [target EXCEPT ![pool'] = <<>>]
           /\ item' = [item EXCEPT ![pool'] = {}]
           /\ next' = [next EXCEPT ![pool'] = 0]
           /\ stop' = [stop EXCEPT ![pool'] = FALSE]
           /\ sub' = [sub EXCEPT ![pool'] = "none"]
<1>1. PICK l \in Links : Unused(l) /\ l = CHOOSE k \in Links : Unused(k)
  BY DEF Make
<1>2. pool' = l /\ pool = None /\ l # None
  BY <1>1, DriversAssumption DEF Make
<1>3. HoldersOn = {}
  BY <1>2 DEF PoolInv
<1>4. conn' = [conn EXCEPT ![h] = l] /\ ref' = [ref EXCEPT ![l] = 1]
  BY <1>1 DEF Make, First
<1>5. HoldersOn' = {h}
  BY <1>2, <1>3, <1>4 DEF HoldersOn, PoolTypes
<1>6. IsFiniteSet(HoldersOn') /\ Cardinality(HoldersOn') = 1
  BY <1>5, FS_Singleton
<1>7. PoolInv'
  BY <1>2, <1>3, <1>4, <1>5, <1>6 DEF PoolInv, PoolTypes, HoldersOn
<1> QED BY <1>1, <1>2, <1>4, <1>7 DEF Make

LEMMA LeaveKeeps ==
    ASSUME PoolTypes, PoolInv, NEW h \in Holders, Leave(h),
           pool' = IF LastOf(conn[h]) THEN None ELSE pool
    PROVE  /\ PoolInv'
           /\ conn[h] = pool /\ pool \in Links
           /\ ref' \in [Links -> Nat]
           /\ HoldersOn' = HoldersOn \ {h}
           /\ LastOf(pool) <=> HoldersOn' = {}
<1>1. conn[h] = pool /\ pool \in Links /\ pool # None
  BY DriversAssumption DEF Leave, PoolTypes, PoolInv
<1>2. HoldersOn' = HoldersOn \ {h} /\ h \in HoldersOn
  BY <1>1 DEF Leave, HoldersOn, PoolTypes
<1>3. /\ IsFiniteSet(HoldersOn')
      /\ Cardinality(HoldersOn') = Cardinality(HoldersOn) - 1
  BY <1>2, FS_RemoveElement DEF PoolInv
<1>4. Cardinality(HoldersOn) \in Nat /\ Cardinality(HoldersOn') \in Nat
  BY <1>3, FS_CardinalityType DEF PoolInv
<1>5. ref[pool] = Cardinality(HoldersOn)
  BY <1>1 DEF PoolInv
<1>6. ref'[pool] = Cardinality(HoldersOn') /\ ref' \in [Links -> Nat]
  BY <1>1, <1>3, <1>4, <1>5 DEF Leave, PoolTypes
<1>7. Cardinality(HoldersOn') = 0 <=> HoldersOn' = {}
  BY <1>3, FS_EmptySet
<1>8. LastOf(pool) <=> HoldersOn' = {}
  BY <1>3, <1>4, <1>5, <1>7 DEF LastOf
<1>9. \A g \in Holders : conn'[g] # None => conn'[g] = pool /\ g \in HoldersOn'
  BY <1>1 DEF Leave, PoolTypes, PoolInv, HoldersOn
<1> QED BY <1>1, <1>2, <1>3, <1>6, <1>8, <1>9 DEF PoolInv

(* acquire gives the holder the pool's entry, and keeps at most one link open. *)
LEMMA AcquireKeeps ==
    ASSUME TypeOK, PoolInv, LinkInv, UNCHANGED kind, NEW h \in Holders, conn[h] = None,
           NEW cfg \in Configs, Acquire(h, cfg)
    PROVE  /\ PoolInv' /\ LinkInv'
           /\ pool' \in Links /\ conn' = [conn EXCEPT ![h] = pool']
           /\ pool # None => pool' = pool
<1>1. CASE Join(h)
  <2>1. PoolInv' /\ pool # None
    BY <1>1, JoinKeeps DEF TypeOK
  <2>2. pool' = pool /\ UNCHANGED <<link, mu>> /\ conn' = [conn EXCEPT ![h] = pool]
    BY <1>1 DEF Join, Acquire
  <2> QED BY <2>1, <2>2 DEF LinkInv, TypeOK, PoolTypes
<1>2. ASSUME NEW state \in {"open", "none"}, Make(h, cfg, state),
             kind # "listen" => state = "open" /\ mu = None
      PROVE  /\ PoolInv' /\ LinkInv'
             /\ pool' \in Links /\ conn' = [conn EXCEPT ![h] = pool']
  <2>1. /\ PoolInv' /\ pool' \in Links
        /\ link' = [link EXCEPT ![pool'] = state]
        /\ conn' = [conn EXCEPT ![h] = pool']
    BY <1>2, MakeKeeps DEF TypeOK
  <2>2. pool = None /\ UNCHANGED mu
    BY <1>2 DEF Make, Acquire
  <2>3. kind = "opcua" => mu = None
    BY <1>2
  <2>4. LinkInv'
    BY <1>2, <2>1, <2>2, <2>3, DriversAssumption DEF LinkInv, TypeOK, PoolTypes
  <2> QED BY <2>1, <2>4
<1>3. ~Join(h) => pool = None
  BY DEF Acquire, AcquireModbus, AcquireOpcua, AcquireListen, Make
<1>4. \/ Join(h)
      \/ kind # "listen" /\ mu = None /\ Make(h, cfg, "open")
      \/ kind = "listen" /\ Make(h, cfg, "none")
  BY DEF Acquire, AcquireModbus, AcquireOpcua, AcquireListen, LinkInv
<1> QED BY <1>1, <1>2, <1>3, <1>4

(* Close takes one holder off, and the last one closes the link or waits to. *)
LEMMA ReleaseKeeps ==
    ASSUME TypeOK, PoolInv, LinkInv, UNCHANGED kind, NEW h \in Holders, Release(h)
    PROVE  /\ PoolInv' /\ LinkInv'
           /\ conn[h] = pool /\ pool \in Links
           /\ conn' = [conn EXCEPT ![h] = None]
           /\ ref' \in [Links -> Nat]
           /\ pool' = IF LastOf(pool) THEN None ELSE pool
           /\ LastOf(pool) <=> HoldersOn' = {}
           /\ mu' \in {mu, h}
           /\ link' \in {link, [link EXCEPT ![pool] = "closed"]}
<1>1. Leave(h) /\ pool' = IF LastOf(conn[h]) THEN None ELSE pool
  BY DEF Release, ReleaseModbus, ReleaseOpcua, ReleaseListen
<1>2. /\ PoolInv'
      /\ conn[h] = pool /\ pool \in Links
      /\ ref' \in [Links -> Nat]
      /\ HoldersOn' = HoldersOn \ {h}
      /\ LastOf(pool) <=> HoldersOn' = {}
  BY <1>1, LeaveKeeps DEF TypeOK
<1>3. mu' \in {mu, h}
  BY DEF Release, ReleaseModbus, ReleaseOpcua, ReleaseListen
<1>4. link' \in {link, [link EXCEPT ![pool] = "closed"]}
  BY <1>2 DEF Release, ReleaseModbus, ReleaseOpcua, ReleaseListen
<1>5. LinkInv'
  <2>1. link \in [Links -> {"none", "open", "closed", "stray"}] /\ pool # None
    BY <1>2, DriversAssumption DEF TypeOK, PoolTypes
  <2>2. CASE ReleaseModbus(h)
    BY <1>2, <2>1, <2>2 DEF ReleaseModbus, LinkInv
  <2>3. CASE ReleaseOpcua(h)
    <3>1. CASE LastOf(pool)
      <4>1. pool' = None /\ \/ mu' = h /\ link' = link
                            \/ mu' = None /\ link' = [link EXCEPT ![pool] = "closed"]
        BY <1>2, <2>3, <3>1 DEF ReleaseOpcua
      <4>2. h # None /\ kind = "opcua" /\ mu = None
        BY <2>3, DriversAssumption DEF ReleaseOpcua
      <4> QED BY <2>1, <4>1, <4>2 DEF LinkInv
    <3>2. CASE ~LastOf(pool)
      BY <1>2, <2>3, <3>2 DEF ReleaseOpcua, LinkInv
    <3> QED BY <3>1, <3>2
  <2>4. CASE ReleaseListen(h)
    BY <1>2, <2>4 DEF ReleaseListen, LinkInv
  <2> QED BY <2>2, <2>3, <2>4 DEF Release
<1> QED BY <1>1, <1>2, <1>3, <1>4, <1>5 DEF Leave

-----------------------------------------------------------------------------
(* Types.                                                                    *)

LEMMA AcquireTypes ==
    ASSUME TypeOK, PoolInv, NEW h \in Holders, conn[h] = None, NEW cfg \in Configs,
           Acquire(h, cfg), survived' \in BOOLEAN
    PROVE  PoolTypes' /\ PushTypes'
<1>1. CASE Join(h)
  <2>1. ref' \in [Links -> Nat] /\ pool \in Links
    BY <1>1, JoinKeeps DEF TypeOK, PoolTypes
  <2> QED
    BY <1>1, <2>1 DEF Join, Acquire, TypeOK, PoolTypes, PushTypes, TargetTypes
<1>2. ASSUME NEW state \in {"open", "none"}, Make(h, cfg, state)
      PROVE  PoolTypes' /\ PushTypes'
  <2>1. /\ pool' \in Links
        /\ ref' = [ref EXCEPT ![pool'] = 1]
        /\ built' = [built EXCEPT ![pool'] = cfg]
        /\ link' = [link EXCEPT ![pool'] = state]
        /\ conn' = [conn EXCEPT ![h] = pool']
        /\ target' = [target EXCEPT ![pool'] = <<>>]
        /\ item' = [item EXCEPT ![pool'] = {}]
        /\ next' = [next EXCEPT ![pool'] = 0]
        /\ stop' = [stop EXCEPT ![pool'] = FALSE]
        /\ sub' = [sub EXCEPT ![pool'] = "none"]
    BY <1>2, MakeKeeps DEF TypeOK
  <2>2. PoolTypes'
    BY <2>1 DEF TypeOK, PoolTypes
  <2>3. TargetTypes'
    <3>1. DOMAIN <<>> = {}
      OBVIOUS
    <3> QED BY <2>1, <3>1 DEF TypeOK, PushTypes, TargetTypes
  <2> QED BY <2>1, <2>2, <2>3 DEF Acquire, TypeOK, PushTypes
<1> QED
  BY <1>1, <1>2 DEF Acquire, AcquireModbus, AcquireOpcua, AcquireListen

LEMMA ReleaseTypes ==
    ASSUME TypeOK, PoolInv, LinkInv, UNCHANGED kind, NEW h \in Holders, Release(h)
    PROVE  PoolTypes' /\ PushTypes'
<1>1. Leave(h)
  BY DEF Release, ReleaseModbus, ReleaseOpcua, ReleaseListen
<1>2. /\ conn[h] = pool /\ pool \in Links
      /\ conn' = [conn EXCEPT ![h] = None]
      /\ ref' \in [Links -> Nat]
      /\ pool' \in {None, pool}
      /\ mu' \in {mu, h}
      /\ link' \in {link, [link EXCEPT ![pool] = "closed"]}
  BY ReleaseKeeps
<1>3. PoolTypes'
  BY <1>1, <1>2 DEF Leave, TypeOK, PoolTypes
<1>4. TargetTypes'
  <2>1. target' = [target EXCEPT ![pool] = Disowned(target[pool], h)]
    BY <1>1, <1>2 DEF Leave
  <2>2. \A k \in DOMAIN target[pool] :
           Disowned(target[pool], h)[k] \in [device : Devices, state : {"on", "gone", "refused"}]
    <3> TAKE k \in DOMAIN target[pool]
    <3>1. target[pool][k] \in [device : Devices, state : {"on", "gone", "refused"}]
      BY <1>2 DEF TypeOK, PushTypes, TargetTypes
    <3>2. CASE target[pool][k] = [device |-> h, state |-> "on"]
      <4>1. h \in Devices
        BY <3>1, <3>2
      <4> QED BY <3>2, <4>1 DEF Disowned
    <3>3. CASE target[pool][k] # [device |-> h, state |-> "on"]
      BY <3>1, <3>3 DEF Disowned
    <3> QED BY <3>2, <3>3
  <2>3. DOMAIN Disowned(target[pool], h) = DOMAIN target[pool]
    BY DEF Disowned
  <2> QED BY <1>2, <2>1, <2>2, <2>3 DEF TypeOK, PushTypes, TargetTypes
<1>5. stop' \in [Links -> BOOLEAN] /\ sub' = sub
  BY <1>2 DEF Release, ReleaseModbus, ReleaseOpcua, ReleaseListen, Cancels, TypeOK, PushTypes
<1> QED BY <1>1, <1>2, <1>3, <1>4, <1>5 DEF Leave, TypeOK, PushTypes

(* The device that is opened, and the user that opens, hold nothing yet. *)
LEMMA OpensUnheld ==
    ASSUME TypeOK, CallerInv, NEW d \in Devices, OpenDevice(d)
    PROVE  conn[d] = None /\ d \notin reload.stop
BY DEF OpenDevice, CallerInv, Opened

LEMMA EditTypes ==
    ASSUME TypeOK, NEW row \in [config : Configs, devices : SUBSET Devices], Edit(row)
    PROVE  TypeOK'
<1>1. edits' \in 0..MaxEdits
  BY DriversAssumption DEF Edit, TypeOK, CallerTypes
<1>2. CallerTypes'
  BY <1>1 DEF Edit, TypeOK, CallerTypes
<1> QED
  BY <1>2
  DEF Edit, TypeOK, PoolTypes, BusTypes, PushTypes, TargetTypes, poolVars, busVars, pushVars

LEMMA SavesType == TypeOK /\ (SaveConnection \/ SaveDevice \/ DeleteDevice) => TypeOK'
<1> SUFFICES ASSUME TypeOK, SaveConnection \/ SaveDevice \/ DeleteDevice PROVE TypeOK'
  OBVIOUS
<1>1. PICK row \in [config : Configs, devices : SUBSET Devices] : Edit(row)
  <2>1. stored \in [config : Configs, devices : SUBSET Devices]
    BY DEF TypeOK, CallerTypes
  <2>2. \A cfg \in Configs :
          [stored EXCEPT !.config = cfg] \in [config : Configs, devices : SUBSET Devices]
    BY <2>1
  <2>3. \A d \in Devices :
          /\ [stored EXCEPT !.devices = @ \cup {d}] \in [config : Configs, devices : SUBSET Devices]
          /\ [stored EXCEPT !.devices = @ \ {d}] \in [config : Configs, devices : SUBSET Devices]
    BY <2>1
  <2>4. stored.devices \subseteq Devices
    BY <2>1
  <2> QED BY <2>2, <2>3, <2>4 DEF SaveConnection, SaveDevice, DeleteDevice
<1> QED BY <1>1, EditTypes

ReloadRecord ==
    [on : BOOLEAN, stop : SUBSET Devices, open : SUBSET Devices, register : SUBSET Devices,
     late : BOOLEAN]

LEMMA SchedulerCallerTypes ==
    ASSUME TypeOK, reload' \in ReloadRecord, UNCHANGED <<stored, known, user, edits>>
    PROVE  CallerTypes'
BY DEF TypeOK, CallerTypes, ReloadRecord

LEMMA RegisteredType ==
    ASSUME TypeOK, NEW d \in Devices, Registered(d) \/ Refused(d)
    PROVE  reload' \in ReloadRecord
<1>1. reload \in ReloadRecord
  BY DEF TypeOK, CallerTypes, ReloadRecord
<1>2. CASE Registered(d)
  BY <1>1, <1>2 DEF Registered, ReloadRecord
<1>3. CASE Refused(d)
  BY <1>1, <1>3 DEF Refused, ReloadRecord
<1> QED BY <1>2, <1>3

(* The steps of the reload. *)
LEMMA ReloadTypes ==
    ASSUME TypeOK, CallerInv, PoolInv, LinkInv,
           \/ ReloadBegins \/ ReloadEnds
           \/ \E d \in Devices : StopDevice(d) \/ OpenDevice(d) \/ Schedule(d)
    PROVE  TypeOK'
<1>0. reload \in ReloadRecord /\ Idle \in ReloadRecord
  BY DEF TypeOK, CallerTypes, ReloadRecord, Idle
<1> USE DEF poolVars, busVars, pushVars
<1>1. CASE ReloadBegins
  <2>1. stored.devices \subseteq Devices /\ Opened \subseteq Devices
    BY DEF TypeOK, CallerTypes, Opened
  <2>2. reload' \in ReloadRecord
    BY <1>0, <1>1, <2>1 DEF ReloadBegins, ReloadRecord, Idle
  <2>3. CallerTypes'
    BY <1>1, <2>2 DEF ReloadBegins, TypeOK, CallerTypes, ReloadRecord
  <2> QED
    BY <1>1, <2>3 DEF ReloadBegins, TypeOK, PoolTypes, BusTypes, PushTypes, TargetTypes
<1>2. CASE ReloadEnds
  <2>1. CallerTypes'
    BY <1>0, <1>2, SchedulerCallerTypes DEF ReloadEnds
  <2> QED BY <1>2, <2>1 DEF ReloadEnds, TypeOK, PoolTypes, BusTypes, PushTypes, TargetTypes
<1>3. ASSUME NEW d \in Devices, StopDevice(d) PROVE TypeOK'
  <2>1. reload' \in ReloadRecord
    BY <1>0, <1>3 DEF StopDevice, ReloadRecord
  <2>2. CallerTypes'
    BY <1>3, <2>1, SchedulerCallerTypes DEF StopDevice
  <2>3. PoolTypes' /\ PushTypes'
    BY <1>3, ReleaseTypes DEF StopDevice, Holders
  <2> QED BY <1>3, <2>2, <2>3 DEF StopDevice, TypeOK, BusTypes
<1>4. ASSUME NEW d \in Devices, OpenDevice(d) PROVE TypeOK'
  <2>1. reload' \in ReloadRecord
    <3>1. reload' = [reload EXCEPT !.open = @ \ {d}, !.register = @ \cup {d}]
          \/ reload' = [reload EXCEPT !.open = @ \ {d}]
      BY <1>4 DEF OpenDevice
    <3>2. CASE reload' = [reload EXCEPT !.open = @ \ {d}, !.register = @ \cup {d}]
      BY <1>0, <3>2 DEF ReloadRecord
    <3>3. CASE reload' = [reload EXCEPT !.open = @ \ {d}]
      BY <1>0, <3>3 DEF ReloadRecord
    <3> QED BY <3>1, <3>2, <3>3
  <2>2. CallerTypes'
    BY <1>4, <2>1, SchedulerCallerTypes DEF OpenDevice
  <2>3. PoolTypes' /\ PushTypes'
    <3>1. CASE Acquire(d, known.config) /\ survived' = (survived \/ (pool # None /\ Opened = {}))
      <4>1. survived' \in BOOLEAN
        BY <3>1 DEF TypeOK, PoolTypes
      <4>2. conn[d] = None /\ known.config \in Configs
        BY <1>4, OpensUnheld DEF TypeOK, CallerTypes
      <4> QED BY <3>1, <4>1, <4>2, AcquireTypes DEF Holders
    <3>2. CASE DialFails
      BY <3>2 DEF DialFails, TypeOK, PoolTypes, PushTypes, TargetTypes
    <3> QED BY <1>4, <3>1, <3>2 DEF OpenDevice
  <2> QED BY <1>4, <2>2, <2>3 DEF OpenDevice, TypeOK, BusTypes
<1>5. ASSUME NEW d \in Devices, Schedule(d) PROVE TypeOK'
  <2>1. CallerTypes'
    BY <1>5, RegisteredType, SchedulerCallerTypes DEF Schedule, Registering
  <2> QED
    BY <1>5, <2>1
    DEF Schedule, Registering, TypeOK, PoolTypes, BusTypes, PushTypes, TargetTypes
<1> QED BY <1>1, <1>2, <1>3, <1>4, <1>5

(* The targets of one link are replaced by well-formed ones. *)
LEMMA TargetReplaced ==
    ASSUME TargetTypes, NEW l \in Links, NEW new,
           target' = [target EXCEPT ![l] = new],
           DOMAIN new \subseteq Nat,
           \A k \in DOMAIN new :
              new[k] \in [device : Devices, state : {"on", "gone", "refused"}]
    PROVE  TargetTypes'
<1>1. DOMAIN target' = Links /\ target'[l] = new /\ \A m \in Links \ {l} : target'[m] = target[m]
  BY DEF TargetTypes
<1> QED BY <1>1 DEF TargetTypes

(* A route or an item's target is well formed, and so are those a link has. *)
LEMMA TargetsAre ==
    ASSUME TargetTypes, NEW l \in Links, NEW d \in Devices, NEW state \in {"on", "refused"}
    PROVE  /\ Target(d, state) \in [device : Devices, state : {"on", "gone", "refused"}]
           /\ DOMAIN target[l] \subseteq Nat
           /\ \A k \in DOMAIN target[l] :
                 target[l][k] \in [device : Devices, state : {"on", "gone", "refused"}]
BY DEF Target, TargetTypes

LEMMA SubscribeTypes ==
    ASSUME TypeOK, CallerInv, PoolInv, NEW d \in Devices, Subscribe(d)
    PROVE  TypeOK'
<1> DEFINE l == conn[d]
<1>1. l \in Links
  BY DriversAssumption DEF Subscribe, Registering, CallerInv, Opened, TypeOK, PoolTypes, Holders
<1>2. CallerTypes'
  <2>1. Registered(d) \/ Refused(d)
    BY DEF Subscribe, SubscribeFails, MonitorAnswers, MonitorRejects, MonitorTimesOut
  <2> QED BY <2>1, RegisteredType, SchedulerCallerTypes DEF Subscribe, Registering
<1>3. UNCHANGED <<kind, poolVars, busVars, mu, peer, hand, stop>>
  BY DEF Subscribe, Registering
<1>4. sub' \in [Links -> {"none", "on", "off"}]
  BY <1>1 DEF Subscribe, SubscribeFails, TypeOK, PushTypes
<1>5. next[l] \in Nat
  BY <1>1 DEF TypeOK, PushTypes
<1>6. TargetTypes'
  <2>1. CASE target' = target
    BY <2>1 DEF TypeOK, PushTypes, TargetTypes
  <2>2. CASE MonitorAnswers(d, l)
    <3>1. PICK state \in {"on", "refused"} :
             target' = [target EXCEPT ![l] =
                          [k \in DOMAIN target[l] \cup {next[l]} |->
                              IF k = next[l] THEN Target(d, state) ELSE target[l][k]]]
      BY <2>2 DEF MonitorAnswers, Handle
    <3>2. TargetTypes
      BY DEF TypeOK, PushTypes
    <3> DEFINE new == [k \in DOMAIN target[l] \cup {next[l]} |->
                         IF k = next[l] THEN Target(d, state) ELSE target[l][k]]
               Row == [device : Devices, state : {"on", "gone", "refused"}]
    <3>3. target' = [target EXCEPT ![l] = new]
      BY <3>1
    <3>4. DOMAIN new = DOMAIN target[l] \cup {next[l]}
      OBVIOUS
    <3>5. \A k \in DOMAIN new : new[k] = IF k = next[l] THEN Target(d, state) ELSE target[l][k]
      OBVIOUS
    <3>6. /\ Target(d, state) \in Row /\ DOMAIN target[l] \subseteq Nat
          /\ \A k \in DOMAIN target[l] : target[l][k] \in Row
      BY <1>1, <3>2, TargetsAre
    <3> HIDE DEF new, Row
    <3>7. DOMAIN new \subseteq Nat
      BY <1>1, <1>5, <3>4, <3>6
    <3>8. \A k \in DOMAIN new : new[k] \in Row
      BY <3>4, <3>5, <3>6
    <3> QED BY <1>1, <3>2, <3>3, <3>7, <3>8, TargetReplaced DEF Row
  <2> QED
    BY <2>1, <2>2 DEF Subscribe, SubscribeFails, MonitorRejects, MonitorTimesOut
<1>7. item' \in [Links -> SUBSET [handle : Nat, device : Devices]]
  <2>1. [handle |-> next[l], device |-> d] \in [handle : Nat, device : Devices]
    BY <1>5
  <2>2. \/ item' = item
        \/ item' = [item EXCEPT ![l] = @ \cup {[handle |-> next[l], device |-> d]}]
    BY DEF Subscribe, SubscribeFails, MonitorAnswers, MonitorRejects, MonitorTimesOut, Handle
  <2> QED BY <1>1, <2>1, <2>2 DEF TypeOK, PushTypes
<1>8. next' \in [Links -> Nat]
  <2>1. next' = next \/ next' = [next EXCEPT ![l] = @ + 1]
    BY DEF Subscribe, SubscribeFails, MonitorAnswers, MonitorRejects, MonitorTimesOut
  <2> QED BY <1>1, <1>5, <2>1 DEF TypeOK, PushTypes
<1>9. lost' \in 0..MaxLost
  <2>1. lost' = lost \/ (lost < MaxLost /\ lost' = lost + 1)
    BY DEF Subscribe, SubscribeFails, MonitorAnswers, MonitorRejects, MonitorTimesOut
  <2> QED BY <2>1, DriversAssumption DEF TypeOK, PushTypes
<1> QED
  BY <1>2, <1>3, <1>4, <1>6, <1>7, <1>8, <1>9
  DEF TypeOK, PoolTypes, BusTypes, PushTypes, poolVars, busVars

LEMMA ListenTypes ==
    ASSUME TypeOK, CallerInv, PoolInv, NEW d \in Devices, Listen(d)
    PROVE  TypeOK'
<1> DEFINE l == conn[d]
<1>1. l \in Links /\ UnitOf[d] \in Nat
  BY DriversAssumption DEF Listen, CallerInv, Opened, TypeOK, PoolTypes, Holders
<1>2. CallerTypes'
  <2>1. Registered(d) \/ Refused(d)
    BY DEF Listen
  <2> QED BY <2>1, RegisteredType, SchedulerCallerTypes DEF Listen
<1>3. TargetTypes'
  <2>1. PICK state \in {"on", "refused"} : Routed(d, l, state)
    BY DEF Listen
  <2>2. TargetTypes
    BY DEF TypeOK, PushTypes
  <2>3. target' = [target EXCEPT ![l] =
                     [k \in DOMAIN target[l] \cup {UnitOf[d]} |->
                         IF k = UnitOf[d] THEN Target(d, state) ELSE target[l][k]]]
    BY <2>1 DEF Routed
  <2> HIDE DEF l
  <2> DEFINE new == [k \in DOMAIN target[l] \cup {UnitOf[d]} |->
                       IF k = UnitOf[d] THEN Target(d, state) ELSE target[l][k]]
             Row == [device : Devices, state : {"on", "gone", "refused"}]
  <2>4. target' = [target EXCEPT ![l] = new]
    BY <2>3
  <2>5. DOMAIN new = DOMAIN target[l] \cup {UnitOf[d]}
    OBVIOUS
  <2>6. \A k \in DOMAIN new : new[k] = IF k = UnitOf[d] THEN Target(d, state) ELSE target[l][k]
    OBVIOUS
  <2>7. /\ Target(d, state) \in Row /\ DOMAIN target[l] \subseteq Nat
        /\ \A k \in DOMAIN target[l] : target[l][k] \in Row
    BY <1>1, <2>2, TargetsAre
  <2> HIDE DEF new, Row
  <2>8. DOMAIN new \subseteq Nat
    BY <1>1, <2>5, <2>7
  <2>9. \A k \in DOMAIN new : new[k] \in Row
    BY <2>5, <2>6, <2>7
  <2> QED BY <1>1, <2>2, <2>4, <2>8, <2>9, TargetReplaced DEF Row
<1>4. link' \in [Links -> {"none", "open", "closed", "stray"}]
  BY <1>1 DEF Listen, TypeOK, PoolTypes
<1> QED
  BY <1>2, <1>3, <1>4 DEF Listen, TypeOK, PoolTypes, BusTypes, PushTypes, busVars

(* The steps of the one-shot users. *)
LEMMA UserTypes ==
    ASSUME TypeOK, CallerInv, PoolInv, LinkInv, UserNext
    PROVE  TypeOK'
<1> USE DEF poolVars, busVars, pushVars
<1>1. PICK u \in Users : GetConnection(u) \/ UserOpens(u) \/ UserAsks(u) \/ UserCloses(u)
  BY DEF UserNext
<1>2. u \in Holders
  BY DEF Holders
<1>3. user \in [Users -> [pc : {"idle", "read", "open", "done"}, config : Configs]]
  BY DEF TypeOK, CallerTypes
<1>4. CallerTypes'
  <2>1. CASE GetConnection(u)
    BY <1>3, <2>1 DEF GetConnection, TypeOK, CallerTypes
  <2>2. CASE ~GetConnection(u)
    <3>1. PICK pc \in {"idle", "open", "done"} : user' = [user EXCEPT ![u].pc = pc]
      BY <1>1, <2>2 DEF UserOpens, UserAsks, UserCloses
    <3>2. user' \in [Users -> [pc : {"idle", "read", "open", "done"}, config : Configs]]
      BY <1>3, <3>1
    <3> QED
      BY <1>1, <2>2, <3>2 DEF UserOpens, UserAsks, UserCloses, TypeOK, CallerTypes
  <2> QED BY <2>1, <2>2
<1>5. CASE GetConnection(u)
  BY <1>4, <1>5 DEF GetConnection, TypeOK, PoolTypes, BusTypes, PushTypes, TargetTypes
<1>6. CASE UserOpens(u)
  <2>1. CASE Acquire(u, user[u].config) /\ UNCHANGED survived
    <3>1. conn[u] = None /\ user[u].config \in Configs /\ survived' \in BOOLEAN
      BY <1>3, <1>6, <2>1 DEF UserOpens, CallerInv, TypeOK, PoolTypes
    <3>2. PoolTypes' /\ PushTypes'
      BY <1>2, <2>1, <3>1, AcquireTypes
    <3> QED BY <1>4, <1>6, <3>2 DEF UserOpens, TypeOK, BusTypes
  <2>2. CASE DialFails
    BY <1>4, <1>6, <2>2
    DEF UserOpens, DialFails, TypeOK, PoolTypes, BusTypes, PushTypes, TargetTypes
  <2> QED BY <1>6, <2>1, <2>2 DEF UserOpens
<1>7. CASE UserAsks(u)
  <2>1. conn[u] \in Links
    BY <1>2, <1>7 DEF UserAsks, CallerInv, TypeOK, PoolTypes
  <2>2. PICK d \in Devices : req' = [req EXCEPT ![u] = Request(conn[u], UnitOf[d])]
    BY <1>7 DEF UserAsks
  <2>3. Request(conn[u], UnitOf[d]) \in Requests
    BY <2>1, DriversAssumption DEF Request, Requests
  <2>4. BusTypes'
    BY <1>7, <2>2, <2>3 DEF UserAsks, TypeOK, BusTypes
  <2> QED BY <1>4, <1>7, <2>4 DEF UserAsks, TypeOK, PoolTypes, PushTypes, TargetTypes
<1>8. CASE UserCloses(u)
  <2>1. PoolTypes' /\ PushTypes'
    BY <1>2, <1>8, ReleaseTypes DEF UserCloses
  <2> QED BY <1>4, <1>8, <2>1 DEF UserCloses, TypeOK, BusTypes
<1> QED BY <1>1, <1>5, <1>6, <1>7, <1>8

(* The requests on the line. *)
LEMMA BusStepTypes == ASSUME TypeOK, BusNext PROVE TypeOK'
<1> USE DEF poolVars, busVars, pushVars, callerVars
<1>1. ASSUME NEW w \in Workers, NEW d \in Devices, FireTask(w, d) PROVE TypeOK'
  <2>1. Request(conn[d], UnitOf[d]) \in Requests
    BY <1>1, DriversAssumption
    DEF FireTask, Request, Requests, TypeOK, PoolTypes, Holders
  <2>2. BusTypes'
    BY <1>1, <2>1 DEF FireTask, TypeOK, BusTypes
  <2> QED
    BY <1>1, <2>2 DEF FireTask, TypeOK, CallerTypes, PoolTypes, PushTypes, TargetTypes
<1>2. ASSUME NEW t \in Asking, SelectUnit(t) PROVE TypeOK'
  <2>1. req[t] \in [link : Links, unit : Nat, selected : BOOLEAN]
    BY <1>2 DEF SelectUnit, TypeOK, BusTypes, Asking, Requests
  <2>2. [req[t] EXCEPT !.selected = TRUE] \in Requests
    BY <2>1 DEF Requests
  <2>3. req' = [req EXCEPT ![t] = [req[t] EXCEPT !.selected = TRUE]]
    BY <1>2 DEF SelectUnit
  <2>4. BusTypes'
    BY <1>2, <2>1, <2>2, <2>3 DEF SelectUnit, TypeOK, BusTypes, Asking
  <2> QED
    BY <1>2, <2>4 DEF SelectUnit, TypeOK, CallerTypes, PoolTypes, PushTypes, TargetTypes
<1>3. ASSUME NEW t \in Asking, Transact(t) PROVE TypeOK'
  <2>1. req[t].link \in Links
    BY <1>3 DEF Transact, TypeOK, BusTypes, Asking, Requests
  <2>2. BusTypes'
    BY <1>3, <2>1 DEF Transact, TypeOK, BusTypes, Requests
  <2>3. link' = link \/ link' = [link EXCEPT ![req[t].link] = "stray"]
    BY <1>3 DEF Transact
  <2>4. link' \in [Links -> {"none", "open", "closed", "stray"}]
    BY <2>1, <2>3 DEF TypeOK, PoolTypes
  <2> QED
    BY <1>3, <2>2, <2>4 DEF Transact, TypeOK, CallerTypes, PoolTypes, PushTypes, TargetTypes
<1> QED BY <1>1, <1>2, <1>3 DEF BusNext, Asking

(* The callbacks, the dispatcher, the peers and the delayed close. *)
LEMMA PushStepTypes == ASSUME TypeOK, PushNext PROVE TypeOK'
<1> USE DEF poolVars, busVars, callerVars
<1>1. CASE ReleaseReturns
  <2>1. link' \in [Links -> {"none", "open", "closed", "stray"}] /\ mu' = None
    BY <1>1 DEF ReleaseReturns, TypeOK, PoolTypes
  <2> QED
    BY <1>1, <2>1
    DEF ReleaseReturns, TypeOK, CallerTypes, PoolTypes, BusTypes, PushTypes, TargetTypes
<1>2. ASSUME NEW l \in Links, Notify(l) PROVE TypeOK'
  <2>1. PICK i \in item[l] : hand' = [hand EXCEPT ![l] = [key |-> i.handle, about |-> i.device]]
    BY <1>2 DEF Notify
  <2>2. [key |-> i.handle, about |-> i.device] \in [key : Nat, about : Devices]
    BY DEF TypeOK, PushTypes
  <2>3. hand' \in [Links -> {None} \cup [key : Nat, about : Devices]]
    BY <2>1, <2>2 DEF TypeOK, PushTypes
  <2> QED
    BY <1>2, <2>3 DEF Notify, TypeOK, CallerTypes, PoolTypes, BusTypes, PushTypes, TargetTypes
<1>3. ASSUME NEW l \in Links, Frame(l) PROVE TypeOK'
  <2>1. PICK k \in DOMAIN target[l] :
           hand' = [hand EXCEPT ![l] = [key |-> k, about |-> target[l][k].device]]
    BY <1>3 DEF Frame
  <2>2. [key |-> k, about |-> target[l][k].device] \in [key : Nat, about : Devices]
    BY DEF TypeOK, PushTypes, TargetTypes
  <2>3. hand' \in [Links -> {None} \cup [key : Nat, about : Devices]]
    BY <2>1, <2>2 DEF TypeOK, PushTypes
  <2> QED
    BY <1>3, <2>3 DEF Frame, TypeOK, CallerTypes, PoolTypes, BusTypes, PushTypes, TargetTypes
<1>4. ASSUME NEW l \in Links, Callback(l) \/ DispatchExits(l) \/ Accept(l) \/ PeerLeaves(l)
      PROVE  TypeOK'
  <2> USE DEF TypeOK, CallerTypes, PoolTypes, BusTypes, PushTypes, TargetTypes
  <2>1. CASE Callback(l)
    BY <2>1 DEF Callback
  <2>2. CASE DispatchExits(l)
    BY <2>2 DEF DispatchExits
  <2>3. CASE Accept(l)
    BY <2>3 DEF Accept
  <2>4. CASE PeerLeaves(l)
    BY <2>4 DEF PeerLeaves
  <2> QED BY <1>4, <2>1, <2>2, <2>3, <2>4
<1>5. ASSUME NEW l \in Links, CloseSocket(l) PROVE TypeOK'
  BY <1>5
  DEF CloseSocket, TypeOK, CallerTypes, PoolTypes, BusTypes, PushTypes, TargetTypes, pushVars
<1> QED BY <1>1, <1>2, <1>3, <1>4, <1>5 DEF PushNext

LEMMA StepType ==
    TypeOK /\ CallerInv /\ PoolInv /\ LinkInv /\ [Next]_vars => TypeOK'
<1> SUFFICES ASSUME TypeOK, CallerInv, PoolInv, LinkInv, [Next]_vars PROVE TypeOK'
  OBVIOUS
<1>1. CASE UNCHANGED vars
  BY <1>1
  DEF vars, callerVars, poolVars, busVars, pushVars, TypeOK, CallerTypes, PoolTypes, BusTypes,
      PushTypes, TargetTypes
<1>2. CASE SchedulerNext
  BY <1>2, SavesType, ReloadTypes, SubscribeTypes, ListenTypes DEF SchedulerNext
<1> QED BY <1>1, <1>2, UserTypes, BusStepTypes, PushStepTypes DEF Next

-----------------------------------------------------------------------------
(* Who holds the connection.                                                 *)

(* A registration ends: the device stays, or is to be closed. *)
LEMMA RegisteringKeeps ==
    ASSUME TypeOK, CallerInv, NEW d \in Devices, d \in reload.register, reload.open = {},
           reload.on, Registered(d) \/ Refused(d), UNCHANGED <<kind, user, conn>>
    PROVE  CallerInv'
<1>1. reload \in ReloadRecord
  BY DEF TypeOK, CallerTypes, ReloadRecord
<1>2. /\ reload'.on = reload.on /\ reload'.open = reload.open /\ reload'.late = reload.late
      /\ reload'.register = reload.register \ {d}
      /\ reload'.stop \in {reload.stop, reload.stop \cup {d}}
  BY <1>1 DEF Registered, Refused, ReloadRecord
<1>3. Opened' = Opened
  BY DEF Opened
<1> QED BY <1>2, <1>3 DEF CallerInv

LEMMA RegisterSteps ==
    ASSUME TypeOK, CallerInv, NEW d \in Devices, Schedule(d) \/ Subscribe(d) \/ Listen(d)
    PROVE  CallerInv'
<1>1. Registered(d) \/ Refused(d)
  BY DEF Schedule, Subscribe, SubscribeFails, MonitorAnswers, MonitorRejects, MonitorTimesOut,
         Listen
<1>2. /\ d \in reload.register /\ reload.open = {} /\ reload.on
      /\ UNCHANGED <<kind, user, conn>>
  BY DEF Schedule, Subscribe, Listen, Registering, Reloading, poolVars
<1> QED BY <1>1, <1>2, RegisteringKeeps

LEMMA ReloadKeepsCallers ==
    ASSUME TypeOK, CallerInv, PoolInv, LinkInv,
           ReloadBegins \/ ReloadEnds \/ \E d \in Devices : StopDevice(d) \/ OpenDevice(d)
    PROVE  CallerInv'
<1>0. reload \in ReloadRecord /\ Users \cap Devices = {}
  BY DriversAssumption DEF TypeOK, CallerTypes, ReloadRecord
<1>1. CASE ReloadBegins
  <2>1. Opened' = Opened /\ UNCHANGED <<kind, user, conn>>
    BY <1>1 DEF ReloadBegins, Opened, poolVars
  <2>2. Idle \in ReloadRecord
    BY DEF Idle, ReloadRecord
  <2>3. CASE Restarts
    <3>1. reload' = [Idle EXCEPT !.on = TRUE, !.stop = Opened, !.open = stored.devices]
      BY <1>1, <2>3 DEF ReloadBegins
    <3>2. /\ reload'.on /\ reload'.stop = Opened /\ reload'.open = stored.devices
          /\ reload'.register = {} /\ ~reload'.late
      BY <2>2, <3>1 DEF Idle, ReloadRecord
    <3> QED BY <2>1, <3>2 DEF CallerInv
  <2>4. CASE ~Restarts
    <3>1. reload' = [Idle EXCEPT !.on = TRUE, !.stop = Opened \ stored.devices,
                                 !.open = stored.devices \ Opened, !.late = TRUE]
      BY <1>1, <2>4 DEF ReloadBegins
    <3>2. /\ reload'.on /\ reload'.stop = Opened \ stored.devices
          /\ reload'.open = stored.devices \ Opened /\ reload'.register = {} /\ reload'.late
      BY <2>2, <3>1 DEF Idle, ReloadRecord
    <3>3. kind # "modbus" => Opened \ stored.devices = {}
      BY <2>4 DEF Restarts
    <3> QED BY <2>1, <3>2, <3>3 DEF CallerInv
  <2> QED BY <2>3, <2>4
<1>2. CASE ReloadEnds
  <2>1. reload' = Idle /\ reload.stop = {} /\ UNCHANGED <<kind, user, conn>>
    BY <1>2 DEF ReloadEnds, poolVars
  <2> QED BY <2>1 DEF CallerInv, Idle, Opened
<1>3. ASSUME NEW d \in Devices, StopDevice(d) PROVE CallerInv'
  <2>1. conn' = [conn EXCEPT ![d] = None] /\ UNCHANGED <<kind, user>>
    BY <1>3, ReleaseKeeps DEF StopDevice, Holders
  <2>2. Opened' = Opened \ {d}
    BY <2>1 DEF Opened, TypeOK, PoolTypes, Holders
  <2>3. \A u \in Users : conn'[u] = conn[u]
    BY <1>0, <2>1 DEF TypeOK, PoolTypes, Holders
  <2>4. /\ reload'.on = reload.on /\ reload'.open = reload.open /\ reload'.late = reload.late
        /\ reload'.register = reload.register /\ reload'.stop = reload.stop \ {d}
        /\ d \in reload.stop /\ reload.on
    BY <1>0, <1>3 DEF StopDevice, Reloading, ReloadRecord
  <2> QED BY <2>1, <2>2, <2>3, <2>4 DEF CallerInv
<1>4. ASSUME NEW d \in Devices, OpenDevice(d) PROVE CallerInv'
  <2>1. /\ reload'.on = reload.on /\ reload'.open = reload.open \ {d}
        /\ reload'.late = reload.late /\ reload'.stop = reload.stop /\ d \in reload.open
        /\ reload.on /\ UNCHANGED <<kind, user>>
    BY <1>0, <1>4 DEF OpenDevice, Reloading, ReloadRecord
  <2>2. CASE Acquire(d, known.config) /\ reload'.register = reload.register \cup {d}
    <3>1. conn[d] = None /\ d \notin reload.stop
      BY <1>4, OpensUnheld
    <3>2. pool' \in Links /\ conn' = [conn EXCEPT ![d] = pool']
      BY <2>1, <2>2, <3>1, AcquireKeeps DEF TypeOK, CallerTypes, Holders
    <3>3. Opened' = Opened \cup {d}
      BY <3>2, DriversAssumption DEF Opened, TypeOK, PoolTypes, Holders
    <3>4. \A u \in Users : conn'[u] = conn[u]
      BY <1>0, <3>2 DEF TypeOK, PoolTypes, Holders
    <3> QED BY <2>1, <2>2, <3>1, <3>3, <3>4 DEF CallerInv
  <2>3. CASE DialFails /\ reload'.register = reload.register
    BY <2>1, <2>3 DEF DialFails, poolVars, CallerInv, Opened
  <2>4. \/ Acquire(d, known.config) /\ reload'.register = reload.register \cup {d}
        \/ DialFails /\ reload'.register = reload.register
    BY <1>0, <1>4 DEF OpenDevice, ReloadRecord
  <2> QED BY <2>2, <2>3, <2>4
<1> QED BY <1>1, <1>2, <1>3, <1>4

LEMMA UsersKeepCallers ==
    ASSUME TypeOK, CallerInv, PoolInv, LinkInv, UserNext
    PROVE  CallerInv'
<1>1. PICK u \in Users : GetConnection(u) \/ UserOpens(u) \/ UserAsks(u) \/ UserCloses(u)
  BY DEF UserNext
<1>2. u \in Holders /\ u \notin Devices /\ UNCHANGED <<kind, reload>>
  BY <1>1, DriversAssumption
  DEF Holders, GetConnection, UserOpens, UserAsks, UserCloses
<1>3. user \in [Users -> [pc : {"idle", "read", "open", "done"}, config : Configs]]
  BY DEF TypeOK, CallerTypes
<1>4. ASSUME \A h \in Holders \ {u} : conn'[h] = conn[h],
             \A v \in Users \ {u} : user'[v] = user[v],
             conn'[u] # None <=> user'[u].pc \in {"open", "done"}
      PROVE  CallerInv'
  <2>1. Opened' = Opened
    BY <1>2, <1>4 DEF Opened, Holders
  <2> QED BY <1>2, <1>4, <2>1 DEF CallerInv, Holders
<1>5. CASE GetConnection(u)
  BY <1>3, <1>4, <1>5 DEF GetConnection, poolVars, CallerInv
<1>6. CASE UserOpens(u)
  <2>1. CASE Acquire(u, user[u].config) /\ user'[u].pc \in {"open", "done"}
    <3>1. conn[u] = None /\ user[u].config \in Configs
      BY <1>3, <1>6 DEF UserOpens, CallerInv
    <3>2. pool' \in Links /\ conn' = [conn EXCEPT ![u] = pool']
      BY <1>2, <2>1, <3>1, AcquireKeeps
    <3> QED
      BY <1>2, <1>3, <1>4, <1>6, <2>1, <3>2, DriversAssumption DEF UserOpens, TypeOK, PoolTypes
  <2>2. CASE DialFails /\ user'[u].pc = "idle"
    BY <1>3, <1>4, <1>6, <2>2 DEF UserOpens, DialFails, poolVars, CallerInv
  <2> QED BY <1>3, <1>6, <2>1, <2>2 DEF UserOpens
<1>7. CASE UserAsks(u)
  BY <1>3, <1>4, <1>7 DEF UserAsks, poolVars, CallerInv
<1>8. CASE UserCloses(u)
  <2>1. conn' = [conn EXCEPT ![u] = None]
    BY <1>2, <1>8, ReleaseKeeps DEF UserCloses
  <2> QED BY <1>2, <1>3, <1>4, <1>8, <2>1 DEF UserCloses, TypeOK, PoolTypes
<1> QED BY <1>1, <1>5, <1>6, <1>7, <1>8

LEMMA CallerStep ==
    TypeOK /\ CallerInv /\ PoolInv /\ LinkInv /\ [Next]_vars => CallerInv'
<1> SUFFICES ASSUME TypeOK, CallerInv, PoolInv, LinkInv, [Next]_vars PROVE CallerInv'
  OBVIOUS
<1>1. ASSUME UNCHANGED <<kind, reload, user, conn>> PROVE CallerInv'
  BY <1>1 DEF CallerInv, Opened
<1>2. CASE SaveConnection \/ SaveDevice \/ DeleteDevice
  BY <1>1, <1>2 DEF SaveConnection, SaveDevice, DeleteDevice, Edit, poolVars
<1>3. CASE BusNext
  BY <1>1, <1>3 DEF BusNext, FireTask, SelectUnit, Transact, poolVars, callerVars
<1>4. CASE PushNext
  BY <1>1, <1>4
  DEF PushNext, ReleaseReturns, Notify, Callback, DispatchExits, Accept, Frame, PeerLeaves,
      CloseSocket, poolVars, callerVars
<1>5. CASE UNCHANGED vars
  BY <1>1, <1>5 DEF vars, callerVars, poolVars
<1> QED
  BY <1>2, <1>3, <1>4, <1>5, RegisterSteps, ReloadKeepsCallers, UsersKeepCallers
  DEF Next, SchedulerNext

-----------------------------------------------------------------------------
(* The pool, and its implementation of SharedPool.                           *)

Inv == TypeOK /\ CallerInv /\ PoolInv /\ LinkInv

(* What a step does to the pool: a holder joins or leaves, or a link is closed that *)
(* nobody holds, or nothing a holder sees.                                          *)
Joins(h)  == conn[h] = None /\ \E cfg \in Configs : Acquire(h, cfg)
Leaves(h) == Release(h)

LEMMA HolderSteps ==
    ASSUME Inv, SchedulerNext \/ UserNext
    PROVE  \/ \E h \in Holders : Joins(h) \/ Leaves(h)
           \/ UNCHANGED <<pool, ref, conn, link, mu>>
           \/ \E d \in Devices : Listen(d)
<1> USE DEF poolVars, pushVars, Inv
<1>1. ASSUME NEW d \in Devices, OpenDevice(d)
      PROVE  Joins(d) \/ UNCHANGED <<pool, ref, conn, link, mu>>
  BY <1>1, OpensUnheld DEF OpenDevice, DialFails, Joins, TypeOK, CallerTypes
<1>2. ASSUME NEW d \in Devices, StopDevice(d) PROVE Leaves(d)
  BY <1>2 DEF StopDevice, Leaves
<1>3. ASSUME NEW d \in Devices, Schedule(d) \/ Subscribe(d)
      PROVE  UNCHANGED <<pool, ref, conn, link, mu>>
  BY <1>3 DEF Schedule, Subscribe, Registering
<1>4. ASSUME NEW u \in Users, UserOpens(u)
      PROVE  Joins(u) \/ UNCHANGED <<pool, ref, conn, link, mu>>
  <2>1. conn[u] = None /\ user[u].config \in Configs
    BY <1>4 DEF UserOpens, CallerInv, TypeOK, CallerTypes
  <2> QED BY <1>4, <2>1 DEF UserOpens, DialFails, Joins
<1>5. ASSUME NEW u \in Users, UserCloses(u) PROVE Leaves(u)
  BY <1>5 DEF UserCloses, Leaves
<1>6. ASSUME NEW u \in Users, GetConnection(u) \/ UserAsks(u)
      PROVE  UNCHANGED <<pool, ref, conn, link, mu>>
  BY <1>6 DEF GetConnection, UserAsks
<1>7. CASE SaveConnection \/ SaveDevice \/ DeleteDevice \/ ReloadBegins \/ ReloadEnds
  BY <1>7 DEF SaveConnection, SaveDevice, DeleteDevice, Edit, ReloadBegins, ReloadEnds
<1> QED
  BY <1>1, <1>2, <1>3, <1>4, <1>5, <1>6, <1>7 DEF SchedulerNext, UserNext, Holders

(* The open links stay the same, or the one a Close waited for is closed. *)
LEMMA OtherSteps ==
    ASSUME Inv, BusNext \/ PushNext \/ \E d \in Devices : Listen(d)
    PROVE  /\ UNCHANGED <<kind, pool, ref, conn>>
           /\ \/ /\ mu' = mu
                 /\ kind # "listen" => \A l \in Links : link'[l] = "open" <=> link[l] = "open"
              \/ /\ mu # None /\ mu' = None
                 /\ \E l \in Links : link[l] = "open"
                 /\ \A l \in Links : link'[l] # "open"
<1> USE DEF poolVars, pushVars, Inv
<1>1. ASSUME NEW t \in Asking, Transact(t)
      PROVE  \A l \in Links : link'[l] = "open" <=> link[l] = "open"
  <2>1. link' = link \/ (link[req[t].link] = "closed"
                         /\ link' = [link EXCEPT ![req[t].link] = "stray"])
    BY <1>1 DEF Transact
  <2> QED BY <2>1 DEF TypeOK, PoolTypes
<1>2. CASE BusNext
  <2>1. CASE \E t \in Asking : Transact(t)
    BY <1>1, <2>1 DEF Transact
  <2>2. CASE ~\E t \in Asking : Transact(t)
    BY <1>2, <2>2 DEF BusNext, FireTask, SelectUnit, Asking
  <2> QED BY <2>1, <2>2
<1>3. CASE ReleaseReturns
  <2>1. PICK l \in Links : mu # None /\ link[l] = "open" /\ link' = [link EXCEPT ![l] = "closed"]
    BY <1>3 DEF ReleaseReturns
  <2>2. kind # "listen"
    BY <2>1 DEF LinkInv
  <2>3. \A k \in Links : link'[k] # "open"
    BY <2>1, <2>2 DEF LinkInv, TypeOK, PoolTypes
  <2> QED BY <1>3, <2>1, <2>3 DEF ReleaseReturns
<1>4. CASE PushNext /\ ~ReleaseReturns
  BY <1>4
  DEF PushNext, Notify, Callback, DispatchExits, Accept, Frame, PeerLeaves, CloseSocket, callerVars
<1>5. ASSUME NEW d \in Devices, Listen(d)
      PROVE  UNCHANGED <<kind, pool, ref, conn, mu>> /\ kind = "listen"
  BY <1>5 DEF Listen
<1> QED BY <1>2, <1>3, <1>4, <1>5

LEMMA KindStays == [Next]_vars => kind' = kind
BY DEF Next, SchedulerNext, UserNext, BusNext, PushNext, SaveConnection, SaveDevice,
       DeleteDevice, Edit, ReloadBegins, ReloadEnds, StopDevice, OpenDevice, Schedule,
       Subscribe, Listen, Registering, GetConnection, UserOpens, UserAsks, UserCloses, FireTask,
       SelectUnit, Transact, ReleaseReturns, Notify, Callback, DispatchExits, Accept, Frame,
       PeerLeaves, CloseSocket, vars

LEMMA PoolStep == Inv /\ [Next]_vars => PoolInv' /\ LinkInv'
<1> SUFFICES ASSUME Inv, [Next]_vars PROVE PoolInv' /\ LinkInv'
  OBVIOUS
<1>1. kind' = kind
  BY KindStays
<1>2. ASSUME NEW h \in Holders, Joins(h) \/ Leaves(h) PROVE PoolInv' /\ LinkInv'
  BY <1>1, <1>2, AcquireKeeps, ReleaseKeeps DEF Joins, Leaves, Inv
<1>3. CASE UNCHANGED <<pool, ref, conn, link, mu>>
  BY <1>1, <1>3 DEF Inv, PoolInv, LinkInv, HoldersOn
<1>4. CASE BusNext \/ PushNext \/ \E d \in Devices : Listen(d)
  <2>1. PoolInv'
    BY <1>4, OtherSteps DEF Inv, PoolInv, HoldersOn
  <2>2. pool' = pool /\ pool \in Links \cup {None}
    BY <1>4, OtherSteps DEF Inv, TypeOK, PoolTypes
  <2>3. LinkInv'
    <3>1. CASE mu' = mu /\ (kind # "listen" =>
                              \A l \in Links : link'[l] = "open" <=> link[l] = "open")
      BY <1>1, <2>2, <3>1 DEF Inv, LinkInv
    <3>2. CASE mu # None /\ mu' = None /\ \A l \in Links : link'[l] # "open"
      BY <1>1, <2>2, <3>2 DEF Inv, LinkInv
    <3> QED BY <1>4, <3>1, <3>2, OtherSteps
  <2> QED BY <2>1, <2>3
<1>5. CASE UNCHANGED vars
  BY <1>3, <1>5 DEF vars, poolVars, pushVars
<1> QED BY <1>2, <1>3, <1>4, <1>5, HolderSteps DEF Next

LEMMA InvInit == Init => Inv
<1> SUFFICES ASSUME Init PROVE Inv
  OBVIOUS
<1>1. (CHOOSE cfg \in Configs : TRUE) \in Configs
  BY DriversAssumption
<1>2. stored \in [config : Configs, devices : SUBSET Devices]
  BY <1>1 DEF Init
<1>3. known \in [config : Configs, devices : SUBSET Devices]
  BY <1>2 DEF Init
<1>4. CallerTypes
  BY <1>2, <1>3, DriversAssumption DEF Init, CallerTypes, Idle
<1>5. PoolTypes /\ BusTypes
  BY <1>2 DEF Init, PoolTypes, BusTypes, Requests
<1>6. PushTypes
  <2>1. DOMAIN <<>> = {}
    OBVIOUS
  <2> QED BY <2>1, DriversAssumption DEF Init, PushTypes, TargetTypes
<1>7. HoldersOn = {} /\ Opened = {}
  BY DEF Init, HoldersOn, Opened, Holders
<1>8. CallerInv
  BY <1>7 DEF Init, CallerInv, Idle, HoldersOn, Holders
<1>9. PoolInv /\ LinkInv
  BY <1>7, FS_EmptySet DEF Init, PoolInv, LinkInv, HoldersOn, Holders
<1> QED BY <1>4, <1>5, <1>6, <1>8, <1>9 DEF Inv, TypeOK, Init

LEMMA InvHolds == Spec => []Inv
<1>1. Inv /\ [Next]_vars => Inv'
  BY StepType, CallerStep, PoolStep DEF Inv
<1> QED BY <1>1, InvInit, PTL DEF Spec

(* Every variable keeps its type, the counts of references among them: none goes below *)
(* zero, and every request is for a link that exists (modbus.go:130-170,               *)
(* opcua.go:283-330).                                                                  *)
THEOREM DriversTypeCorrect == Spec => []TypeOK
<1> QED BY InvHolds, PTL DEF Inv

(* The holders' links and the open links, as SharedPool sees them. *)
Held == [h \in Holders |-> IF kind = "listen" THEN None ELSE conn[h]]
Open == {l \in Links : kind # "listen" /\ link[l] = "open"}

LEMMA JoinsAcquires ==
    ASSUME Inv, kind' = kind, kind # "listen", NEW h \in Holders, Joins(h)
    PROVE  Pool!Acquire(h)
<1>1. conn[h] = None /\ PoolInv' /\ LinkInv' /\ pool' \in Links
      /\ conn' = [conn EXCEPT ![h] = pool'] /\ (pool # None => pool' = pool)
  BY AcquireKeeps DEF Joins, Inv
<1>2. pool' # None /\ link'[pool'] = "open" /\ mu' = None
  BY <1>1, DriversAssumption DEF LinkInv
<1>3. Open' = {pool'}
  BY <1>1, <1>2 DEF Open, LinkInv
<1>4. Held[h] = None /\ Held' = [Held EXCEPT ![h] = pool']
  BY <1>1 DEF Held, Inv, TypeOK, PoolTypes
<1>5. mu = None
  BY DEF Joins, Acquire, AcquireModbus, AcquireOpcua, AcquireListen, Inv, LinkInv
<1>6. Open \subseteq {pool'}
  BY <1>1, <1>5, DriversAssumption DEF Open, Inv, LinkInv
<1>7. Open = {} \/ \E g \in Holders : Held[g] = pool'
  <2>1. CASE pool = None
    BY <2>1, <1>5, DriversAssumption DEF Open, Inv, LinkInv
  <2>2. CASE pool # None
    <3>1. PICK g \in Holders : conn[g] # None
      BY <2>2 DEF Inv, PoolInv, HoldersOn
    <3>2. conn[g] = pool /\ pool' = pool
      BY <1>1, <2>2, <3>1 DEF Inv, PoolInv
    <3> QED BY <3>2 DEF Held
  <2> QED BY <2>1, <2>2
<1> QED BY <1>1, <1>3, <1>4, <1>6, <1>7 DEF Pool!Acquire, Held, Open

LEMMA LeavesReleases ==
    ASSUME Inv, kind' = kind, kind # "listen", NEW h \in Holders, Leaves(h)
    PROVE  Pool!Release(h)
<1>1. /\ PoolInv' /\ LinkInv' /\ conn[h] = pool /\ pool \in Links
      /\ conn' = [conn EXCEPT ![h] = None]
      /\ pool' = IF LastOf(pool) THEN None ELSE pool
      /\ LastOf(pool) <=> HoldersOn' = {}
      /\ link' \in {link, [link EXCEPT ![pool] = "closed"]}
  BY ReleaseKeeps DEF Leaves, Inv
<1>2. Held[h] # None /\ Held' = [Held EXCEPT ![h] = None]
  BY <1>1, DriversAssumption DEF Held, Inv, TypeOK, PoolTypes
<1>3. Open' = Open \/ (Open' = {} /\ \A g \in Holders : Held'[g] = None)
  <2>1. CASE link' = link
    BY <2>1 DEF Open
  <2>2. CASE link' = [link EXCEPT ![pool] = "closed"]
    <3>1. pool # None /\ link[pool] = "open" /\ mu = None
      BY <1>1, DriversAssumption DEF Inv, LinkInv
    <3>2. \A l \in Links : link'[l] # "open"
      BY <1>1, <2>2, <3>1 DEF Inv, LinkInv, TypeOK, PoolTypes
    <3>3. pool' = None
      BY <1>1, <3>2 DEF LinkInv
    <3>4. \A g \in Holders : conn'[g] = None
      BY <1>1, <3>3 DEF PoolInv, HoldersOn
    <3> QED BY <3>2, <3>4 DEF Open, Held
  <2> QED BY <1>1, <2>1, <2>2
<1> QED BY <1>2, <1>3 DEF Pool!Release, Held, Open

LEMMA StepRefines == Inv /\ [Next]_vars => [Pool!Next]_<<Held, Open>>
<1> SUFFICES ASSUME Inv, [Next]_vars PROVE Pool!Next \/ UNCHANGED <<Held, Open>>
  OBVIOUS
<1>1. kind' = kind
  BY KindStays
<1>2. CASE kind = "listen"
  BY <1>1, <1>2 DEF Held, Open
<1>3. CASE kind # "listen"
  <2>1. ASSUME NEW h \in Holders, Joins(h) \/ Leaves(h) PROVE Pool!Next
    BY <1>1, <1>3, <2>1, JoinsAcquires, LeavesReleases DEF Pool!Next
  <2>2. CASE UNCHANGED <<pool, ref, conn, link, mu>>
    BY <1>1, <2>2 DEF Held, Open
  <2>3. CASE BusNext \/ PushNext \/ \E d \in Devices : Listen(d)
    <3>1. Held' = Held
      BY <1>1, <2>3, OtherSteps DEF Held
    <3>2. CASE \A l \in Links : link'[l] = "open" <=> link[l] = "open"
      BY <1>1, <3>1, <3>2 DEF Open
    <3>3. CASE /\ mu # None /\ \E l \in Links : link[l] = "open"
               /\ \A l \in Links : link'[l] # "open"
      <4>1. \A h \in Holders : Held[h] = None
        BY <3>3 DEF Held, Inv, LinkInv, PoolInv, HoldersOn
      <4>2. Open # {} /\ Open' = {}
        BY <1>3, <3>3 DEF Open
      <4>3. Pool!Close
        BY <3>1, <4>1, <4>2 DEF Pool!Close, Held, Open
      <4> QED BY <4>3 DEF Pool!Next
    <3> QED BY <1>3, <2>3, <3>2, <3>3, OtherSteps
  <2>4. CASE UNCHANGED vars
    BY <2>2, <2>4 DEF vars, poolVars, pushVars
  <2> QED BY <2>1, <2>2, <2>3, <2>4, HolderSteps DEF Next
<1> QED BY <1>2, <1>3

(* The Modbus and OPC UA pools implement SharedPool, for any number of holders and links: *)
(* nobody uses a second link beside an open one, and the link lives as long as anybody    *)
(* holds it (modbus.go:130-170, opcua.go:283-330).                                        *)
THEOREM PoolIsShared == Spec => RefinesPool
<1>1. Init => Pool!Init
  BY DEF Init, Pool!Init, Holders
<1> QED BY <1>1, StepRefines, InvHolds, PTL DEF Spec, RefinesPool, Pool!Spec, Held, Open

-----------------------------------------------------------------------------
(* The line of the Modbus driver.                                            *)

(* The request that has taken a line holds it, with its own unit ID set.  AnswersAreOwn *)
(* does not say who holds the line, which keeps the others from setting theirs.         *)
BusInv ==
    \A t \in Asking :
       req[t] # None /\ req[t].selected =>
          bus[req[t].link] = t /\ unit[req[t].link] = req[t].unit

LEMMA NewRequestKeeps ==
    ASSUME TypeOK, BusInv, NEW t \in Asking, NEW l, NEW n, UNCHANGED <<bus, unit>>,
           req' = [req EXCEPT ![t] = Request(l, n)]
    PROVE  BusInv'
<1>1. ~req'[t].selected
  BY DEF TypeOK, BusTypes, Asking, Request
<1>2. \A u \in Asking \ {t} : req'[u] = req[u]
  BY DEF TypeOK, BusTypes, Asking
<1> QED BY <1>1, <1>2 DEF BusInv

LEMMA BusStep == TypeOK /\ BusInv /\ [Next]_vars => BusInv'
<1> SUFFICES ASSUME TypeOK, BusInv, [Next]_vars PROVE BusInv'
  OBVIOUS
<1>1. ASSUME UNCHANGED busVars PROVE BusInv'
  BY <1>1 DEF BusInv, busVars
<1>2. CASE SchedulerNext
  BY <1>1, <1>2
  DEF SchedulerNext, SaveConnection, SaveDevice, DeleteDevice, Edit, ReloadBegins, ReloadEnds,
      StopDevice, OpenDevice, Schedule, Subscribe, Listen, Registering
<1>3. ASSUME NEW u \in Users, UserAsks(u) PROVE BusInv'
  <2>1. PICK d \in Devices : req' = [req EXCEPT ![u] = Request(conn[u], UnitOf[d])]
    BY <1>3 DEF UserAsks
  <2> QED BY <1>3, <2>1, NewRequestKeeps DEF UserAsks, Asking
<1>4. ASSUME NEW u \in Users, GetConnection(u) \/ UserOpens(u) \/ UserCloses(u) PROVE BusInv'
  BY <1>1, <1>4 DEF GetConnection, UserOpens, UserCloses
<1>5. ASSUME NEW w \in Workers, NEW d \in Devices, FireTask(w, d) PROVE BusInv'
  BY <1>5, NewRequestKeeps DEF FireTask, Asking
<1>6. ASSUME NEW t \in Asking, SelectUnit(t) PROVE BusInv'
  <2>1. req[t] \in [link : Links, unit : Nat, selected : BOOLEAN]
    BY <1>6 DEF SelectUnit, TypeOK, BusTypes, Asking, Requests
  <2>2. /\ req'[t].link = req[t].link /\ req'[t].unit = req[t].unit
        /\ \A u \in Asking \ {t} : req'[u] = req[u]
        /\ bus' = [bus EXCEPT ![req[t].link] = t]
        /\ unit' = [unit EXCEPT ![req[t].link] = req[t].unit]
        /\ bus[req[t].link] = None
    BY <1>6, <2>1 DEF SelectUnit, BusFree, TypeOK, BusTypes, Asking
  <2>3. ASSUME NEW u \in Asking, req'[u] # None, req'[u].selected
        PROVE  bus'[req'[u].link] = u /\ unit'[req'[u].link] = req'[u].unit
    <3>1. CASE u = t
      BY <2>1, <2>2, <3>1 DEF TypeOK, BusTypes
    <3>2. CASE u # t
      <4>1. bus[req[u].link] = u /\ unit[req[u].link] = req[u].unit
        BY <2>2, <2>3, <3>2 DEF BusInv
      <4>2. req[u].link # req[t].link
        BY <2>2, <4>1, DriversAssumption DEF Asking, Holders
      <4> QED BY <2>2, <3>2, <4>1, <4>2 DEF TypeOK, BusTypes
    <3> QED BY <3>1, <3>2
  <2> QED BY <2>3 DEF BusInv
<1>7. ASSUME NEW t \in Asking, Transact(t) PROVE BusInv'
  <2>1. /\ req'[t] = None /\ \A u \in Asking \ {t} : req'[u] = req[u]
        /\ bus' = [bus EXCEPT ![req[t].link] = None] /\ unit' = unit
        /\ bus[req[t].link] = t
    BY <1>7 DEF Transact, BusInv, TypeOK, BusTypes, Asking
  <2>2. ASSUME NEW u \in Asking, req'[u] # None, req'[u].selected
        PROVE  bus'[req'[u].link] = u /\ unit'[req'[u].link] = req'[u].unit
    <3>1. u # t /\ req'[u] = req[u]
      BY <2>1, <2>2
    <3>2. bus[req[u].link] = u /\ unit[req[u].link] = req[u].unit
      BY <2>2, <3>1 DEF BusInv
    <3> QED BY <2>1, <3>1, <3>2 DEF TypeOK, BusTypes
  <2> QED BY <2>2 DEF BusInv
<1>8. CASE PushNext \/ UNCHANGED vars
  BY <1>1, <1>8
  DEF PushNext, ReleaseReturns, Notify, Callback, DispatchExits, Accept, Frame, PeerLeaves,
      CloseSocket, vars
<1> QED
  BY <1>2, <1>3, <1>4, <1>5, <1>6, <1>7, <1>8 DEF Next, UserNext, BusNext, Asking

(* However many devices and users share a line: the request that is on it goes out with *)
(* the unit ID of its own device (modbus.go:279-282, 453-456).                          *)
THEOREM RequestsAreOwn == Spec => []AnswersAreOwn
<1>1. Init => BusInv
  BY DEF Init, BusInv, Asking
<1>2. BusInv => AnswersAreOwn
  BY DEF BusInv, AnswersAreOwn, Asking
<1> QED BY <1>1, <1>2, BusStep, DriversTypeCorrect, PTL DEF Spec

-----------------------------------------------------------------------------
(* What a restart leaves behind.                                             *)

(* FreshAfterRestart says nothing while a reload stops devices.  The invariant does: as  *)
(* soon as one device stays, or is open again, the connection is the one of the          *)
(* configuration, and its targets are those of the devices that are registered.          *)
Stays == ~(Opened \subseteq reload.stop)

FreshInv ==
    ~survived =>
       /\ Opened # {} /\ (reload.late \/ Stays) => built[pool] = known.config
       /\ Stays => \A k \in DOMAIN target[pool] :
                      /\ target[pool][k].state # "gone"
                      /\ target[pool][k].state = "on" =>
                            target[pool][k].device \in Opened \ (reload.register \cup reload.stop)

(* The Modbus driver has no targets. *)
NoTargets == kind = "modbus" => \A l \in Links : target[l] = <<>>

LEMMA NoTargetsStep == Inv /\ NoTargets /\ [Next]_vars => NoTargets'
<1> SUFFICES ASSUME Inv, NoTargets, [Next]_vars, kind = "modbus", NEW l \in Links
             PROVE  target'[l] = <<>>
  BY KindStays DEF NoTargets
<1> USE DEF pushVars
<1>1. target[l] = <<>> /\ DOMAIN target = Links
  BY DEF NoTargets, Inv, TypeOK, PushTypes, TargetTypes
<1>2. ASSUME NEW h \in Holders, NEW cfg, Acquire(h, cfg) PROVE target'[l] = <<>>
  BY <1>1, <1>2 DEF Acquire, AcquireModbus, AcquireOpcua, AcquireListen, Join, Make
<1>3. ASSUME NEW h \in Holders, Release(h) PROVE target'[l] = <<>>
  <2>1. target' = [target EXCEPT ![conn[h]] = Disowned(@, h)]
    BY <1>3 DEF Release, ReleaseModbus, ReleaseOpcua, ReleaseListen, Leave
  <2>2. Disowned(<<>>, h) = <<>>
    BY DEF Disowned
  <2> QED BY <1>1, <2>1, <2>2
<1>4. ASSUME UNCHANGED target PROVE target'[l] = <<>>
  BY <1>1, <1>4
<1>5. CASE SchedulerNext
  BY <1>2, <1>3, <1>4, <1>5
  DEF SchedulerNext, SaveConnection, SaveDevice, DeleteDevice, Edit, ReloadBegins, ReloadEnds,
      StopDevice, OpenDevice, DialFails, Schedule, Subscribe, Listen, Holders
<1>6. CASE UserNext
  BY <1>2, <1>3, <1>4, <1>6
  DEF UserNext, GetConnection, UserOpens, DialFails, UserAsks, UserCloses, Holders
<1>7. CASE BusNext \/ PushNext \/ UNCHANGED vars
  BY <1>4, <1>7
  DEF BusNext, FireTask, SelectUnit, Transact, PushNext, ReleaseReturns, Notify, Callback,
      DispatchExits, Accept, Frame, PeerLeaves, CloseSocket, vars
<1> QED BY <1>5, <1>6, <1>7 DEF Next

(* A device that holds holds the pool's entry. *)
LEMMA OpenedHoldPool ==
    ASSUME Inv, Opened # {}
    PROVE  /\ pool \in Links /\ HoldersOn # {}
           /\ \A d \in Opened : conn[d] = pool
<1>1. Opened \subseteq HoldersOn
  BY DEF Opened, HoldersOn, Holders
<1>2. pool \in Links
  BY <1>1 DEF Inv, PoolInv, TypeOK, PoolTypes
<1> QED BY <1>1, <1>2 DEF Inv, PoolInv, HoldersOn

LEMMA SameFresh ==
    ASSUME FreshInv, UNCHANGED <<survived, conn, built, known, pool, target>>,
           reload'.stop = reload.stop, reload'.register = reload.register,
           reload'.late = reload.late
    PROVE  FreshInv'
BY DEF FreshInv, Stays, Opened

(* What Close does to the targets of the pool's entry. *)
LEMMA ReleaseDisowns ==
    ASSUME Inv, UNCHANGED kind, NEW h \in Holders, Release(h)
    PROVE  /\ target'[pool] = Disowned(target[pool], h)
           /\ DOMAIN target'[pool] = DOMAIN target[pool]
           /\ \A k \in DOMAIN target[pool] :
                 ~(target[pool][k].state = "on" /\ target[pool][k].device = h) =>
                    target'[pool][k] = target[pool][k]
<1>1. target' = [target EXCEPT ![conn[h]] = Disowned(@, h)]
  BY DEF Release, ReleaseModbus, ReleaseOpcua, ReleaseListen, Leave
<1>2. conn[h] = pool /\ pool \in Links
  BY ReleaseKeeps DEF Inv
<1>3. target'[pool] = Disowned(target[pool], h)
  BY <1>1, <1>2 DEF Inv, TypeOK, PushTypes, TargetTypes
<1> QED BY <1>3 DEF Disowned

LEMMA StopKeepsFresh ==
    ASSUME Inv, FreshInv, NEW d \in Devices, StopDevice(d)
    PROVE  FreshInv'
<1>1. Release(d) /\ d \in Holders /\ UNCHANGED <<kind, known>>
  BY DEF StopDevice, Holders
<1>2. /\ Inv /\ conn[d] = pool /\ pool \in Links /\ PoolInv'
      /\ conn' = [conn EXCEPT ![d] = None]
      /\ pool' = IF LastOf(pool) THEN None ELSE pool
      /\ LastOf(pool) <=> HoldersOn' = {}
  BY <1>1, ReleaseKeeps DEF Inv
<1>3. UNCHANGED <<built, survived>>
  BY <1>1 DEF Release, ReleaseModbus, ReleaseOpcua, ReleaseListen, Leave
<1>4. /\ reload'.register = reload.register /\ reload'.late = reload.late
      /\ reload'.stop = reload.stop \ {d} /\ d \in reload.stop
  BY DEF StopDevice, Inv, TypeOK, CallerTypes
<1>5. Opened' = Opened \ {d}
  BY <1>2 DEF Opened, Inv, TypeOK, PoolTypes, Holders
<1>6. (Opened' # {} => Opened # {}) /\ (Stays' => Stays)
  BY <1>4, <1>5 DEF Stays
<1>7. Opened' # {} => pool' = pool
  BY <1>2 DEF Opened, HoldersOn, Holders
<1>8. ASSUME ~survived, Stays', NEW k \in DOMAIN target'[pool]
      PROVE  /\ target'[pool][k].state # "gone"
             /\ target'[pool][k].state = "on" =>
                   target'[pool][k].device \in Opened' \ (reload'.register \cup reload'.stop)
  <2>1. k \in DOMAIN target[pool]
    BY <1>1, <1>8, ReleaseDisowns
  <2>2. /\ target[pool][k].state # "gone"
        /\ target[pool][k].state = "on" =>
              target[pool][k].device \in Opened \ (reload.register \cup reload.stop)
    BY <1>6, <1>8, <2>1 DEF FreshInv
  <2>3. target'[pool][k] = target[pool][k]
    BY <1>1, <1>4, <2>1, <2>2, ReleaseDisowns
  <2> QED BY <1>4, <1>5, <2>2, <2>3
<1>9. Stays' => Opened' # {}
  BY DEF Stays
<1> QED BY <1>3, <1>1, <1>4, <1>6, <1>7, <1>8, <1>9 DEF FreshInv

LEMMA UserClosesKeepsFresh ==
    ASSUME Inv, FreshInv, NEW u \in Users, UserCloses(u)
    PROVE  FreshInv'
<1>1. Release(u) /\ u \in Holders /\ u \notin Devices /\ UNCHANGED <<kind, known, reload>>
  BY DriversAssumption DEF UserCloses, Holders
<1>2. /\ conn[u] = pool /\ pool \in Links
      /\ conn' = [conn EXCEPT ![u] = None]
      /\ pool' = IF LastOf(pool) THEN None ELSE pool
      /\ LastOf(pool) <=> HoldersOn' = {}
  BY <1>1, ReleaseKeeps DEF Inv
<1>3. UNCHANGED <<built, survived>>
  BY <1>1 DEF Release, ReleaseModbus, ReleaseOpcua, ReleaseListen, Leave
<1>4. Opened' = Opened
  BY <1>1, <1>2 DEF Opened, Inv, TypeOK, PoolTypes, Holders
<1>5. Opened' # {} => pool' = pool
  BY <1>2 DEF Opened, HoldersOn, Holders
<1>6. \A k \in DOMAIN target[pool] : target[pool][k].device \in Devices
  BY <1>2 DEF Inv, TypeOK, PushTypes, TargetTypes
<1>7. /\ DOMAIN target'[pool] = DOMAIN target[pool]
      /\ \A k \in DOMAIN target[pool] : target'[pool][k] = target[pool][k]
  BY <1>1, <1>6, ReleaseDisowns
<1>8. Stays' <=> Stays
  BY <1>1, <1>4 DEF Stays
<1>9. Stays => Opened # {}
  BY DEF Stays
<1> QED BY <1>1, <1>3, <1>4, <1>5, <1>7, <1>8, <1>9 DEF FreshInv

(* What acquire does to the pool's entry, which a Make starts anew. *)
LEMMA AcquireStarts ==
    ASSUME Inv, NEW h \in Holders, NEW cfg, Acquire(h, cfg)
    PROVE  \/ pool # None /\ UNCHANGED <<pool, built, target>>
           \/ /\ pool = None /\ pool' \in Links
              /\ built'[pool'] = cfg /\ DOMAIN target'[pool'] = {}
<1>1. CASE Join(h)
  BY <1>1 DEF Join
<1>2. ASSUME NEW state, Make(h, cfg, state)
      PROVE  /\ pool = None /\ pool' \in Links
             /\ built'[pool'] = cfg /\ DOMAIN target'[pool'] = {}
  <2>1. /\ pool' \in Links /\ built' = [built EXCEPT ![pool'] = cfg]
        /\ target' = [target EXCEPT ![pool'] = <<>>]
    BY <1>2, MakeKeeps DEF Inv, TypeOK
  <2>2. pool = None
    BY <1>2 DEF Make
  <2>3. DOMAIN <<>> = {}
    OBVIOUS
  <2> QED BY <2>1, <2>2, <2>3 DEF Inv, TypeOK, PoolTypes, PushTypes, TargetTypes
<1> QED BY <1>1, <1>2 DEF Acquire, AcquireModbus, AcquireOpcua, AcquireListen

LEMMA OpenKeepsFresh ==
    ASSUME Inv, NoTargets, FreshInv, NEW d \in Devices, OpenDevice(d)
    PROVE  FreshInv'
<1>0. reload \in ReloadRecord
  BY DEF Inv, TypeOK, CallerTypes, ReloadRecord
<1>1. CASE DialFails /\ reload' = [reload EXCEPT !.open = @ \ {d}]
  BY <1>0, <1>1, SameFresh DEF OpenDevice, DialFails, poolVars, pushVars, ReloadRecord
<1>2. CASE /\ Acquire(d, known.config)
           /\ reload' = [reload EXCEPT !.open = @ \ {d}, !.register = @ \cup {d}]
           /\ survived' = (survived \/ (pool # None /\ Opened = {}))
  <2>1. conn[d] = None /\ d \notin reload.stop /\ d \in Holders /\ UNCHANGED <<kind, known>>
    BY OpensUnheld DEF Inv, OpenDevice, Holders
  <2>2. known.config \in Configs /\ d \in reload.open
    BY DEF Inv, TypeOK, CallerTypes, OpenDevice
  <2>3. pool' \in Links /\ conn' = [conn EXCEPT ![d] = pool']
    BY <1>2, <2>1, <2>2, AcquireKeeps DEF Inv
  <2>4. Opened' = Opened \cup {d} /\ d \notin Opened
    BY <2>1, <2>3, DriversAssumption DEF Opened, Inv, TypeOK, PoolTypes, Holders
  <2>5. /\ reload'.register = reload.register \cup {d}
        /\ reload'.stop = reload.stop /\ reload'.late = reload.late
    BY <1>0, <1>2 DEF ReloadRecord
  <2>6. CASE pool # None /\ UNCHANGED <<pool, built, target>>
    <3> SUFFICES ASSUME ~survived' PROVE FreshInv'
      BY DEF FreshInv
    <3>1. ~survived /\ Opened # {}
      BY <1>2, <2>6
    <3>2. reload.late \/ reload.stop = {}
      BY DEF OpenDevice
    <3>3. reload.late \/ Stays
      BY <3>1, <3>2 DEF Stays
    <3>4. built[pool] = known.config
      BY <3>1, <3>3 DEF FreshInv
    <3>5. kind # "modbus" => Stays
      BY <2>2, <3>1, <3>2 DEF Stays, Inv, CallerInv
    <3>6. kind = "modbus" => DOMAIN target[pool] = {}
      BY <2>3, <2>6 DEF NoTargets
    <3>7. \A k \in DOMAIN target[pool] :
             /\ target[pool][k].state # "gone"
             /\ target[pool][k].state = "on" =>
                   target[pool][k].device \in Opened \ (reload.register \cup reload.stop)
      BY <3>1, <3>5, <3>6 DEF FreshInv
    <3> QED BY <2>1, <2>4, <2>5, <2>6, <3>4, <3>7 DEF FreshInv
  <2>7. CASE /\ pool = None /\ pool' \in Links
             /\ built'[pool'] = known.config /\ DOMAIN target'[pool'] = {}
    BY <2>1, <2>7 DEF FreshInv
  <2> QED BY <1>2, <2>1, <2>6, <2>7, AcquireStarts
<1> QED BY <1>1, <1>2 DEF OpenDevice

LEMMA UserOpensKeepsFresh ==
    ASSUME Inv, FreshInv, NEW u \in Users, UserOpens(u)
    PROVE  FreshInv'
<1>1. u \in Holders /\ u \notin Devices /\ UNCHANGED <<known, reload, kind>>
  BY DriversAssumption DEF UserOpens, Holders
<1>2. CASE DialFails
  BY <1>1, <1>2, SameFresh DEF DialFails, poolVars, pushVars
<1>3. CASE Acquire(u, user[u].config) /\ UNCHANGED survived
  <2>1. conn[u] = None /\ user[u].config \in Configs
    BY DEF UserOpens, Inv, CallerInv, TypeOK, CallerTypes
  <2>2. pool' \in Links /\ conn' = [conn EXCEPT ![u] = pool']
    BY <1>1, <1>3, <2>1, AcquireKeeps DEF Inv
  <2>3. Opened' = Opened
    BY <1>1, <2>2 DEF Opened, Inv, TypeOK, PoolTypes, Holders
  <2>4. CASE pool # None /\ UNCHANGED <<pool, built, target>>
    BY <1>1, <1>3, <2>3, <2>4 DEF FreshInv, Stays
  <2>5. CASE pool = None
    <3>1. Opened = {}
      BY <2>5 DEF Inv, PoolInv, HoldersOn, Opened, Holders
    <3> QED BY <2>3, <3>1 DEF FreshInv, Stays
  <2> QED BY <1>1, <1>3, <2>4, <2>5, AcquireStarts
<1> QED BY <1>2, <1>3 DEF UserOpens

LEMMA ReloadKeepsFresh ==
    ASSUME Inv, NoTargets, FreshInv, ReloadBegins \/ ReloadEnds
    PROVE  FreshInv'
<1>1. UNCHANGED <<survived, conn, built, pool, target>>
  BY DEF ReloadBegins, ReloadEnds, poolVars, pushVars
<1>2. Opened' = Opened
  BY <1>1 DEF Opened
<1>3. CASE ReloadBegins
  <2>1. reload = Idle /\ reload.stop = {} /\ known' = stored /\ Idle \in ReloadRecord
    BY <1>3 DEF ReloadBegins, Idle, ReloadRecord
  <2>2. Opened # {} => Stays
    BY <2>1 DEF Stays
  <2>3. CASE Restarts
    <3>1. reload'.stop = Opened /\ reload'.late = FALSE
      BY <1>3, <2>1, <2>3 DEF ReloadBegins, ReloadRecord, Idle
    <3> QED BY <1>2, <3>1 DEF FreshInv, Stays
  <2>4. CASE ~Restarts
    <3>1. /\ reload'.stop = Opened \ stored.devices /\ reload'.register = {}
          /\ known'.config = known.config
      BY <1>3, <2>1, <2>4 DEF ReloadBegins, Restarts, ReloadRecord, Idle
    <3>2. kind # "modbus" => reload'.stop = {}
      BY <2>4, <3>1 DEF Restarts
    <3>3. kind = "modbus" /\ Opened # {} => DOMAIN target[pool] = {}
      BY OpenedHoldPool DEF NoTargets
    <3>4. Stays' => Opened # {}
      BY <1>2 DEF Stays
    <3> QED BY <1>1, <1>2, <2>1, <2>2, <3>1, <3>2, <3>3, <3>4 DEF FreshInv
  <2> QED BY <2>3, <2>4
<1>4. CASE ReloadEnds
  <2>1. reload' = Idle /\ reload.stop = {} /\ reload.register = {} /\ known' = known
    BY <1>4 DEF ReloadEnds
  <2>2. reload'.stop = {} /\ reload'.register = {} /\ reload'.late = FALSE
    BY <2>1 DEF Idle
  <2> QED BY <1>1, <1>2, <2>1, <2>2 DEF FreshInv, Stays
<1> QED BY <1>3, <1>4

(* A registration sets the target of the device that is registered, if any. *)
LEMMA RegisterKeepsFresh ==
    ASSUME Inv, FreshInv, NEW d \in Devices, d \in reload.register,
           UNCHANGED <<survived, conn, built, pool, known>>,
           \/ Registered(d) /\ target' = target
           \/ /\ reload.stop = {}
              /\ Registered(d) \/ Refused(d)
              /\ \/ target' = target
                 \/ \E n \in Nat, state \in {"on", "refused"} :
                      /\ state = "on" => Registered(d)
                      /\ target' = [target EXCEPT ![conn[d]] =
                                      [k \in DOMAIN @ \cup {n} |->
                                          IF k = n THEN Target(d, state) ELSE @[k]]]
    PROVE  FreshInv'
<1>0. reload \in ReloadRecord
  BY DEF Inv, TypeOK, CallerTypes, ReloadRecord
<1>1. Opened' = Opened /\ d \in Opened /\ d \notin reload.stop /\ conn[d] = pool /\ pool \in Links
  BY OpenedHoldPool DEF Opened, Inv, CallerInv
<1>2. /\ reload'.register = reload.register \ {d} /\ reload'.late = reload.late
      /\ reload'.stop = reload.stop \/ (Refused(d) /\ reload'.stop = {d})
      /\ Registered(d) => reload'.stop = reload.stop
  BY <1>0 DEF Registered, Refused, ReloadRecord
<1>3. Stays
  BY <1>1 DEF Stays
<1> SUFFICES ASSUME ~survived PROVE FreshInv'
  BY DEF FreshInv
<1>4. built[pool] = known.config
  BY <1>1, <1>3 DEF FreshInv
<1>5. ASSUME NEW k \in DOMAIN target[pool]
      PROVE  /\ target[pool][k].state # "gone"
             /\ target[pool][k].state = "on" =>
                   target[pool][k].device \in Opened \ (reload'.register \cup reload'.stop)
  <2>1. /\ target[pool][k].state # "gone"
        /\ target[pool][k].state = "on" =>
              target[pool][k].device \in Opened \ (reload.register \cup reload.stop)
    BY <1>3, <1>5 DEF FreshInv
  <2> QED BY <1>1, <1>2, <2>1
<1>6. CASE target' = target
  BY <1>1, <1>4, <1>5, <1>6 DEF FreshInv
<1>7. ASSUME NEW n \in Nat, NEW state \in {"on", "refused"},
             state = "on" => Registered(d), reload.stop = {},
             target' = [target EXCEPT ![conn[d]] =
                          [k \in DOMAIN @ \cup {n} |->
                              IF k = n THEN Target(d, state) ELSE @[k]]]
      PROVE  FreshInv'
  <2>1. target'[pool] = [k \in DOMAIN target[pool] \cup {n} |->
                            IF k = n THEN Target(d, state) ELSE target[pool][k]]
    BY <1>1, <1>7 DEF Inv, TypeOK, PushTypes, TargetTypes
  <2>2. /\ Target(d, state).state # "gone"
        /\ Target(d, state).state = "on" =>
              Target(d, state).device \in Opened \ (reload'.register \cup reload'.stop)
    <3>1. Target(d, state).device = d /\ Target(d, state).state = state
      BY DEF Target
    <3> QED BY <1>1, <1>2, <1>7, <3>1
  <2>3. ASSUME NEW k \in DOMAIN target'[pool]
        PROVE  /\ target'[pool][k].state # "gone"
               /\ target'[pool][k].state = "on" =>
                     target'[pool][k].device \in Opened' \ (reload'.register \cup reload'.stop)
    <3>1. CASE k = n
      BY <1>1, <2>1, <2>2, <3>1
    <3>2. CASE k # n
      <4>1. k \in DOMAIN target[pool] /\ target'[pool][k] = target[pool][k]
        BY <2>1, <2>3, <3>2
      <4> QED BY <1>1, <1>5, <4>1
    <3> QED BY <3>1, <3>2
  <2> QED BY <1>4, <2>3 DEF FreshInv
<1> QED BY <1>6, <1>7

LEMMA RegisterStepsKeepFresh ==
    ASSUME Inv, FreshInv, NEW d \in Devices, Schedule(d) \/ Subscribe(d) \/ Listen(d)
    PROVE  FreshInv'
<1>1. d \in reload.register /\ UNCHANGED <<survived, conn, built, pool, known>>
  BY DEF Schedule, Subscribe, Listen, Registering, poolVars
<1>2. conn[d] \in Links
  BY <1>1, OpenedHoldPool DEF Opened, Inv, CallerInv
<1>3. CASE Schedule(d)
  BY <1>1, <1>3, RegisterKeepsFresh DEF Schedule
<1>4. CASE Subscribe(d)
  <2>1. reload.stop = {} /\ next[conn[d]] \in Nat
    BY <1>2, <1>4 DEF Subscribe, Registering, Inv, TypeOK, PushTypes
  <2>2. CASE target' = target /\ (Registered(d) \/ Refused(d))
    BY <1>1, <2>1, <2>2, RegisterKeepsFresh
  <2>3. CASE MonitorAnswers(d, conn[d])
    BY <1>1, <2>1, <2>3, RegisterKeepsFresh DEF MonitorAnswers, Handle
  <2> QED
    BY <1>4, <2>2, <2>3 DEF Subscribe, SubscribeFails, MonitorRejects, MonitorTimesOut
<1>5. CASE Listen(d)
  <2>1. reload.stop = {} /\ UnitOf[d] \in Nat
    BY <1>5, DriversAssumption DEF Listen
  <2>2. CASE Routed(d, conn[d], "on") /\ Registered(d)
    BY <1>1, <2>1, <2>2, RegisterKeepsFresh DEF Routed
  <2>3. CASE Routed(d, conn[d], "refused") /\ Refused(d)
    BY <1>1, <2>1, <2>3, RegisterKeepsFresh DEF Routed
  <2> QED BY <1>5, <2>2, <2>3 DEF Listen
<1> QED BY <1>3, <1>4, <1>5

LEMMA FreshStep == Inv /\ NoTargets /\ FreshInv /\ [Next]_vars => FreshInv'
<1> SUFFICES ASSUME Inv, NoTargets, FreshInv, [Next]_vars PROVE FreshInv'
  OBVIOUS
<1>1. ASSUME UNCHANGED <<survived, conn, built, known, pool, target, reload>> PROVE FreshInv'
  BY <1>1, SameFresh
<1>2. CASE SaveConnection \/ SaveDevice \/ DeleteDevice
  BY <1>1, <1>2 DEF SaveConnection, SaveDevice, DeleteDevice, Edit, poolVars, pushVars
<1>3. ASSUME NEW u \in Users, GetConnection(u) \/ UserAsks(u) PROVE FreshInv'
  BY <1>1, <1>3 DEF GetConnection, UserAsks, poolVars, pushVars
<1>4. CASE BusNext \/ PushNext \/ UNCHANGED vars
  BY <1>1, <1>4
  DEF BusNext, FireTask, SelectUnit, Transact, PushNext, ReleaseReturns, Notify, Callback,
      DispatchExits, Accept, Frame, PeerLeaves, CloseSocket, vars, callerVars, poolVars, pushVars
<1> QED
  BY <1>2, <1>3, <1>4, StopKeepsFresh, OpenKeepsFresh, UserOpensKeepsFresh,
     UserClosesKeepsFresh, ReloadKeepsFresh, RegisterStepsKeepFresh
  DEF Next, SchedulerNext, UserNext

(* Whatever is edited and restarted: unless a one-shot user held the connection through *)
(* a restart, the devices use a connection of the configuration that was read, and no   *)
(* target of a device that was stopped is left in it (modbus.go:130, opcua.go:283).     *)
THEOREM RestartsAreFresh == Spec => []FreshAfterRestart
<1>1. Init => NoTargets /\ FreshInv
  BY DEF Init, NoTargets, FreshInv, Stays, Opened, Holders
<1>2. Inv /\ FreshInv => FreshAfterRestart
  <2> SUFFICES ASSUME Inv, FreshInv, ~survived PROVE FreshAfterRestart
    BY DEF FreshAfterRestart
  <2>1. ASSUME NEW d \in Opened \ reload.stop PROVE built[conn[d]] = known.config
    <3>1. Stays /\ conn[d] = pool
      BY OpenedHoldPool DEF Stays
    <3> QED BY <3>1 DEF FreshInv
  <2>2. reload.stop = {} /\ Opened # {} => Stays
    BY DEF Stays
  <2> QED BY <2>1, <2>2 DEF FreshInv, FreshAfterRestart
<1>3. Inv /\ NoTargets /\ FreshInv /\ [Next]_vars => NoTargets' /\ FreshInv'
  BY NoTargetsStep, FreshStep
<1> QED BY <1>1, <1>2, <1>3, InvHolds, PTL DEF Spec

-----------------------------------------------------------------------------
(* Where notifications go.                                                   *)

(* The listener tells devices apart by their unit IDs. *)
UnitsDiffer ==
    "listen" \in Kinds => \A d, e \in Devices : UnitOf[d] = UnitOf[e] => d = e

(* The callback that runs on a link is for a target that is still there; a handle is      *)
(* given once, so the target of an item is that of the device it was monitored for; and   *)
(* only the dispatcher, which stops before its session is closed, runs callbacks.         *)
SoundOn(l) ==
    /\ kind # "opcua" => sub[l] = "none"
    /\ kind # "listen" => ~peer[l]
    /\ sub[l] = "on" => link[l] = "open"
    /\ kind = "opcua" /\ sub[l] # "on" => hand[l] = None
    /\ kind = "listen" => \A k \in DOMAIN target[l] : UnitOf[target[l][k].device] = k
    /\ kind = "opcua" => \A k \in DOMAIN target[l] : k < next[l]
    /\ hand[l] # None => hand[l].key \in DOMAIN target[l]
    /\ lost = 0 =>
          /\ hand[l] # None => target[l][hand[l].key].device = hand[l].about
          /\ kind = "opcua" =>
                \A i \in item[l] : /\ i.handle \in DOMAIN target[l]
                                   /\ target[l][i.handle].device = i.device

NotifyInv == \A l \in Links : SoundOn(l)

(* What leaves the targets of the link to their devices keeps the link sound. *)
LEMMA SameSound ==
    ASSUME NEW l \in Links, SoundOn(l), kind' = kind, lost' = lost,
           sub'[l] = sub[l], item'[l] = item[l], next'[l] = next[l], hand'[l] = hand[l],
           peer'[l] = peer[l],
           sub[l] = "on" /\ link[l] = "open" => link'[l] = "open",
           DOMAIN target'[l] = DOMAIN target[l],
           \A k \in DOMAIN target[l] : target'[l][k].device = target[l][k].device
    PROVE  SoundOn(l)'
BY DEF SoundOn

LEMMA AcquireKeepsSound ==
    ASSUME Inv, NotifyInv, kind' = kind, NEW h \in Holders, NEW cfg, Acquire(h, cfg)
    PROVE  NotifyInv'
<1>1. UNCHANGED <<lost, hand, peer>>
  BY DEF Acquire
<1>2. CASE Join(h)
  <2>1. UNCHANGED <<link, target, item, next, sub>>
    BY <1>2 DEF Join
  <2> QED BY <1>1, <2>1 DEF NotifyInv, SoundOn
<1>3. ASSUME NEW state, Make(h, cfg, state) PROVE NotifyInv'
  <2>1. /\ pool' \in Links /\ Unused(pool')
        /\ link' = [link EXCEPT ![pool'] = state]
        /\ target' = [target EXCEPT ![pool'] = <<>>]
        /\ item' = [item EXCEPT ![pool'] = {}]
        /\ next' = [next EXCEPT ![pool'] = 0]
        /\ sub' = [sub EXCEPT ![pool'] = "none"]
    BY <1>3, MakeKeeps DEF Inv, TypeOK
  <2>2. hand[pool'] = None /\ ~peer[pool']
    BY <2>1 DEF Unused
  <2>3. DOMAIN <<>> = {}
    OBVIOUS
  <2>4. /\ DOMAIN target'[pool'] = {} /\ item'[pool'] = {} /\ sub'[pool'] = "none"
        /\ hand'[pool'] = None /\ ~peer'[pool']
    BY <1>1, <2>1, <2>2, <2>3 DEF Inv, TypeOK, PushTypes, TargetTypes
  <2>5. PICK l \in Links : l = pool'
    BY <2>1
  <2>6. SoundOn(l)'
    BY <2>4, <2>5 DEF SoundOn
  <2>7. ASSUME NEW k \in Links, k # l PROVE SoundOn(k)'
    <3>1. /\ target'[k] = target[k] /\ item'[k] = item[k] /\ next'[k] = next[k]
          /\ sub'[k] = sub[k] /\ link'[k] = link[k]
      BY <2>1, <2>5, <2>7 DEF Inv, TypeOK, PoolTypes, PushTypes, TargetTypes
    <3> QED BY <1>1, <3>1, SameSound DEF NotifyInv
  <2> QED BY <2>6, <2>7 DEF NotifyInv
<1> QED BY <1>2, <1>3 DEF Acquire, AcquireModbus, AcquireOpcua, AcquireListen

LEMMA ReleaseKeepsSound ==
    ASSUME Inv, NotifyInv, kind' = kind, NEW h \in Holders, Release(h)
    PROVE  NotifyInv'
<1>1. UNCHANGED <<lost, hand, peer, item, next, sub>>
  BY DEF Release, ReleaseModbus, ReleaseOpcua, ReleaseListen, Leave
<1>2. conn[h] = pool /\ pool \in Links
  BY ReleaseKeeps DEF Inv
<1>3. target' = [target EXCEPT ![pool] = Disowned(target[pool], h)]
  BY <1>2 DEF Release, ReleaseModbus, ReleaseOpcua, ReleaseListen, Leave
<1>4. ASSUME NEW l \in Links
      PROVE  /\ DOMAIN target'[l] = DOMAIN target[l]
             /\ \A k \in DOMAIN target[l] : target'[l][k].device = target[l][k].device
  <2>1. CASE l = pool
    <3>1. target'[l] = Disowned(target[l], h)
      BY <1>3, <2>1 DEF Inv, TypeOK, PushTypes, TargetTypes
    <3>2. DOMAIN Disowned(target[l], h) = DOMAIN target[l]
      BY DEF Disowned
    <3>3. ASSUME NEW k \in DOMAIN target[l]
          PROVE  Disowned(target[l], h)[k].device = target[l][k].device
      <4>1. CASE target[l][k] = [device |-> h, state |-> "on"]
        BY <4>1 DEF Disowned
      <4>2. CASE target[l][k] # [device |-> h, state |-> "on"]
        BY <4>2 DEF Disowned
      <4> QED BY <4>1, <4>2
    <3> QED BY <3>1, <3>2, <3>3
  <2>2. CASE l # pool
    BY <1>3, <2>2 DEF Inv, TypeOK, PushTypes, TargetTypes
  <2> QED BY <2>1, <2>2
<1>5. ASSUME NEW l \in Links, sub[l] = "on", link[l] = "open" PROVE link'[l] = "open"
  <2>1. kind = "opcua"
    BY <1>5 DEF NotifyInv, SoundOn
  <2>2. link' = link \/ (link' = [link EXCEPT ![pool] = "closed"] /\ sub[pool] = "none")
    BY <1>2, <2>1 DEF Release, ReleaseModbus, ReleaseOpcua, ReleaseListen
  <2> QED BY <1>5, <2>2 DEF Inv, TypeOK, PoolTypes
<1> QED BY <1>1, <1>4, <1>5, SameSound DEF NotifyInv

LEMMA ListenKeepsSound ==
    ASSUME UnitsDiffer, Inv, NotifyInv, NEW d \in Devices, Listen(d)
    PROVE  NotifyInv'
<1>1. /\ kind = "listen" /\ kind' = kind /\ "listen" \in Kinds
      /\ UNCHANGED <<lost, hand, peer, item, next, sub>>
  BY DEF Listen, Inv, TypeOK
<1>2. PICK m \in Links : m = conn[d]
  BY OpenedHoldPool DEF Listen, Opened, Inv, CallerInv
<1>3. PICK state : Routed(d, m, state)
  BY <1>2 DEF Listen
<1>4. target'[m] = [k \in DOMAIN target[m] \cup {UnitOf[d]} |->
                       IF k = UnitOf[d] THEN Target(d, state) ELSE target[m][k]]
  BY <1>3 DEF Routed, Inv, TypeOK, PushTypes, TargetTypes
<1>5. Target(d, state).device = d
  BY DEF Target
<1>6. \A k \in DOMAIN target[m] : target[m][k].device \in Devices /\ UnitOf[target[m][k].device] = k
  BY <1>1 DEF NotifyInv, SoundOn, Inv, TypeOK, PushTypes, TargetTypes
<1>7. /\ DOMAIN target[m] \subseteq DOMAIN target'[m]
      /\ \A k \in DOMAIN target[m] : target'[m][k].device = target[m][k].device
      /\ \A k \in DOMAIN target'[m] : UnitOf[target'[m][k].device] = k
  <2>1. DOMAIN target'[m] = DOMAIN target[m] \cup {UnitOf[d]}
    BY <1>4
  <2>2. ASSUME NEW k \in DOMAIN target[m] PROVE target'[m][k].device = target[m][k].device
    <3>1. CASE k = UnitOf[d]
      <4>1. target[m][k].device = d
        BY <1>1, <1>6, <3>1 DEF UnitsDiffer
      <4>2. target'[m][k] = Target(d, state)
        BY <1>4, <3>1
      <4> QED BY <1>5, <4>1, <4>2
    <3>2. CASE k # UnitOf[d]
      BY <1>4, <3>2
    <3> QED BY <3>1, <3>2
  <2>3. target'[m][UnitOf[d]].device = d
    BY <1>4, <1>5
  <2> QED BY <1>6, <2>1, <2>2, <2>3
<1>8. SoundOn(m)'
  BY <1>1, <1>7 DEF NotifyInv, SoundOn
<1>9. ASSUME NEW l \in Links, l # m PROVE SoundOn(l)'
  <2>1. target'[l] = target[l]
    BY <1>3, <1>9 DEF Routed, Inv, TypeOK, PushTypes, TargetTypes
  <2>2. sub[l] # "on"
    BY <1>1 DEF NotifyInv, SoundOn
  <2> QED BY <1>1, <2>1, <2>2, SameSound DEF NotifyInv
<1> QED BY <1>8, <1>9 DEF NotifyInv

LEMMA SubscribeKeepsSound ==
    ASSUME Inv, NotifyInv, NEW d \in Devices, Subscribe(d)
    PROVE  NotifyInv'
<1>1. kind = "opcua" /\ kind' = kind /\ UNCHANGED <<hand, peer, link>>
  BY DEF Subscribe, Registering, poolVars
<1>2. PICK m \in Links : m = conn[d] /\ m = pool
  BY OpenedHoldPool DEF Subscribe, Registering, Opened, Inv, CallerInv
<1>3. link[m] = "open"
  BY <1>1, <1>2, DriversAssumption DEF Inv, LinkInv
<1>4. next[m] \in Nat /\ lost \in Nat /\ DOMAIN target[m] \subseteq Nat
  BY DriversAssumption DEF Inv, TypeOK, PushTypes, TargetTypes
<1>5. \A k \in DOMAIN target[m] : k < next[m]
  BY <1>1 DEF NotifyInv, SoundOn
<1>6. sub' = sub \/ sub' = [sub EXCEPT ![m] = IF @ = "none" THEN "on" ELSE @]
  BY <1>2 DEF Subscribe, SubscribeFails
<1>7. sub'[m] \in {sub[m], "on"}
  BY <1>6 DEF Inv, TypeOK, PushTypes
<1>8. ASSUME NEW l \in Links, l # m PROVE SoundOn(l)'
  <2>1. target'[l] = target[l] /\ item'[l] = item[l] /\ next'[l] = next[l] /\ sub'[l] = sub[l]
    <3>1. sub'[l] = sub[l]
      BY <1>6, <1>8 DEF Inv, TypeOK, PushTypes
    <3>2. target'[l] = target[l] /\ item'[l] = item[l] /\ next'[l] = next[l]
      BY <1>2, <1>8
      DEF Subscribe, SubscribeFails, MonitorAnswers, MonitorRejects, MonitorTimesOut, Inv, TypeOK,
          PushTypes, TargetTypes
    <3> QED BY <3>1, <3>2
  <2>2. CASE lost' = lost
    BY <1>1, <2>1, <2>2, SameSound DEF NotifyInv
  <2>3. CASE lost' = lost + 1
    BY <1>1, <1>4, <2>1, <2>3 DEF NotifyInv, SoundOn
  <2> QED
    BY <2>2, <2>3
    DEF Subscribe, SubscribeFails, MonitorAnswers, MonitorRejects, MonitorTimesOut
<1>9. SoundOn(m)'
  <2>1. CASE SubscribeFails(d)
    BY <1>1, <2>1, SameSound DEF SubscribeFails, NotifyInv
  <2>2. CASE MonitorRejects(d, m)
    <3>1. next'[m] = next[m] + 1
      BY <2>2 DEF MonitorRejects, Inv, TypeOK, PushTypes
    <3>2. UNCHANGED <<target, item, lost>>
      BY <2>2 DEF MonitorRejects
    <3> QED BY <1>1, <1>3, <1>4, <1>7, <3>1, <3>2 DEF NotifyInv, SoundOn
  <2>3. CASE MonitorTimesOut(d, m)
    <3>1. lost' # 0 /\ UNCHANGED <<target, next>>
      BY <1>4, <2>3 DEF MonitorTimesOut
    <3> QED BY <1>1, <1>3, <1>7, <3>1 DEF NotifyInv, SoundOn
  <2>4. CASE MonitorAnswers(d, m)
    <3>1. /\ next'[m] = next[m] + 1 /\ lost' = lost
          /\ item'[m] = item[m] \cup {[handle |-> next[m], device |-> d]}
          /\ target'[m] = [k \in DOMAIN target[m] \cup {next[m]} |->
                              IF k = next[m] THEN Target(d, "on") ELSE target[m][k]]
      BY <2>4 DEF MonitorAnswers, Handle, Inv, TypeOK, PushTypes, TargetTypes
    <3>2. Target(d, "on").device = d
      BY DEF Target
    <3>3. /\ DOMAIN target'[m] = DOMAIN target[m] \cup {next[m]}
          /\ \A k \in DOMAIN target[m] : target'[m][k] = target[m][k]
          /\ target'[m][next[m]].device = d
      BY <1>4, <1>5, <3>1, <3>2
    <3>4. \A k \in DOMAIN target'[m] : k < next'[m]
      BY <1>4, <1>5, <3>1, <3>3
    <3>5. ASSUME lost = 0, NEW i \in item'[m]
          PROVE  i.handle \in DOMAIN target'[m] /\ target'[m][i.handle].device = i.device
      <4>1. CASE i \in item[m]
        BY <1>1, <3>3, <3>5, <4>1 DEF NotifyInv, SoundOn
      <4>2. CASE i = [handle |-> next[m], device |-> d]
        BY <3>3, <4>2
      <4> QED BY <3>1, <3>5, <4>1, <4>2
    <3> QED BY <1>1, <1>3, <1>7, <3>1, <3>3, <3>4, <3>5 DEF NotifyInv, SoundOn
  <2> QED BY <1>2, <2>1, <2>2, <2>3, <2>4 DEF Subscribe
<1> QED BY <1>8, <1>9 DEF NotifyInv

LEMMA PushKeepsSound == ASSUME Inv, NotifyInv, PushNext PROVE NotifyInv'
<1> USE DEF callerVars, poolVars, busVars
<1>1. CASE ReleaseReturns
  <2>1. PICK m \in Links : sub[m] = "off" /\ link' = [link EXCEPT ![m] = "closed"]
    BY <1>1 DEF ReleaseReturns, DispatchDone
  <2>2. \A l \in Links : sub[l] = "on" => link'[l] = link[l]
    BY <2>1 DEF Inv, TypeOK, PoolTypes
  <2> QED BY <1>1, <2>2, SameSound DEF ReleaseReturns, NotifyInv
<1>2. ASSUME NEW m \in Links, CloseSocket(m) PROVE NotifyInv'
  <2>1. \A l \in Links : sub[l] # "on"
    BY <1>2 DEF CloseSocket, NotifyInv, SoundOn
  <2> QED BY <1>2, <2>1, SameSound DEF CloseSocket, NotifyInv, pushVars
<1>3. ASSUME NEW m \in Links, DispatchExits(m) PROVE NotifyInv'
  <2>1. sub'[m] = "off" /\ item'[m] = {} /\ hand[m] = None
    BY <1>3 DEF DispatchExits, Inv, TypeOK, PushTypes
  <2>2. \A l \in Links \ {m} : sub'[l] = sub[l] /\ item'[l] = item[l]
    BY <1>3 DEF DispatchExits, Inv, TypeOK, PushTypes
  <2>3. SoundOn(m)'
    BY <1>3, <2>1 DEF DispatchExits, NotifyInv, SoundOn
  <2>4. \A l \in Links \ {m} : SoundOn(l)'
    BY <1>3, <2>2, SameSound DEF DispatchExits, NotifyInv
  <2> QED BY <2>3, <2>4 DEF NotifyInv
<1>4. ASSUME NEW m \in Links, Accept(m) \/ PeerLeaves(m) PROVE NotifyInv'
  <2>1. UNCHANGED <<kind, lost, sub, item, next, hand, link, target>>
    BY <1>4 DEF Accept, PeerLeaves
  <2>2. kind # "listen" => peer' = peer
    BY <1>4 DEF Accept, PeerLeaves, NotifyInv, SoundOn
  <2> QED BY <2>1, <2>2 DEF NotifyInv, SoundOn
<1>5. ASSUME NEW m \in Links, Callback(m) \/ Notify(m) \/ Frame(m) PROVE NotifyInv'
  <2>1. UNCHANGED <<kind, lost, sub, item, next, peer, link, target>>
    BY <1>5 DEF Callback, Notify, Frame
  <2>2. \A l \in Links \ {m} : hand'[l] = hand[l]
    BY <1>5 DEF Callback, Notify, Frame, Inv, TypeOK, PushTypes
  <2>3. \A l \in Links \ {m} : SoundOn(l)'
    BY <2>1, <2>2, SameSound DEF NotifyInv
  <2>4. CASE hand'[m] = None
    BY <2>1, <2>3, <2>4 DEF NotifyInv, SoundOn
  <2>5. CASE Notify(m)
    <3>1. PICK i \in item[m] : /\ i.handle \in DOMAIN target[m]
                               /\ hand' = [hand EXCEPT ![m] = [key |-> i.handle, about |-> i.device]]
      BY <2>5 DEF Notify
    <3>2. hand'[m].key = i.handle /\ hand'[m].about = i.device
      BY <3>1 DEF Inv, TypeOK, PushTypes
    <3>3. sub[m] = "on" /\ kind = "opcua"
      BY <2>5 DEF Notify, NotifyInv, SoundOn
    <3>4. lost = 0 => target[m][i.handle].device = i.device
      BY <3>3 DEF NotifyInv, SoundOn
    <3> QED BY <2>1, <2>3, <3>1, <3>2, <3>3, <3>4 DEF NotifyInv, SoundOn
  <2>6. CASE Frame(m)
    <3>1. PICK k \in DOMAIN target[m] :
             hand' = [hand EXCEPT ![m] = [key |-> k, about |-> target[m][k].device]]
      BY <2>6 DEF Frame
    <3>2. hand'[m].key = k /\ hand'[m].about = target[m][k].device
      BY <3>1 DEF Inv, TypeOK, PushTypes
    <3>3. kind = "listen"
      BY <2>6 DEF Frame, NotifyInv, SoundOn
    <3> QED BY <2>1, <2>3, <3>1, <3>2, <3>3 DEF NotifyInv, SoundOn
  <2>7. Callback(m) => hand'[m] = None
    BY DEF Callback, Inv, TypeOK, PushTypes
  <2> QED BY <1>5, <2>4, <2>5, <2>6, <2>7
<1> QED BY <1>1, <1>2, <1>3, <1>4, <1>5 DEF PushNext

LEMMA NotifyStep == UnitsDiffer /\ Inv /\ NotifyInv /\ [Next]_vars => NotifyInv'
<1> SUFFICES ASSUME UnitsDiffer, Inv, NotifyInv, [Next]_vars PROVE NotifyInv'
  OBVIOUS
<1>0. kind' = kind
  BY KindStays
<1>1. ASSUME UNCHANGED <<link, target, item, next, sub, peer, hand, lost>> PROVE NotifyInv'
  BY <1>0, <1>1 DEF NotifyInv, SoundOn
<1>2. CASE SaveConnection \/ SaveDevice \/ DeleteDevice \/ ReloadBegins \/ ReloadEnds
  BY <1>1, <1>2
  DEF SaveConnection, SaveDevice, DeleteDevice, Edit, ReloadBegins, ReloadEnds, poolVars, pushVars
<1>3. ASSUME NEW d \in Devices, StopDevice(d) \/ OpenDevice(d) \/ Schedule(d) PROVE NotifyInv'
  BY <1>0, <1>1, <1>3, AcquireKeepsSound, ReleaseKeepsSound
  DEF StopDevice, OpenDevice, DialFails, Schedule, Registering, Holders, poolVars, pushVars
<1>4. CASE UserNext
  BY <1>0, <1>1, <1>4, AcquireKeepsSound, ReleaseKeepsSound
  DEF UserNext, GetConnection, UserOpens, DialFails, UserAsks, UserCloses, Holders, poolVars,
      pushVars
<1>5. ASSUME NEW t \in Asking, Transact(t) PROVE NotifyInv'
  <2>1. link' = link \/ (link[req[t].link] = "closed"
                         /\ link' = [link EXCEPT ![req[t].link] = "stray"])
    BY <1>5 DEF Transact
  <2>2. \A l \in Links : link[l] = "open" => link'[l] = "open"
    BY <2>1 DEF Inv, TypeOK, PoolTypes
  <2> QED BY <1>5, <2>2, SameSound DEF Transact, NotifyInv, pushVars
<1>6. CASE BusNext
  BY <1>1, <1>5, <1>6 DEF BusNext, FireTask, SelectUnit, Asking, poolVars, pushVars
<1>7. CASE UNCHANGED vars
  BY <1>1, <1>7 DEF vars, poolVars, pushVars
<1> QED
  BY <1>2, <1>3, <1>4, <1>6, <1>7, ListenKeepsSound, SubscribeKeepsSound, PushKeepsSound
  DEF Next, SchedulerNext

(* When the devices of a listener have unit IDs of their own, which is how it tells them *)
(* apart: what a callback hands on goes to the device it is about, as long as no answer  *)
(* of the server was lost, and none runs after the session is closed (opcua.go:312-324,  *)
(* 650, modbus_listen.go:194-212).                                                       *)
THEOREM NotificationsReachTheirDevice ==
    ASSUME UnitsDiffer PROVE Spec => []NotificationsAreSound
<1>1. Init => NotifyInv
  <2>1. DOMAIN <<>> = {}
    OBVIOUS
  <2> QED BY <2>1 DEF Init, NotifyInv, SoundOn
<1>2. NotifyInv => NotificationsAreSound
  BY DEF NotifyInv, SoundOn, NotificationsAreSound
<1>3. Inv /\ NotifyInv /\ [Next]_vars => NotifyInv'
  BY NotifyStep
<1> QED BY <1>1, <1>2, <1>3, InvHolds, PTL DEF Spec
=============================================================================

---------------------------- MODULE OutputsProofs -----------------------------
(* For any outputs, devices, values and bounds: what the batch outputs hold,   *)
(* where every collected point is, and what the other side shows of a device;  *)
(* the same of the Sparkplug output, with the aliases it gives to the points.  *)
EXTENDS AllOutputs, FiniteSetTheorems, SequenceTheorems, WellFoundedInduction, TLAPS

-----------------------------------------------------------------------------
(* The inductive invariant.                                                   *)

Distinct(s) == \A i, j \in DOMAIN s : s[i] = s[j] => i = j

(* No point is held twice, and only collected points are held. *)
HeldOnce ==
    /\ Distinct(rows) /\ \A d \in Devices : Distinct(pending[d]) /\ Distinct(flush.batch[d])
    /\ Held(pending) \cap Held(flush.batch) = {}
    /\ (Held(pending) \cup Held(flush.batch)) \cap ToSet(rows) = {}
    /\ \A p \in Held(pending) \cup Held(flush.batch) \cup ToSet(rows) : p.n <= made

(* TypeOK, in two parts: the points that are held, and the rest.                           *)
PointTypes ==
    /\ pending \in Batches /\ flush.batch \in Batches
    /\ \A d \in Devices : \A p \in ToSet(pending[d]) \cup ToSet(flush.batch[d]) : p.dev = d
    /\ IsFiniteSet(Held(pending)) /\ pendingCount = Cardinality(Held(pending))
    /\ kind # "tdengine" => pendingCount <= MaxPending
    /\ rows \in Seq(Points)
    /\ made \in 0..MaxPoints

ControlTypes ==
    /\ kind \in Kinds
    /\ flush \in [leaving : SUBSET Devices, coming : SUBSET Devices, batch : Batches]
    /\ {coming, leaving, connected, mapped, skewed, failed} \subseteq SUBSET Devices
    /\ last \in [Devices -> Values \cup {None}]
    /\ phase \in {"run", "closing", "closed"}
    /\ link \in {"up", "retrying", "down"}
    /\ peer \in [got : SUBSET Points, shows : SUBSET Devices,
                 value : [Devices -> Values \cup {None}]]
    /\ online \in [Devices -> BOOLEAN]
    /\ lost \subseteq [point : Points, why : {"database", "unmapped", "closed", "skipped"}]

(* A point is saved: sent, still to be sent, or lost for a reason that NothingLost names.  *)
Excused(p) == \E l \in lost : l.point = p /\ (l.why = "skipped" => p.dev \in failed)

Safe(p) ==
    p \in peer.got \cup Held(pending) \cup Held(flush.batch) \cup ToSet(rows) \/ Excused(p)

(* The value that smardaten has noted is the one the platform shows, unless a report of   *)
(* the device has failed.                                                                  *)
NotedInv ==
    \A d \in Devices : last[d] # None =>
        kind = "smardaten" /\ (last[d] = peer.value[d] \/ d \in failed)

(* What is known of a device whose notifications were all heard: one of two that nobody    *)
(* has handled yet says what the last notification said, and where there is none the other *)
(* side, or smardaten's diagnosis, shows it.                                               *)
Told(d) == d \in flush.coming \/ d \in flush.leaving

StatusOf(d) ==
    /\ d \in coming => online[d]
    /\ d \in leaving => ~online[d]
    /\ d \notin coming \cup leaving =>
         /\ kind = "thingsboard" =>
              /\ d \in flush.coming => online[d]
              /\ d \in flush.leaving => ~online[d]
              /\ ~Told(d) => (d \in peer.shows <=> online[d])
         /\ kind = "smardaten" => (d \in connected <=> online[d])

StatusInv ==
    /\ phase # "closed" => \A d \in Devices \ skewed : StatusOf(d)
    /\ coming \cap leaving = {} /\ flush.coming \cap flush.leaving = {}

-----------------------------------------------------------------------------
(* Sequences of points.                                                       *)

LEMMA SetOfAppend ==
    ASSUME NEW S, NEW s \in Seq(S), NEW p \in S
    PROVE  /\ ToSet(Append(s, p)) = ToSet(s) \cup {p}
           /\ (Distinct(s) /\ p \notin ToSet(s)) => Distinct(Append(s, p))
<1>1. /\ DOMAIN s = 1 .. Len(s) /\ DOMAIN Append(s, p) = 1 .. Len(s) + 1 /\ Len(s) \in Nat
      /\ \A i \in 1 .. Len(s) : Append(s, p)[i] = s[i]
      /\ Append(s, p)[Len(s) + 1] = p
  OBVIOUS
<1> QED BY <1>1 DEF ToSet, Distinct

LEMMA SetOfConcat ==
    ASSUME NEW S, NEW s \in Seq(S), NEW t \in Seq(S)
    PROVE  /\ ToSet(s \o t) = ToSet(s) \cup ToSet(t)
           /\ (Distinct(s) /\ Distinct(t) /\ ToSet(s) \cap ToSet(t) = {}) => Distinct(s \o t)
<1> DEFINE m == Len(s)
           n == Len(t)
<1>1. /\ m \in Nat /\ n \in Nat /\ DOMAIN s = 1 .. m /\ DOMAIN t = 1 .. n
      /\ DOMAIN (s \o t) = 1 .. m + n
      /\ \A i \in 1 .. m : (s \o t)[i] = s[i]
      /\ \A i \in m + 1 .. m + n : (s \o t)[i] = t[i - m]
  OBVIOUS
<1> HIDE DEF m, n
<1>2. /\ \A i \in 1 .. n : m + i \in m + 1 .. m + n /\ (s \o t)[m + i] = t[i]
      /\ \A i \in m + 1 .. m + n : i - m \in 1 .. n
  BY <1>1
<1>3. ToSet(s \o t) = ToSet(s) \cup ToSet(t)
  <2>1. ASSUME NEW i \in 1 .. m + n PROVE (s \o t)[i] \in ToSet(s) \cup ToSet(t)
    BY <1>1, SMTT(30) DEF ToSet
  <2>2. ToSet(s) \subseteq ToSet(s \o t)
    BY <1>1 DEF ToSet
  <2>3. ToSet(t) \subseteq ToSet(s \o t)
    <3> SUFFICES ASSUME NEW i \in 1 .. n PROVE t[i] \in ToSet(s \o t)
      BY <1>1 DEF ToSet
    <3>1. m + i \in 1 .. m + n /\ (s \o t)[m + i] = t[i]
      BY <1>1, <1>2
    <3> QED BY <1>1, <3>1 DEF ToSet
  <2>4. ToSet(s \o t) \subseteq ToSet(s) \cup ToSet(t)
    BY <1>1, <2>1 DEF ToSet
  <2> QED BY <2>2, <2>3, <2>4
<1>4. ASSUME Distinct(s), Distinct(t), ToSet(s) \cap ToSet(t) = {} PROVE Distinct(s \o t)
  <2> SUFFICES ASSUME NEW i \in 1 .. m + n, NEW j \in 1 .. m + n, (s \o t)[i] = (s \o t)[j]
               PROVE  i = j
    BY <1>1 DEF Distinct
  <2>1. CASE i \in 1 .. m /\ j \in 1 .. m
    BY <1>1, <1>4, <2>1 DEF Distinct
  <2>2. CASE i \in m + 1 .. m + n /\ j \in m + 1 .. m + n
    <3>1. i - m \in 1 .. n /\ j - m \in 1 .. n /\ t[i - m] = t[j - m]
      BY <1>1, <2>2
    <3>2. i - m = j - m
      BY <1>1, <1>4, <3>1 DEF Distinct
    <3> QED BY <1>1, <3>2
  <2>3. CASE i \in 1 .. m /\ j \in m + 1 .. m + n
    <3>1. s[i] \in ToSet(s) /\ t[j - m] \in ToSet(t)
      BY <1>1, <1>2, <2>3 DEF ToSet
    <3>2. s[i] = t[j - m]
      BY <1>1, <2>3
    <3> QED BY <1>4, <3>1, <3>2
  <2>4. CASE j \in 1 .. m /\ i \in m + 1 .. m + n
    <3>1. s[j] \in ToSet(s) /\ t[i - m] \in ToSet(t)
      BY <1>1, <1>2, <2>4 DEF ToSet
    <3>2. s[j] = t[i - m]
      BY <1>1, <2>4
    <3> QED BY <1>4, <3>1, <3>2
  <2> QED BY <1>1, <2>1, <2>2, <2>3, <2>4
<1> QED BY <1>3, <1>4

LEMMA SetOfTail ==
    ASSUME NEW S, NEW s \in Seq(S), s # <<>>
    PROVE  /\ Head(s) \in S /\ Tail(s) \in Seq(S)
           /\ ToSet(s) = {Head(s)} \cup ToSet(Tail(s))
           /\ Distinct(s) => (Distinct(Tail(s)) /\ Head(s) \notin ToSet(Tail(s)))
<1>1. /\ Len(s) \in Nat \ {0} /\ DOMAIN s = 1 .. Len(s) /\ Head(s) = s[1]
      /\ Tail(s) \in Seq(S) /\ DOMAIN Tail(s) = 1 .. Len(s) - 1
      /\ \A i \in 1 .. Len(s) - 1 : Tail(s)[i] = s[i + 1]
  OBVIOUS
<1>2. \A i \in 1 .. Len(s) : i # 1 => /\ i - 1 \in 1 .. Len(s) - 1
                                      /\ s[i] = Tail(s)[i - 1]
  <2> SUFFICES ASSUME NEW i \in 1 .. Len(s), i # 1
               PROVE  i - 1 \in 1 .. Len(s) - 1 /\ s[i] = Tail(s)[i - 1]
    OBVIOUS
  <2>1. i - 1 \in 1 .. Len(s) - 1 /\ i - 1 + 1 = i
    BY <1>1
  <2> QED BY <1>1, <2>1
<1>3. \A i \in 1 .. Len(s) - 1 : i + 1 \in 1 .. Len(s) /\ i + 1 # 1
  BY <1>1
<1>4. ToSet(s) = {Head(s)} \cup ToSet(Tail(s))
  <2>1. ToSet(s) \subseteq {Head(s)} \cup ToSet(Tail(s))
    <3> SUFFICES ASSUME NEW i \in 1 .. Len(s), i # 1 PROVE s[i] \in ToSet(Tail(s))
      BY <1>1 DEF ToSet
    <3>1. i - 1 \in DOMAIN Tail(s) /\ s[i] = Tail(s)[i - 1]
      BY <1>1, <1>2
    <3> QED BY <3>1 DEF ToSet
  <2>2. ToSet(Tail(s)) \subseteq ToSet(s)
    BY <1>1, <1>3 DEF ToSet
  <2>3. Head(s) \in ToSet(s)
    BY <1>1 DEF ToSet
  <2> QED BY <2>1, <2>2, <2>3
<1>5. Distinct(s) => (Distinct(Tail(s)) /\ Head(s) \notin ToSet(Tail(s)))
  BY <1>1, <1>3 DEF Distinct, ToSet
<1> QED BY <1>1, <1>4, <1>5

LEMMA SetOfParts ==
    ASSUME NEW S, NEW s \in Seq(S), NEW n \in 0 .. Len(s)
    PROVE  LET first == SubSeq(s, 1, n)
               rest  == SubSeq(s, n + 1, Len(s))
           IN  /\ first \in Seq(S) /\ rest \in Seq(S) /\ first \o rest = s
               /\ ToSet(s) = ToSet(first) \cup ToSet(rest)
               /\ Distinct(s) => Distinct(rest)
<1> DEFINE first == SubSeq(s, 1, n)
           rest  == SubSeq(s, n + 1, Len(s))
<1>1. first \in Seq(S) /\ rest \in Seq(S) /\ first \o rest = s
  <2>1. \A i \in 1 .. Len(s) : s[i] \in S
    OBVIOUS
  <2>2. first \in Seq(S) /\ rest \in Seq(S)
    BY <2>1, SubSeqProperties
  <2>3. first \o rest = SubSeq(s, 1, Len(s))
    <3>1. Len(s) \in Nat /\ 1 \in 1 .. Len(s) + 1 /\ n \in 1 - 1 .. Len(s)
          /\ Len(s) \in n .. Len(s)
      BY LenProperties
    <3> QED BY <3>1, ConcatAdjacentSubSeq
  <2> QED BY <2>2, <2>3, SubSeqFull
<1>2. ToSet(s) = ToSet(first) \cup ToSet(rest)
  <2> HIDE DEF first, rest
  <2> QED BY <1>1, SetOfConcat, ZenonT(30)
<1>3. Distinct(s) => Distinct(rest)
  <2>1. /\ DOMAIN rest = 1 .. Len(s) - n /\ DOMAIN s = 1 .. Len(s)
        /\ \A i \in 1 .. Len(s) - n : rest[i] = s[i + n] /\ i + n \in 1 .. Len(s)
    OBVIOUS
  <2> HIDE DEF rest
  <2> SUFFICES ASSUME Distinct(s), NEW i \in 1 .. Len(s) - n, NEW j \in 1 .. Len(s) - n, i # j
               PROVE  rest[i] # rest[j]
    BY <2>1 DEF Distinct
  <2>2. s[i + n] # s[j + n]
    <3>1. i + n # j + n
      OBVIOUS
    <3>2. i + n \in DOMAIN s /\ j + n \in DOMAIN s
      BY <2>1
    <3> QED BY <3>1, <3>2 DEF Distinct
  <2> QED BY <2>1, <2>2
<1> QED BY <1>1, <1>2, <1>3

LEMMA SetOfNothing == ToSet(<<>>) = {} /\ Distinct(<<>>)
BY DEF ToSet, Distinct

LEMMA HeldBy == \A map, p : p \in Held(map) <=> \E d \in Devices : p \in ToSet(map[d])
BY DEF Held

LEMMA NothingHeld == Held(NoPoints) = {} /\ \A d \in Devices : NoPoints[d] = <<>>
BY SetOfNothing DEF Held, NoPoints

(* A set of natural numbers that is not empty has a least element. *)
LEMMA LeastNumber ==
    ASSUME NEW T \in SUBSET Nat, T # {}
    PROVE  \E x \in T : \A y \in T : ~(y < x)
<1> DEFINE R == OpToRel(<, Nat)
<1>1. IsWellFoundedOn(R, Nat)
  BY NatLessThanWellFounded
<1>2. ASSUME NEW x \in Nat, NEW y \in Nat, x < y PROVE <<x, y>> \in R
  BY <1>2 DEF OpToRel
<1> HIDE DEF R
<1>3. PICK x \in T : \A y \in T : ~(<<y, x>> \in R)
  BY <1>1, WFMin
<1> QED BY <1>2, <1>3

LEMMA NewestIsThere ==
    ASSUME OutputsAssumption, NEW ps \in Seq(Points), ps # <<>>
    PROVE  Newest(ps) \in ToSet(ps) /\ ToSet(ps) \subseteq Points
<1>1. MaxPoints \in Nat
  BY DEF OutputsAssumption
<1>2. ToSet(ps) \subseteq Points /\ ps[1] \in ToSet(ps)
  <2>1. Len(ps) \in Nat \ {0} /\ DOMAIN ps = 1 .. Len(ps) /\ \A i \in 1 .. Len(ps) : ps[i] \in Points
    OBVIOUS
  <2> QED BY <2>1 DEF ToSet
<1>3. \A p \in ToSet(ps) : p.n \in 1 .. MaxPoints
  BY <1>2 DEF Points
<1> DEFINE T == {MaxPoints - p.n : p \in ToSet(ps)}
<1>4. T \in SUBSET Nat /\ T # {}
  BY <1>1, <1>2, <1>3
<1>5. PICK x \in T : \A y \in T : ~(y < x)
  <2> HIDE DEF T
  <2> QED BY <1>4, LeastNumber
<1>6. PICK p \in ToSet(ps) : x = MaxPoints - p.n
  OBVIOUS
<1>7. \A q \in ToSet(ps) : q.n <= p.n
  <2> SUFFICES ASSUME NEW q \in ToSet(ps) PROVE q.n <= p.n
    OBVIOUS
  <2>1. ~(MaxPoints - q.n < MaxPoints - p.n)
    BY <1>5, <1>6
  <2> QED BY <1>1, <1>3, <2>1
<1> QED BY <1>2, <1>7 DEF Newest

(* What Held is when the points of a device change. *)
LEMMA HeldChanged ==
    ASSUME NEW map \in Batches, NEW d \in Devices, NEW ps \in Seq(Points)
    PROVE  LET new == [map EXCEPT ![d] = ps] IN
           /\ new \in Batches
           /\ Held(new) = ToSet(ps) \cup UNION {ToSet(map[e]) : e \in Devices \ {d}}
           /\ Held(map) = ToSet(map[d]) \cup UNION {ToSet(map[e]) : e \in Devices \ {d}}
<1> DEFINE new == [map EXCEPT ![d] = ps]
<1>1. new \in Batches /\ new[d] = ps /\ \A e \in Devices \ {d} : new[e] = map[e]
  BY DEF Batches
<1> HIDE DEF new
<1>2. Held(new) = ToSet(ps) \cup UNION {ToSet(map[e]) : e \in Devices \ {d}}
  BY <1>1 DEF Held
<1>3. Held(map) = ToSet(map[d]) \cup UNION {ToSet(map[e]) : e \in Devices \ {d}}
  BY DEF Held
<1> QED BY <1>1, <1>2, <1>3 DEF new

LEMMA HeldAreTyped ==
    ASSUME NEW map \in Batches
    PROVE  Held(map) \subseteq Points /\ \A d \in Devices : map[d] \in Seq(Points)
<1>1. \A d \in Devices : map[d] \in Seq(Points)
  BY DEF Batches
<1>2. \A d \in Devices : ToSet(map[d]) \subseteq Points
  <2> SUFFICES ASSUME NEW d \in Devices PROVE ToSet(map[d]) \subseteq Points
    OBVIOUS
  <2> DEFINE s == map[d]
  <2>1. s \in Seq(Points)
    BY <1>1
  <2> HIDE DEF s
  <2>2. DOMAIN s = 1 .. Len(s) /\ \A i \in 1 .. Len(s) : s[i] \in Points
    BY <2>1
  <2>3. ToSet(s) \subseteq Points
    BY <2>2 DEF ToSet
  <2> QED BY <2>3 DEF s
<1> QED BY <1>1, <1>2 DEF Held

LEMMA TypesInParts == (TypeOK /\ IsFiniteSet(Held(pending))) <=> (PointTypes /\ ControlTypes)
BY DEF TypeOK, PointTypes, ControlTypes

-----------------------------------------------------------------------------
(* What the steps do to the points that are held.                             *)

held == <<kind, pending, pendingCount, flush.batch, rows, made>>

LEMMA PointsKept ==
    ASSUME PointTypes, HeldOnce, UNCHANGED held
    PROVE  PointTypes' /\ HeldOnce'
BY DEF PointTypes, HeldOnce, held, Held

(* A point p that nobody holds is published, and queue is left of the rows. *)
LEMMA PublishingKeeps ==
    ASSUME OutputsAssumption, PointTypes, HeldOnce,
           NEW p \in Points, NEW queue \in Seq(Points), Publish(p, queue),
           made' \in 0..MaxPoints, made <= made', p.n <= made',
           Distinct(queue), ToSet(queue) \subseteq ToSet(rows),
           p \notin Held(pending) \cup Held(flush.batch) \cup ToSet(queue)
    PROVE  /\ PointTypes' /\ HeldOnce'
           /\ Held(pending) \subseteq Held(pending)' /\ UNCHANGED flush
           /\ ToSet(queue) \subseteq ToSet(rows)'
           /\ p \in Held(pending)' \cup ToSet(rows)' \/ \E l \in lost' : l.point = p /\ l.why # "skipped"
<1>1. p.dev \in Devices /\ MaxPending \in Nat /\ pendingCount \in Nat /\ made \in Nat /\ p.n \in Nat
  <2>1. pendingCount \in Nat
    BY FS_CardinalityType DEF PointTypes
  <2> QED BY <2>1 DEF Points, OutputsAssumption, PointTypes
<1>2. UNCHANGED <<kind, flush>>
  BY DEF Publish
<1>3. /\ pending' \in Batches /\ IsFiniteSet(Held(pending)') /\ pendingCount' = Cardinality(Held(pending)')
      /\ \A d \in Devices : Distinct(pending'[d]) /\ \A q \in ToSet(pending'[d]) : q.dev = d
      /\ kind # "tdengine" => pendingCount' <= MaxPending
      /\ rows' \in Seq(Points) /\ Distinct(rows')
      /\ \/ Held(pending)' = Held(pending) \cup {p} /\ ToSet(rows)' = ToSet(queue)
         \/ Held(pending)' = Held(pending) /\ ToSet(rows)' = ToSet(queue) \cup {p}
         \/ Held(pending)' = Held(pending) /\ ToSet(rows)' = ToSet(queue)
            /\ \E l \in lost' : l.point = p /\ l.why # "skipped"
  <2>0. ASSUME UNCHANGED <<pending, pendingCount>>
        PROVE  /\ pending' \in Batches /\ IsFiniteSet(Held(pending)')
               /\ pendingCount' = Cardinality(Held(pending)') /\ Held(pending)' = Held(pending)
               /\ \A d \in Devices : Distinct(pending'[d]) /\ \A q \in ToSet(pending'[d]) : q.dev = d
               /\ kind # "tdengine" => pendingCount' <= MaxPending
    <3>1. Held(pending)' = Held(pending)
      BY <2>0 DEF Held
    <3> QED BY <2>0, <3>1 DEF PointTypes, HeldOnce
  <2>1. CASE rows' = queue /\ UNCHANGED <<pending, pendingCount>>
             /\ \E why \in {"unmapped", "database"} : lost' = lost \cup Lost({p}, why)
    <3>1. \E l \in lost' : l.point = p /\ l.why # "skipped"
      <4>1. PICK why \in {"unmapped", "database"} : lost' = lost \cup Lost({p}, why)
        BY <2>1
      <4>2. [point |-> p, why |-> why] \in lost'
        BY <4>1 DEF Lost
      <4> QED BY <4>2
    <3> QED BY <2>0, <2>1, <3>1
  <2>2. CASE rows' = queue \o <<p>> /\ UNCHANGED <<pending, pendingCount>>
    <3>1. <<p>> \in Seq(Points) /\ queue \o <<p>> = Append(queue, p)
      OBVIOUS
    <3>2. ToSet(rows)' = ToSet(queue) \cup {p} /\ Distinct(rows') /\ rows' \in Seq(Points)
      <4>1. p \notin ToSet(queue) /\ Append(queue, p) \in Seq(Points)
        OBVIOUS
      <4>2. ToSet(Append(queue, p)) = ToSet(queue) \cup {p} /\ Distinct(Append(queue, p))
        BY <4>1, SetOfAppend
      <4> QED BY <2>2, <3>1, <4>1, <4>2
    <3> QED BY <2>0, <2>2, <3>2
  <2>3. CASE /\ ~Full /\ rows' = queue
             /\ pending' = [pending EXCEPT ![p.dev] = Append(@, p)]
             /\ pendingCount' = pendingCount + 1
    <3> DEFINE d == p.dev
               ps == Append(pending[d], p)
    <3>1. pending \in Batches /\ pending[d] \in Seq(Points) /\ ps \in Seq(Points)
      BY <1>1 DEF PointTypes, Batches
    <3>2. pending' = [pending EXCEPT ![d] = ps]
      BY <2>3
    <3>3. ToSet(ps) = ToSet(pending[d]) \cup {p} /\ Distinct(ps)
      <4>1. Distinct(pending[d]) /\ p \notin ToSet(pending[d])
        BY <1>1, HeldBy DEF HeldOnce
      <4> QED BY <3>1, <4>1, SetOfAppend
    <3>4. pending' \in Batches /\ Held(pending') = Held(pending) \cup {p}
      <4> HIDE DEF ps
      <4>1. LET new == [pending EXCEPT ![d] = ps] IN
            /\ new \in Batches
            /\ Held(new) = ToSet(ps) \cup UNION {ToSet(pending[e]) : e \in Devices \ {d}}
            /\ Held(pending) = ToSet(pending[d]) \cup UNION {ToSet(pending[e]) : e \in Devices \ {d}}
        BY <1>1, <3>1, HeldChanged
      <4> QED BY <3>2, <3>3, <4>1
    <3>5. IsFiniteSet(Held(pending')) /\ Cardinality(Held(pending')) = pendingCount + 1
      <4>1. IsFiniteSet(Held(pending)) /\ pendingCount = Cardinality(Held(pending))
            /\ p \notin Held(pending)
        BY DEF PointTypes
      <4>2. /\ IsFiniteSet(Held(pending) \cup {p})
            /\ Cardinality(Held(pending) \cup {p}) = pendingCount + 1
        BY <4>1, FS_AddElement
      <4> QED BY <3>4, <4>2
    <3>6. pending'[d] = ps /\ \A e \in Devices \ {d} : pending'[e] = pending[e]
      <4> HIDE DEF ps
      <4> QED BY <1>1, <3>1, <3>2 DEF Batches
    <3>7. \A e \in Devices : Distinct(pending'[e]) /\ \A q \in ToSet(pending'[e]) : q.dev = e
      <4> HIDE DEF ps
      <4> QED BY <3>3, <3>6 DEF PointTypes, HeldOnce
    <3>8. kind # "tdengine" => pendingCount' <= MaxPending
      BY <1>1, <2>3 DEF Full
    <3>9. Held(pending)' = Held(pending')
      BY DEF Held
    <3> QED BY <2>3, <3>4, <3>5, <3>7, <3>8, <3>9
  <2> QED
    <3>1. \/ Ignored(p.dev) /\ lost' = lost \cup Lost({p}, "unmapped") /\ rows' = queue
             /\ UNCHANGED <<pending, pendingCount>>
          \/ SaveBackfill(queue, <<p>>) /\ UNCHANGED <<pending, pendingCount>>
          \/ ~Full /\ pending' = [pending EXCEPT ![p.dev] = Append(@, p)]
             /\ pendingCount' = pendingCount + 1 /\ rows' = queue
      BY DEF Publish
    <3>2. ToSet(<<p>>) = {p}
      BY DEF ToSet
    <3>3. SaveBackfill(queue, <<p>>) => \/ rows' = queue \o <<p>>
                                        \/ rows' = queue /\ lost' = lost \cup Lost({p}, "database")
      BY <3>2 DEF SaveBackfill
    <3> QED BY <2>1, <2>2, <2>3, <3>1, <3>3
<1>4. PointTypes'
  BY <1>2, <1>3 DEF PointTypes
<1>5. HeldOnce'
  <2>1. Held(flush.batch)' = Held(flush.batch)
    BY <1>2 DEF Held
  <2>2. \A d \in Devices : Distinct(flush'.batch[d])
    BY <1>2 DEF HeldOnce
  <2>3. /\ Held(pending)' \cap Held(flush.batch)' = {}
        /\ (Held(pending)' \cup Held(flush.batch)') \cap ToSet(rows)' = {}
    BY <1>3, <2>1 DEF HeldOnce
  <2>4. \A q \in Held(pending)' \cup Held(flush.batch)' \cup ToSet(rows)' : q.n <= made'
    <3> SUFFICES ASSUME NEW q \in Held(pending) \cup Held(flush.batch) \cup ToSet(rows) PROVE q.n <= made'
      BY <1>3, <2>1
    <3>1. q \in Points /\ q.n <= made
      <4>1. ToSet(rows) \subseteq Points
        BY DEF PointTypes, ToSet
      <4> QED BY <4>1, HeldAreTyped DEF PointTypes, HeldOnce
    <3> QED BY <1>1, <3>1 DEF Points, PointTypes
  <2> QED BY <1>3, <2>2, <2>3, <2>4 DEF HeldOnce
<1> QED BY <1>2, <1>3, <1>4, <1>5

LEMMA NothingToFlush ==
    flush = NoFlush => flush.batch = NoPoints /\ Held(flush.batch) = {}
BY NothingHeld DEF NoFlush

LEMMA NoPointsAreTyped ==
    /\ NoPoints \in Batches
    /\ IsFiniteSet(Held(NoPoints)) /\ Cardinality(Held(NoPoints)) = 0 /\ Held(NoPoints) = {}
    /\ \A d \in Devices : ToSet(NoPoints[d]) = {} /\ Distinct(NoPoints[d])
BY NothingHeld, SetOfNothing, FS_EmptySet DEF NoPoints, Batches

(* flush takes the points that are pending. *)
LEMMA TakingKeeps ==
    ASSUME OutputsAssumption, PointTypes, HeldOnce, flush = NoFlush,
           pending' = NoPoints, pendingCount' = 0, flush'.batch = pending,
           UNCHANGED <<kind, rows, made>>
    PROVE  PointTypes' /\ HeldOnce' /\ Held(flush.batch)' = Held(pending)
<1>1. Held(pending)' = {} /\ Held(flush.batch)' = Held(pending)
  BY NoPointsAreTyped DEF Held
<1>2. MaxPending \in Nat
  BY DEF OutputsAssumption
<1>3. PointTypes'
  BY <1>1, <1>2, NoPointsAreTyped DEF PointTypes
<1>4. HeldOnce'
  BY <1>1, NoPointsAreTyped DEF HeldOnce
<1> QED BY <1>1, <1>3, <1>4

(* Close gives up what is pending. *)
LEMMA ClosingKeeps ==
    ASSUME OutputsAssumption, PointTypes, HeldOnce,
           pending' = NoPoints, pendingCount' = 0, UNCHANGED <<kind, flush, rows, made>>
    PROVE  PointTypes' /\ HeldOnce'
<1>1. Held(pending)' = {} /\ Held(flush.batch)' = Held(flush.batch)
  BY NoPointsAreTyped DEF Held
<1>2. MaxPending \in Nat
  BY DEF OutputsAssumption
<1>3. PointTypes'
  BY <1>1, <1>2, NoPointsAreTyped DEF PointTypes
<1>4. HeldOnce'
  BY <1>1, NoPointsAreTyped DEF HeldOnce
<1> QED BY <1>3, <1>4

(* Of a device's points rest is left in the batch; the others are sent, saved or dropped. *)
Handles(d, rest) ==
    /\ rest \in Seq(Points) /\ ToSet(rest) \subseteq ToSet(PartOf(d))
    /\ Distinct(PartOf(d)) => Distinct(rest)
    /\ flush' = Left(d, rest)
    /\ rows' = rows \/ (rest = <<>> /\ rows' = rows \o PartOf(d))
    /\ UNCHANGED <<kind, pending, pendingCount, made>>

LEMMA LeftIs ==
    ASSUME ControlTypes, NEW d \in Devices, NEW rest \in Seq(Points)
    PROVE  /\ Left(d, rest).batch = [flush.batch EXCEPT ![d] = rest]
           /\ Left(d, rest).leaving = flush.leaving /\ Left(d, rest).coming = flush.coming
           /\ Left(d, rest) \in [leaving : SUBSET Devices, coming : SUBSET Devices, batch : Batches]
<1>1. flush \in [leaving : SUBSET Devices, coming : SUBSET Devices, batch : Batches]
  BY DEF ControlTypes
<1>2. flush.batch \in Batches /\ [flush.batch EXCEPT ![d] = rest] \in Batches
  BY <1>1 DEF Batches
<1>3. Left(d, rest) = [flush EXCEPT !.batch = [flush.batch EXCEPT ![d] = rest]]
  BY DEF Left
<1> HIDE DEF Batches
<1> QED BY <1>1, <1>2, <1>3

LEMMA HandlingKeeps ==
    ASSUME OutputsAssumption, PointTypes, HeldOnce, ControlTypes,
           NEW d \in Devices, NEW rest, Handles(d, rest)
    PROVE  /\ PointTypes' /\ HeldOnce'
           /\ Held(flush.batch) = ToSet(PartOf(d)) \cup UNION {ToSet(flush.batch[e]) : e \in Devices \ {d}}
           /\ Held(flush.batch)' = ToSet(rest) \cup UNION {ToSet(flush.batch[e]) : e \in Devices \ {d}}
           /\ ToSet(rows) \subseteq ToSet(rows)' /\ ToSet(rows)' \subseteq ToSet(rows) \cup ToSet(PartOf(d))
<1> DEFINE map == flush.batch
           new == [map EXCEPT ![d] = rest]
           others == UNION {ToSet(map[e]) : e \in Devices \ {d}}
<1>1. map \in Batches /\ rest \in Seq(Points) /\ PartOf(d) = map[d] /\ PartOf(d) \in Seq(Points)
  BY DEF PointTypes, Handles, PartOf, Batches
<1>2. flush'.batch = new
  BY <1>1, LeftIs DEF Handles
<1>3. LET n == [map EXCEPT ![d] = rest] IN
      n \in Batches /\ Held(n) = ToSet(rest) \cup others /\ Held(map) = ToSet(map[d]) \cup others
  BY <1>1, HeldChanged
<1>4. new[d] = rest /\ \A e \in Devices \ {d} : new[e] = map[e]
  BY <1>1 DEF Batches
<1>5. Held(flush.batch)' = ToSet(rest) \cup others /\ Held(map) = ToSet(PartOf(d)) \cup others
  BY <1>1, <1>2, <1>3
<1>6. ToSet(rest) \subseteq ToSet(map[d]) /\ Distinct(rest)
  BY <1>1 DEF Handles, HeldOnce
<1>7. \A e \in Devices : Distinct(new[e]) /\ \A p \in ToSet(new[e]) : p.dev = e
  <2> SUFFICES ASSUME NEW e \in Devices PROVE Distinct(new[e]) /\ \A p \in ToSet(new[e]) : p.dev = e
    OBVIOUS
  <2> HIDE DEF new
  <2>1. CASE e = d
    BY <1>4, <1>6, <2>1 DEF PointTypes
  <2>2. CASE e # d
    BY <1>4, <2>2 DEF PointTypes, HeldOnce
  <2> QED BY <2>1, <2>2
<1>8. /\ rows' \in Seq(Points) /\ Distinct(rows')
      /\ \/ ToSet(rows)' = ToSet(rows)
         \/ rest = <<>> /\ ToSet(rows)' = ToSet(rows) \cup ToSet(PartOf(d))
  <2>1. CASE rows' = rows
    BY <2>1 DEF PointTypes, HeldOnce
  <2>2. CASE rest = <<>> /\ rows' = rows \o PartOf(d)
    <3>1. rows \in Seq(Points) /\ Distinct(rows) /\ Distinct(PartOf(d))
      BY <1>1 DEF PointTypes, HeldOnce
    <3>2. ToSet(rows) \cap ToSet(PartOf(d)) = {}
      BY <1>5 DEF HeldOnce
    <3>3. rows \o PartOf(d) \in Seq(Points)
      BY <1>1, <3>1
    <3>4. /\ ToSet(rows \o PartOf(d)) = ToSet(rows) \cup ToSet(PartOf(d))
          /\ Distinct(rows \o PartOf(d))
      BY <1>1, <3>1, <3>2, SetOfConcat
    <3> QED BY <2>2, <3>3, <3>4
  <2> QED BY <2>1, <2>2 DEF Handles
<1>9. UNCHANGED <<kind, pending, pendingCount, made>> /\ Held(pending)' = Held(pending)
  BY DEF Handles, Held
<1> HIDE DEF new
<1>10. PointTypes'
  <2>1. flush'.batch \in Batches
    BY <1>2, <1>3 DEF new
  <2>2. \A e \in Devices : \A p \in ToSet(pending'[e]) \cup ToSet(flush'.batch[e]) : p.dev = e
    BY <1>2, <1>7, <1>9 DEF PointTypes
  <2> QED BY <1>8, <1>9, <2>1, <2>2 DEF PointTypes
<1>11. HeldOnce'
  <2>1. \A e \in Devices : Distinct(pending'[e]) /\ Distinct(flush'.batch[e])
    BY <1>2, <1>7, <1>9 DEF HeldOnce
  <2>2. Held(flush.batch)' \subseteq Held(flush.batch)
    BY <1>1, <1>5, <1>6
  <2>3. ToSet(rest) = {} => Held(flush.batch)' \cap ToSet(PartOf(d)) = {}
    <3> SUFFICES ASSUME ToSet(rest) = {}, NEW p \in others, p \in ToSet(map[d]) PROVE FALSE
      BY <1>1, <1>5
    <3>1. PICK e \in Devices \ {d} : p \in ToSet(map[e])
      OBVIOUS
    <3> QED BY <3>1 DEF PointTypes
  <2>4. Held(pending)' \cap Held(flush.batch)' = {}
    BY <1>9, <2>2 DEF HeldOnce
  <2>5. (Held(pending)' \cup Held(flush.batch)') \cap ToSet(rows)' = {}
    BY <1>5, <1>8, <1>9, <2>2, <2>3, SetOfNothing DEF HeldOnce
  <2>6. \A p \in Held(pending)' \cup Held(flush.batch)' \cup ToSet(rows)' : p.n <= made'
    BY <1>5, <1>8, <1>9, <2>2 DEF HeldOnce
  <2> QED BY <1>8, <2>1, <2>4, <2>5, <2>6 DEF HeldOnce
<1> QED BY <1>5, <1>8, <1>10, <1>11

(* What is not left in the batch is received, saved, or lost for a reason that is told.    *)
Keeps(d, rest) ==
    /\ peer.got \subseteq peer'.got /\ lost \subseteq lost' /\ failed \subseteq failed'
    /\ \A p \in ToSet(PartOf(d)) :
          \/ p \in ToSet(rest) \cup ToSet(rows') \cup peer'.got
          \/ \E l \in lost' : l.point = p /\ (l.why = "skipped" => p.dev \in failed')

LEMMA PartIsTyped ==
    ASSUME PointTypes, NEW d \in Devices
    PROVE  PartOf(d) \in Seq(Points) /\ ToSet(PartOf(d)) \subseteq Points
<1>1. PartOf(d) \in Seq(Points)
  BY DEF PointTypes, Batches, PartOf
<1> DEFINE s == PartOf(d)
<1> HIDE DEF s
<1>2. s \in Seq(Points) => ToSet(s) \subseteq Points
  BY DEF ToSet
<1> QED BY <1>1, <1>2 DEF s

(* A failure of the database is noted for all points that were to be saved. *)
LEMMA SavingKeeps ==
    ASSUME NEW ps \in Seq(Points), ToSet(ps) \subseteq Points, SaveBackfill(rows, ps),
           lost \subseteq [point : Points, why : {"database", "unmapped", "closed", "skipped"}]
    PROVE  /\ rows' = rows \/ rows' = rows \o ps
           /\ lost \subseteq lost'
           /\ lost' \subseteq [point : Points, why : {"database", "unmapped", "closed", "skipped"}]
           /\ rows' = rows \o ps \/ \A p \in ToSet(ps) : \E l \in lost' : l.point = p /\ l.why = "database"
<1>1. CASE rows' = rows \o ps /\ UNCHANGED lost
  BY <1>1
<1>2. CASE rows' = rows /\ lost' = lost \cup Lost(ToSet(ps), "database")
  <2>1. \A p \in ToSet(ps) : [point |-> p, why |-> "database"] \in lost'
    BY <1>2 DEF Lost
  <2>2. \A p \in ToSet(ps) : \E l \in lost' : l.point = p /\ l.why = "database"
    BY <2>1
  <2>3. lost' \subseteq [point : Points, why : {"database", "unmapped", "closed", "skipped"}]
    BY <1>2 DEF Lost
  <2> QED BY <1>2, <2>2, <2>3
<1> QED BY <1>1, <1>2 DEF SaveBackfill

LEMMA ReceivedIs ==
    ASSUME ControlTypes, NEW d \in Devices, NEW ps \in Seq(Points), ps # <<>>
    PROVE  /\ Received(d, ps) \in [got : SUBSET Points, shows : SUBSET Devices,
                                   value : [Devices -> Values \cup {None}]]
           /\ Received(d, ps).got = peer.got \cup ToSet(ps)
           /\ Received(d, ps).shows = peer.shows
           /\ Received(d, ps).value = [peer.value EXCEPT ![d] = Newest(ps).value]
<1>1. ToSet(ps) \subseteq Points /\ Newest(ps).value \in Values
  BY OutputsAssumption, NewestIsThere DEF Points
<1>2. peer \in [got : SUBSET Points, shows : SUBSET Devices, value : [Devices -> Values \cup {None}]]
  BY DEF ControlTypes
<1> DEFINE value == [peer.value EXCEPT ![d] = Newest(ps).value]
<1>3. value \in [Devices -> Values \cup {None}]
  BY <1>1, <1>2
<1>4. Received(d, ps) = [peer EXCEPT !.got = peer.got \cup ToSet(ps), !.value = value]
  BY DEF Received
<1> HIDE DEF value
<1>5. /\ Received(d, ps).got = peer.got \cup ToSet(ps) /\ Received(d, ps).shows = peer.shows
      /\ Received(d, ps).value = value
      /\ Received(d, ps) \in [got : SUBSET Points, shows : SUBSET Devices,
                              value : [Devices -> Values \cup {None}]]
  BY <1>1, <1>2, <1>3, <1>4
<1> QED BY <1>5 DEF value

LEMMA SendingKeeps ==
    ASSUME PointTypes, ControlTypes, NEW d \in Devices, Handling,
           NEW message \in Seq(Points), message # <<>>, NEW rest \in Seq(Points),
           message \o rest = PartOf(d), Distinct(PartOf(d)) => Distinct(rest),
           ToSet(PartOf(d)) = ToSet(message) \cup ToSet(rest),
           Send(d, message, rest)
    PROVE  /\ \E left : Handles(d, left) /\ Keeps(d, left)
           /\ failed' \in SUBSET Devices
           /\ lost' \subseteq [point : Points, why : {"database", "unmapped", "closed", "skipped"}]
           /\ peer' \in {peer, Received(d, message)}
           /\ peer' # Received(d, message) => d \in failed'
<1>1. /\ failed \in SUBSET Devices
      /\ lost \subseteq [point : Points, why : {"database", "unmapped", "closed", "skipped"}]
  BY DEF ControlTypes
<1>2. Received(d, message).got = peer.got \cup ToSet(message)
  BY ReceivedIs
<1>3. PartOf(d) \in Seq(Points) /\ ToSet(PartOf(d)) \subseteq Points
  BY PartIsTyped
<1>4. CASE link = "up"
  <2>1. /\ peer' = Received(d, message) /\ flush' = Left(d, rest)
        /\ UNCHANGED <<rows, lost, failed>>
    BY <1>4 DEF Send
  <2>2. Handles(d, rest)
    BY <2>1 DEF Handles, Handling
  <2>3. Keeps(d, rest)
    BY <1>2, <2>1 DEF Keeps
  <2> QED BY <1>1, <2>1, <2>2, <2>3
<1>5. CASE link # "up"
  <2>1. /\ peer' \in {peer, Received(d, message)} /\ flush' = Left(d, <<>>)
        /\ SaveBackfill(rows, PartOf(d)) /\ failed' = failed \cup {d}
    BY <1>5 DEF Send, Unsent
  <2>2. /\ rows' = rows \/ rows' = rows \o PartOf(d)
        /\ lost \subseteq lost'
        /\ lost' \subseteq [point : Points, why : {"database", "unmapped", "closed", "skipped"}]
        /\ \/ rows' = rows \o PartOf(d)
           \/ \A p \in ToSet(PartOf(d)) : \E l \in lost' : l.point = p /\ l.why = "database"
    BY <1>1, <1>3, <2>1, SavingKeeps
  <2>3. Handles(d, <<>>)
    BY <2>1, <2>2, SetOfNothing DEF Handles, Handling
  <2>4. rows' = rows \o PartOf(d) => ToSet(PartOf(d)) \subseteq ToSet(rows')
    BY <1>3, SetOfConcat DEF PointTypes
  <2>5. Keeps(d, <<>>)
    BY <1>2, <2>1, <2>2, <2>4 DEF Keeps
  <2> QED BY <1>1, <2>1, <2>2, <2>3, <2>5
<1> QED BY <1>4, <1>5

Reasons == {"database", "unmapped", "closed", "skipped"}

Peers == [got : SUBSET Points, shows : SUBSET Devices, value : [Devices -> Values \cup {None}]]

LEMMA ControlAfter ==
    ASSUME ControlTypes, NEW d \in Devices, NEW rest, Handles(d, rest), Handling,
           {connected', skewed', failed'} \subseteq SUBSET Devices,
           last' \in [Devices -> Values \cup {None}], peer' \in Peers,
           lost' \subseteq [point : Points, why : Reasons]
    PROVE  ControlTypes'
<1>1. flush' \in [leaving : SUBSET Devices, coming : SUBSET Devices, batch : Batches]
  BY LeftIs DEF Handles
<1> QED BY <1>1 DEF ControlTypes, Handling, Peers, Reasons

Handled(d) ==
    /\ ControlTypes' /\ NotedInv'
    /\ \E rest : Handles(d, rest) /\ Keeps(d, rest)

LEMMA ShowingIs ==
    ASSUME peer \in Peers, NEW shows \in SUBSET Devices
    PROVE  LET new == [peer EXCEPT !.shows = shows] IN
           new \in Peers /\ new.got = peer.got /\ new.value = peer.value /\ new.shows = shows
BY DEF Peers

LEMMA LeftAsItIs ==
    ASSUME ControlTypes, NEW d \in Devices
    PROVE  Left(d, PartOf(d)) = flush
<1>1. flush \in [leaving : SUBSET Devices, coming : SUBSET Devices, batch : Batches]
  BY DEF ControlTypes
<1>2. flush.batch \in Batches /\ [flush.batch EXCEPT ![d] = flush.batch[d]] = flush.batch
  BY <1>1 DEF Batches
<1>3. Left(d, PartOf(d)) = [flush EXCEPT !.batch = [flush.batch EXCEPT ![d] = flush.batch[d]]]
  BY DEF Left, PartOf
<1> HIDE DEF Batches
<1> QED BY <1>1, <1>2, <1>3

LEMMA PrepareIs ==
    ASSUME PointTypes, ControlTypes, NotedInv, NEW d \in Devices, Prepare(d)
    PROVE  Handled(d)
<1>1. PartOf(d) \in Seq(Points) /\ ToSet(PartOf(d)) \subseteq Points
  BY PartIsTyped
<1>2. /\ Turn(d) /\ Handling /\ kind \in {"thingsboard", "tdengine"} /\ UNCHANGED <<last, failed>>
      /\ skewed' = skewed \cup IF kind = "thingsboard" THEN {d} ELSE {}
  BY DEF Prepare, Turn
<1>3. connected' \in SUBSET Devices /\ skewed' \in SUBSET Devices /\ peer \in Peers
      /\ peer' \in {peer, [peer EXCEPT !.shows = @ \cup {d}]}
  BY <1>2 DEF Prepare, Connects, ControlTypes, Peers
<1>4. peer' \in Peers /\ peer'.got = peer.got /\ peer'.value = peer.value
  <2>1. peer.shows \cup {d} \in SUBSET Devices
    BY <1>3 DEF Peers
  <2>2. LET new == [peer EXCEPT !.shows = peer.shows \cup {d}] IN
        new \in Peers /\ new.got = peer.got /\ new.value = peer.value
    BY <1>3, <2>1, ShowingIs
  <2> QED BY <1>3, <2>2
<1>5. NotedInv'
  BY <1>2, <1>4 DEF NotedInv, Handling
<1>6. CASE link = "up"
  <2>1. UNCHANGED <<flush, rows, lost>>
    BY <1>6 DEF Prepare
  <2>2. Handles(d, PartOf(d))
    BY <1>1, <1>2, <2>1, LeftAsItIs DEF Handles, Handling
  <2>3. Keeps(d, PartOf(d))
    BY <1>2, <1>4, <2>1 DEF Keeps
  <2>4. ControlTypes'
    <3>1. failed \in SUBSET Devices /\ last \in [Devices -> Values \cup {None}]
          /\ lost \subseteq [point : Points, why : Reasons]
      BY DEF ControlTypes, Reasons
    <3> QED BY <1>2, <1>3, <1>4, <2>1, <2>2, <3>1, ControlAfter
  <2> QED BY <1>5, <2>2, <2>3, <2>4 DEF Handled
<1>7. CASE link # "up"
  <2>1. flush' = Left(d, <<>>) /\ SaveBackfill(rows, PartOf(d))
    BY <1>7 DEF Prepare
  <2>2. lost \subseteq [point : Points, why : Reasons]
    BY DEF ControlTypes, Reasons
  <2>3. /\ rows' = rows \/ rows' = rows \o PartOf(d)
        /\ lost \subseteq lost'
        /\ lost' \subseteq [point : Points, why : Reasons]
        /\ \/ rows' = rows \o PartOf(d)
           \/ \A p \in ToSet(PartOf(d)) : \E l \in lost' : l.point = p /\ l.why = "database"
    BY <1>1, <2>1, <2>2, SavingKeeps DEF Reasons
  <2>4. Handles(d, <<>>)
    BY <1>2, <2>1, <2>3, SetOfNothing DEF Handles, Handling
  <2>5. rows' = rows \o PartOf(d) => ToSet(PartOf(d)) \subseteq ToSet(rows')
    BY <1>1, SetOfConcat DEF PointTypes
  <2>6. Keeps(d, <<>>)
    BY <1>2, <1>4, <2>1, <2>3, <2>5 DEF Keeps
  <2>7. ControlTypes'
    <3>1. failed \in SUBSET Devices /\ last \in [Devices -> Values \cup {None}]
      BY DEF ControlTypes
    <3> QED BY <1>2, <1>3, <1>4, <2>3, <2>4, <3>1, ControlAfter
  <2> QED BY <1>5, <2>4, <2>6, <2>7 DEF Handled
<1> QED BY <1>6, <1>7

(* A message goes out: what the three senders have in common. *)
LEMMA SenderIs ==
    ASSUME PointTypes, ControlTypes, NotedInv, NEW d \in Devices, Handling,
           NEW message \in Seq(Points), message # <<>>, NEW rest \in Seq(Points),
           message \o rest = PartOf(d), Distinct(PartOf(d)) => Distinct(rest),
           ToSet(PartOf(d)) = ToSet(message) \cup ToSet(rest),
           Send(d, message, rest), UNCHANGED <<connected, skewed>>,
           \/ kind # "smardaten" /\ UNCHANGED last
           \/ kind = "smardaten" /\ last' = [last EXCEPT ![d] = Newest(message).value]
    PROVE  Handled(d)
<1>1. /\ \E left : Handles(d, left) /\ Keeps(d, left)
      /\ failed' \in SUBSET Devices
      /\ lost' \subseteq [point : Points, why : Reasons]
      /\ peer' \in {peer, Received(d, message)}
      /\ peer' # Received(d, message) => d \in failed'
  BY SendingKeeps DEF Reasons
<1>2. PICK left : Handles(d, left) /\ Keeps(d, left)
  BY <1>1
<1>3. /\ peer \in Peers /\ Received(d, message) \in Peers
      /\ Received(d, message).value = [peer.value EXCEPT ![d] = Newest(message).value]
      /\ Newest(message).value \in Values
  <2>1. peer \in Peers
    BY DEF ControlTypes, Peers
  <2>2. /\ Received(d, message) \in Peers
        /\ Received(d, message).value = [peer.value EXCEPT ![d] = Newest(message).value]
    BY ReceivedIs DEF Peers
  <2>3. Newest(message) \in Points
    BY OutputsAssumption, NewestIsThere
  <2> QED BY <2>1, <2>2, <2>3 DEF Points
<1>4. /\ last' \in [Devices -> Values \cup {None}] /\ connected' \in SUBSET Devices
      /\ skewed' \in SUBSET Devices
  BY <1>3 DEF ControlTypes
<1>5. ControlTypes'
  BY <1>1, <1>2, <1>3, <1>4, ControlAfter
<1>6. NotedInv'
  <2>1. kind' = kind /\ failed \subseteq failed'
    BY <1>2 DEF Keeps, Handling
  <2>2. CASE kind # "smardaten" /\ UNCHANGED last
    BY <2>1, <2>2 DEF NotedInv
  <2>3. CASE kind = "smardaten" /\ last' = [last EXCEPT ![d] = Newest(message).value]
    <3>1. peer.value \in [Devices -> Values \cup {None}]
          /\ last \in [Devices -> Values \cup {None}]
      BY <1>3 DEF Peers, ControlTypes
    <3>2. last'[d] = peer'.value[d] \/ d \in failed'
      BY <1>1, <1>3, <2>3, <3>1
    <3>3. \A e \in Devices \ {d} : last'[e] = last[e] /\ peer'.value[e] = peer.value[e]
      BY <1>1, <1>3, <2>3, <3>1
    <3> QED BY <2>1, <2>3, <3>2, <3>3 DEF NotedInv
  <2> QED BY <2>2, <2>3
<1> QED BY <1>2, <1>5, <1>6 DEF Handled

LEMMA SendersAre ==
    ASSUME PointTypes, ControlTypes, NotedInv, NEW d \in Devices,
           PublishBatch(d) \/ PublishAll(d) \/ ReportChange(d)
    PROVE  Handled(d)
<1> DEFINE ps == PartOf(d)
           n == IF Len(ps) < BatchMax THEN Len(ps) ELSE BatchMax
           first == SubSeq(ps, 1, n)
           rest == SubSeq(ps, n + 1, Len(ps))
<1>1. ps \in Seq(Points) /\ Handling /\ ps # <<>>
  BY PartIsTyped DEF PublishBatch, PublishAll, ReportChange, Turn
<1>2. ps \o <<>> = ps /\ <<>> \in Seq(Points) /\ Distinct(<<>>) /\ ToSet(ps) = ToSet(ps) \cup ToSet(<<>>)
  BY <1>1, SetOfNothing
<1>3. CASE PublishBatch(d)
  <2>1. Send(d, first, rest) /\ kind # "smardaten" /\ UNCHANGED <<connected, last, skewed>>
    BY <1>3 DEF PublishBatch
  <2>2. n \in 1 .. Len(ps) /\ n \in 0 .. Len(ps)
    <3>1. Len(ps) \in Nat \ {0}
      <4> HIDE DEF ps
      <4> QED BY <1>1
    <3>2. BatchMax \in Nat \ {0}
      BY OutputsAssumption DEF OutputsAssumption
    <3> HIDE DEF ps
    <3> QED BY <3>1, <3>2
  <2>3. /\ first \in Seq(Points) /\ rest \in Seq(Points) /\ first \o rest = ps
        /\ ToSet(ps) = ToSet(first) \cup ToSet(rest)
        /\ Distinct(ps) => Distinct(rest)
    <3> HIDE DEF n, ps
    <3> QED BY <1>1, <2>2, SetOfParts
  <2>4. first # <<>>
    BY <1>1, <2>2
  <2> HIDE DEF first, rest
  <2> QED BY <1>1, <2>1, <2>3, <2>4, SenderIs
<1>4. CASE PublishAll(d)
  <2>1. Send(d, ps, <<>>) /\ kind # "smardaten" /\ UNCHANGED <<connected, last, skewed>>
    BY <1>4 DEF PublishAll
  <2> QED BY <1>1, <1>2, <2>1, SenderIs
<1>5. CASE ReportChange(d)
  <2>1. /\ Send(d, ps, <<>>) /\ kind = "smardaten" /\ UNCHANGED <<connected, skewed>>
        /\ last' = [last EXCEPT ![d] = Newest(ps).value]
    BY <1>5 DEF ReportChange, Reported
  <2> QED BY <1>1, <1>2, <2>1, SenderIs
<1> QED BY <1>3, <1>4, <1>5

(* All points of the device are dropped; some are noted as lost. *)
LEMMA DroppingIs ==
    ASSUME PointTypes, ControlTypes, NotedInv, NEW d \in Devices, Handling, Drop(d),
           UNCHANGED <<connected, last, rows, skewed, failed>>,
           NEW why \in {"skipped", "unmapped"}, why = "skipped" => d \in failed,
           lost' = lost \cup Lost(ToSet(PartOf(d)), why), UNCHANGED peer
    PROVE  Handled(d)
<1>1. PartOf(d) \in Seq(Points) /\ ToSet(PartOf(d)) \subseteq Points
  BY PartIsTyped
<1>2. Handles(d, <<>>)
  BY SetOfNothing DEF Handles, Handling, Drop
<1>3. Keeps(d, <<>>)
  <2>1. \A p \in ToSet(PartOf(d)) : p.dev = d
    BY DEF PointTypes, PartOf
  <2>2. \A p \in ToSet(PartOf(d)) : [point |-> p, why |-> why] \in lost'
    BY DEF Lost
  <2>3. \A p \in ToSet(PartOf(d)) : \E l \in lost' : l.point = p /\ (l.why = "skipped" => p.dev \in failed')
    <3> SUFFICES ASSUME NEW p \in ToSet(PartOf(d))
                 PROVE  \E l \in lost' : l.point = p /\ (l.why = "skipped" => p.dev \in failed')
      OBVIOUS
    <3> DEFINE l == [point |-> p, why |-> why]
    <3>1. l \in lost' /\ l.point = p /\ l.why = why
      BY <2>2
    <3> HIDE DEF l
    <3> QED BY <2>1, <3>1
  <2> QED BY <2>3 DEF Keeps
<1>4. ControlTypes'
  <2>1. /\ {connected', skewed', failed'} \subseteq SUBSET Devices
        /\ last' \in [Devices -> Values \cup {None}] /\ peer' \in Peers
        /\ lost \subseteq [point : Points, why : Reasons]
    BY DEF ControlTypes, Peers, Reasons
  <2>2. lost' \subseteq [point : Points, why : Reasons]
    BY <1>1, <2>1 DEF Lost, Reasons
  <2> QED BY <1>2, <2>1, <2>2, ControlAfter
<1>5. NotedInv'
  BY DEF NotedInv, Handling
<1> QED BY <1>2, <1>3, <1>4, <1>5 DEF Handled

LEMMA SkipUnchangedIs ==
    ASSUME PointTypes, ControlTypes, NotedInv, NEW d \in Devices, SkipUnchanged(d)
    PROVE  Handled(d)
<1> DEFINE ps == PartOf(d)
           v == Newest(ps).value
<1>1. ps \in Seq(Points) /\ ps # <<>> /\ Handling /\ Drop(d) /\ last[d] = v
      /\ UNCHANGED <<connected, last, rows, skewed, failed>>
  BY PartIsTyped DEF SkipUnchanged, Turn
<1>2. v \in Values /\ v # None
  <2>1. Newest(ps) \in Points
    BY <1>1, OutputsAssumption, NewestIsThere
  <2>2. None \notin Values
    BY OutputsAssumption DEF OutputsAssumption
  <2> QED BY <2>1, <2>2 DEF Points
<1>3. kind = "smardaten" /\ (v = peer.value[d] \/ d \in failed)
  BY <1>1, <1>2 DEF NotedInv
<1>4. CASE peer.value[d] = v
  <2>1. peer' = Received(d, ps) /\ UNCHANGED lost
    BY <1>4 DEF SkipUnchanged
  <2>2. /\ Received(d, ps) \in Peers /\ Received(d, ps).got = peer.got \cup ToSet(ps)
        /\ Received(d, ps).value = [peer.value EXCEPT ![d] = v]
    <3> HIDE DEF ps
    <3> QED BY <1>1, ReceivedIs DEF Peers
  <2>3. peer.value \in [Devices -> Values \cup {None}]
    BY DEF ControlTypes
  <2>4. peer'.value = peer.value
    BY <1>4, <2>1, <2>2, <2>3
  <2>5. Handles(d, <<>>)
    BY <1>1, SetOfNothing DEF Handles, Handling, Drop
  <2>6. Keeps(d, <<>>)
    BY <1>1, <2>1, <2>2 DEF Keeps
  <2>7. ControlTypes'
    <3>1. /\ {connected', skewed', failed'} \subseteq SUBSET Devices
          /\ last' \in [Devices -> Values \cup {None}]
          /\ lost' \subseteq [point : Points, why : Reasons]
      BY <1>1, <2>1 DEF ControlTypes, Reasons
    <3> QED BY <1>1, <2>1, <2>2, <2>5, <3>1, ControlAfter
  <2>8. NotedInv'
    BY <1>1, <2>4 DEF NotedInv, Handling
  <2> QED BY <2>5, <2>6, <2>7, <2>8 DEF Handled
<1>5. CASE peer.value[d] # v
  <2>1. lost' = lost \cup Lost(ToSet(PartOf(d)), "skipped") /\ UNCHANGED peer
    BY <1>5 DEF SkipUnchanged
  <2> QED BY <1>1, <1>3, <1>5, <2>1, DroppingIs
<1> QED BY <1>4, <1>5

LEMMA SkipUnmappedIs ==
    ASSUME PointTypes, ControlTypes, NotedInv, NEW d \in Devices, SkipUnmapped(d)
    PROVE  Handled(d)
<1>1. /\ Handling /\ Drop(d) /\ UNCHANGED <<connected, last, rows, skewed, failed, peer>>
      /\ lost' = lost \cup Lost(ToSet(PartOf(d)), "unmapped")
  BY DEF SkipUnmapped, Turn
<1> QED BY <1>1, DroppingIs

-----------------------------------------------------------------------------
(* The other steps.                                                            *)

LEMMA ControlKept ==
    ASSUME ControlTypes, UNCHANGED <<kind, flush, failed>>,
           {coming', leaving', connected', mapped', skewed'} \subseteq SUBSET Devices,
           last' \in {last, [d \in Devices |-> None]},
           phase' \in {"run", "closing", "closed"}, link' \in {"up", "retrying", "down"},
           peer' \in Peers, online' \in [Devices -> BOOLEAN],
           lost' \subseteq [point : Points, why : Reasons]
    PROVE  ControlTypes'
<1>1. [d \in Devices |-> None] \in [Devices -> Values \cup {None}]
  OBVIOUS
<1> QED BY <1>1 DEF ControlTypes, Peers, Reasons

LEMMA NotedKept ==
    ASSUME NotedInv, UNCHANGED <<kind, failed>>, UNCHANGED last \/ last' = [d \in Devices |-> None],
           peer'.value = peer.value
    PROVE  NotedInv'
BY DEF NotedInv

LEMMA PublishControl ==
    ASSUME ControlTypes, NotedInv, NEW p \in Points, NEW queue, Publish(p, queue)
    PROVE  ControlTypes' /\ NotedInv' /\ lost \subseteq lost'
<1>1. lost \subseteq [point : Points, why : Reasons] /\ peer \in Peers
  BY DEF ControlTypes, Reasons, Peers
<1>2. \/ UNCHANGED lost
      \/ \E why \in Reasons : lost' = lost \cup Lost({p}, why)
  <2>1. ToSet(<<p>>) = {p}
    BY DEF ToSet
  <2> QED BY <2>1 DEF Publish, SaveBackfill, Reasons
<1>3. lost' \subseteq [point : Points, why : Reasons] /\ lost \subseteq lost'
  BY <1>1, <1>2 DEF Lost
<1>4. UNCHANGED <<kind, coming, leaving, connected, last, flush, mapped, phase, link, peer, online,
                  skewed, failed>>
  BY DEF Publish
<1>5. ControlTypes'
  BY <1>1, <1>3, <1>4, ControlKept DEF ControlTypes
<1>6. NotedInv'
  BY <1>4, NotedKept
<1> QED BY <1>3, <1>5, <1>6

(* The steps that leave the points where they are. *)
Aside ==
    \/ \E d \in Devices : DeviceOnline(d) \/ DeviceOffline(d) \/ Disconnect(d) \/ Connect(d)
    \/ CloseBegins \/ New \/ Outage \/ Reconnect
    \/ \E devs \in SUBSET Devices : BuildFrom(devs)
    \/ UNCHANGED vars

LEMMA AsideKeeps ==
    ASSUME PointTypes, ControlTypes, NotedInv, Aside
    PROVE  ControlTypes' /\ NotedInv' /\ UNCHANGED held /\ UNCHANGED lost
           /\ peer'.got = peer.got /\ failed' = failed
<1>1. peer \in Peers
  BY DEF ControlTypes, Peers
<1>2. ASSUME NEW shows \in SUBSET Devices, peer' = [peer EXCEPT !.shows = shows]
      PROVE  peer' \in Peers /\ peer'.got = peer.got /\ peer'.value = peer.value
  BY <1>1, <1>2 DEF Peers
<1>3. ASSUME NEW d \in Devices, DeviceOnline(d) \/ DeviceOffline(d)
      PROVE  ControlTypes' /\ NotedInv' /\ UNCHANGED held /\ UNCHANGED lost
             /\ peer'.got = peer.got /\ failed' = failed
  <2>1. /\ UNCHANGED <<kind, pending, pendingCount, connected, last, flush, mapped, phase, rows, link,
                       peer, failed, lost, made>>
        /\ online' \in [Devices -> BOOLEAN] /\ skewed' \in SUBSET Devices
    BY <1>3 DEF DeviceOnline, DeviceOffline, Notice, ControlTypes
  <2>2. {coming', leaving'} \subseteq SUBSET Devices
    <3>1. coming \subseteq Devices /\ leaving \subseteq Devices
      BY DEF ControlTypes
    <3>2. /\ coming' \in {coming, coming \cup {d}, coming \ {d}}
          /\ leaving' \in {leaving, leaving \cup {d}, leaving \ {d}}
      BY <1>3 DEF DeviceOnline, DeviceOffline, Withdraw
    <3>3. coming' \subseteq Devices /\ leaving' \subseteq Devices
      BY <3>1, <3>2
    <3> QED BY <3>3
  <2>3. ControlTypes'
    BY <1>1, <2>1, <2>2, ControlKept DEF ControlTypes, Reasons
  <2> QED BY <2>1, <2>3, NotedKept DEF held
<1>4. ASSUME NEW d \in Devices, Disconnect(d) \/ Connect(d)
      PROVE  ControlTypes' /\ NotedInv' /\ UNCHANGED held /\ UNCHANGED lost
             /\ peer'.got = peer.got /\ failed' = failed
  <2>1. /\ Handling /\ UNCHANGED <<last, rows, failed, lost>>
        /\ connected' \in SUBSET Devices /\ skewed' \in SUBSET Devices
        /\ \/ flush' = [flush EXCEPT !.leaving = @ \ {d}]
           \/ flush' = [flush EXCEPT !.coming = @ \ {d}]
    BY <1>4 DEF Disconnect, Connect, Connects, ControlTypes
  <2>2. \/ peer' = peer \/ peer' = [peer EXCEPT !.shows = peer.shows \ {d}]
        \/ peer' = [peer EXCEPT !.shows = peer.shows \cup {d}]
    BY <1>4 DEF Disconnect, Connect, Connects
  <2>3. peer' \in Peers /\ peer'.got = peer.got /\ peer'.value = peer.value
    <3>1. peer.shows \ {d} \in SUBSET Devices /\ peer.shows \cup {d} \in SUBSET Devices
      BY <1>1 DEF Peers
    <3> QED BY <1>1, <1>2, <2>2, <3>1
  <2>4. /\ flush' \in [leaving : SUBSET Devices, coming : SUBSET Devices, batch : Batches]
        /\ flush'.batch = flush.batch
    BY <2>1 DEF ControlTypes
  <2>5. ControlTypes'
    BY <2>1, <2>3, <2>4 DEF ControlTypes, Handling, Peers
  <2>6. NotedInv'
    BY <2>1, <2>3, NotedKept DEF Handling
  <2> QED BY <2>1, <2>3, <2>4, <2>5, <2>6 DEF held, Handling
<1>5. ASSUME CloseBegins \/ Reconnect
      PROVE  ControlTypes' /\ NotedInv' /\ UNCHANGED held /\ UNCHANGED lost
             /\ peer'.got = peer.got /\ failed' = failed
  <2>1. /\ UNCHANGED <<kind, own, mapped, rows, peer, online, history, made>>
        /\ phase' \in {"run", "closing", "closed"} /\ link' \in {"up", "retrying", "down"}
    BY <1>5 DEF CloseBegins, Reconnect, ControlTypes
  <2> QED BY <2>1, NotedKept DEF own, history, held, ControlTypes
<1>6. ASSUME New
      PROVE  ControlTypes' /\ NotedInv' /\ UNCHANGED held /\ UNCHANGED lost
             /\ peer'.got = peer.got /\ failed' = failed
  <2>1. /\ UNCHANGED <<kind, pending, pendingCount, coming, leaving, flush, mapped, rows, link, peer,
                       online, failed, lost, made>>
        /\ phase' = "run" /\ connected' = {} /\ skewed' = Devices
        /\ last' = [d \in Devices |-> None]
    BY <1>6 DEF New
  <2>2. ControlTypes'
    BY <1>1, <2>1, ControlKept DEF ControlTypes, Reasons
  <2> QED BY <2>1, <2>2, NotedKept DEF held
<1>7. ASSUME Outage
      PROVE  ControlTypes' /\ NotedInv' /\ UNCHANGED held /\ UNCHANGED lost
             /\ peer'.got = peer.got /\ failed' = failed
  <2>1. /\ UNCHANGED <<kind, own, mapped, phase, rows, online, failed, lost, made>>
        /\ link' \in {"retrying", "down"} /\ peer' = [peer EXCEPT !.shows = {}] /\ skewed' = Devices
    BY <1>7 DEF Outage
  <2>2. peer' \in Peers /\ peer'.got = peer.got /\ peer'.value = peer.value
    BY <1>2, <2>1
  <2>3. ControlTypes'
    BY <2>1, <2>2, ControlKept DEF own, ControlTypes, Reasons
  <2> QED BY <2>1, <2>2, <2>3, NotedKept DEF held, own
<1>8. ASSUME NEW devs \in SUBSET Devices, BuildFrom(devs)
      PROVE  ControlTypes' /\ NotedInv' /\ UNCHANGED held /\ UNCHANGED lost
             /\ peer'.got = peer.got /\ failed' = failed
  <2>1. /\ UNCHANGED <<kind, own, phase, rows, link, peer, online, failed, lost, made>>
        /\ mapped' = devs /\ skewed' = skewed \cup (devs \ mapped)
    BY <1>8 DEF BuildFrom
  <2>2. ControlTypes'
    BY <1>1, <2>1, ControlKept DEF own, ControlTypes, Reasons
  <2> QED BY <2>1, <2>2, NotedKept DEF held, own
<1>9. ASSUME UNCHANGED vars
      PROVE  ControlTypes' /\ NotedInv' /\ UNCHANGED held /\ UNCHANGED lost
             /\ peer'.got = peer.got /\ failed' = failed
  BY <1>9, NotedKept DEF vars, own, history, held, ControlTypes
<1> QED BY <1>3, <1>4, <1>5, <1>6, <1>7, <1>8, <1>9 DEF Aside

BaseInv == PointTypes /\ ControlTypes /\ HeldOnce /\ NotedInv

SafeInv == \A n \in 1..made : \E p \in Points : p.n = n /\ Safe(p)

(* A step keeps the invariant and every safe point safe, and a point that is collected is  *)
(* safe from then on.                                                                       *)
Proper ==
    /\ BaseInv'
    /\ \A p : Safe(p) => Safe(p)'
    /\ made' = made \/ (made' = made + 1 /\ \E p \in Points : p.n = made' /\ Safe(p)')

LEMMA AsideIsProper == ASSUME BaseInv, Aside PROVE Proper
<1>1. ControlTypes' /\ NotedInv' /\ UNCHANGED held /\ UNCHANGED lost
      /\ peer'.got = peer.got /\ failed' = failed
  BY AsideKeeps DEF BaseInv
<1>2. BaseInv'
  BY <1>1, PointsKept DEF BaseInv
<1>3. Held(pending)' = Held(pending) /\ Held(flush.batch)' = Held(flush.batch)
  BY <1>1 DEF held, Held
<1> QED BY <1>1, <1>2, <1>3 DEF Proper, Safe, Excused, held

LEMMA CollectIsProper ==
    ASSUME BaseInv, NEW d \in Devices, NEW v \in Values, Collect(d, v) PROVE Proper
<1>0. PICK p : p = [dev |-> d, n |-> made + 1, value |-> v]
  OBVIOUS
<1>1. made \in 0..MaxPoints /\ made < MaxPoints /\ MaxPoints \in Nat /\ made' = made + 1
      /\ Publish(p, rows)
  BY <1>0, OutputsAssumption DEF Collect, BaseInv, PointTypes, OutputsAssumption
<1>2. p \in Points /\ made' \in 0..MaxPoints /\ made <= made' /\ p.n <= made' /\ p.n = made + 1
  BY <1>0, <1>1 DEF Points
<1>3. /\ rows \in Seq(Points) /\ Distinct(rows)
      /\ p \notin Held(pending) \cup Held(flush.batch) \cup ToSet(rows)
  BY <1>1, <1>2 DEF BaseInv, PointTypes, HeldOnce
<1>4. /\ PointTypes' /\ HeldOnce'
      /\ Held(pending) \subseteq Held(pending)' /\ UNCHANGED flush
      /\ ToSet(rows) \subseteq ToSet(rows)'
      /\ p \in Held(pending)' \cup ToSet(rows)' \/ \E l \in lost' : l.point = p /\ l.why # "skipped"
  BY <1>1, <1>2, <1>3, OutputsAssumption, PublishingKeeps DEF BaseInv
<1>5. ControlTypes' /\ NotedInv' /\ lost \subseteq lost' /\ UNCHANGED <<peer, failed>>
  BY <1>1, <1>2, PublishControl DEF BaseInv, Publish
<1>6. Held(flush.batch)' = Held(flush.batch)
  BY <1>4 DEF Held
<1>7. \A q : Safe(q) => Safe(q)'
  BY <1>4, <1>5, <1>6 DEF Safe, Excused
<1>8. Safe(p)'
  BY <1>4 DEF Safe, Excused
<1> QED BY <1>1, <1>2, <1>4, <1>5, <1>7, <1>8 DEF Proper, BaseInv

LEMMA ReplayIsProper == ASSUME BaseInv, Replay PROVE Proper
<1>0. PICK p, queue : p = Head(rows) /\ queue = Tail(rows)
  OBVIOUS
<1>1. rows # <<>> /\ Publish(p, queue) /\ made' = made /\ rows \in Seq(Points)
      /\ made \in 0..MaxPoints /\ MaxPoints \in Nat
  BY <1>0, OutputsAssumption DEF Replay, BaseInv, PointTypes, OutputsAssumption
<1>2. /\ p \in Points /\ queue \in Seq(Points) /\ ToSet(rows) = {p} \cup ToSet(queue)
      /\ Distinct(queue) /\ p \notin ToSet(queue)
  BY <1>0, <1>1, SetOfTail DEF BaseInv, HeldOnce
<1>3. /\ p \notin Held(pending) \cup Held(flush.batch) \cup ToSet(queue)
      /\ p.n <= made'
  BY <1>1, <1>2 DEF BaseInv, HeldOnce
<1>4. /\ PointTypes' /\ HeldOnce'
      /\ Held(pending) \subseteq Held(pending)' /\ UNCHANGED flush
      /\ ToSet(queue) \subseteq ToSet(rows)'
      /\ p \in Held(pending)' \cup ToSet(rows)' \/ \E l \in lost' : l.point = p /\ l.why # "skipped"
  BY <1>1, <1>2, <1>3, OutputsAssumption, PublishingKeeps DEF BaseInv
<1>5. ControlTypes' /\ NotedInv' /\ lost \subseteq lost' /\ UNCHANGED <<peer, failed>>
  BY <1>1, <1>2, PublishControl DEF BaseInv, Publish
<1>6. Held(flush.batch)' = Held(flush.batch)
  BY <1>4 DEF Held
<1>7. Safe(p)'
  BY <1>4 DEF Safe, Excused
<1>8. ASSUME NEW q, Safe(q) PROVE Safe(q)'
  <2>1. CASE q = p
    BY <1>7, <2>1
  <2>2. CASE q # p
    BY <1>2, <1>4, <1>5, <1>6, <1>8, <2>2 DEF Safe, Excused
  <2> QED BY <2>1, <2>2
<1> QED BY <1>1, <1>4, <1>5, <1>8 DEF Proper, BaseInv

LEMMA FlushBeginsIsProper == ASSUME BaseInv, FlushBegins PROVE Proper
<1>1. /\ flush = NoFlush /\ pending' = NoPoints /\ pendingCount' = 0 /\ coming' = {} /\ leaving' = {}
      /\ UNCHANGED <<kind, last, mapped, phase, rows, link, peer, online, skewed, failed, lost, made>>
      /\ connected' \in {connected, (connected \ leaving) \cup coming}
      /\ flush' \in {[NoFlush EXCEPT !.batch = pending],
                     [leaving |-> leaving, coming |-> coming, batch |-> pending]}
  BY DEF FlushBegins, history
<1>2. pending \in Batches /\ coming \subseteq Devices /\ leaving \subseteq Devices
      /\ connected \subseteq Devices
  BY DEF BaseInv, PointTypes, ControlTypes
<1>3. /\ flush' \in [leaving : SUBSET Devices, coming : SUBSET Devices, batch : Batches]
      /\ flush'.batch = pending
  BY <1>1, <1>2 DEF NoFlush
<1>4. PointTypes' /\ HeldOnce' /\ Held(flush.batch)' = Held(pending)
  BY <1>1, <1>3, OutputsAssumption, TakingKeeps DEF BaseInv
<1>5. connected' \subseteq Devices
  BY <1>1, <1>2
<1>6. ControlTypes'
  BY <1>1, <1>3, <1>5 DEF BaseInv, ControlTypes
<1>7. NotedInv'
  BY <1>1, NotedKept DEF BaseInv
<1>8. \A p : Safe(p) => Safe(p)'
  BY <1>1, <1>4, NothingToFlush DEF Safe, Excused
<1> QED BY <1>1, <1>4, <1>6, <1>7, <1>8 DEF Proper, BaseInv

LEMMA CloseEndsIsProper == ASSUME BaseInv, CloseEnds PROVE Proper
<1>1. /\ pending' = NoPoints /\ pendingCount' = 0 /\ phase' = "closed"
      /\ peer' = [peer EXCEPT !.shows = {}]
      /\ UNCHANGED <<kind, coming, leaving, connected, last, flush, mapped, rows, link, online,
                     skewed, failed, made>>
      /\ \/ pending = NoPoints /\ UNCHANGED lost
         \/ lost' = lost \cup Lost(Held(pending), "closed")
  BY DEF CloseEnds
<1>2. peer' \in Peers /\ peer'.got = peer.got /\ peer'.value = peer.value
  <2>1. peer \in Peers
    BY DEF BaseInv, ControlTypes, Peers
  <2> QED BY <1>1, <2>1 DEF Peers
<1>3. PointTypes' /\ HeldOnce'
  BY <1>1, OutputsAssumption, ClosingKeeps DEF BaseInv
<1>4. lost \subseteq lost' /\ lost' \subseteq [point : Points, why : Reasons]
  <2>1. lost \subseteq [point : Points, why : Reasons] /\ Held(pending) \subseteq Points
    BY HeldAreTyped DEF BaseInv, ControlTypes, PointTypes, Reasons
  <2>2. Lost(Held(pending), "closed") \subseteq [point : Points, why : Reasons]
    BY <2>1 DEF Lost, Reasons
  <2> QED BY <1>1, <2>1, <2>2
<1>5. ControlTypes'
  BY <1>1, <1>2, <1>4, ControlKept DEF BaseInv, ControlTypes
<1>6. NotedInv'
  BY <1>1, <1>2, NotedKept DEF BaseInv
<1>7. \A p \in Held(pending) : \E l \in lost' : l.point = p /\ l.why # "skipped"
  <2> SUFFICES ASSUME NEW p \in Held(pending)
               PROVE  \E l \in lost' : l.point = p /\ l.why # "skipped"
    OBVIOUS
  <2>1. lost' = lost \cup Lost(Held(pending), "closed")
    BY <1>1, NothingHeld
  <2>2. [point |-> p, why |-> "closed"] \in lost'
    BY <2>1 DEF Lost
  <2> QED BY <2>2
<1>8. Held(flush.batch)' = Held(flush.batch)
  BY <1>1 DEF Held
<1>9. \A p : Safe(p) => Safe(p)'
  BY <1>1, <1>2, <1>4, <1>7, <1>8 DEF Safe, Excused
<1> QED BY <1>1, <1>3, <1>5, <1>6, <1>9 DEF Proper, BaseInv

LEMMA HandledIsProper ==
    ASSUME BaseInv, NEW d \in Devices, Handled(d) PROVE Proper
<1>1. PICK rest : Handles(d, rest) /\ Keeps(d, rest)
  BY DEF Handled
<1> DEFINE others == UNION {ToSet(flush.batch[e]) : e \in Devices \ {d}}
<1>2. /\ PointTypes' /\ HeldOnce'
      /\ Held(flush.batch) = ToSet(PartOf(d)) \cup others
      /\ Held(flush.batch)' = ToSet(rest) \cup others
      /\ ToSet(rows) \subseteq ToSet(rows)'
  BY <1>1, OutputsAssumption, HandlingKeeps DEF BaseInv
<1> HIDE DEF others
<1>3. UNCHANGED <<pending, made>> /\ Held(pending)' = Held(pending)
  BY <1>1 DEF Handles, Held
<1>4. \A p : Safe(p) => Safe(p)'
  BY <1>1, <1>2, <1>3 DEF Safe, Excused, Keeps
<1> QED BY <1>2, <1>3, <1>4 DEF Proper, BaseInv, Handled

LEMMA StepIsProper == ASSUME BaseInv, [Next]_vars PROVE Proper
<1>1. ASSUME NEW d \in Devices,
             \/ Prepare(d) \/ PublishBatch(d) \/ PublishAll(d)
             \/ ReportChange(d) \/ SkipUnchanged(d) \/ SkipUnmapped(d)
      PROVE  Proper
  BY <1>1, HandledIsProper, PrepareIs, SendersAre, SkipUnchangedIs, SkipUnmappedIs DEF BaseInv
<1>2. \/ Aside \/ Replay \/ FlushBegins \/ CloseEnds
      \/ \E d \in Devices, v \in Values : Collect(d, v)
      \/ \E d \in Devices : \/ Prepare(d) \/ PublishBatch(d) \/ PublishAll(d)
                            \/ ReportChange(d) \/ SkipUnchanged(d) \/ SkipUnmapped(d)
  BY DEF Next, PublishNext, FlushNext, OtherNext, Aside
<1> QED BY <1>1, <1>2, AsideIsProper, CollectIsProper, ReplayIsProper, FlushBeginsIsProper,
           CloseEndsIsProper

LEMMA InitIsBase == Init => BaseInv /\ SafeInv
<1> SUFFICES ASSUME Init PROVE BaseInv /\ SafeInv
  OBVIOUS
<1>1. MaxPoints \in Nat /\ MaxPending \in Nat
  BY OutputsAssumption DEF OutputsAssumption
<1>2. pending = NoPoints /\ flush = NoFlush /\ flush.batch = NoPoints /\ rows = <<>> /\ made = 0
  BY DEF Init, NoFlush
<1>3. PointTypes
  <2>1. \A d \in Devices : \A p \in ToSet(pending[d]) \cup ToSet(flush.batch[d]) : p.dev = d
    BY <1>2, NoPointsAreTyped
  <2>2. rows \in Seq(Points) /\ made \in 0..MaxPoints
    BY <1>1, <1>2
  <2>3. pendingCount = 0
    BY DEF Init
  <2> QED BY <1>1, <1>2, <2>1, <2>2, <2>3, NoPointsAreTyped DEF PointTypes
<1>4. HeldOnce
  <2>1. ToSet(rows) = {} /\ Distinct(rows)
    BY <1>2, SetOfNothing
  <2> QED BY <1>2, <2>1, NoPointsAreTyped DEF HeldOnce
<1>5. ControlTypes
  <2>1. flush \in [leaving : SUBSET Devices, coming : SUBSET Devices, batch : Batches]
    BY <1>2, NoPointsAreTyped DEF NoFlush
  <2> QED BY <2>1 DEF Init, ControlTypes
<1>6. NotedInv
  BY DEF Init, NotedInv
<1>7. SafeInv
  BY <1>2 DEF SafeInv
<1> QED BY <1>3, <1>4, <1>5, <1>6, <1>7 DEF BaseInv

LEMMA AllAreSafe == ASSUME BaseInv, SafeInv, Proper PROVE SafeInv'
<1>1. made \in Nat
  BY DEF BaseInv, PointTypes
<1>2. ASSUME NEW n \in 1..made PROVE \E p \in Points : p.n = n /\ Safe(p)'
  <2>1. PICK p \in Points : p.n = n /\ Safe(p)
    BY DEF SafeInv
  <2> QED BY <2>1 DEF Proper
<1>3. CASE made' = made
  BY <1>2, <1>3 DEF SafeInv
<1>4. CASE made' = made + 1 /\ \E p \in Points : p.n = made' /\ Safe(p)'
  <2>1. \A n \in 1..made' : n \in 1..made \/ n = made'
    BY <1>1, <1>4
  <2> QED BY <1>2, <1>4, <2>1 DEF SafeInv
<1> QED BY <1>3, <1>4 DEF Proper

LEMMA BaseIsInvariant == Spec => [](BaseInv /\ SafeInv)
<1>1. BaseInv /\ SafeInv /\ [Next]_vars => (BaseInv /\ SafeInv)'
  <2> SUFFICES ASSUME BaseInv, SafeInv, [Next]_vars PROVE (BaseInv /\ SafeInv)'
    OBVIOUS
  <2>1. Proper
    BY StepIsProper
  <2> QED BY <2>1, AllAreSafe DEF Proper
<1> QED BY <1>1, InitIsBase, PTL DEF Spec

(* The types of the outputs' state.  The number that mqtt, thingsboard and smardaten keep *)
(* beside the map of their pending points (pendingCount, mqtt.go:88) is the number of     *)
(* points in it, and never exceeds maxPendingPoints (mqtt.go:154-158).                    *)
THEOREM OutputsTypeCorrect == Spec => []TypeOK
<1>1. BaseInv => TypeOK
  BY TypesInParts DEF BaseInv
<1> QED BY <1>1, BaseIsInvariant, PTL

(* Every point that was published is still pending, taken by flush, in the durable queue  *)
(* or with the other side, or it was lost in one of the four ways that NothingLost names, *)
(* for any devices, batch sizes and numbers of failures (mqtt.go:146-270,                 *)
(* thingsboard.go:213-226 and 376-430, tdengine.go:156-238, smardaten.go:232-260 and      *)
(* 716-847).                                                                              *)
THEOREM PointsAreAccountedFor == Spec => []NothingLost
<1>1. BaseInv /\ SafeInv => NothingLost
  <2> SUFFICES ASSUME SafeInv, NEW n \in 1..made
               PROVE  \/ \E p \in peer.got \cup Held(pending) \cup Held(flush.batch) \cup ToSet(rows) : p.n = n
                      \/ \E l \in lost : l.point.n = n /\ (l.why = "skipped" => l.point.dev \in failed)
    BY DEF NothingLost
  <2>1. PICK p \in Points : p.n = n /\ Safe(p)
    BY DEF SafeInv
  <2> QED BY <2>1 DEF Safe, Excused
<1> QED BY <1>1, BaseIsInvariant, PTL

-----------------------------------------------------------------------------
(* What is shown of a device.                                                  *)

LEMMA StatusOfKept ==
    ASSUME NEW d, StatusOf(d),
           UNCHANGED <<kind, coming, leaving, flush.coming, flush.leaving>>, online'[d] = online[d],
           d \in peer'.shows <=> d \in peer.shows, d \in connected' <=> d \in connected
    PROVE  StatusOf(d)'
BY DEF StatusOf, Told

LEMMA StatusKept ==
    ASSUME StatusInv,
           UNCHANGED <<kind, coming, leaving, flush.coming, flush.leaving, online, peer.shows, connected>>,
           skewed \subseteq skewed', phase # "closed" \/ phase' = "closed"
    PROVE  StatusInv'
<1>1. ASSUME phase' # "closed", NEW d \in Devices \ skewed' PROVE StatusOf(d)'
  <2>1. StatusOf(d)
    BY <1>1 DEF StatusInv
  <2> QED BY <2>1, StatusOfKept
<1> QED BY <1>1 DEF StatusInv

(* A notification: now is what it says. *)
LEMMA NoticeStatus ==
    ASSUME BaseInv, StatusInv, NEW d \in Devices, DeviceOnline(d) \/ DeviceOffline(d)
    PROVE  StatusInv'
<1>1. /\ UNCHANGED <<kind, phase, flush, peer, connected>> /\ online \in [Devices -> BOOLEAN]
      /\ \A e \in Devices \ {d} : online'[e] = online[e]
      /\ skewed' = IF Heard(d) THEN skewed \ {d} ELSE skewed \cup {d}
  BY DEF DeviceOnline, DeviceOffline, Notice, BaseInv, ControlTypes
<1>2. \/ ~Heard(d) /\ coming' = coming /\ leaving' = leaving
      \/ Heard(d) /\ coming' = coming \cup {d} /\ leaving' = leaving \ {d} /\ online'[d] = TRUE
      \/ Heard(d) /\ coming' = coming \ {d} /\ leaving' = leaving \cup {d} /\ online'[d] = FALSE
  BY <1>1 DEF DeviceOnline, DeviceOffline, Notice, Withdraw, BaseInv, ControlTypes
<1>3. coming' \cap leaving' = {} /\ flush'.coming \cap flush'.leaving = {}
  BY <1>1, <1>2 DEF StatusInv
<1>4. ASSUME phase' # "closed", NEW e \in Devices \ skewed' PROVE StatusOf(e)'
  <2>1. CASE e = d
    <3>1. Heard(d)
      BY <1>1, <1>4, <2>1
    <3> QED BY <1>2, <1>3, <2>1, <3>1 DEF StatusOf
  <2>2. CASE e # d
    <3>1. StatusOf(e)
      BY <1>1, <1>4, <2>2 DEF StatusInv
    <3>2. (e \in coming' <=> e \in coming) /\ (e \in leaving' <=> e \in leaving)
      BY <1>2, <2>2
    <3> QED BY <1>1, <2>2, <3>1, <3>2 DEF StatusOf, Told
  <2> QED BY <2>1, <2>2
<1> QED BY <1>3, <1>4 DEF StatusInv

LEMMA FlushBeginsStatus ==
    ASSUME BaseInv, StatusInv, FlushBegins PROVE StatusInv'
<1>1. /\ flush = NoFlush /\ coming' = {} /\ leaving' = {}
      /\ UNCHANGED <<kind, phase, peer, online, skewed>>
      /\ IF kind = "smardaten"
           THEN /\ connected' = (connected \ leaving) \cup coming
                /\ flush' = [NoFlush EXCEPT !.batch = pending]
           ELSE /\ flush' = [leaving |-> leaving, coming |-> coming, batch |-> pending]
                /\ UNCHANGED connected
  BY DEF FlushBegins, history
<1>2. flush.coming = {} /\ flush.leaving = {}
  BY <1>1 DEF NoFlush
<1>3. coming' \cap leaving' = {} /\ flush'.coming \cap flush'.leaving = {}
  BY <1>1 DEF StatusInv, NoFlush
<1>4. ASSUME phase' # "closed", NEW d \in Devices \ skewed' PROVE StatusOf(d)'
  <2>1. StatusOf(d) /\ coming \cap leaving = {}
    BY <1>1, <1>4 DEF StatusInv
  <2>2. CASE kind = "smardaten"
    BY <1>1, <2>1, <2>2 DEF StatusOf
  <2>3. CASE kind = "thingsboard"
    <3>1. flush'.coming = coming /\ flush'.leaving = leaving
      BY <1>1, <2>3
    <3> QED BY <1>1, <1>2, <2>1, <2>3, <3>1 DEF StatusOf, Told
  <2>4. CASE kind \notin {"smardaten", "thingsboard"}
    BY <1>1, <2>4 DEF StatusOf
  <2> QED BY <2>2, <2>3, <2>4
<1> QED BY <1>3, <1>4 DEF StatusInv

LEMMA DisconnectStatus ==
    ASSUME BaseInv, StatusInv, NEW d \in Devices, Disconnect(d) PROVE StatusInv'
<1>1. /\ kind = "thingsboard" /\ d \in flush.leaving
      /\ UNCHANGED <<kind, coming, leaving, phase, online>>
      /\ skewed' = IF link = "up" THEN skewed ELSE skewed \cup {d}
      /\ flush' = [flush EXCEPT !.leaving = @ \ {d}]
      /\ peer' = [peer EXCEPT !.shows = @ \ {d}] \/ (peer' = peer /\ link # "up")
  BY DEF Disconnect, Handling, Reaches
<1>2. /\ flush'.leaving = flush.leaving \ {d} /\ flush'.coming = flush.coming
      /\ peer'.shows = peer.shows \ {d} \/ (peer'.shows = peer.shows /\ link # "up")
  BY <1>1 DEF BaseInv, ControlTypes
<1>3. coming' \cap leaving' = {} /\ flush'.coming \cap flush'.leaving = {}
  BY <1>1, <1>2 DEF StatusInv
<1>4. ASSUME phase' # "closed", NEW e \in Devices \ skewed' PROVE StatusOf(e)'
  <2>1. StatusOf(e) /\ flush.coming \cap flush.leaving = {}
    BY <1>1, <1>4 DEF StatusInv
  <2>2. CASE e = d
    <3>1. link = "up" /\ peer'.shows = peer.shows \ {d}
      BY <1>1, <1>2, <1>4, <2>2
    <3> QED BY <1>1, <1>2, <2>1, <2>2, <3>1 DEF StatusOf, Told
  <2>3. CASE e # d
    BY <1>1, <1>2, <2>1, <2>3 DEF StatusOf, Told
  <2> QED BY <2>2, <2>3
<1> QED BY <1>3, <1>4 DEF StatusInv

LEMMA ConnectStatus ==
    ASSUME BaseInv, StatusInv, NEW d \in Devices, Connect(d) PROVE StatusInv'
<1>1. /\ kind = "thingsboard" /\ d \in flush.coming
      /\ UNCHANGED <<kind, coming, leaving, phase, online>>
      /\ skewed' = IF link = "up" /\ d \in peer'.shows THEN skewed ELSE skewed \cup {d}
      /\ flush' = [flush EXCEPT !.coming = @ \ {d}]
      /\ peer' \in {peer, [peer EXCEPT !.shows = @ \cup {d}]}
  BY DEF Connect, Connects, Handling
<1>2. /\ flush'.coming = flush.coming \ {d} /\ flush'.leaving = flush.leaving
      /\ peer'.shows = peer.shows \/ peer'.shows = peer.shows \cup {d}
  BY <1>1 DEF BaseInv, ControlTypes
<1>3. coming' \cap leaving' = {} /\ flush'.coming \cap flush'.leaving = {}
  BY <1>1, <1>2 DEF StatusInv
<1>4. ASSUME phase' # "closed", NEW e \in Devices \ skewed' PROVE StatusOf(e)'
  <2>1. StatusOf(e) /\ flush.coming \cap flush.leaving = {}
    BY <1>1, <1>4 DEF StatusInv
  <2>2. CASE e = d
    <3>1. d \in peer'.shows
      BY <1>1, <1>4, <2>2
    <3> QED BY <1>1, <1>2, <2>1, <2>2, <3>1 DEF StatusOf, Told
  <2>3. CASE e # d
    BY <1>1, <1>2, <2>1, <2>3 DEF StatusOf, Told
  <2> QED BY <2>2, <2>3
<1> QED BY <1>3, <1>4 DEF StatusInv

(* The points of a device connect it, whatever the notifications say: that is why it is   *)
(* skewed from then on.                                                                    *)
LEMMA PrepareStatus ==
    ASSUME BaseInv, StatusInv, NEW d \in Devices, Prepare(d) PROVE StatusInv'
<1>1. /\ kind \in {"thingsboard", "tdengine"}
      /\ UNCHANGED <<kind, coming, leaving, phase, online>>
      /\ skewed' = skewed \cup IF kind = "thingsboard" THEN {d} ELSE {}
      /\ peer' \in {peer, [peer EXCEPT !.shows = @ \cup {d}]}
  BY DEF Prepare, Turn, Connects, Handling
<1>2. /\ flush'.coming = flush.coming /\ flush'.leaving = flush.leaving
      /\ peer'.shows = peer.shows \/ peer'.shows = peer.shows \cup {d}
  <2>1. flush' = flush \/ flush' = Left(d, <<>>)
    BY DEF Prepare
  <2>2. <<>> \in Seq(Points)
    OBVIOUS
  <2>3. flush'.coming = flush.coming /\ flush'.leaving = flush.leaving
    <3>1. Left(d, <<>>).leaving = flush.leaving /\ Left(d, <<>>).coming = flush.coming
      BY <2>2, LeftIs DEF BaseInv
    <3> QED BY <2>1, <3>1
  <2> QED BY <1>1, <2>3 DEF BaseInv, ControlTypes
<1>3. ASSUME phase' # "closed", NEW e \in Devices \ skewed' PROVE StatusOf(e)'
  <2>1. StatusOf(e)
    BY <1>1, <1>3 DEF StatusInv
  <2>2. kind = "thingsboard" => e # d
    BY <1>1, <1>3
  <2> QED BY <1>1, <1>2, <2>1, <2>2 DEF StatusOf, Told
<1> QED BY <1>1, <1>2, <1>3 DEF StatusInv

LEMMA HandledStatus ==
    ASSUME BaseInv, StatusInv, NEW d \in Devices,
           \/ PublishBatch(d) \/ PublishAll(d) \/ ReportChange(d)
           \/ SkipUnchanged(d) \/ SkipUnmapped(d)
    PROVE  StatusInv'
<1>1. /\ Turn(d) /\ UNCHANGED <<connected, skewed>>
      /\ \/ PublishBatch(d) \/ PublishAll(d) \/ ReportChange(d)
         \/ SkipUnchanged(d) \/ SkipUnmapped(d)
  BY DEF PublishBatch, PublishAll, ReportChange, SkipUnchanged, SkipUnmapped
<1>2. PICK rest : Handles(d, rest)
  BY SendersAre, SkipUnchangedIs, SkipUnmappedIs DEF BaseInv, Handled
<1>3. flush'.coming = flush.coming /\ flush'.leaving = flush.leaving
  BY <1>2, LeftIs DEF Handles, BaseInv
<1>4. peer' = peer \/ \E ps : peer' = Received(d, ps)
  BY <1>1 DEF PublishBatch, PublishAll, ReportChange, SkipUnchanged, SkipUnmapped, Send
<1>5. peer'.shows = peer.shows
  <2>1. \A ps : Received(d, ps).shows = peer.shows
    BY DEF Received, BaseInv, ControlTypes
  <2> QED BY <1>4, <2>1
<1> QED BY <1>1, <1>3, <1>5, StatusKept DEF Turn, Handling

LEMMA StatusStep == ASSUME BaseInv, StatusInv, [Next]_vars PROVE StatusInv'
<1>1. ASSUME NEW p, NEW queue, Publish(p, queue) PROVE StatusInv'
  BY <1>1, StatusKept DEF Publish
<1>2. ASSUME Replay \/ \E d \in Devices, v \in Values : Collect(d, v) PROVE StatusInv'
  BY <1>1, <1>2 DEF Replay, Collect
<1>3. ASSUME CloseBegins \/ Reconnect \/ UNCHANGED vars PROVE StatusInv'
  BY <1>3, StatusKept DEF CloseBegins, Reconnect, vars, own, history
<1>4. ASSUME CloseEnds PROVE StatusInv'
  BY <1>4 DEF CloseEnds, StatusInv
<1>5. ASSUME New \/ Outage PROVE StatusInv'
  <2>1. /\ UNCHANGED <<coming, leaving, flush>> /\ skewed' = Devices
    BY <1>5 DEF New, Outage, own
  <2> QED BY <2>1 DEF StatusInv
<1>6. ASSUME NEW devs, BuildFrom(devs) PROVE StatusInv'
  BY <1>6, StatusKept DEF BuildFrom, own
<1>7. ASSUME NEW d \in Devices,
             \/ PublishBatch(d) \/ PublishAll(d) \/ ReportChange(d)
             \/ SkipUnchanged(d) \/ SkipUnmapped(d)
      PROVE  StatusInv'
  BY <1>7, HandledStatus
<1> QED BY <1>2, <1>3, <1>4, <1>5, <1>6, <1>7, NoticeStatus, FlushBeginsStatus, DisconnectStatus,
           ConnectStatus, PrepareStatus DEF Next, PublishNext, FlushNext, OtherNext

(* When ThingsBoard's output has nothing to flush, it has shown exactly the devices        *)
(* online whose last notification said so, and smardaten's diagnosis likewise, unless a    *)
(* failure, a rebuild or points of a device that had gone came between: for any number of  *)
(* devices, and notifications between any two steps of flush (thingsboard.go:376-430,      *)
(* smardaten.go:716-730).                                                                  *)
THEOREM StatusIsShown == Spec => []StatusFollows
<1>1. Init => StatusInv
  BY DEF Init, StatusInv, StatusOf, Told, NoFlush
<1>2. BaseInv /\ StatusInv => StatusFollows
  <2> SUFFICES ASSUME BaseInv, StatusInv, flush = NoFlush, phase = "run",
                      NEW d \in Devices \ (coming \cup leaving \cup skewed)
               PROVE  /\ kind = "thingsboard" => (d \in peer.shows <=> online[d])
                      /\ kind = "smardaten" => (d \in connected <=> online[d])
    BY DEF StatusFollows
  <2>1. StatusOf(d) /\ ~Told(d)
    BY DEF StatusInv, Told, NoFlush
  <2> QED BY <2>1 DEF StatusOf
<1>3. BaseInv /\ StatusInv /\ [Next]_vars => StatusInv'
  BY StatusStep
<1> QED BY <1>1, <1>2, <1>3, BaseIsInvariant, PTL DEF Spec

-----------------------------------------------------------------------------
(* The Sparkplug output.                                                       *)

Works ==
    [pc : {"read", "declare", "birth", "mark", "death"}, dev : SparkDevices, points : SUBSET Names]

Tasks == {Spark!Free} \cup Works

SparkTypes ==
    /\ connection \in {"up", "down", "off"} /\ closed \in BOOLEAN /\ bornAll \in BOOLEAN
    /\ stored \in [SparkDevices -> SUBSET Names]
    /\ born \subseteq SparkDevices
    /\ waiting \in Nat /\ count.connects \in Nat
    /\ waiting <= count.connects /\ count.connects <= MaxConnects
    /\ births = None \/ \A d \in DOMAIN births : d \in SparkDevices /\ births[d] \subseteq Names
    /\ task \in [Spark!Threads -> Tasks]
    /\ slot = Spark!NoPoint \/ slot.dev \in SparkDevices
    /\ saved \subseteq [dev : SparkDevices, name : Names]
    /\ host \in [declared : SUBSET Spark!Declarations, shows : SUBSET SparkDevices]
    /\ count = [connects |-> count.connects, notices |-> count.notices, edits |-> count.edits,
                points |-> count.points]

(* The aliases are numbered one after the other. *)
Numbered(m) ==
    /\ m \subseteq Spark!Declarations /\ IsFiniteSet(m)
    /\ \A a \in m : a.alias \in 1..Cardinality(m)
    /\ \A a, b \in m : a.alias = b.alias => a = b

(* Nothing went wrong with the device. *)
Sound(d) == d \in SparkDevices /\ d \notin raced /\ d \notin unsent

(* What the other side shows of a device while a thread works on it. *)
Shown(d, pc) ==
    /\ pc \in {"read", "declare"} => (d \in born <=> d \in host.shows)
    /\ pc = "birth" => d \notin born /\ d \notin host.shows
    /\ pc = "mark" => d \notin born /\ d \in host.shows
    /\ pc = "death" => d \notin born

(* The alias is known there, or the birth that declares it is on its way. *)
Announced(a) ==
    \/ a \in host.declared
    \/ \E t \in Spark!Threads :
          task[t].pc = "birth" /\ task[t].dev = a.dev /\ a.name \in task[t].points

SoundInv(d) ==
    /\ \A t, u \in Spark!Threads : task[t].dev = d /\ task[u].dev = d => t = u
    /\ (\A t \in Spark!Threads : task[t].dev # d) => (d \in born <=> d \in host.shows)
    /\ \A t \in Spark!Threads : task[t].dev = d => Shown(d, task[t].pc)
    /\ \A a \in meta : a.dev = d => Announced(a)
    /\ slot.dev = d /\ slot.alias # None => slot \in host.declared

ViewInv == ~unresolved /\ \A d \in SparkDevices : Sound(d) => SoundInv(d)

SparkInv == SparkTypes /\ Numbered(meta) /\ ViewInv

LEMMA SparkInitially == Spark!SparkInit => SparkInv
<1> SUFFICES ASSUME Spark!SparkInit PROVE SparkInv
  OBVIOUS
<1>1. SparkTypes
  <2>1. task \in [Spark!Threads -> Tasks]
    BY DEF Spark!SparkInit, Tasks
  <2>2. host \in [declared : SUBSET Spark!Declarations, shows : SUBSET SparkDevices]
    BY DEF Spark!SparkInit
  <2>3. /\ waiting \in Nat /\ count.connects \in Nat
        /\ waiting <= count.connects /\ count.connects <= MaxConnects
        /\ count = [connects |-> count.connects, notices |-> count.notices, edits |-> count.edits,
                    points |-> count.points]
    BY SparkAssumption DEF Spark!SparkInit
  <2> QED BY <2>1, <2>2, <2>3 DEF SparkTypes, Spark!SparkInit
<1>2. Numbered(meta)
  BY FS_EmptySet DEF Numbered, Spark!SparkInit
<1>3. ViewInv
  BY SparkAssumption DEF ViewInv, SoundInv, Sound, Shown, Spark!SparkInit, Spark!Free, Spark!NoPoint
<1> QED BY <1>1, <1>2, <1>3 DEF SparkInv

LEMMA TaskIs ==
    ASSUME SparkTypes, NEW t \in Spark!Threads
    PROVE  /\ task[t] = Spark!Free \/ task[t] \in Works
           /\ task[t].pc = "idle" \/ (task[t].dev \in SparkDevices /\ task[t].points \subseteq Names)
           /\ task[t].pc = "idle" => task[t] = Spark!Free
           /\ task[t] = Spark!Free => task[t].pc = "idle" /\ task[t].dev = None
BY DEF SparkTypes, Tasks, Works, Spark!Free

(* A thread goes on: what its step does to its task. *)
LEMMA Going ==
    ASSUME SparkTypes, NEW t \in Spark!Threads, NEW pc
    PROVE  /\ Spark!Goes(t, pc) =>
                /\ task'[t].pc = pc /\ task'[t].dev = task[t].dev /\ task'[t].points = task[t].points
                /\ \A u \in Spark!Threads \ {t} : task'[u] = task[u]
                /\ task[t].pc # "idle" /\ pc \in {"read", "declare", "birth", "mark", "death"} =>
                      task' \in [Spark!Threads -> Tasks]
           /\ Spark!Done(t) =>
                /\ task'[t] = Spark!Free /\ task'[t].pc = "idle" /\ task'[t].dev = None
                /\ \A u \in Spark!Threads \ {t} : task'[u] = task[u]
                /\ task' \in [Spark!Threads -> Tasks]
<1>1. task \in [Spark!Threads -> Tasks]
  BY DEF SparkTypes
<1>2. ASSUME Spark!Goes(t, pc)
      PROVE  /\ task'[t].pc = pc /\ task'[t].dev = task[t].dev /\ task'[t].points = task[t].points
             /\ \A u \in Spark!Threads \ {t} : task'[u] = task[u]
             /\ task[t].pc # "idle" /\ pc \in {"read", "declare", "birth", "mark", "death"} =>
                   task' \in [Spark!Threads -> Tasks]
  <2>1. task' = [task EXCEPT ![t] = [task[t] EXCEPT !.pc = pc]]
    BY <1>1, <1>2 DEF Spark!Goes
  <2>2. task'[t] = [task[t] EXCEPT !.pc = pc] /\ \A u \in Spark!Threads \ {t} : task'[u] = task[u]
    BY <1>1, <2>1
  <2>3. task[t] = [pc |-> task[t].pc, dev |-> task[t].dev, points |-> task[t].points]
    BY TaskIs DEF Works, Spark!Free
  <2>4. [task[t] EXCEPT !.pc = pc] = [pc |-> pc, dev |-> task[t].dev, points |-> task[t].points]
    BY <2>3
  <2>5. ASSUME task[t].pc # "idle", pc \in {"read", "declare", "birth", "mark", "death"}
        PROVE  task' \in [Spark!Threads -> Tasks]
    <3>1. [pc |-> pc, dev |-> task[t].dev, points |-> task[t].points] \in Tasks
      BY <2>5, TaskIs DEF Tasks, Works
    <3> QED BY <1>1, <2>1, <2>4, <3>1
  <2> QED BY <2>2, <2>4, <2>5
<1>3. ASSUME Spark!Done(t)
      PROVE  /\ task'[t] = Spark!Free /\ task'[t].pc = "idle" /\ task'[t].dev = None
             /\ \A u \in Spark!Threads \ {t} : task'[u] = task[u]
             /\ task' \in [Spark!Threads -> Tasks]
  <2>1. task' = [task EXCEPT ![t] = Spark!Free]
    BY <1>3 DEF Spark!Done
  <2>2. Spark!Free \in Tasks /\ Spark!Free.pc = "idle" /\ Spark!Free.dev = None
    BY DEF Tasks, Spark!Free
  <2> QED BY <1>1, <2>1, <2>2
<1> QED BY <1>2, <1>3

LEMMA Beginning ==
    ASSUME SparkTypes, NEW t \in Spark!Threads, NEW pc \in {"read", "declare", "birth", "mark", "death"},
           NEW d \in SparkDevices, NEW points \in SUBSET Names, Spark!Begins(t, pc, d, points)
    PROVE  /\ task[t] = Spark!Free /\ task[t].pc = "idle" /\ task[t].dev = None
           /\ task'[t].pc = pc /\ task'[t].dev = d
           /\ \A u \in Spark!Threads \ {t} : task'[u] = task[u]
           /\ task' \in [Spark!Threads -> Tasks]
           /\ raced \subseteq raced' /\ raced' \subseteq raced \cup {d}
           /\ d \notin raced' => \A u \in Spark!Threads : task[u].dev # d
<1>1. task \in [Spark!Threads -> Tasks]
  BY DEF SparkTypes
<1>2. PICK new : new = [pc |-> pc, dev |-> d, points |-> points]
  OBVIOUS
<1>3. new \in Tasks /\ new.pc = pc /\ new.dev = d
  BY <1>2 DEF Tasks, Works
<1>4. task' = [task EXCEPT ![t] = new] /\ task[t] = Spark!Free
      /\ raced' = IF \E u \in Spark!Threads : task[u].dev = d THEN raced \cup {d} ELSE raced
  BY <1>2 DEF Spark!Begins
<1> QED BY <1>1, <1>3, <1>4 DEF Spark!Free

(* The devices on which a step does not work. *)
LEMMA OthersKept ==
    ASSUME NEW t \in Spark!Threads, NEW d \in SparkDevices, NEW e \in SparkDevices, e # d, None # e,
           SoundInv(e),
           \A u \in Spark!Threads \ {t} : task'[u] = task[u],
           task[t].dev \in {d, None}, task'[t].dev \in {d, None},
           e \in born' <=> e \in born, e \in host'.shows <=> e \in host.shows,
           host.declared \subseteq host'.declared,
           meta \subseteq meta', \A a \in meta' : a \in meta \/ a.dev = d, UNCHANGED slot
    PROVE  SoundInv(e)'
<1>1. \A u \in Spark!Threads : (task'[u].dev = e <=> task[u].dev = e)
                               /\ (task[u].dev = e => task'[u] = task[u])
  <2> SUFFICES ASSUME NEW u \in Spark!Threads
               PROVE  (task'[u].dev = e <=> task[u].dev = e) /\ (task[u].dev = e => task'[u] = task[u])
    OBVIOUS
  <2>1. CASE u = t
    BY <2>1
  <2>2. CASE u # t
    BY <2>2
  <2> QED BY <2>1, <2>2
<1>2. \A u, v \in Spark!Threads : task'[u].dev = e /\ task'[v].dev = e => u = v
  BY <1>1 DEF SoundInv
<1>3. (\A u \in Spark!Threads : task'[u].dev # e) => (e \in born' <=> e \in host'.shows)
  BY <1>1 DEF SoundInv
<1>4. \A u \in Spark!Threads : task'[u].dev = e => Shown(e, task[u].pc)'
  BY <1>1 DEF SoundInv, Shown
<1>5. ASSUME NEW a \in meta', a.dev = e PROVE Announced(a)'
  <2>1. a \in meta /\ Announced(a)
    BY <1>5 DEF SoundInv
  <2> QED BY <1>1, <1>5, <2>1 DEF Announced
<1> QED BY <1>2, <1>3, <1>4, <1>5 DEF SoundInv

(* A step of a thread that works on d. *)
LEMMA ViewStep ==
    ASSUME ViewInv, NEW t \in Spark!Threads, NEW d \in SparkDevices,
           \A u \in Spark!Threads \ {t} : task'[u] = task[u],
           task[t].dev \in {d, None}, task'[t].dev \in {d, None},
           \A e \in SparkDevices \ {d} :
               (e \in born' <=> e \in born) /\ (e \in host'.shows <=> e \in host.shows),
           host.declared \subseteq host'.declared,
           meta \subseteq meta', \A a \in meta' : a \in meta \/ a.dev = d,
           UNCHANGED <<slot, unresolved>>, raced \subseteq raced', unsent \subseteq unsent',
           Sound(d)' => SoundInv(d)'
    PROVE  ViewInv'
<1> SUFFICES ASSUME NEW e \in SparkDevices, Sound(e)' PROVE SoundInv(e)'
  BY DEF ViewInv
<1>1. CASE e = d
  BY <1>1
<1>2. CASE e # d
  <2>1. Sound(e) /\ SoundInv(e)
    BY DEF Sound, ViewInv
  <2>2. None # e
    BY SparkAssumption
  <2> QED BY <1>2, <2>1, <2>2, OthersKept
<1> QED BY <1>1, <1>2

(* A step that no thread takes. *)
LEMMA ViewAside ==
    ASSUME ViewInv, UNCHANGED <<born, meta, task, slot, host, raced, unsent, unresolved>>
    PROVE  ViewInv'
BY DEF ViewInv, SoundInv, Sound, Shown, Announced

LEMMA BeginView ==
    ASSUME SparkInv, NEW t \in Spark!Threads, NEW pc \in {"read", "declare", "death"},
           NEW d \in SparkDevices, NEW points \in SUBSET Names, Spark!Begins(t, pc, d, points),
           born' = born \/ (pc = "death" /\ born' = born \ {d}),
           pc = "death" => d \notin born',
           UNCHANGED <<meta, host, slot, unsent, unresolved>>
    PROVE  ViewInv'
<1>1. /\ task[t].dev = None /\ task[t].pc = "idle" /\ task'[t].pc = pc /\ task'[t].dev = d
      /\ \A u \in Spark!Threads \ {t} : task'[u] = task[u]
      /\ raced \subseteq raced'
      /\ d \notin raced' => \A u \in Spark!Threads : task[u].dev # d
  BY Beginning DEF SparkInv
<1>2. ASSUME Sound(d)' PROVE SoundInv(d)'
  <2>1. (\A u \in Spark!Threads : task[u].dev # d) /\ Sound(d) /\ SoundInv(d)
    BY <1>1, <1>2 DEF Sound, SparkInv, ViewInv
  <2>2. \A u \in Spark!Threads : task'[u].dev = d => u = t
    BY <1>1, <2>1
  <2>3. Shown(d, task[t].pc)'
    BY <1>1, <2>1 DEF SoundInv, Shown
  <2>4. ASSUME NEW a \in meta, a.dev = d PROVE Announced(a)'
    <3>1. Announced(a)
      BY <2>1, <2>4 DEF SoundInv
    <3>2. a \in host.declared
      BY <2>1, <2>4, <3>1 DEF Announced
    <3> QED BY <3>2 DEF Announced
  <2> QED BY <1>1, <2>1, <2>2, <2>3, <2>4 DEF SoundInv
<1>3. \A e \in SparkDevices \ {d} : (e \in born' <=> e \in born) /\ (e \in host'.shows <=> e \in host.shows)
  OBVIOUS
<1> QED BY <1>1, <1>2, <1>3, ViewStep DEF SparkInv

(* What holds of a device on which a thread is at work. *)
LEMMA AtWorkOn ==
    ASSUME SparkInv, NEW t \in Spark!Threads, NEW d, d = task[t].dev, task[t].pc # "idle", Sound(d)
    PROVE  /\ d \in SparkDevices /\ Shown(d, task[t].pc)
           /\ \A u \in Spark!Threads \ {t} : task[u].dev # d
           /\ \A a \in meta : a.dev = d =>
                 a \in host.declared \/ (task[t].pc = "birth" /\ a.name \in task[t].points)
           /\ slot.dev = d /\ slot.alias # None => slot \in host.declared
<1>1. SoundInv(d)
  BY DEF Sound, SparkInv, ViewInv
<1>2. \A u \in Spark!Threads \ {t} : task[u].dev # d
  BY <1>1 DEF SoundInv
<1>3. ASSUME NEW a \in meta, a.dev = d
      PROVE  a \in host.declared \/ (task[t].pc = "birth" /\ a.name \in task[t].points)
  BY <1>1, <1>2, <1>3 DEF SoundInv, Announced
<1> QED BY <1>1, <1>2, <1>3 DEF SoundInv, Sound

LEMMA SameCardinality == ASSUME NEW S PROVE Spark!Cardinality(S) = Cardinality(S)
BY DEF Spark!Cardinality, Cardinality

(* The points of a birth that have no alias yet get the next ones. *)
LEMMA WithAliasesAdds ==
    ASSUME NEW d, NEW names
    PROVE  /\ meta \subseteq Spark!WithAliases(d, names)
           /\ \A a \in Spark!WithAliases(d, names) : a \in meta \/ (a.dev = d /\ a.name \in names)
           /\ Numbered(meta) /\ d \in SparkDevices /\ names \subseteq Names =>
                 Numbered(Spark!WithAliases(d, names))
<1> DEFINE new   == {n \in names : ~Spark!Known(meta, d, n)}
           given == CHOOSE f \in [new -> Spark!Cardinality(meta) + 1 ..
                                         Spark!Cardinality(meta) + Spark!Cardinality(new)] :
                       \A m, n \in new : f[m] = f[n] => m = n
           more  == {[dev |-> d, name |-> n, alias |-> given[n]] : n \in new}
<1>1. Spark!WithAliases(d, names) = meta \cup more
  BY DEF Spark!WithAliases
<1>2. \A n \in new : n \in names
  OBVIOUS
<1>3. ASSUME Numbered(meta), d \in SparkDevices, names \subseteq Names
      PROVE  Numbered(meta \cup more)
  <2>1. IsFiniteSet(new)
    BY <1>3, FS_Subset, SparkAssumption
  <2> HIDE DEF new
  <2> DEFINE k == Cardinality(meta)
             c == Cardinality(new)
  <2>2. k \in Nat /\ c \in Nat /\ IsFiniteSet(meta)
    BY <1>3, <2>1, FS_CardinalityType DEF Numbered
  <2>3. \E f \in [new -> k + 1 .. k + c] : \A m, n \in new : f[m] = f[n] => m = n
    <3>1. PICK g \in Bijection(1..c, new) : TRUE
      BY <2>1, FS_CardinalityType DEF ExistsBijection
    <3>2. \A n \in new : \E i \in 1..c : g[i] = n
      BY <3>1 DEF Bijection, Surjection
    <3> DEFINE f == [n \in new |-> k + CHOOSE i \in 1..c : g[i] = n]
    <3>3. \A n \in new : /\ (CHOOSE i \in 1..c : g[i] = n) \in 1..c
                        /\ g[CHOOSE i \in 1..c : g[i] = n] = n
      BY <3>2
    <3>4. f \in [new -> k + 1 .. k + c]
      BY <2>2, <3>3
    <3>5. ASSUME NEW m \in new, NEW n \in new, f[m] = f[n] PROVE m = n
      <4>1. (CHOOSE i \in 1..c : g[i] = m) = (CHOOSE i \in 1..c : g[i] = n)
        BY <2>2, <3>3, <3>5
      <4> QED BY <3>3, <4>1
    <3> QED BY <3>4, <3>5
  <2>4. given \in [new -> k + 1 .. k + c] /\ \A m, n \in new : given[m] = given[n] => m = n
    BY <2>3, SameCardinality
  <2> HIDE DEF given
  <2>5. \A a \in more : \E n \in new : a = [dev |-> d, name |-> n, alias |-> given[n]]
    OBVIOUS
  <2>6. \A n \in new : n \in Names
    BY <1>3 DEF new
  <2>7. ASSUME NEW a \in more
        PROVE  a \in Spark!Declarations /\ a.alias \in k + 1 .. k + c
    <3>1. PICK n \in new : a = [dev |-> d, name |-> n, alias |-> given[n]]
      BY <2>5
    <3>2. given[n] \in k + 1 .. k + c /\ given[n] \in Nat
      BY <2>2, <2>4
    <3> QED BY <1>3, <2>6, <3>1, <3>2 DEF Spark!Declarations
  <2>8. ASSUME NEW a \in more, NEW b \in more, a.alias = b.alias PROVE a = b
    <3>1. PICK m \in new : a = [dev |-> d, name |-> m, alias |-> given[m]]
      BY <2>5
    <3>2. PICK n \in new : b = [dev |-> d, name |-> n, alias |-> given[n]]
      BY <2>5
    <3> QED BY <2>4, <2>8, <3>1, <3>2
  <2>9. IsFiniteSet(more) /\ Cardinality(more) = c
    <3> DEFINE h == [n \in new |-> [dev |-> d, name |-> n, alias |-> given[n]]]
    <3>1. h \in [new -> more] /\ \A m, n \in new : h[m] = h[n] => m = n
      OBVIOUS
    <3>2. \A a \in more : \E n \in new : h[n] = a
      BY <2>5
    <3> HIDE DEF h, more
    <3>3. h \in Bijection(new, more)
      BY <3>1, <3>2 DEF Bijection, Injection, Surjection, IsInjective
    <3> QED BY <2>1, <3>3, FS_Bijection DEF ExistsBijection
  <2> HIDE DEF more
  <2>10. \A a \in meta : a.alias \in 1..k /\ a \in Spark!Declarations
    BY <1>3 DEF Numbered
  <2>11. meta \cap more = {}
    BY <2>2, <2>7, <2>10
  <2>12. IsFiniteSet(meta \cup more) /\ Cardinality(meta \cup more) = k + c
    <3>1. Cardinality(meta \cap more) = 0
      BY <2>11, FS_EmptySet
    <3>2. IsFiniteSet(meta \cup more)
          /\ Cardinality(meta \cup more) = k + Cardinality(more) - Cardinality(meta \cap more)
      BY <2>2, <2>9, FS_Union
    <3> QED BY <2>2, <2>9, <3>1, <3>2
  <2>13. \A a \in meta \cup more : a.alias \in 1..(k + c) /\ a \in Spark!Declarations
    BY <2>2, <2>7, <2>10
  <2>14. \A a, b \in meta \cup more : a.alias = b.alias => a = b
    <3>1. \A a, b \in meta : a.alias = b.alias => a = b
      BY <1>3 DEF Numbered
    <3>2. \A a \in meta, b \in more : a.alias # b.alias
      BY <2>2, <2>7, <2>10
    <3> QED BY <2>8, <3>1, <3>2
  <2> HIDE DEF k, c
  <2> QED BY <2>12, <2>13, <2>14 DEF Numbered
<1> HIDE DEF given, new
<1>4. ASSUME NEW a \in more PROVE a.dev = d /\ a.name \in names
  <2>1. PICK n \in new : a = [dev |-> d, name |-> n, alias |-> given[n]]
    OBVIOUS
  <2> QED BY <1>2, <2>1
<1> HIDE DEF more
<1> QED BY <1>1, <1>3, <1>4

LEMMA DeclareView ==
    ASSUME SparkInv, NEW t \in Spark!Threads, Spark!Declare(t)
    PROVE  ViewInv'
<1>1. PICK d : d = task[t].dev
  OBVIOUS
<1>2. task[t].pc = "declare" /\ d \in SparkDevices
  BY <1>1, TaskIs DEF Spark!Declare, SparkInv
<1>3. UNCHANGED <<born, host, slot, raced, unsent, unresolved>>
  BY DEF Spark!Declare
<1>4. meta \subseteq meta' /\ \A a \in meta' : a \in meta \/ (a.dev = d /\ a.name \in task[t].points)
  <2>1. meta' = meta \/ meta' = Spark!WithAliases(d, task[t].points)
    BY <1>1 DEF Spark!Declare
  <2> QED BY <2>1, WithAliasesAdds
<1>5. CASE d \in born
  <2>1. Spark!Done(t) /\ meta' = meta
    BY <1>1, <1>5 DEF Spark!Declare
  <2>2. task'[t].dev = None /\ \A u \in Spark!Threads \ {t} : task'[u] = task[u]
    BY <2>1, Going DEF SparkInv
  <2>3. ASSUME Sound(d)' PROVE SoundInv(d)'
    <3>1. Sound(d)
      BY <1>3, <2>3 DEF Sound
    <3>2. /\ Shown(d, "declare") /\ \A u \in Spark!Threads \ {t} : task[u].dev # d
          /\ \A a \in meta : a.dev = d => a \in host.declared
          /\ slot.dev = d /\ slot.alias # None => slot \in host.declared
      BY <1>1, <1>2, <3>1, AtWorkOn
    <3>3. \A u \in Spark!Threads : task'[u].dev # d
      BY <1>2, <2>2, <3>2, SparkAssumption
    <3> QED BY <1>3, <2>1, <3>2, <3>3 DEF SoundInv, Shown, Announced
  <2> QED BY <1>1, <1>2, <1>3, <1>4, <2>2, <2>3, ViewStep DEF SparkInv
<1>6. CASE d \notin born
  <2>1. Spark!Goes(t, "birth")
    BY <1>1, <1>6 DEF Spark!Declare
  <2>2. /\ task'[t].pc = "birth" /\ task'[t].dev = d /\ task'[t].points = task[t].points
        /\ \A u \in Spark!Threads \ {t} : task'[u] = task[u]
    BY <1>1, <2>1, Going DEF SparkInv
  <2>3. ASSUME Sound(d)' PROVE SoundInv(d)'
    <3>1. Sound(d)
      BY <1>3, <2>3 DEF Sound
    <3>2. /\ Shown(d, "declare") /\ \A u \in Spark!Threads \ {t} : task[u].dev # d
          /\ \A a \in meta : a.dev = d => a \in host.declared
          /\ slot.dev = d /\ slot.alias # None => slot \in host.declared
      BY <1>1, <1>2, <3>1, AtWorkOn
    <3>3. \A u \in Spark!Threads : task'[u].dev = d => u = t
      BY <2>2, <3>2
    <3>4. ASSUME NEW a \in meta', a.dev = d PROVE Announced(a)'
      BY <1>3, <1>4, <2>2, <3>2, <3>4 DEF Announced
    <3>5. Shown(d, task[t].pc)'
      BY <1>3, <1>6, <2>2, <3>2 DEF Shown
    <3> QED BY <1>3, <2>2, <3>2, <3>3, <3>4, <3>5 DEF SoundInv
  <2> QED BY <1>1, <1>2, <1>3, <1>4, <2>2, <2>3, ViewStep DEF SparkInv
<1> QED BY <1>5, <1>6

LEMMA BirthView ==
    ASSUME SparkInv, NEW t \in Spark!Threads, Spark!Birth(t)
    PROVE  ViewInv'
<1>1. PICK d : d = task[t].dev
  OBVIOUS
<1>2. task[t].pc = "birth" /\ d \in SparkDevices
  BY <1>1, TaskIs DEF Spark!Birth, SparkInv
<1>3. UNCHANGED <<born, meta, slot, raced, unresolved>> /\ unsent \subseteq unsent'
  BY DEF Spark!Birth
<1>4. PICK told : told = [host EXCEPT !.shows = @ \cup {d},
                              !.declared = @ \cup {a \in meta : a.dev = d /\ a.name \in task[t].points}]
  OBVIOUS
<1>5. /\ told.shows = host.shows \cup {d}
      /\ told.declared = host.declared \cup {a \in meta : a.dev = d /\ a.name \in task[t].points}
  BY <1>4 DEF SparkInv, SparkTypes
<1>6. \/ connection = "up" /\ host' = told /\ Spark!Goes(t, "mark") /\ UNCHANGED unsent
      \/ host' \in {host, told} /\ Spark!Done(t) /\ unsent' = unsent \cup {d}
  BY <1>1, <1>4 DEF Spark!Birth
<1>7. (\A e \in SparkDevices \ {d} : (e \in born' <=> e \in born) /\ (e \in host'.shows <=> e \in host.shows))
      /\ host.declared \subseteq host'.declared
  BY <1>3, <1>5, <1>6
<1>8. CASE connection = "up" /\ host' = told /\ Spark!Goes(t, "mark") /\ UNCHANGED unsent
  <2>1. /\ task'[t].pc = "mark" /\ task'[t].dev = d
        /\ \A u \in Spark!Threads \ {t} : task'[u] = task[u]
    BY <1>1, <1>8, Going DEF SparkInv
  <2>2. ASSUME Sound(d)' PROVE SoundInv(d)'
    <3>1. Sound(d)
      BY <1>3, <1>8, <2>2 DEF Sound
    <3>2. /\ Shown(d, "birth") /\ \A u \in Spark!Threads \ {t} : task[u].dev # d
          /\ \A a \in meta : a.dev = d => a \in host.declared \/ a.name \in task[t].points
          /\ slot.dev = d /\ slot.alias # None => slot \in host.declared
      BY <1>1, <1>2, <3>1, AtWorkOn
    <3>3. \A u \in Spark!Threads : task'[u].dev = d => u = t
      BY <2>1, <3>2
    <3>4. ASSUME NEW a \in meta', a.dev = d PROVE Announced(a)'
      BY <1>3, <1>5, <1>8, <3>2, <3>4 DEF Announced
    <3>5. Shown(d, task[t].pc)'
      BY <1>3, <1>5, <1>8, <2>1, <3>2 DEF Shown
    <3>6. slot'.dev = d /\ slot'.alias # None => slot' \in host'.declared
      BY <1>3, <1>5, <1>8, <3>2
    <3> QED BY <2>1, <3>3, <3>4, <3>5, <3>6 DEF SoundInv
  <2> QED BY <1>1, <1>2, <1>3, <1>7, <1>8, <2>1, <2>2, ViewStep DEF SparkInv
<1>9. CASE host' \in {host, told} /\ Spark!Done(t) /\ unsent' = unsent \cup {d}
  <2>1. task'[t].dev = None /\ \A u \in Spark!Threads \ {t} : task'[u] = task[u]
    BY <1>9, Going DEF SparkInv
  <2>2. ~Sound(d)'
    BY <1>9 DEF Sound
  <2> QED BY <1>1, <1>2, <1>3, <1>7, <2>1, <2>2, ViewStep DEF SparkInv
<1> QED BY <1>6, <1>8, <1>9

LEMMA MarkBornView ==
    ASSUME SparkInv, NEW t \in Spark!Threads, Spark!MarkBorn(t)
    PROVE  ViewInv'
<1>1. PICK d : d = task[t].dev
  OBVIOUS
<1>2. task[t].pc = "mark" /\ d \in SparkDevices /\ Spark!Done(t) /\ born' = born \cup {d}
      /\ UNCHANGED <<host, meta, slot, raced, unsent, unresolved>>
  BY <1>1, TaskIs DEF Spark!MarkBorn, SparkInv
<1>3. task'[t].dev = None /\ \A u \in Spark!Threads \ {t} : task'[u] = task[u]
  BY <1>2, Going DEF SparkInv
<1>4. ASSUME Sound(d)' PROVE SoundInv(d)'
  <2>1. Sound(d)
    BY <1>2, <1>4 DEF Sound
  <2>2. /\ Shown(d, "mark") /\ \A u \in Spark!Threads \ {t} : task[u].dev # d
        /\ \A a \in meta : a.dev = d => a \in host.declared
        /\ slot.dev = d /\ slot.alias # None => slot \in host.declared
    BY <1>1, <1>2, <2>1, AtWorkOn
  <2>3. \A u \in Spark!Threads : task'[u].dev # d
    BY <1>2, <1>3, <2>2, SparkAssumption
  <2>4. d \in born' /\ d \in host'.shows
    BY <1>2, <2>2 DEF Shown
  <2> QED BY <1>2, <2>2, <2>3, <2>4 DEF SoundInv, Announced
<1>5. \A e \in SparkDevices \ {d} : (e \in born' <=> e \in born) /\ (e \in host'.shows <=> e \in host.shows)
  BY <1>2
<1> QED BY <1>1, <1>2, <1>3, <1>4, <1>5, ViewStep DEF SparkInv

LEMMA GetDeviceView ==
    ASSUME SparkInv, NEW t \in Spark!Threads, Spark!GetDevice(t)
    PROVE  ViewInv'
<1>1. PICK d : d = task[t].dev
  OBVIOUS
<1>2. task[t].pc = "read" /\ d \in SparkDevices
      /\ UNCHANGED <<born, host, meta, slot, raced, unsent, unresolved>>
  BY <1>1, TaskIs DEF Spark!GetDevice, SparkInv
<1>3. /\ \A u \in Spark!Threads \ {t} : task'[u] = task[u]
      /\ task'[t].dev = None \/ (task'[t].dev = d /\ task'[t].pc = "declare")
  <2>1. CASE Spark!Done(t)
    BY <2>1, Going DEF SparkInv
  <2>2. CASE task' = [task EXCEPT ![t].pc = "declare", ![t].points = stored[task[t].dev]]
    <3>1. task' = [task EXCEPT ![t] = [task[t] EXCEPT !.pc = "declare", !.points = stored[d]]]
      BY <1>1, <2>2 DEF SparkInv, SparkTypes
    <3>2. task[t] \in Works
      BY <1>2, TaskIs DEF SparkInv, Spark!Free
    <3>3. [task[t] EXCEPT !.pc = "declare", !.points = stored[d]].dev = d
          /\ [task[t] EXCEPT !.pc = "declare", !.points = stored[d]].pc = "declare"
      BY <1>1, <3>2
    <3> QED BY <3>1, <3>3 DEF SparkInv, SparkTypes
  <2> QED BY <2>1, <2>2 DEF Spark!GetDevice
<1>4. ASSUME Sound(d)' PROVE SoundInv(d)'
  <2>1. Sound(d)
    BY <1>2, <1>4 DEF Sound
  <2>2. /\ Shown(d, "read") /\ \A u \in Spark!Threads \ {t} : task[u].dev # d
        /\ \A a \in meta : a.dev = d => a \in host.declared
        /\ slot.dev = d /\ slot.alias # None => slot \in host.declared
    BY <1>1, <1>2, <2>1, AtWorkOn
  <2>3. \A u \in Spark!Threads : task'[u].dev = d => u = t /\ task'[u].pc = "declare"
    BY <1>2, <1>3, <2>2, SparkAssumption
  <2> QED BY <1>2, <2>2, <2>3 DEF SoundInv, Announced, Shown
<1> QED BY <1>1, <1>2, <1>3, <1>4, ViewStep DEF SparkInv

LEMMA DeathView ==
    ASSUME SparkInv, NEW t \in Spark!Threads, Spark!Death(t)
    PROVE  ViewInv'
<1>1. PICK d : d = task[t].dev
  OBVIOUS
<1>2. task[t].pc = "death" /\ d \in SparkDevices /\ Spark!Done(t)
      /\ UNCHANGED <<born, meta, slot, raced, unresolved>> /\ unsent \subseteq unsent'
  BY <1>1, TaskIs DEF Spark!Death, SparkInv
<1>3. task'[t].dev = None /\ \A u \in Spark!Threads \ {t} : task'[u] = task[u]
  BY <1>2, Going DEF SparkInv
<1>4. PICK told : told = [host EXCEPT !.shows = @ \ {d}]
  OBVIOUS
<1>5. told.shows = host.shows \ {d} /\ told.declared = host.declared
  BY <1>4 DEF SparkInv, SparkTypes
<1>6. \/ host' = told /\ UNCHANGED unsent
      \/ host' \in {host, told} /\ unsent' = unsent \cup {d}
  BY <1>1, <1>4 DEF Spark!Death
<1>7. ASSUME Sound(d)' PROVE SoundInv(d)'
  <2>1. Sound(d) /\ host' = told
    BY <1>2, <1>6, <1>7 DEF Sound
  <2>2. /\ Shown(d, "death") /\ \A u \in Spark!Threads \ {t} : task[u].dev # d
        /\ \A a \in meta : a.dev = d => a \in host.declared
        /\ slot.dev = d /\ slot.alias # None => slot \in host.declared
    BY <1>1, <1>2, <2>1, AtWorkOn
  <2>3. \A u \in Spark!Threads : task'[u].dev # d
    BY <1>2, <1>3, <2>2, SparkAssumption
  <2>4. d \notin born' /\ d \notin host'.shows /\ host'.declared = host.declared
    BY <1>2, <1>5, <2>1, <2>2 DEF Shown
  <2> QED BY <1>2, <2>2, <2>3, <2>4 DEF SoundInv, Announced
<1>8. (\A e \in SparkDevices \ {d} : (e \in born' <=> e \in born) /\ (e \in host'.shows <=> e \in host.shows))
      /\ host.declared \subseteq host'.declared
  BY <1>2, <1>5, <1>6
<1> QED BY <1>1, <1>2, <1>3, <1>7, <1>8, ViewStep DEF SparkInv

LEMMA PublishView ==
    ASSUME SparkInv, NEW d \in SparkDevices, NEW n \in Names, NEW replayed,
           Spark!Publish(d, n, replayed)
    PROVE  ViewInv' /\ (slot' = Spark!NoPoint \/ slot'.dev \in SparkDevices)
<1>1. UNCHANGED <<born, meta, task, host, raced, unsent, unresolved>> /\ slot = Spark!NoPoint
  BY DEF Spark!Publish, Spark!birthVars
<1>2. CASE ~(bornAll /\ d \in born)
  <2>1. slot' = slot
    BY <1>2 DEF Spark!Publish
  <2> QED BY <1>1, <2>1, ViewAside DEF SparkInv
<1>3. CASE bornAll /\ d \in born
  <2>1. slot' = [dev |-> d, name |-> n,
                 alias |-> IF Spark!Known(meta, d, n) THEN Spark!AliasOf(meta, d, n) ELSE None]
    BY <1>3 DEF Spark!Publish
  <2>2. slot'.dev = d
    BY <2>1
  <2>3. ASSUME Sound(d), slot'.alias # None PROVE slot' \in host.declared
    <3>1. Spark!Known(meta, d, n)
      BY <2>1, <2>3
    <3>2. PICK a \in meta : a.dev = d /\ a.name = n /\ Spark!AliasOf(meta, d, n) = a.alias
      BY <3>1 DEF Spark!Known, Spark!AliasOf
    <3>3. a = [dev |-> a.dev, name |-> a.name, alias |-> a.alias]
      BY DEF SparkInv, Numbered, Spark!Declarations
    <3>4. slot' = a
      BY <2>1, <3>1, <3>2, <3>3
    <3>5. SoundInv(d) /\ Announced(a)
      BY <2>3, <3>2 DEF SparkInv, ViewInv, SoundInv
    <3>6. \A t \in Spark!Threads : task[t].dev = d => task[t].pc # "birth"
      BY <1>3, <3>5 DEF SoundInv, Shown
    <3> QED BY <3>2, <3>4, <3>5, <3>6 DEF Announced
  <2>4. ASSUME NEW e \in SparkDevices, Sound(e)' PROVE SoundInv(e)'
    <3>1. Sound(e) /\ SoundInv(e)
      BY <1>1, <2>4 DEF Sound, SparkInv, ViewInv
    <3>2. slot'.dev = e /\ slot'.alias # None => slot' \in host.declared
      BY <2>2, <2>3, <3>1
    <3> QED BY <1>1, <3>1, <3>2 DEF SoundInv, Shown, Announced
  <2>5. ~unresolved'
    BY <1>1 DEF SparkInv, ViewInv
  <2> QED BY <2>2, <2>4, <2>5 DEF ViewInv
<1> QED BY <1>1, <1>2, <1>3 DEF Spark!Publish

LEMMA SendView ==
    ASSUME SparkInv, Spark!Send
    PROVE  ViewInv'
<1>1. slot # Spark!NoPoint /\ slot' = Spark!NoPoint
      /\ UNCHANGED <<born, meta, task, host, raced, unsent>>
  BY DEF Spark!Send, Spark!birthVars
<1>2. slot.dev \in SparkDevices
  BY <1>1 DEF SparkInv, SparkTypes
<1>3. ~unresolved'
  <2>1. slot.alias # None /\ slot.dev \notin raced \cup unsent => slot \in host.declared
    BY <1>2 DEF SparkInv, ViewInv, Sound, SoundInv
  <2> QED BY <2>1 DEF Spark!Send, SparkInv, ViewInv
<1>4. ASSUME NEW e \in SparkDevices, Sound(e)' PROVE SoundInv(e)'
  <2>1. Sound(e) /\ SoundInv(e)
    BY <1>1, <1>4 DEF Sound, SparkInv, ViewInv
  <2>2. slot'.alias = None
    BY <1>1 DEF Spark!NoPoint
  <2> QED BY <1>1, <2>1, <2>2 DEF SoundInv, Shown, Announced
<1> QED BY <1>3, <1>4 DEF ViewInv

(* The counters, apart from the one of the connections, may grow. *)
Counted ==
    /\ count'.connects = count.connects
    /\ count' = [connects |-> count'.connects, notices |-> count'.notices, edits |-> count'.edits,
                 points |-> count'.points]

LEMMA Counting ==
    ASSUME SparkTypes, NEW what \in {"notices", "edits", "points"}, Spark!Count(what) \/ UNCHANGED count
    PROVE  Counted
<1>1. PICK a, b, c, d : count = [connects |-> a, notices |-> b, edits |-> c, points |-> d]
  BY DEF SparkTypes
<1>2. CASE UNCHANGED count
  BY <1>2 DEF Counted, SparkTypes
<1>3. CASE Spark!Count(what)
  <2>1. count' = [count EXCEPT ![what] = count[what] + 1]
    BY <1>3 DEF Spark!Count
  <2>2. CASE what = "notices"
    BY <1>1, <2>1, <2>2 DEF Counted
  <2>3. CASE what = "edits"
    BY <1>1, <2>1, <2>3 DEF Counted
  <2>4. CASE what = "points"
    BY <1>1, <2>1, <2>4 DEF Counted
  <2> QED BY <2>2, <2>3, <2>4
<1> QED BY <1>2, <1>3

LEMMA AsideTypes ==
    ASSUME SparkInv,
           \/ Spark!OnConnect \/ Spark!Outage \/ Spark!Close
           \/ Spark!BirthSequence \/ Spark!NodeBorn \/ Spark!SequenceEnds
    PROVE  SparkTypes' /\ UNCHANGED <<born, meta, task, slot, host, raced, unsent, unresolved>>
<1>1. SparkTypes
  BY DEF SparkInv
<1>2. CASE Spark!OnConnect
  <2>1. count' = [count EXCEPT !.connects = count.connects + 1] /\ count.connects < MaxConnects
        /\ waiting' = waiting + 1 /\ connection' = "up"
        /\ UNCHANGED <<closed, stored, bornAll, born, meta, births, task, slot, saved, host, raced,
                       unsent, unresolved>>
    BY <1>2 DEF Spark!OnConnect, Spark!Count
  <2>2. PICK a, b, c, d : count = [connects |-> a, notices |-> b, edits |-> c, points |-> d]
    BY <1>1 DEF SparkTypes
  <2>3. count' = [connects |-> a + 1, notices |-> b, edits |-> c, points |-> d] /\ count.connects = a
    BY <2>1, <2>2
  <2>4. /\ count'.connects = a + 1
        /\ count' = [connects |-> count'.connects, notices |-> count'.notices, edits |-> count'.edits,
                     points |-> count'.points]
    BY <2>3
  <2>5. count'.connects \in Nat /\ waiting' \in Nat /\ waiting' <= count'.connects
        /\ count'.connects <= MaxConnects
    <3>1. a \in Nat /\ waiting \in Nat /\ waiting <= a /\ a < MaxConnects
      BY <1>1, <2>1, <2>3 DEF SparkTypes
    <3>2. MaxConnects \in Nat
      BY SparkAssumption
    <3> QED BY <2>1, <2>4, <3>1, <3>2
  <2> QED BY <1>1, <2>1, <2>4, <2>5 DEF SparkTypes
<1>3. CASE Spark!Outage
  BY <1>1, <1>3 DEF SparkTypes, Spark!Outage, Spark!birthVars
<1>4. CASE Spark!Close
  BY <1>1, <1>4 DEF SparkTypes, Spark!Close, Spark!birthVars
<1>5. CASE Spark!BirthSequence
  <2>1. waiting > 0 /\ waiting' = waiting - 1
        /\ births' \in {[d \in {e \in SparkDevices : stored[e] # {}} |-> stored[d]], <<>>}
        /\ UNCHANGED <<connection, closed, stored, bornAll, born, meta, task, slot, saved, host, raced,
                       unsent, unresolved, count>>
    BY <1>5 DEF Spark!BirthSequence
  <2>2. \A d \in DOMAIN births' : d \in SparkDevices /\ births'[d] \subseteq Names
    <3>1. CASE births' = <<>>
      BY <3>1
    <3>2. CASE births' = [d \in {e \in SparkDevices : stored[e] # {}} |-> stored[d]]
      BY <1>1, <3>2 DEF SparkTypes
    <3> QED BY <2>1, <3>1, <3>2
  <2>3. waiting' \in Nat /\ waiting' <= count'.connects
    BY <1>1, <2>1 DEF SparkTypes
  <2> QED BY <1>1, <2>1, <2>2, <2>3 DEF SparkTypes
<1>6. CASE Spark!NodeBorn
  BY <1>1, <1>6 DEF SparkTypes, Spark!NodeBorn
<1>7. CASE Spark!SequenceEnds
  BY <1>1, <1>7 DEF SparkTypes, Spark!SequenceEnds
<1> QED BY <1>2, <1>3, <1>4, <1>5, <1>6, <1>7

LEMMA AsideKeepsSpark ==
    ASSUME SparkInv,
           \/ Spark!OnConnect \/ Spark!Outage \/ Spark!Close
           \/ Spark!BirthSequence \/ Spark!NodeBorn \/ Spark!SequenceEnds
    PROVE  SparkInv'
<1>1. SparkTypes' /\ UNCHANGED <<born, meta, task, slot, host, raced, unsent, unresolved>>
  BY AsideTypes
<1> QED BY <1>1, ViewAside DEF SparkInv, Numbered

LEMMA EditKeepsSpark ==
    ASSUME SparkInv, NEW d \in SparkDevices, NEW names \in SUBSET Names, Spark!EditDevice(d, names)
    PROVE  SparkInv'
<1>1. SparkTypes /\ Spark!Count("edits") /\ stored' = [stored EXCEPT ![d] = names]
      /\ UNCHANGED <<connection, closed, bornAll, born, meta, waiting, births, task, slot, saved, host,
                     raced, unsent, unresolved>>
  BY DEF SparkInv, Spark!EditDevice, Spark!birthVars
<1>2. Counted
  BY <1>1, Counting
<1>3. SparkTypes'
  BY <1>1, <1>2 DEF SparkTypes, Counted
<1> QED BY <1>1, <1>3, ViewAside DEF SparkInv, Numbered

LEMMA NextBirthKeeps ==
    ASSUME SparkInv, Spark!NextBirth
    PROVE  SparkInv'
<1>1. PICK d \in DOMAIN births :
         /\ Spark!Begins(Sequence, "declare", d, births[d])
         /\ births' = [e \in DOMAIN births \ {d} |-> births[e]]
  BY DEF Spark!NextBirth
<1>2. SparkTypes /\ births # None
      /\ UNCHANGED <<connection, closed, stored, bornAll, born, meta, waiting, slot, saved, host,
                     unsent, unresolved, count>>
  BY DEF SparkInv, Spark!NextBirth
<1>3. d \in SparkDevices /\ births[d] \in SUBSET Names /\ Sequence \in Spark!Threads
  BY <1>1, <1>2 DEF SparkTypes, Spark!Threads
<1>4. task' \in [Spark!Threads -> Tasks]
  BY <1>1, <1>2, <1>3, Beginning
<1>5. \A e \in DOMAIN births' : e \in SparkDevices /\ births'[e] \subseteq Names
  BY <1>1, <1>2 DEF SparkTypes
<1>6. SparkTypes'
  BY <1>2, <1>4, <1>5 DEF SparkTypes
<1>7. ViewInv'
  BY <1>1, <1>2, <1>3, BeginView
<1> QED BY <1>2, <1>6, <1>7 DEF SparkInv, Numbered

LEMMA NoticeKeeps ==
    ASSUME SparkInv, NEW t \in Notifiers, NEW d \in SparkDevices,
           Spark!DeviceOnline(t, d) \/ Spark!DeviceOffline(t, d)
    PROVE  SparkInv'
<1>1. SparkTypes /\ Spark!Count("notices") /\ t \in Spark!Threads /\ {} \in SUBSET Names
      /\ UNCHANGED <<connection, closed, stored, bornAll, meta, waiting, births, slot, saved, host,
                     unsent, unresolved>>
  BY DEF SparkInv, Spark!DeviceOnline, Spark!DeviceOffline, Spark!Threads
<1>2. Counted
  BY <1>1, Counting
<1>3. PICK pc \in {"read", "death"} :
         /\ Spark!Begins(t, pc, d, {})
         /\ born' = born \/ (pc = "death" /\ born' = born \ {d})
         /\ pc = "death" => d \notin born'
  BY DEF Spark!DeviceOnline, Spark!DeviceOffline, Spark!Forgotten
<1>4. task' \in [Spark!Threads -> Tasks] /\ born' \subseteq SparkDevices
  <2>1. born' \subseteq born
    BY <1>3
  <2> QED BY <1>1, <1>3, <2>1, Beginning DEF SparkTypes
<1>5. SparkTypes'
  BY <1>1, <1>2, <1>4 DEF SparkTypes, Counted
<1>6. ViewInv'
  BY <1>1, <1>3, BeginView
<1> QED BY <1>1, <1>5, <1>6 DEF SparkInv, Numbered

LEMMA DeclareKeeps ==
    ASSUME SparkInv, NEW t \in Spark!Threads, Spark!Declare(t)
    PROVE  SparkInv'
<1>1. SparkTypes /\ task[t].dev \in SparkDevices /\ task[t].points \subseteq Names
      /\ task[t].pc # "idle"
  BY TaskIs DEF SparkInv, Spark!Declare
<1>2. UNCHANGED <<connection, closed, stored, bornAll, born, waiting, births, slot, saved, host, count>>
  BY DEF Spark!Declare
<1>3. task' \in [Spark!Threads -> Tasks]
  BY <1>1, Going DEF Spark!Declare
<1>4. SparkTypes'
  BY <1>1, <1>2, <1>3 DEF SparkTypes
<1>5. Numbered(meta)'
  <2>1. CASE meta' = meta
    BY <2>1 DEF SparkInv, Numbered
  <2>2. CASE meta' = Spark!WithAliases(task[t].dev, task[t].points)
    <3>1. Numbered(Spark!WithAliases(task[t].dev, task[t].points))
      BY <1>1, WithAliasesAdds DEF SparkInv
    <3>2. Numbered(meta')
      BY <2>2, <3>1
    <3> QED BY <3>2 DEF Numbered
  <2> QED BY <2>1, <2>2 DEF Spark!Declare
<1> QED BY <1>4, <1>5, DeclareView DEF SparkInv

LEMMA BirthKeeps ==
    ASSUME SparkInv, NEW t \in Spark!Threads, Spark!Birth(t)
    PROVE  SparkInv'
<1>1. SparkTypes /\ task[t].dev \in SparkDevices /\ task[t].pc # "idle"
  BY TaskIs DEF SparkInv, Spark!Birth
<1>2. UNCHANGED <<connection, closed, stored, bornAll, born, meta, waiting, births, slot, saved, count>>
  BY DEF Spark!Birth
<1>3. task' \in [Spark!Threads -> Tasks]
  BY <1>1, Going DEF Spark!Birth
<1>4. PICK told : told = [host EXCEPT !.shows = @ \cup {task[t].dev},
             !.declared = @ \cup {a \in meta : a.dev = task[t].dev /\ a.name \in task[t].points}]
  OBVIOUS
<1>5. told \in [declared : SUBSET Spark!Declarations, shows : SUBSET SparkDevices]
  <2>1. {a \in meta : a.dev = task[t].dev /\ a.name \in task[t].points} \subseteq Spark!Declarations
    BY DEF SparkInv, Numbered
  <2>2. host.declared \subseteq Spark!Declarations /\ host.shows \subseteq SparkDevices
    BY <1>1 DEF SparkTypes
  <2>3. told = [declared |-> host.declared \cup
                    {a \in meta : a.dev = task[t].dev /\ a.name \in task[t].points},
                shows |-> host.shows \cup {task[t].dev}]
    BY <1>1, <1>4 DEF SparkTypes
  <2> QED BY <1>1, <2>1, <2>2, <2>3
<1>6. host' = host \/ host' = told
  BY <1>4 DEF Spark!Birth
<1>7. SparkTypes'
  BY <1>1, <1>2, <1>3, <1>5, <1>6 DEF SparkTypes
<1> QED BY <1>2, <1>7, BirthView DEF SparkInv, Numbered

LEMMA MarkBornKeeps ==
    ASSUME SparkInv, NEW t \in Spark!Threads, Spark!MarkBorn(t)
    PROVE  SparkInv'
<1>1. SparkTypes /\ task[t].dev \in SparkDevices /\ Spark!Done(t) /\ born' = born \cup {task[t].dev}
      /\ UNCHANGED <<connection, closed, stored, bornAll, meta, waiting, births, slot, saved, host, count>>
  BY TaskIs DEF SparkInv, Spark!MarkBorn
<1>2. task' \in [Spark!Threads -> Tasks]
  BY <1>1, Going
<1>3. born' \subseteq SparkDevices
  BY <1>1 DEF SparkTypes
<1>4. SparkTypes'
  BY <1>1, <1>2, <1>3 DEF SparkTypes
<1> QED BY <1>1, <1>4, MarkBornView DEF SparkInv, Numbered

LEMMA GetDeviceKeeps ==
    ASSUME SparkInv, NEW t \in Spark!Threads, Spark!GetDevice(t)
    PROVE  SparkInv'
<1>1. SparkTypes /\ task[t].dev \in SparkDevices /\ task[t].pc = "read"
      /\ UNCHANGED <<connection, closed, stored, bornAll, born, meta, waiting, births, slot, saved, host,
                     count>>
  BY TaskIs DEF SparkInv, Spark!GetDevice
<1>2. task' \in [Spark!Threads -> Tasks]
  <2>1. CASE Spark!Done(t)
    BY <1>1, <2>1, Going
  <2>2. CASE task' = [task EXCEPT ![t].pc = "declare", ![t].points = stored[task[t].dev]]
    <3>1. PICK new : new = [task[t] EXCEPT !.pc = "declare", !.points = stored[task[t].dev]]
      OBVIOUS
    <3>2. task' = [task EXCEPT ![t] = new]
      BY <1>1, <2>2, <3>1 DEF SparkTypes
    <3>3. task[t] \in Works
      BY <1>1, TaskIs DEF Spark!Free
    <3>4. new = [pc |-> "declare", dev |-> task[t].dev, points |-> stored[task[t].dev]]
      BY <3>1, <3>3 DEF Works
    <3>5. new \in Tasks
      BY <1>1, <3>4 DEF Tasks, Works, SparkTypes
    <3> QED BY <1>1, <3>2, <3>5 DEF SparkTypes
  <2> QED BY <2>1, <2>2 DEF Spark!GetDevice
<1>3. SparkTypes'
  BY <1>1, <1>2 DEF SparkTypes
<1> QED BY <1>1, <1>3, GetDeviceView DEF SparkInv, Numbered

LEMMA DeathKeeps ==
    ASSUME SparkInv, NEW t \in Spark!Threads, Spark!Death(t)
    PROVE  SparkInv'
<1>1. SparkTypes /\ Spark!Done(t)
      /\ UNCHANGED <<connection, closed, stored, bornAll, born, meta, waiting, births, slot, saved, count>>
  BY DEF SparkInv, Spark!Death
<1>2. task' \in [Spark!Threads -> Tasks]
  BY <1>1, Going
<1>3. PICK told : told = [host EXCEPT !.shows = @ \ {task[t].dev}]
  OBVIOUS
<1>4. told = [declared |-> host.declared, shows |-> host.shows \ {task[t].dev}]
  BY <1>1, <1>3 DEF SparkTypes
<1>5. told \in [declared : SUBSET Spark!Declarations, shows : SUBSET SparkDevices]
  BY <1>1, <1>4 DEF SparkTypes
<1>6. host' = host \/ host' = told
  BY <1>3 DEF Spark!Death
<1>7. SparkTypes'
  BY <1>1, <1>2, <1>5, <1>6 DEF SparkTypes
<1> QED BY <1>1, <1>7, DeathView DEF SparkInv, Numbered

LEMMA PublishKeeps ==
    ASSUME SparkInv, NEW d \in SparkDevices, NEW n \in Names,
           NEW replayed \in SUBSET saved, Spark!Publish(d, n, replayed), Counted
    PROVE  SparkInv'
<1>1. SparkTypes
      /\ UNCHANGED <<connection, closed, stored, bornAll, born, meta, waiting, births, task, host>>
  BY DEF SparkInv, Spark!Publish, Spark!birthVars
<1>2. ViewInv' /\ (slot' = Spark!NoPoint \/ slot'.dev \in SparkDevices)
  BY PublishView
<1>3. saved' \subseteq [dev : SparkDevices, name : Names]
  <2>1. saved' = saved \ replayed \/ saved' = (saved \ replayed) \cup {[dev |-> d, name |-> n]}
    BY DEF Spark!Publish
  <2> QED BY <1>1, <2>1 DEF SparkTypes
<1>4. SparkTypes'
  BY <1>1, <1>2, <1>3 DEF SparkTypes, Counted
<1> QED BY <1>1, <1>2, <1>4 DEF SparkInv, Numbered

LEMMA SendKeeps ==
    ASSUME SparkInv, Spark!Send
    PROVE  SparkInv'
<1>1. SparkTypes /\ slot' = Spark!NoPoint
      /\ UNCHANGED <<connection, closed, stored, bornAll, born, meta, waiting, births, task, saved, host,
                     count>>
  BY DEF SparkInv, Spark!Send, Spark!birthVars
<1>2. SparkTypes'
  BY <1>1 DEF SparkTypes
<1> QED BY <1>1, <1>2, SendView DEF SparkInv, Numbered

LEMMA SparkStep ==
    ASSUME SparkInv, [Spark!SparkNext]_(Spark!sparkVars)
    PROVE  SparkInv'
<1>1. CASE UNCHANGED Spark!sparkVars
  <2>1. UNCHANGED <<connection, closed, stored, bornAll, born, meta, waiting, births, task, slot, saved,
                    host, raced, unsent, unresolved, count>>
    BY <1>1 DEF Spark!sparkVars, Spark!birthVars
  <2>2. SparkTypes'
    BY <2>1 DEF SparkInv, SparkTypes
  <2> QED BY <2>1, <2>2, ViewAside DEF SparkInv, Numbered
<1>2. CASE Spark!SparkNext
  <2>1. CASE \/ Spark!OnConnect \/ Spark!Outage \/ Spark!Close
             \/ Spark!BirthSequence \/ Spark!NodeBorn \/ Spark!SequenceEnds
    BY <2>1, AsideKeepsSpark
  <2>2. CASE Spark!NextBirth
    BY <2>2, NextBirthKeeps
  <2>3. ASSUME NEW t \in Spark!Threads,
               Spark!Declare(t) \/ Spark!Birth(t) \/ Spark!MarkBorn(t) \/ Spark!GetDevice(t) \/ Spark!Death(t)
        PROVE  SparkInv'
    BY <2>3, DeclareKeeps, BirthKeeps, MarkBornKeeps, GetDeviceKeeps, DeathKeeps
  <2>4. ASSUME NEW t \in Notifiers, NEW d \in SparkDevices,
               Spark!DeviceOnline(t, d) \/ Spark!DeviceOffline(t, d)
        PROVE  SparkInv'
    BY <2>4, NoticeKeeps
  <2>5. ASSUME NEW d \in SparkDevices, NEW n \in Names, Spark!Collect(d, n) PROVE SparkInv'
    <3>1. Spark!Publish(d, n, {}) /\ Spark!Count("points")
      BY <2>5 DEF Spark!Collect
    <3>2. Counted
      BY <3>1, Counting DEF SparkInv
    <3> QED BY <3>1, <3>2, PublishKeeps
  <2>6. ASSUME NEW d \in SparkDevices, NEW names \in SUBSET Names, Spark!EditDevice(d, names)
        PROVE  SparkInv'
    BY <2>6, EditKeepsSpark
  <2>7. CASE Spark!Replay
    <3>1. PICK r \in saved : Spark!Publish(r.dev, r.name, {r}) /\ UNCHANGED count
      BY <2>7 DEF Spark!Replay
    <3>2. r.dev \in SparkDevices /\ r.name \in Names /\ {r} \in SUBSET saved
      BY DEF SparkInv, SparkTypes
    <3>3. Counted
      BY <3>1 DEF Counted, SparkInv, SparkTypes
    <3> QED BY <3>1, <3>2, <3>3, PublishKeeps
  <2>8. CASE Spark!Send
    BY <2>8, SendKeeps
  <2> QED BY <1>2, <2>1, <2>2, <2>3, <2>4, <2>5, <2>6, <2>7, <2>8 DEF Spark!SparkNext
<1> QED BY <1>1, <1>2

LEMMA SparkAlways ==
    Spark!SparkSpec => []SparkInv
<1>1. Spark!SparkInit => SparkInv
  BY SparkInitially
<1>2. SparkInv /\ [Spark!SparkNext]_(Spark!sparkVars) => SparkInv'
  BY SparkStep
<1> QED BY <1>1, <1>2, PTL DEF Spark!SparkSpec

\* The state of the Sparkplug output keeps its types, and no two points ever share an alias,
\* however many threads declare points at once (sparkplugb.go:188-265).
THEOREM SparkTypeCorrect ==
    Spark!SparkSpec => []Spark!SparkTypeOK
<1>1. ASSUME SparkInv PROVE Spark!SparkTypeOK
  <2>1. \A t \in Spark!Threads :
           /\ task[t].pc \in {"idle", "read", "declare", "birth", "mark", "death"}
           /\ task[t].dev \in SparkDevices \cup {None} /\ task[t].points \subseteq Names
    <3> SUFFICES ASSUME NEW t \in Spark!Threads
                 PROVE  /\ task[t].pc \in {"idle", "read", "declare", "birth", "mark", "death"}
                        /\ task[t].dev \in SparkDevices \cup {None} /\ task[t].points \subseteq Names
      OBVIOUS
    <3>1. task[t] \in Tasks
      BY <1>1 DEF SparkInv, SparkTypes
    <3> QED BY <3>1 DEF Tasks, Works, Spark!Free
  <2>2. waiting \in 0..MaxConnects
    BY <1>1, SparkAssumption DEF SparkInv, SparkTypes
  <2> QED BY <1>1, <2>1, <2>2 DEF SparkInv, SparkTypes, Numbered, Spark!SparkTypeOK
<1>2. SparkInv => Spark!SparkTypeOK
  BY <1>1
<1> QED BY <1>2, SparkAlways, PTL

\* The types of both kinds of outputs, as the run checks them: a behaviour of the whole is one
\* of each part.
THEOREM AllTypesCorrect == Spec /\ Spark!SparkSpec => []TypesOK
<1>1. TypeOK /\ Spark!SparkTypeOK => TypesOK
  BY DEF TypesOK
<1> QED BY <1>1, OutputsTypeCorrect, SparkTypeCorrect, PTL

\* No alias arrives before a birth has declared it, and a device on which nobody works is shown
\* alive exactly if the output takes it for born, for any devices, points, reporting threads
\* and connections - but for the devices that two threads treated at once, and those whose
\* birth or death could not be sent (sparkplugb.go:188-265).
THEOREM HostIsRight ==
    Spark!SparkSpec => []HostViewIsRight
<1>1. SparkInv => HostViewIsRight
  BY DEF SparkInv, ViewInv, Sound, SoundInv, HostViewIsRight, Spark!HostViewIsRight
<1> QED BY <1>1, SparkAlways, PTL
=============================================================================

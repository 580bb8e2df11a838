--------------------------- MODULE ProcessingProofs ---------------------------
(* For any points, settings and bounds: the engine's rules agree with the      *)
(* configuration, no window outlives the aggregate it was opened for, its      *)
(* accumulators are those of the numbers it took in, and the deadband          *)
(* baselines are the last numbers that passed.                                 *)
EXTENDS Processing, TLAPS, WellFoundedInduction

-----------------------------------------------------------------------------
(* The inductive invariants.                                                  *)

Configuration == [Keys -> Settings \cup {None}]

RunTypeOK ==
    /\ points \in Configuration /\ rules \in Configuration
    /\ \/ load \in {Booting, Waiting, [pc |-> "subscribe"]}
       \/ load \in [pc : {"swap"}, read : Configuration, boot : BOOLEAN]

\* What was read, and later what was swapped in, is the configuration, or Run is due another
\* reload, or one of the two known gaps was met.
FollowInv ==
    /\ load.pc = "swap" => load.read = points \/ changed \/ missed
    /\ load.pc \in {"subscribe", "wait"} => rules = RulesOf(points) \/ changed \/ missed

Window == [aggr : AggregateTypes, count : Nat, sum : Int, min : Int, max : Int, last : Int,
           items : Seq(Int)]

WindowInv ==
    /\ aggs \in [Keys -> Window \cup {None}]
    /\ WindowFollowsRule
    /\ WindowIsExact

-----------------------------------------------------------------------------
(* The rules and the configuration.                                           *)

LEMMA PcOfLoad ==
    /\ Waiting.pc = "wait" /\ Booting.pc = "boot"
    /\ \A boot \in BOOLEAN : After(boot) \in {Waiting, [pc |-> "subscribe"]}
BY DEF Waiting, Booting, After

LEMMA RulesOfType ==
    ASSUME NEW config \in Configuration
    PROVE  RulesOf(config) \in Configuration
BY DEF RulesOf, Configuration

LEMMA StepRun ==
    ASSUME RunTypeOK, FollowInv, [Next]_vars
    PROVE  RunTypeOK' /\ FollowInv'
<1> USE DEF engineVars, loadVars, historyVars
<1>1. ASSUME NEW p \in DataPoint, Process(p)
      PROVE  UNCHANGED <<points, rules, load, changed, missed>>
  BY <1>1 DEF Process, PassThrough, Drop, PassOn, Aggregate, Filter
<1>2. ASSUME NEW k \in Keys, FlushSome(k)
      PROVE  UNCHANGED <<points, rules, load, changed, missed>>
  BY <1>2 DEF FlushSome, Flush
<1>3. ASSUME NEW t \in Threads, HandOn(t)
      PROVE  UNCHANGED <<points, rules, load, changed, missed>>
  BY <1>3 DEF HandOn
<1>4. CASE UNCHANGED <<points, rules, load, changed, missed>>
  BY <1>4 DEF RunTypeOK, FollowInv
<1>5. ASSUME NEW k \in Keys, NEW setting \in Settings \cup {None}, EditPoint(k, setting)
      PROVE  RunTypeOK' /\ FollowInv'
  <2>1. RunTypeOK'
    BY <1>5 DEF EditPoint, RunTypeOK, Configuration
  <2>2. load.pc # "boot" => Subscribed \/ Unheard
    <3>1. CASE load \in {Booting, Waiting, [pc |-> "subscribe"]}
      BY <3>1 DEF Subscribed, Unheard, Booting
    <3>2. CASE load \in [pc : {"swap"}, read : Configuration, boot : BOOLEAN]
      BY <3>2 DEF Subscribed, Unheard
    <3> QED BY <3>1, <3>2 DEF RunTypeOK
  <2>3. load.pc # "boot" => changed' \/ missed'
    BY <1>5, <2>2 DEF EditPoint
  <2> QED BY <1>5, <2>1, <2>3 DEF EditPoint, FollowInv
<1>6. CASE EditElsewhere
  <2>1. changed => changed'
    BY <1>6 DEF EditElsewhere
  <2> QED BY <1>6, <2>1 DEF EditElsewhere, RunTypeOK, FollowInv
<1>7. CASE ReadDevices
  <2>1. CASE load' = Reloading(points, load = Booting)
    BY <1>7, <2>1 DEF ReadDevices, Reloading, RunTypeOK, FollowInv
  <2>2. CASE load' = After(load = Booting) /\ missed' = TRUE
    <3>1. load' \in {Waiting, [pc |-> "subscribe"]}
      BY <2>2, PcOfLoad
    <3>2. FollowInv'
      BY <2>2, <3>1, PcOfLoad DEF FollowInv
    <3> QED BY <1>7, <3>1, <3>2 DEF ReadDevices, RunTypeOK
  <2> QED BY <1>7, <2>1, <2>2 DEF ReadDevices
<1>8. CASE SwapRules
  <2>1. load.read \in Configuration /\ load.boot \in BOOLEAN
    BY <1>8 DEF SwapRules, RunTypeOK, Booting, Waiting
  <2>2. rules' = RulesOf(load.read) /\ UNCHANGED <<points, changed, missed>>
    BY <1>8 DEF SwapRules
  <2>3. load' \in {Waiting, [pc |-> "subscribe"]}
    BY <1>8, <2>1, PcOfLoad DEF SwapRules
  <2>4. FollowInv'
    BY <1>8, <2>2, <2>3, PcOfLoad DEF SwapRules, FollowInv
  <2> QED BY <2>1, <2>2, <2>3, <2>4, RulesOfType DEF RunTypeOK
<1>9. CASE Subscribe
  BY <1>9, PcOfLoad DEF Subscribe, RunTypeOK, FollowInv
<1>10. CASE UNCHANGED vars
  BY <1>4, <1>10 DEF vars
<1> QED BY <1>1, <1>2, <1>3, <1>4, <1>5, <1>6, <1>7, <1>8, <1>9, <1>10 DEF Next

LEMMA RunKept == Spec => [](RunTypeOK /\ FollowInv)
<1>1. Init => RunTypeOK /\ FollowInv
  BY PcOfLoad DEF Init, RunTypeOK, FollowInv, Configuration
<1>2. RunTypeOK /\ FollowInv /\ [Next]_vars => (RunTypeOK /\ FollowInv)'
  BY StepRun
<1> QED BY <1>1, <1>2, PTL DEF Spec

(* Between two signals, the rules applied to the points are the valid ones of the            *)
(* configuration, whatever edits fall into a reload; only the edit between the first load    *)
(* and the subscription, and a load that failed, leave them behind.                          *)
THEOREM RulesFollow == Spec => []RulesFollowConfiguration
<1>1. FollowInv => RulesFollowConfiguration
  BY PcOfLoad DEF FollowInv, RulesFollowConfiguration
<1> QED BY <1>1, RunKept, PTL

-----------------------------------------------------------------------------
(* The sum of a window, which FoldLeft computes.                              *)

(* A set of natural numbers that is not empty has a least element. *)
LEMMA LeastNumber ==
    ASSUME NEW T \in SUBSET Nat, T # {}
    PROVE  \E x \in T : \A y \in T : ~(y < x)
<1> DEFINE R == OpToRel(<, Nat)
<1>1. IsWellFoundedOn(R, Nat)
  BY NatLessThanWellFounded
<1>2. ASSUME NEW x \in Nat, NEW y \in Nat, x < y PROVE <<x, y>> \in R
  BY <1>2 DEF OpToRel
<1> HIDE DEF R
<1>3. PICK x \in T : \A y \in T : ~(<<y, x>> \in R)
  BY <1>1, WFMin
<1> QED BY <1>2, <1>3

(* it is the recursive function that FoldLeft defines, for the sum of s. *)
Sums(s, it) ==
    it = [t \in SUBSET DOMAIN s |-> IF t = {} THEN 0 ELSE it[t \ {Max(t)}] + s[Max(t)]]

LEMMA TotalIsSum ==
    ASSUME NEW s
    PROVE  Total(s) = (CHOOSE it : Sums(s, it))[DOMAIN s]
BY DEF Total, FoldLeft, MapThenFoldSet, Sums

LEMMA MaxIsMember ==
    ASSUME NEW n \in Nat, NEW t \in SUBSET (1 .. n), t # {}
    PROVE  Max(t) \in t /\ \A y \in t : Max(t) >= y
<1> DEFINE below == {n - x : x \in t}
<1>1. below \in SUBSET Nat /\ below # {}
  <2>1. \A x \in t : n - x \in Nat
    OBVIOUS
  <2>2. PICK x \in t : TRUE
    OBVIOUS
  <2>3. n - x \in below
    OBVIOUS
  <2> QED BY <2>1, <2>3
<1>2. PICK m \in below : \A k \in below : ~(k < m)
  <2> HIDE DEF below
  <2> QED BY <1>1, LeastNumber
<1>3. PICK x \in t : m = n - x
  BY <1>2
<1>4. \A y \in t : x >= y
  <2>1. \A y \in t : n - y \in below
    OBVIOUS
  <2> QED BY <1>2, <1>3, <2>1
<1>5. Max(t) = CHOOSE z \in t : \A y \in t : z >= y
  BY DEF Max
<1> QED BY <1>4, <1>5

LEMMA MaxOfTop ==
    ASSUME NEW n \in Nat, NEW t \in SUBSET (1 .. n), n \in t
    PROVE  Max(t) = n
<1>1. Max(t) \in 1 .. n /\ Max(t) >= n
  BY MaxIsMember
<1> QED BY <1>1

LEMMA SumsOfAppended ==
    ASSUME NEW s \in Seq(Int), NEW v \in Int, NEW it, Sums(s, it)
    PROVE  \E more : Sums(Append(s, v), more)
<1> DEFINE n == Len(s)
           longer == Append(s, v)
           more == [t \in SUBSET DOMAIN longer |->
                      IF n + 1 \in t THEN it[t \ {n + 1}] + v ELSE it[t]]
           right(t) == IF t = {} THEN 0 ELSE more[t \ {Max(t)}] + longer[Max(t)]
<1>1. /\ n \in Nat /\ DOMAIN s = 1 .. n /\ DOMAIN longer = 1 .. n + 1
      /\ longer[n + 1] = v /\ \A i \in 1 .. n : longer[i] = s[i]
  OBVIOUS
<1>2. ASSUME NEW t \in SUBSET DOMAIN longer PROVE more[t] = right(t)
  <2>1. CASE n + 1 \in t
    <3>1. Max(t) = n + 1 /\ t # {}
      BY <1>1, <2>1, MaxOfTop
    <3>2. t \ {n + 1} \in SUBSET DOMAIN longer /\ ~(n + 1 \in t \ {n + 1})
      BY <1>1
    <3>3. more[t \ {n + 1}] = it[t \ {n + 1}] /\ more[t] = it[t \ {n + 1}] + v
      BY <2>1, <3>2
    <3> HIDE DEF more, longer, n
    <3> QED BY <1>1, <3>1, <3>3
  <2>2. CASE n + 1 \notin t /\ t # {}
    <3>1. t \in SUBSET (1 .. n)
      BY <1>1, <2>2
    <3>2. Max(t) \in t
      BY <1>1, <2>2, <3>1, MaxIsMember
    <3>3. it[t] = it[t \ {Max(t)}] + s[Max(t)]
      BY <1>1, <2>2, <3>1 DEF Sums
    <3>4. more[t] = it[t] /\ more[t \ {Max(t)}] = it[t \ {Max(t)}]
      BY <2>2
    <3>5. longer[Max(t)] = s[Max(t)]
      BY <1>1, <3>1, <3>2
    <3> HIDE DEF more, longer, n
    <3> QED BY <2>2, <3>3, <3>4, <3>5
  <2>3. CASE t = {}
    <3>1. more[t] = it[{}] /\ it[{}] = 0
      BY <1>1, <2>3 DEF Sums
    <3> HIDE DEF more
    <3> QED BY <2>3, <3>1
  <2> QED BY <2>1, <2>2, <2>3
<1>3. Sums(longer, more)
  BY <1>2 DEF Sums
<1> QED BY <1>3

LEMMA SumsExist == \A s \in Seq(Int) : \E it : Sums(s, it)
<1> DEFINE Without == {s \in Seq(Int) : ~ \E it : Sums(s, it)}
           lengths == {Len(s) : s \in Without}
<1> SUFFICES ASSUME lengths # {} PROVE FALSE
  OBVIOUS
<1>1. PICK n \in lengths : \A m \in lengths : ~(m < n)
  <2>1. lengths \in SUBSET Nat
    OBVIOUS
  <2> HIDE DEF lengths
  <2> QED BY <2>1, LeastNumber
<1>2. PICK s \in Without : n = Len(s)
  BY <1>1
<1>3. CASE n = 0
  <2> DEFINE it == [t \in SUBSET DOMAIN s |-> 0]
  <2>1. DOMAIN s = {}
    <3>1. s \in Seq(Int) /\ Len(s) = 0
      BY <1>2, <1>3
    <3> HIDE DEF Without
    <3> QED BY <3>1
  <2>2. Sums(s, it)
    BY <2>1 DEF Sums
  <2> QED BY <1>2, <2>2
<1>4. CASE n # 0
  <2> DEFINE front == SubSeq(s, 1, n - 1)
  <2>1. front \in Seq(Int) /\ Len(front) = n - 1 /\ s[n] \in Int /\ n - 1 < n
    BY <1>2, <1>4
  <2>2. s = Append(front, s[n])
    BY <1>2, <1>4, SMTT(30)
  <2>3. n - 1 \notin lengths
    BY <1>1, <2>1
  <2>4. \E it : Sums(front, it)
    BY <2>1, <2>3
  <2>5. \E it : Sums(Append(front, s[n]), it)
    BY <2>1, <2>4, SumsOfAppended
  <2> QED BY <1>2, <2>2, <2>5
<1> QED BY <1>3, <1>4

(* Two of these functions agree on a common prefix. *)
LEMMA SumsAgree ==
    ASSUME NEW s \in Seq(Int), NEW v \in Int, NEW it, NEW more,
           Sums(s, it), Sums(Append(s, v), more)
    PROVE  more[1 .. Len(s)] = it[1 .. Len(s)]
<1> DEFINE n == Len(s)
           longer == Append(s, v)
           differ == {i \in 0 .. n : more[1 .. i] # it[1 .. i]}
<1>1. /\ n \in Nat /\ DOMAIN s = 1 .. n /\ DOMAIN longer = 1 .. n + 1
      /\ \A i \in 1 .. n : longer[i] = s[i]
  OBVIOUS
<1> SUFFICES ASSUME differ # {} PROVE FALSE
  BY <1>1
<1>2. PICK i \in differ : \A j \in differ : ~(j < i)
  <2>1. differ \in SUBSET Nat
    BY <1>1
  <2> HIDE DEF differ
  <2> QED BY <2>1, LeastNumber
<1>3. CASE i = 0
  <2>1. 1 .. i = {} /\ {} \in SUBSET DOMAIN s /\ {} \in SUBSET DOMAIN longer
    BY <1>3
  <2>2. more[{}] = 0 /\ it[{}] = 0
    <3> HIDE DEF longer
    <3> QED BY <2>1 DEF Sums
  <2> QED BY <1>2, <2>1, <2>2
<1>4. CASE i # 0
  <2> DEFINE t == 1 .. i
  <2>1. /\ t \in SUBSET DOMAIN s /\ t \in SUBSET DOMAIN longer /\ t # {}
        /\ i - 1 \in 0 .. n /\ i - 1 < i /\ i \in 1 .. n
    BY <1>1, <1>2, <1>4
  <2>2. Max(t) = i
    BY <2>1, MaxOfTop, SMTT(30)
  <2>3. t \ {i} = 1 .. i - 1
    BY <2>1, SMTT(30)
  <2>4. Sums(s, it) /\ Sums(longer, more)
    OBVIOUS
  <2> HIDE DEF t, longer
  <2>5. more[t] = more[1 .. i - 1] + longer[i] /\ it[t] = it[1 .. i - 1] + s[i]
    <3>1. ASSUME NEW q, NEW f, Sums(q, f), t \in SUBSET DOMAIN q
          PROVE  f[t] = f[t \ {Max(t)}] + q[Max(t)]
      BY <2>1, <3>1 DEF Sums
    <3>2. more[t] = more[t \ {Max(t)}] + longer[Max(t)]
      BY <2>1, <2>4, <3>1
    <3>3. it[t] = it[t \ {Max(t)}] + s[Max(t)]
      BY <2>1, <2>4, <3>1
    <3> QED BY <2>2, <2>3, <3>2, <3>3
  <2>6. more[1 .. i - 1] = it[1 .. i - 1]
    BY <1>2, <2>1
  <2> QED BY <1>1, <1>2, <2>1, <2>5, <2>6 DEF t
<1> QED BY <1>3, <1>4

LEMMA TotalOfAppended ==
    ASSUME NEW s \in Seq(Int), NEW v \in Int
    PROVE  Total(Append(s, v)) = Total(s) + v
<1> DEFINE longer == Append(s, v)
           it     == CHOOSE f : Sums(s, f)
           more   == CHOOSE f : Sums(longer, f)
           n      == Len(s)
<1>1. longer \in Seq(Int) /\ n \in Nat /\ DOMAIN s = 1 .. n /\ DOMAIN longer = 1 .. n + 1
      /\ longer[n + 1] = v
  OBVIOUS
<1>2. Sums(s, it) /\ Sums(longer, more)
  <2> HIDE DEF longer
  <2> QED BY <1>1, SumsExist
<1>3. Total(s) = it[1 .. n] /\ Total(longer) = more[1 .. n + 1]
  BY <1>1, TotalIsSum
<1>4. more[1 .. n] = it[1 .. n]
  <2> HIDE DEF it, more
  <2> QED BY <1>2, SumsAgree
<1>5. more[1 .. n + 1] = more[1 .. n] + v
  <2> DEFINE t == 1 .. n + 1
  <2>1. t \in SUBSET DOMAIN longer /\ t # {} /\ t \ {n + 1} = 1 .. n /\ n + 1 \in Nat
    BY <1>1
  <2>2. Max(t) = n + 1
    BY <2>1, MaxOfTop
  <2> HIDE DEF t, more, longer, n
  <2>3. more[t] = more[1 .. n] + longer[n + 1]
    BY <1>2, <2>1, <2>2 DEF Sums
  <2> QED BY <1>1, <2>3 DEF t
<1> HIDE DEF it, more
<1> QED BY <1>3, <1>4, <1>5

LEMMA TotalOfNothing == Total(<<>>) = 0
<1> DEFINE it == CHOOSE f : Sums(<<>>, f)
<1>1. Sums(<<>>, it) /\ DOMAIN <<>> = {}
  <2>1. <<>> \in Seq(Int)
    OBVIOUS
  <2>2. \E f : Sums(<<>>, f)
    BY <2>1, SumsExist
  <2> QED BY <2>2
<1>2. Total(<<>>) = it[{}]
  BY <1>1, TotalIsSum
<1> HIDE DEF it
<1>3. it[{}] = 0
  BY <1>1 DEF Sums
<1> QED BY <1>2, <1>3

-----------------------------------------------------------------------------
(* The windows.                                                               *)

LEMMA NothingInEmpty ==
    ASSUME NEW s \in Seq(Int), Len(s) = 0
    PROVE  DOMAIN s = {}
OBVIOUS

LEMMA AddedWindow ==
    ASSUME NEW w \in Window, NEW v \in Numbers
    PROVE  /\ Added(w, v) \in Window /\ Added(w, v).aggr = w.aggr
           /\ Exact(w) => Exact(Added(w, v))
<1>1. v \in Int
  BY ProcessingAssumption
<1>2. MinOf(w.min, v) \in Int /\ MaxOf(w.max, v) \in Int
  BY <1>1 DEF MinOf, MaxOf, Window
<1>3. Append(w.items, v) \in Seq(Int)
  BY <1>1 DEF Window
<1> DEFINE least    == IF w.count = 0 THEN v ELSE MinOf(w.min, v)
           greatest == IF w.count = 0 THEN v ELSE MaxOf(w.max, v)
<1>4. Added(w, v) = [aggr |-> w.aggr, count |-> w.count + 1, sum |-> w.sum + v, min |-> least,
                     max |-> greatest, last |-> v, items |-> Append(w.items, v)]
  <2> DEFINE Fields == {"aggr", "count", "sum", "min", "max", "last", "items"}
  <2>1. w = [f \in Fields |-> w[f]]
    BY DEF Window
  <2>2. Added(w, v) = [f \in Fields |->
           CASE f = "count" -> w.count + 1 [] f = "sum" -> w.sum + v [] f = "min" -> least
             [] f = "max" -> greatest [] f = "last" -> v [] f = "items" -> Append(w.items, v)
             [] f = "aggr" -> w.aggr]
    BY <2>1 DEF Added
  <2> QED BY <2>2
<1>5. least \in Int /\ greatest \in Int
  BY <1>1, <1>2
<1>6. w.aggr \in AggregateTypes /\ w.count + 1 \in Nat /\ w.sum + v \in Int
  BY <1>1 DEF Window
<1>7. ASSUME Exact(w) PROVE Exact(Added(w, v))
  <2> DEFINE before == ToSet(w.items)
             after  == ToSet(Append(w.items, v))
  <2>1. /\ w.items \in Seq(Int) /\ w.count = Len(w.items) /\ w.sum = Total(w.items)
        /\ w.min \in Int /\ w.max \in Int /\ \A n \in before : n \in Int
    BY <1>7 DEF Exact, Window, ToSet
  <2>2. after = before \cup {v}
    <3>1. \A i \in 1 .. Len(w.items) : Append(w.items, v)[i] = w.items[i]
      BY <2>1
    <3>2. /\ DOMAIN Append(w.items, v) = 1 .. Len(w.items) + 1
          /\ DOMAIN w.items = 1 .. Len(w.items)
          /\ Append(w.items, v)[Len(w.items) + 1] = v
      BY <2>1
    <3> QED BY <2>1, <3>1, <3>2 DEF ToSet
  <2>3. /\ w.count + 1 = Len(Append(w.items, v))
        /\ w.sum + v = Total(Append(w.items, v))
        /\ v = Append(w.items, v)[w.count + 1]
    BY <1>1, <2>1, TotalOfAppended
  <2>4. /\ least \in after /\ \A n \in after : least <= n
        /\ greatest \in after /\ \A n \in after : greatest >= n
    <3>1. CASE w.count = 0
      <4>1. before = {}
        <5>1. DOMAIN w.items = {}
          BY <2>1, <3>1, NothingInEmpty
        <5> QED BY <5>1 DEF ToSet
      <4> QED BY <1>1, <2>2, <3>1, <4>1
    <3>2. CASE w.count # 0
      <4>1. /\ w.min \in before /\ \A n \in before : w.min <= n
            /\ w.max \in before /\ \A n \in before : w.max >= n
        BY <1>7, <2>1, <3>2 DEF Exact
      <4> HIDE DEF before, after
      <4> QED BY <1>1, <2>1, <2>2, <3>2, <4>1 DEF MinOf, MaxOf
    <3> QED BY <3>1, <3>2
  <2> HIDE DEF least, greatest
  <2> QED BY <1>4, <2>3, <2>4 DEF Exact
<1> HIDE DEF least, greatest
<1> QED BY <1>1, <1>3, <1>4, <1>5, <1>6, <1>7 DEF Window

LEMMA EmptyWindow ==
    ASSUME NEW a \in AggregateTypes
    PROVE  Empty(a) \in Window /\ Empty(a).aggr = a /\ Exact(Empty(a))
<1>1. <<>> \in Seq(Int) /\ Len(<<>>) = 0
  OBVIOUS
<1> QED BY <1>1, TotalOfNothing DEF Empty, Window, Exact

LEMMA AggregateType ==
    ASSUME RunTypeOK, NEW k \in Keys, rules[k] # None
    PROVE  rules[k].aggregate \in AggregateTypes \cup {None}
BY ProcessingAssumption DEF RunTypeOK, Configuration

LEMMA StepWindow ==
    ASSUME RunTypeOK, RunTypeOK', WindowInv, [Next]_vars
    PROVE  WindowInv'
<1> USE DEF engineVars, loadVars, historyVars
<1>1. CASE UNCHANGED <<rules, aggs>>
  BY <1>1 DEF WindowInv, WindowFollowsRule, WindowIsExact
<1>2. ASSUME NEW p \in DataPoint, NEW due \in BOOLEAN, Aggregate(p, due)
      PROVE  WindowInv'
  <2> DEFINE k == p.key
             w == IF aggs[k] = None THEN Empty(rules[k].aggregate) ELSE aggs[k]
             new == IF ~IsNumber(p.value) THEN w
                    ELSE Added(IF due THEN Empty(w.aggr) ELSE w, p.value)
  <2>1. k \in Keys /\ (IsNumber(p.value) => p.value \in Numbers)
    BY DEF DataPoint, IsNumber
  <2>2. rules[k] # None /\ rules[k].aggregate \in AggregateTypes
    BY <1>2, <2>1, AggregateType DEF Aggregate, Survives
  <2>3. w \in Window /\ w.aggr = rules[k].aggregate /\ Exact(w)
    BY <2>1, <2>2, EmptyWindow DEF WindowInv, WindowFollowsRule, WindowIsExact
  <2>4. new \in Window /\ new.aggr = rules[k].aggregate /\ Exact(new)
    <3>1. Empty(w.aggr) \in Window /\ Empty(w.aggr).aggr = w.aggr /\ Exact(Empty(w.aggr))
      BY <2>2, <2>3, EmptyWindow
    <3> QED BY <2>1, <2>3, <3>1, AddedWindow
  <2>5. aggs' = [aggs EXCEPT ![k] = new] /\ rules' = rules
    BY <1>2 DEF Aggregate, Filter
  <2> HIDE DEF k, w, new
  <2> QED BY <2>1, <2>2, <2>4, <2>5 DEF WindowInv, WindowFollowsRule, WindowIsExact
<1>3. ASSUME NEW p \in DataPoint, Process(p) PROVE WindowInv'
  <2>1. (\E due \in BOOLEAN : Aggregate(p, due)) \/ UNCHANGED <<rules, aggs>>
    BY <1>3 DEF Process, PassThrough, Drop, PassOn, Filter
  <2> QED BY <1>1, <1>2, <2>1
<1>4. ASSUME NEW D \in SUBSET Flushable, Flush(D) PROVE WindowInv'
  <2>1. \A k \in D : k \in Keys /\ aggs[k] # None
    BY DEF Flushable, Open
  <2>2. \A k \in D : aggs[k] \in Window /\ aggs[k].aggr \in AggregateTypes
    BY <2>1 DEF WindowInv, Window
  <2>3. \A k \in D : /\ Empty(aggs[k].aggr) \in Window /\ Empty(aggs[k].aggr).aggr = aggs[k].aggr
                    /\ Exact(Empty(aggs[k].aggr))
    BY <2>2, EmptyWindow
  <2>4. /\ aggs' = [k \in Keys |-> IF k \in D THEN Empty(aggs[k].aggr) ELSE aggs[k]]
        /\ rules' = rules
    BY <1>4 DEF Flush
  <2> QED BY <2>1, <2>3, <2>4 DEF WindowInv, WindowFollowsRule, WindowIsExact
<1>5. CASE SwapRules
  <2>1. rules' = RulesOf(load.read) /\ aggs' = [k \in Keys |-> Kept(k, rules')]
    BY <1>5 DEF SwapRules
  <2>2. ASSUME NEW k \in Keys, Kept(k, rules') # None
        PROVE  /\ Kept(k, rules') \in Window /\ Exact(Kept(k, rules'))
               /\ rules'[k] # None /\ rules'[k].aggregate = Kept(k, rules').aggr
    <3>1. aggs[k] # None /\ rules'[k] # None /\ rules'[k].aggregate # None
      BY <2>2 DEF Kept
    <3>2. rules'[k].aggregate \in AggregateTypes
      BY <3>1, ProcessingAssumption DEF RunTypeOK, Configuration
    <3>3. aggs[k] \in Window /\ Exact(aggs[k])
      BY <3>1 DEF WindowInv, WindowIsExact
    <3> QED BY <3>1, <3>2, <3>3, EmptyWindow DEF Kept
  <2>3. \A k \in Keys : aggs'[k] = Kept(k, rules')
    BY <2>1
  <2> QED BY <2>1, <2>2, <2>3 DEF WindowInv, WindowFollowsRule, WindowIsExact
<1>6. CASE UNCHANGED vars
  BY <1>1, <1>6 DEF vars
<1>7. ASSUME NEW t \in Threads, HandOn(t) PROVE WindowInv'
  BY <1>1, <1>7 DEF HandOn
<1>8. ASSUME NEW k \in Keys, NEW setting \in Settings \cup {None}, EditPoint(k, setting)
      PROVE  WindowInv'
  BY <1>1, <1>8 DEF EditPoint
<1>9. CASE EditElsewhere \/ ReadDevices \/ Subscribe
  BY <1>1, <1>9 DEF EditElsewhere, ReadDevices, Subscribe
<1> QED BY <1>3, <1>4, <1>5, <1>6, <1>7, <1>8, <1>9 DEF Next, FlushSome

LEMMA WindowKept == Spec => []WindowInv
<1>1. Init => WindowInv
  BY DEF Init, WindowInv, WindowFollowsRule, WindowIsExact
<1>2. RunTypeOK /\ RunTypeOK' /\ WindowInv /\ [Next]_vars => WindowInv'
  BY StepWindow
<1> QED BY <1>1, <1>2, RunKept, PTL DEF Spec

(* A window is always that of its point's current aggregate: numbers taken in under one      *)
(* configuration never end up in a point derived under another.                              *)
THEOREM WindowsFollowRules == Spec => []WindowFollowsRule
<1>1. WindowInv => WindowFollowsRule
  BY DEF WindowInv
<1> QED BY <1>1, WindowKept, PTL

(* The accumulators of a window are the count, sum, least, greatest and last of exactly the  *)
(* numbers it has taken in since it was opened (engine.go aggregateAddLocked and flush):     *)
(* the derived point that is handed on is computed from these and no others.                 *)
THEOREM WindowsAreExact == Spec => []WindowIsExact
<1>1. WindowInv => WindowIsExact
  BY DEF WindowInv
<1> QED BY <1>1, WindowKept, PTL

-----------------------------------------------------------------------------
(* The deadband baselines.                                                    *)

(* The filters of a point that has one of them. *)
LEMMA OneFilter ==
    ASSUME NEW p, NEW base, NEW f
    PROVE  Filtered(p, base, <<f>>) =
              IF Passes(p, base, f) THEN [pass |-> TRUE, base |-> NewBaseline(p, base, f)]
              ELSE [pass |-> FALSE, base |-> base]
<1> DEFINE start == [pass |-> TRUE, base |-> base]
           step(acc, g) == IF acc.pass /\ Passes(p, acc.base, g)
                             THEN [acc EXCEPT !.base = NewBaseline(p, @, g)]
                             ELSE [acc EXCEPT !.pass = FALSE]
           S == DOMAIN <<f>>
           Folds(it) == it = [s \in SUBSET S |-> IF s = {} THEN start
                                                 ELSE step(it[s \ {Max(s)}], <<f>>[Max(s)])]
           iter == CHOOSE h : Folds(h)
<1>1. Filtered(p, base, <<f>>) = iter[S]
  BY DEF Filtered, FoldLeft, MapThenFoldSet
<1>2. S = {1} /\ Max({1}) = 1 /\ <<f>>[1] = f
  BY DEF Max
<1>3. \E it : Folds(it)
  <2> DEFINE it == [s \in SUBSET S |-> IF s = {} THEN start ELSE step(start, f)]
  <2> HIDE DEF step, start
  <2>1. \A s \in SUBSET S : s = {} \/ s = {1}
    BY <1>2
  <2>2. it[{}] = start /\ {1} \ {1} = {}
    OBVIOUS
  <2>3. \A s \in SUBSET S :
           s # {} => step(it[s \ {Max(s)}], <<f>>[Max(s)]) = step(start, f)
    <3> HIDE DEF it
    <3> QED BY <1>2, <2>1, <2>2
  <2>4. Folds(it)
    BY <2>3
  <2> QED BY <2>4
<1>4. Folds(iter)
  <2> HIDE DEF Folds
  <2> QED BY <1>3
<1>5. iter[{}] = start /\ iter[S] = step(iter[S \ {Max(S)}], <<f>>[Max(S)])
  <2> HIDE DEF iter, start, step
  <2>1. {} \in SUBSET S /\ S \in SUBSET S /\ S # {}
    BY <1>2
  <2> HIDE DEF S
  <2> QED BY <1>4, <2>1
<1>6. iter[S] = step(start, f)
  <2> HIDE DEF iter, start, step
  <2> QED BY <1>2, <1>5
<1> HIDE DEF iter
<1> QED BY <1>1, <1>6

BaselineInv == DOMAIN last = Keys /\ DOMAIN passed = Keys /\ BaselineIsLastPassed

LEMMA StepBaseline ==
    ASSUME RunTypeOK, BaselineInv, [Next]_vars
    PROVE  BaselineInv'
<1> USE DEF engineVars, loadVars, historyVars
<1>1. CASE UNCHANGED <<last, passed, mixed>>
  BY <1>1 DEF BaselineInv, BaselineIsLastPassed
<1>2. ASSUME NEW p \in DataPoint, Filter(p) PROVE BaselineInv'
  <2> DEFINE k == p.key
             filtered == Filtered(p, last[k], rules[k].filters)
  <2>1. /\ last' = [last EXCEPT ![k] = filtered.base]
        /\ passed' = [passed EXCEPT ![k] = IF IsNumber(p.value) /\ filtered.pass THEN p.value
                                          ELSE @]
        /\ mixed' = IF OneDeadband(rules[k]) THEN mixed ELSE mixed \cup {k}
    BY <1>2 DEF Filter
  <2>2. ASSUME OneDeadband(rules[k]), last[k] = passed[k]
        PROVE  filtered.base = IF IsNumber(p.value) /\ filtered.pass THEN p.value ELSE passed[k]
    <3> DEFINE f == rules[k].filters[1]
    <3>1. rules[k].filters = <<f>> /\ f.type = "deadband"
      <4>1. k \in Keys /\ rules[k] # None
        BY <1>2 DEF Filter, DataPoint
      <4>2. rules[k].filters \in Seq(FilterTypes) /\ Len(rules[k].filters) = 1
        BY <2>2, <4>1, ProcessingAssumption DEF RunTypeOK, Configuration, OneDeadband
      <4> QED BY <2>2, <4>2 DEF OneDeadband
    <3>2. filtered = IF Passes(p, last[k], f)
                       THEN [pass |-> TRUE, base |-> NewBaseline(p, last[k], f)]
                       ELSE [pass |-> FALSE, base |-> last[k]]
      <4>1. filtered = Filtered(p, last[k], <<f>>)
        BY <3>1
      <4> HIDE DEF f, filtered
      <4> QED BY <4>1, OneFilter
    <3> HIDE DEF f, filtered
    <3> QED BY <2>2, <3>1, <3>2 DEF NewBaseline
  <2>3. k \in Keys
    BY DEF DataPoint
  <2> HIDE DEF filtered, k
  <2> QED BY <2>1, <2>2, <2>3 DEF BaselineInv, BaselineIsLastPassed
<1>3. ASSUME NEW p \in DataPoint, Process(p) PROVE BaselineInv'
  BY <1>1, <1>2, <1>3 DEF Process, PassThrough, Drop, PassOn, Aggregate
<1>4. CASE SwapRules
  BY <1>4 DEF SwapRules, Forgotten, BaselineInv, BaselineIsLastPassed
<1>5. ASSUME NEW k \in Keys, FlushSome(k) PROVE BaselineInv'
  BY <1>1, <1>5 DEF FlushSome, Flush
<1>6. ASSUME NEW t \in Threads, HandOn(t) PROVE BaselineInv'
  BY <1>1, <1>6 DEF HandOn
<1>7. ASSUME NEW k \in Keys, NEW setting \in Settings \cup {None}, EditPoint(k, setting)
      PROVE  BaselineInv'
  BY <1>1, <1>7 DEF EditPoint
<1>8. CASE EditElsewhere \/ ReadDevices \/ Subscribe \/ UNCHANGED vars
  BY <1>1, <1>8 DEF EditElsewhere, ReadDevices, Subscribe, vars
<1> QED BY <1>3, <1>4, <1>5, <1>6, <1>7, <1>8 DEF Next

(* The deadband baseline of a point with that one filter is the last number that passed,     *)
(* since its rule exists: it is moved only by a number that is handed on, and forgotten      *)
(* with the rule (engine.go passFiltersLocked and reload).                                   *)
THEOREM BaselinesAreLastPassed == Spec => []BaselineIsLastPassed
<1>1. Init => BaselineInv
  BY DEF Init, BaselineInv, BaselineIsLastPassed
<1>2. RunTypeOK /\ BaselineInv /\ [Next]_vars => BaselineInv'
  BY StepBaseline
<1>3. BaselineInv => BaselineIsLastPassed
  BY DEF BaselineInv
<1> QED BY <1>1, <1>2, <1>3, RunKept, PTL DEF Spec
=============================================================================

---------------------------- MODULE PoiseHubProofs ----------------------------
(***************************************************************************)
(* What the hub keeps for every value of its constants.                    *)
(*                                                                         *)
(* Its demand: for all zones, thresholds and powers, silence raises no     *)
(* call for heat and no freezing room is outvoted.  The threshold on power *)
(* sums the demand of the calling zones; the first part shows, by          *)
(* induction over finite sets, that such a sum does not depend on the      *)
(* order and never grows when zones drop out.                              *)
(*                                                                         *)
(* The hub itself: it is always well typed.  As long as nobody else        *)
(* switches the boiler, a failed call has no effect and no unload          *)
(* overtakes a tick, its belief about a boiler it has reconciled with is   *)
(* true, and it keeps the promise of BoilerPromise.  As long as the store  *)
(* and the calls work, a hub that is removed, disabled or unwired turns    *)
(* its boiler off, and none but a call under way turns it on again; with   *)
(* no call under way and nobody else at it, it stays off.                  *)
(***************************************************************************)
EXTENDS PoiseHub, FiniteSetTheorems, TLAPS
-----------------------------------------------------------------------------
(* Induction: a set of finite sets has a minimal one.                      *)

LEMMA MinimalSubset ==
  ASSUME NEW S, IsFiniteSet(S), NEW F \in SUBSET SUBSET S, F # {}
  PROVE  \E T \in F : \A U \in F : U \subseteq T => U = T
<1>1. FiniteSubsetsOf(S) = SUBSET S
  BY FS_FiniteSubsetsOfFinite
<1>2. IsWellFoundedOn(StrictSubsetOrdering(S), SUBSET S)
  BY <1>1, FS_StrictSubsetOrderingWellFounded
<1>3. PICK T \in F : \A U \in F : ~(<<U, T>> \in StrictSubsetOrdering(S))
  BY <1>2, WFMin
<1> QED
  BY <1>3 DEF StrictSubsetOrdering
-----------------------------------------------------------------------------
(* The sum of a function over a finite set.                                *)

Chosen(s) == CHOOSE x \in s : TRUE

\* One step of the recursion, and a function that obeys it on the subsets of D.
Summed(g, f, s) == IF s = {} THEN 0 ELSE f[Chosen(s)] + g[s \ {Chosen(s)}]
SumsUp(g, f, D) == g = [s \in SUBSET D |-> Summed(g, f, s)]

SumTable(f, D) == CHOOSE g : SumsUp(g, f, D)

LEMMA SumIsTabled ==
  ASSUME NEW f
  PROVE  SumFunction(f) = SumTable(f, DOMAIN f)[DOMAIN f]
BY DEF SumFunction, SumFunctionOnSet, FoldFunctionOnSet, MapThenFoldSet,
       SumTable, SumsUp, Summed, Chosen

LEMMA ChosenIsIn == ASSUME NEW s, s # {} PROVE Chosen(s) \in s
BY DEF Chosen

Agree(f, h, D) == \A x \in D : f[x] = h[x]

\* Two tables agree where both are defined and sum the same.
LEMMA TablesAgree ==
  ASSUME NEW D, IsFiniteSet(D), NEW C, NEW E, D \subseteq C, D \subseteq E,
         NEW f, NEW h, Agree(f, h, D),
         NEW g, SumsUp(g, f, C), NEW k, SumsUp(k, h, E)
  PROVE  \A s \in SUBSET D : g[s] = k[s]
<1> SUFFICES ASSUME ~(\A s \in SUBSET D : g[s] = k[s]) PROVE FALSE
  OBVIOUS
<1> DEFINE F == {s \in SUBSET D : g[s] # k[s]}
<1>1. F # {} /\ F \in SUBSET SUBSET D
  OBVIOUS
<1>2. PICK t \in F : \A u \in F : u \subseteq t => u = t
  <2> HIDE DEF F
  <2> QED
    BY <1>1, MinimalSubset
<1>3. g[t] = Summed(g, f, t) /\ k[t] = Summed(k, h, t)
  BY <1>2 DEF SumsUp
<1>4. CASE t = {}
  BY <1>2, <1>3, <1>4 DEF Summed
<1>5. CASE t # {}
  <2> DEFINE x == Chosen(t)
             u == t \ {x}
  <2>1. x \in t /\ x \in D
    BY <1>2, <1>5, ChosenIsIn
  <2>2. g[u] = k[u]
    BY <1>2, <2>1
  <2>3. g[t] = f[x] + g[u] /\ k[t] = h[x] + k[u]
    BY <1>3, <1>5 DEF Summed
  <2> QED
    BY <1>2, <2>1, <2>2, <2>3 DEF Agree
<1> QED
  BY <1>4, <1>5

\* The recursion defines a table.
LEMMA TableExists ==
  ASSUME NEW D, IsFiniteSet(D), NEW f
  PROVE  SumsUp(SumTable(f, D), f, D)
<1> DEFINE Has(s) == \E g : SumsUp(g, f, s)
           F == {s \in SUBSET D : ~Has(s)}
<1>1. SUFFICES Has(D)
  BY DEF SumTable
<1>2. SUFFICES ASSUME F # {} PROVE FALSE
  OBVIOUS
<1>3. F \in SUBSET SUBSET D
  OBVIOUS
<1>4. PICK t \in F : \A u \in F : u \subseteq t => u = t
  <2> HIDE DEF F
  <2> QED
    BY <1>2, <1>3, MinimalSubset
<1>5. ASSUME NEW s \in SUBSET t, s # t PROVE SumsUp(SumTable(f, s), f, s)
  <2>1. Has(s)
    BY <1>4, <1>5
  <2> QED
    BY <2>1 DEF SumTable
<1> DEFINE Val(s) == SumTable(f, s)[s]
           sum(s) == IF s = {} THEN 0 ELSE f[Chosen(s)] + Val(s \ {Chosen(s)})
           k == [s \in SUBSET t |-> sum(s)]
<1>6. ASSUME NEW s \in SUBSET t, s # t PROVE k[s] = Val(s)
  <2>1. SumsUp(SumTable(f, s), f, s)
    BY <1>5, <1>6
  <2>2. Val(s) = Summed(SumTable(f, s), f, s)
    BY <2>1 DEF SumsUp
  <2>3. CASE s = {}
    BY <2>2, <2>3 DEF Summed
  <2>4. CASE s # {}
    <3> DEFINE u == s \ {Chosen(s)}
    <3>1. Chosen(s) \in s
      BY <2>4, ChosenIsIn
    <3>2. u \in SUBSET t /\ u # t /\ u \subseteq s /\ IsFiniteSet(u)
      <4>1. IsFiniteSet(D) /\ u \in SUBSET D
        BY <1>4
      <4> QED
        BY <1>6, <3>1, <4>1, FS_Subset
    <3>3. SumsUp(SumTable(f, u), f, u)
      BY <1>5, <3>2
    <3>4. SumTable(f, s)[u] = Val(u)
      <4>1. \A v \in SUBSET u : SumTable(f, s)[v] = SumTable(f, u)[v]
        <5> DEFINE g == SumTable(f, s)
                   h == SumTable(f, u)
        <5>1. SumsUp(g, f, s) /\ SumsUp(h, f, u) /\ u \subseteq s /\ u \subseteq u
          BY <2>1, <3>2, <3>3
        <5>2. Agree(f, f, u)
          BY DEF Agree
        <5>3. IsFiniteSet(u)
          BY <3>2
        <5> HIDE DEF g, h, u
        <5>4. \A v \in SUBSET u : g[v] = h[v]
          BY <5>1, <5>2, <5>3, TablesAgree
        <5> QED
          BY <5>4 DEF g, h
      <4> QED
        BY <4>1
    <3>5. Val(s) = f[Chosen(s)] + SumTable(f, s)[u]
      BY <2>2, <2>4 DEF Summed
    <3>6. k[s] = f[Chosen(s)] + Val(u)
      BY <2>4
    <3> HIDE DEF k, Val, u
    <3> QED
      BY <3>4, <3>5, <3>6
  <2> QED
    BY <2>3, <2>4
<1>7. ASSUME NEW s \in SUBSET t PROVE k[s] = Summed(k, f, s)
  <2>1. CASE s = {}
    BY <2>1 DEF Summed
  <2>2. CASE s # {}
    <3> DEFINE u == s \ {Chosen(s)}
    <3>1. u \in SUBSET t /\ u # t
      BY <2>2, ChosenIsIn
    <3>2. k[u] = Val(u)
      BY <1>6, <3>1
    <3>3. k[s] = f[Chosen(s)] + Val(u)
      BY <2>2
    <3> HIDE DEF k, Val
    <3> QED
      BY <2>2, <3>2, <3>3 DEF Summed
  <2> QED
    BY <2>1, <2>2
<1>8. SumsUp(k, f, t)
  <2>1. k = [s \in SUBSET t |-> k[s]]
    OBVIOUS
  <2> HIDE DEF k
  <2> QED
    BY <1>7, <2>1 DEF SumsUp
<1> QED
  BY <1>4, <1>8

\* What a table gives: natural numbers, whatever the order.
LEMMA TableFacts ==
  ASSUME NEW D, IsFiniteSet(D), NEW f, \A x \in D : f[x] \in Nat, NEW g, SumsUp(g, f, D)
  PROVE  /\ \A s \in SUBSET D : g[s] \in Nat
         /\ \A s \in SUBSET D : \A x \in s : g[s] = f[x] + g[s \ {x}]
<1>1. \A s \in SUBSET D : g[s] \in Nat
  <2> SUFFICES ASSUME ~(\A s \in SUBSET D : g[s] \in Nat) PROVE FALSE
    OBVIOUS
  <2> DEFINE F == {s \in SUBSET D : g[s] \notin Nat}
  <2>1. F # {} /\ F \in SUBSET SUBSET D
    OBVIOUS
  <2>2. PICK t \in F : \A u \in F : u \subseteq t => u = t
    <3> HIDE DEF F
    <3> QED
      BY <2>1, MinimalSubset
  <2>3. g[t] = Summed(g, f, t)
    BY <2>2 DEF SumsUp
  <2>4. CASE t = {}
    BY <2>2, <2>3, <2>4 DEF Summed
  <2>5. CASE t # {}
    <3>1. Chosen(t) \in t /\ Chosen(t) \in D
      BY <2>2, <2>5, ChosenIsIn
    <3>2. g[t \ {Chosen(t)}] \in Nat
      BY <2>2, <3>1
    <3>3. g[t] = f[Chosen(t)] + g[t \ {Chosen(t)}]
      BY <2>3, <2>5 DEF Summed
    <3>4. f[Chosen(t)] \in Nat
      BY <3>1
    <3>5. g[t] \in Nat
      BY <3>2, <3>3, <3>4
    <3> QED
      BY <2>2, <3>5
  <2> QED
    BY <2>4, <2>5
<1> DEFINE Free(s) == \A x \in s : g[s] = f[x] + g[s \ {x}]
<1>2. \A s \in SUBSET D : Free(s)
  <2> SUFFICES ASSUME ~(\A s \in SUBSET D : Free(s)) PROVE FALSE
    OBVIOUS
  <2> DEFINE F == {s \in SUBSET D : ~Free(s)}
  <2>1. F # {} /\ F \in SUBSET SUBSET D
    OBVIOUS
  <2>2. PICK t \in F : \A u \in F : u \subseteq t => u = t
    <3> HIDE DEF F
    <3> QED
      BY <2>1, MinimalSubset
  <2>3. PICK x \in t : g[t] # f[x] + g[t \ {x}]
    BY <2>2
  <2> DEFINE y == Chosen(t)
  <2>4. y \in t
    BY <2>3, ChosenIsIn
  <2>5. g[t] = f[y] + g[t \ {y}]
    BY <2>2, <2>3 DEF SumsUp, Summed
  <2> HIDE DEF y
  <2>6. x # y
    BY <2>3, <2>5
  <2> DEFINE u == t \ {y}
             v == t \ {x}
             w == u \ {x}
  <2>7. u \in SUBSET D /\ v \in SUBSET D /\ w \in SUBSET D /\ w = v \ {y}
    BY <2>2
  <2>8. x \in u /\ y \in v /\ u \subseteq t /\ u # t /\ v \subseteq t /\ v # t
    BY <2>3, <2>4, <2>6
  <2>9. Free(u) /\ Free(v)
    BY <2>2, <2>7, <2>8
  <2>10. g[u] = f[x] + g[w]
    BY <2>8, <2>9
  <2>11. g[v] = f[y] + g[v \ {y}]
    BY <2>8, <2>9
  <2>12. f[x] \in Nat /\ f[y] \in Nat /\ g[w] \in Nat
    BY <1>1, <2>2, <2>3, <2>4, <2>7
  <2>13. g[t] = f[y] + g[u] /\ g[t] # f[x] + g[v]
    BY <2>3, <2>5
  <2>14. g[v] = f[y] + g[w]
    BY <2>7, <2>11
  <2> HIDE DEF u, v, w
  <2> QED
    BY <2>10, <2>12, <2>13, <2>14
<1> QED
  BY <1>1, <1>2

LEMMA TableGrows ==
  ASSUME NEW D, IsFiniteSet(D), NEW f, \A x \in D : f[x] \in Nat, NEW g, SumsUp(g, f, D),
         NEW c \in SUBSET D
  PROVE  g[c] <= g[D]
<1> SUFFICES ASSUME ~(g[c] <= g[D]) PROVE FALSE
  OBVIOUS
<1> DEFINE F == {s \in SUBSET D : c \subseteq s /\ ~(g[c] <= g[s])}
<1>1. F # {} /\ F \in SUBSET SUBSET D
  OBVIOUS
<1>2. PICK t \in F : \A u \in F : u \subseteq t => u = t
  <2> HIDE DEF F
  <2> QED
    BY <1>1, MinimalSubset
<1>3. /\ \A s \in SUBSET D : g[s] \in Nat
      /\ \A s \in SUBSET D : \A x \in s : g[s] = f[x] + g[s \ {x}]
  BY TableFacts
<1>4. t # c /\ c \subseteq t /\ t \in SUBSET D
  BY <1>2, <1>3
<1>5. PICK x \in t : x \notin c
  BY <1>4
<1> DEFINE u == t \ {x}
<1>6. u \in SUBSET D /\ c \subseteq u /\ u # t /\ u \subseteq t
  BY <1>4, <1>5
<1>7. g[c] <= g[u]
  BY <1>2, <1>6
<1>8. g[t] = f[x] + g[u] /\ f[x] \in Nat /\ g[u] \in Nat /\ g[c] \in Nat
  BY <1>3, <1>4, <1>5, <1>6
<1>9. ~(g[c] <= g[t])
  BY <1>2
<1> HIDE DEF u
<1> QED
  BY <1>7, <1>8, <1>9

LEMMA SumIsNat ==
  ASSUME NEW f, IsFiniteSet(DOMAIN f), \A x \in DOMAIN f : f[x] \in Nat
  PROVE  SumFunction(f) \in Nat
<1> DEFINE D == DOMAIN f
           g == SumTable(f, D)
<1>1. SumsUp(g, f, D)
  BY TableExists
<1>2. SumFunction(f) = g[D]
  BY SumIsTabled
<1> HIDE DEF g
<1>3. \A s \in SUBSET D : g[s] \in Nat
  BY <1>1, TableFacts
<1> QED
  BY <1>2, <1>3

\* Who drops out takes his share with him.
LEMMA SumShrinks ==
  ASSUME NEW f, NEW h, IsFiniteSet(DOMAIN f), DOMAIN h \subseteq DOMAIN f,
         \A x \in DOMAIN f : f[x] \in Nat, \A x \in DOMAIN h : h[x] = f[x]
  PROVE  SumFunction(h) <= SumFunction(f)
<1> DEFINE D == DOMAIN f
           c == DOMAIN h
           g == SumTable(f, D)
           k == SumTable(h, c)
<1>1. IsFiniteSet(c)
  BY FS_Subset
<1>2. SumsUp(g, f, D) /\ SumsUp(k, h, c)
  BY <1>1, TableExists
<1>3. SumFunction(f) = g[D] /\ SumFunction(h) = k[c]
  BY SumIsTabled
<1> HIDE DEF g, k
<1>4. \A s \in SUBSET c : k[s] = g[s]
  <2>1. c \subseteq c /\ c \subseteq D /\ Agree(h, f, c)
    BY DEF Agree
  <2> HIDE DEF c, D
  <2> QED
    BY <1>1, <1>2, <2>1, TablesAgree
<1>5. g[c] <= g[D]
  BY <1>2, TableGrows
<1> QED
  BY <1>3, <1>4, <1>5
-----------------------------------------------------------------------------
(* The views are typed.                                                    *)

\* A lost zone, a published snapshot, a failed update, an older stamp: every
\* step of a zone leaves a view the hub can read.
LEMMA ZoneStepTyped ==
  ASSUME ZonesTypeOK, NEW z \in Zones, ZoneStep(z)
  PROVE  ZonesTypeOK'
<1>1. 0 \in 0 .. StaleAfter + 1
  BY DemandAssumption
<1>2. \A d \in Snapshots \cup {NoData} : [data |-> d, ok |-> TRUE, age |-> 0] \in ZoneView
  BY <1>1 DEF ZoneView
<1>3. CASE \E d \in Snapshots : Publish(z, d)
  BY <1>2, <1>3 DEF Publish, ZonesTypeOK
<1>4. CASE UpdateFails(z)
  <2>1. [zone[z] EXCEPT !.ok = FALSE] \in ZoneView
    BY DEF ZonesTypeOK, ZoneView
  <2>2. zone' = [zone EXCEPT ![z] = [zone[z] EXCEPT !.ok = FALSE]]
    BY <1>4 DEF UpdateFails, ZonesTypeOK
  <2>3. QED BY <2>1, <2>2 DEF ZonesTypeOK
<1>5. CASE UnloadZone(z)
  BY <1>2, <1>5 DEF UnloadZone, ZonesTypeOK
<1>6. QED BY <1>3, <1>4, <1>5 DEF ZoneStep

LEMMA AgedZonesTyped ==
  ASSUME ZonesTypeOK, zone' = AgedZones
  PROVE  ZonesTypeOK'
<1>1. ASSUME NEW z \in Zones
      PROVE  (IF zone[z].data = NoData \/ zone[z].age > StaleAfter THEN zone[z]
              ELSE [zone[z] EXCEPT !.age = @ + 1]) \in ZoneView
  <2>1. zone[z] \in ZoneView /\ zone[z].age \in 0 .. StaleAfter + 1
    BY DEF ZonesTypeOK, ZoneView
  <2>2. CASE zone[z].data = NoData \/ zone[z].age > StaleAfter
    BY <2>1, <2>2
  <2>3. CASE ~(zone[z].data = NoData \/ zone[z].age > StaleAfter)
    <3>1. zone[z].age + 1 \in 0 .. StaleAfter + 1
      BY <2>1, <2>3, DemandAssumption
    <3>2. [zone[z] EXCEPT !.age = zone[z].age + 1] \in ZoneView
      BY <2>1, <3>1 DEF ZoneView
    <3>3. QED BY <2>3, <3>2
  <2>4. QED BY <2>2, <2>3
<1>2. QED BY <1>1 DEF AgedZones, ZonesTypeOK

LEMMA NoZonesTyped ==
  [z \in Zones |-> [data |-> NoData, ok |-> TRUE, age |-> 0]] \in [Zones -> ZoneView]
<1>1. 0 \in 0 .. StaleAfter + 1
  BY DemandAssumption
<1>2. [data |-> NoData, ok |-> TRUE, age |-> 0] \in ZoneView
  BY <1>1 DEF ZoneView
<1>3. QED BY <1>2

LEMMA ZonesStepTyped ==
  ASSUME ZonesTypeOK, ZonesNext \/ UNCHANGED zone
  PROVE  ZonesTypeOK'
BY ZoneStepTyped, AgedZonesTyped DEF ZonesNext, ZonesTypeOK

\* The views the hub reads are typed, for all zones, data and ages.
THEOREM ZonesAreTyped == ZonesSpec => []ZonesTypeOK
<1>1. ZonesInit => ZonesTypeOK
  BY NoZonesTyped DEF ZonesInit, ZonesTypeOK
<1>2. ZonesTypeOK /\ [ZonesNext]_zone => ZonesTypeOK'
  BY ZonesStepTyped
<1> QED
  BY <1>1, <1>2, PTL DEF ZonesSpec
-----------------------------------------------------------------------------
(* Who takes part, and what he asks for.                                   *)

\* Two tables of views in which the same zones matter and ask for the same.
AsksLess(w, v) ==
  /\ Participating(w) \subseteq Participating(v)
  /\ \A z \in Participating(w) : Request(w, z) = Request(v, z)

LEMMA DemandOfFewer ==
  ASSUME NEW v \in [Zones -> ZoneView], NEW w, AsksLess(w, v), DemandOf(w)
  PROVE  DemandOf(v)
<1>1. Calling(w) \subseteq Calling(v)
  BY DEF AsksLess, Calling
<1>2. IsFiniteSet(Calling(v)) /\ IsFiniteSet(Calling(w))
      /\ Calling(v) \subseteq Zones
  <2>1. Calling(v) \subseteq Zones
    BY DEF Calling, Participating, Collected
  <2>2. IsFiniteSet(Calling(v))
    BY <2>1, DemandAssumption, FS_Subset
  <2> QED
    BY <1>1, <2>1, <2>2, FS_Subset
<1>3. CASE FrostOverride(w)
  BY <1>3 DEF AsksLess, FrostOverride, DemandOf
<1>4. CASE Cardinality(Calling(w)) >= CountThreshold
  <2>1. Cardinality(Calling(w)) <= Cardinality(Calling(v))
    BY <1>1, <1>2, FS_Subset
  <2>2. Cardinality(Calling(w)) \in Nat /\ Cardinality(Calling(v)) \in Nat
    BY <1>2, FS_CardinalityType
  <2>3. Cardinality(Calling(v)) >= CountThreshold
    BY <1>4, <2>1, <2>2, DemandAssumption
  <2> QED
    BY <2>3 DEF DemandOf
<1>5. CASE PowerThreshold > 0 /\ WeightedDemand(w) >= PowerThreshold * FullDuty
  <2>1. \A z \in Calling(v) : Request(v, z).demand \in Nat
    <3> SUFFICES ASSUME NEW z \in Calling(v) PROVE Request(v, z).demand \in Nat
      OBVIOUS
    <3>1. CASE Parked(v[z])
      BY <3>1, DemandAssumption DEF Request, FrostHeatRequest
    <3>2. CASE ~Parked(v[z])
      <4>1. z \in Zones /\ Current(v[z])
        BY <3>2 DEF Calling, Participating, Collected
      <4>2. v[z].data \in SnapshotType
        BY <4>1, DemandAssumption DEF ZoneView, Current
      <4>3. HeatDemand(v[z].data) \in Nat
        BY <4>2, DemandAssumption DEF SnapshotType, HeatDemand
      <4> QED
        BY <3>2, <4>3 DEF Request, RequestFromData
    <3> QED
      BY <3>1, <3>2
  <2>2. \A z \in Calling(v) : Share(v)[z] \in Nat
    <3> SUFFICES ASSUME NEW z \in Calling(v) PROVE Share(v)[z] \in Nat
      OBVIOUS
    <3>1. (IF Request(v, z).powered THEN DeclaredPower[z] ELSE 0) \in Nat
      BY <1>2, DemandAssumption
    <3> QED
      BY <2>1, <3>1 DEF Share
  <2>3. \A z \in Calling(w) : Share(w)[z] = Share(v)[z]
    BY <1>1 DEF Share, AsksLess, Calling
  <2>4. DOMAIN Share(w) = Calling(w) /\ DOMAIN Share(v) = Calling(v)
    BY DEF Share
  <2>5. WeightedDemand(w) <= WeightedDemand(v)
    BY <1>1, <1>2, <2>2, <2>3, <2>4, SumShrinks DEF WeightedDemand
  <2>6. WeightedDemand(v) \in Nat /\ WeightedDemand(w) \in Nat
    BY <1>1, <1>2, <2>2, <2>3, <2>4, SumIsNat DEF WeightedDemand
  <2>7. PowerThreshold * FullDuty \in Nat
    BY DemandAssumption
  <2>8. WeightedDemand(v) >= PowerThreshold * FullDuty
    BY <1>5, <2>5, <2>6, <2>7
  <2> QED
    BY <1>5, <2>8 DEF DemandOf
<1> QED
  BY <1>3, <1>4, <1>5 DEF DemandOf

LEMMA DemandOfSame ==
  ASSUME NEW v, NEW w, Participating(w) = Participating(v),
         \A z \in Participating(v) : Request(w, z) = Request(v, z)
  PROVE  DemandOf(w) <=> DemandOf(v)
<1>1. Calling(w) = Calling(v)
  BY DEF Calling
<1>2. Share(w) = Share(v)
  BY <1>1 DEF Share, Calling
<1>3. FrostOverride(w) <=> FrostOverride(v)
  BY DEF FrostOverride
<1> QED
  BY <1>1, <1>2, <1>3 DEF DemandOf, WeightedDemand
-----------------------------------------------------------------------------
(* Silence and outsiders.                                                  *)

LEMMA SilenceIsLess ==
  ASSUME ZonesTypeOK, zone' = AgedZones \/ \E z \in Zones : UpdateFails(z)
  PROVE  AsksLess(zone', zone)
<1>1. \A z \in Zones : /\ zone'[z].data = zone[z].data
                       /\ Current(zone'[z]) => Current(zone[z])
  <2> SUFFICES ASSUME NEW z \in Zones
               PROVE  zone'[z].data = zone[z].data /\ (Current(zone'[z]) => Current(zone[z]))
    OBVIOUS
  <2>1. zone[z] \in ZoneView
    BY DEF ZonesTypeOK
  <2>2. CASE zone' = AgedZones
    <3>1. \/ zone'[z] = zone[z]
          \/ zone[z].age <= StaleAfter /\ zone'[z] = [zone[z] EXCEPT !.age = @ + 1]
      BY <2>1, <2>2, DemandAssumption DEF AgedZones, ZoneView
    <3> QED
      BY <2>1, <3>1, DemandAssumption DEF Current, ZoneView
  <2>3. CASE \E y \in Zones : UpdateFails(y)
    <3>1. zone'[z] = zone[z] \/ zone'[z] = [zone[z] EXCEPT !.ok = FALSE]
      BY <2>3 DEF UpdateFails, ZonesTypeOK
    <3> QED
      BY <2>1, <3>1 DEF Current, ZoneView
  <2> QED
    BY <2>2, <2>3
<1>2. \A z \in Zones : Parked(zone'[z]) <=> Parked(zone[z])
  BY <1>1 DEF Parked
<1>3. Participating(zone') \subseteq Participating(zone)
  BY <1>1, <1>2 DEF Participating, Collected
<1>4. \A z \in Zones : Request(zone', z) = Request(zone, z)
  BY <1>1, <1>2 DEF Request
<1>5. Participating(zone') \subseteq Zones
  BY DEF Participating, Collected
<1> QED
  BY <1>3, <1>4, <1>5 DEF AsksLess

LEMMA OutsidersAreNotAsked ==
  ASSUME \A z \in ControlsBoiler : zone'[z] = zone[z]
  PROVE  Demand' <=> Demand
<1>1. Participating(zone') = Participating(zone)
  BY DEF Participating, Collected
<1>2. \A z \in Participating(zone) : Request(zone', z) = Request(zone, z)
  BY DEF Participating, Request
<1>3. DemandOf(zone') <=> DemandOf(zone)
  BY <1>1, <1>2, DemandOfSame
<1> QED
  BY <1>3 DEF Demand

(***************************************************************************)
(* The call for heat is never raised by zones that fall silent, fail or    *)
(* grow old, nor changed by a zone the boiler does not serve: for all      *)
(* numbers of zones, powers, duties and thresholds (_collect_requests,     *)
(* aggregate_boiler_demand).                                               *)
(***************************************************************************)
THEOREM SilenceRaisesNothing == ZonesSpec => DemandIsNotRaised
<1>1. ASSUME ZonesTypeOK, [ZonesNext]_zone
      PROVE  [SilenceLowersDemand /\ OutsiderChangesNothing]_zone
  <2>1. SilenceLowersDemand
    <3> SUFFICES ASSUME zone' = AgedZones \/ \E z \in Zones : UpdateFails(z), Demand'
                 PROVE  Demand
      BY DEF SilenceLowersDemand
    <3>1. AsksLess(zone', zone)
      BY <1>1, SilenceIsLess
    <3>2. DemandOf(zone')
      BY DEF Demand
    <3>3. DemandOf(zone)
      BY <1>1, <3>1, <3>2, DemandOfFewer DEF ZonesTypeOK
    <3> QED
      BY <3>3 DEF Demand
  <2>2. OutsiderChangesNothing
    BY OutsidersAreNotAsked DEF OutsiderChangesNothing
  <2> QED
    BY <2>1, <2>2
<1> QED
  BY <1>1, ZonesAreTyped, PTL DEF ZonesSpec, DemandIsNotRaised
-----------------------------------------------------------------------------
(* Sensors.                                                                *)

Quiet(v) ==
  IF v.data # NoData /\ v.data.available /\ v.data.frozen
  THEN [v EXCEPT !.data.heating = FALSE, !.data.duty = 0] ELSE v

LEMMA QuietCounts ==
  ASSUME ZonesTypeOK, NEW w, w = [z \in Zones |-> Quiet(zone[z])], NEW z \in Zones
  PROVE  /\ Current(w[z]) <=> Current(zone[z])
         /\ Parked(w[z]) <=> Parked(zone[z])
         /\ Current(zone[z]) \/ Parked(zone[z]) => Request(w, z) = Request(zone, z)
<1>1. w[z] = Quiet(zone[z]) /\ zone[z] \in ZoneView
  BY DEF ZonesTypeOK
<1> DEFINE v == zone[z]
<1>2. CASE ~(v.data # NoData /\ v.data.available /\ v.data.frozen)
  <2>1. w[z] = v
    BY <1>1, <1>2 DEF Quiet
  <2> QED
    BY <2>1 DEF Request
<1>3. CASE v.data # NoData /\ v.data.available /\ v.data.frozen
  <2> DEFINE q == w[z]
  <2>1. v.data \in SnapshotType
    BY <1>1, <1>3, DemandAssumption DEF ZoneView
  <2>2. q = [v EXCEPT !.data.heating = FALSE, !.data.duty = 0]
    BY <1>1, <1>3 DEF Quiet
  <2>3. /\ q.data = [v.data EXCEPT !.heating = FALSE, !.duty = 0]
        /\ q.ok = v.ok /\ q.age = v.age
    BY <1>1, <2>2 DEF ZoneView
  <2>4. /\ q.data.available = v.data.available
        /\ q.data.unavailableSafe = v.data.unavailableSafe
        /\ q.data.stamped = v.data.stamped
        /\ q.data.frozen = v.data.frozen /\ q.data.band = v.data.band
        /\ q.data.heating = FALSE
    BY <2>1, <2>3 DEF SnapshotType
  <2>5. q.data \in SnapshotType
    <3> DEFINE d == v.data
    <3>1. d \in SnapshotType /\ q.data = [d EXCEPT !.heating = FALSE, !.duty = 0]
      BY <2>1, <2>3
    <3>2. 0 \in (0 .. FullDuty) \cup {NoDuty} /\ FALSE \in BOOLEAN
      BY DemandAssumption
    <3> HIDE DEF d, q
    <3>3. [d EXCEPT !.heating = FALSE, !.duty = 0] \in SnapshotType
      BY <3>1, <3>2 DEF SnapshotType
    <3> QED
      BY <3>1, <3>3
  <2>6. q.data # NoData
    BY <2>5, DemandAssumption
  <2> HIDE DEF q, v
  <2>7. (Current(q) <=> Current(v)) /\ (Parked(q) <=> Parked(v)) /\ ~Parked(v) /\ ~Parked(q)
    BY <1>3, <2>3, <2>4, <2>6 DEF Current, Parked
  <2>8. RequestFromData(q.data) = RequestFromData(v.data)
    BY <1>3, <2>4 DEF RequestFromData, HeatDemand
  <2> QED
    BY <2>7, <2>8 DEF Request, q, v
<1> QED
  BY <1>2, <1>3

LEMMA FrozenIsQuiet == ASSUME ZonesTypeOK PROVE FrozenSensorsDoNotHeat
<1> DEFINE w == [z \in Zones |-> Quiet(zone[z])]
<1>1. \A z \in Zones :
         /\ Current(w[z]) <=> Current(zone[z])
         /\ Parked(w[z]) <=> Parked(zone[z])
         /\ Current(zone[z]) \/ Parked(zone[z]) => Request(w, z) = Request(zone, z)
  <2> SUFFICES ASSUME NEW z \in Zones
               PROVE  /\ Current(w[z]) <=> Current(zone[z])
                      /\ Parked(w[z]) <=> Parked(zone[z])
                      /\ Current(zone[z]) \/ Parked(zone[z]) => Request(w, z) = Request(zone, z)
    OBVIOUS
  <2>1. w = [y \in Zones |-> Quiet(zone[y])]
    OBVIOUS
  <2> HIDE DEF w
  <2> QED
    BY <2>1, QuietCounts
<1> HIDE DEF w
<1>2. Participating(w) = Participating(zone)
  BY <1>1 DEF Participating, Collected
<1>3. \A z \in Participating(zone) : Request(w, z) = Request(zone, z)
  BY <1>1 DEF Participating, Collected
<1>4. DemandOf(w) <=> DemandOf(zone)
  BY <1>2, <1>3, DemandOfSame
<1> QED
  BY <1>4 DEF FrozenSensorsDoNotHeat, Demand, w, Quiet

LEMMA FrostIsHeard == FrostIsNeverOutvoted
<1> SUFFICES ASSUME NEW z \in ControlsBoiler, Current(zone[z]), zone[z].data.band = "frost"
             PROVE  Demand
  BY DEF FrostIsNeverOutvoted
<1>1. z \in Participating(zone)
  BY DemandAssumption DEF Participating, Collected
<1>2. Request(zone, z).frost
  BY DEF Current, Parked, Request, RequestFromData
<1> QED
  BY <1>1, <1>2 DEF FrostOverride, DemandOf, Demand

(***************************************************************************)
(* A frozen sensor never calls for comfort heat, and a freezing room the   *)
(* boiler serves is never outvoted, for all zones and thresholds           *)
(* (zone_request_from_data, ADR-0039 addendum #4).                         *)
(***************************************************************************)
THEOREM DemandStaysSound == ZonesSpec => []DemandIsSound
<1>1. ZonesTypeOK => DemandIsSound
  BY FrozenIsQuiet, FrostIsHeard DEF DemandIsSound
<1> QED
  BY <1>1, ZonesAreTyped, PTL
-----------------------------------------------------------------------------
\* The faults under which the promise is made; saves, loads and calls may
\* still fail, and Home Assistant may stop at any time.
SoleActor == Faults \cap {"foreign", "lateCall", "midCall"} = {}
-----------------------------------------------------------------------------
(* The inductive invariant.                                                *)

\* Where the control of the hub can be.
Control ==
  /\ orphan = NoOrphan
  /\ pc # "down" => entry = "enabled"
  /\ reconciled => restored
  /\ pc \in {"calling", "saving"} => wired /\ restored /\ pend.call # "none"
  /\ pc \in {"down", "idle"} => ~landed
  /\ pc = "saving" => landed

\* A stamp is true when the switch it stands for came no later than a call's
\* delay after it.
TrueStamp(age) == age <= held + CallTimeout

\* What the hub believes: of a boiler in the state it believes it in, and of
\* one that rests while the hub takes it to be running.
BeliefSound ==
  /\ restored /\ boiler.on = power =>
       TrueStamp(boiler.age) \/ lost = 2 \/ (~power /\ lost = 1)
  /\ restored /\ boiler.on /\ ~power => lost >= 1

\* Reconciled, the hub is wrong only between a call's effect and its return.
BeliefCurrent ==
  (reconciled \/ pc = "saving") /\ (pc = "calling" => ~landed) => boiler.on = power

\* The same for the store: a payload that is wrong, or that is right by
\* accident, has been overtaken by switches it does not know.
StoreSound ==
  /\ ~disk.kept => lost = 2
  /\ disk.kept /\ disk.on # power => lost >= 1
  /\ disk.kept /\ disk.on = power =>
       TrueStamp(disk.age) \/ lost = 2 \/ (~power /\ lost = 1)

\* The call under way is one the dwells allow, and committing it will leave a
\* sound belief: a flip carries a new stamp, a re-assert the old one.
CallSound ==
  pc = "calling" =>
    /\ pend.state.on <=> pend.call = "on"
    /\ landed => power = pend.state.on
    /\ ~landed /\ ~power /\ pend.state.on =>
         held >= Less(MinOff, CallTimeout) \/ lost >= 1
    /\ ~landed /\ power /\ ~pend.state.on =>
         held >= Less(MinOn, CallTimeout) \/ lost = 2
    /\ pend.state.on # boiler.on => pend.state.age = 0
    /\ pend.state.on = boiler.on =>
         /\ reconciled
         /\ boiler.age = Aged(pend.state.age, callAge, Dwell)

\* What is about to be saved is what the hub believes, as of the tick's start.
SaveSound ==
  pc = "saving" =>
    /\ pend.state.on = boiler.on
    /\ boiler.age = Aged(pend.state.age, callAge, Dwell)

IInv ==
  TypeOK /\ Control /\ BeliefSound /\ BeliefCurrent /\ StoreSound /\ CallSound /\ SaveSound
-----------------------------------------------------------------------------
(* Facts about the pure step.                                              *)

\* The clamped dwells are numbers, and the ages saturate above both.
LEMMA DwellFacts ==
  /\ MinOn \in Nat /\ MinOff \in Nat /\ Dwell \in Nat
  /\ MinOn <= Dwell /\ MinOff <= Dwell
  /\ Delay \in Nat /\ Keepalive \in Nat /\ CallTimeout \in Nat /\ WallBack \in Nat
  /\ NoLatch \notin Nat
BY TimersAssumption, HubAssumption DEF MinOn, MinOff, Dwell, AtLeast

LEMMA DefaultTyped == DefaultBoiler \in BoilerState
BY DwellFacts DEF DefaultBoiler, BoilerState

LEMMA NoStepTyped == NoStep \in Step
BY DefaultTyped DEF NoStep, Step, Call

\* Ageing keeps an age in its range.
LEMMA AgedTyped ==
  ASSUME NEW cap \in Nat, NEW age \in 0 .. cap, NEW d \in Nat
  PROVE  Aged(age, d, cap) \in 0 .. cap
BY DEF Aged, AtMost

LEMMA AgedBoilerFacts ==
  ASSUME NEW b \in BoilerState, NEW d \in Nat
  PROVE  /\ AgedBoiler(b, d) \in BoilerState
         /\ AgedBoiler(b, d).on = b.on
         /\ AgedBoiler(b, d).age = Aged(b.age, d, Dwell)
<1>1. /\ b.on \in BOOLEAN /\ b.age \in 0 .. Dwell /\ b.ka \in 0 .. Keepalive
      /\ b.latch \in (0 .. Delay) \cup {NoLatch}
  BY DEF BoilerState
<1>2. Aged(b.age, d, Dwell) \in 0 .. Dwell /\ Aged(b.ka, d, Keepalive) \in 0 .. Keepalive
  BY <1>1, DwellFacts, AgedTyped
<1>3. (IF b.latch = NoLatch THEN b.latch ELSE Aged(b.latch, d, Delay))
        \in (0 .. Delay) \cup {NoLatch}
  BY <1>1, DwellFacts, AgedTyped
<1>4. QED BY <1>1, <1>2, <1>3 DEF AgedBoiler, BoilerState

LEMMA DemandIsBoolean == Demand \in BOOLEAN
BY DEF Demand, DemandOf

\* Another latch, another keep-alive stamp: the belief and its age stay.
LEMMA LatchFacts ==
  ASSUME NEW b \in BoilerState, NEW l \in (0 .. Delay) \cup {NoLatch}
  PROVE  /\ [b EXCEPT !.latch = l] \in BoilerState
         /\ [b EXCEPT !.latch = l].on = b.on /\ [b EXCEPT !.latch = l].age = b.age
         /\ [b EXCEPT !.latch = l, !.ka = 0] \in BoilerState
         /\ [b EXCEPT !.latch = l, !.ka = 0].on = b.on
         /\ [b EXCEPT !.latch = l, !.ka = 0].age = b.age
<1>1. b \in [on : BOOLEAN, age : 0 .. Dwell, latch : (0 .. Delay) \cup {NoLatch},
             ka : 0 .. Keepalive]
  BY DEF BoilerState
<1>2. 0 \in 0 .. Keepalive
  BY DwellFacts
<1> DEFINE c == [b EXCEPT !.latch = l]
<1>3. c \in BoilerState /\ c.on = b.on /\ c.age = b.age
  BY <1>1 DEF BoilerState
<1>4. [b EXCEPT !.latch = l, !.ka = 0] \in BoilerState
  BY <1>1, <1>2 DEF BoilerState
<1>5. /\ [b EXCEPT !.latch = l, !.ka = 0].on = b.on
      /\ [b EXCEPT !.latch = l, !.ka = 0].age = b.age
  BY <1>1
<1>6. QED BY <1>3, <1>4, <1>5

\* One step of the state machine: it flips only out of a finished dwell and
\* stamps the flip, and it re-asserts, the stamp kept, only when allowed to.
LEMMA StepFacts ==
  ASSUME NEW b \in BoilerState, NEW demand \in BOOLEAN, NEW allow \in BOOLEAN,
         NEW s, s = StepBoiler(b, demand, allow)
  PROVE  /\ s \in Step
         /\ s.call = "none" => s.state.on = b.on /\ s.state.age = b.age
         /\ s.call # "none" => (s.state.on <=> s.call = "on")
         /\ s.state.on # b.on =>
              /\ s.state.age = 0
              /\ s.call # "none"
              /\ b.on => b.age >= MinOn
              /\ ~b.on => b.age >= MinOff
         /\ s.state.on = b.on => s.state.age = b.age
         /\ s.call # "none" /\ s.state.on = b.on => allow
<1> DEFINE latch == Latched(demand, b.latch)
           target == TargetBoilerState(demand, b.on, latch, b.age)
<1>1. /\ b.on \in BOOLEAN /\ b.age \in 0 .. Dwell /\ b.ka \in 0 .. Keepalive
      /\ b.latch \in (0 .. Delay) \cup {NoLatch}
  BY DEF BoilerState
<1>2. latch \in (0 .. Delay) \cup {NoLatch}
  BY <1>1, DwellFacts DEF Latched
<1>3. /\ target \in BOOLEAN
      /\ target # b.on /\ b.on => b.age >= MinOn
      /\ target # b.on /\ ~b.on => b.age >= MinOff
  BY <1>1, DwellFacts DEF TargetBoilerState, GateMinCycle
<1>4. CASE target # b.on
  <2>1. s = [state |-> [on |-> target, age |-> 0, latch |-> latch, ka |-> 0],
             call |-> CallFor(target)]
    BY <1>4 DEF StepBoiler
  <2>2. s.state \in BoilerState
    BY <2>1, <1>2, <1>3, DwellFacts DEF BoilerState
  <2>3. QED BY <2>1, <2>2, <1>1, <1>3, <1>4 DEF CallFor, Step, Call
<1>5. CASE target = b.on
  <2>1. \/ /\ allow
           /\ s = [state |-> [b EXCEPT !.latch = latch, !.ka = 0], call |-> CallFor(b.on)]
        \/ s = [state |-> [b EXCEPT !.latch = latch], call |-> "none"]
    BY <1>5 DEF StepBoiler
  <2>2. s.state \in BoilerState /\ s.state.on = b.on /\ s.state.age = b.age
    <3>1. PICK l \in (0 .. Delay) \cup {NoLatch} : l = latch
      BY <1>2
    <3>2. \/ s.state = [b EXCEPT !.latch = l, !.ka = 0]
          \/ s.state = [b EXCEPT !.latch = l]
      <4> HIDE DEF latch
      <4> QED BY <2>1, <3>1
    <3>3. /\ [b EXCEPT !.latch = l] \in BoilerState
          /\ [b EXCEPT !.latch = l].on = b.on /\ [b EXCEPT !.latch = l].age = b.age
          /\ [b EXCEPT !.latch = l, !.ka = 0] \in BoilerState
          /\ [b EXCEPT !.latch = l, !.ka = 0].on = b.on
          /\ [b EXCEPT !.latch = l, !.ka = 0].age = b.age
      BY LatchFacts
    <3>4. QED BY <3>2, <3>3 DEF BoilerState
  <2>3. QED BY <2>1, <2>2, <1>1 DEF CallFor, Step, Call
<1>6. QED BY <1>4, <1>5
-----------------------------------------------------------------------------
(* Type correctness.                                                       *)

LEMMA FreshTyped ==
  ASSUME FreshHub
  PROVE  /\ boiler' \in BoilerState
         /\ restored' \in BOOLEAN /\ reconciled' \in BOOLEAN /\ acted' \in BOOLEAN
         /\ pend' \in Step /\ callAge' \in 0 .. CallTimeout /\ landed' \in BOOLEAN
<1>1. boiler' \in BoilerState
  BY DefaultTyped DEF FreshHub
<1>2. restored' \in BOOLEAN /\ reconciled' \in BOOLEAN /\ acted' \in BOOLEAN
  BY DEF FreshHub
<1>3. pend' \in Step /\ landed' \in BOOLEAN
  BY NoStepTyped DEF FreshHub
<1>4. callAge' \in 0 .. CallTimeout
  BY DwellFacts DEF FreshHub
<1>5. QED BY <1>1, <1>2, <1>3, <1>4

LEMMA SwitchTyped ==
  ASSUME TypeOK, NEW p \in BOOLEAN, Switch(p)
  PROVE  power' \in BOOLEAN /\ held' \in 0 .. Dwell /\ lost' \in 0 .. 2
BY DwellFacts DEF Switch, TypeOK, AtMost

LEMMA FromPayloadFacts ==
  ASSUME NEW p \in Payload
  PROVE  /\ FromPayload(p) \in BoilerState
         /\ p.kept => FromPayload(p).on = p.on /\ FromPayload(p).age = AtLeast(p.age, 0)
         /\ ~p.kept => FromPayload(p) = DefaultBoiler
<1>1. AtLeast(p.age, 0) \in 0 .. Dwell /\ p.on \in BOOLEAN
  <2>1. p.on \in BOOLEAN /\ p.age \in (-WallBack) .. Dwell
    BY DEF Payload
  <2>2. QED BY <2>1, DwellFacts DEF AtLeast
<1>2. NoLatch \in (0 .. Delay) \cup {NoLatch} /\ Keepalive \in 0 .. Keepalive
  BY DwellFacts
<1>3. CASE p.kept
  <2>1. FromPayload(p) =
          [on |-> p.on, age |-> AtLeast(p.age, 0), latch |-> NoLatch, ka |-> Keepalive]
    BY <1>3 DEF FromPayload
  <2>2. QED BY <1>1, <1>2, <1>3, <2>1 DEF BoilerState
<1>4. CASE ~p.kept
  BY <1>4, DefaultTyped DEF FromPayload
<1>5. QED BY <1>3, <1>4

LEMMA ReconcileFacts ==
  ASSUME NEW b \in BoilerState, NEW reading \in {"on", "off"}
  PROVE  /\ Reconcile(b, reading) \in BoilerState
         /\ Reconcile(b, reading).on <=> reading = "on"
         /\ Reconcile(b, reading).age =
              (IF (reading = "on") = b.on THEN b.age
               ELSE IF reading = "on" THEN 0 ELSE Dwell)
<1> DEFINE real == reading = "on"
           stamp == IF real = b.on THEN b.age ELSE IF real THEN 0 ELSE Dwell
<1>1. /\ b.on \in BOOLEAN /\ b.age \in 0 .. Dwell
      /\ b.latch \in (0 .. Delay) \cup {NoLatch}
  BY DEF BoilerState
<1>2. real \in BOOLEAN /\ stamp \in 0 .. Dwell /\ 0 \in 0 .. Keepalive
  <2>1. real \in BOOLEAN
    OBVIOUS
  <2>2. 0 \in 0 .. Dwell /\ Dwell \in 0 .. Dwell /\ 0 \in 0 .. Keepalive
    BY DwellFacts
  <2>3. stamp \in 0 .. Dwell
    BY <1>1, <2>2
  <2>4. QED BY <2>1, <2>2, <2>3
<1>3. Reconcile(b, reading) = [on |-> real, age |-> stamp, latch |-> b.latch, ka |-> 0]
  BY DEF Reconcile
<1> HIDE DEF real, stamp
<1>4. /\ Reconcile(b, reading) \in BoilerState
      /\ Reconcile(b, reading).on = real /\ Reconcile(b, reading).age = stamp
  BY <1>1, <1>2, <1>3 DEF BoilerState
<1>5. QED BY <1>4 DEF real, stamp

\* What a tick of the hub starts from: the belief it holds, or the one it
\* restores, reconciled if this is the tick that can read the boiler.
Loaded(loadOk) ==
  IF restored THEN boiler ELSE IF loadOk THEN FromPayload(disk) ELSE DefaultBoiler
Believed(loadOk, reading) ==
  IF ~reconciled /\ reading # "none" THEN Reconcile(Loaded(loadOk), reading)
  ELSE Loaded(loadOk)

LEMMA LoadedTyped ==
  ASSUME TypeOK, NEW loadOk \in BOOLEAN
  PROVE  Loaded(loadOk) \in BoilerState
BY FromPayloadFacts, DefaultTyped DEF TypeOK, Loaded

LEMMA BelievedTyped ==
  ASSUME TypeOK, NEW loadOk \in BOOLEAN, NEW reading \in {"on", "off", "none"}
  PROVE  Believed(loadOk, reading) \in BoilerState
BY LoadedTyped, ReconcileFacts DEF Believed

\* A tick, taken apart: the belief b it starts from and the step s it makes.
LEMMA TickShape ==
  ASSUME TypeOK, Tick
  PROVE  \E loadOk \in BOOLEAN, reading \in {CallFor(power), "none"}, rec \in BOOLEAN,
            b \in BoilerState, s \in Step :
           /\ loadOk \/ ~restored
           /\ rec <=> reconciled \/ reading # "none"
           /\ b = Believed(loadOk, reading)
           /\ s = StepBoiler(b, Demand, rec)
           /\ pc = "idle" /\ wired
           /\ restored' = TRUE /\ reconciled' = rec
           /\ acted' \in BOOLEAN
           /\ lost' = IF loadOk THEN lost ELSE AtLeast(lost, 1)
           /\ IF s.call = "none"
              THEN boiler' = s.state /\ UNCHANGED <<pc, tick>>
              ELSE /\ boiler' = b /\ pc' = "calling"
                   /\ pend' = s /\ callAge' = 0 /\ landed' = FALSE
<1>1. PICK loadOk \in BOOLEAN, reading \in Readings :
        /\ loadOk \/ (~restored /\ Fault("loadFails"))
        /\ LET b == Believed(loadOk, reading)
               rec == reconciled \/ reading # "none"
               s == StepBoiler(b, Demand, rec)
           IN  /\ restored' = TRUE
               /\ reconciled' = rec
               /\ acted' = IF restored THEN acted ELSE loadOk /\ disk.acted
               /\ lost' = IF loadOk THEN lost ELSE AtLeast(lost, 1)
               /\ IF s.call = "none"
                  THEN boiler' = s.state /\ UNCHANGED <<pc, tick>>
                  ELSE /\ boiler' = b
                       /\ pc' = "calling"
                       /\ pend' = s /\ callAge' = 0 /\ landed' = FALSE
  BY DEF Tick, Believed, Loaded
<1>2. reading \in {CallFor(power), "none"} /\ CallFor(power) \in {"on", "off"}
  BY <1>1 DEF Readings, CallFor
<1> DEFINE b == Believed(loadOk, reading)
           rec == reconciled \/ reading # "none"
           s == StepBoiler(b, Demand, rec)
<1>3. b \in BoilerState
  BY <1>2, BelievedTyped
<1>4. rec \in BOOLEAN
  BY DEF TypeOK
<1>5. s \in Step
  BY <1>3, <1>4, DemandIsBoolean, StepFacts
<1>6. (IF restored THEN acted ELSE loadOk /\ disk.acted) \in BOOLEAN
  BY DEF TypeOK, Payload
<1>7. pc = "idle" /\ wired
  BY DEF Tick
<1> HIDE DEF b, s
<1>8. QED BY <1>1, <1>2, <1>3, <1>4, <1>5, <1>6, <1>7 DEF b, s

LEMMA NoOrphanTyped == NoOrphan \in Orphan
BY NoStepTyped, DwellFacts DEF NoOrphan, Orphan

\* A payload grows older, or younger when the wall clock jumps back.
LEMMA OlderTyped ==
  ASSUME NEW p \in Payload
  PROVE  Older(p) \in Payload /\ Older(p).kept = p.kept /\ Older(p).on = p.on
         /\ Older(p).age = (IF p.kept THEN Aged(p.age, 1, Dwell) ELSE p.age)
<1>1. p.kept \in BOOLEAN /\ p.on \in BOOLEAN /\ p.age \in (-WallBack) .. Dwell
  BY DEF Payload
<1>2. (IF p.kept THEN Aged(p.age, 1, Dwell) ELSE p.age) \in (-WallBack) .. Dwell
  BY <1>1, DwellFacts DEF Aged, AtMost
<1>3. PICK a \in (-WallBack) .. Dwell : a = IF p.kept THEN Aged(p.age, 1, Dwell) ELSE p.age
  BY <1>2
<1>4. Older(p) = [p EXCEPT !.age = a]
  BY <1>3 DEF Older
<1>5. [p EXCEPT !.age = a] \in Payload /\ [p EXCEPT !.age = a].kept = p.kept
      /\ [p EXCEPT !.age = a].on = p.on /\ [p EXCEPT !.age = a].age = a
  BY <1>1 DEF Payload
<1>6. QED BY <1>3, <1>4, <1>5

LEMMA ToPayloadTyped ==
  ASSUME NEW s \in BoilerState
  PROVE  ToPayload(s) \in Payload
<1>1. s.on \in BOOLEAN /\ s.age \in 0 .. Dwell
  BY DEF BoilerState
<1>2. s.age \in (-WallBack) .. Dwell
  BY <1>1, DwellFacts
<1>3. QED BY <1>1, <1>2 DEF ToPayload, Payload

LEMMA LeaveTickTyped ==
  ASSUME TypeOK, LeaveTick
  PROVE  orphan' \in Orphan
<1>1. CASE pc = "idle"
  BY <1>1 DEF LeaveTick, TypeOK
<1>2. CASE pc # "idle"
  <2>1. orphan' = [step |-> pend, landed |-> landed, age |-> callAge,
                   saves |-> pc = "saving" \/ Saves]
    BY <1>2 DEF LeaveTick
  <2>2. (pc = "saving" \/ Saves) \in BOOLEAN
    BY DEF Saves, TypeOK
  <2>3. pend \in Step /\ landed \in BOOLEAN /\ callAge \in 0 .. CallTimeout
    BY DEF TypeOK
  <2>4. QED BY <2>1, <2>2, <2>3 DEF Orphan
<1>3. QED BY <1>1, <1>2

\* An OFF on the way out is a switch or nothing.
LEMMA MaybeOffTyped ==
  ASSUME TypeOK, NEW sent \in BOOLEAN, MaybeOff(sent)
  PROVE  power' \in BOOLEAN /\ held' \in 0 .. Dwell /\ lost' \in 0 .. 2
<1>1. CASE Switch(FALSE)
  BY <1>1, SwitchTyped
<1>2. CASE UNCHANGED <<plant, lost>>
  BY <1>2 DEF plant, TypeOK
<1>3. QED BY <1>1, <1>2 DEF MaybeOff

LEMMA RemoveShape ==
  ASSUME TypeOK, Remove
  PROVE  \E sent \in BOOLEAN : MaybeOff(sent)
<1>1. PICK loadOk \in BOOLEAN : MaybeOff(wired /\ loadOk /\ disk.kept /\ disk.acted)
  BY DEF Remove
<1>2. (wired /\ loadOk /\ disk.kept /\ disk.acted) \in BOOLEAN
  BY DEF TypeOK, Payload
<1>3. QED BY <1>1, <1>2

LEMMA InitTyped == Init => TypeOK
<1> SUFFICES ASSUME Init PROVE TypeOK
  OBVIOUS
<1>1. boiler \in BoilerState /\ pend \in Step /\ orphan \in Orphan
  BY DefaultTyped, NoStepTyped, NoOrphanTyped DEF Init
<1>2. disk \in Payload
  <2>1. 0 \in (-WallBack) .. Dwell
    BY DwellFacts
  <2>2. QED BY <2>1 DEF Init, NoPayload, Payload
<1>3. callAge \in 0 .. CallTimeout /\ held \in 0 .. Dwell /\ lost \in 0 .. 2
  BY DwellFacts DEF Init
<1>4. ZonesTypeOK
  BY NoZonesTyped DEF Init, ZonesInit, ZonesTypeOK
<1>5. QED BY <1>1, <1>2, <1>3, <1>4 DEF Init, TypeOK

LEMMA ZeroAge == 0 \in 0 .. CallTimeout
BY DwellFacts

LEMMA TickDoneTyped ==
  ASSUME TickDone
  PROVE  /\ pc' \in {"down", "idle", "calling", "saving"}
         /\ pend' \in Step /\ callAge' \in 0 .. CallTimeout /\ landed' \in BOOLEAN
BY NoStepTyped, ZeroAge DEF TickDone

\* The steps of a tick.
LEMMA TickTyped ==
  ASSUME TypeOK, Tick \/ Land \/ CallReturns \/ CallFails \/ Save \/ SaveFails
  PROVE  TypeOK'
<1>1. CASE Tick
  <2>1. PICK loadOk \in BOOLEAN, rec \in BOOLEAN, b \in BoilerState, s \in Step :
          /\ restored' = TRUE /\ reconciled' = rec /\ acted' \in BOOLEAN
          /\ lost' = IF loadOk THEN lost ELSE AtLeast(lost, 1)
          /\ IF s.call = "none"
             THEN boiler' = s.state /\ UNCHANGED <<pc, tick>>
             ELSE /\ boiler' = b /\ pc' = "calling"
                  /\ pend' = s /\ callAge' = 0 /\ landed' = FALSE
    BY <1>1, TickShape
  <2>2. s.state \in BoilerState
    BY DEF Step
  <2>3. lost' \in 0 .. 2
    BY <2>1 DEF TypeOK, AtLeast
  <2>4. /\ boiler' \in BoilerState /\ pc' \in {"down", "idle", "calling", "saving"}
        /\ pend' \in Step /\ callAge' \in 0 .. CallTimeout /\ landed' \in BOOLEAN
    <3>1. CASE s.call = "none"
      BY <2>1, <2>2, <3>1 DEF TypeOK, tick
    <3>2. CASE s.call # "none"
      BY <2>1, <3>2, ZeroAge
    <3>3. QED BY <3>1, <3>2
  <2>5. UNCHANGED <<entry, wired, disk, orphan, power, held, fired, calm, zone>>
    BY <1>1 DEF Tick, plant
  <2>6. QED BY <2>1, <2>3, <2>4, <2>5 DEF TypeOK, ZonesTypeOK
<1>2. CASE Land
  <2>1. (pend.call = "on") \in BOOLEAN
    OBVIOUS
  <2>2. power' \in BOOLEAN /\ held' \in 0 .. Dwell /\ lost' \in 0 .. 2
    BY <1>2, <2>1, SwitchTyped DEF Land
  <2>3. QED BY <1>2, <2>2 DEF Land, hub, TypeOK, ZonesTypeOK
<1>3. CASE CallReturns
  <2>1. AgedBoiler(pend.state, callAge) \in BoilerState
    <3>1. pend.state \in BoilerState /\ callAge \in Nat
      BY DwellFacts DEF TypeOK, Step
    <3>2. QED BY <3>1, AgedBoilerFacts
  <2>2. pend' \in Step /\ callAge' \in 0 .. CallTimeout /\ landed' \in BOOLEAN
        /\ pc' \in {"idle", "saving"}
    <3>1. CASE TickDone
      BY <3>1, NoStepTyped, ZeroAge DEF TickDone
    <3>2. CASE pc' = "saving" /\ UNCHANGED tick
      BY <3>2 DEF tick, TypeOK
    <3>3. QED BY <1>3, <3>1, <3>2 DEF CallReturns
  <2>3. fired' \in BOOLEAN
    BY <1>3 DEF CallReturns, TypeOK, Saves
  <2>4. QED BY <1>3, <2>1, <2>2, <2>3 DEF CallReturns, plant, TypeOK, ZonesTypeOK
<1>4. CASE CallFails
  BY <1>4, TickDoneTyped DEF CallFails, hub, plant, TypeOK, ZonesTypeOK
<1>5. CASE Save
  <2>1. pend.state \in BoilerState
    BY DEF TypeOK, Step
  <2>2. disk' \in Payload
    BY <1>5, <2>1, ToPayloadTyped DEF Save
  <2>3. lost' \in 0 .. 2
    BY <1>5 DEF Save, TypeOK
  <2>4. QED
    BY <1>5, <2>2, <2>3, TickDoneTyped
       DEF Save, hub, plant, TypeOK, ZonesTypeOK
<1>6. CASE SaveFails
  BY <1>6, TickDoneTyped DEF SaveFails, hub, plant, TypeOK, ZonesTypeOK
<1>7. QED BY <1>1, <1>2, <1>3, <1>4, <1>5, <1>6

\* The life of the entry.
LEMMA EntryTyped ==
  ASSUME TypeOK,
         \/ Setup \/ (\E reason \in UnloadReasons : Unload(reason)) \/ Retarget
         \/ Enable \/ Remove \/ Create \/ HaStop
  PROVE  TypeOK'
<1>1. CASE Setup
  BY <1>1, FreshTyped DEF Setup, plant, TypeOK, ZonesTypeOK
<1>2. ASSUME NEW reason \in UnloadReasons, Unload(reason)
      PROVE  TypeOK'
  <2>1. HandsOver(reason) \in BOOLEAN
    BY DEF HandsOver, TypeOK
  <2>2. power' \in BOOLEAN /\ held' \in 0 .. Dwell /\ lost' \in 0 .. 2
    BY <1>2, <2>1, MaybeOffTyped DEF Unload
  <2>3. orphan' \in Orphan
    BY <1>2, LeaveTickTyped DEF Unload
  <2>4. entry' \in {"disabled", "enabled"} /\ wired' \in BOOLEAN
    BY <1>2 DEF Unload, TypeOK
  <2>5. QED BY <1>2, <2>2, <2>3, <2>4, FreshTyped DEF Unload, TypeOK, ZonesTypeOK
<1>3. CASE Retarget
  <2>1. held' \in 0 .. Dwell /\ lost' \in 0 .. 2
    BY <1>3, DwellFacts DEF Retarget
  <2>2. QED BY <1>3, <2>1, FreshTyped DEF Retarget, TypeOK, ZonesTypeOK
<1>4. CASE Enable
  BY <1>4 DEF Enable, hub, tick, plant, TypeOK, ZonesTypeOK
<1>5. CASE Remove
  <2>1. PICK sent \in BOOLEAN : MaybeOff(sent)
    BY <1>5, RemoveShape
  <2>2. power' \in BOOLEAN /\ held' \in 0 .. Dwell /\ lost' \in 0 .. 2
    BY <2>1, MaybeOffTyped
  <2>3. orphan' \in Orphan
    BY <1>5, LeaveTickTyped DEF Remove, TypeOK
  <2>4. QED BY <1>5, <2>2, <2>3, FreshTyped DEF Remove, TypeOK, ZonesTypeOK
<1>6. CASE Create
  BY <1>6 DEF Create, hub, tick, plant, TypeOK, ZonesTypeOK
<1>7. CASE HaStop
  <2>1. disk' \in Payload
    <3>1. PICK j \in 0 .. WallBack :
            /\ disk.age - j >= -WallBack
            /\ disk' = [disk EXCEPT !.age = IF disk.kept THEN disk.age - j ELSE disk.age]
      BY <1>7 DEF HaStop
    <3>2. disk.age \in (-WallBack) .. Dwell
      BY DEF TypeOK, Payload
    <3>3. (IF disk.kept THEN disk.age - j ELSE disk.age) \in (-WallBack) .. Dwell
      BY <3>1, <3>2, DwellFacts
    <3>4. QED BY <3>1, <3>3 DEF TypeOK, Payload
  <2>2. ZonesTypeOK'
    BY <1>7, NoZonesTyped DEF HaStop, ZonesTypeOK
  <2>3. QED BY <1>7, <2>1, <2>2, FreshTyped, NoOrphanTyped DEF HaStop, plant, TypeOK
<1>8. QED BY <1>1, <1>2, <1>3, <1>4, <1>5, <1>6, <1>7

\* What an unloaded tick still does, and the surroundings.
LEMMA WorldTyped ==
  ASSUME TypeOK, OrphanLands \/ OrphanEnds \/ Elapse \/ Zone \/ Foreign \/ CalmDown
  PROVE  TypeOK'
<1>1. CASE OrphanLands
  <2>1. (orphan.step.call = "on") \in BOOLEAN
    OBVIOUS
  <2>2. power' \in BOOLEAN /\ held' \in 0 .. Dwell /\ lost' \in 0 .. 2
    BY <1>1, <2>1, SwitchTyped DEF OrphanLands
  <2>3. orphan' \in Orphan
    BY <1>1 DEF OrphanLands, TypeOK, Orphan
  <2>4. QED BY <1>1, <2>2, <2>3 DEF OrphanLands, hub, tick, TypeOK, ZonesTypeOK
<1>2. CASE OrphanEnds
  <2>1. orphan.step.state \in BoilerState
    BY DEF TypeOK, Orphan, Step
  <2>2. disk' \in Payload
    BY <1>2, <2>1, ToPayloadTyped DEF OrphanEnds, TypeOK
  <2>3. QED
    BY <1>2, <2>2, NoOrphanTyped DEF OrphanEnds, hub, tick, plant, TypeOK, ZonesTypeOK
<1>3. CASE Elapse
  <2>1. boiler' \in BoilerState
    BY <1>3, AgedBoilerFacts DEF Elapse, TypeOK
  <2>2. callAge' \in 0 .. CallTimeout
    BY <1>3, DwellFacts DEF Elapse, TypeOK
  <2>3. orphan' \in Orphan
    <3>1. CASE orphan = NoOrphan
      BY <1>3, <3>1 DEF Elapse, TypeOK
    <3>2. CASE orphan # NoOrphan
      <4>1. orphan.age + 1 \in 0 .. CallTimeout
        BY <1>3, <3>2, DwellFacts DEF Elapse, TypeOK, Orphan
      <4>2. orphan' = [orphan EXCEPT !.age = orphan.age + 1]
        BY <1>3, <3>2 DEF Elapse
      <4>3. QED BY <4>1, <4>2 DEF TypeOK, Orphan
    <3>3. QED BY <3>1, <3>2
  <2>4. disk' \in Payload
    BY <1>3, OlderTyped DEF Elapse, TypeOK
  <2>5. held' \in 0 .. Dwell
    BY <1>3, DwellFacts, AgedTyped DEF Elapse, TypeOK
  <2>6. ZonesTypeOK'
    BY <1>3, AgedZonesTyped DEF Elapse, TypeOK
  <2>7. QED BY <1>3, <2>1, <2>2, <2>3, <2>4, <2>5, <2>6 DEF Elapse, TypeOK
<1>4. CASE Zone
  <2>1. ZonesTypeOK'
    BY <1>4, ZoneStepTyped DEF Zone, TypeOK
  <2>2. QED BY <1>4, <2>1 DEF Zone, hub, tick, plant, TypeOK
<1>5. CASE Foreign
  <2>1. power' \in BOOLEAN /\ held' \in 0 .. Dwell /\ lost' \in 0 .. 2
    <3>1. (~power) \in BOOLEAN
      BY DEF TypeOK
    <3>2. QED BY <1>5, <3>1, SwitchTyped DEF Foreign
  <2>2. QED BY <1>5, <2>1 DEF Foreign, hub, tick, TypeOK, ZonesTypeOK
<1>6. CASE CalmDown
  BY <1>6 DEF CalmDown, hub, tick, plant, TypeOK, ZonesTypeOK
<1>7. QED BY <1>1, <1>2, <1>3, <1>4, <1>5, <1>6

LEMMA StutterTyped ==
  ASSUME TypeOK, UNCHANGED vars
  PROVE  TypeOK'
BY DEF TypeOK, vars, hub, tick, plant, ZonesTypeOK

(* Whatever goes wrong -- foreign switches, lost and late calls, unloads in  *)
(* the middle of a tick, stores that raise, a wall clock that jumps back --  *)
(* the hub's state stays well typed: no age leaves its range, and no step of *)
(* _actuate, _restore_state or an orphaned tick writes a malformed payload.  *)
THEOREM TypeCorrect == Spec => []TypeOK
<1>1. Init => TypeOK
  BY InitTyped
<1>2. TypeOK /\ [Next]_vars => TypeOK'
  BY TickTyped, EntryTyped, WorldTyped, StutterTyped DEF Next
<1>3. QED BY <1>1, <1>2, PTL DEF Spec
-----------------------------------------------------------------------------
(* The belief.                                                             *)

LEMMA InitSound == Init => IInv
<1> SUFFICES ASSUME Init PROVE IInv
  OBVIOUS
<1>1. TypeOK
  BY InitTyped
<1>2. Control /\ BeliefSound /\ BeliefCurrent /\ StoreSound /\ CallSound /\ SaveSound
  BY DEF Init, NoPayload, Control, BeliefSound, BeliefCurrent, StoreSound, CallSound, SaveSound
<1>3. QED BY <1>1, <1>2 DEF IInv

\* A switch the store does not learn of is counted, so the store stays sound.
LEMMA SwitchStore ==
  ASSUME TypeOK, StoreSound, NEW p \in BOOLEAN, Switch(p), disk' = disk
  PROVE  StoreSound'
<1>1. /\ power \in BOOLEAN /\ held \in Nat /\ lost \in 0 .. 2
      /\ disk.on \in BOOLEAN /\ disk.kept \in BOOLEAN
  BY DwellFacts DEF TypeOK, Payload
<1>2. CASE p = power
  BY <1>2 DEF Switch, StoreSound, TrueStamp
<1>3. CASE p # power
  <2>1. power' = p /\ lost' = AtMost(lost + 1, 2)
    BY <1>3 DEF Switch
  <2>2. lost' >= 1 /\ (lost >= 1 => lost' = 2)
    BY <1>1, <2>1 DEF AtMost
  <2>3. disk.kept /\ disk.on = power' => lost' = 2
    BY <1>1, <1>3, <2>1, <2>2 DEF StoreSound
  <2>4. ~disk.kept => lost' = 2
    BY <1>1, <2>2 DEF StoreSound
  <2>5. QED BY <2>2, <2>3, <2>4 DEF StoreSound
<1>4. QED BY <1>2, <1>3

\* A new instance has restored nothing: only the store carries a belief.
LEMMA FreshSound ==
  ASSUME FreshHub, pc' = "down" \/ (pc' = "idle" /\ entry' = "enabled"), StoreSound',
         orphan' = NoOrphan, TypeOK'
  PROVE  IInv'
BY DEF FreshHub, IInv, Control, BeliefSound, BeliefCurrent, CallSound, SaveSound

\* The belief a tick starts from is sound, and true if the tick has read the
\* boiler; a load that fails costs the store one switch of credit.
LEMMA BelievedSound ==
  ASSUME IInv, pc = "idle",
         NEW loadOk \in BOOLEAN, NEW reading \in {CallFor(power), "none"},
         loadOk \/ ~restored,
         NEW b \in BoilerState, b = Believed(loadOk, reading),
         NEW l, l = IF loadOk THEN lost ELSE AtLeast(lost, 1)
  PROVE  /\ b.on = power => TrueStamp(b.age) \/ l = 2 \/ (~power /\ l = 1)
         /\ b.on /\ ~power => l >= 1
         /\ reconciled \/ reading # "none" => b.on = power
<1>1. /\ power \in BOOLEAN /\ held \in Nat /\ lost \in 0 .. 2 /\ restored \in BOOLEAN
      /\ boiler \in BoilerState /\ disk \in Payload /\ CallTimeout \in Nat
      /\ disk.on \in BOOLEAN /\ disk.kept \in BOOLEAN /\ disk.age \in Int
      /\ DefaultBoiler \in BoilerState
  BY DwellFacts, DefaultTyped DEF IInv, TypeOK, Payload
<1> DEFINE ld == Loaded(loadOk)
<1>2. l \in 0 .. 2 /\ l >= lost /\ (~loadOk => l >= 1)
  BY <1>1 DEF AtLeast
<1>3. ld \in BoilerState
  BY LoadedTyped DEF IInv
\* What the tick loads, before it reads the boiler.
<1>4. /\ ld.on = power => TrueStamp(ld.age) \/ l = 2 \/ (~power /\ l = 1)
      /\ ld.on /\ ~power => l >= 1
      /\ reconciled => ld.on = power
  <2>1. CASE restored
    <3>1. ld = boiler /\ l = lost
      BY <2>1 DEF Loaded
    <3>2. QED
      BY <2>1, <3>1, <1>1 DEF IInv, BeliefSound, BeliefCurrent
  <2>2. CASE ~restored /\ loadOk
    <3>1. ld = FromPayload(disk) /\ l = lost
      BY <2>2 DEF Loaded
    <3>2. ~reconciled
      BY <2>2 DEF IInv, Control
    <3>3. CASE disk.kept
      <4>1. ld.on = disk.on /\ ld.age = AtLeast(disk.age, 0)
        BY <1>1, <3>1, <3>3, FromPayloadFacts
      <4>2. TrueStamp(disk.age) => TrueStamp(ld.age)
        BY <1>1, <4>1 DEF TrueStamp, AtLeast
      <4>3. QED BY <1>1, <3>1, <3>2, <3>3, <4>1, <4>2 DEF IInv, StoreSound
    <3>4. CASE ~disk.kept
      BY <1>1, <3>1, <3>2, <3>4 DEF IInv, StoreSound
    <3>5. QED BY <1>1, <3>3, <3>4
  <2>3. CASE ~restored /\ ~loadOk
    <3>1. ld.on = FALSE
      BY <2>3 DEF Loaded, DefaultBoiler
    <3>2. ~reconciled
      BY <2>3 DEF IInv, Control
    <3>3. QED BY <1>1, <1>2, <2>3, <3>1, <3>2
  <2>4. QED BY <1>1, <2>1, <2>2, <2>3
<1>5. CASE reconciled \/ reading = "none"
  BY <1>4, <1>5 DEF Believed
<1>6. CASE ~reconciled /\ reading # "none"
  <2>1. reading \in {"on", "off"} /\ ((reading = "on") = power) /\ reading = CallFor(power)
    BY <1>1, <1>6 DEF CallFor
  <2>2. b = Reconcile(ld, reading)
    BY <1>6 DEF Believed
  <2>3. /\ b.on <=> reading = "on"
        /\ b.age = (IF (reading = "on") = ld.on THEN ld.age
                    ELSE IF reading = "on" THEN 0 ELSE Dwell)
    BY <1>3, <2>1, <2>2, ReconcileFacts
  <2> HIDE DEF ld
  <2>4. b.on \in BOOLEAN /\ ld.on \in BOOLEAN
    BY <1>3 DEF BoilerState
  <2>5. b.on = power
    BY <1>1, <2>1, <2>3, <2>4
  <2>6. CASE ld.on = power
    <3>1. b.age = ld.age
      BY <2>1, <2>3, <2>6
    <3>2. QED BY <1>4, <2>5, <2>6, <3>1
  <2>7. CASE ld.on # power /\ power
    <3>1. b.age = 0
      BY <1>1, <2>1, <2>3, <2>4, <2>7
    <3>2. TrueStamp(b.age)
      BY <1>1, <3>1 DEF TrueStamp
    <3>3. QED BY <2>5, <2>7, <3>2
  <2>8. CASE ld.on # power /\ ~power
    <3>1. l >= 1
      BY <1>1, <1>4, <2>4, <2>8
    <3>2. QED BY <1>2, <2>5, <2>8, <3>1
  <2>9. QED BY <1>1, <2>6, <2>7, <2>8
<1>7. QED BY <1>5, <1>6

LEMMA LessFacts ==
  ASSUME NEW m \in Nat, NEW age \in Nat, NEW h \in Nat, age >= m, age <= h + CallTimeout
  PROVE  h >= Less(m, CallTimeout)
BY DwellFacts DEF Less

\* A tick calls only what the dwells allow.
LEMMA TickSound ==
  ASSUME IInv, Tick
  PROVE  IInv'
<1>1. PICK loadOk \in BOOLEAN, reading \in {CallFor(power), "none"}, rec \in BOOLEAN,
           b \in BoilerState, s \in Step :
        /\ loadOk \/ ~restored
        /\ rec <=> reconciled \/ reading # "none"
        /\ b = Believed(loadOk, reading)
        /\ s = StepBoiler(b, Demand, rec)
        /\ pc = "idle" /\ wired
        /\ restored' = TRUE /\ reconciled' = rec
        /\ acted' \in BOOLEAN
        /\ lost' = IF loadOk THEN lost ELSE AtLeast(lost, 1)
        /\ IF s.call = "none"
           THEN boiler' = s.state /\ UNCHANGED <<pc, tick>>
           ELSE /\ boiler' = b /\ pc' = "calling"
                /\ pend' = s /\ callAge' = 0 /\ landed' = FALSE
  BY TickShape DEF IInv
<1>2. UNCHANGED <<entry, wired, disk, orphan, power, held>>
  BY DEF Tick, plant
<1>3. TypeOK'
  BY TickTyped DEF IInv
<1>4. /\ power \in BOOLEAN /\ held \in Nat /\ lost \in 0 .. 2 /\ lost' \in 0 .. 2
      /\ CallTimeout \in Nat /\ MinOn \in Nat /\ MinOff \in Nat /\ Dwell \in Nat
      /\ b.on \in BOOLEAN /\ b.age \in 0 .. Dwell
      /\ lost' >= lost /\ (lost >= 1 => lost' = lost)
  BY <1>1, <1>3, DwellFacts DEF IInv, TypeOK, BoilerState, AtLeast
<1>5. /\ b.on = power => TrueStamp(b.age) \/ lost' = 2 \/ (~power /\ lost' = 1)
      /\ b.on /\ ~power => lost' >= 1
      /\ rec => b.on = power
  BY <1>1, BelievedSound
<1>6. /\ s.call = "none" => s.state.on = b.on /\ s.state.age = b.age
      /\ s.call # "none" => (s.state.on <=> s.call = "on")
      /\ s.state.on # b.on =>
           s.state.age = 0 /\ (b.on => b.age >= MinOn) /\ (~b.on => b.age >= MinOff)
      /\ s.state.on = b.on => s.state.age = b.age
      /\ s.call # "none" /\ s.state.on = b.on => rec
      /\ s.state.on \in BOOLEAN
  BY <1>1, StepFacts, DemandIsBoolean DEF Step, BoilerState
<1>7. boiler'.on = b.on /\ boiler'.age = b.age
  BY <1>1, <1>6
<1>8. BeliefSound' /\ BeliefCurrent'
  BY <1>1, <1>2, <1>5, <1>7 DEF BeliefSound, BeliefCurrent, TrueStamp
<1>9. StoreSound'
  BY <1>2, <1>4 DEF IInv, StoreSound, TrueStamp
<1>10. CASE s.call = "none"
  <2>1. pc' = "idle" /\ landed' = landed
    BY <1>1, <1>10 DEF tick
  <2>2. Control'
    BY <1>1, <1>2, <2>1 DEF IInv, Control
  <2>3. QED BY <1>3, <1>8, <1>9, <2>1, <2>2 DEF IInv, CallSound, SaveSound
<1>11. CASE s.call # "none"
  <2>1. boiler' = b /\ pc' = "calling" /\ pend' = s /\ callAge' = 0 /\ landed' = FALSE
    BY <1>1, <1>11
  <2>2. Control'
    BY <1>1, <1>2, <1>11, <2>1 DEF IInv, Control
  <2>3. ~power /\ s.state.on => held >= Less(MinOff, CallTimeout) \/ lost' >= 1
    <3>1. ~power /\ s.state.on => ~b.on
      BY <1>4, <1>5, <1>6, <1>11
    <3>2. ASSUME ~power, s.state.on
          PROVE  b.age >= MinOff /\ (TrueStamp(b.age) \/ lost' >= 1)
      <4>1. ~b.on /\ s.state.on # b.on /\ b.on = power
        BY <3>1, <3>2, <1>4
      <4>2. b.age >= MinOff
        BY <4>1, <1>6
      <4>3. TrueStamp(b.age) \/ lost' = 2 \/ lost' = 1
        BY <4>1, <1>5
      <4>4. QED BY <4>2, <4>3
    <3>3. b.age >= MinOff /\ TrueStamp(b.age) => held >= Less(MinOff, CallTimeout)
      BY <1>4, LessFacts DEF TrueStamp
    <3>4. QED BY <3>2, <3>3
  <2>4. power /\ ~s.state.on => held >= Less(MinOn, CallTimeout) \/ lost' = 2
    <3>1. power /\ ~s.state.on => b.on
      BY <1>4, <1>5, <1>6, <1>11
    <3>2. power /\ ~s.state.on => b.age >= MinOn /\ (TrueStamp(b.age) \/ lost' = 2)
      BY <3>1, <1>4, <1>5, <1>6
    <3>3. b.age >= MinOn /\ TrueStamp(b.age) => held >= Less(MinOn, CallTimeout)
      BY <1>4, LessFacts DEF TrueStamp
    <3>4. QED BY <3>2, <3>3
  <2>5. b.age = Aged(b.age, 0, Dwell)
    BY <1>4 DEF Aged, AtMost
  <2>6. CallSound'
    BY <1>1, <1>2, <1>6, <1>11, <2>1, <2>3, <2>4, <2>5 DEF CallSound
  <2>7. QED BY <1>3, <1>8, <1>9, <2>1, <2>2, <2>6 DEF IInv, SaveSound
<1>12. QED BY <1>10, <1>11

\* When the boiler obeys, only a call that flips it can change it.
LEMMA LandSound ==
  ASSUME IInv, Land
  PROVE  IInv'
<1>1. /\ pc = "calling" /\ ~landed /\ landed' = TRUE
      /\ UNCHANGED <<entry, wired, pc, boiler, restored, reconciled, pend, callAge, disk,
                     orphan>>
  BY DEF Land, hub
<1>2. TypeOK'
  BY TickTyped DEF IInv
<1>3. /\ power \in BOOLEAN /\ held \in Nat /\ lost \in 0 .. 2 /\ CallTimeout \in Nat
      /\ boiler.on \in BOOLEAN /\ pend.state.on \in BOOLEAN
  BY DwellFacts DEF IInv, TypeOK, BoilerState, Step
<1>4. Switch(pend.state.on) /\ power' = pend.state.on
  <2>1. pend.state.on = (pend.call = "on")
    BY <1>1, <1>3 DEF IInv, CallSound
  <2>2. Switch(pend.state.on)
    BY <2>1 DEF Land
  <2>3. QED BY <2>2 DEF Switch
<1>5. Control'
  BY <1>1 DEF IInv, Control
<1>6. StoreSound'
  BY <1>1, <1>3, <1>4, SwitchStore DEF IInv
<1>7. BeliefSound' /\ BeliefCurrent' /\ CallSound'
  <2>1. CASE power' = power
    <3>1. held' = held /\ lost' = lost
      BY <1>4, <2>1 DEF Switch
    <3>2. QED
      BY <1>1, <1>4, <2>1, <3>1
         DEF IInv, BeliefSound, BeliefCurrent, CallSound, TrueStamp
  <2>2. CASE power' # power
    <3>1. lost' = AtMost(lost + 1, 2)
      BY <1>4, <2>2 DEF Switch
    <3>2. lost' >= 1
      BY <1>3, <3>1 DEF AtMost
    <3>3. boiler.on # power'
      <4>1. pend.state.on = boiler.on => boiler.on = power
        BY <1>1 DEF IInv, CallSound, BeliefCurrent
      <4>2. QED BY <1>3, <1>4, <2>2, <4>1
    <3>4. QED
      BY <1>1, <1>4, <3>2, <3>3 DEF IInv, BeliefSound, BeliefCurrent, CallSound
  <2>3. QED BY <2>1, <2>2
<1>8. QED BY <1>1, <1>2, <1>5, <1>6, <1>7 DEF IInv, SaveSound

\* An acknowledged call makes the belief true and its stamp the call's.
LEMMA ReturnSound ==
  ASSUME IInv, CallReturns
  PROVE  IInv'
<1>1. /\ pc = "calling" /\ landed
      /\ boiler' = AgedBoiler(pend.state, callAge)
      /\ UNCHANGED <<entry, wired, restored, reconciled, disk, orphan, power, held, lost>>
  BY DEF CallReturns, plant
<1>2. \/ pc' = "saving" /\ UNCHANGED <<pend, callAge, landed>>
      \/ pc' = "idle" /\ landed' = FALSE
  BY DEF CallReturns, TickDone, tick
<1>3. TypeOK'
  BY TickTyped DEF IInv
<1>4. /\ pend.state \in BoilerState /\ callAge \in 0 .. CallTimeout /\ callAge \in Nat
      /\ pend.state.age \in Nat /\ held \in Nat /\ Dwell \in Nat /\ CallTimeout \in Nat
      /\ boiler.on \in BOOLEAN /\ pend.state.on \in BOOLEAN /\ power \in BOOLEAN
  BY DwellFacts DEF IInv, TypeOK, Step, BoilerState
<1>5. /\ boiler'.on = pend.state.on /\ power = pend.state.on
      /\ boiler'.age = Aged(pend.state.age, callAge, Dwell)
  BY <1>1, <1>4, AgedBoilerFacts DEF IInv, CallSound
<1>6. Control'
  BY <1>1, <1>2 DEF IInv, Control
<1>7. BeliefCurrent'
  BY <1>1, <1>2, <1>5 DEF BeliefCurrent
<1>8. BeliefSound'
  <2>1. CASE pend.state.on # boiler.on
    <3>1. pend.state.age = 0
      BY <1>1, <2>1 DEF IInv, CallSound
    <3>2. TrueStamp(boiler'.age)
      BY <1>4, <1>5, <3>1 DEF Aged, AtMost, TrueStamp
    <3>3. QED BY <1>1, <1>5, <3>2 DEF BeliefSound, TrueStamp
  <2>2. CASE pend.state.on = boiler.on
    <3>1. boiler'.age = boiler.age
      BY <1>1, <1>5, <2>2 DEF IInv, CallSound
    <3>2. QED BY <1>1, <1>5, <2>2, <3>1 DEF IInv, BeliefSound, TrueStamp
  <2>3. QED BY <2>1, <2>2
<1>9. StoreSound'
  BY <1>1 DEF IInv, StoreSound, TrueStamp
<1>10. CallSound' /\ SaveSound'
  BY <1>2, <1>5 DEF CallSound, SaveSound
<1>11. QED BY <1>3, <1>6, <1>7, <1>8, <1>9, <1>10 DEF IInv

\* A failed call has had no effect; a failed save changes only the tick.
LEMMA FailSound ==
  ASSUME SoleActor, IInv, CallFails \/ SaveFails
  PROVE  IInv'
<1>1. /\ pc' = "idle" /\ landed' = FALSE
      /\ UNCHANGED <<entry, wired, boiler, restored, reconciled, disk, orphan, power, held,
                     lost>>
  BY DEF CallFails, SaveFails, TickDone, hub, plant
<1>2. pc = "saving" \/ (pc = "calling" /\ ~landed)
  BY DEF CallFails, SaveFails, Fault, SoleActor
<1>3. TypeOK'
  BY TickTyped DEF IInv
<1>4. Control' /\ CallSound' /\ SaveSound'
  BY <1>1, <1>2 DEF IInv, Control, CallSound, SaveSound
<1>5. BeliefSound' /\ BeliefCurrent' /\ StoreSound'
  BY <1>1, <1>2 DEF IInv, BeliefSound, BeliefCurrent, StoreSound, TrueStamp
<1>6. QED BY <1>3, <1>4, <1>5 DEF IInv

\* A save of a flip brings the store up to date; any other save keeps what the
\* store was owed.
LEMMA SaveKeepsSound ==
  ASSUME IInv, Save
  PROVE  IInv'
<1>1. /\ pc = "saving" /\ pc' = "idle" /\ landed' = FALSE
      /\ disk' = ToPayload(pend.state)
      /\ lost' = IF pend.state.age = 0 THEN 0 ELSE lost
      /\ UNCHANGED <<entry, wired, boiler, restored, reconciled, orphan, power, held>>
  BY DEF Save, TickDone, hub, plant
<1>2. TypeOK'
  BY TickTyped DEF IInv
<1>3. /\ callAge \in 0 .. CallTimeout /\ held \in Nat /\ Dwell \in Nat /\ CallTimeout \in Nat
      /\ pend.state.age \in 0 .. Dwell /\ boiler.on \in BOOLEAN /\ power \in BOOLEAN
  BY DwellFacts DEF IInv, TypeOK, Step, BoilerState
<1>4. /\ boiler.on = power /\ pend.state.on = power /\ restored
      /\ boiler.age = Aged(pend.state.age, callAge, Dwell)
  BY <1>1 DEF IInv, SaveSound, BeliefCurrent, Control
<1>5. disk'.kept /\ disk'.on = power /\ disk'.age = pend.state.age
  BY <1>1, <1>4 DEF ToPayload
<1>6. Control' /\ CallSound' /\ SaveSound' /\ BeliefCurrent'
  BY <1>1, <1>4 DEF IInv, Control, CallSound, SaveSound, BeliefCurrent
<1>7. BeliefSound' /\ StoreSound'
  <2>1. CASE pend.state.age = 0
    <3>1. TrueStamp(boiler.age) /\ TrueStamp(pend.state.age)
      BY <1>3, <1>4, <2>1 DEF TrueStamp, Aged, AtMost
    <3>2. QED BY <1>1, <1>4, <1>5, <3>1 DEF BeliefSound, StoreSound, TrueStamp
  <2>2. CASE pend.state.age # 0
    <3>1. lost' = lost
      BY <1>1, <2>2
    <3>2. TrueStamp(boiler.age) => TrueStamp(pend.state.age)
      BY <1>3, <1>4 DEF TrueStamp, Aged, AtMost
    <3>3. TrueStamp(boiler.age) \/ lost = 2 \/ (~power /\ lost = 1)
      BY <1>4 DEF IInv, BeliefSound
    <3>4. QED BY <1>1, <1>4, <1>5, <3>1, <3>2, <3>3 DEF BeliefSound, StoreSound, TrueStamp
  <2>3. QED BY <2>1, <2>2
<1>8. QED BY <1>2, <1>6, <1>7 DEF IInv

\* A tick that waits is not overtaken, so an unload leaves no orphan.
LEMMA NothingLeft ==
  ASSUME SoleActor, LeaveTick
  PROVE  pc = "idle" /\ orphan' = orphan
BY DEF SoleActor, LeaveTick, Fault

LEMMA MaybeOffStore ==
  ASSUME TypeOK, StoreSound, NEW sent \in BOOLEAN, MaybeOff(sent), disk' = disk
  PROVE  StoreSound'
<1>1. CASE Switch(FALSE)
  BY <1>1, SwitchStore
<1>2. CASE UNCHANGED <<plant, lost>>
  BY <1>2 DEF plant, StoreSound, TrueStamp
<1>3. QED BY <1>1, <1>2 DEF MaybeOff

\* Loading, unloading, reconfiguring, removing, restarting.
LEMMA EntrySound ==
  ASSUME SoleActor, IInv,
         \/ Setup \/ (\E reason \in UnloadReasons : Unload(reason)) \/ Retarget
         \/ Enable \/ Remove \/ Create \/ HaStop
  PROVE  IInv'
<1>1. TypeOK'
  BY EntryTyped DEF IInv
<1>2. orphan = NoOrphan
  BY DEF IInv, Control
<1>3. CASE Setup
  <2>1. StoreSound'
    BY <1>3 DEF Setup, plant, IInv, StoreSound, TrueStamp
  <2>2. QED BY <1>1, <1>2, <1>3, <2>1, FreshSound DEF Setup
<1>4. ASSUME NEW reason \in UnloadReasons, Unload(reason)
      PROVE  IInv'
  <2>1. HandsOver(reason) \in BOOLEAN
    BY DEF HandsOver, IInv, TypeOK
  <2>2. StoreSound'
    BY <1>4, <2>1, MaybeOffStore DEF Unload, IInv
  <2>3. FreshHub /\ pc' = "down" /\ orphan' = NoOrphan
    BY <1>2, <1>4, NothingLeft DEF Unload
  <2>4. QED BY <1>1, <2>2, <2>3, FreshSound
<1>5. CASE Retarget
  <2>1. StoreSound'
    BY <1>5 DEF Retarget, StoreSound
  <2>2. QED BY <1>1, <1>5, <2>1, FreshSound DEF Retarget
<1>6. CASE Enable
  BY <1>1, <1>6
     DEF Enable, hub, tick, plant, IInv, Control, BeliefSound, BeliefCurrent, StoreSound,
         CallSound, SaveSound, TrueStamp
<1>7. CASE Remove
  <2>1. PICK sent \in BOOLEAN : MaybeOff(sent)
    BY <1>7, RemoveShape DEF IInv
  <2>2. StoreSound'
    BY <1>7, <2>1, MaybeOffStore DEF Remove, IInv
  <2>3. FreshHub /\ pc' = "down" /\ orphan' = NoOrphan
    BY <1>2, <1>7, NothingLeft DEF Remove
  <2>4. QED BY <1>1, <2>2, <2>3, FreshSound
<1>8. CASE Create
  <2>1. pc = "down"
    BY <1>8 DEF Create, IInv, Control
  <2>2. QED
    BY <1>1, <1>8, <2>1
       DEF Create, hub, tick, plant, IInv, Control, BeliefSound, BeliefCurrent, StoreSound,
           CallSound, SaveSound, TrueStamp
<1>9. CASE HaStop
  <2>1. PICK j \in 0 .. WallBack :
          disk' = [disk EXCEPT !.age = IF disk.kept THEN disk.age - j ELSE disk.age]
    BY <1>9 DEF HaStop
  <2>2. /\ disk.age \in Int /\ j \in Nat /\ held \in Nat /\ CallTimeout \in Nat
        /\ disk \in Payload
    BY DwellFacts DEF IInv, TypeOK, Payload
  <2>3. disk'.kept = disk.kept /\ disk'.on = disk.on /\ disk'.age <= disk.age
        /\ disk'.age \in Int
    BY <2>1, <2>2 DEF Payload
  <2>4. UNCHANGED <<power, held, lost>>
    BY <1>9 DEF HaStop, plant
  <2>5. TrueStamp(disk.age) => TrueStamp(disk.age)'
    BY <2>2, <2>3, <2>4 DEF TrueStamp
  <2>6. StoreSound'
    BY <2>3, <2>4, <2>5 DEF IInv, StoreSound
  <2>7. QED BY <1>1, <1>9, <2>6, FreshSound DEF HaStop
<1>10. QED BY <1>3, <1>4, <1>5, <1>6, <1>7, <1>8, <1>9

\* Two ages that grow together keep their distance, saturation included.
LEMMA AgesKeepStep ==
  ASSUME NEW a \in Int, NEW h \in 0 .. Dwell, a <= h + CallTimeout
  PROVE  /\ a <= Aged(h, 1, Dwell) + CallTimeout
         /\ Aged(a, 1, Dwell) <= Aged(h, 1, Dwell) + CallTimeout
BY DwellFacts DEF Aged, AtMost

LEMMA ElapseSound ==
  ASSUME IInv, Elapse
  PROVE  IInv'
<1>1. /\ pc # "saving"
      /\ boiler' = IF pc = "down" THEN boiler ELSE AgedBoiler(boiler, 1)
      /\ callAge' = IF pc = "calling" THEN callAge + 1 ELSE callAge
      /\ orphan' = IF orphan = NoOrphan THEN orphan ELSE [orphan EXCEPT !.age = @ + 1]
      /\ disk' = Older(disk) /\ held' = Aged(held, 1, Dwell)
      /\ UNCHANGED <<entry, wired, pc, restored, reconciled, pend, landed, power, lost>>
  BY DEF Elapse
<1>2. TypeOK'
  BY WorldTyped DEF IInv
<1>3. /\ boiler \in BoilerState /\ boiler.age \in Int /\ disk \in Payload /\ disk.age \in Int
      /\ held \in 0 .. Dwell /\ callAge \in Nat /\ Dwell \in Nat /\ pend.state.age \in Nat
      /\ MinOn \in Nat /\ MinOff \in Nat
  BY DwellFacts DEF IInv, TypeOK, Payload, BoilerState, Step
<1>4. /\ boiler'.on = boiler.on
      /\ boiler'.age = boiler.age \/ boiler'.age = Aged(boiler.age, 1, Dwell)
      /\ pc # "down" => boiler'.age = Aged(boiler.age, 1, Dwell)
  BY <1>1, <1>3, AgedBoilerFacts
<1>5. TrueStamp(boiler.age) => TrueStamp(boiler.age)'
  BY <1>1, <1>3, <1>4, AgesKeepStep DEF TrueStamp
<1>6. /\ disk'.kept = disk.kept /\ disk'.on = disk.on
      /\ disk'.age = disk.age \/ disk'.age = Aged(disk.age, 1, Dwell)
  BY <1>1, <1>3, OlderTyped
<1>7. TrueStamp(disk.age) => TrueStamp(disk.age)'
  BY <1>1, <1>3, <1>6, AgesKeepStep DEF TrueStamp
<1>8. held' >= held
  BY <1>1, <1>3 DEF Aged, AtMost
<1>9. Control'
  BY <1>1 DEF IInv, Control
<1>10. BeliefSound' /\ BeliefCurrent' /\ StoreSound'
  BY <1>1, <1>4, <1>5, <1>6, <1>7 DEF IInv, BeliefSound, BeliefCurrent, StoreSound
<1>11. CallSound'
  <2>1. SUFFICES ASSUME pc = "calling" PROVE CallSound'
    BY <1>1 DEF CallSound
  <2>2. \A m \in Nat : held >= Less(m, CallTimeout) => held' >= Less(m, CallTimeout)
    <3>1. \A m \in Nat : Less(m, CallTimeout) \in Nat
      BY DwellFacts DEF Less
    <3>2. held' \in Nat /\ held \in Nat
      BY <1>3, <1>2, DwellFacts DEF TypeOK
    <3>3. QED BY <3>1, <3>2, <1>8
  <2>3. Aged(Aged(pend.state.age, callAge, Dwell), 1, Dwell)
          = Aged(pend.state.age, callAge + 1, Dwell)
    BY <1>3 DEF Aged, AtMost
  <2>4. boiler.age = Aged(pend.state.age, callAge, Dwell)
          => boiler'.age = Aged(pend.state.age, callAge', Dwell)
    BY <1>1, <1>4, <2>1, <2>3
  <2>5. held >= Less(MinOff, CallTimeout) => held' >= Less(MinOff, CallTimeout)
    BY <1>3, <2>2
  <2>6. held >= Less(MinOn, CallTimeout) => held' >= Less(MinOn, CallTimeout)
    BY <1>3, <2>2
  <2>7. QED BY <1>1, <1>4, <2>1, <2>4, <2>5, <2>6 DEF IInv, CallSound
<1>12. SaveSound'
  BY <1>1 DEF SaveSound
<1>13. QED BY <1>2, <1>9, <1>10, <1>11, <1>12 DEF IInv

\* Nobody else switches the boiler; zones and calm do not touch the hub.
LEMMA WorldSound ==
  ASSUME SoleActor, IInv, OrphanLands \/ OrphanEnds \/ Zone \/ Foreign \/ CalmDown
  PROVE  IInv'
<1>1. ~OrphanLands /\ ~OrphanEnds
  BY DEF IInv, Control, NoOrphan, NoStep, OrphanLands, OrphanEnds
<1>2. ~Foreign
  BY DEF Foreign, Fault, SoleActor
<1>3. TypeOK'
  BY WorldTyped DEF IInv
<1>4. QED
  BY <1>1, <1>2, <1>3
     DEF Zone, CalmDown, hub, tick, plant, IInv, Control, BeliefSound, BeliefCurrent,
         StoreSound, CallSound, SaveSound, TrueStamp

LEMMA StutterSound ==
  ASSUME IInv, UNCHANGED vars
  PROVE  IInv'
<1>1. TypeOK'
  BY StutterTyped DEF IInv
<1>2. QED
  BY <1>1
     DEF vars, hub, tick, plant, IInv, Control, BeliefSound, BeliefCurrent, StoreSound,
         CallSound, SaveSound, TrueStamp

LEMMA StepSound ==
  ASSUME SoleActor, IInv, [Next]_vars
  PROVE  IInv'
BY TickSound, LandSound, ReturnSound, FailSound, SaveKeepsSound, EntrySound, ElapseSound,
   WorldSound, StutterSound DEF Next

LEMMA AlwaysSound ==
  ASSUME SoleActor
  PROVE  Spec => []IInv
<1>1. Init => IInv
  BY InitSound
<1>2. IInv /\ [Next]_vars => IInv'
  BY StepSound
<1>3. QED BY <1>1, <1>2, PTL DEF Spec

(* As long as nobody else switches the boiler and no unload overtakes a     *)
(* tick, a resting hub that has once read its boiler believes what is true: *)
(* lost calls, failing saves and loads, reloads, restarts and a wall clock  *)
(* that jumps back cannot drive _boiler.on and the boiler apart.            *)
THEOREM BeliefHolds ==
  ASSUME SoleActor
  PROVE  Spec => []BeliefIsTrue
<1>1. IInv => BeliefIsTrue
  BY DEF IInv, BeliefCurrent, BeliefIsTrue
<1>2. QED BY <1>1, AlwaysSound, PTL
-----------------------------------------------------------------------------
(* The promise.                                                            *)

LEMMA ChargeType == InCharge \in BOOLEAN
BY DEF InCharge

\* A switch of the boiler while the hub is letting go, if it is one at all.
LEMMA OffIsLettingGo ==
  ASSUME TypeOK, NEW sent \in BOOLEAN, MaybeOff(sent), ~InCharge'
  PROVE  Promise!LetGo
<1>1. InCharge' = FALSE
  BY DEF InCharge
<1>2. CASE Switch(FALSE) /\ power
  <2>1. power' = FALSE /\ held' = 0 /\ lost' = AtMost(lost + 1, 2)
    BY <1>2 DEF Switch
  <2>2. lost' = Promise!More(lost)
    BY <2>1 DEF TypeOK, Promise!More, AtMost
  <2>3. QED BY <1>1, <1>2, <2>1, <2>2 DEF Promise!LetGo
<1>3. CASE Switch(FALSE) /\ ~power
  <2>1. UNCHANGED <<power, held, lost>>
    BY <1>3 DEF Switch, TypeOK
  <2>2. QED BY <1>1, <2>1 DEF Promise!LetGo
<1>4. CASE UNCHANGED <<plant, lost>>
  BY <1>1, <1>4 DEF plant, Promise!LetGo
<1>5. QED BY <1>2, <1>3, <1>4 DEF MaybeOff

LEMMA LandKeeps ==
  ASSUME IInv, Land
  PROVE  [Promise!PNext]_(Promise!pvars)
<1>1. pc = "calling" /\ ~landed /\ UNCHANGED <<entry, wired, pc>>
  BY DEF Land
<1>2. InCharge /\ InCharge'
  BY <1>1 DEF IInv, Control, InCharge
<1>3. power \in BOOLEAN /\ lost \in 0 .. 2 /\ pend.state.on \in BOOLEAN
  BY DEF IInv, TypeOK, Step, BoilerState
<1>4. Switch(pend.state.on)
  <2>1. pend.state.on = (pend.call = "on")
    BY <1>1, <1>3 DEF IInv, CallSound
  <2>2. QED BY <2>1 DEF Land
<1>5. CASE pend.state.on = power
  <2>1. UNCHANGED <<power, held, lost, InCharge>>
    BY <1>2, <1>4, <1>5, ChargeType DEF Switch, InCharge
  <2>2. QED BY <2>1 DEF Promise!pvars
<1>6. CASE pend.state.on # power
  <2>1. power' = pend.state.on /\ held' = 0 /\ lost' = AtMost(lost + 1, 2)
    BY <1>4, <1>6 DEF Switch
  <2>2. lost' = Promise!More(lost)
    BY <1>3, <2>1 DEF Promise!More, AtMost
  <2>3. InCharge' = InCharge
    BY <1>2 DEF InCharge
  <2>4. CASE pend.state.on
    <3>1. ~power /\ power' = TRUE
      BY <1>3, <1>6, <2>1, <2>4
    <3>2. held >= Less(MinOff, CallTimeout) \/ lost >= 1
      BY <1>1, <2>4, <3>1 DEF IInv, CallSound
    <3>3. Promise!SwitchOn
      BY <1>2, <2>1, <2>2, <2>3, <3>1, <3>2 DEF Promise!SwitchOn
    <3>4. QED BY <3>3 DEF Promise!PNext
  <2>5. CASE ~pend.state.on
    <3>1. power /\ power' = FALSE
      BY <1>3, <1>6, <2>1, <2>5
    <3>2. held >= Less(MinOn, CallTimeout) \/ lost = 2
      BY <1>1, <2>5, <3>1 DEF IInv, CallSound
    <3>3. Promise!SwitchOff
      BY <1>2, <2>1, <2>2, <2>3, <3>1, <3>2 DEF Promise!SwitchOff
    <3>4. QED BY <3>3 DEF Promise!PNext
  <2>6. QED BY <2>4, <2>5
<1>7. QED BY <1>5, <1>6

\* The rest of a tick leaves the boiler alone: it records or doubts, or is
\* invisible to it.
LEMMA TickKeeps ==
  ASSUME IInv, Tick \/ CallReturns \/ CallFails \/ Save \/ SaveFails
  PROVE  [Promise!PNext]_(Promise!pvars)
<1>1. UNCHANGED <<entry, wired, power, held>>
  BY DEF Tick, CallReturns, CallFails, Save, SaveFails, plant
<1>2. pc # "down" /\ pc' # "down"
  <2>1. CASE Tick
    <3>1. pc = "idle" /\ (pc' = pc \/ pc' = "calling")
      BY <2>1, TickShape DEF IInv
    <3>2. QED BY <3>1
  <2>2. CASE CallReturns \/ CallFails \/ Save \/ SaveFails
    BY <2>2 DEF CallReturns, CallFails, Save, SaveFails, TickDone
  <2>3. QED BY <2>1, <2>2
<1>3. InCharge' = InCharge
  BY <1>1, <1>2 DEF InCharge
<1>4. lost' = lost \/ lost' = 0 \/ (lost = 0 /\ lost' = 1)
  <2>1. CASE Tick
    <3>1. lost' = lost \/ lost' = AtLeast(lost, 1)
      BY <2>1 DEF Tick
    <3>2. QED BY <3>1 DEF IInv, TypeOK, AtLeast
  <2>2. CASE CallReturns \/ CallFails \/ Save \/ SaveFails
    BY <2>2 DEF CallReturns, CallFails, Save, SaveFails
  <2>3. QED BY <2>1, <2>2
<1>5. CASE lost' = lost
  BY <1>1, <1>3, <1>5 DEF Promise!pvars
<1>6. CASE lost' = 0
  BY <1>1, <1>3, <1>6 DEF Promise!Record, Promise!PNext
<1>7. CASE lost = 0 /\ lost' = 1
  BY <1>1, <1>3, <1>7 DEF Promise!Doubt, Promise!PNext
<1>8. QED BY <1>4, <1>5, <1>6, <1>7

LEMMA EntryKeeps ==
  ASSUME IInv,
         \/ Setup \/ (\E reason \in UnloadReasons : Unload(reason)) \/ Retarget
         \/ Enable \/ Remove \/ Create \/ HaStop
  PROVE  [Promise!PNext]_(Promise!pvars)
<1>1. CASE Setup
  <2>1. UNCHANGED <<power, held, lost>> /\ ~InCharge
    BY <1>1 DEF Setup, plant, InCharge
  <2>2. CASE InCharge'
    <3>1. InCharge' = TRUE
      BY <2>2 DEF InCharge
    <3>2. QED BY <2>1, <3>1 DEF Promise!TakeCharge, Promise!PNext
  <2>3. CASE ~InCharge'
    <3>1. InCharge' = InCharge
      BY <2>1, <2>3 DEF InCharge
    <3>2. QED BY <2>1, <3>1 DEF Promise!pvars
  <2>4. QED BY <2>2, <2>3
<1>2. ASSUME NEW reason \in UnloadReasons, Unload(reason)
      PROVE  [Promise!PNext]_(Promise!pvars)
  <2>1. HandsOver(reason) \in BOOLEAN
    BY DEF HandsOver, IInv, TypeOK
  <2>2. MaybeOff(HandsOver(reason)) /\ ~InCharge'
    BY <1>2 DEF Unload, InCharge
  <2>3. Promise!LetGo
    BY <2>1, <2>2, OffIsLettingGo DEF IInv
  <2>4. QED BY <2>3 DEF Promise!PNext
<1>3. CASE Retarget
  <2>1. power' \in BOOLEAN /\ held' = Dwell /\ lost' = 2 /\ InCharge' = FALSE
    BY <1>3 DEF Retarget, InCharge
  <2>2. QED BY <2>1 DEF Promise!Replace, Promise!PNext
<1>4. CASE Enable \/ Create
  <2>1. entry # "enabled" /\ pc' = pc /\ UNCHANGED <<power, held, lost>>
    BY <1>4 DEF Enable, Create, plant
  <2>2. pc = "down"
    BY <2>1 DEF IInv, Control
  <2>3. InCharge' = InCharge
    BY <2>1, <2>2 DEF InCharge
  <2>4. QED BY <2>1, <2>3 DEF Promise!pvars
<1>5. CASE Remove
  <2>1. PICK sent \in BOOLEAN : MaybeOff(sent)
    BY <1>5, RemoveShape DEF IInv
  <2>2. ~InCharge'
    BY <1>5 DEF Remove, InCharge
  <2>3. Promise!LetGo
    BY <2>1, <2>2, OffIsLettingGo DEF IInv
  <2>4. QED BY <2>3 DEF Promise!PNext
<1>6. CASE HaStop
  <2>1. UNCHANGED <<power, held, lost>> /\ InCharge' = FALSE
    BY <1>6 DEF HaStop, plant, InCharge
  <2>2. QED BY <2>1 DEF Promise!LetGo, Promise!PNext
<1>7. QED BY <1>1, <1>2, <1>3, <1>4, <1>5, <1>6

LEMMA WorldKeeps ==
  ASSUME SoleActor, IInv,
         OrphanLands \/ OrphanEnds \/ Elapse \/ Zone \/ Foreign \/ CalmDown \/ UNCHANGED vars
  PROVE  [Promise!PNext]_(Promise!pvars)
<1>1. ~OrphanLands /\ ~OrphanEnds
  BY DEF IInv, Control, NoOrphan, NoStep, OrphanLands, OrphanEnds
<1>2. ~Foreign
  BY DEF Foreign, Fault, SoleActor
<1>3. CASE Elapse
  <2>1. UNCHANGED <<entry, wired, pc, power, lost>> /\ held' = Aged(held, 1, Dwell)
    BY <1>3 DEF Elapse
  <2>2. InCharge' = InCharge
    BY <2>1 DEF InCharge
  <2>3. held' = IF held < Dwell THEN held + 1 ELSE held
    BY <2>1, DwellFacts DEF IInv, TypeOK, Aged, AtMost
  <2>4. QED BY <2>1, <2>2, <2>3 DEF Promise!Wait, Promise!PNext
<1>4. CASE Zone \/ CalmDown \/ UNCHANGED vars
  <2>1. UNCHANGED <<entry, wired, pc, power, held, lost>>
    BY <1>4 DEF Zone, CalmDown, vars, plant
  <2>2. InCharge' = InCharge
    BY <2>1 DEF InCharge
  <2>3. QED BY <2>1, <2>2 DEF Promise!pvars
<1>5. QED BY <1>1, <1>2, <1>3, <1>4

(* The hub keeps its promise to the boiler for every configuration of the   *)
(* timers: no run shorter than the clamped min-on and no rest shorter than  *)
(* the clamped min-off, up to a call's delay, unless switches were lost --  *)
(* BoilerPromise, step by step (F9, F13, F26, F28; ADR-0039 addendum #5).   *)
THEOREM PromiseKept ==
  ASSUME SoleActor
  PROVE  Spec => KeepsPromise
<1>1. Init => Promise!PInit
  <2>1. Init => ~InCharge
    BY DEF Init, InCharge
  <2>2. Init => InCharge = FALSE
    BY <2>1 DEF InCharge
  <2>3. QED BY <2>2 DEF Init, Promise!PInit
<1>2. IInv /\ [Next]_vars => [Promise!PNext]_(Promise!pvars)
  BY LandKeeps, TickKeeps, EntryKeeps, WorldKeeps DEF Next
<1>3. Spec => []IInv
  BY AlwaysSound
<1>4. QED BY <1>1, <1>2, <1>3, PTL DEF Spec, KeepsPromise, Promise!PSpec
-----------------------------------------------------------------------------
(* The dead-man OFF.                                                       *)

\* The faults under which a removed hub leaves its boiler off: the store and the
\* OFF work.  Others may switch the boiler, a call may be late, and an unload may
\* overtake a tick.
StoreWorks == Faults \cap {"callFails", "saveFails", "loadFails"} = {}

\* An acknowledged call has marked the store, and so has any call this instance
\* knows of, but for the one whose save is under way.
Marked ==
  /\ disk.acted => disk.kept
  /\ fired => disk.acted
  /\ acted /\ pc # "saving" => disk.acted

LEMMA StoredIsMarked ==
  ASSUME NEW s
  PROVE  ToPayload(s).kept /\ ToPayload(s).acted
BY DEF ToPayload

LEMMA StepMarked ==
  ASSUME StoreWorks, TypeOK, Marked, [Next]_vars
  PROVE  Marked'
<1>1. ASSUME NEW s, disk' = ToPayload(s) PROVE Marked'
  BY <1>1, StoredIsMarked DEF Marked
<1>2. CASE Tick
  <2>1. disk' = disk /\ fired' = fired /\ pc = "idle"
    BY <1>2 DEF Tick
  <2>2. acted' => disk.acted
    BY <1>2, <2>1 DEF Tick, Marked, TypeOK
  <2> QED
    BY <2>1, <2>2 DEF Marked
<1>3. CASE CallReturns
  BY <1>3 DEF CallReturns, Saves, TickDone, Marked
<1>4. CASE Save
  BY <1>1, <1>4 DEF Save
<1>5. CASE OrphanEnds
  <2>1. disk' = disk \/ \E s : disk' = ToPayload(s)
    BY <1>5 DEF OrphanEnds
  <2>2. CASE disk' = disk
    BY <1>5, <2>2 DEF OrphanEnds, hub, Marked
  <2> QED
    BY <1>1, <2>1, <2>2
<1>6. CASE HaStop
  <2>1. PICK j \in 0 .. WallBack :
          disk' = [disk EXCEPT !.age = IF disk.kept THEN disk.age - j ELSE disk.age]
    BY <1>6 DEF HaStop
  <2>2. disk'.kept = disk.kept /\ disk'.acted = disk.acted
    BY <2>1 DEF TypeOK, Payload
  <2>3. fired' = fired /\ acted' = FALSE
    BY <1>6 DEF HaStop, FreshHub
  <2> QED
    BY <2>2, <2>3 DEF Marked
<1>7. CASE Elapse
  <2>1. disk'.kept = disk.kept /\ disk'.acted = disk.acted
    BY <1>7 DEF Elapse, Older, TypeOK, Payload
  <2>2. (acted' => acted) /\ (fired' => fired) /\ pc' = pc
    BY <1>7 DEF Elapse
  <2> QED
    BY <2>1, <2>2 DEF Marked
<1>8. CASE \/ Setup \/ (\E reason \in UnloadReasons : Unload(reason)) \/ Retarget \/ Remove
  <2>1. disk' = disk /\ fired' = fired /\ acted' = FALSE
    BY <1>8 DEF Setup, Unload, Retarget, Remove, FreshHub
  <2> QED
    BY <2>1 DEF Marked
<1>9. CASE Land \/ CallFails \/ SaveFails \/ Enable \/ Create
  BY <1>9 DEF Land, CallFails, SaveFails, Enable, Create, TickDone, hub, Fault, StoreWorks, Marked
<1>10. CASE OrphanLands \/ Zone \/ Foreign \/ CalmDown \/ UNCHANGED vars
  BY <1>10 DEF OrphanLands, Zone, Foreign, CalmDown, vars, hub, Marked
<1> QED
  BY <1>2, <1>3, <1>4, <1>5, <1>6, <1>7, <1>8, <1>9, <1>10 DEF Next

\* The store names the boiler, so the removal sends the OFF, and nothing stops it.
LEMMA StepRemoves ==
  ASSUME StoreWorks, TypeOK, Marked, [Next]_vars
  PROVE  RemovedIsOff
<1> SUFFICES ASSUME entry # "absent", entry' = "absent", fired, wired
             PROVE  power' = FALSE
  BY DEF RemovedIsOff
<1>1. Remove
  BY DEF Next, vars, hub, Tick, Land, CallReturns, CallFails, Save, SaveFails, Setup, Unload,
         Retarget, Enable, Create, HaStop, OrphanLands, OrphanEnds, Elapse, Zone, Foreign,
         CalmDown
<1>2. ~Fault("loadFails") /\ ~Fault("callFails")
  BY DEF Fault, StoreWorks
<1>3. disk.kept /\ disk.acted
  BY DEF Marked
<1>4. MaybeOff(wired /\ disk.kept /\ disk.acted)
  BY <1>1, <1>2 DEF Remove
<1>5. Switch(FALSE)
  BY <1>2, <1>3, <1>4 DEF MaybeOff
<1> QED
  BY <1>5 DEF Switch

\* A hand-over of another kind: the unload itself sends the OFF.
LEMMA StepHandsOver ==
  ASSUME StoreWorks, [Next]_vars
  PROVE  HandedOverIsOff
<1> SUFFICES ASSUME entry = "enabled", wired, entry' = "disabled" \/ ~wired'
             PROVE  power' = FALSE
  BY DEF HandedOverIsOff
<1>1. PICK reason \in UnloadReasons : Unload(reason)
  BY DEF Next, vars, hub, Tick, Land, CallReturns, CallFails, Save, SaveFails, Setup, Retarget,
         Enable, Remove, Create, HaStop, OrphanLands, OrphanEnds, Elapse, Zone, Foreign,
         CalmDown
<1>2. HandsOver(reason)
  BY <1>1 DEF Unload, HandsOver
<1>3. ~Fault("callFails")
  BY DEF Fault, StoreWorks
<1>4. Switch(FALSE)
  BY <1>1, <1>2, <1>3 DEF Unload, MaybeOff
<1> QED
  BY <1>4 DEF Switch

\* Only a loaded hub has a tick, and what it saves has reached the boiler.
Placed ==
  /\ pc # "down" => entry = "enabled"
  /\ pc = "saving" => landed

LEMMA StepPlaced ==
  ASSUME Placed, [Next]_vars
  PROVE  Placed'
<1>1. CASE Tick \/ Land \/ CallReturns \/ CallFails \/ Save \/ SaveFails
  BY <1>1 DEF Tick, Land, CallReturns, CallFails, Save, SaveFails, TickDone, tick, Placed
<1>2. CASE \/ Setup \/ (\E reason \in UnloadReasons : Unload(reason)) \/ Retarget \/ Enable
           \/ Remove \/ Create \/ HaStop
  BY <1>2 DEF Setup, Unload, Retarget, Enable, Remove, Create, HaStop, FreshHub, tick, Placed
<1>3. CASE OrphanLands \/ OrphanEnds \/ Elapse \/ Zone \/ Foreign \/ CalmDown \/ UNCHANGED vars
  BY <1>3 DEF OrphanLands, OrphanEnds, Elapse, Zone, Foreign, CalmDown, vars, tick, Placed
<1> QED
  BY <1>1, <1>2, <1>3 DEF Next

\* A boiler at rest stays at rest when an OFF is sent, arrives or not.
LEMMA OffTurnsNothingOn ==
  ASSUME NEW sent, MaybeOff(sent), ~power
  PROVE  ~power'
BY DEF MaybeOff, Switch, plant

\* An unloaded hub turns nothing on.
LEMMA StepStaysOff ==
  ASSUME Placed, [Next]_vars
  PROVE  StaysOff
<1> SUFFICES ASSUME pc = "down", ~power, power'
             PROVE  Overtaken \/ Fault("foreign")
  BY DEF StaysOff
<1>1. CASE Remove
  BY <1>1, OffTurnsNothingOn DEF Remove
<1>2. CASE OrphanLands
  BY <1>2 DEF OrphanLands, Switch, Overtaken
<1>3. CASE Foreign
  BY <1>3 DEF Foreign
<1>4. CASE \/ Tick \/ Land \/ CallReturns \/ CallFails \/ Save \/ SaveFails
           \/ (\E reason \in UnloadReasons : Unload(reason)) \/ Retarget
  BY <1>4 DEF Tick, Land, CallReturns, CallFails, Save, SaveFails, Unload, Retarget
<1>5. CASE \/ Setup \/ Enable \/ Create \/ HaStop \/ OrphanEnds \/ Elapse \/ Zone \/ CalmDown
           \/ UNCHANGED vars
  BY <1>5 DEF Setup, Enable, Create, HaStop, OrphanEnds, Elapse, Zone, CalmDown, vars, plant
<1> QED
  BY <1>1, <1>2, <1>3, <1>4, <1>5 DEF Next

\* An unload leaves behind no call but one it overtook.
LEMMA LeavesUnderWay ==
  ASSUME TypeOK, Placed, pc # "down", LeaveTick, Overtaken'
  PROVE  Overtaken \/ UnderWay
<1>1. CASE pc = "idle"
  BY <1>1 DEF LeaveTick, Overtaken
<1>2. CASE pc # "idle"
  <2>1. orphan' = [step |-> pend, landed |-> landed, age |-> callAge,
                   saves |-> pc = "saving" \/ Saves]
    BY <1>2 DEF LeaveTick
  <2>2. pend.call = "on" /\ ~landed
    BY <2>1 DEF Overtaken
  <2>3. pc \in {"calling", "saving"}
    BY <1>2 DEF TypeOK
  <2> QED
    BY <2>2, <2>3 DEF Placed, UnderWay
<1> QED
  BY <1>1, <1>2

\* A call may outlive its hub only when it was under way at an unload.
LEMMA StepLeaves ==
  ASSUME TypeOK, Placed, [Next]_vars
  PROVE  OnlyWhatWasUnderWay
<1> SUFFICES ASSUME Overtaken' PROVE Overtaken \/ UnderWay
  BY DEF OnlyWhatWasUnderWay
<1>1. ASSUME orphan' = orphan PROVE Overtaken \/ UnderWay
  BY <1>1 DEF Overtaken
<1>2. orphan' # NoOrphan
  BY DEF Overtaken, NoOrphan, NoStep
<1>3. CASE \E reason \in UnloadReasons : Unload(reason)
  BY <1>3, LeavesUnderWay DEF Unload
<1>4. CASE Remove
  <2>1. entry = "enabled" => pc # "down" /\ LeaveTick
    BY <1>4 DEF Remove
  <2>2. entry # "enabled" => orphan' = orphan
    BY <1>4 DEF Remove
  <2> QED
    BY <1>1, <2>1, <2>2, LeavesUnderWay
<1>5. CASE OrphanLands
  <2>1. orphan'.landed = TRUE
    BY <1>5 DEF OrphanLands, TypeOK, Orphan
  <2> QED
    BY <2>1 DEF Overtaken
<1>6. CASE Elapse
  <2>1. orphan'.step = orphan.step /\ orphan'.landed = orphan.landed
    BY <1>6 DEF Elapse, TypeOK, Orphan
  <2> QED
    BY <2>1 DEF Overtaken
<1>7. CASE HaStop \/ OrphanEnds
  BY <1>2, <1>7 DEF HaStop, OrphanEnds
<1>8. CASE \/ Tick \/ Land \/ CallReturns \/ CallFails \/ Save \/ SaveFails \/ Setup \/ Retarget
           \/ Enable \/ Create \/ Zone \/ Foreign \/ CalmDown \/ UNCHANGED vars
  BY <1>1, <1>8 DEF Tick, Land, CallReturns, CallFails, Save, SaveFails, Setup, Retarget, Enable,
                    Create, Zone, Foreign, CalmDown, vars
<1> QED
  BY <1>3, <1>4, <1>5, <1>6, <1>7, <1>8 DEF Next

(* As long as the store and the service calls work, removing a hub that has *)
(* commanded its boiler turns the boiler off, and so does disabling or       *)
(* unwiring it, with a call or a save under way, late answers and other      *)
(* hands at the boiler as well; and nothing of the unloaded entry turns it   *)
(* on again but a call that was under way at an unload (AR-15, F27, F4).     *)
THEOREM RemovalStaysOff ==
  ASSUME StoreWorks
  PROVE  Spec => RemovalLeavesItOff
<1>1. Init => Marked /\ Placed
  BY DEF Init, NoPayload, Marked, Placed
<1>2. TypeOK /\ Marked /\ Placed /\ [Next]_vars => Marked' /\ Placed'
  BY StepMarked, StepPlaced
<1>3. TypeOK /\ Marked /\ Placed /\ [Next]_vars => [LeavesItOff]_vars
  BY StepRemoves, StepHandsOver, StepStaysOff, StepLeaves DEF LeavesItOff
<1> QED
  BY <1>1, <1>2, <1>3, TypeCorrect, PTL DEF Spec, RemovalLeavesItOff

\* Nobody else switches the boiler and no unload overtakes a tick.
NoneInterferes == Faults \cap {"foreign", "midCall"} = {}

\* No tick outlives its hub.
LEMMA StepNoOrphan ==
  ASSUME NoneInterferes, orphan = NoOrphan, [Next]_vars
  PROVE  orphan' = NoOrphan
<1>1. ~Fault("midCall")
  BY DEF Fault, NoneInterferes
<1>2. CASE Remove \/ \E reason \in UnloadReasons : Unload(reason)
  BY <1>1, <1>2 DEF Remove, Unload, LeaveTick
<1>3. CASE Elapse \/ HaStop \/ OrphanEnds
  BY <1>3 DEF Elapse, HaStop, OrphanEnds
<1>4. CASE OrphanLands
  BY <1>4 DEF OrphanLands, NoOrphan, NoStep
<1>5. CASE \/ Tick \/ Land \/ CallReturns \/ CallFails \/ Save \/ SaveFails \/ Setup \/ Retarget
           \/ Enable \/ Create \/ Zone \/ Foreign \/ CalmDown \/ UNCHANGED vars
  BY <1>5 DEF Tick, Land, CallReturns, CallFails, Save, SaveFails, Setup, Retarget, Enable,
              Create, Zone, Foreign, CalmDown, vars
<1> QED
  BY <1>2, <1>3, <1>4, <1>5 DEF Next

\* A hub that is gone leaves its record as it was.
LEMMA GoneIsGone ==
  ASSUME Placed, [Next]_vars, entry = "absent", entry' = "absent"
  PROVE  fired' = fired /\ wired' = wired
<1>1. pc = "down"
  BY DEF Placed
<1> QED
  BY <1>1 DEF Next, vars, hub, Tick, Land, CallReturns, CallFails, Save, SaveFails, Setup, Unload,
              Retarget, Enable, Remove, Create, HaStop, OrphanLands, OrphanEnds, Elapse, Zone,
              Foreign, CalmDown

\* A removal does not change what it goes by.
LEMMA RemovalKeepsRecord ==
  ASSUME [Next]_vars, entry # "absent", entry' = "absent"
  PROVE  fired' = fired /\ wired' = wired
BY DEF Next, vars, hub, Tick, Land, CallReturns, CallFails, Save, SaveFails, Setup, Unload,
       Retarget, Enable, Remove, Create, HaStop, OrphanLands, OrphanEnds, Elapse, Zone, Foreign,
       CalmDown

(* What the comment on the unload promises, where it is true: without        *)
(* unloads that overtake a tick and with nobody else at the boiler, a hub    *)
(* that is gone and has commanded its boiler has a boiler that is off, for   *)
(* as long as it is gone (__init__.py 397).                                  *)
THEOREM GoneIsOff ==
  ASSUME StoreWorks, NoneInterferes
  PROVE  Spec => []Relinquished
<1> DEFINE Gone == Marked /\ Placed /\ orphan = NoOrphan /\ Relinquished
<1>1. Init => Gone
  BY DEF Init, NoPayload, Marked, Placed, Relinquished
<1>2. TypeOK /\ Gone /\ [Next]_vars => Relinquished'
  <2> SUFFICES ASSUME TypeOK, Gone, [Next]_vars, entry' = "absent", fired', wired'
               PROVE  ~power'
    BY DEF Relinquished
  <2>1. CASE entry # "absent"
    BY <2>1, RemovalKeepsRecord, StepRemoves DEF RemovedIsOff
  <2>2. CASE entry = "absent"
    <3>1. ~power /\ pc = "down"
      BY <2>2, GoneIsGone DEF Relinquished, Placed
    <3>2. ~Overtaken /\ ~Fault("foreign")
      BY DEF Overtaken, NoOrphan, NoStep, Fault, NoneInterferes
    <3> QED
      BY <3>1, <3>2, StepStaysOff DEF StaysOff
  <2> QED
    BY <2>1, <2>2
<1>3. TypeOK /\ Gone /\ [Next]_vars => Gone'
  BY <1>2, StepMarked, StepPlaced, StepNoOrphan
<1>4. Gone => Relinquished
  OBVIOUS
<1> HIDE DEF Gone
<1> QED
  BY <1>1, <1>3, <1>4, TypeCorrect, PTL DEF Spec
=============================================================================

--------------------------- MODULE ZoneComfortProofs ---------------------------
(***************************************************************************)
(* What a zone wants is what its schedule, its user and its people come    *)
(* to.  First the week: for every number and length of days and every set  *)
(* of windows the verdict of the schedule is the plain meaning of the      *)
(* windows.  Then the plan that is made from it, tick by tick, and the     *)
(* command its target comes to.                                            *)
(***************************************************************************)
EXTENDS MCZoneComfort, FiniteSetTheorems, WellFoundedInduction, TLAPS

LEMMA ModHere == \A W \in Nat \ {0} : \A x \in 0 .. W - 1 : x % W = x
  OBVIOUS
LEMMA ModBelow == \A W \in Nat \ {0} : \A x \in -W .. -1 : x % W = x + W
  OBVIOUS
LEMMA ModAbove == \A W \in Nat \ {0} : \A x \in W .. 2*W-1 : x % W = x - W
  OBVIOUS
LEMMA ModRange == \A W \in Nat \ {0} : \A x \in Int : x % W \in 0 .. W-1
  OBVIOUS

LEMMA Least ==
  ASSUME NEW T \in SUBSET Nat, T # {}
  PROVE  \E m \in T : \A n \in T : m <= n
<1> DEFINE R == OpToRel(<, Nat)
<1>1. PICK x \in T : \A y \in T : ~ (<<y, x>> \in R)
  BY NatLessThanWellFounded, WFMin
<1>2. \A y \in T : y < x => <<y, x>> \in R
  BY DEF OpToRel
<1>3. \A y \in T : ~ (y < x)
  <2> HIDE DEF R
  <2>. QED  BY <1>1, <1>2
<1>. QED
  BY <1>3


\* The least of two, and of a set.
LEMMA MinOfTwo ==
  ASSUME NEW x \in Int, NEW y \in Int
  PROVE  Min({x, y}) = IF x <= y THEN x ELSE y
BY DEF Min
LEMMA MinIs ==
  ASSUME NEW T \in SUBSET Int, NEW m \in T, \A n \in T : m <= n
  PROVE  Min(T) = m
<1>1. \E x \in T : \A y \in T : x =< y
  OBVIOUS
<1>2. Min(T) \in T /\ \A n \in T : Min(T) =< n
  BY <1>1, Zenon DEF Min
<1>3. Min(T) \in Int /\ m \in Int /\ Min(T) =< m /\ m <= Min(T)
  BY <1>2
<1>. QED
  BY <1>3

Runs(S) == {r \in (0 .. Week - 1) \X (1 .. Week) :
         /\ r[1] < r[2] /\ (r[1] .. r[2] - 1) \subseteq S
         /\ r[1] - 1 \notin S /\ r[2] \notin S}
Covered(raw) == UNION {r[1] .. r[2] - 1 : r \in raw}
OpenSlots(ws) == {s \in 0 .. Week - 1 : IsOpen(ws, s)}

LEMMA WeekIsNat == Week \in Nat \ {0} /\ DayLen <= Week /\ DayLen \in Nat \ {0} /\ Days \in Nat \ {0}
BY ClockAssumption DEF WeekAssumption, Week

LEMMA DayInWeek ==
  ASSUME NEW d \in 0 .. Days - 1
  PROVE  d * DayLen \in Nat /\ d * DayLen + DayLen <= Week /\ (d + 1) * DayLen = d * DayLen + DayLen
<1>1. \A a, b, c \in Nat : a + 1 <= b => a * c + c <= b * c /\ a * c \in Nat /\ (a + 1) * c = a * c + c
  OBVIOUS
<1>. QED
  BY <1>1, ClockAssumption DEF WeekAssumption, Week

LEMMA StretchSpans ==
  ASSUME NEW w \in Window, NEW d \in 0 .. Days - 1, w.start # w.end
  PROVE  /\ Stretch(w, d) = <<d * DayLen + w.start, d * DayLen + w.start + LengthOf(w)>>
         /\ d * DayLen + w.start \in 0 .. Week
         /\ LengthOf(w) \in 0 .. DayLen
<1>1. w.start \in 0 .. DayLen /\ w.end \in 0 .. DayLen
  BY DEF Window
<1>. QED
  BY <1>1, DayInWeek, WeekIsNat DEF Stretch, LengthOf

LEMMA CyclicSpan ==
  ASSUME NEW s \in 0 .. Week - 1, NEW a \in 0 .. Week, NEW L \in 0 .. Week
  PROVE  (s - a) % Week < L <=>
         \/ a <= s /\ s < a + L
         \/ s < a + L - Week
<1>1. CASE a <= s
  BY <1>1, WeekIsNat, ModHere
<1>2. CASE ~ (a <= s)
  <2>1. s - a \in -Week .. -1
    BY <1>2, WeekIsNat
  <2>2. (s - a) % Week = s - a + Week
    BY <2>1, WeekIsNat, ModBelow
  <2>. QED
    BY <1>2, <2>2, WeekIsNat
<1>. QED
  BY <1>1, <1>2

\* The slots the stretches cover are the ones in which the schedule is open.
LEMMA CoveredIsOpen ==
  ASSUME NEW ws \in SUBSET Window
  PROVE  Covered(Raw(Normalized(ws))) = OpenSlots(ws)
<1> DEFINE During(w, d) == {s \in 0 .. Week - 1 : (s - d * DayLen - w.start) % Week < LengthOf(w)}
           First(r) == <<r[1], Min({r[2], Week})>>
           Rest(r) == <<0, r[2] - Week>>
<1>1. ASSUME NEW w \in Window, NEW d \in 0 .. Days - 1, w.start # w.end
      PROVE  (First(Stretch(w, d))[1] .. First(Stretch(w, d))[2] - 1)
               \cup (Rest(Stretch(w, d))[1] .. Rest(Stretch(w, d))[2] - 1) = During(w, d)
  <2> DEFINE a == d * DayLen + w.start
             L == LengthOf(w)
  <2>1. Stretch(w, d) = <<a, a + L>> /\ a \in 0 .. Week /\ L \in 0 .. Week
    BY <1>1, StretchSpans, WeekIsNat
  <2>2. Min({a + L, Week}) = IF a + L <= Week THEN a + L ELSE Week
    BY <2>1, WeekIsNat, MinOfTwo
  <2>3. \A s \in 0 .. Week - 1 : s - d * DayLen - w.start = s - a
    BY <1>1, DayInWeek, WeekIsNat DEF Window
  <2>4. \A s \in 0 .. Week - 1 : s \in During(w, d) <=> \/ a <= s /\ s < a + L
                                                      \/ s < a + L - Week
    BY <2>1, <2>3, CyclicSpan
  <2> HIDE DEF a, L, During
  <2>5. First(Stretch(w, d)) = <<a, IF a + L <= Week THEN a + L ELSE Week>>
    BY <2>1, <2>2
  <2>6. Rest(Stretch(w, d)) = <<0, a + L - Week>>
    <3>1. Stretch(w, d)[2] = a + L /\ a \in Nat /\ L \in Nat
      BY <2>1, WeekIsNat
    <3>2. Stretch(w, d)[2] - Week = a + L - Week
      BY <3>1, WeekIsNat
    <3>. QED
      BY <3>2, Zenon
  <2>7. During(w, d) \subseteq 0 .. Week - 1
    BY DEF During
  <2> HIDE DEF First, Rest
  <2>. QED
    BY <2>1, <2>4, <2>5, <2>6, <2>7, WeekIsNat
<1>2. \A w \in ws, d \in 0 .. Days - 1 : w.start = w.end => During(w, d) = {}
  <2> SUFFICES ASSUME NEW w \in ws, NEW d \in 0 .. Days - 1, w.start = w.end, NEW s \in During(w, d)
               PROVE  FALSE
    OBVIOUS
  <2>1. LengthOf(w) = 0
    BY DEF LengthOf, Window
  <2>2. s - d * DayLen - w.start \in Int
    BY DayInWeek, WeekIsNat DEF Window
  <2>3. (s - d * DayLen - w.start) % Week \in 0 .. Week - 1
    BY <2>2, ModRange, WeekIsNat
  <2>. QED
    BY <2>1, <2>3, WeekIsNat
<1> DEFINE Pairs == {q \in Normalized(ws) \X (0 .. Days - 1) : q[2] \in q[1].days}
           From(p) == First(Stretch(p[1], p[2]))
           Over(p) == Rest(Stretch(p[1], p[2]))
<1>3. \A p \in Pairs : p[1] \in Window /\ p[1] \in ws /\ p[2] \in 0 .. Days - 1
                       /\ p[2] \in p[1].days /\ p[1].start # p[1].end
  BY DEF Normalized
<1>4. \A s : s \in OpenSlots(ws) <=> \E p \in Pairs : s \in During(p[1], p[2])
  <2>1. ASSUME NEW s \in OpenSlots(ws)
        PROVE  \E p \in Pairs : s \in During(p[1], p[2])
    <3>1. PICK w \in ws : \E d \in w.days : (s - d * DayLen - w.start) % Week < LengthOf(w)
      BY <2>1 DEF OpenSlots, IsOpen
    <3>0. PICK d \in w.days : (s - d * DayLen - w.start) % Week < LengthOf(w)
      BY <3>1
    <3>2. w \in Window /\ d \in 0 .. Days - 1
      BY DEF Window
    <3>3. s \in During(w, d)
      BY <2>1, <3>0 DEF OpenSlots
    <3>4. w.start # w.end
      BY <1>2, <3>2, <3>3
    <3>5. <<w, d>> \in Pairs
      BY <3>2, <3>4 DEF Normalized
    <3> HIDE DEF During, Pairs
    <3>. QED
      BY <3>3, <3>5
  <2>2. ASSUME NEW s, NEW p \in Pairs, s \in During(p[1], p[2])
        PROVE  s \in OpenSlots(ws)
    BY <2>2, <1>3 DEF OpenSlots, IsOpen
  <2>. QED
    BY <2>1, <2>2
<1>5. Raw(Normalized(ws)) = {From(p) : p \in Pairs} \cup {Over(p) : p \in Pairs}
  BY DEF Raw
<1>6. \A s : s \in Covered(Raw(Normalized(ws))) <=>
               \E p \in Pairs : s \in From(p)[1] .. From(p)[2] - 1 \/ s \in Over(p)[1] .. Over(p)[2] - 1
  <2> HIDE DEF Pairs, From, Over
  <2>. QED
    BY <1>5 DEF Covered
<1>7. \A p \in Pairs : (From(p)[1] .. From(p)[2] - 1) \cup (Over(p)[1] .. Over(p)[2] - 1)
                       = During(p[1], p[2])
  BY <1>1, <1>3
<1> HIDE DEF Pairs, From, Over, During
<1>. QED
  BY <1>4, <1>6, <1>7

\* A slot of S lies in a run of S, and in one only.
LEMMA RunAround ==
  ASSUME NEW S \in SUBSET (0 .. Week - 1), NEW s \in S
  PROVE  \E r \in Runs(S) : r[1] <= s /\ s < r[2]
<1> DEFINE Ups == {k \in Nat : s + k \notin S}
           Downs == {k \in Nat : s - 1 - k \notin S}
<1>1. Week \in Ups /\ Week \in Downs
  BY WeekIsNat
<1>2. PICK u \in Ups : \A n \in Ups : u <= n
  BY <1>1, Least
<1>3. PICK d \in Downs : \A n \in Downs : d <= n
  BY <1>1, Least
<1>4. \A x \in s .. s + u - 1 : x \in S
  <2> TAKE x \in s .. s + u - 1
  <2>1. x - s \in Nat /\ x - s < u /\ s + (x - s) = x
    BY <1>2, WeekIsNat
  <2>. QED
    BY <1>2, <2>1
<1>5. \A x \in s - d .. s - 1 : x \in S
  <2> TAKE x \in s - d .. s - 1
  <2> DEFINE k == s - 1 - x
  <2>1. k \in Nat /\ k < d /\ s - 1 - k = x
    BY <1>3, WeekIsNat
  <2> HIDE DEF k
  <2>. QED
    BY <1>3, <2>1
<1>6. s + u \notin S /\ s - d - 1 \notin S /\ u > 0 /\ u \in Nat /\ d \in Nat
  BY <1>2, <1>3, WeekIsNat
<1>7. s - d \in 0 .. Week - 1 /\ s + u \in 1 .. Week
  <2>1. s - d \in S
    BY <1>5, <1>6, WeekIsNat
  <2>2. s + u - 1 \in S
    BY <1>4, <1>6, WeekIsNat
  <2>. QED
    BY <2>1, <2>2, <1>6, WeekIsNat
<1>8. (s - d) .. (s + u - 1) \subseteq S
  BY <1>4, <1>5, <1>6, WeekIsNat
<1>9. <<s - d, s + u>> \in Runs(S)
  BY <1>6, <1>7, <1>8, WeekIsNat DEF Runs
<1>. QED
  BY <1>6, <1>9, WeekIsNat

\* Either the last run is joined to the first one, or there is no such pair.
First(R) == {r \in R : r[1] = 0}
Last(R) == {r \in R : r[2] = Week}

LEMMA RunsAreFinite ==
  ASSUME NEW S PROVE IsFiniteSet(Runs(S))
<1>1. IsFiniteSet(0 .. Week - 1) /\ IsFiniteSet(1 .. Week)
  BY FS_Interval, WeekIsNat
<1>2. IsFiniteSet((0 .. Week - 1) \X (1 .. Week))
  BY <1>1, FS_Product
<1>3. Runs(S) \subseteq (0 .. Week - 1) \X (1 .. Week)
  BY DEF Runs
<1>. QED
  BY <1>2, <1>3, FS_Subset

LEMMA SeamJoins ==
  ASSUME NEW S \in SUBSET (0 .. Week - 1), S # 0 .. Week - 1
  PROVE  Seam(Runs(S)) =
           IF First(Runs(S)) # {} /\ Last(Runs(S)) # {}
           THEN (Runs(S) \ (First(Runs(S)) \cup Last(Runs(S)))) \cup
                {<<l[1], Week + f[2]>> : l \in Last(Runs(S)), f \in First(Runs(S))}
           ELSE Runs(S)
<1>1. ASSUME NEW f \in First(Runs(S)), NEW l \in Last(Runs(S))
      PROVE  Cardinality(Runs(S)) >= 2
  <2>1. f # l
    <3> SUFFICES ASSUME f = l PROVE FALSE
      OBVIOUS
    <3>1. 0 .. Week - 1 \subseteq S
      BY WeekIsNat DEF First, Last, Runs
    <3>. QED
      BY <3>1
  <2>2. f \in Runs(S) /\ l \in Runs(S)
    BY DEF First, Last
  <2>3. Cardinality(Runs(S)) # 0 /\ Cardinality(Runs(S)) # 1
    BY <2>1, <2>2, RunsAreFinite, FS_EmptySet, FS_Singleton
  <2>4. Cardinality(Runs(S)) \in Nat
    BY RunsAreFinite, FS_CardinalityType
  <2>. QED
    BY <2>3, <2>4
<1> DEFINE R == Runs(S)
<1>2. Seam(R) = IF Cardinality(R) >= 2 /\ First(R) # {} /\ Last(R) # {}
           THEN (R \ (First(R) \cup Last(R))) \cup
                {<<l[1], Week + f[2]>> : l \in Last(R), f \in First(R)}
           ELSE R
  BY DEF Seam, First, Last
<1>. QED
  BY <1>1, <1>2

Cyclic(S, x) == x \in S \/ x - Week \in S

IsArc(S, r) ==
  /\ r[1] \in S /\ r[2] \in 1 .. 2 * Week - 1 /\ r[1] < r[2]
  /\ \A x \in r[1] .. r[2] - 1 : Cyclic(S, x)
  /\ ~ Cyclic(S, r[2])

LEMMA RunIsArc ==
  ASSUME NEW S \in SUBSET (0 .. Week - 1), NEW r \in Runs(S), ~ (r[2] = Week /\ 0 \in S)
  PROVE  IsArc(S, r)
BY WeekIsNat DEF Runs, IsArc, Cyclic

LEMMA ArcsAreArcs ==
  ASSUME NEW S \in SUBSET (0 .. Week - 1), S # 0 .. Week - 1
  PROVE  \A r \in Seam(Runs(S)) : IsArc(S, r)
<1> DEFINE R == Runs(S)
<1>1. CASE First(R) # {} /\ Last(R) # {}
  <2>1. ASSUME NEW r \in R \ (First(R) \cup Last(R))
        PROVE  IsArc(S, r)
    BY <2>1, RunIsArc DEF First, Last
  <2>2. ASSUME NEW l \in Last(R), NEW f \in First(R)
        PROVE  IsArc(S, <<l[1], Week + f[2]>>)
    <3>1. /\ l[1] \in 0 .. Week - 1 /\ f[2] \in 1 .. Week
          /\ l[1] .. Week - 1 \subseteq S /\ 0 .. f[2] - 1 \subseteq S
          /\ f[2] \notin S /\ l[1] - 1 \notin S
      BY <2>2 DEF First, Last, Runs
    <3>2. f[2] # Week
      BY <3>1, WeekIsNat
    <3>3. l[1] \in S
      BY <3>1, WeekIsNat
    <3>4. \A x \in l[1] .. Week + f[2] - 1 : x \in S \/ x - Week \in S
      <4> TAKE x \in l[1] .. Week + f[2] - 1
      <4>1. CASE x < Week
        BY <4>1, <3>1, WeekIsNat
      <4>2. CASE ~ (x < Week)
        BY <4>2, <3>1, WeekIsNat
      <4>. QED
        BY <4>1, <4>2
    <3>5. Week + f[2] \notin S /\ Week + f[2] - Week = f[2]
      BY <3>1, WeekIsNat
    <3>. QED
      BY <3>1, <3>2, <3>3, <3>4, <3>5, WeekIsNat DEF IsArc, Cyclic
  <2>. QED
    BY <1>1, <2>1, <2>2, SeamJoins
<1>2. CASE ~ (First(R) # {} /\ Last(R) # {})
  <2>1. ASSUME NEW r \in R, r[2] = Week, 0 \in S
        PROVE  FALSE
    <3>1. PICK q \in R : q[1] <= 0 /\ 0 < q[2]
      BY <2>1, RunAround
    <3>2. q \in First(R) /\ r \in Last(R)
      BY <2>1, <3>1, WeekIsNat DEF First, Last, Runs
    <3>. QED
      BY <1>2, <3>2
  <2>. QED
    BY <1>2, <2>1, SeamJoins, RunIsArc
<1>. QED
  BY <1>1, <1>2

\* Every slot of S lies in an arc, on the first or the second lap.
LEMMA ArcAround ==
  ASSUME NEW S \in SUBSET (0 .. Week - 1), S # 0 .. Week - 1, NEW s \in S
  PROVE  \E r \in Seam(Runs(S)) : \E p \in {s, s + Week} : r[1] <= p /\ p < r[2]
<1> DEFINE R == Runs(S)
<1>1. PICK r \in R : r[1] <= s /\ s < r[2]
  BY RunAround
<1>2. CASE First(R) # {} /\ Last(R) # {}
  <2>1. CASE r \in First(R)
    <3>1. PICK l \in Last(R) : TRUE
      BY <1>2
    <3>2. <<l[1], Week + r[2]>> \in Seam(R)
      BY <1>2, <2>1, <3>1, SeamJoins
    <3>3. l[1] <= s + Week /\ s + Week < Week + r[2]
      BY <1>1, <3>1, WeekIsNat DEF Last, Runs
    <3>. QED
      BY <3>2, <3>3
  <2>2. CASE r \in Last(R)
    <3>1. PICK f \in First(R) : TRUE
      BY <1>2
    <3>2. <<r[1], Week + f[2]>> \in Seam(R)
      BY <1>2, <2>2, <3>1, SeamJoins
    <3>3. r[1] <= s /\ s < Week + f[2]
      BY <1>1, <3>1, WeekIsNat DEF First, Runs
    <3>. QED
      BY <3>2, <3>3
  <2>3. CASE r \in R \ (First(R) \cup Last(R))
    BY <1>1, <1>2, <2>3, SeamJoins
  <2>. QED
    BY <1>1, <2>1, <2>2, <2>3
<1>3. CASE ~ (First(R) # {} /\ Last(R) # {})
  BY <1>1, <1>3, SeamJoins
<1>. QED
  BY <1>2, <1>3

\* An arc begins wherever a slot of S follows one that is not, Sunday's last
\* before Monday's first.
LEMMA ArcBegins ==
  ASSUME NEW S \in SUBSET (0 .. Week - 1), S # 0 .. Week - 1, NEW q \in S,
         (IF q = 0 THEN Week - 1 ELSE q - 1) \notin S
  PROVE  \E r \in Seam(Runs(S)) : r[1] = q
<1> DEFINE R == Runs(S)
<1>1. PICK r \in R : r[1] <= q /\ q < r[2]
  BY RunAround
<1>2. r[1] = q
  BY <1>1, WeekIsNat DEF Runs
<1>3. CASE First(R) # {} /\ Last(R) # {}
  <2>1. q # 0
    BY <1>3, WeekIsNat DEF Last, Runs
  <2>2. CASE r \in Last(R)
    <3>1. PICK f \in First(R) : TRUE
      BY <1>3
    <3>2. <<r[1], Week + f[2]>> \in Seam(R)
      BY <1>3, <2>2, <3>1, SeamJoins
    <3>. QED
      BY <1>2, <3>2
  <2>3. CASE r \in R \ (First(R) \cup Last(R))
    BY <1>2, <1>3, <2>3, SeamJoins
  <2>. QED
    BY <1>1, <1>2, <2>1, <2>2, <2>3 DEF First
<1>4. CASE ~ (First(R) # {} /\ Last(R) # {})
  <2>1. r \in Seam(Runs(S))
    BY <1>1, <1>4, SeamJoins
  <2>. QED
    BY <1>2, <2>1
<1>. QED
  BY <1>3, <1>4

\* The week that is open all the time is one interval, and no other is.
LEMMA WholeWeek ==
  ASSUME NEW S \in SUBSET (0 .. Week - 1)
  PROVE  Seam(Runs(S)) = {<<0, Week>>} <=> S = 0 .. Week - 1
<1>1. ASSUME S = 0 .. Week - 1
      PROVE  Seam(Runs(S)) = {<<0, Week>>}
  <2>1. \A r \in Runs(S) : r[1] = 0 /\ r[2] = Week
    BY <1>1, WeekIsNat DEF Runs
  <2>2. <<0, Week>> \in Runs(S)
    BY <1>1, WeekIsNat DEF Runs
  <2>3. Runs(S) = {<<0, Week>>}
    BY <2>1, <2>2 DEF Runs
  <2>4. Cardinality({<<0, Week>>}) = 1
    BY FS_Singleton
  <2>. QED
    BY <2>3, <2>4 DEF Seam
<1>2. ASSUME S # 0 .. Week - 1
      PROVE  <<0, Week>> \notin Seam(Runs(S))
  <2>1. SUFFICES ASSUME <<0, Week>> \in Seam(Runs(S)) PROVE FALSE
    OBVIOUS
  <2>2. IsArc(S, <<0, Week>>)
    BY <1>2, <2>1, ArcsAreArcs
  <2>. QED
    BY <2>2, WeekIsNat DEF IsArc, Cyclic
<1>. QED
  BY <1>1, <1>2

LEMMA NoArc ==
  ASSUME NEW S \in SUBSET (0 .. Week - 1)
  PROVE  Seam(Runs(S)) = {} <=> S = {}
<1>1. CASE S = {}
  <2>1. S # 0 .. Week - 1
    BY <1>1, WeekIsNat
  <2>2. \A r \in Seam(Runs(S)) : FALSE
    BY <1>1, <2>1, ArcsAreArcs DEF IsArc
  <2>. QED
    BY <1>1, <2>2
<1>2. CASE S # {}
  <2>1. CASE S = 0 .. Week - 1
    BY <1>2, <2>1, WholeWeek
  <2>2. CASE S # 0 .. Week - 1
    BY <1>2, <2>2, ArcAround
  <2>. QED
    BY <2>1, <2>2
<1>. QED
  BY <1>1, <1>2

EndsIn(S, t, e) ==
  e \in 1 .. Week - 1 /\ ~ Cyclic(S, t + e) /\ \A k \in 0 .. e - 1 : Cyclic(S, t + k)

\* From slot t the schedule stays open to the end of the arc t lies in, and no longer.
LEMMA ArcEnds ==
  ASSUME NEW S \in SUBSET (0 .. Week - 1), NEW r, IsArc(S, r), NEW t \in S,
         NEW p \in {t, t + Week}, r[1] <= p, p < r[2], NEW e, e = r[2] - p
  PROVE  EndsIn(S, t, e)
<1>0. SUFFICES /\ r[2] - p \in 1 .. Week - 1
               /\ ~ Cyclic(S, t + (r[2] - p))
               /\ \A k \in 0 .. r[2] - p - 1 : Cyclic(S, t + k)
  BY DEF EndsIn
<1> DEFINE c == r[2]
<1>9. r[1] \in S /\ r[2] \in 1 .. 2 * Week - 1
  BY DEF IsArc
<1>1. r[1] \in Nat /\ t \in 0 .. Week - 1 /\ c \in 1 .. 2 * Week - 1
  <2>1. \A x \in S : x \in 0 .. Week - 1 /\ x \in Nat
    BY WeekIsNat
  <2>2. r[1] \in 0 .. Week - 1 /\ r[1] \in Nat
    BY <1>9, <2>1
  <2>. QED
    BY <1>9, <2>1, <2>2
<1>2. (\A x \in r[1] .. c - 1 : x \in S \/ x - Week \in S) /\ c \notin S /\ c - Week \notin S
  BY DEF IsArc, Cyclic
<1>3. \A x \in S : x \in 0 .. Week - 1
  OBVIOUS
<1> HIDE DEF c
<1>4. CASE p = t
  <2>1. ASSUME c - t >= Week PROVE FALSE
    <3>1. c - Week \in r[1] .. c - 1
      BY <1>1, <1>4, <2>1, WeekIsNat
    <3>2. c - Week - Week < 0
      BY <1>1, WeekIsNat
    <3>. QED
      BY <1>2, <1>3, <3>1, <3>2, WeekIsNat
  <2>2. \A k \in 0 .. c - t - 1 : t + k \in r[1] .. c - 1
    BY <1>1, <1>4, WeekIsNat
  <2>3. t + (c - t) = c
    BY <1>1
  <2>4. c - t \in 1 .. Week - 1
    BY <1>1, <1>4, <2>1, WeekIsNat DEF c
  <2>. QED
    BY <1>2, <1>4, <2>2, <2>3, <2>4 DEF Cyclic, c
<1>5. CASE p = t + Week
  <2>1. t + (c - p) = c - Week /\ c - p \in 1 .. Week - 1 /\ c - Week - Week < 0
    BY <1>1, <1>5, WeekIsNat DEF c
  <2>2. ~ Cyclic(S, t + (c - p))
    <3>1. c - Week \notin S /\ c - Week - Week \notin S
      BY <1>1, <1>2, <1>3, <2>1, WeekIsNat
    <3>. QED
      BY <2>1, <3>1, Zenon DEF Cyclic
  <2>3. ASSUME NEW k \in 0 .. c - p - 1
        PROVE  Cyclic(S, t + k)
    <3> DEFINE x == t + Week + k
    <3>3. x \in r[1] .. c - 1 /\ x >= Week /\ x - Week = t + k
      BY <1>1, <1>5, WeekIsNat
    <3> HIDE DEF x
    <3>2. x \notin S
      BY <1>3, <3>3, <1>1, WeekIsNat
    <3>4. x - Week \in S
      BY <1>2, <3>2, <3>3
    <3>. QED
      BY <3>3, <3>4, Zenon DEF Cyclic
  <2>. QED
    BY <2>1, <2>2, <2>3 DEF c
<1>. QED
  BY <1>4, <1>5

\* The intervals of a schedule are the arcs of its open slots.
LEMMA IntervalsAreArcs ==
  ASSUME NEW ws \in SUBSET Window
  PROVE  Intervals(Normalized(ws)) = Seam(Runs(OpenSlots(ws)))
<1>1. \A raw : Merged(raw) = Runs(Covered(raw))
  BY DEF Merged, Runs, Covered
<1>. QED
  BY <1>1, CoveredIsOpen DEF Intervals

Openings(S, t) == {k \in 0 .. Week - 1 : Cyclic(S, t + k)}
Closings(S, t) == {k \in 0 .. Week - 1 : ~ Cyclic(S, t + k)}

LEMMA SomeWindow ==
  ASSUME NEW ws \in SUBSET Window, NEW t \in OpenSlots(ws)
  PROVE  Normalized(ws) # {}
<1>1. PICK w \in ws : \E d \in w.days : (t - d * DayLen - w.start) % Week < LengthOf(w)
  BY DEF OpenSlots, IsOpen
<1>2. PICK d \in w.days : (t - d * DayLen - w.start) % Week < LengthOf(w)
  BY <1>1
<1>3. d \in 0 .. Days - 1 /\ t \in 0 .. Week - 1 /\ w \in Window
  BY DEF Window, OpenSlots
<1>4. t - d * DayLen - w.start \in Int
  BY <1>3, DayInWeek, WeekIsNat DEF Window
<1>5. LengthOf(w) # 0
  BY <1>2, <1>4, ModRange, WeekIsNat
<1>6. w.start # w.end
  BY <1>3, <1>5 DEF LengthOf, Window
<1>. QED
  BY <1>6 DEF Normalized

LEMMA VerdictInside ==
  ASSUME NEW ws \in SUBSET Window, NEW t \in OpenSlots(ws), OpenSlots(ws) # 0 .. Week - 1
  PROVE  StateAt(ws, t) = Verdict(TRUE, 0, Min(Closings(OpenSlots(ws), t)))
<1> DEFINE S == OpenSlots(ws)
           ivs == Intervals(Normalized(ws))
           hits == {h \in ivs \X {t, t + Week} : h[1][1] <= h[2] /\ h[2] < h[1][2]}
<1>1. S \in SUBSET (0 .. Week - 1) /\ ivs = Seam(Runs(S))
  BY IntervalsAreArcs DEF OpenSlots
<1>2. ivs # {<<0, Week>>} /\ ivs # {}
  BY <1>1, WholeWeek, NoArc
<1>3. Normalized(ws) # {}
  BY SomeWindow
<1>4. PICK r0 \in ivs, p0 \in {t, t + Week} : r0[1] <= p0 /\ p0 < r0[2]
  BY <1>1, ArcAround
<1>5. \A r \in ivs : IsArc(S, r)
  BY <1>1, ArcsAreArcs
<1> HIDE DEF S, ivs
<1>6. <<r0, p0>> \in hits
  BY <1>4
<1>7. \A h \in hits : h[2] \in {t, t + Week} /\ IsArc(S, h[1]) /\ h[1][1] <= h[2] /\ h[2] < h[1][2]
  BY <1>5
<1>8. t \in S
  BY DEF S
<1>9. \A h \in hits : h[1][2] - h[2] = Min(Closings(S, t))
  <2> SUFFICES ASSUME NEW h \in hits PROVE h[1][2] - h[2] = Min(Closings(S, t))
    OBVIOUS
  <2> DEFINE e == h[1][2] - h[2]
  <2>1. e \in 1 .. Week - 1 /\ ~ Cyclic(S, t + e) /\ \A k \in 0 .. e - 1 : Cyclic(S, t + k)
    <3>1. S \in SUBSET (0 .. Week - 1) /\ t \in S /\ h[2] \in {t, t + Week} /\ IsArc(S, h[1])
          /\ h[1][1] <= h[2] /\ h[2] < h[1][2]
      BY <1>1, <1>7, <1>8
    <3> DEFINE r == h[1]
               p == h[2]
    <3>2. S \in SUBSET (0 .. Week - 1) /\ t \in S /\ p \in {t, t + Week} /\ IsArc(S, r)
          /\ r[1] <= p /\ p < r[2] /\ e = r[2] - p
      BY <3>1
    <3> HIDE DEF hits, r, p, e
    <3>3. EndsIn(S, t, e)
      BY <3>2, ArcEnds
    <3>. QED
      BY <3>3 DEF EndsIn
  <2> HIDE DEF e
  <2>2. Closings(S, t) \in SUBSET Int
    BY DEF Closings
  <2>3. e \in Closings(S, t)
    BY <2>1, WeekIsNat DEF Closings
  <2>4. \A n \in Closings(S, t) : e <= n
    BY <2>1, WeekIsNat DEF Closings
  <2>5. Min(Closings(S, t)) = e
    BY <2>2, <2>3, <2>4, MinIs
  <2>. QED
    BY <2>5 DEF e
<1> DEFINE m == Min(Closings(S, t))
<1>10. {h[1][2] - h[2] : h \in hits} = {m}
  <2> HIDE DEF hits, m
  <2>1. \A h \in hits : h[1][2] - h[2] = m
    BY <1>9 DEF m
  <2>. QED
    BY <1>6, <2>1
<1>11. Min({m}) = m
  BY DEF Min
<1>12. hits # {}
  BY <1>6
<1>13. StateAt(ws, t) = Verdict(TRUE, 0, Min({h[1][2] - h[2] : h \in hits}))
  BY <1>2, <1>3, <1>12 DEF StateAt, ivs
<1>. QED
  BY <1>10, <1>11, <1>13 DEF S


\* From a slot outside, the start of any arc is an opening, and the next opening
\* is the start of an arc.
LEMMA StartIsOpening ==
  ASSUME NEW S \in SUBSET (0 .. Week - 1), NEW t \in 0 .. Week - 1, NEW q \in S
  PROVE  (q - t) % Week \in Openings(S, t)
<1>1. q \in 0 .. Week - 1
  OBVIOUS
<1>2. CASE t <= q
  <2>1. (q - t) % Week = q - t /\ t + (q - t) = q /\ q - t \in 0 .. Week - 1
    BY <1>1, <1>2, ModHere, WeekIsNat
  <2>. QED
    BY <2>1 DEF Openings, Cyclic
<1>3. CASE ~ (t <= q)
  <2>1. q - t \in -Week .. -1
    BY <1>1, <1>3, WeekIsNat
  <2>2. (q - t) % Week = q - t + Week
    BY <2>1, ModBelow, WeekIsNat
  <2> DEFINE k == q - t + Week
  <2>3. (t + k) - Week = q /\ k \in 0 .. Week - 1
    BY <1>1, <1>3, WeekIsNat
  <2> HIDE DEF k
  <2> DEFINE y == t + k
  <2>4. y - Week = q
    BY <2>3
  <2> HIDE DEF y
  <2>5. Cyclic(S, y)
    BY <2>4 DEF Cyclic
  <2>6. k \in Openings(S, t)
    BY <2>3, <2>5 DEF Openings, y
  <2>. QED
    BY <2>2, <2>6 DEF k
<1>. QED
  BY <1>2, <1>3

LEMMA NextIsStart ==
  ASSUME NEW S \in SUBSET (0 .. Week - 1), S # 0 .. Week - 1,
         NEW t \in 0 .. Week - 1, t \notin S,
         NEW o \in Openings(S, t), \A k \in Openings(S, t) : o <= k
  PROVE  \E r \in Seam(Runs(S)) : (r[1] - t) % Week = o
<1>1. o \in 0 .. Week - 1 /\ Cyclic(S, t + o)
  BY DEF Openings
<1>2. \A x \in S : x \in 0 .. Week - 1
  OBVIOUS
<1>3. o # 0
  BY <1>1, <1>2, WeekIsNat DEF Cyclic
<1>4. o - 1 \in 0 .. Week - 1 /\ ~ Cyclic(S, t + (o - 1))
  BY <1>1, <1>3, WeekIsNat DEF Openings
<1>5. \A x \in Int : x = t + (o - 1) => x \notin S /\ x - Week \notin S
  <2> SUFFICES ASSUME NEW x \in Int, x = t + (o - 1) PROVE x \notin S /\ x - Week \notin S
    OBVIOUS
  <2>1. ~ Cyclic(S, x)
    BY <1>4
  <2>. QED
    BY <2>1 DEF Cyclic
<1>6. CASE t + o < Week
  <2> DEFINE q == t + o
  <2>1. q \in S /\ q # 0 /\ q - 1 \notin S /\ q - t = o
    BY <1>1, <1>2, <1>3, <1>5, <1>6, WeekIsNat DEF Cyclic
  <2> HIDE DEF q
  <2>2. PICK r \in Seam(Runs(S)) : r[1] = q
    BY <2>1, ArcBegins
  <2>3. (q - t) % Week = o
    BY <1>1, <2>1, ModHere, WeekIsNat
  <2>. QED
    BY <2>2, <2>3
<1>7. CASE ~ (t + o < Week)
  <2> DEFINE q == t + o - Week
  <2>1. q \in S /\ q - t \in -Week .. -1 /\ q - t + Week = o
    BY <1>1, <1>2, <1>7, WeekIsNat DEF Cyclic
  <2>2. (IF q = 0 THEN Week - 1 ELSE q - 1) \notin S
    BY <1>1, <1>5, <1>7, WeekIsNat
  <2> HIDE DEF q
  <2>3. PICK r \in Seam(Runs(S)) : r[1] = q
    BY <2>1, <2>2, ArcBegins
  <2>4. (q - t) % Week = o
    BY <2>1, ModBelow, WeekIsNat
  <2>. QED
    BY <2>3, <2>4
<1>. QED
  BY <1>6, <1>7

LEMMA VerdictOutside ==
  ASSUME NEW ws \in SUBSET Window, NEW t \in 0 .. Week - 1, t \notin OpenSlots(ws),
         OpenSlots(ws) # {}
  PROVE  StateAt(ws, t) = Verdict(FALSE, Min(Openings(OpenSlots(ws), t)), 0)
<1> DEFINE S == OpenSlots(ws)
           ivs == Intervals(Normalized(ws))
           hits == {h \in ivs \X {t, t + Week} : h[1][1] <= h[2] /\ h[2] < h[1][2]}
           starts == {(r[1] - t) % Week : r \in ivs}
<1>1. S \in SUBSET (0 .. Week - 1) /\ ivs = Seam(Runs(S)) /\ S # 0 .. Week - 1 /\ S # {}
  BY IntervalsAreArcs DEF OpenSlots
<1>2. ivs # {<<0, Week>>} /\ ivs # {}
  BY <1>1, WholeWeek, NoArc
<1>3. Normalized(ws) # {}
  BY SomeWindow
<1>4. \A r \in ivs : IsArc(S, r)
  BY <1>1, ArcsAreArcs
<1> HIDE DEF S, ivs
<1>5. \A x \in S : x \in 0 .. Week - 1
  BY <1>1
<1>6. hits = {}
  <2> SUFFICES ASSUME NEW h \in hits PROVE FALSE
    OBVIOUS
  <2> DEFINE r == h[1]
             p == h[2]
  <2>1. p \in {t, t + Week} /\ r \in ivs /\ r[1] <= p /\ p < r[2] /\ IsArc(S, r)
    BY <1>4
  <2> HIDE DEF r, p, hits
  <2>2. r[1] \in S /\ r[2] \in 1 .. 2 * Week - 1
    BY <2>1 DEF IsArc
  <2>3. r[1] \in Nat /\ p \in Nat
    BY <1>5, <2>1, <2>2, WeekIsNat
  <2>4. p \in r[1] .. r[2] - 1
    BY <2>1, <2>2, <2>3, WeekIsNat
  <2>5. p \in S \/ p - Week \in S
    BY <2>1, <2>4 DEF IsArc, Cyclic
  <2>6. p - Week = t \/ p - Week < 0
    BY <2>1, WeekIsNat
  <2>7. p = t \/ p >= Week
    BY <2>1, WeekIsNat
  <2>. QED
    BY <1>5, <2>5, <2>6, <2>7, WeekIsNat DEF S
<1>7. \A r \in ivs : (r[1] - t) % Week \in Openings(S, t)
  BY <1>1, <1>4, StartIsOpening DEF IsArc
<1>8. Openings(S, t) \in SUBSET Nat
  BY WeekIsNat DEF Openings
<1>9. Openings(S, t) # {}
  BY <1>2, <1>7
<1>10. PICK o \in Openings(S, t) : \A k \in Openings(S, t) : o <= k
  BY <1>8, <1>9, Least
<1>11. Min(Openings(S, t)) = o
  <2>1. Openings(S, t) \in SUBSET Int
    BY <1>8
  <2>. QED
    BY <1>10, <2>1, MinIs
<1>12. PICK r \in ivs : (r[1] - t) % Week = o
  <2>1. t \notin S
    BY DEF S
  <2>. QED
    BY <1>1, <1>10, <2>1, NextIsStart
<1>13. Min(starts) = o
  <2>1. \A n \in starts : n \in Openings(S, t)
    BY <1>7
  <2>2. o \in starts
    BY <1>12
  <2> HIDE DEF starts
  <2>3. starts \in SUBSET Int
    BY <1>8, <2>1
  <2>. QED
    BY <1>10, <2>1, <2>2, <2>3, MinIs
<1>14. StateAt(ws, t) = Verdict(FALSE, Min(starts), 0)
  BY <1>2, <1>3, <1>6 DEF StateAt, ivs
<1>. QED
  BY <1>11, <1>13, <1>14 DEF S

\* What the windows say of a slot of the next lap they say of the slot of this one.
LEMMA OpenIsCyclic ==
  ASSUME NEW ws \in SUBSET Window, NEW x \in 0 .. 2 * Week - 1
  PROVE  IsOpen(ws, x) <=> Cyclic(OpenSlots(ws), x)
<1> DEFINE S == OpenSlots(ws)
<1>1. \A y \in S : y \in 0 .. Week - 1
  BY DEF OpenSlots
<1>2. CASE x < Week
  <2>1. x \in 0 .. Week - 1 /\ x - Week < 0
    BY <1>2, WeekIsNat
  <2>2. x - Week \notin S
    BY <1>1, <2>1, WeekIsNat
  <2>. QED
    BY <2>1, <2>2 DEF Cyclic, OpenSlots
<1>3. CASE ~ (x < Week)
  <2> DEFINE y == x - Week
  <2>1. y \in 0 .. Week - 1 /\ x = y + Week /\ x \notin S
    BY <1>1, <1>3, WeekIsNat
  <2> HIDE DEF y
  <2>2. ASSUME NEW w \in ws, NEW d \in w.days
        PROVE  (x - d * DayLen - w.start) % Week = (y - d * DayLen - w.start) % Week
    <3>1. w \in Window /\ d \in 0 .. Days - 1
      BY DEF Window
    <3> DEFINE a == d * DayLen + w.start
    <3>2. a \in 0 .. Week /\ x - d * DayLen - w.start = y - a + Week
          /\ y - d * DayLen - w.start = y - a
      BY <2>1, <3>1, DayInWeek, WeekIsNat DEF Window
    <3> HIDE DEF a
    <3>3. CASE a <= y
      <4>1. y - a \in 0 .. Week - 1 /\ y - a + Week \in Week .. 2 * Week - 1 /\ y - a + Week - Week = y - a
        BY <2>1, <3>2, <3>3, WeekIsNat
      <4>. QED
        BY <3>2, <4>1, ModHere, ModAbove, WeekIsNat
    <3>4. CASE ~ (a <= y)
      <4>1. y - a \in -Week .. -1 /\ y - a + Week \in 0 .. Week - 1
        BY <2>1, <3>2, <3>4, WeekIsNat
      <4>. QED
        BY <3>2, <4>1, ModHere, ModBelow, WeekIsNat
    <3>. QED
      BY <3>3, <3>4
  <2>3. IsOpen(ws, x) <=> IsOpen(ws, y)
    BY <2>2 DEF IsOpen
  <2>4. IsOpen(ws, y) <=> y \in S
    BY <2>1 DEF OpenSlots
  <2>. QED
    BY <2>1, <2>3, <2>4 DEF Cyclic, y
<1>. QED
  BY <1>2, <1>3

\* For every set of windows and every slot of the week: what state_at computes by
\* way of intervals and their seam is what the windows say, one by one.
LEMMA ClockIsRead ==
  ASSUME NEW ws \in SUBSET Window, NEW t \in 0 .. Week - 1
  PROVE  TellsTheClock(ws, t)
<1> DEFINE S == OpenSlots(ws)
           v == StateAt(ws, t)
           opens(k) == IsOpen(ws, t + k)
           closes(k) == ~ opens(k)
           none == Normalized(ws) = {}
           ever == none \/ \E k \in 0 .. Week - 1 : opens(k)
           bar == ~ none /\ \E k \in 0 .. Week - 1 : closes(k)
           ToOpen == {k \in 0 .. Week - 1 : opens(k)}
           ToClose == {k \in 0 .. Week - 1 : closes(k)}
<1>1. \A k \in 0 .. Week - 1 : opens(k) <=> Cyclic(S, t + k)
  <2> TAKE k \in 0 .. Week - 1
  <2>1. t + k \in 0 .. 2 * Week - 1
    BY WeekIsNat
  <2>. QED
    BY <2>1, OpenIsCyclic
<1>2. ToOpen = Openings(S, t) /\ ToClose = Closings(S, t)
  <2> HIDE DEF opens, S
  <2>. QED
    BY <1>1 DEF Openings, Closings
<1>3. S \in SUBSET (0 .. Week - 1)
  BY DEF OpenSlots
<1>4. opens(0) <=> t \in S
  <2>1. t + 0 = t
    BY WeekIsNat
  <2>. QED
    BY <2>1 DEF OpenSlots
<1>5. (0 \in ToOpen <=> t \in S) /\ (0 \in ToClose <=> t \notin S)
  <2>1. 0 \in 0 .. Week - 1
    BY WeekIsNat
  <2> HIDE DEF opens, S
  <2>. QED
    BY <1>4, <2>1
<1> HIDE DEF S, ToOpen, ToClose
<1>6. S # {} => ToOpen # {}
  BY <1>2, <1>3, StartIsOpening
<1>7. TellsTheClock(ws, t) <=>
        /\ v.is_comfort = (none \/ opens(0))
        /\ v.to_comfort = IF ever /\ bar THEN (IF ToOpen # {} THEN Min(ToOpen) ELSE NoEdge) ELSE NoEdge
        /\ v.to_setback = IF ever /\ bar THEN (IF ToClose # {} THEN Min(ToClose) ELSE NoEdge) ELSE NoEdge
  BY DEF TellsTheClock, Ahead, ToOpen, ToClose
<1>8. (ever <=> none \/ ToOpen # {}) /\ (bar <=> ~ none /\ ToClose # {})
  BY DEF ToOpen, ToClose
<1>9. (S = 0 .. Week - 1 => ToClose = {}) /\ (S = {} => ToOpen = {})
  <2>1. ASSUME S = 0 .. Week - 1, NEW k \in 0 .. Week - 1 PROVE Cyclic(S, t + k)
    <3> DEFINE x == t + k
    <3>1. x \in 0 .. Week - 1 \/ x - Week \in 0 .. Week - 1
      BY WeekIsNat
    <3> HIDE DEF x
    <3>2. Cyclic(S, x)
      BY <2>1, <3>1 DEF Cyclic
    <3>. QED
      BY <3>2 DEF x
  <2>2. S = {} => \A k : ~ Cyclic(S, t + k)
    BY DEF Cyclic
  <2>. QED
    BY <1>2, <2>1, <2>2 DEF Openings, Closings
<1> DEFINE clock == Intervals(Normalized(ws))
<1>10. clock = Seam(Runs(S))
  BY IntervalsAreArcs DEF S
<1>11. none => v = Verdict(TRUE, NoEdge, NoEdge)
  BY DEF StateAt
<1>12. S = 0 .. Week - 1 => v = Verdict(TRUE, NoEdge, NoEdge)
  BY <1>3, <1>10, WholeWeek DEF StateAt
<1>13. ~ none /\ S = {} => v = Verdict(FALSE, NoEdge, NoEdge)
  <2> SUFFICES ASSUME ~ none, S = {} PROVE v = Verdict(FALSE, NoEdge, NoEdge)
    OBVIOUS
  <2> HIDE DEF clock
  <2>1. clock = {}
    BY <1>3, <1>10, NoArc
  <2>2. clock # {<<0, Week>>}
    BY <2>1
  <2>. QED
    BY <2>1, <2>2 DEF StateAt, clock
<1>14. t \in S /\ S # 0 .. Week - 1 => v = Verdict(TRUE, 0, Min(ToClose))
  BY <1>2, VerdictInside DEF S
<1>15. t \notin S /\ S # {} => v = Verdict(FALSE, Min(ToOpen), 0)
  BY <1>2, VerdictOutside DEF S
<1>16. S # {} => ~ none
  BY SomeWindow DEF S
<1>17. (0 \in ToOpen => Min(ToOpen) = 0) /\ (0 \in ToClose => Min(ToClose) = 0)
  <2>1. ToOpen \in SUBSET Int /\ ToClose \in SUBSET Int
    BY DEF ToOpen, ToClose
  <2>2. \A k \in ToOpen : 0 <= k
    BY WeekIsNat DEF ToOpen
  <2>3. \A k \in ToClose : 0 <= k
    BY WeekIsNat DEF ToClose
  <2>. QED
    BY <2>1, <2>2, <2>3, MinIs
<1>18. t \in S /\ S # 0 .. Week - 1 => ToClose # {}
  <2> SUFFICES ASSUME t \in S, S # 0 .. Week - 1 PROVE ToClose # {}
    OBVIOUS
  <2>1. PICK r \in Seam(Runs(S)), p \in {t, t + Week} : r[1] <= p /\ p < r[2]
    BY <1>3, ArcAround
  <2>2. IsArc(S, r)
    BY <1>3, ArcsAreArcs
  <2> DEFINE e == r[2] - p
  <2>3. EndsIn(S, t, e)
    BY <1>3, <2>1, <2>2, ArcEnds
  <2> HIDE DEF e
  <2>4. e \in Closings(S, t)
    BY <2>3 DEF EndsIn, Closings
  <2>. QED
    BY <1>2, <2>4
<1> DEFINE held == opens(0)
<1> HIDE DEF v, none, ever, bar, opens, closes
<1>19. CASE none
  <2>1. v.is_comfort = TRUE /\ v.to_comfort = NoEdge /\ v.to_setback = NoEdge
    BY <1>11, <1>19 DEF Verdict
  <2>2. ~ (ever /\ bar)
    BY <1>8, <1>19
  <2>3. (none \/ held) = TRUE
    BY <1>19
  <2>. QED
    BY <1>7, <2>1, <2>2, <2>3
<1>20. CASE ~ none /\ S = 0 .. Week - 1
  <2>1. v.is_comfort = TRUE /\ v.to_comfort = NoEdge /\ v.to_setback = NoEdge
    BY <1>12, <1>20 DEF Verdict
  <2>2. ~ (ever /\ bar)
    BY <1>8, <1>9, <1>20
  <2>3. (none \/ held) = TRUE
    BY <1>4, <1>20
  <2>. QED
    BY <1>7, <2>1, <2>2, <2>3
<1>21. CASE ~ none /\ S = {}
  <2>1. v.is_comfort = FALSE /\ v.to_comfort = NoEdge /\ v.to_setback = NoEdge
    BY <1>13, <1>21 DEF Verdict
  <2>2. ~ (ever /\ bar)
    BY <1>8, <1>9, <1>21
  <2>3. (none \/ held) = FALSE
    BY <1>4, <1>21
  <2>. QED
    BY <1>7, <2>1, <2>2, <2>3
<1>22. CASE t \in S /\ S # 0 .. Week - 1
  <2>1. ToOpen # {} /\ Min(ToOpen) = 0 /\ ToClose # {} /\ ~ none
    BY <1>5, <1>16, <1>17, <1>18, <1>22
  <2>2. v.is_comfort = TRUE /\ v.to_comfort = Min(ToOpen) /\ v.to_setback = Min(ToClose)
    BY <1>14, <1>22, <2>1 DEF Verdict
  <2>3. ever /\ bar
    BY <1>8, <2>1
  <2>4. (none \/ held) = TRUE
    BY <1>4, <1>22
  <2>. QED
    BY <1>7, <2>1, <2>2, <2>3, <2>4
<1>23. CASE t \notin S /\ S # {}
  <2>1. ToClose # {} /\ Min(ToClose) = 0 /\ ToOpen # {} /\ ~ none
    BY <1>5, <1>6, <1>16, <1>17, <1>23
  <2>2. v.is_comfort = FALSE /\ v.to_comfort = Min(ToOpen) /\ v.to_setback = Min(ToClose)
    BY <1>15, <1>23, <2>1 DEF Verdict
  <2>3. ever /\ bar
    BY <1>8, <2>1
  <2>4. (none \/ held) = FALSE
    BY <1>4, <1>23, <2>1
  <2>. QED
    BY <1>7, <2>1, <2>2, <2>3, <2>4
<1>. QED
  <2>1. S # {} \/ 0 .. Week - 1 = S \/ S = {}
    OBVIOUS
  <2>2. t \in S => S # {}
    OBVIOUS
  <2>. QED
    BY <1>19, <1>20, <1>21, <1>22, <1>23, <2>1, <2>2
LEMMA MinOf ==
  ASSUME NEW T \in SUBSET Nat, T # {}
  PROVE  Min(T) \in T /\ \A n \in T : Min(T) <= n
<1>1. PICK m \in T : \A n \in T : m <= n
  BY Least
<1>2. Min(T) = m
  BY <1>1, MinIs
<1>. QED
  BY <1>1, <1>2

\* What is open from a slot on, and what the verdict says then.
OpenFrom(ws, t) == {k \in 0 .. Week - 1 : IsOpen(ws, t + k)}

LEMMA FirstOpen ==
  ASSUME NEW ws \in SUBSET Window, NEW t \in 0 .. Week - 1
  PROVE  LET v == StateAt(ws, t)
         IN  /\ v.is_comfort \in BOOLEAN
             /\ v.is_comfort <=> Normalized(ws) = {} \/ 0 \in OpenFrom(ws, t)
             /\ ~ v.is_comfort =>
                  v.to_comfort = IF OpenFrom(ws, t) # {} THEN Min(OpenFrom(ws, t)) ELSE NoEdge
             /\ v.to_comfort \in Nat \cup {NoEdge} /\ v.to_setback \in Nat \cup {NoEdge}
<1> DEFINE v == StateAt(ws, t)
           opens(k) == IsOpen(ws, t + k)
           closes(k) == ~ opens(k)
           none == Normalized(ws) = {}
           ever == none \/ \E k \in 0 .. Week - 1 : opens(k)
           bar == ~ none /\ \E k \in 0 .. Week - 1 : closes(k)
           ToOpen == {k \in 0 .. Week - 1 : opens(k)}
           ToClose == {k \in 0 .. Week - 1 : closes(k)}
<1>1. /\ v.is_comfort = (none \/ opens(0))
      /\ v.to_comfort = IF ever /\ bar THEN (IF ToOpen # {} THEN Min(ToOpen) ELSE NoEdge) ELSE NoEdge
      /\ v.to_setback = IF ever /\ bar THEN (IF ToClose # {} THEN Min(ToClose) ELSE NoEdge) ELSE NoEdge
  BY ClockIsRead DEF TellsTheClock, Ahead
<1>2. ToOpen = OpenFrom(ws, t) /\ ToOpen \in SUBSET Nat /\ ToClose \in SUBSET Nat
  BY WeekIsNat DEF OpenFrom
<1>3. 0 \in 0 .. Week - 1
  BY WeekIsNat
<1>4. (0 \in ToOpen <=> opens(0)) /\ (~ none /\ ~ opens(0) => bar)
  <2> HIDE DEF opens, none
  <2>. QED
    BY <1>3
<1>5. (ToOpen # {} => ever) /\ (ToOpen # {} => Min(ToOpen) \in Nat) /\ (ToClose # {} => Min(ToClose) \in Nat)
  <2>1. (ToOpen # {} => Min(ToOpen) \in Nat) /\ (ToClose # {} => Min(ToClose) \in Nat)
    <3> HIDE DEF ToOpen, ToClose
    <3>. QED
      BY <1>2, MinOf
  <2>. QED
    BY <2>1
<1> DEFINE held == opens(0)
<1>6. v.is_comfort = (none \/ held)
  BY <1>1
<1> HIDE DEF v, held, opens, none, ever, bar, ToOpen, ToClose
<1>7. (v.is_comfort \in BOOLEAN) /\ (v.is_comfort <=> none \/ held)
  BY <1>6
<1>8. ~ v.is_comfort => v.to_comfort = IF ToOpen # {} THEN Min(ToOpen) ELSE NoEdge
  BY <1>1, <1>4, <1>5, <1>7 DEF held
<1>9. v.to_comfort \in Nat \cup {NoEdge} /\ v.to_setback \in Nat \cup {NoEdge}
  BY <1>1, <1>5
<1>. QED
  BY <1>2, <1>4, <1>7, <1>8, <1>9 DEF v, none, held

\* A lap later, and from the next slot on, the same is open.
LEMMA NextSlot ==
  ASSUME NEW ws \in SUBSET Window, NEW t \in 0 .. Week - 1
  PROVE  /\ (t + 1) % Week \in 0 .. Week - 1
         /\ \A k \in 0 .. Week - 1 : IsOpen(ws, ((t + 1) % Week) + k) <=> IsOpen(ws, (t + 1) + k)
         /\ IsOpen(ws, t + Week) <=> IsOpen(ws, t + 0)
<1>1. Cyclic(OpenSlots(ws), t + Week) <=> Cyclic(OpenSlots(ws), t)
  <2>1. (t + Week) - Week = t /\ t + Week \notin 0 .. Week - 1 /\ t - Week \notin 0 .. Week - 1
    BY WeekIsNat
  <2>. QED
    BY <2>1 DEF Cyclic, OpenSlots
<1>2. t + Week \in 0 .. 2 * Week - 1 /\ t \in 0 .. 2 * Week - 1 /\ t + 0 = t
  BY WeekIsNat
<1>3. IsOpen(ws, t + Week) <=> IsOpen(ws, t + 0)
  BY <1>1, <1>2, OpenIsCyclic
<1>4. CASE t + 1 < Week
  <2>1. (t + 1) % Week = t + 1
    BY <1>4, WeekIsNat
  <2>. QED
    BY <1>3, <1>4, <2>1, WeekIsNat
<1>5. CASE t = Week - 1
  <2>1. (t + 1) % Week = 0
    BY <1>5, WeekIsNat
  <2>2. ASSUME NEW k \in 0 .. Week - 1
        PROVE  IsOpen(ws, 0 + k) <=> IsOpen(ws, (t + 1) + k)
    <3>1. 0 + k = k /\ (t + 1) + k = Week + k /\ k \in 0 .. 2 * Week - 1 /\ Week + k \in 0 .. 2 * Week - 1
      BY <1>5, WeekIsNat
    <3>2. (Week + k) - Week = k /\ Week + k \notin 0 .. Week - 1 /\ k - Week \notin 0 .. Week - 1
      BY WeekIsNat
    <3>3. Cyclic(OpenSlots(ws), Week + k) <=> Cyclic(OpenSlots(ws), k)
      BY <3>2 DEF Cyclic, OpenSlots
    <3>. QED
      BY <3>1, <3>3, OpenIsCyclic
  <2>. QED
    BY <1>3, <2>1, <2>2, WeekIsNat
<1>. QED
  BY <1>4, <1>5, WeekIsNat

\* Outside the windows the time to the next opening counts down, slot by slot.
LEMMA CountsDown ==
  ASSUME NEW ws \in SUBSET Window, NEW t \in 0 .. Week - 1, ~ StateAt(ws, t).is_comfort
  PROVE  LET d == StateAt(ws, t).to_comfort
             v == StateAt(ws, (t + 1) % Week)
         IN  /\ d # NoEdge => d \in Nat \ {0}
             /\ v.is_comfort => d = 1
             /\ ~ v.is_comfort /\ v.to_comfort # NoEdge => d = v.to_comfort + 1
<1> DEFINE u == (t + 1) % Week
           A == OpenFrom(ws, t)
           B == OpenFrom(ws, u)
           d == StateAt(ws, t).to_comfort
           v == StateAt(ws, u)
           opens(k) == IsOpen(ws, t + k)
<1>1. u \in 0 .. Week - 1
  BY NextSlot
<1>2. /\ Normalized(ws) # {} /\ 0 \notin A
      /\ d = IF A # {} THEN Min(A) ELSE NoEdge
  BY FirstOpen
<1>3. /\ v.is_comfort <=> 0 \in B
      /\ ~ v.is_comfort => v.to_comfort = IF B # {} THEN Min(B) ELSE NoEdge
  BY <1>1, <1>2, FirstOpen
<1>4. A \in SUBSET Nat /\ B \in SUBSET Nat /\ Week \in Nat \ {0}
  BY WeekIsNat DEF OpenFrom
<1>5. /\ \A k \in 0 .. Week - 1 : k \in A <=> opens(k)
      /\ A \subseteq 0 .. Week - 1 /\ B \subseteq 0 .. Week - 1
  BY DEF OpenFrom
<1>6. \A k \in 0 .. Week - 1 : k \in B <=> opens(k + 1)
  <2> SUFFICES ASSUME NEW k \in 0 .. Week - 1 PROVE k \in B <=> opens(k + 1)
    OBVIOUS
  <2>1. (t + 1) + k = t + (k + 1)
    BY WeekIsNat
  <2>. QED
    BY <2>1, NextSlot DEF OpenFrom
<1>7. opens(Week) <=> opens(0)
  BY NextSlot
<1> HIDE DEF A, B, u, v, d, opens
<1>8. \A k \in 0 .. Week - 1 : k \in B <=> k + 1 \in A
  <2> SUFFICES ASSUME NEW k \in 0 .. Week - 1 PROVE k \in B <=> k + 1 \in A
    OBVIOUS
  <2>1. CASE k + 1 \in 0 .. Week - 1
    BY <1>5, <1>6, <2>1
  <2>2. CASE k + 1 = Week
    <3>1. ~ opens(0) /\ Week \notin 0 .. Week - 1
      BY <1>2, <1>4, <1>5
    <3>. QED
      BY <1>5, <1>6, <1>7, <2>2, <3>1
  <2>. QED
    BY <1>4, <2>1, <2>2
<1>9. d # NoEdge => d \in Nat \ {0}
  BY <1>2, <1>4, MinOf
<1>10. v.is_comfort => d = 1
  <2> SUFFICES ASSUME v.is_comfort PROVE d = 1
    OBVIOUS
  <2>1. 1 \in A
    BY <1>3, <1>4, <1>8
  <2>2. \A n \in A : 1 <= n
    BY <1>2, <1>4
  <2>3. Min(A) = 1
    BY <1>4, <2>1, <2>2, MinIs
  <2>. QED
    BY <1>2, <2>1, <2>3
<1>11. ~ v.is_comfort /\ v.to_comfort # NoEdge => d = v.to_comfort + 1
  <2> SUFFICES ASSUME ~ v.is_comfort, v.to_comfort # NoEdge PROVE d = v.to_comfort + 1
    OBVIOUS
  <2> DEFINE m == Min(B)
  <2>1. v.to_comfort = m /\ B # {}
    BY <1>3
  <2>2. m \in B /\ \A n \in B : m <= n
    BY <1>4, <2>1, MinOf
  <2> HIDE DEF m
  <2>3. m + 1 \in A /\ m \in Nat
    BY <1>4, <1>5, <1>8, <2>2
  <2>4. ASSUME NEW n \in A PROVE m + 1 <= n
    <3>1. n \in 1 .. Week - 1
      BY <1>2, <1>4, <1>5
    <3>2. n - 1 \in 0 .. Week - 1 /\ (n - 1) + 1 = n
      BY <1>4, <3>1
    <3>3. n - 1 \in B
      BY <1>8, <3>2
    <3>. QED
      BY <2>2, <2>3, <3>1, <3>3
  <2>5. Min(A) = m + 1
    BY <1>4, <2>3, <2>4, MinIs
  <2>. QED
    BY <1>2, <2>1, <2>3, <2>5
<1>. QED
  BY <1>9, <1>10, <1>11 DEF d, v, u

-----------------------------------------------------------------------------
(* The hold *)

LEMMA PlanFacts ==
  /\ NoEdge = None /\ None \notin Int /\ None \notin Presets /\ None \notin Modes
  /\ "none" \in Presets /\ Presets \subseteq {"none", "eco", "boost", "away"}
  /\ Homes \subseteq {"home", "away", "unknown"}
  /\ TimerFor \in Nat \ {0} /\ MaxFor \in Nat \ {0} /\ Longest \in Nat \ {0}
  /\ TimerFor <= Longest /\ MaxFor <= Longest
  /\ BoostFor \in Nat \ {0} /\ AbsenceAfter \in Nat \ {0} /\ MaxLead \in Nat
  /\ Rooms \subseteq Int /\ Schedules \subseteq SUBSET Window
BY PartsAssumption, HoldAssumption, ClockAssumption DEF PlanAssumption, HoldAssumption, WeekAssumption, Longest

LEMMA LevelFacts ==
  /\ ComfortBase \in Int /\ SetbackBy \in Int /\ EcoBy \in Int /\ BoostBy \in Int
  /\ EcoDelta \in Int /\ AwayOffset \in Int /\ CoastLower \in Int /\ CoastReady \in Int
  /\ HeldAt \in Int
BY PartsAssumption DEF PlanAssumption

LEMMA NoHoldIsHold == NoHold \in Hold /\ NoHold.sp = FALSE
BY PlanFacts DEF NoHold, Hold

LEMMA AgedHoldKept ==
  ASSUME NEW h \in Hold
  PROVE  AgedHold(h, 1) \in Hold /\ AgedHold(h, 1).sp = h.sp
<1> DEFINE s == IF h.set = None THEN None ELSE Lesser(h.set + 1, Longest)
           l == IF h.left = None THEN None ELSE Less(h.left, 1)
<1>1. h.set \in (0 .. Longest) \cup {None} /\ h.left \in (0 .. Longest) \cup {None}
  BY DEF Hold
<1>2. s \in (0 .. Longest) \cup {None} /\ l \in (0 .. Longest) \cup {None}
  BY <1>1, PlanFacts DEF Lesser, Less
<1>3. AgedHold(h, 1) = [h EXCEPT !.set = s, !.left = l]
  BY DEF AgedHold
<1> HIDE DEF s, l
<1>. QED
  BY <1>2, <1>3 DEF Hold

LEMMA EndedHoldKept ==
  ASSUME NEW h \in Hold, NEW f, NEW e
  PROVE  /\ ExpireHold(h, f) \in Hold /\ (ExpireHold(h, f).sp => h.sp)
         /\ EndAtPreheat(h, "schedule", e) \in Hold /\ (EndAtPreheat(h, "schedule", e).sp => h.sp)
         /\ ClearOverride(h) \in Hold /\ ClearOverride(h).sp = FALSE
<1>1. [h EXCEPT !.sp = FALSE] \in Hold /\ [h EXCEPT !.sp = FALSE].sp = FALSE
  BY DEF Hold
<1>. QED
  BY <1>1, NoHoldIsHold DEF ExpireHold, EndAtPreheat, ClearOverride

LEMMA ExpiryKept ==
  ASSUME NEW m \in Nat \cup {None}
  PROVE  ResolveHoldExpiry("schedule", m) \in 0 .. Longest
<1>1. Lesser(IF IsPoint(m) THEN m ELSE TimerFor, MaxFor) \in 0 .. Longest
  BY PlanFacts DEF Lesser, IsPoint
<1>. QED
  BY <1>1 DEF ResolveHoldExpiry

LEMMA TakenHoldKept ==
  ASSUME NEW h \in Hold, NEW m \in Nat \cup {None}
  PROVE  /\ SetOverride(h, "schedule", m) \in Hold
         /\ RestoreHold(h, "schedule", m) \in Hold /\ RestoreHold(h, "schedule", m).sp = h.sp
<1> DEFINE e == ResolveHoldExpiry("schedule", m)
           q == IsPoint(m) /\ m <= MaxFor
<1>1. e \in 0 .. Longest /\ 0 \in 0 .. Longest
  BY ExpiryKept, PlanFacts
<1>2. q \in BOOLEAN
  OBVIOUS
<1>3. Announce(h, "schedule", m) = [h EXCEPT !.set = 0, !.left = e, !.point = q]
  BY DEF Announce
<1> HIDE DEF e, q
<1>4. SetOverride(h, "schedule", m) \in Hold
  BY <1>1, <1>2, <1>3 DEF SetOverride, Hold
<1>5. RestoreHold(h, "schedule", m) \in Hold /\ RestoreHold(h, "schedule", m).sp = h.sp
  <2>1. CASE Held(h) /\ h.left = None /\ h.set # None /\ e # None
    <3> DEFINE l == Less(e, h.set)
    <3>1. h.set \in 0 .. Longest
      BY <2>1 DEF Hold
    <3>2. l \in 0 .. Longest
      BY <1>1, <3>1, PlanFacts DEF Less
    <3>3. RestoreHold(h, "schedule", m) = [h EXCEPT !.left = l]
      BY <2>1 DEF RestoreHold, e
    <3> HIDE DEF l
    <3>. QED
      BY <3>2, <3>3 DEF Hold
  <2>2. CASE ~ (Held(h) /\ h.left = None /\ h.set # None /\ e # None)
    BY <2>2 DEF RestoreHold, e
  <2>. QED
    BY <2>1, <2>2
<1>. QED
  BY <1>4, <1>5

LEMMA TablesAreRead ==
  ASSUME NEW ws \in Schedules, NEW t \in 0 .. Week - 1
  PROVE  /\ Verdicts[ws][t] = StateAt(ws, t)
         /\ SwitchPoints[ws][t] \in Nat \cup {None}
<1>1. Verdicts[ws][t] = StateAt(ws, t) /\ SwitchPoints[ws][t] = SwitchPoint(ws, t)
  BY DEF Verdicts, SwitchPoints
<1>2. ws \in SUBSET Window
  BY PlanFacts
<1> DEFINE st == StateAt(ws, t)
           edges == {m \in {st.to_comfort, st.to_setback} : m # NoEdge /\ m # 0}
<1>3. st.to_comfort \in Nat \cup {NoEdge} /\ st.to_setback \in Nat \cup {NoEdge}
  BY <1>2, FirstOpen
<1> HIDE DEF st
<1>4. edges \in SUBSET Nat
  BY <1>3
<1> HIDE DEF edges
<1>5. edges # {} => Min(edges) \in Nat
  BY <1>4, MinOf
<1>6. SwitchPoint(ws, t) = IF edges = {} THEN NoEdge ELSE Min(edges)
  BY DEF SwitchPoint, edges, st
<1>. QED
  BY <1>1, <1>5, <1>6, PlanFacts

-----------------------------------------------------------------------------
(* The user's presets *)

UserType ==
  [preset : Presets, prev : (Presets \ {"boost"}) \cup {None}, boost : (0 .. BoostFor) \cup {None},
   hold : Hold]

\* BoostIsGivenBack, of a user and the preset chosen.
GivenBack(u, chosen) ==
  IF u.preset = "boost" THEN u.boost # None /\ u.prev = chosen
  ELSE u.preset = chosen /\ u.boost = None

LEMMA SetPresetKept ==
  ASSUME NEW u \in UserType, NEW p \in Presets
  PROVE  LET v == SetPreset(u, p)
         IN  /\ v \in UserType /\ v.preset = p /\ v.hold = u.hold
             /\ p = "boost" => v.boost # None /\ v.prev = IF u.preset = "boost" THEN u.prev ELSE u.preset
             /\ p # "boost" => v.boost = None /\ v.prev = None
<1>1. BoostFor \in 0 .. BoostFor /\ BoostFor # None
  BY PlanFacts
<1> DEFINE q == IF u.preset = "boost" THEN u.prev ELSE u.preset
<1>2. q \in (Presets \ {"boost"}) \cup {None}
  BY DEF UserType
<1>3. CASE p = "boost"
  <2>1. SetPreset(u, p) = [u EXCEPT !.preset = p, !.boost = BoostFor, !.prev = q]
    BY <1>3 DEF SetPreset
  <2> HIDE DEF q
  <2>2. /\ SetPreset(u, p) \in UserType /\ SetPreset(u, p).preset = p /\ SetPreset(u, p).hold = u.hold
        /\ SetPreset(u, p).boost = BoostFor /\ SetPreset(u, p).prev = q
    BY <1>1, <1>2, <2>1 DEF UserType
  <2>. QED
    BY <1>1, <1>3, <2>2 DEF q
<1>4. CASE p # "boost"
  <2>1. SetPreset(u, p) = [u EXCEPT !.preset = p, !.prev = None, !.boost = None]
    BY <1>4 DEF SetPreset
  <2>. QED
    BY <1>4, <2>1 DEF UserType
<1>. QED
  BY <1>3, <1>4

LEMMA AgedUserKept ==
  ASSUME NEW u \in UserType
  PROVE  LET v == AgedUser(u, 1)
         IN  /\ v \in UserType /\ v.preset = u.preset /\ v.prev = u.prev
             /\ v.boost = None <=> u.boost = None
             /\ v.hold.sp = u.hold.sp
<1> DEFINE h == AgedHold(u.hold, 1)
           b == IF u.boost = None THEN None ELSE Less(u.boost, 1)
<1>1. u.hold \in Hold /\ u.boost \in (0 .. BoostFor) \cup {None}
  BY DEF UserType
<1>2. h \in Hold /\ h.sp = u.hold.sp
  BY <1>1, AgedHoldKept
<1>3. b \in (0 .. BoostFor) \cup {None} /\ (b = None <=> u.boost = None)
  BY <1>1, PlanFacts DEF Less
<1>4. AgedUser(u, 1) = [u EXCEPT !.hold = h, !.boost = b]
  BY DEF AgedUser
<1> HIDE DEF h, b
<1>. QED
  BY <1>2, <1>3, <1>4 DEF UserType

LEMMA ExpiredKept ==
  ASSUME NEW u \in UserType, NEW f, NEW c \in Presets \ {"boost"}, GivenBack(u, c)
  PROVE  LET v == Expired(u, f)
         IN  v \in UserType /\ GivenBack(v, c) /\ (v.hold.sp => u.hold.sp)
<1> DEFINE back == IF u.prev = None THEN NoPreset ELSE u.prev
           w == IF u.boost = 0 THEN SetPreset(u, back) ELSE u
           h == ExpireHold(w.hold, f)
<1>1. back \in Presets
  BY PlanFacts DEF UserType, NoPreset
<1>2. w \in UserType /\ w.hold = u.hold
  BY <1>1, SetPresetKept
<1>3. GivenBack(w, c)
  <2>1. CASE u.boost = 0
    <3>1. u.preset = "boost" /\ u.prev = c
      BY <2>1, PlanFacts DEF GivenBack
    <3>2. back = c /\ back # "boost"
      BY <3>1, PlanFacts
    <3>3. w = SetPreset(u, back)
      BY <2>1
    <3> HIDE DEF w, back
    <3>4. w.preset = c /\ w.boost = None
      BY <1>1, <3>2, <3>3, SetPresetKept
    <3>. QED
      BY <3>4 DEF GivenBack
  <2>2. CASE u.boost # 0
    BY <2>2
  <2>. QED
    BY <2>1, <2>2
<1>4. w.hold \in Hold
  BY <1>2 DEF UserType
<1> HIDE DEF w
<1>5. h \in Hold /\ (h.sp => w.hold.sp)
  BY <1>4, EndedHoldKept
<1>6. Expired(u, f) = [w EXCEPT !.hold = h]
  BY DEF Expired, w
<1> HIDE DEF h
<1>. QED
  BY <1>2, <1>3, <1>5, <1>6 DEF UserType, GivenBack

-----------------------------------------------------------------------------
(* The plan *)

LEMMA BaseIsLevel == ASSUME NEW p PROVE BaseOf(p) \in Int
<1>1. ComfortBase - EcoBy \in Int /\ ComfortBase + BoostBy \in Int /\ ComfortBase \in Int
  BY LevelFacts
<1>2. CASE p = "eco"
  <2>1. BaseOf(p) = ComfortBase - EcoBy
    BY <1>2, Zenon DEF BaseOf
  <2>. QED
    BY <1>1, <2>1
<1>3. CASE p = "boost"
  <2>1. BaseOf(p) = ComfortBase + BoostBy
    BY <1>3 DEF BaseOf
  <2>. QED
    BY <1>1, <2>1
<1>4. CASE p # "eco" /\ p # "boost"
  <2>1. BaseOf(p) = ComfortBase
    BY <1>4 DEF BaseOf
  <2>. QED
    BY <1>1, <2>1
<1>. QED
  BY <1>2, <1>3, <1>4

LEMMA NotWidened == Widened("comfort") = 0
BY DEF Widened

\* What the predictive plan decides, and from what.
LEMMA PlanIs ==
  ASSUME NEW r \in Int, NEW want \in Int, NEW st, NEW away \in BOOLEAN, latches.coasting \in BOOLEAN
  PROVE  LET p == PlanPreheat(r, want, st, away)
         IN  /\ p.base \in Int /\ p.preheating \in BOOLEAN /\ p.coasting \in BOOLEAN
             /\ p.preheating => ~ away
             /\ p.coasting => st.is_comfort /\ (latches.coasting \/ r >= want - CoastReady)
             /\ ~ st.is_comfort /\ ~ away /\ st.to_comfort # NoEdge
                  /\ StartNow(r, want, st.to_comfort) => p.base = want
<1>1. want - SetbackBy \in Int /\ CoastLower \in Int
  BY LevelFacts
<1> DEFINE cs == st.to_setback # NoEdge /\ Coasts(r, want, st, latches.coasting)
           hs == Preheats(r, want, st, away, latches.preheating)
<1>2. PlanPreheat(r, want, st, away) =
        IF st.is_comfort
        THEN IF cs THEN Plan(CoastLower, FALSE, TRUE) ELSE Plan(want, FALSE, FALSE)
        ELSE IF hs THEN Plan(want, TRUE, FALSE) ELSE Plan(want - SetbackBy, FALSE, FALSE)
  BY DEF PlanPreheat
<1>3. cs => latches.coasting \/ r >= want - CoastReady
  BY DEF Coasts
<1>4. /\ hs => ~ away
      /\ ~ away /\ st.to_comfort # NoEdge /\ StartNow(r, want, st.to_comfort) => hs
  BY DEF Preheats
<1> HIDE DEF cs, hs
<1>. QED
  BY <1>1, <1>2, <1>3, <1>4 DEF Plan

-----------------------------------------------------------------------------
(* The plan is followed *)

\* What a tick remembers and decides, by type.
PlanTypes ==
  /\ plan \in [base : Int, preheating : BOOLEAN, coasting : BOOLEAN,
               level : {"comfort", "room_eco", "away"}]
  /\ ghost \in [chosen : Presets \ {"boost"}, quiet : 0 .. MaxLead + 1,
                vacant : 0 .. AbsenceAfter, warm : BOOLEAN]

\* The absence timer runs in an open window only, so it never runs ahead of the
\* time the room has been empty there; a plan that coasts is the one latched.
TimersAgree ==
  /\ presence.absent # None => presence.absent <= ghost.vacant
  /\ latches.coasting = plan.coasting

\* While nothing disturbs the plan no hold is in force, a room that has to be heated
\* now is, and one that has been watched since the horizon is on its way.
OnItsWay ==
  ghost.quiet > 0 =>
    LET want == BaseOf(user.preset)
        left == State.to_comfort
    IN  /\ ~ State.is_comfort /\ ~ user.hold.sp /\ plan.level = "comfort"
        /\ left # NoEdge /\ StartNow(room, want, left) => plan.base = want
        /\ left # NoEdge /\ left <= MaxLead /\ ghost.quiet + left > MaxLead
             => want - room <= left + 1

PlanInv ==
  /\ TypeOK /\ PlanTypes /\ BoostIsGivenBack /\ TimersAgree /\ EcoIsEarned
  /\ CoastStartsWarm /\ (HorizonAssumption => OnItsWay)

IInv ==
  /\ part \in {"clock", "plan", "target"}
  /\ part = "clock" => windows \in SUBSET Window /\ now \in 0 .. Week - 1
  /\ part = "plan" => PlanInv
  /\ part # "plan" => ghost.quiet = 0

LEMMA PlanInvTypes ==
  ASSUME PlanInv
  PROVE  /\ user \in UserType /\ GivenBack(user, ghost.chosen)
         /\ ghost.chosen \in Presets \ {"boost"} /\ ghost.quiet \in 0 .. MaxLead + 1
         /\ ghost.vacant \in 0 .. AbsenceAfter /\ ghost.warm \in BOOLEAN
         /\ windows \in Schedules /\ windows \in SUBSET Window /\ now \in 0 .. Week - 1
         /\ room \in Rooms /\ room \in Int
         /\ latches.coasting \in BOOLEAN /\ latches.preheating \in BOOLEAN
         /\ plan.base \in Int /\ State = StateAt(windows, now)
<1>1. windows \in Schedules /\ now \in 0 .. Week - 1
  BY DEF PlanInv, TypeOK
<1>2. State = StateAt(windows, now)
  BY <1>1, TablesAreRead DEF State
<1>3. user \in UserType
  BY DEF PlanInv, TypeOK, UserType
<1>4. GivenBack(user, ghost.chosen)
  BY DEF PlanInv, BoostIsGivenBack, GivenBack
<1>5. /\ ghost.chosen \in Presets \ {"boost"} /\ ghost.quiet \in 0 .. MaxLead + 1
      /\ ghost.vacant \in 0 .. AbsenceAfter /\ ghost.warm \in BOOLEAN /\ plan.base \in Int
  BY DEF PlanInv, PlanTypes
<1>6. room \in Rooms /\ latches.coasting \in BOOLEAN /\ latches.preheating \in BOOLEAN
  BY DEF PlanInv, TypeOK
<1>. QED
  BY <1>1, <1>2, <1>3, <1>4, <1>5, <1>6, PlanFacts

\* A slot passes over the room.
LEMMA RoomMoves ==
  ASSUME PlanInv, room' \in Weather(room, Aim)
  PROVE  room' \in Rooms /\ room' \in Int /\ room' >= room - 1 /\ (room < Aim => room' >= room + 1)
BY PlanInvTypes, PlanFacts DEF Weather

\* What a room does on the way to an opening: one slot of a plan nobody disturbed.
LEMMA OnItsWayKept ==
  ASSUME HorizonAssumption, PlanInv, ghost.quiet > 0,
         NEW r \in Int, r >= room - 1, room < Aim => r >= room + 1
  PROVE  LET want == BaseOf(user.preset)
             v == StateAt(windows, (now + 1) % Week)
         IN  /\ v.is_comfort /\ ghost.quiet > MaxLead => r >= want - 1
             /\ ~ v.is_comfort /\ v.to_comfort # NoEdge /\ v.to_comfort < MaxLead
                  /\ ghost.quiet + (v.to_comfort + 1) > MaxLead
                  => want - r <= v.to_comfort + 1
<1> DEFINE want == BaseOf(user.preset)
           v == StateAt(windows, (now + 1) % Week)
           d == State.to_comfort
<1>1. want \in Int /\ room \in Int /\ MaxLead \in Nat \ {0} /\ ghost.quiet \in Int
  BY BaseIsLevel, PlanInvTypes, PlanFacts DEF HorizonAssumption
<1>2. /\ ~ State.is_comfort /\ ~ user.hold.sp /\ plan.level = "comfort"
      /\ d # NoEdge /\ StartNow(room, want, d) => plan.base = want
      /\ d # NoEdge /\ d <= MaxLead /\ ghost.quiet + d > MaxLead => want - room <= d + 1
  BY DEF PlanInv, OnItsWay
<1>3. /\ d # NoEdge => d \in Nat \ {0}
      /\ v.is_comfort => d = 1
      /\ ~ v.is_comfort /\ v.to_comfort # NoEdge => d = v.to_comfort + 1
  BY <1>2, PlanInvTypes, CountsDown
<1>4. NoEdge \notin Int
  BY PlanFacts
<1>5. (now + 1) % Week \in 0 .. Week - 1
  BY PlanInvTypes, NextSlot
<1>6. v.to_comfort # NoEdge => v.to_comfort \in Nat
  BY <1>5, PlanInvTypes, FirstOpen
<1>7. Aim = plan.base
  <2>1. Widened(plan.level) = 0
    BY <1>2, NotWidened
  <2>. QED
    BY <1>2, <2>1, PlanInvTypes DEF Aim
<1> HIDE DEF want, v, d
<1>8. ASSUME d \in Nat \ {0}, d <= MaxLead, ghost.quiet + d > MaxLead
      PROVE  want - r <= d
  <2>1. want - room <= d + 1 /\ d # NoEdge
    BY <1>2, <1>4, <1>8
  <2>2. CASE want - room <= d - 1
    BY <1>1, <1>8, <2>2
  <2>3. CASE want - room >= d
    <3>1. Longer(want - room, 0) = want - room
      BY <1>1, <1>8, <2>3 DEF Longer
    <3>2. Min({want - room, MaxLead}) >= d
      BY <1>1, <1>8, <2>3, MinOfTwo
    <3>3. StartNow(room, want, d)
      BY <3>1, <3>2, <1>1, <1>8, MinOfTwo DEF StartNow
    <3>4. room < Aim
      BY <1>1, <1>2, <1>7, <1>8, <2>1, <2>3, <3>3
    <3>. QED
      BY <1>1, <1>8, <2>1, <3>4
  <2>. QED
    BY <1>1, <1>8, <2>2, <2>3
<1>9. v.is_comfort /\ ghost.quiet > MaxLead => r >= want - 1
  BY <1>1, <1>3, <1>8
<1>10. ASSUME ~ v.is_comfort, v.to_comfort # NoEdge, v.to_comfort < MaxLead,
              ghost.quiet + (v.to_comfort + 1) > MaxLead
       PROVE  want - r <= v.to_comfort + 1
  <2>1. d = v.to_comfort + 1 /\ v.to_comfort \in Nat
    BY <1>3, <1>6, <1>10
  <2>. QED
    BY <1>1, <1>8, <1>10, <2>1
<1>. QED
  BY <1>9, <1>10 DEF want, v

\* What a tick finds out about the user, the room and the house.
LEMMA TickIs ==
  ASSUME PlanInv, NEW since, NEW home \in Homes, NEW people \in People,
         now' \in 0 .. Week - 1, windows' = windows, room' \in Rooms,
         since = (IF presence.absent = None THEN None ELSE Min({presence.absent + 1, AbsenceAfter})),
         Tick(room', AgedUser(user, 1), since, home, people)
  PROVE  /\ user' \in UserType /\ GivenBack(user', ghost'.chosen)
         /\ latches' \in [preheating : BOOLEAN, coasting : BOOLEAN]
         /\ presence' \in [home : Homes \cup {None}, absent : (0 .. AbsenceAfter) \cup {None}]
         /\ PlanTypes' /\ TimersAgree' /\ EcoIsEarned' /\ CoastStartsWarm'
         /\ ghost'.quiet > 0 =>
              LET want == BaseOf(user.preset)
                  st == StateAt(windows, now')
              IN  /\ ghost'.quiet <= ghost.quiet + 1 /\ ghost'.quiet <= MaxLead + 1
                  /\ ~ st.is_comfort /\ ~ user'.hold.sp /\ plan'.level = "comfort"
                  /\ user'.preset = user.preset
                  /\ st.to_comfort # NoEdge /\ StartNow(room', want, st.to_comfort)
                       => plan'.base = want
<1> DEFINE u == AgedUser(user, 1)
           st == StateAt(windows, now')
           flip == presence.home \notin {None, "unknown"} /\ home # "unknown" /\ home # presence.home
           timed == Expired(u, flip)
           away == timed.preset = "away" \/ home = "away"
           want == BaseOf(IF away THEN NoPreset ELSE timed.preset)
           p == PlanPreheat(room', want, st, away)
           ends == p.preheating /\ ~ latches.preheating /\ want > HeldAt
           accrue == st.is_comfort /\ ~ p.preheating
           absent == Absence(since, people, accrue)
           level == Level(home, absent, st, p.preheating)
           quiet == IF st.is_comfort \/ away \/ u.hold.sp \/ timed.preset # user.preset THEN 0
                    ELSE Min({ghost.quiet + 1, MaxLead + 1})
           vacant == IF people = "out" /\ st.is_comfort /\ ~ p.preheating
                     THEN Min({ghost.vacant + 1, AbsenceAfter}) ELSE 0
           warm == st.is_comfort /\ (ghost.warm \/ room' >= want - CoastReady)
           hold == EndAtPreheat(timed.hold, "schedule", ends)
<1>1. Verdicts[windows][now'] = st
  BY PlanInvTypes, TablesAreRead
<1>2. /\ user' = [timed EXCEPT !.hold = hold]
      /\ latches' = [preheating |-> p.preheating, coasting |-> p.coasting]
      /\ presence' = [home |-> home, absent |-> absent]
      /\ plan' = [base |-> p.base, preheating |-> p.preheating, coasting |-> p.coasting,
                  level |-> level]
      /\ ghost' = [ghost EXCEPT !.quiet = quiet, !.vacant = vacant, !.warm = warm]
  BY <1>1 DEF Tick
<1>3. /\ u \in UserType /\ GivenBack(u, ghost.chosen) /\ u.preset = user.preset
      /\ u.hold.sp = user.hold.sp
  BY PlanInvTypes, AgedUserKept DEF GivenBack
<1>4. timed \in UserType /\ GivenBack(timed, ghost.chosen) /\ (timed.hold.sp => u.hold.sp)
  <2> HIDE DEF u, flip
  <2>. QED
    BY <1>3, PlanInvTypes, ExpiredKept
<1>5. away \in BOOLEAN /\ want \in Int
  BY BaseIsLevel
<1>6. room' \in Int /\ latches.coasting \in BOOLEAN
  BY PlanInvTypes, PlanFacts
<1> HIDE DEF u, timed, away, want, st
<1>7. /\ p.base \in Int /\ p.preheating \in BOOLEAN /\ p.coasting \in BOOLEAN
      /\ p.preheating => ~ away
      /\ p.coasting => st.is_comfort /\ (latches.coasting \/ room' >= want - CoastReady)
      /\ ~ st.is_comfort /\ ~ away /\ st.to_comfort # NoEdge
           /\ StartNow(room', want, st.to_comfort) => p.base = want
  BY <1>5, <1>6, PlanIs
<1> HIDE DEF p, ends
<1>8. hold \in Hold /\ (hold.sp => timed.hold.sp)
  BY <1>4, EndedHoldKept DEF UserType
<1> HIDE DEF hold
<1>9. user' \in UserType /\ user'.preset = timed.preset /\ user'.hold = hold
      /\ user'.boost = timed.boost /\ user'.prev = timed.prev
  BY <1>2, <1>4, <1>8 DEF UserType
<1>10. absent \in (0 .. AbsenceAfter) \cup {None}
  <2>1. presence.absent \in (0 .. AbsenceAfter) \cup {None}
    BY DEF PlanInv, TypeOK
  <2>2. presence.absent # None => since \in 0 .. AbsenceAfter
    <3> SUFFICES ASSUME presence.absent # None PROVE since \in 0 .. AbsenceAfter
      OBVIOUS
    <3>1. since = Min({presence.absent + 1, AbsenceAfter}) /\ presence.absent \in 0 .. AbsenceAfter
      BY <2>1
    <3>. QED
      BY <3>1, PlanFacts, MinOfTwo
  <2>. QED
    BY <2>1, <2>2, PlanFacts DEF Absence
<1>11. st.is_comfort \in BOOLEAN
  BY PlanInvTypes, FirstOpen DEF st
<1>12. vacant \in 0 .. AbsenceAfter /\ (absent # None => absent <= vacant)
  <2>1. ghost.vacant \in 0 .. AbsenceAfter /\ AbsenceAfter \in Nat
    BY PlanInvTypes, PlanFacts
  <2>2. Min({ghost.vacant + 1, AbsenceAfter}) =
          IF ghost.vacant + 1 <= AbsenceAfter THEN ghost.vacant + 1 ELSE AbsenceAfter
    BY <2>1, MinOfTwo
  <2>3. vacant \in 0 .. AbsenceAfter
    BY <2>1, <2>2
  <2>4. ASSUME absent # None PROVE absent <= vacant
    <3>1. people = "out"
      BY <2>4 DEF Absence
    <3>2. CASE since = None \/ ~ accrue
      <4>1. absent = 0
        BY <3>1, <3>2 DEF Absence
      <4>. QED
        BY <2>3, <4>1
    <3>3. CASE since # None /\ accrue
      <4>1. absent = since /\ vacant = Min({ghost.vacant + 1, AbsenceAfter})
        BY <3>1, <3>3 DEF Absence
      <4>2. presence.absent # None /\ since = Min({presence.absent + 1, AbsenceAfter})
        BY <3>3
      <4>3. presence.absent \in 0 .. AbsenceAfter /\ presence.absent <= ghost.vacant
        BY <4>2 DEF PlanInv, TypeOK, TimersAgree
      <4>4. since = IF presence.absent + 1 <= AbsenceAfter THEN presence.absent + 1 ELSE AbsenceAfter
        BY <2>1, <4>2, <4>3, MinOfTwo
      <4>. QED
        BY <2>1, <2>2, <4>1, <4>3, <4>4
    <3>. QED
      BY <3>2, <3>3
  <2>. QED
    BY <2>3, <2>4
<1>13. /\ quiet \in 0 .. MaxLead + 1 /\ quiet <= ghost.quiet + 1
       /\ quiet > 0 => ~ st.is_comfort /\ ~ away /\ ~ u.hold.sp /\ timed.preset = user.preset
  <2>1. ghost.quiet \in 0 .. MaxLead + 1 /\ MaxLead \in Nat
    BY PlanInvTypes, PlanFacts
  <2>2. Min({ghost.quiet + 1, MaxLead + 1}) =
          IF ghost.quiet + 1 <= MaxLead + 1 THEN ghost.quiet + 1 ELSE MaxLead + 1
    BY <2>1, MinOfTwo
  <2>. QED
    BY <2>1, <2>2
<1>14. warm \in BOOLEAN
  BY <1>11
<1>15. level \in {"comfort", "room_eco", "away"}
       /\ (level = "room_eco" => absent # None /\ absent >= AbsenceAfter)
       /\ (home # "away" /\ ~ st.is_comfort => level = "comfort")
  BY DEF Level
<1>16. p.coasting => warm
  <2> SUFFICES ASSUME p.coasting PROVE warm
    OBVIOUS
  <2>1. CASE latches.coasting
    <3>1. ghost.warm
      BY <2>1 DEF PlanInv, TimersAgree, CoastStartsWarm
    <3>. QED
      BY <1>7, <3>1
  <2>2. CASE room' >= want - CoastReady
    BY <1>7, <2>2
  <2>. QED
    BY <1>7, <2>1, <2>2
<1>17. away <=> timed.preset = "away" \/ home = "away"
  BY DEF away
<1>18. ghost.chosen \in Presets \ {"boost"} /\ ghost \in [chosen : Presets \ {"boost"}, quiet : 0 .. MaxLead + 1,
                vacant : 0 .. AbsenceAfter, warm : BOOLEAN]
  BY PlanInvTypes DEF PlanInv, PlanTypes
<1> HIDE DEF absent, level, quiet, vacant, warm, accrue, flip
<1>19. /\ ghost' \in [chosen : Presets \ {"boost"}, quiet : 0 .. MaxLead + 1,
                      vacant : 0 .. AbsenceAfter, warm : BOOLEAN]
       /\ ghost'.chosen = ghost.chosen /\ ghost'.quiet = quiet /\ ghost'.vacant = vacant
       /\ ghost'.warm = warm
  BY <1>2, <1>12, <1>13, <1>14, <1>18
<1>20. /\ plan' \in [base : Int, preheating : BOOLEAN, coasting : BOOLEAN,
                     level : {"comfort", "room_eco", "away"}]
       /\ plan'.base = p.base /\ plan'.preheating = p.preheating /\ plan'.coasting = p.coasting
       /\ plan'.level = level
  BY <1>2, <1>7, <1>15
<1>21. /\ presence' \in [home : Homes \cup {None}, absent : (0 .. AbsenceAfter) \cup {None}]
       /\ presence'.home = home /\ presence'.absent = absent
  BY <1>2, <1>10
<1>22. /\ latches' \in [preheating : BOOLEAN, coasting : BOOLEAN]
       /\ latches'.coasting = p.coasting
  BY <1>2, <1>7
<1>23. GivenBack(user', ghost'.chosen)
  BY <1>4, <1>9, <1>19 DEF GivenBack
<1>24. TimersAgree'
  BY <1>12, <1>19, <1>20, <1>21, <1>22 DEF TimersAgree
<1>25. EcoIsEarned'
  <2>1. level = "room_eco" => vacant >= AbsenceAfter
    <3> SUFFICES ASSUME level = "room_eco" PROVE vacant >= AbsenceAfter
      OBVIOUS
    <3>1. absent # None /\ absent >= AbsenceAfter /\ absent <= vacant
      BY <1>12, <1>15
    <3>2. absent \in Int /\ vacant \in Int /\ AbsenceAfter \in Int
      BY <1>10, <1>12, <3>1, PlanFacts
    <3>. QED
      BY <3>1, <3>2
  <2>. QED
    BY <1>19, <1>20, <2>1 DEF EcoIsEarned
<1>26. CoastStartsWarm'
  BY <1>7, <1>16, <1>17, <1>19, <1>20, <1>21 DEF CoastStartsWarm
<1>27. ASSUME ghost'.quiet > 0
       PROVE  /\ ghost'.quiet <= ghost.quiet + 1 /\ ghost'.quiet <= MaxLead + 1
              /\ ~ st.is_comfort /\ ~ user'.hold.sp /\ plan'.level = "comfort"
              /\ user'.preset = user.preset
              /\ st.to_comfort # NoEdge /\ StartNow(room', BaseOf(user.preset), st.to_comfort)
                   => plan'.base = BaseOf(user.preset)
  <2>1. /\ ~ st.is_comfort /\ ~ away /\ ~ u.hold.sp /\ timed.preset = user.preset
        /\ quiet <= ghost.quiet + 1 /\ quiet <= MaxLead + 1
    BY <1>13, <1>19, <1>27, PlanFacts
  <2>2. want = BaseOf(user.preset)
    BY <2>1 DEF want
  <2>3. ~ user'.hold.sp /\ user'.preset = user.preset
    BY <1>4, <1>8, <1>9, <2>1
  <2>4. plan'.level = "comfort"
    BY <1>15, <1>17, <1>20, <2>1
  <2>. QED
    BY <1>7, <1>19, <1>20, <2>1, <2>2, <2>3, <2>4
<1>. QED
  BY <1>9, <1>19, <1>20, <1>21, <1>22, <1>23, <1>24, <1>25, <1>26, <1>27 DEF PlanTypes, st

\* The promise of optimal start, of one step.
Arrives ==
  State'.is_comfort /\ ~ State.is_comfort /\ ghost.quiet > MaxLead
    => room' >= BaseOf(user.preset) - 1

LEMMA TimerTickKeeps ==
  ASSUME PlanInv, TimerTick
  PROVE  PlanInv' /\ (HorizonAssumption => Arrives)
<1>1. /\ now' = (now + 1) % Week /\ windows' = windows
      /\ room' \in Weather(room, Aim)
  BY DEF TimerTick, Pass
<1> DEFINE since == IF presence.absent = None THEN None ELSE Min({presence.absent + 1, AbsenceAfter})
<1>2. PICK home \in Homes, people \in People : Tick(room', AgedUser(user, 1), since, home, people)
  BY DEF TimerTick
<1>3. now' \in 0 .. Week - 1
  BY <1>1, PlanInvTypes, NextSlot
<1>4. room' \in Rooms /\ room' \in Int /\ room' >= room - 1 /\ (room < Aim => room' >= room + 1)
  BY <1>1, RoomMoves
<1>5. /\ user' \in UserType /\ GivenBack(user', ghost'.chosen)
      /\ latches' \in [preheating : BOOLEAN, coasting : BOOLEAN]
      /\ presence' \in [home : Homes \cup {None}, absent : (0 .. AbsenceAfter) \cup {None}]
      /\ PlanTypes' /\ TimersAgree' /\ EcoIsEarned' /\ CoastStartsWarm'
      /\ ghost'.quiet > 0 =>
           LET want == BaseOf(user.preset)
               st == StateAt(windows, now')
           IN  /\ ghost'.quiet <= ghost.quiet + 1 /\ ghost'.quiet <= MaxLead + 1
               /\ ~ st.is_comfort /\ ~ user'.hold.sp /\ plan'.level = "comfort"
               /\ user'.preset = user.preset
               /\ st.to_comfort # NoEdge /\ StartNow(room', want, st.to_comfort)
                    => plan'.base = want
  BY <1>1, <1>2, <1>3, <1>4, TickIs
<1>6. State' = StateAt(windows, now')
  <2>1. State' = Verdicts[windows'][now']
    BY DEF State
  <2>2. windows \in Schedules
    BY PlanInvTypes
  <2>. QED
    BY <1>1, <1>3, <2>1, <2>2, TablesAreRead
<1>7. TypeOK'
  <2>1. windows' \in Schedules
    BY <1>1, PlanInvTypes
  <2>2. plan'.level \in {"comfort", "room_eco", "away"}
    BY <1>5 DEF PlanTypes
  <2>. QED
    BY <1>3, <1>4, <1>5, <2>1, <2>2 DEF TypeOK, UserType
<1>8. BoostIsGivenBack'
  BY <1>5 DEF BoostIsGivenBack, GivenBack
<1>9. ASSUME HorizonAssumption PROVE OnItsWay'
  <2> DEFINE want == BaseOf(user.preset)
             st == StateAt(windows, now')
             left == st.to_comfort
  <2>1. SUFFICES ASSUME ghost'.quiet > 0
                 PROVE  /\ ~ st.is_comfort /\ ~ user'.hold.sp /\ plan'.level = "comfort"
                        /\ left # NoEdge /\ StartNow(room', want, left) => plan'.base = want
                        /\ left # NoEdge /\ left <= MaxLead /\ ghost'.quiet + left > MaxLead
                             => want - room' <= left + 1
    BY <1>5, <1>6 DEF OnItsWay
  <2>2. ~ st.is_comfort /\ ghost'.quiet <= ghost.quiet + 1 /\ ghost'.quiet <= MaxLead + 1
    BY <1>5, <2>1
  <2>3. ASSUME left # NoEdge, left <= MaxLead, ghost'.quiet + left > MaxLead
        PROVE  want - room' <= left + 1
    <3>1. left \in Nat \ {0}
      BY <1>3, <2>2, <2>3, PlanInvTypes, CountsDown
    <3>2. /\ want \in Int /\ MaxLead \in Nat /\ ghost'.quiet \in Int /\ ghost.quiet \in Int
          /\ user.preset \in Presets
      BY <1>5, BaseIsLevel, PlanInvTypes, PlanFacts DEF PlanTypes, UserType
    <3>3. CASE left = MaxLead
      <4>1. want - room' <= MaxLead + 1
        BY <1>4, <1>9, <3>2 DEF HorizonAssumption
      <4>. QED
        BY <3>3, <4>1
    <3>4. CASE left < MaxLead
      <4> HIDE DEF left
      <4>1. ghost.quiet > 0 /\ ghost.quiet + (left + 1) > MaxLead
        BY <2>2, <2>3, <3>1, <3>2, <3>4
      <4>. QED
        BY <1>1, <1>4, <1>9, <2>2, <2>3, <3>4, <4>1, OnItsWayKept DEF left
    <3>. QED
      BY <2>3, <3>1, <3>2, <3>3, <3>4
  <2> HIDE DEF left, st, want
  <2>4. ~ user'.hold.sp /\ plan'.level = "comfort" /\ (left # NoEdge /\ StartNow(room', want, left) => plan'.base = want)
    BY <1>5, <2>1 DEF left, st, want
  <2>. QED
    BY <2>2, <2>3, <2>4
<1>10. ASSUME HorizonAssumption PROVE Arrives
  <2> SUFFICES ASSUME State'.is_comfort, ~ State.is_comfort, ghost.quiet > MaxLead
               PROVE  room' >= BaseOf(user.preset) - 1
    BY DEF Arrives
  <2>1. ghost.quiet > 0
    <3>1. ghost.quiet \in Int /\ MaxLead \in Nat
      BY PlanInvTypes, PlanFacts
    <3>. QED
      BY <3>1
  <2>. QED
    BY <1>1, <1>4, <1>6, <1>10, <2>1, OnItsWayKept
<1>. QED
  BY <1>5, <1>7, <1>8, <1>9, <1>10 DEF PlanInv

LEMMA ChoosePresetKeeps ==
  ASSUME PlanInv, NEW p \in Presets, ChoosePreset(p)
  PROVE  PlanInv'
<1> DEFINE c == IF p = "boost" THEN ghost.chosen ELSE p
<1>1. /\ user' = SetPreset(user, p)
      /\ ghost' = [ghost EXCEPT !.chosen = c, !.quiet = 0]
      /\ UNCHANGED <<windows, now, room, latches, presence, plan>>
  BY DEF ChoosePreset
<1>2. c \in Presets \ {"boost"} /\ 0 \in 0 .. MaxLead + 1
  BY PlanInvTypes, PlanFacts
<1> HIDE DEF c
<1>3. ghost \in [chosen : Presets \ {"boost"}, quiet : 0 .. MaxLead + 1,
                 vacant : 0 .. AbsenceAfter, warm : BOOLEAN]
  BY DEF PlanInv, PlanTypes
<1>4. /\ ghost' \in [chosen : Presets \ {"boost"}, quiet : 0 .. MaxLead + 1,
                     vacant : 0 .. AbsenceAfter, warm : BOOLEAN]
      /\ ghost'.chosen = c /\ ghost'.quiet = 0 /\ ghost'.vacant = ghost.vacant
      /\ ghost'.warm = ghost.warm
  BY <1>1, <1>2, <1>3
<1>5. user \in UserType /\ GivenBack(user, ghost.chosen)
  BY PlanInvTypes
<1>6. /\ user' \in UserType /\ user'.preset = p
      /\ p = "boost" => user'.boost # None /\ user'.prev = IF user.preset = "boost" THEN user.prev ELSE user.preset
      /\ p # "boost" => user'.boost = None /\ user'.prev = None
  BY <1>1, <1>5, SetPresetKept
<1>7. GivenBack(user', ghost'.chosen)
  BY <1>4, <1>5, <1>6 DEF GivenBack, c
<1>8. TypeOK'
  BY <1>1, <1>6 DEF PlanInv, TypeOK, UserType
<1>9. PlanTypes' /\ TimersAgree' /\ EcoIsEarned' /\ CoastStartsWarm'
  BY <1>1, <1>4 DEF PlanInv, PlanTypes, TimersAgree, EcoIsEarned, CoastStartsWarm
<1>10. OnItsWay'
  BY <1>4 DEF OnItsWay
<1>. QED
  BY <1>7, <1>8, <1>9, <1>10 DEF PlanInv, BoostIsGivenBack, GivenBack

LEMMA HoldKeeps ==
  ASSUME PlanInv, TakeHold \/ DropHold
  PROVE  PlanInv'
<1> DEFINE taken == SetOverride(user.hold, "schedule", SwitchPoints[windows][now])
           dropped == ClearOverride(user.hold)
<1>1. user \in UserType /\ user.hold \in Hold
  BY PlanInvTypes DEF UserType
<1>2. taken \in Hold /\ dropped \in Hold
  BY <1>1, PlanInvTypes, TablesAreRead, TakenHoldKept, EndedHoldKept
<1>3. /\ TakeHold => user' = [user EXCEPT !.hold = taken] /\ ghost' = [ghost EXCEPT !.quiet = 0]
      /\ DropHold => user' = [user EXCEPT !.hold = dropped] /\ ghost' = ghost /\ user.hold.sp
      /\ UNCHANGED <<windows, now, room, latches, presence, plan>>
  BY DEF TakeHold, DropHold
<1> HIDE DEF taken, dropped
<1>4. /\ user' \in UserType /\ user'.preset = user.preset /\ user'.prev = user.prev
      /\ user'.boost = user.boost
  BY <1>1, <1>2, <1>3 DEF UserType
<1>5. ghost \in [chosen : Presets \ {"boost"}, quiet : 0 .. MaxLead + 1,
                 vacant : 0 .. AbsenceAfter, warm : BOOLEAN] /\ 0 \in 0 .. MaxLead + 1
  BY PlanFacts DEF PlanInv, PlanTypes
<1>6. /\ ghost' \in [chosen : Presets \ {"boost"}, quiet : 0 .. MaxLead + 1,
                     vacant : 0 .. AbsenceAfter, warm : BOOLEAN]
      /\ ghost'.chosen = ghost.chosen /\ ghost'.vacant = ghost.vacant /\ ghost'.warm = ghost.warm
      /\ ghost'.quiet = 0 \/ (DropHold /\ ghost' = ghost)
  BY <1>3, <1>5
<1>7. GivenBack(user', ghost'.chosen)
  BY <1>4, <1>6, PlanInvTypes DEF GivenBack
<1>8. TypeOK'
  BY <1>3, <1>4 DEF PlanInv, TypeOK, UserType
<1>9. PlanTypes' /\ TimersAgree' /\ EcoIsEarned' /\ CoastStartsWarm'
  BY <1>3, <1>6 DEF PlanInv, PlanTypes, TimersAgree, EcoIsEarned, CoastStartsWarm
<1>10. HorizonAssumption => OnItsWay'
  <2>1. CASE ghost'.quiet = 0
    BY <2>1 DEF OnItsWay
  <2>2. CASE DropHold /\ ghost' = ghost
    <3>1. HorizonAssumption => ~ (ghost.quiet > 0)
      BY <1>3, <2>2 DEF PlanInv, OnItsWay
    <3>. QED
      BY <2>2, <3>1 DEF OnItsWay
  <2>. QED
    BY <1>6, <2>1, <2>2
<1>. QED
  BY <1>7, <1>8, <1>9, <1>10 DEF PlanInv, BoostIsGivenBack, GivenBack

LEMMA RestartKeeps ==
  ASSUME PlanInv, Restart
  PROVE  PlanInv'
<1> DEFINE restored == RestoreHold(user.hold, "schedule", SwitchPoints[windows][now])
<1>1. user \in UserType /\ user.hold \in Hold
  BY PlanInvTypes DEF UserType
<1>2. restored \in Hold
  BY <1>1, PlanInvTypes, TablesAreRead, TakenHoldKept
<1>3. /\ user' = [user EXCEPT !.hold = restored]
      /\ ghost' = [ghost EXCEPT !.quiet = 0, !.vacant = 0]
      /\ UNCHANGED <<windows, now, room>>
      /\ latches' = [preheating |-> FALSE, coasting |-> FALSE]
      /\ presence' = [home |-> None, absent |-> None]
      /\ plan' = [base |-> ComfortBase, preheating |-> FALSE, coasting |-> FALSE, level |-> "comfort"]
  BY DEF Restart
<1> HIDE DEF restored
<1>4. /\ user' \in UserType /\ user'.preset = user.preset /\ user'.prev = user.prev
      /\ user'.boost = user.boost
  BY <1>1, <1>2, <1>3 DEF UserType
<1>5. ghost \in [chosen : Presets \ {"boost"}, quiet : 0 .. MaxLead + 1,
                 vacant : 0 .. AbsenceAfter, warm : BOOLEAN] /\ 0 \in 0 .. MaxLead + 1
      /\ 0 \in 0 .. AbsenceAfter
  BY PlanFacts DEF PlanInv, PlanTypes
<1>6. /\ ghost' \in [chosen : Presets \ {"boost"}, quiet : 0 .. MaxLead + 1,
                     vacant : 0 .. AbsenceAfter, warm : BOOLEAN]
      /\ ghost'.chosen = ghost.chosen /\ ghost'.quiet = 0
  BY <1>3, <1>5
<1>7. GivenBack(user', ghost'.chosen)
  BY <1>4, <1>6, PlanInvTypes DEF GivenBack
<1>8. TypeOK'
  BY <1>3, <1>4 DEF PlanInv, TypeOK, UserType
<1>9. PlanTypes' /\ TimersAgree' /\ EcoIsEarned' /\ CoastStartsWarm'
  BY <1>3, <1>6, LevelFacts DEF PlanTypes, TimersAgree, EcoIsEarned, CoastStartsWarm
<1>10. OnItsWay'
  BY <1>6 DEF OnItsWay
<1>. QED
  BY <1>7, <1>8, <1>9, <1>10 DEF PlanInv, BoostIsGivenBack, GivenBack

LEMMA PlanStarts ==
  ASSUME windows \in Schedules, now \in 0 .. Week - 1, PlanInit
  PROVE  PlanInv
<1>1. user \in UserType /\ user.preset = "none" /\ user.boost = None
  BY NoHoldIsHold, PlanFacts DEF PlanInit, UserType, NoPreset
<1>2. TypeOK
  BY <1>1 DEF PlanInit, TypeOK, UserType
<1>3. PlanTypes /\ TimersAgree /\ EcoIsEarned /\ CoastStartsWarm
  BY PlanFacts, LevelFacts
     DEF PlanInit, PlanTypes, TimersAgree, EcoIsEarned, CoastStartsWarm, NoPreset
<1>4. BoostIsGivenBack /\ OnItsWay
  BY <1>1 DEF PlanInit, BoostIsGivenBack, OnItsWay, NoPreset
<1>. QED
  BY <1>2, <1>3, <1>4 DEF PlanInv

LEMMA PlanRests ==
  ASSUME PlanInv, UNCHANGED vars
  PROVE  PlanInv'
BY DEF PlanInv, vars, TypeOK, PlanTypes, BoostIsGivenBack, TimersAgree, EcoIsEarned,
       CoastStartsWarm, OnItsWay, State

-----------------------------------------------------------------------------
(* The parts *)

LEMMA InitSound == PartsInit => IInv
<1> SUFFICES ASSUME PartsInit PROVE IInv
  OBVIOUS
<1>1. part \in {"clock", "plan", "target"} /\ PlanInit /\ now \in 0 .. Week - 1 /\ ghost.quiet = 0
  BY DEF PartsInit, PlanInit
<1>2. part = "plan" => windows \in Schedules
  BY DEF PartsInit
<1>3. part = "plan" => PlanInv
  BY <1>1, <1>2, PlanStarts
<1>4. part = "clock" => windows \in SUBSET Window
  BY ClockAssumption DEF PartsInit
<1>. QED
  BY <1>1, <1>3, <1>4 DEF IInv

LEMMA PlanNextKeeps ==
  ASSUME PlanInv, Next
  PROVE  PlanInv' /\ (TimerTick /\ HorizonAssumption => Arrives)
<1>1. CASE TimerTick
  BY <1>1, TimerTickKeeps
<1>2. (TimerTick /\ HorizonAssumption => Arrives)
  BY TimerTickKeeps
<1>3. CASE \E p \in Presets : ChoosePreset(p)
  BY <1>2, <1>3, ChoosePresetKeeps
<1>4. CASE TakeHold \/ DropHold
  BY <1>2, <1>4, HoldKeeps
<1>5. CASE Restart
  BY <1>2, <1>5, RestartKeeps
<1>. QED
  BY <1>1, <1>3, <1>4, <1>5 DEF Next

LEMMA NextSound ==
  IInv /\ [PartsNext]_<<part, vars, target>>
    => IInv' /\ [HorizonAssumption => (TimerTick => Arrives)]_vars
<1> SUFFICES ASSUME IInv, [PartsNext]_<<part, vars, target>>
             PROVE  IInv' /\ (UNCHANGED vars \/ (HorizonAssumption => (TimerTick => Arrives)))
  BY Zenon
<1>1. CASE part = "plan" /\ Next /\ UNCHANGED <<part, target>>
  BY <1>1, PlanNextKeeps DEF IInv
<1>2. CASE /\ part = "clock" /\ Minute
           /\ UNCHANGED <<part, room, user, latches, presence, plan, ghost, target>>
  <2>1. ghost.quiet = 0 /\ ghost' = ghost /\ part' = "clock"
    BY <1>2 DEF IInv
  <2>3. windows \in SUBSET Window /\ now \in 0 .. Week - 1 => windows' \in SUBSET Window /\ now' \in 0 .. Week - 1
    BY <1>2, NextSlot DEF Minute, Pass
  <2>2. Arrives
    <3>1. ~ (ghost.quiet > MaxLead)
      BY <2>1, PlanFacts
    <3>. QED
      BY <3>1 DEF Arrives
  <2>. QED
    BY <1>2, <2>1, <2>2, <2>3 DEF IInv
<1>3. CASE UNCHANGED <<part, vars>>
  <2>1. UNCHANGED vars /\ UNCHANGED <<windows, now, ghost>> /\ part' = part
    BY <1>3 DEF vars
  <2>2. part = "plan" => PlanInv'
    BY <2>1, PlanRests DEF IInv
  <2>. QED
    BY <2>1, <2>2 DEF IInv
<1>. QED
  BY <1>1, <1>2, <1>3 DEF PartsNext

LEMMA AlwaysSound == PartsSpec => []IInv
BY InitSound, NextSound, PTL DEF PartsSpec

-----------------------------------------------------------------------------
(***************************************************************************)
(* For every number and length of days, and every set of windows, the      *)
(* verdict of the schedule at every instant is the plain meaning of its    *)
(* windows: seam, midnight and overlaps included                           *)
(* (ComfortSchedule.state_at).                                             *)
(***************************************************************************)
THEOREM ScheduleTellsTheClock == ClockSpec => []VerdictIsTheClock
<1> DEFINE Inv == windows \in SUBSET Window /\ now \in 0 .. Week - 1
<1>1. ClockInit => Inv
  BY PlanFacts DEF ClockInit
<1>2. Inv /\ [Minute]_clockVars => Inv'
  BY NextSlot DEF Minute, Pass, clockVars
<1>3. Inv => VerdictIsTheClock
  BY ClockIsRead DEF VerdictIsTheClock
<1>. QED
  BY <1>1, <1>2, <1>3, PTL DEF ClockSpec

(***************************************************************************)
(* The same of the clock beside the plan and the target.                   *)
(***************************************************************************)
THEOREM ClockIsTold == PartsSpec => []ScheduleIsTheClock
<1>1. IInv => ScheduleIsTheClock
  BY ClockIsRead DEF IInv, ScheduleIsTheClock, VerdictIsTheClock
<1>. QED
  BY <1>1, AlwaysSound, PTL

(***************************************************************************)
(* The comfort plan takes nothing that was not earned or asked for, for    *)
(* every schedule, horizon, offset and timer: a Boost has an end and gives *)
(* back the preset that was chosen, a room is set back only after the      *)
(* whole hold in an open window, coasting starts warm                      *)
(* (_stage_schedule_presence, plan_preheat, resolve_presence).             *)
(***************************************************************************)
THEOREM PlanTakesNothingUnearned == PartsSpec => []PlanIsEarned
<1>1. IInv => PlanIsEarned
  BY DEF IInv, PlanInv, PlanIsEarned
<1>. QED
  BY <1>1, AlwaysSound, PTL

(***************************************************************************)
(* Optimal start keeps its promise, if its horizon covers the coldest      *)
(* room: whatever the weather, a room nobody disturbed for that long is at *)
(* most a level below its comfort target when a window opens               *)
(* (plan_preheat, advise).                                                 *)
(***************************************************************************)
THEOREM RoomArrivesWarm == ASSUME HorizonAssumption PROVE PartsSpec => ArrivesWarm
<1>1. [HorizonAssumption => (TimerTick => Arrives)]_vars
        => [TimerTick /\ State'.is_comfort /\ ~ State.is_comfort /\ ghost.quiet > MaxLead
              => room' >= BaseOf(user.preset) - 1]_vars
  BY DEF Arrives
<1>. QED
  BY <1>1, AlwaysSound, NextSound, PTL DEF PartsSpec, ArrivesWarm

-----------------------------------------------------------------------------
(* The target of a zone.                                                   *)
LEMMA TargetConstants ==
  /\ Indoors \cup Outdoors \cup Moulds \cup Overrides \subseteq Nat
  /\ Bands \subseteq [heat : Nat, cool : Nat]
  /\ Frost \in Nat /\ NormCap \in Nat /\ HardCap \in Nat /\ ShockDelta \in Nat /\ Half \in Nat
  /\ Kinds \subseteq [heat : BOOLEAN, cool : BOOLEAN, fan : BOOLEAN,
                      climate : {"auto", "heat_only", "cool_only"}, min : Nat, max : Nat]
  /\ SuppressFor \in Nat \ {0}
BY PartsAssumption DEF Target!ScaleAssumption

LEMMA Greatest ==
  ASSUME NEW T \in SUBSET Int, NEW m \in T, \A y \in T : m >= y
  PROVE  Target!Max(T) = m
<1>1. Target!Max(T) = CHOOSE x \in T : \A y \in T : x >= y
  BY DEF Target!Max
<1>2. Target!Max(T) \in T /\ \A y \in T : Target!Max(T) >= y
  BY <1>1
<1>3. Target!Max(T) >= m /\ m >= Target!Max(T) /\ Target!Max(T) \in Int /\ m \in Int
  BY <1>2
<1> QED
  BY <1>3

LEMMA Smallest ==
  ASSUME NEW T \in SUBSET Int, NEW m \in T, \A y \in T : m <= y
  PROVE  Target!Min(T) = m
<1>1. Target!Min(T) = CHOOSE x \in T : \A y \in T : x <= y
  BY DEF Target!Min
<1>2. Target!Min(T) \in T /\ \A y \in T : Target!Min(T) <= y
  BY <1>1
<1>3. Target!Min(T) <= m /\ m <= Target!Min(T) /\ Target!Min(T) \in Int /\ m \in Int
  BY <1>2
<1> QED
  BY <1>3

LEMMA MaxTwo ==
  ASSUME NEW x \in Int, NEW y \in Int
  PROVE  Target!Max({x, y}) = IF x >= y THEN x ELSE y
<1>1. CASE x >= y
  BY <1>1, Greatest
<1>2. CASE ~(x >= y)
  BY <1>2, Greatest
<1> QED
  BY <1>1, <1>2

LEMMA MinTwo ==
  ASSUME NEW x \in Int, NEW y \in Int
  PROVE  Target!Min({x, y}) = IF x <= y THEN x ELSE y
<1>1. CASE x <= y
  BY <1>1, Smallest
<1>2. CASE ~(x <= y)
  BY <1>2, Smallest
<1> QED
  BY <1>1, <1>2

LEMMA MaxThree ==
  ASSUME NEW x \in Int, NEW y \in Int, NEW u \in Int
  PROVE  LET m == Target!Max({x, y, u})
         IN  m \in {x, y, u} /\ m \in Int /\ m >= x /\ m >= y /\ m >= u
<1>1. \E m \in {x, y, u} : \A t \in {x, y, u} : m >= t
  <2>1. CASE x >= y /\ x >= u
    BY <2>1
  <2>2. CASE y >= x /\ y >= u
    BY <2>2
  <2>3. CASE u >= x /\ u >= y
    BY <2>3
  <2> QED
    BY <2>1, <2>2, <2>3
<1>2. PICK m \in {x, y, u} : \A t \in {x, y, u} : m >= t
  BY <1>1
<1>3. Target!Max({x, y, u}) = m
  BY <1>2, Greatest
<1> QED
  BY <1>2, <1>3

\* The cooling edge comes nearer to where it is going and never passes it.
LEMMA EdgeApproaches ==
  ASSUME NEW p \in Nat, NEW t \in Nat, Target!rate_limit(p, t) # p
  PROVE  LET n == Target!rate_limit(p, t)
         IN  /\ p < t <=> p < n
             /\ n < t => p < t
             /\ n > t => p > t
<1> DEFINE n == Target!rate_limit(p, t)
<1>1. Half \in Nat /\ p # Target!Unset
  BY TargetConstants DEF Target!Unset
<1>2. CASE t > p
  <2>1. n = Target!Min({t, p + Half})
    BY <1>1, <1>2 DEF Target!rate_limit
  <2>2. n = IF t <= p + Half THEN t ELSE p + Half
    BY <1>1, <2>1, MinTwo
  <2> HIDE DEF n
  <2> QED
    BY <1>1, <1>2, <2>2 DEF n
<1>3. CASE ~(t > p)
  <2>1. n = Target!Max({t, p - Half})
    BY <1>1, <1>3 DEF Target!rate_limit
  <2>2. n = IF t >= p - Half THEN t ELSE p - Half
    BY <1>1, <2>1, MaxTwo
  <2> HIDE DEF n
  <2> QED
    BY <1>1, <1>3, <2>2 DEF n
<1> QED
  BY <1>2, <1>3

LEMMA EdgeType ==
  ASSUME NEW p \in Nat \cup {Target!Unset}, NEW t \in Nat
  PROVE  Target!rate_limit(p, t) \in Nat
<1>1. Half \in Nat /\ Target!Unset \notin Nat
  BY TargetConstants DEF Target!Unset
<1>2. CASE p = Target!Unset
  BY <1>2 DEF Target!rate_limit
<1>3. CASE p \in Nat /\ t > p
  <2>1. Target!rate_limit(p, t) = Target!Min({t, p + Half})
    BY <1>1, <1>3 DEF Target!rate_limit
  <2> QED
    BY <1>1, <1>3, <2>1, MinTwo
<1>4. CASE p \in Nat /\ ~(t > p)
  <2>1. Target!rate_limit(p, t) = Target!Max({t, p - Half})
    BY <1>1, <1>4 DEF Target!rate_limit
  <2> QED
    BY <1>1, <1>4, <2>1, MaxTwo
<1> QED
  BY <1>2, <1>3, <1>4

\* What a tick reads is numbers.
LEMMA KindFacts ==
  ASSUME Target!TypeOK
  PROVE  /\ kind \in Kinds /\ kind.min \in Nat /\ kind.max \in Nat
         /\ kind.heat \in BOOLEAN /\ kind.cool \in BOOLEAN /\ kind.fan \in BOOLEAN
         /\ indoor \in Nat /\ outdoor \in Nat /\ band.heat \in Nat /\ band.cool \in Nat
         /\ mould \in Int /\ mould >= -1 /\ (mould # Target!Unset => mould \in Moulds /\ mould \in Nat)
         /\ override \in Int /\ override >= -1
<1>1. kind \in Kinds /\ band \in Bands /\ indoor \in Indoors /\ outdoor \in Outdoors
      /\ mould \in Moulds \cup {Target!Unset} /\ override \in Overrides \cup {Target!Unset}
  BY DEF Target!TypeOK
<1>2. kind \in [heat : BOOLEAN, cool : BOOLEAN, fan : BOOLEAN,
                climate : {"auto", "heat_only", "cool_only"}, min : Nat, max : Nat]
  BY <1>1, TargetConstants
<1>3. band \in [heat : Nat, cool : Nat]
  BY <1>1, TargetConstants
<1>4. Target!Unset = -1
  BY DEF Target!Unset
<1>5. indoor \in Nat /\ outdoor \in Nat
  BY <1>1, TargetConstants
<1>6. mould \in Int /\ mould >= -1 /\ (mould # Target!Unset => mould \in Moulds /\ mould \in Nat)
  BY <1>1, <1>4, TargetConstants
<1>7. override \in Int /\ override >= -1
  BY <1>1, <1>4, TargetConstants
<1>. QED
  BY <1>1, <1>2, <1>3, <1>5, <1>6, <1>7

LEMMA SetpointsAreNumbers ==
  ASSUME Target!TypeOK
  PROVE  Target!HeatSp \in Nat /\ Target!CoolSp \in Nat /\ Target!Raised \in Nat
<1>1. Target!HeatSp \in Int /\ Target!HeatSp >= band.heat
  <2>1. band.heat \in Int /\ Frost \in Int /\ mould \in Int
    BY KindFacts, TargetConstants
  <2>. QED
    BY <2>1, MaxThree DEF Target!HeatSp
<1>2. Target!HeatSp \in Nat
  BY <1>1, KindFacts
<1>3. Target!CoolSp = IF band.cool >= Target!HeatSp THEN band.cool ELSE Target!HeatSp
  BY <1>2, KindFacts, MaxTwo DEF Target!CoolSp
<1>4. Target!CoolSp \in Nat
  BY <1>2, <1>3, KindFacts
<1> DEFINE u == Target!Max({Target!CoolSp, outdoor - ShockDelta})
           l == Target!Min({kind.max, HardCap})
           v == Target!Max({Target!CoolSp, l})
<1>5. outdoor - ShockDelta \in Int
  BY KindFacts, TargetConstants
<1>6. u \in Nat
  <2>1. u = IF Target!CoolSp >= outdoor - ShockDelta THEN Target!CoolSp ELSE outdoor - ShockDelta
    BY <1>4, <1>5, MaxTwo
  <2> HIDE DEF u
  <2>. QED
    BY <1>4, <1>5, <2>1
<1>7. l \in Nat
  <2>1. l = IF kind.max <= HardCap THEN kind.max ELSE HardCap
    BY KindFacts, TargetConstants, MinTwo
  <2> HIDE DEF l
  <2>. QED
    BY <2>1, KindFacts, TargetConstants
<1>8. v \in Nat
  <2> HIDE DEF l
  <2>1. v = IF Target!CoolSp >= l THEN Target!CoolSp ELSE l
    BY <1>4, <1>7, MaxTwo
  <2> HIDE DEF v
  <2>. QED
    BY <2>1, <1>4, <1>7
<1>9. Target!Raised = Target!Min({u, v})
  BY DEF Target!Raised
<1> HIDE DEF u, v
<1>10. Target!Raised = IF u <= v THEN u ELSE v
  BY <1>6, <1>8, <1>9, MinTwo
<1>. QED
  BY <1>2, <1>4, <1>6, <1>8, <1>10

-----------------------------------------------------------------------------
(* The command of a tick as a function of what it remembers: the cooling   *)
(* edge, the mould floor the age of the window leaves, and the mode the    *)
(* device reports.                                                         *)
IdleParkAt(cool, m) ==
  IF ~kind.cool THEN [mode |-> "heat", sp |-> Target!HeatSp]
  ELSE IF kind.fan /\ ~(kind.heat /\ 2 * indoor < (Target!HeatSp + cool) - 2 * Half)
       THEN [mode |-> "fan_only", sp |-> cool]
  ELSE IF ~kind.heat \/ m = "cool" \/ 2 * indoor > (Target!HeatSp + cool) + 2 * Half
       THEN [mode |-> "cool", sp |-> cool] ELSE [mode |-> "heat", sp |-> Target!HeatSp]
ParkAt(cool, m) ==
  IF Target!Decision = "idle" THEN IdleParkAt(cool, m) ELSE [mode |-> "", sp |-> 0]
ModeAt == IF aired THEN "off" ELSE IF override # Target!Unset THEN "manual" ELSE Target!Decision
DesiredAt(cool, p, mw) ==
  IF aired THEN Target!Max({Frost, mw})
  ELSE IF override # Target!Unset THEN Target!Manual(cool)
  ELSE IF Target!Decision = "cool" THEN cool
  ELSE IF Target!Decision = "idle" THEN p.sp
  ELSE Target!HeatSp
WrittenAt(cool, p, mw) ==
  IF stuck /\ kind.heat THEN [sp |-> Target!Max({Frost, mould, kind.min}), mode |-> "heat"]
  ELSE [sp |-> Target!Enveloped(DesiredAt(cool, p, mw), ModeAt, mw),
        mode |-> IF stuck THEN "off" ELSE ModeAt]
ResolvedAt(final, pm, m) ==
  IF final \in {"heat", "cool", "fan_only"} THEN final
  ELSE IF final = "off" THEN (IF kind.heat THEN "heat" ELSE "off")
  ELSE IF final = "idle" /\ pm # "" THEN pm
  ELSE IF kind.cool /\ m \in {"heat", "cool"} THEN m ELSE "heat"
ModeOf(final, pm, m) ==
  IF ResolvedAt(final, pm, m) \in Target!Supported THEN ResolvedAt(final, pm, m) ELSE m
CommandOf(p, wt, m) == [mode |-> ModeOf(Target!Final(wt), p.mode, m), sp |-> wt.sp]
CommandAt(cool, mw, m) == CommandOf(ParkAt(cool, m), WrittenAt(cool, ParkAt(cool, m), mw), m)
MouldAt(o) == IF aired /\ o < SuppressFor THEN Target!Unset ELSE mould

LEMMA TargetTickIs ==
  ASSUME Target!Tick
  PROVE  /\ edge' = Target!rate_limit(edge, Target!Raised)
         /\ openFor' = IF ~aired THEN Target!Unset
                       ELSE IF openFor = Target!Unset THEN 0
                       ELSE IF openFor < SuppressFor THEN openFor + 1 ELSE openFor
         /\ dev' = CommandAt(Target!rate_limit(edge, Target!Raised), MouldAt(openFor'), dev.mode)
         /\ calm' = TRUE /\ UNCHANGED <<kind, Target!world>>
<1> DEFINE cool == Target!rate_limit(edge, Target!Raised)
           park == IF Target!Decision = "idle" THEN Target!idle_park(cool) ELSE [mode |-> "", sp |-> 0]
           wt == Target!Written(cool, park)
           desired == Target!resolve_desired_mode(Target!Final(wt), park.mode)
<1>1. dev' = [mode |-> IF desired \in Target!Supported THEN desired ELSE dev.mode, sp |-> wt.sp]
  BY DEF Target!Tick
<1> HIDE DEF cool
<1>2. park = ParkAt(cool, dev.mode)
  BY DEF Target!idle_park, Target!KeepsCooling, ParkAt, IdleParkAt
<1> HIDE DEF park
<1>3. Target!MouldWrite = MouldAt(openFor')
  BY DEF Target!MouldWrite, MouldAt
<1>4. wt = WrittenAt(cool, park, MouldAt(openFor'))
  BY <1>3 DEF Target!Written, WrittenAt, DesiredAt, ModeAt
<1> HIDE DEF wt
<1>5. desired = ResolvedAt(Target!Final(wt), park.mode, dev.mode)
  BY DEF Target!resolve_desired_mode, ResolvedAt
<1> HIDE DEF desired
<1>6. dev' = CommandOf(park, wt, dev.mode)
  BY <1>1, <1>5 DEF CommandOf, ModeOf
<1>7. dev' = CommandAt(cool, MouldAt(openFor'), dev.mode)
  BY <1>2, <1>4, <1>6 DEF CommandAt
<1>. QED
  BY <1>7 DEF Target!Tick, cool

\* It reads nothing else that a tick changes.
LEMMA CommandIsOfTheWorld ==
  ASSUME NEW c, NEW mw, NEW m, UNCHANGED <<kind, Target!world>>
  PROVE  CommandAt(c, mw, m)' = CommandAt(c, mw, m)
<1>1. UNCHANGED <<kind, indoor, outdoor, band, mould, aired, stuck, override>>
  BY DEF Target!world
<1>2. Target!HeatSp' = Target!HeatSp
  BY <1>1 DEF Target!HeatSp
<1>3. Target!CoolSp' = Target!CoolSp
  BY <1>1, <1>2 DEF Target!CoolSp
<1>4. Target!Decision' = Target!Decision
  BY <1>1, <1>2, <1>3 DEF Target!Decision, Target!decide_mode
<1>5. \A p : DesiredAt(c, p, mw)' = DesiredAt(c, p, mw)
  BY <1>1, <1>2, <1>4 DEF DesiredAt, Target!Manual
<1>6. ModeAt' = ModeAt
  BY <1>1, <1>4 DEF ModeAt
<1>7. \A d : Target!Enveloped(d, ModeAt, mw)' = Target!Enveloped(d, ModeAt, mw)
  BY <1>1, <1>6 DEF Target!Enveloped, Target!DeviceFloor, Target!DeviceCap
<1>8. \A p : WrittenAt(c, p, mw)' = WrittenAt(c, p, mw)
  BY <1>1, <1>5, <1>6, <1>7 DEF WrittenAt
<1>9. ParkAt(c, m)' = ParkAt(c, m)
  BY <1>1, <1>2, <1>4 DEF ParkAt, IdleParkAt
<1>10. \A wt : Target!Final(wt)' = Target!Final(wt)
  BY <1>1 DEF Target!Final, Target!decide_mode
<1>11. \A f, pm : ModeOf(f, pm, m)' = ModeOf(f, pm, m)
  BY <1>1 DEF ModeOf, ResolvedAt, Target!Supported
<1>. QED
  BY <1>8, <1>9, <1>10, <1>11 DEF CommandAt, CommandOf

-----------------------------------------------------------------------------
(* The envelope of a written target. *)

LEMMA HighestFloor ==
  ASSUME NEW x \in Int, NEW y \in Int
  PROVE  Target!FloorOf({<<x, 0>>, <<y, 1>>}) = IF x >= y THEN <<x, 0>> ELSE <<y, 1>>
<1> DEFINE bounds == {<<x, 0>>, <<y, 1>>}
           Top(f) == \A g \in bounds : f[1] > g[1] \/ (f[1] = g[1] /\ f[2] =< g[2])
           best == IF x >= y THEN <<x, 0>> ELSE <<y, 1>>
<1>1. best \in bounds /\ Top(best)
  BY SMT
<1>2. \A f \in bounds : Top(f) => f = best
  BY SMT
<1>3. Target!FloorOf(bounds) = CHOOSE f \in bounds : Top(f)
  BY DEF Target!FloorOf
<1> HIDE DEF bounds, Top, best
<1>4. Target!FloorOf(bounds) = best
  BY <1>1, <1>2, <1>3
<1>. QED
  BY <1>4 DEF bounds, best

LEMMA LowestCap ==
  ASSUME NEW x \in Int, NEW y \in Int
  PROVE  Target!CapOf({<<x, 0>>, <<y, 2>>}) = IF x =< y THEN <<x, 0>> ELSE <<y, 2>>
<1> DEFINE bounds == {<<x, 0>>, <<y, 2>>}
           Low(f) == \A g \in bounds : f[1] < g[1] \/ (f[1] = g[1] /\ f[2] =< g[2])
           best == IF x =< y THEN <<x, 0>> ELSE <<y, 2>>
<1>1. best \in bounds /\ Low(best)
  BY SMT
<1>2. \A f \in bounds : Low(f) => f = best
  BY SMT
<1>3. Target!CapOf(bounds) = CHOOSE f \in bounds : Low(f)
  BY DEF Target!CapOf
<1> HIDE DEF bounds, Low, best
<1>4. Target!CapOf(bounds) = best
  BY <1>1, <1>2, <1>3
<1>. QED
  BY <1>4 DEF bounds, best

LEMMA OnlyBound ==
  ASSUME NEW x
  PROVE  Target!FloorOf({<<x, 0>>}) = <<x, 0>>
<1> DEFINE Top(f) == \A g \in {<<x, 0>>} : f[1] > g[1] \/ (f[1] = g[1] /\ f[2] =< g[2])
<1>1. <<x, 0>> \in {<<x, 0>>} /\ Top(<<x, 0>>)
  BY SMT
<1>2. Target!FloorOf({<<x, 0>>}) = CHOOSE f \in {<<x, 0>>} : Top(f)
  BY DEF Target!FloorOf
<1> HIDE DEF Top
<1>. QED
  BY <1>1, <1>2

LEMMA OnlyCap ==
  ASSUME NEW x
  PROVE  Target!CapOf({<<x, 0>>}) = <<x, 0>>
<1> DEFINE Low(f) == \A g \in {<<x, 0>>} : f[1] < g[1] \/ (f[1] = g[1] /\ f[2] =< g[2])
<1>1. <<x, 0>> \in {<<x, 0>>} /\ Low(<<x, 0>>)
  BY SMT
<1>2. Target!CapOf({<<x, 0>>}) = CHOOSE f \in {<<x, 0>>} : Low(f)
  BY DEF Target!CapOf
<1> HIDE DEF Low
<1>. QED
  BY <1>1, <1>2

\* A value held between bounds that do not cross.
LEMMA BetweenBounds ==
  ASSUME NEW d \in Int, NEW lo \in Int, NEW hi \in Int, lo =< hi
  PROVE  LET r == Target!Min({Target!Max({d, lo}), hi})
         IN  r \in Int /\ lo =< r /\ r =< hi
<1> DEFINE u == Target!Max({d, lo})
<1>1. u = IF d >= lo THEN d ELSE lo
  BY MaxTwo
<1> HIDE DEF u
<1>2. Target!Min({u, hi}) = IF u <= hi THEN u ELSE hi
  BY <1>1, MinTwo
<1>. QED
  BY <1>1, <1>2 DEF u

\* A target in the unconditional envelope is at least what the device can be set
\* to; unless the device cools it is at least the health floor, and only that
\* floor takes it above what the device can be set to.
LEMMA EnvelopeHolds ==
  ASSUME NEW d \in Int, NEW mode, NEW mw \in Int, Target!TypeOK, kind.min =< kind.max
  PROVE  LET r == Target!Enveloped(d, mode, mw)
         IN  /\ r \in Int /\ r >= kind.min
             /\ mode # "cool" => r >= Frost /\ r >= mw
             /\ r > kind.max => r \in {Frost, mw}
<1> DEFINE floor == Target!Max({Frost, mw})
           top == Target!Max({kind.max, floor})
           r == Target!Enveloped(d, mode, mw)
<1>1. kind.min \in Int /\ kind.max \in Int /\ Frost \in Int /\ NormCap \in Int
  BY KindFacts, TargetConstants
<1>2. floor = IF Frost >= mw THEN Frost ELSE mw
  BY <1>1, MaxTwo
<1>3. floor \in Int /\ floor >= Frost /\ floor >= mw /\ floor \in {Frost, mw}
  <2> HIDE DEF floor
  <2>. QED
    BY <1>1, <1>2
<1>4. CASE mode = "cool"
  <2>1. r = Target!resolve_constraints(d, {<<kind.min, 0>>}, {<<kind.max, 0>>})
    BY <1>4 DEF Target!Enveloped, Target!DeviceFloor, Target!DeviceCap
  <2>2. Target!FloorOf({<<kind.min, 0>>}) = <<kind.min, 0>> /\ Target!CapOf({<<kind.max, 0>>}) = <<kind.max, 0>>
    BY <1>1, OnlyBound, OnlyCap
  <2>3. r = Target!Min({Target!Max({d, kind.min}), kind.max})
    BY <1>1, <2>1, <2>2 DEF Target!resolve_constraints
  <2> HIDE DEF r
  <2>4. r \in Int /\ kind.min =< r /\ r =< kind.max
    BY <1>1, <2>3, BetweenBounds
  <2>. QED
    BY <1>1, <1>4, <2>4 DEF r
<1>5. CASE mode # "cool"
  <2>1. r = Target!resolve_constraints(d, {<<kind.min, 0>>, <<floor, 1>>}, {<<top, 0>>, <<NormCap, 2>>})
    <3>1. {<<kind.min, 0>>} \cup {<<floor, 1>>} = {<<kind.min, 0>>, <<floor, 1>>}
          /\ {<<top, 0>>} \cup {<<NormCap, 2>>} = {<<top, 0>>, <<NormCap, 2>>}
      <4> HIDE DEF floor, top
      <4>. QED
        OBVIOUS
    <3>. QED
      BY <1>5, <3>1 DEF Target!Enveloped, Target!DeviceFloor, Target!DeviceCap
  <2> HIDE DEF r, floor
  <2>2. top = IF kind.max >= floor THEN kind.max ELSE floor
    BY <1>1, <1>3, MaxTwo
  <2> HIDE DEF top
  <2>3. top \in Int /\ top >= floor /\ top >= kind.max /\ top \in {kind.max, floor}
    BY <1>1, <1>3, <2>2
  <2> DEFINE f == IF kind.min >= floor THEN <<kind.min, 0>> ELSE <<floor, 1>>
             k == IF top =< NormCap THEN <<top, 0>> ELSE <<NormCap, 2>>
  <2>4. r = IF f[1] > k[1] THEN (IF f[2] =< k[2] THEN f[1] ELSE k[1])
            ELSE Target!Min({Target!Max({d, f[1]}), k[1]})
    BY <1>1, <1>3, <2>1, <2>3, HighestFloor, LowestCap DEF Target!resolve_constraints
  <2>5. f[1] \in Int /\ f[1] >= kind.min /\ f[1] >= floor /\ f[1] \in {kind.min, floor}
        /\ k[1] \in Int /\ k[1] =< top /\ f[2] \in {0, 1} /\ k[2] \in {0, 2}
        /\ (k[2] = 0 => k[1] = top) /\ (f[2] = 0 => f[1] = kind.min) /\ (f[2] = 1 => f[1] = floor)
    BY <1>1, <1>3, <2>3
  <2> HIDE DEF f, k
  <2>6. CASE f[1] > k[1]
    <3>1. f[2] =< k[2]
      BY <1>3, <2>3, <2>5, <2>6
    <3>2. r = f[1]
      BY <2>4, <2>6, <3>1
    <3>. QED
      BY <1>1, <1>3, <1>5, <2>5, <3>2 DEF r
  <2>7. CASE ~ (f[1] > k[1])
    <3>1. r = Target!Min({Target!Max({d, f[1]}), k[1]})
      BY <2>4, <2>7
    <3>2. r \in Int /\ f[1] =< r /\ r =< k[1]
      BY <2>5, <2>7, <3>1, BetweenBounds
    <3>3. r > kind.max => r = floor
      BY <1>1, <1>3, <2>3, <2>5, <3>2
    <3>. QED
      BY <1>1, <1>3, <2>5, <3>2, <3>3 DEF r
  <2>. QED
    BY <2>6, <2>7
<1>. QED
  BY <1>4, <1>5

-----------------------------------------------------------------------------
(* The target comes to rest. *)

\* Where the command of a world has brought the device, it leaves it.
LEMMA CommandIsRepeated ==
  ASSUME NEW c \in Nat, NEW mw \in Int, NEW m, Target!TypeOK
  PROVE  CommandAt(c, mw, CommandAt(c, mw, m).mode) = CommandAt(c, mw, m)
<1> DEFINE p == ParkAt(c, m)
           wt == WrittenAt(c, p, mw)
           f == Target!Final(wt)
           n == ModeOf(f, p.mode, m)
<1>1. CommandAt(c, mw, m) = [mode |-> n, sp |-> wt.sp]
  BY DEF CommandAt, CommandOf
<1>2. Target!HeatSp \in Nat /\ kind.heat \in BOOLEAN /\ kind.cool \in BOOLEAN /\ kind.fan \in BOOLEAN
  BY SetpointsAreNumbers, KindFacts
<1>3. CASE ParkAt(c, n) = p
  <2>1. ModeOf(f, p.mode, n) = n
    <3> HIDE DEF f, p
    <3>. QED
      BY DEF ModeOf, ResolvedAt, Target!Supported
  <2>2. CommandAt(c, mw, n) = [mode |-> n, sp |-> wt.sp]
    BY <1>3, <2>1 DEF CommandAt, CommandOf
  <2>. QED
    BY <1>1, <2>2
<1>4. CASE ParkAt(c, n) # p
  <2>1. /\ Target!Decision = "idle" /\ kind.cool /\ kind.heat
        /\ ~ (kind.fan /\ ~ (kind.heat /\ 2 * indoor < (Target!HeatSp + c) - 2 * Half))
        /\ ~ (2 * indoor > (Target!HeatSp + c) + 2 * Half)
        /\ ((m = "cool") # (n = "cool"))
    <3> HIDE DEF n
    <3>. QED
      BY <1>2, <1>4 DEF ParkAt, IdleParkAt
  <2>2. p = IF m = "cool" THEN [mode |-> "cool", sp |-> c] ELSE [mode |-> "heat", sp |-> Target!HeatSp]
    BY <2>1 DEF ParkAt, IdleParkAt
  <2> HIDE DEF p
  <2>3. p.mode = IF m = "cool" THEN "cool" ELSE "heat"
    BY <2>2
  <2>4. {"heat", "cool", "off"} \subseteq Target!Supported
    BY <2>1 DEF Target!Supported
  <2>6. CASE f = "idle" \/ f \notin {"heat", "cool", "fan_only", "off"}
    <3> HIDE DEF f
    <3>. QED
      BY <2>1, <2>3, <2>4, <2>6 DEF ModeOf, ResolvedAt
  <2>5. CASE f \in {"heat", "cool", "fan_only", "off"}
    <3>1. \A t : ModeOf(f, t, n) = n
      <4> HIDE DEF f
      <4>. QED
        BY <2>5 DEF ModeOf, ResolvedAt
    <3>2. \A q : WrittenAt(c, q, mw) = wt
      <4>1. CASE aired \/ override # Target!Unset \/ stuck
        BY <2>1, <4>1 DEF WrittenAt, DesiredAt
      <4>2. CASE ~ (aired \/ override # Target!Unset \/ stuck)
        BY <2>1, <2>5, <4>2 DEF WrittenAt, ModeAt, Target!Final
      <4>. QED
        BY <4>1, <4>2
    <3>3. WrittenAt(c, ParkAt(c, n), mw) = wt
      BY <3>2
    <3>4. CommandAt(c, mw, n) = [mode |-> n, sp |-> wt.sp]
      BY <3>1, <3>3 DEF CommandAt, CommandOf
    <3>. QED
      BY <1>1, <3>4
  <2>. QED
    BY <2>5, <2>6
<1>. QED
  BY <1>3, <1>4

-----------------------------------------------------------------------------
(* What a tick keeps. *)

\* After a tick the edge is a number, the window's age is known while it is open,
\* and the device is where this world's command leaves it.
TargetInv ==
  /\ Target!TypeOK
  /\ calm => /\ edge \in Nat /\ (aired <=> openFor # Target!Unset)
             /\ \E c, mw, m : /\ c = edge /\ mw = MouldAt(openFor) /\ m = dev.mode
                              /\ dev = CommandAt(c, mw, m)

LimitsOrdered == \A k \in Kinds : k.min =< k.max

LEMMA MouldIsNumber ==
  ASSUME Target!TypeOK, NEW o
  PROVE  /\ MouldAt(o) \in Int
         /\ MouldAt(o) \in {mould, Target!Unset}
         /\ MouldAt(o) = mould \/ (aired /\ o < SuppressFor)
BY KindFacts DEF MouldAt, Target!Unset

LEMMA DesiredIsNumber ==
  ASSUME Target!TypeOK, NEW c \in Nat, NEW mw \in Int, NEW m
  PROVE  DesiredAt(c, ParkAt(c, m), mw) \in Int
<1>1. Target!HeatSp \in Int /\ override \in Int /\ Frost \in Int
  BY SetpointsAreNumbers, KindFacts, TargetConstants
<1>2. ParkAt(c, m).sp \in Int
  <2>1. IdleParkAt(c, m).sp \in {Target!HeatSp, c}
    BY DEF IdleParkAt
  <2>. QED
    BY <1>1, <2>1 DEF ParkAt
<1>3. Target!Max({Frost, mw}) \in Int
  BY <1>1, MaxTwo
<1>4. Target!Manual(c) \in Int
  <2> DEFINE u == Target!Max({override, Target!HeatSp})
  <2>1. u \in Int
    BY <1>1, MaxTwo
  <2> HIDE DEF u
  <2>2. Target!Min({u, c}) \in Int
    BY <2>1, MinTwo
  <2>. QED
    BY <2>1, <2>2 DEF Target!Manual, u
<1>. QED
  BY <1>1, <1>2, <1>3, <1>4 DEF DesiredAt

\* The target of a tick.
LEMMA WrittenHolds ==
  ASSUME Target!TypeOK, LimitsOrdered, NEW c \in Nat, NEW mw \in Int, NEW m,
         mw \in {mould, Target!Unset}
  PROVE  LET wt == WrittenAt(c, ParkAt(c, m), mw)
         IN  /\ wt.sp >= kind.min
             /\ wt.sp > kind.max => wt.sp \in {Frost} \cup Moulds
             /\ stuck /\ kind.heat => wt.sp >= Frost /\ wt.sp >= mould
             /\ ~ (stuck /\ kind.heat) /\ ModeAt # "cool" => wt.sp >= Frost /\ wt.sp >= mw
<1> DEFINE wt == WrittenAt(c, ParkAt(c, m), mw)
           d == DesiredAt(c, ParkAt(c, m), mw)
<1>1. /\ kind.min \in Int /\ kind.max \in Int /\ kind.max \in Nat /\ kind.min =< kind.max
      /\ Frost \in Int /\ mould \in Int
      /\ (mould # Target!Unset => mould \in Moulds) /\ Target!Unset = -1
  BY KindFacts, TargetConstants DEF LimitsOrdered, Target!Unset
<1>2. CASE stuck /\ kind.heat
  <2>1. wt.sp = Target!Max({Frost, mould, kind.min})
    BY <1>2 DEF WrittenAt
  <2> HIDE DEF wt
  <2> DEFINE t == Target!Max({Frost, mould, kind.min})
  <2>0. t \in {Frost, mould, kind.min} /\ t >= Frost /\ t >= mould /\ t >= kind.min
    BY <1>1, MaxThree
  <2>2. wt.sp \in {Frost, mould, kind.min} /\ wt.sp >= Frost /\ wt.sp >= mould /\ wt.sp >= kind.min
    BY <2>1, <2>0
  <2>3. wt.sp > kind.max => wt.sp \in {Frost} \cup Moulds
    BY <1>1, <2>2
  <2>. QED
    BY <1>2, <2>2, <2>3 DEF wt
<1>3. CASE ~ (stuck /\ kind.heat)
  <2>1. wt.sp = Target!Enveloped(d, ModeAt, mw)
    BY <1>3 DEF WrittenAt
  <2>2. d \in Int
    BY DesiredIsNumber
  <2> HIDE DEF d, wt
  <2>3. /\ wt.sp \in Int /\ wt.sp >= kind.min
        /\ ModeAt # "cool" => wt.sp >= Frost /\ wt.sp >= mw
        /\ wt.sp > kind.max => wt.sp \in {Frost, mw}
    BY <1>1, <2>1, <2>2, EnvelopeHolds
  <2>4. wt.sp > kind.max => wt.sp \in {Frost} \cup Moulds
    BY <1>1, <2>3
  <2>. QED
    BY <1>3, <2>3, <2>4 DEF wt
<1>. QED
  BY <1>2, <1>3

LEMMA ModeOfIsSupported ==
  ASSUME NEW f, NEW pm, NEW m \in Target!Supported
  PROVE  ModeOf(f, pm, m) \in Target!Supported
BY DEF ModeOf

LEMMA TargetTickKeeps ==
  ASSUME TargetInv, Target!Tick, LimitsOrdered
  PROVE  TargetInv'
<1>1. PICK c, mw, m : /\ c = Target!rate_limit(edge, Target!Raised)
                      /\ mw = MouldAt(openFor') /\ m = dev.mode
  OBVIOUS
<1>2. Target!TypeOK /\ UNCHANGED <<kind, Target!world>> /\ calm' = TRUE
  BY TargetTickIs DEF TargetInv
<1>3. edge' = c /\ dev' = CommandAt(c, mw, m)
  BY <1>1, TargetTickIs
<1>4. c \in Nat
  BY <1>1, <1>2, EdgeType, SetpointsAreNumbers DEF Target!TypeOK
<1>5. mw \in Int /\ mw \in {mould, Target!Unset}
  BY <1>1, <1>2, MouldIsNumber
<1>6. openFor' \in -1 .. SuppressFor /\ (aired <=> openFor' # Target!Unset)
  <2>1. openFor \in -1 .. SuppressFor /\ SuppressFor \in Nat \ {0} /\ aired \in BOOLEAN
    BY <1>2, TargetConstants DEF Target!TypeOK
  <2>2. CASE aired
    <3>1. openFor' = IF openFor = Target!Unset THEN 0
                     ELSE IF openFor < SuppressFor THEN openFor + 1 ELSE openFor
      BY <2>2, TargetTickIs
    <3>2. openFor' \in 0 .. SuppressFor
      BY <2>1, <3>1 DEF Target!Unset
    <3>. QED
      BY <2>1, <2>2, <3>2 DEF Target!Unset
  <2>3. CASE ~ aired
    <3>1. openFor' = Target!Unset
      BY <2>3, TargetTickIs
    <3>2. openFor' \in -1 .. SuppressFor
      BY <2>1, <3>1 DEF Target!Unset
    <3>. QED
      BY <2>3, <3>1, <3>2
  <2>. QED
    BY <2>1, <2>2, <2>3
<1> DEFINE wt == WrittenAt(c, ParkAt(c, m), mw)
<1>7. dev' = [mode |-> ModeOf(Target!Final(wt), ParkAt(c, m).mode, m), sp |-> wt.sp]
  BY <1>3 DEF CommandAt, CommandOf
<1>8. /\ wt.sp >= kind.min /\ (wt.sp > kind.max => wt.sp \in {Frost} \cup Moulds)
  BY <1>2, <1>4, <1>5, WrittenHolds
<1> HIDE DEF wt
<1>9. dev'.mode \in Target!Supported /\ dev'.sp = wt.sp
  BY <1>1, <1>2, <1>7, ModeOfIsSupported DEF Target!TypeOK
<1>10. UNCHANGED <<kind, indoor, outdoor, band, mould, aired, stuck, override>>
  BY <1>2 DEF Target!world
<1>11. Target!Supported' = Target!Supported
  BY <1>10 DEF Target!Supported
<1>12. Target!TypeOK'
  <2>1. /\ kind' \in Kinds /\ indoor' \in Indoors /\ outdoor' \in Outdoors /\ band' \in Bands
        /\ mould' \in Moulds \cup {Target!Unset} /\ override' \in Overrides \cup {Target!Unset}
        /\ aired' \in BOOLEAN /\ stuck' \in BOOLEAN
    BY <1>2, <1>10 DEF Target!TypeOK
  <2>2. calm' \in BOOLEAN
    BY <1>2
  <2>3. edge' \in Nat \cup {Target!Unset} /\ openFor' \in -1 .. SuppressFor
    BY <1>3, <1>4, <1>6
  <2>4. dev'.sp >= kind'.min /\ (dev'.sp > kind'.max => dev'.sp \in {Frost} \cup Moulds)
    BY <1>8, <1>9, <1>10
  <2>. QED
    BY <1>9, <1>11, <2>1, <2>2, <2>3, <2>4 DEF Target!TypeOK
<1>13. PICK n : n = dev'.mode
  OBVIOUS
<1>14. n = CommandAt(c, mw, m).mode
  BY <1>3, <1>13
<1>15. dev' = CommandAt(c, mw, n)
  BY <1>2, <1>3, <1>4, <1>5, <1>14, CommandIsRepeated
<1>16. CommandAt(c, mw, n)' = CommandAt(c, mw, n)
  BY <1>2, CommandIsOfTheWorld
<1>17. MouldAt(openFor)' = mw
  BY <1>1, <1>10 DEF MouldAt
<1>18. \E c1, mw1, m1 : /\ c1 = edge' /\ mw1 = MouldAt(openFor)' /\ m1 = dev'.mode
                        /\ dev' = CommandAt(c1, mw1, m1)'
  BY <1>3, <1>13, <1>15, <1>16, <1>17
<1>19. edge' \in Nat /\ (aired' <=> openFor' # Target!Unset)
  BY <1>3, <1>4, <1>6, <1>10
<1>. QED
  BY <1>12, <1>18, <1>19 DEF TargetInv

LEMMA WorldMoves ==
  ASSUME TargetInv, Target!Weather \/ Target!SetOverride
  PROVE  TargetInv'
<1>1. Target!TypeOK /\ calm' = FALSE /\ UNCHANGED <<kind, edge, openFor, dev>>
  BY DEF TargetInv, Target!Weather, Target!SetOverride
<1>2. /\ indoor' \in Indoors /\ outdoor' \in Outdoors /\ band' \in Bands
      /\ mould' \in Moulds \cup {Target!Unset} /\ override' \in Overrides \cup {Target!Unset}
      /\ aired' \in BOOLEAN /\ stuck' \in BOOLEAN
  BY <1>1 DEF Target!TypeOK, Target!Weather, Target!SetOverride
<1>3. Target!Supported' = Target!Supported
  BY <1>1 DEF Target!Supported
<1>. QED
  BY <1>1, <1>2, <1>3 DEF TargetInv, Target!TypeOK

LEMMA TargetRests ==
  ASSUME TargetInv, UNCHANGED target
  PROVE  TargetInv'
<1>1. UNCHANGED <<kind, edge, openFor, dev, calm>> /\ UNCHANGED <<kind, Target!world>>
      /\ UNCHANGED <<kind, indoor, outdoor, band, mould, aired, stuck, override>>
  BY DEF target, Target!world
<1>2. Target!Supported' = Target!Supported
  BY <1>1 DEF Target!Supported
<1>3. Target!TypeOK'
  BY <1>1, <1>2 DEF TargetInv, Target!TypeOK
<1>4. calm => \E c, mw, m : /\ c = edge' /\ mw = MouldAt(openFor)' /\ m = dev'.mode
                            /\ dev' = CommandAt(c, mw, m)'
  <2>1. SUFFICES ASSUME calm
                 PROVE  \E c, mw, m : /\ c = edge' /\ mw = MouldAt(openFor)' /\ m = dev'.mode
                                      /\ dev' = CommandAt(c, mw, m)'
    OBVIOUS
  <2>2. PICK c, mw, m : /\ c = edge /\ mw = MouldAt(openFor) /\ m = dev.mode
                        /\ dev = CommandAt(c, mw, m)
    BY <2>1 DEF TargetInv
  <2>3. CommandAt(c, mw, m)' = CommandAt(c, mw, m)
    BY <1>1, CommandIsOfTheWorld
  <2>4. MouldAt(openFor)' = MouldAt(openFor)
    BY <1>1 DEF MouldAt
  <2>. QED
    BY <1>1, <2>2, <2>3, <2>4
<1>. QED
  BY <1>1, <1>3, <1>4 DEF TargetInv

LEMMA TargetStarts ==
  ASSUME Target!Init, LimitsOrdered
  PROVE  TargetInv
<1>1. /\ kind \in Kinds /\ indoor \in Indoors /\ outdoor \in Outdoors /\ band \in Bands
      /\ mould = Target!Unset /\ aired = FALSE /\ stuck = FALSE /\ override = Target!Unset
      /\ edge = Target!Unset /\ openFor = Target!Unset /\ calm = FALSE
      /\ dev.mode \in Target!Supported /\ dev.sp = kind.min
  BY DEF Target!Init
<1>2. kind.min \in Nat /\ kind.max \in Nat /\ kind.min =< kind.max
  BY <1>1, TargetConstants DEF LimitsOrdered
<1>3. openFor \in -1 .. SuppressFor
  BY <1>1, TargetConstants DEF Target!Unset
<1>4. dev.sp >= kind.min /\ ~ (dev.sp > kind.max)
  BY <1>1, <1>2
<1>. QED
  BY <1>1, <1>3, <1>4 DEF TargetInv, Target!TypeOK

\* A second tick of the same world repeats the first.
Settles ==
  calm /\ calm' /\ dev' # dev
    => \/ edge' # edge /\ (edge < Target!Raised <=> edge < edge')
                      /\ (edge' < Target!Raised => edge < Target!Raised)
                      /\ (edge' > Target!Raised => edge > Target!Raised)
       \/ aired /\ openFor' = SuppressFor /\ openFor < openFor'

LEMMA TickSettles ==
  ASSUME TargetInv, Target!Tick
  PROVE  Settles
<1> SUFFICES ASSUME calm, dev' # dev, ~ (aired /\ openFor' = SuppressFor /\ openFor < openFor')
             PROVE  edge' # edge /\ (edge < Target!Raised <=> edge < edge')
                                /\ (edge' < Target!Raised => edge < Target!Raised)
                                /\ (edge' > Target!Raised => edge > Target!Raised)
  BY DEF Settles
<1>1. Target!TypeOK /\ edge \in Nat /\ (aired <=> openFor # Target!Unset)
  BY DEF TargetInv
<1>2. MouldAt(openFor') = MouldAt(openFor)
  <2>1. openFor \in -1 .. SuppressFor /\ SuppressFor \in Nat \ {0} /\ aired \in BOOLEAN
    BY <1>1, TargetConstants DEF Target!TypeOK
  <2>2. CASE aired
    <3>1. openFor' = IF openFor < SuppressFor THEN openFor + 1 ELSE openFor
      BY <1>1, <2>2, TargetTickIs
    <3>2. ~ (openFor' = SuppressFor /\ openFor < openFor')
      BY <2>2
    <3>3. openFor' < SuppressFor <=> openFor < SuppressFor
      BY <2>1, <3>1, <3>2
    <3>. QED
      BY <3>3 DEF MouldAt
  <2>3. CASE ~ aired
    BY <2>3 DEF MouldAt
  <2>. QED
    BY <2>2, <2>3
<1>3. edge' # edge
  BY <1>2, TargetTickIs DEF TargetInv
<1>4. Target!Raised \in Nat /\ edge' = Target!rate_limit(edge, Target!Raised)
  BY <1>1, SetpointsAreNumbers, TargetTickIs
<1>5. /\ edge < Target!Raised <=> edge < edge'
      /\ edge' < Target!Raised => edge < Target!Raised
      /\ edge' > Target!Raised => edge > Target!Raised
  BY <1>1, <1>3, <1>4, EdgeApproaches
<1>. QED
  BY <1>3, <1>5

\* A tick that leaves the device heating holds the frost and the mould floor.
Healthy ==
  calm' /\ dev'.mode = "heat"
    => /\ dev'.sp >= Frost
       /\ dev'.sp >= mould \/ (aired /\ ~stuck /\ openFor' < SuppressFor)

LEMMA TickIsHealthy ==
  ASSUME TargetInv, Target!Tick, LimitsOrdered
  PROVE  Healthy
<1> SUFFICES ASSUME dev'.mode = "heat"
             PROVE  /\ dev'.sp >= Frost
                    /\ dev'.sp >= mould \/ (aired /\ ~stuck /\ openFor' < SuppressFor)
  BY DEF Healthy
<1>1. PICK c, mw, m : /\ c = Target!rate_limit(edge, Target!Raised)
                      /\ mw = MouldAt(openFor') /\ m = dev.mode
  OBVIOUS
<1>2. Target!TypeOK
  BY DEF TargetInv
<1>3. dev' = CommandAt(c, mw, m)
  BY <1>1, TargetTickIs
<1>4. c \in Nat
  BY <1>1, <1>2, EdgeType, SetpointsAreNumbers DEF Target!TypeOK
<1>5. mw \in Int /\ mw \in {mould, Target!Unset} /\ (mw = mould \/ (aired /\ openFor' < SuppressFor))
  BY <1>1, <1>2, MouldIsNumber
<1> DEFINE wt == WrittenAt(c, ParkAt(c, m), mw)
           f == Target!Final(wt)
<1>6. dev'.sp = wt.sp /\ ModeOf(f, ParkAt(c, m).mode, m) = "heat"
  BY <1>3 DEF CommandAt, CommandOf
<1>7. /\ stuck /\ kind.heat => wt.sp >= Frost /\ wt.sp >= mould
      /\ ~ (stuck /\ kind.heat) /\ ModeAt # "cool" => wt.sp >= Frost /\ wt.sp >= mw
  BY <1>2, <1>4, <1>5, WrittenHolds
<1>8. m \in Target!Supported
  BY <1>1, <1>2 DEF Target!TypeOK
<1>9. kind.heat /\ ~ stuck => ModeAt # "cool"
  <2>1. SUFFICES ASSUME ~ stuck, ModeAt = "cool" PROVE FALSE
    OBVIOUS
  <2>2. Target!Decision = "cool" /\ ~ aired /\ override = Target!Unset
    BY <2>1 DEF ModeAt
  <2>3. f = "cool"
    BY <2>1, <2>2 DEF WrittenAt, ModeAt, Target!Final
  <2>4. kind.cool
    BY <2>2 DEF Target!Decision, Target!decide_mode
  <2> HIDE DEF f
  <2>. QED
    BY <1>6, <2>3, <2>4 DEF ModeOf, ResolvedAt, Target!Supported
<1>10. kind.heat
  <2> HIDE DEF f
  <2>. QED
    BY <1>6, <1>8 DEF ModeOf, Target!Supported
<1> HIDE DEF wt
<1>11. wt.sp >= Frost /\ (wt.sp >= mould \/ (~ stuck /\ wt.sp >= mw))
  BY <1>7, <1>9, <1>10
<1>. QED
  BY <1>5, <1>6, <1>11

\* Nothing but a room in want of heat, a window, a frozen sensor or a hand turns
\* a device from cooling to heating.
NotUndone ==
  calm' /\ dev.mode = "cool" /\ dev'.mode = "heat"
    => aired \/ stuck \/ override # Target!Unset \/ Target!Decision = "heat"

LEMMA TickUndoesNoCooling ==
  ASSUME TargetInv, Target!Tick
  PROVE  NotUndone
<1> SUFFICES ASSUME dev.mode = "cool", dev'.mode = "heat", ~ aired, ~ stuck,
                    override = Target!Unset, Target!Decision # "heat"
             PROVE  FALSE
  BY DEF NotUndone
<1>1. PICK c, mw, m : /\ c = Target!rate_limit(edge, Target!Raised)
                      /\ mw = MouldAt(openFor') /\ m = "cool"
  OBVIOUS
<1>2. dev' = CommandAt(c, mw, m)
  BY <1>1, TargetTickIs
<1> DEFINE p == ParkAt(c, m)
           wt == WrittenAt(c, p, mw)
           f == Target!Final(wt)
<1>3. ModeOf(f, p.mode, m) = "heat"
  BY <1>2 DEF CommandAt, CommandOf
<1>4. f = Target!Decision
  BY DEF WrittenAt, ModeAt, Target!Final
<1>5. kind.cool /\ "cool" \in Target!Supported
  BY DEF TargetInv, Target!TypeOK, Target!Supported
<1>6. Target!Decision \in {"cool", "idle"}
  BY DEF Target!Decision, Target!decide_mode
<1>7. CASE Target!Decision = "cool"
  <2> HIDE DEF f
  <2>. QED
    BY <1>3, <1>4, <1>5, <1>7 DEF ModeOf, ResolvedAt
<1>8. CASE Target!Decision = "idle"
  <2>1. p.mode \in {"fan_only", "cool"} /\ (p.mode = "fan_only" => kind.fan)
    BY <1>1, <1>5, <1>8 DEF ParkAt, IdleParkAt
  <2> HIDE DEF f, p
  <2>2. ResolvedAt(f, p.mode, m) = p.mode
    BY <1>4, <1>8, <2>1 DEF ResolvedAt
  <2>3. p.mode \in Target!Supported
    BY <1>5, <2>1 DEF Target!Supported
  <2>. QED
    BY <1>3, <2>1, <2>2, <2>3 DEF ModeOf
<1>. QED
  BY <1>6, <1>7, <1>8

LEMMA TargetNextSound ==
  ASSUME LimitsOrdered
  PROVE  TargetInv /\ [PartsNext]_<<part, vars, target>>
           => TargetInv' /\ [Settles /\ Healthy /\ NotUndone]_(Target!vars)
<1> SUFFICES ASSUME TargetInv, [PartsNext]_<<part, vars, target>>
             PROVE  TargetInv' /\ ((Settles /\ Healthy /\ NotUndone) \/ UNCHANGED Target!vars)
  BY Zenon
<1>1. CASE Target!Tick
  BY <1>1, TargetTickKeeps, TickSettles, TickIsHealthy, TickUndoesNoCooling
<1>2. CASE Target!Weather \/ Target!SetOverride
  <2>1. calm' = FALSE
    BY <1>2 DEF Target!Weather, Target!SetOverride
  <2>. QED
    BY <1>2, <2>1, WorldMoves DEF Settles, Healthy, NotUndone
<1>3. CASE UNCHANGED target
  BY <1>3, TargetRests DEF target, Target!vars, Target!world
<1>4. Target!Next \/ UNCHANGED target
  BY DEF PartsNext, target
<1>. QED
  BY <1>1, <1>2, <1>3, <1>4 DEF Target!Next

(***************************************************************************)
(* A world that stands still brings the target to rest, a device that      *)
(* cools is not set to heat without a demand for heat, and no tick leaves  *)
(* a device heating below the frost and the mould floor; every target      *)
(* stays within the device's range but for those floors: for every band,   *)
(* limit, lockout and device whose limits are in order                     *)
(* (resolve_write_target, idle_park, rate_limit).                          *)
(***************************************************************************)
THEOREM TargetComesToRest == ASSUME LimitsOrdered PROVE PartsSpec => TargetIsSteady
<1>1. PartsInit => TargetInv
  BY TargetStarts DEF PartsInit
<1>2. TargetInv => (part = "target" => Target!TypeOK)
  BY DEF TargetInv
<1>3. [Settles /\ Healthy /\ NotUndone]_(Target!vars)
        => [Settles]_(Target!vars) /\ [Healthy]_(Target!vars) /\ [NotUndone]_(Target!vars)
  OBVIOUS
<1>4. PartsSpec => [](part = "target" => Target!TypeOK) /\ [][Settles]_(Target!vars)
                   /\ [][Healthy]_(Target!vars) /\ [][NotUndone]_(Target!vars)
  BY <1>1, <1>2, <1>3, TargetNextSound, PTL DEF PartsSpec
<1>. QED
  BY <1>4 DEF TargetIsSteady, Target!SteadyWorldSettles, Target!HealthIsHeld,
              Target!CoolingIsNotUndone, Settles, Healthy, NotUndone
=============================================================================

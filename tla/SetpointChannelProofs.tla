------------------------- MODULE SetpointChannelProofs -------------------------
(***************************************************************************)
(* What the setpoint channel and its watchdog keep for every grid, plan    *)
(* and threshold.  TypeInv is inductive with all faults.  ChoiceInv says   *)
(* where the device stands while no choice of the user is undecided: it    *)
(* has Reached the last command, shows a value that some earlier command   *)
(* has Explained, or that command is UnderWay.  CommandInv and CountInv    *)
(* say what the watchdog may have counted of a device that follows.        *)
(***************************************************************************)
EXTENDS WriteConvergence, SequenceTheorems, TLAPS

OrNone(S) == S \cup {None}
MemType ==
  [written : OrNone(Setpoints), age : OrNone(0 .. Liveness), pre : OrNone(Setpoints),
   prev : OrNone(Setpoints), cmd : OrNone(Setpoints), episode : OrNone(0 .. SettleMin),
   mode : {"heat", "idle", "off", None}]
DevType == [sp : Setpoints, online : BOOLEAN, mark : Marks, newer : BOOLEAN]
CommandType == [sp : OrNone(Setpoints), id : Marks]
HoldType == OrNone(1 .. Top)

\* An episode of the setpoint has a stamp: both begin with a command.
TypeInv ==
  /\ up \in BOOLEAN /\ enabled \in BOOLEAN /\ plan \in Plans /\ hold \in HoldType
  /\ mem \in MemType /\ dev \in DevType
  /\ flight \in Seq(CommandType) /\ Len(flight) <= Depth
  /\ deaf \in BOOLEAN /\ fresh \in BOOLEAN /\ astray \in BOOLEAN /\ calm \in BOOLEAN
  /\ mem.episode # None => mem.age # None
-----------------------------------------------------------------------------
(* The operators of a tick.                                                *)

LEMMA Constants ==
  /\ Top \in Nat /\ Default \in Setpoints /\ Frost \in Setpoints
  /\ Setpoints \subseteq Int /\ None \notin Int
  /\ \A v \in Setpoints : Settle[v] \in Setpoints
  /\ \A p \in Plans : /\ p.sp \in Setpoints /\ p.lo \in Setpoints /\ p.hi \in Setpoints /\ p.lo <= p.hi
                      /\ p.mode \in {"heat", "idle", "off"}
                      /\ p.safety \in BOOLEAN /\ p.sched \in BOOLEAN
  /\ Window \in Nat \ {0} /\ SettleMin \in Nat /\ Liveness \in Nat /\ Throttle \in Nat
  /\ Window <= Throttle /\ Throttle <= Liveness
  /\ Depth \in Nat \ {0}
<1>1. /\ Top \in Nat /\ Default \in Setpoints /\ Frost \in Setpoints
      /\ Setpoints \subseteq Int /\ None \notin Int
      /\ Window \in Nat \ {0} /\ SettleMin \in Nat /\ Liveness \in Nat /\ Throttle \in Nat
      /\ Window <= Throttle /\ Throttle <= Liveness
      /\ Depth \in Nat \ {0}
  BY SetpointAssumption DEF Setpoints, Frost
<1>2. \A v \in Setpoints : Settle[v] \in Setpoints
  BY SetpointAssumption
<1>3. ASSUME NEW p \in Plans
      PROVE  /\ p.sp \in Setpoints /\ p.lo \in Setpoints /\ p.hi \in Setpoints /\ p.lo <= p.hi
             /\ p.mode \in {"heat", "idle", "off"}
             /\ p.safety \in BOOLEAN /\ p.sched \in BOOLEAN
  <2>1. p \in PlanType /\ p.lo <= p.hi
    BY SetpointAssumption
  <2> QED
    BY <2>1 DEF PlanType
<1> QED
  BY <1>1, <1>2, <1>3

LEMMA AgedFacts ==
  ASSUME NEW cap \in Nat, NEW age \in OrNone(0 .. cap), NEW d \in {0, 1}
  PROVE  /\ Aged(age, d, cap) \in OrNone(0 .. cap)
         /\ (Aged(age, d, cap) = None) = (age = None)
         /\ age # None => Aged(age, d, cap) >= age /\ Aged(age, d, cap) <= age + d
         /\ d = 0 => Aged(age, d, cap) = age
         /\ age # None /\ Aged(age, d, cap) < cap => Aged(age, d, cap) = age + d
BY Constants DEF Aged, Min2, OrNone

LEMMA TargetType ==
  ASSUME NEW p \in Plans, NEW h \in HoldType
  PROVE  Target(p, h) \in Setpoints
BY Constants DEF Target, Min2, Max2, HoldType, OrNone, Setpoints, Frost

LEMMA OlderFacts ==
  ASSUME NEW m \in MemType, NEW d \in {0, 1}
  PROVE  /\ Older(m, d) \in MemType
         /\ Older(m, d).written = m.written /\ Older(m, d).pre = m.pre
         /\ Older(m, d).prev = m.prev /\ Older(m, d).cmd = m.cmd /\ Older(m, d).mode = m.mode
         /\ Older(m, d).age = Aged(m.age, d, Liveness)
         /\ Older(m, d).episode = Aged(m.episode, d, SettleMin)
<1>1. /\ Aged(m.age, d, Liveness) \in OrNone(0 .. Liveness)
      /\ Aged(m.episode, d, SettleMin) \in OrNone(0 .. SettleMin)
  BY AgedFacts, Constants DEF MemType
<1> QED
  BY <1>1 DEF Older, MemType

LEMMA ObservedFacts ==
  ASSUME NEW m \in MemType, dev \in DevType
  PROVE  /\ Observed(m) \in MemType
         /\ Observed(m).written = IF OwnChange THEN dev.sp ELSE m.written
         /\ Observed(m).pre = m.pre /\ Observed(m).prev = m.prev /\ Observed(m).cmd = m.cmd
         /\ Observed(m).mode = m.mode /\ Observed(m).age = m.age
         /\ Observed(m).episode = IF dev.online THEN m.episode ELSE None
BY DEF Observed, MemType, DevType, OrNone

\* The memory a tick decides on, and with the value it leaves for the next one.
Observes(d) == Observed(Older(mem, d))
Noted(d) == [Observes(d) EXCEPT !.prev = Actual]
Nudging(c) == IF c.nudge = "sent" THEN <<Command(None, "ours")>> ELSE <<>>
Decides(d) == Observation(Observes(d), plan) = "adopt"
Undecided(d) == ~dev.online \/ (Observes(d).age # None /\ InWindow(Observes(d)))

LEMMA ObservesFacts ==
  ASSUME TypeInv, NEW d \in {0, 1}
  PROVE  /\ Observes(d) \in MemType /\ Noted(d) \in MemType
         /\ Observes(d).written = IF OwnChange THEN dev.sp ELSE mem.written
         /\ Observes(d).pre = mem.pre /\ Observes(d).prev = mem.prev
         /\ Observes(d).cmd = mem.cmd /\ Observes(d).mode = mem.mode
         /\ Observes(d).age = Aged(mem.age, d, Liveness)
         /\ Observes(d).episode = IF dev.online THEN Aged(mem.episode, d, SettleMin) ELSE None
         /\ Noted(d).written = Observes(d).written /\ Noted(d).pre = mem.pre
         /\ Noted(d).prev = Actual /\ Noted(d).cmd = mem.cmd /\ Noted(d).mode = mem.mode
         /\ Noted(d).age = Observes(d).age /\ Noted(d).episode = Observes(d).episode
         /\ Actual \in OrNone(Setpoints)
<1>1. mem \in MemType /\ dev \in DevType
  BY DEF TypeInv
<1>2. Older(mem, d) \in MemType
  BY <1>1, OlderFacts
<1>3. Actual \in OrNone(Setpoints)
  BY <1>1 DEF Actual, DevType, OrNone
<1>4. Observes(d) \in MemType
  BY <1>1, <1>2, ObservedFacts DEF Observes
<1>5. /\ Noted(d) \in MemType /\ Noted(d).prev = Actual
      /\ Noted(d).written = Observes(d).written /\ Noted(d).pre = Observes(d).pre
      /\ Noted(d).cmd = Observes(d).cmd /\ Noted(d).mode = Observes(d).mode
      /\ Noted(d).age = Observes(d).age /\ Noted(d).episode = Observes(d).episode
  BY <1>3, <1>4 DEF Noted, MemType
<1>6. /\ Observes(d).written = IF OwnChange THEN dev.sp ELSE mem.written
      /\ Observes(d).pre = mem.pre /\ Observes(d).prev = mem.prev
      /\ Observes(d).cmd = mem.cmd /\ Observes(d).mode = mem.mode
      /\ Observes(d).age = Aged(mem.age, d, Liveness)
      /\ Observes(d).episode = IF dev.online THEN Aged(mem.episode, d, SettleMin) ELSE None
  BY <1>1, <1>2, ObservedFacts, OlderFacts DEF Observes
<1> QED
  BY <1>3, <1>4, <1>5, <1>6

\* When a tick takes over what the device shows.
LEMMA DecidesFacts ==
  ASSUME TypeInv, NEW d \in {0, 1}, Decides(d)
  PROVE  /\ dev.online /\ dev.mark = "foreign" /\ Actual = dev.sp
         /\ mem.written # None /\ mem.age # None /\ dev.sp # mem.written /\ dev.sp > Frost
         /\ IF Aged(mem.age, d, Liveness) < Window
            THEN mem.pre \notin {None, dev.sp} ELSE mem.prev # dev.sp
<1>1. dev.sp \in Int /\ None \notin Int
  BY Constants DEF TypeInv, DevType
<1>2. ~OwnChange /\ Reason(Observes(d)) = "adopt"
  BY DEF Decides, Observation
<1>3. /\ Actual # None /\ Observes(d).written # None /\ Observes(d).age # None
      /\ Actual # Observes(d).written /\ ~(Actual <= Frost)
      /\ IF InWindow(Observes(d)) THEN Observes(d).pre \notin {None, Actual}
         ELSE Observes(d).prev # Actual
  BY <1>2 DEF Reason
<1>4. dev.online /\ Actual = dev.sp /\ dev.mark = "foreign"
  BY <1>2, <1>3 DEF Actual, OwnChange
<1>5. mem.age \in OrNone(0 .. Liveness) /\ Liveness \in Nat
  BY Constants DEF TypeInv, MemType
<1>6. Observes(d).age = Aged(mem.age, d, Liveness) /\ (Aged(mem.age, d, Liveness) = None) = (mem.age = None)
  BY <1>5, ObservesFacts, AgedFacts
<1>7. Observes(d).written = mem.written /\ Observes(d).pre = mem.pre /\ Observes(d).prev = mem.prev
  BY <1>2, ObservesFacts
<1> QED
  BY <1>1, <1>3, <1>4, <1>6, <1>7 DEF InWindow, Frost
-----------------------------------------------------------------------------
(* The steps.                                                              *)

LEMMA VerdictFacts ==
  ASSUME TypeInv, NEW d \in {0, 1}, NEW c \in Cases
  PROVE  /\ Found(d, c).target = Target(plan, Held(c))
         /\ Found(d, c).adopts = Decides(d)
         /\ Found(d, c).mem = Observes(d)
         /\ Found(d, c).writes =>
              /\ dev.online /\ ~Decides(d) /\ c.nudge # "blocked"
              /\ ~Throttled(Observes(d), Target(plan, Held(c)), plan.mode # mem.mode)
         /\ Found(d, c).writes \in BOOLEAN
<1>1. mem \in MemType
  BY DEF TypeInv
<1>2. Older(mem, d).mode = mem.mode
  BY <1>1, OlderFacts
<1> DEFINE m == Older(mem, d)
<1>3. /\ Found(d, c).target = Target(plan, Held(c))
      /\ Found(d, c).adopts = Decides(d)
      /\ Found(d, c).mem = Observes(d)
  BY DEF Found, Verdict, Observes, Decides
<1>4. ASSUME Found(d, c).writes
      PROVE  /\ dev.online /\ ~Decides(d) /\ c.nudge # "blocked"
             /\ ~Throttled(Observes(d), Target(plan, Held(c)), plan.mode # mem.mode)
  BY <1>2, <1>4 DEF Found, Verdict, Observes, Decides
<1>5. Found(d, c).writes \in BOOLEAN
  BY DEF Found, Verdict
<1> QED
  BY <1>3, <1>4, <1>5

\* What an enabled tick comes to: it takes the setpoint of the device over, sends
\* its own, or does neither.
Wanted(c) == Target(plan, Held(c))
Takes(d, c) ==
  /\ mem' = Adopted(Noted(d)) /\ hold' = Actual /\ fresh' = FALSE
  /\ flight' = flight \o Nudging(c) /\ dev' = dev
Sends(d, c) ==
  /\ dev.online /\ ~Throttled(Observes(d), Wanted(c), plan.mode # mem.mode)
  /\ mem' = Written(Noted(d), Wanted(c), plan) /\ hold' = Held(c)
  /\ fresh' = (fresh /\ Undecided(d))
  /\ flight' = Superseded(flight) \o (Nudging(c) \o <<Command(Wanted(c), "current")>>)
  /\ dev' = [dev EXCEPT !.newer = FALSE, !.mark = IF @ = "current" THEN "ours" ELSE @]
Refused(d) == [Noted(d) EXCEPT !.pre = Actual]
Keeps(d, c) ==
  /\ mem' = Noted(d) \/ (c.refused /\ mem' = Refused(d))
  /\ hold' = Held(c) /\ fresh' = (fresh /\ Undecided(d))
  /\ flight' = flight \o Nudging(c) /\ dev' = dev

LEMMA TickEffect ==
  ASSUME TypeInv, NEW d \in {0, 1}, NEW c \in Cases, Tick(d, c), enabled
  PROVE  \/ Decides(d) /\ Takes(d, c)
         \/ ~Decides(d) /\ Sends(d, c)
         \/ ~Decides(d) /\ Keeps(d, c)
<1> DEFINE v == Found(d, c)
<1>1. /\ v.target = Wanted(c) /\ v.adopts = Decides(d) /\ v.mem = Observes(d)
      /\ v.writes \in BOOLEAN
      /\ v.writes => /\ dev.online /\ ~Decides(d)
                     /\ ~Throttled(Observes(d), Wanted(c), plan.mode # mem.mode)
  BY VerdictFacts DEF Wanted
<1>2. /\ Regulate(v, c.nudge, c.refused)
      /\ hold' = IF v.adopts THEN Actual ELSE Held(c)
      /\ c.refused => v.writes
  BY DEF Tick
<1>3. c.refused \in BOOLEAN /\ Decides(d) \in BOOLEAN
  BY DEF Cases, Decides
<1> HIDE DEF v
<1>4. /\ mem' = IF v.adopts THEN Adopted(Noted(d))
                ELSE IF v.writes /\ ~c.refused THEN Written(Noted(d), v.target, plan)
                ELSE IF v.writes THEN Refused(d) ELSE Noted(d)
      /\ IF v.writes /\ ~c.refused
         THEN flight' = Superseded(flight) \o (Nudging(c) \o <<Command(v.target, "current")>>)
         ELSE flight' = flight \o Nudging(c)
      /\ dev' = IF v.writes /\ ~c.refused
                THEN [dev EXCEPT !.newer = FALSE, !.mark = IF @ = "current" THEN "ours" ELSE @]
                ELSE dev
      /\ fresh' = (fresh /\ ~v.adopts /\ Undecided(d))
  BY <1>1, <1>2 DEF Regulate, Noted, Nudging, Send, Refused, Undecided
<1>5. CASE Decides(d)
  <2>1. v.adopts /\ ~v.writes
    BY <1>1, <1>5
  <2> QED
    BY <1>2, <1>4, <1>5, <2>1 DEF Takes
<1>6. CASE ~Decides(d) /\ v.writes /\ ~c.refused
  <2>1. ~v.adopts
    BY <1>1, <1>6
  <2>2. fresh' = (fresh /\ Undecided(d)) /\ hold' = Held(c)
    BY <1>2, <1>4, <2>1
  <2> QED
    BY <1>1, <1>4, <1>6, <2>1, <2>2 DEF Sends
<1>7. CASE ~Decides(d) /\ ~(v.writes /\ ~c.refused)
  <2>1. ~v.adopts
    BY <1>1, <1>7
  <2>2. fresh' = (fresh /\ Undecided(d)) /\ hold' = Held(c)
    BY <1>2, <1>4, <2>1
  <2>3. mem' = Noted(d) \/ (c.refused /\ mem' = Refused(d))
    BY <1>4, <1>7, <2>1
  <2> QED
    BY <1>4, <1>7, <2>2, <2>3 DEF Keeps
<1> QED
  BY <1>3, <1>5, <1>6, <1>7

LEMMA SupersededFacts ==
  ASSUME NEW cs \in Seq(CommandType)
  PROVE  /\ Superseded(cs) \in Seq(CommandType) /\ Len(Superseded(cs)) = Len(cs)
         /\ \A i \in 1 .. Len(cs) : Superseded(cs)[i].sp = cs[i].sp
<1>1. ASSUME NEW i \in 1 .. Len(cs)
      PROVE  LET e == IF cs[i].id = "current" THEN [cs[i] EXCEPT !.id = "ours"] ELSE cs[i]
             IN  e \in CommandType /\ e.sp = cs[i].sp
  <2>1. cs[i] \in CommandType
    BY <1>1
  <2> QED
    BY <2>1 DEF CommandType, Marks
<1>2. Superseded(cs) = [i \in 1 .. Len(cs) |->
        IF cs[i].id = "current" THEN [cs[i] EXCEPT !.id = "ours"] ELSE cs[i]]
  BY DEF Superseded
<1> HIDE DEF Superseded
<1>3. Len(cs) \in Nat
  OBVIOUS
<1>4. Superseded(cs) \in [1 .. Len(cs) -> CommandType]
  BY <1>1, <1>2
<1>5. Superseded(cs) \in Seq(CommandType)
  BY <1>3, <1>4
<1>6. Len(Superseded(cs)) = Len(cs)
  BY <1>3, <1>4, <1>5, LenProperties
<1> QED
  BY <1>1, <1>2, <1>5, <1>6

LEMMA MemSteps ==
  ASSUME NEW m \in MemType, TypeInv, NEW t \in Setpoints, NEW p \in Plans
  PROVE  /\ Adopted(m) \in MemType /\ Adopted(m).age = 0 /\ Adopted(m).written = Actual
         /\ Adopted(m).pre = m.written /\ Adopted(m).prev = m.prev /\ Adopted(m).cmd = m.cmd
         /\ Adopted(m).episode = m.episode
         /\ Written(m, t, p) \in MemType /\ Written(m, t, p).age = 0
         /\ Written(m, t, p).written = t /\ Written(m, t, p).cmd = t
         /\ Written(m, t, p).pre = Actual /\ Written(m, t, p).prev = m.prev
         /\ OurFloor(m) \in MemType /\ OurFloor(m).written = None /\ OurFloor(m).cmd = None
         /\ OurFloor(m).age = m.age /\ OurFloor(m).episode = m.episode
         /\ OurFloor(m).prev = m.prev /\ OurFloor(m).pre = m.pre
<1>1. Actual \in OrNone(Setpoints)
  BY DEF TypeInv, Actual, OrNone, DevType
<1>2. 0 \in OrNone(0 .. Liveness) /\ 0 \in OrNone(0 .. SettleMin) /\ None \in OrNone(Setpoints)
      /\ t \in OrNone(Setpoints) /\ p.mode \in {"heat", "idle", "off", None}
  BY Constants DEF OrNone
<1>3. /\ Adopted(m) \in MemType /\ Adopted(m).age = 0 /\ Adopted(m).written = Actual
      /\ Adopted(m).pre = m.written /\ Adopted(m).prev = m.prev /\ Adopted(m).cmd = m.cmd
      /\ Adopted(m).episode = m.episode
  BY <1>1, <1>2 DEF Adopted, MemType
<1>4. (IF m.cmd # t \/ m.episode = None THEN 0 ELSE m.episode) \in OrNone(0 .. SettleMin)
  BY <1>2 DEF MemType
<1>5. /\ Written(m, t, p) \in MemType /\ Written(m, t, p).age = 0
      /\ Written(m, t, p).written = t /\ Written(m, t, p).cmd = t
      /\ Written(m, t, p).pre = Actual /\ Written(m, t, p).prev = m.prev
  BY <1>1, <1>2, <1>4 DEF Written, MemType
<1>6. /\ OurFloor(m) \in MemType /\ OurFloor(m).written = None /\ OurFloor(m).cmd = None
      /\ OurFloor(m).age = m.age /\ OurFloor(m).episode = m.episode
      /\ OurFloor(m).prev = m.prev /\ OurFloor(m).pre = m.pre
  BY <1>2 DEF OurFloor, MemType
<1> QED
  BY <1>3, <1>5, <1>6

LEMMA CommandTyped ==
  /\ \A sp \in OrNone(Setpoints), id \in Marks : Command(sp, id) \in CommandType
  /\ \A sp, id : Command(sp, id).sp = sp /\ Command(sp, id).id = id
BY DEF Command, CommandType

LEMMA NudgingTyped ==
  ASSUME NEW c \in Cases
  PROVE  /\ Nudging(c) \in Seq(CommandType)
         /\ Nudging(c) = <<>> \/ Nudging(c) = <<Command(None, "ours")>>
<1>1. Command(None, "ours") \in CommandType
  BY CommandTyped DEF OrNone, Marks
<1> QED
  BY <1>1 DEF Nudging

LEMMA TypeTick ==
  ASSUME TypeInv, NEW d \in {0, 1}, NEW c \in Cases, Tick(d, c)
  PROVE  TypeInv'
<1>1. /\ mem \in MemType /\ dev \in DevType /\ flight \in Seq(CommandType) /\ hold \in HoldType
      /\ plan \in Plans /\ enabled \in BOOLEAN /\ fresh \in BOOLEAN
      /\ mem.episode # None => mem.age # None
  BY DEF TypeInv
<1>2. /\ UNCHANGED <<zone, deaf, calm>> /\ Len(flight') <= Depth /\ astray' \in BOOLEAN
  BY DEF Tick
<1>3. Held(c) \in HoldType /\ Wanted(c) \in Setpoints
  BY <1>1, TargetType DEF Held, HoldType, OrNone, Wanted
<1>4. Observes(d) \in MemType /\ Noted(d) \in MemType /\ Actual \in OrNone(Setpoints)
  BY ObservesFacts
<1>5. (mem.age = None) = (Aged(mem.age, d, Liveness) = None)
      /\ (mem.episode = None) = (Aged(mem.episode, d, SettleMin) = None)
  BY <1>1, AgedFacts, Constants DEF MemType
<1>6. Noted(d).episode # None => Noted(d).age # None
  BY <1>1, <1>5, ObservesFacts
<1>7. flight \o Nudging(c) \in Seq(CommandType)
  BY <1>1, NudgingTyped, ConcatProperties
<1>8. CASE enabled /\ Decides(d) /\ Takes(d, c)
  <2>1. Actual \in HoldType
    <3>1. Actual = dev.sp /\ dev.sp > Frost /\ dev.sp \in Setpoints
      BY <1>1, <1>8, DecidesFacts DEF DevType
    <3> QED
      BY <3>1, Constants DEF HoldType, OrNone, Setpoints, Frost
  <2>2. mem' \in MemType /\ mem'.age = 0
    BY <1>1, <1>3, <1>4, <1>8, MemSteps DEF Takes
  <2>3. 0 # None
    BY Constants
  <2> QED
    BY <1>1, <1>2, <1>7, <1>8, <2>1, <2>2, <2>3 DEF Takes, TypeInv, zone
<1>9. CASE enabled /\ Sends(d, c)
  <2> mem' = Written(Noted(d), Wanted(c), plan)
    BY <1>9 DEF Sends
  <2>0. 0 # None
    BY Constants
  <2>1. mem' \in MemType /\ mem'.age = 0 /\ 0 # None
    BY <1>1, <1>3, <1>4, <2>0, MemSteps
  <2>2. flight' \in Seq(CommandType)
    <3>1. Command(Wanted(c), "current") \in CommandType
      BY <1>3, CommandTyped DEF OrNone, Marks
    <3>2. Nudging(c) \o <<Command(Wanted(c), "current")>> \in Seq(CommandType)
      BY <3>1, NudgingTyped, ConcatProperties
    <3>3. Superseded(flight) \in Seq(CommandType)
      BY <1>1, SupersededFacts
    <3> QED
      BY <1>9, <3>2, <3>3, ConcatProperties DEF Sends
  <2>3. dev' \in DevType
    <3>1. dev' = [dev EXCEPT !.newer = FALSE, !.mark = IF dev.mark = "current" THEN "ours" ELSE dev.mark]
      BY <1>9 DEF Sends
    <3>2. (IF dev.mark = "current" THEN "ours" ELSE dev.mark) \in Marks
      BY <1>1 DEF DevType, Marks
    <3> QED
      BY <1>1, <3>1, <3>2 DEF DevType
  <2>4. hold' \in HoldType /\ fresh' \in BOOLEAN
    BY <1>1, <1>3, <1>9 DEF Sends
  <2> QED
    BY <1>1, <1>2, <2>1, <2>2, <2>3, <2>4 DEF TypeInv, zone
<1>10. CASE enabled /\ Keeps(d, c)
  <2>1. Refused(d) \in MemType /\ Refused(d).age = Noted(d).age /\ Refused(d).episode = Noted(d).episode
    BY <1>4 DEF Refused, MemType
  <2>2. mem' \in MemType /\ (mem'.episode # None => mem'.age # None)
    BY <1>4, <1>6, <1>10, <2>1 DEF Keeps
  <2>3. hold' \in HoldType /\ fresh' \in BOOLEAN /\ flight' \in Seq(CommandType) /\ dev' \in DevType
    BY <1>1, <1>3, <1>7, <1>10 DEF Keeps
  <2> QED
    BY <1>1, <1>2, <2>2, <2>3 DEF TypeInv, zone
<1>11. CASE ~enabled
  <2>1. Rescue(Older(mem, d), c.rescues) /\ hold' = Held(c)
    BY <1>11 DEF Tick
  <2>2. /\ Older(mem, d) \in MemType
        /\ Older(mem, d).episode # None => Older(mem, d).age # None
    BY <1>1, <1>5, OlderFacts
  <2>3. /\ OurFloor(Older(mem, d)) \in MemType
        /\ OurFloor(Older(mem, d)).episode # None => OurFloor(Older(mem, d)).age # None
    BY <1>1, <1>3, <2>2, MemSteps
  <2>4. mem' \in MemType /\ (mem'.episode # None => mem'.age # None)
    BY <2>1, <2>2, <2>3 DEF Rescue
  <2>5. Command(Frost, "foreign") \in CommandType
    BY CommandTyped, Constants DEF OrNone, Marks
  <2>6. flight' \in Seq(CommandType) /\ dev' \in DevType /\ fresh' \in BOOLEAN
    BY <1>1, <2>1, <2>5 DEF Rescue
  <2> QED
    BY <1>1, <1>2, <1>3, <2>1, <2>4, <2>6 DEF TypeInv, zone
<1> QED
  BY <1>1, <1>8, <1>9, <1>10, <1>11, TickEffect

LEMMA TypeBlind ==
  ASSUME TypeInv, BlindTick
  PROVE  TypeInv'
<1>1. /\ mem \in MemType /\ flight = <<>> /\ plan \in Plans
      /\ mem.episode # None => mem.age # None
  BY DEF TypeInv, BlindTick
<1>2. /\ Older(mem, 1) \in MemType
      /\ Older(mem, 1).episode # None => Older(mem, 1).age # None
  BY <1>1, OlderFacts, AgedFacts, Constants DEF MemType
<1>3. /\ OurFloor(Older(mem, 1)) \in MemType
      /\ OurFloor(Older(mem, 1)).episode # None => OurFloor(Older(mem, 1)).age # None
  BY <1>1, <1>2, MemSteps, Constants
<1>4. mem' \in MemType /\ (mem'.episode # None => mem'.age # None)
  BY <1>2, <1>3 DEF BlindTick
<1>5. flight' \in Seq(CommandType) /\ Len(flight') <= Depth
  <2>1. Command(Frost, "foreign") \in CommandType
    BY CommandTyped, Constants DEF OrNone, Marks
  <2>2. Superseded(flight) = <<>>
    BY <1>1 DEF Superseded
  <2>3. flight' = <<>> \/ flight' = <<Command(Frost, "foreign")>>
    BY <1>1, <2>2 DEF BlindTick, Send
  <2>4. Depth >= 1
    BY Constants
  <2> DEFINE x == Command(Frost, "foreign")
  <2> HIDE DEF x
  <2>5. <<x>> \in Seq(CommandType) /\ Len(<<x>>) = 1
    BY <2>1 DEF x
  <2>6. <<>> \in Seq(CommandType) /\ Len(<<>>) = 0
    OBVIOUS
  <2>7. Depth \in Nat
    BY Constants
  <2>8. flight' \in Seq(CommandType) /\ Len(flight') \in {0, 1}
    <3>1. CASE flight' = <<>>
      BY <2>6, <3>1
    <3>2. CASE flight' = <<x>>
      BY <2>5, <3>2
    <3> QED
      BY <2>3, <3>1, <3>2 DEF x
  <2> QED
    BY <2>4, <2>7, <2>8
<1>6. astray' \in BOOLEAN
  BY DEF BlindTick, Misses, TypeInv
<1> QED
  BY <1>4, <1>5, <1>6 DEF TypeInv, BlindTick, zone

LEMMA TypeUser ==
  ASSUME TypeInv, UserTurns \/ SetOverride \/ Toggle \/ PlanChanges
  PROVE  TypeInv'
<1>1. CASE UserTurns
  <2>1. dev' \in DevType
    BY <1>1 DEF UserTurns, TypeInv, DevType, Marks
  <2> QED
    BY <1>1, <2>1 DEF UserTurns, TypeInv, zone
<1>2. CASE SetOverride
  BY <1>2 DEF SetOverride, TypeInv, zone, HoldType, OrNone
<1>3. CASE Toggle
  <2>1. astray' \in BOOLEAN
    BY <1>3 DEF Toggle, Misses, TypeInv
  <2> QED
    BY <1>3, <2>1 DEF Toggle, TypeInv
<1>4. CASE PlanChanges
  BY <1>4 DEF PlanChanges, TypeInv
<1> QED
  BY <1>1, <1>2, <1>3, <1>4

\* What a command that arrives leaves at the device.
LEMMA LandFacts ==
  ASSUME TypeInv, Land
  PROVE  /\ flight # <<>> /\ dev.online /\ Head(flight) \in CommandType
         /\ dev' \in DevType /\ dev'.online
         /\ dev'.sp = IF Head(flight).sp = None \/ deaf THEN dev.sp ELSE Settle[Head(flight).sp]
         /\ dev' = dev \/ (dev'.newer /\ dev'.mark = Head(flight).id)
         /\ flight' = Tail(flight) /\ Tail(flight) \in Seq(CommandType)
         /\ Len(Tail(flight)) = Len(flight) - 1
         /\ fresh' = (fresh /\ dev'.sp = dev.sp)
         /\ UNCHANGED <<zone, hold, mem, deaf, astray, calm>>
<1>1. flight # <<>> /\ flight \in Seq(CommandType) /\ dev.online /\ dev \in DevType
  BY DEF Land, TypeInv
<1>2. /\ Head(flight) \in CommandType /\ Tail(flight) \in Seq(CommandType)
      /\ Len(Tail(flight)) = Len(flight) - 1
  BY <1>1, HeadTailProperties
<1> DEFINE sp == IF Head(flight).sp = None \/ deaf THEN dev.sp ELSE Settle[Head(flight).sp]
<1>3. sp \in Setpoints
  BY <1>1, <1>2, Constants DEF CommandType, OrNone, DevType
<1>4. dev' = IF sp # dev.sp \/ Head(flight).sp = None
             THEN [dev EXCEPT !.sp = sp, !.newer = TRUE, !.mark = Head(flight).id] ELSE dev
  BY DEF Land
<1> HIDE DEF sp
<1>5. dev' \in DevType /\ dev'.online /\ dev'.sp = sp
      /\ (dev' = dev \/ (dev'.newer /\ dev'.mark = Head(flight).id))
  BY <1>1, <1>2, <1>3, <1>4 DEF DevType, CommandType
<1>6. /\ fresh' = (fresh /\ dev'.sp = dev.sp) /\ flight' = Tail(flight)
      /\ UNCHANGED <<zone, hold, mem, deaf, astray, calm>>
  BY DEF Land
<1> QED
  BY <1>1, <1>2, <1>5, <1>6 DEF sp

LEMMA TypeDevice ==
  ASSUME TypeInv, Land \/ Reports \/ Lost \/ Vanishes \/ Returns \/ GoesDeaf
  PROVE  TypeInv'
<1>0. Len(flight) \in Nat
  BY DEF TypeInv
<1>1. CASE Land
  <2>1. dev' \in DevType /\ flight' \in Seq(CommandType) /\ Len(flight') <= Depth /\ fresh' \in BOOLEAN
    BY <1>0, <1>1, LandFacts, Constants DEF TypeInv
  <2> QED
    BY <1>1, <2>1 DEF Land, TypeInv, zone
<1>2. CASE Reports
  <2>1. dev' \in DevType
    BY <1>2 DEF Reports, TypeInv, DevType, Marks
  <2> QED
    BY <1>2, <2>1 DEF Reports, TypeInv, zone
<1>3. CASE Lost
  <2>1. flight' \in Seq(CommandType) /\ Len(flight') <= Depth
    BY <1>0, <1>3, HeadTailProperties, Constants DEF Lost, TypeInv
  <2> QED
    BY <1>3, <2>1 DEF Lost, TypeInv, zone
<1>4. CASE Vanishes
  <2>1. dev' \in DevType
    BY <1>4 DEF Vanishes, TypeInv, DevType
  <2> QED
    BY <1>4, <2>1 DEF Vanishes, TypeInv, zone
<1>5. CASE Returns
  <2>1. dev' \in DevType
    BY <1>5, Constants DEF Returns, TypeInv, DevType, Marks
  <2> QED
    BY <1>5, <2>1 DEF Returns, TypeInv, zone
<1>6. CASE GoesDeaf
  BY <1>6 DEF GoesDeaf, TypeInv, zone
<1> QED
  BY <1>1, <1>2, <1>3, <1>4, <1>5, <1>6

LEMMA StartFacts ==
  ASSUME TypeInv, Start
  PROVE  /\ mem' \in MemType /\ mem'.episode = None /\ mem'.written = mem.written
         /\ mem'.prev = mem.prev /\ mem'.cmd = None
         /\ mem'.age # None => mem'.age >= Window
         /\ flight' \in Seq(CommandType) /\ Len(flight') = Len(flight)
         /\ \A i \in 1 .. Len(flight) : flight'[i] = Command(flight[i].sp, "foreign")
         /\ dev' \in DevType /\ dev'.sp = dev.sp /\ dev'.online = dev.online /\ dev'.newer
         /\ dev'.mark = "foreign"
<1>1. mem \in MemType /\ dev \in DevType /\ flight \in Seq(CommandType)
  BY DEF TypeInv
<1>2. Fresh \in MemType
  BY DEF Fresh, MemType, OrNone
<1> DEFINE age == IF mem.written = None THEN None ELSE Min2(2 * Window, Liveness)
<1>3. age \in OrNone(0 .. Liveness) /\ (age # None => age >= Window)
  BY Constants DEF Min2, OrNone
<1>4. mem' = [Fresh EXCEPT !.written = mem.written, !.prev = mem.prev, !.age = age]
  BY DEF Start
<1> HIDE DEF age
<1>5. /\ mem' \in MemType /\ mem'.episode = None /\ mem'.written = mem.written
      /\ mem'.prev = mem.prev /\ mem'.cmd = None /\ mem'.age = age
  BY <1>1, <1>3, <1>4 DEF Fresh, MemType, OrNone
<1>6. \A i \in 1 .. Len(flight) : Command(flight[i].sp, "foreign") \in CommandType
  <2> SUFFICES ASSUME NEW i \in 1 .. Len(flight)
               PROVE  Command(flight[i].sp, "foreign") \in CommandType
    OBVIOUS
  <2>1. flight[i] \in CommandType
    BY <1>1, ElementOfSeq
  <2>2. flight[i].sp \in OrNone(Setpoints) /\ "foreign" \in Marks
    BY <2>1 DEF CommandType, Marks
  <2> QED
    BY <2>2, CommandTyped
<1>7. flight' = [i \in 1 .. Len(flight) |-> Command(flight[i].sp, "foreign")] /\ Len(flight) \in Nat
  BY <1>1 DEF Start
<1>8. flight' \in Seq(CommandType)
  BY <1>6, <1>7
<1>9. Len(flight') = Len(flight)
  BY <1>7, <1>8, LenProperties
<1>10. dev' \in DevType /\ dev'.sp = dev.sp /\ dev'.online = dev.online /\ dev'.newer
       /\ dev'.mark = "foreign"
  BY <1>1 DEF Start, DevType, Marks
<1> QED
  BY <1>3, <1>5, <1>7, <1>8, <1>9, <1>10

LEMMA TypeRestarts ==
  ASSUME TypeInv, Stop \/ Start \/ CalmDown
  PROVE  TypeInv'
<1>1. CASE Stop
  <2>1. astray' \in BOOLEAN
    BY <1>1 DEF Stop, Misses, TypeInv
  <2> QED
    BY <1>1, <2>1 DEF Stop, TypeInv
<1>2. CASE Start
  <2>1. up' = TRUE /\ UNCHANGED <<enabled, plan, hold, deaf, fresh, astray, calm>>
    BY <1>2 DEF Start
  <2> QED
    BY <1>2, <2>1, StartFacts DEF TypeInv
<1>3. CASE CalmDown
  BY <1>3 DEF CalmDown, TypeInv, zone
<1> QED
  BY <1>1, <1>2, <1>3

LEMMA TypeInit == Init => TypeInv
<1> SUFFICES ASSUME Init PROVE TypeInv
  OBVIOUS
<1>1. mem \in MemType /\ mem.episode = None
  BY DEF Init, Fresh, MemType, OrNone
<1>2. dev \in DevType
  BY DEF Init, DevType, Marks
<1>3. flight \in Seq(CommandType) /\ Len(flight) <= Depth
  BY Constants DEF Init
<1> QED
  BY <1>1, <1>2, <1>3 DEF Init, TypeInv, HoldType, OrNone

LEMMA TypeStep == TypeInv /\ [Next]_vars => TypeInv'
<1> SUFFICES ASSUME TypeInv, [Next]_vars PROVE TypeInv'
  OBVIOUS
<1>1. ASSUME NEW c \in Cases, TimerTick(c) \/ EventTick(c) PROVE TypeInv'
  BY <1>1, TypeTick DEF TimerTick, EventTick
<1>2. CASE BlindTick
  BY <1>2, TypeBlind
<1>3. CASE Surroundings
  BY <1>3, TypeUser, TypeDevice, TypeRestarts DEF Surroundings
<1>4. CASE UNCHANGED vars
  BY <1>4 DEF TypeInv, vars
<1> QED
  BY <1>1, <1>2, <1>3, <1>4 DEF Next

\* Every variable of the setpoint channel keeps its type for every grid, plan,
\* device and threshold, with all faults (zone_runtime.py, ExternalOverrideRuntime).
THEOREM TypeCorrect == Spec => []TypeOK
<1>1. TypeInv => TypeOK
  BY DEF TypeInv, TypeOK, MemType, DevType, CommandType, HoldType, OrNone
<1> QED
  BY <1>1, TypeInit, TypeStep, PTL DEF Spec
-----------------------------------------------------------------------------
(* The window spares a choice.                                             *)

LEMMA LastOfAppended ==
  ASSUME NEW cs \in Seq(CommandType), NEW x \in CommandType
  PROVE  /\ cs \o <<x>> = Append(cs, x)
         /\ Len(cs \o <<x>>) = Len(cs) + 1 /\ (cs \o <<x>>)[Len(cs) + 1] = x
<1>1. cs \o <<x>> = Append(cs, x)
  BY AppendIsConcat
<1>2. Len(Append(cs, x)) = Len(cs) + 1 /\ Append(cs, x)[Len(cs) + 1] = x
  BY AppendProperties
<1> QED
  BY <1>1, <1>2

\* A nudge is no setpoint command.
LEMMA NudgeIsNoWrite ==
  ASSUME TypeInv, NEW c \in Cases, flight' = flight \o Nudging(c)
  PROVE  ~WritesNow
<1>1. CASE Nudging(c) = <<>>
  <2>1. flight' = flight
    BY <1>1 DEF TypeInv
  <2>2. Len(flight) \in Nat
    BY DEF TypeInv
  <2> QED
    BY <2>1, <2>2 DEF WritesNow
<1>2. CASE Nudging(c) = <<Command(None, "ours")>>
  <2>1. Command(None, "ours") \in CommandType
    BY CommandTyped DEF OrNone, Marks
  <2>2. Len(flight') = Len(flight) + 1 /\ flight'[Len(flight) + 1] = Command(None, "ours")
    BY <1>2, <2>1, LastOfAppended DEF TypeInv
  <2> QED
    BY <2>2, CommandTyped DEF WritesNow
<1> QED
  BY <1>1, <1>2, NudgingTyped

LEMMA FloorIsNoWrite ==
  ASSUME TypeInv, flight' = Append(flight, Command(Frost, "foreign"))
  PROVE  ~WritesNow
<1>1. Command(Frost, "foreign") \in CommandType
  BY CommandTyped, Constants DEF OrNone, Marks
<1>2. Len(flight') = Len(flight) + 1 /\ flight'[Len(flight) + 1] = Command(Frost, "foreign")
  BY <1>1, AppendProperties DEF TypeInv
<1> QED
  BY <1>2, CommandTyped DEF WritesNow

LEMMA TickSpares ==
  ASSUME TypeInv, NEW d \in {0, 1}, NEW c \in Cases, Tick(d, c)
  PROVE  SparesChoice
<1>1. CASE enabled /\ Sends(d, c)
  <2> SUFFICES ASSUME mem.episode # None, mem.mode = plan.mode, Target(plan, hold') = mem.cmd
               PROVE  mem.age >= Window - 1
    BY DEF SparesChoice
  <2>1. mem \in MemType /\ mem.age # None /\ mem.age \in 0 .. Liveness
    BY DEF TypeInv, MemType, OrNone
  <2>2. /\ dev.online /\ ~Throttled(Observes(d), Wanted(c), plan.mode # mem.mode)
        /\ Wanted(c) = mem.cmd
    BY <1>1 DEF Sends, Wanted
  <2>3. /\ Observes(d).cmd = mem.cmd /\ Observes(d).age = Aged(mem.age, d, Liveness)
        /\ Observes(d).episode = Aged(mem.episode, d, SettleMin)
    BY <2>2, ObservesFacts
  <2>4. Aged(mem.episode, d, SettleMin) # None /\ Aged(mem.age, d, Liveness) # None
        /\ Aged(mem.age, d, Liveness) <= mem.age + d
        /\ Aged(mem.age, d, Liveness) \in OrNone(0 .. Liveness)
    BY <2>1, AgedFacts, Constants DEF MemType
  <2>5. ~(Aged(mem.age, d, Liveness) < Throttle)
    BY <2>2, <2>3, <2>4 DEF Throttled
  <2>6. Aged(mem.age, d, Liveness) \in Int
    BY <2>4, Constants DEF OrNone
  <2> QED
    BY <2>1, <2>4, <2>5, <2>6, Constants
<1>2. CASE enabled /\ ~Sends(d, c)
  <2>1. flight' = flight \o Nudging(c)
    BY <1>2, TickEffect DEF Takes, Keeps
  <2> QED
    BY <2>1, NudgeIsNoWrite DEF SparesChoice
<1>3. CASE ~enabled
  <2>1. flight' = flight \/ flight' = Append(flight, Command(Frost, "foreign"))
    BY <1>3 DEF Tick, Rescue
  <2>2. Len(flight) \in Nat
    BY DEF TypeInv
  <2>3. CASE flight' = flight
    BY <2>2, <2>3 DEF SparesChoice, WritesNow
  <2> QED
    BY <2>1, <2>3, FloorIsNoWrite DEF SparesChoice
<1> QED
  BY <1>1, <1>2, <1>3

LEMMA OthersWriteNothing ==
  ASSUME TypeInv, BlindTick \/ Surroundings \/ UNCHANGED vars
  PROVE  ~WritesNow
<1>0. Len(flight) \in Nat
  BY DEF TypeInv
<1>1. CASE BlindTick
  <2>1. flight = <<>> /\ (UNCHANGED flight \/ flight' = Superseded(flight) \o <<Command(Frost, "foreign")>>)
    BY <1>1 DEF BlindTick, Send
  <2>2. Superseded(flight) = <<>>
    BY <2>1 DEF Superseded
  <2>3. flight' = flight \/ flight' = Append(flight, Command(Frost, "foreign"))
    BY <2>1, <2>2
  <2> QED
    BY <1>0, <2>3, FloorIsNoWrite DEF WritesNow
<1>2. CASE Land \/ Lost
  <2>1. flight # <<>> /\ flight' = Tail(flight)
    BY <1>2 DEF Land, Lost
  <2>2. Len(Tail(flight)) = Len(flight) - 1
    BY <2>1, HeadTailProperties DEF TypeInv
  <2> QED
    BY <1>0, <2>1, <2>2 DEF WritesNow
<1>3. CASE Start
  BY <1>0, <1>3, StartFacts DEF WritesNow
<1>4. CASE UNCHANGED flight
  BY <1>0, <1>4 DEF WritesNow
<1>5. UserTurns \/ SetOverride \/ Toggle \/ PlanChanges \/ Reports \/ Vanishes \/ Returns
      \/ GoesDeaf \/ Stop \/ CalmDown \/ UNCHANGED vars => UNCHANGED flight
  BY DEF UserTurns, SetOverride, Toggle, PlanChanges, Reports, Vanishes, Returns, GoesDeaf,
         Stop, CalmDown, vars
<1> QED
  BY <1>1, <1>2, <1>3, <1>4, <1>5 DEF Surroundings

\* For every grid, plan, device and threshold, whatever faults happen: while the echo
\* window keeps a choice of the user undecided, the zone does not repeat its command
\* over it (write_economy.py, reassert_throttled).
THEOREM WindowIsSpared == Spec => WindowSparesChoice
<1>1. TypeInv /\ [Next]_vars => [SparesChoice]_vars
  <2> SUFFICES ASSUME TypeInv, [Next]_vars PROVE SparesChoice \/ UNCHANGED vars
    OBVIOUS
  <2>1. ASSUME NEW c \in Cases, TimerTick(c) \/ EventTick(c) PROVE SparesChoice
    BY <2>1, TickSpares DEF TimerTick, EventTick
  <2>2. CASE BlindTick \/ Surroundings \/ UNCHANGED vars
    BY <2>2, OthersWriteNothing DEF SparesChoice
  <2> QED
    BY <2>1, <2>2 DEF Next
<1> QED
  BY <1>1, TypeInit, TypeStep, PTL DEF Spec, WindowSparesChoice
-----------------------------------------------------------------------------
(* A choice is taken over once.                                            *)

\* One command at a time, a window that a tick falls into, a device that settles where
\* it is told, and neither of two races the zone cannot decide: a second turn of the
\* wheel, or a tick, between a command and its arrival.
PlainDevice ==
  /\ Depth = 1 /\ Window > 1
  /\ \A v \in Setpoints : Settle[v] = v
  /\ "race" \notin Faults /\ "midway" \notin Faults

\* Why the device shows what it shows, if no choice is undecided: it is the baseline
\* or the floor; the tick before has seen it; or a command is about to change it.
Explained ==
  ~fresh /\ mem.written # None /\ mem.age # None =>
    \/ dev.sp \in {mem.written, Frost}
    \/ dev.sp = mem.prev /\ (mem.age >= Window \/ mem.pre = dev.sp)
    \/ dev.sp = mem.pre /\ mem.age = 0

\* A zone that regulates nothing has left the device as it last saw it.
Reached ==
  /\ dev.online /\ ~deaf
  /\ ~enabled \/ ~up =>
       /\ flight \in {<<>>, <<Command(Frost, "foreign")>>}
       /\ (~fresh /\ mem.written # None) => dev.sp \in {mem.written, mem.prev, Frost}

\* The command under way is the baseline, or the baseline before a choice that was
\* made before it arrived.
Awaited(sp) ==
  /\ flight = <<Command(sp, "current")>> /\ mem.age = 0 /\ dev.mark # "current"
  /\ sp = mem.written \/ (sp = mem.pre /\ dev.sp = mem.written)
UnderWay ==
  \/ flight \in {<<>>, <<Command(None, "ours")>>, <<Command(Frost, "foreign")>>}
  \/ \E sp \in Setpoints : Awaited(sp)

ChoiceInv == ~astray => Reached /\ Explained /\ UnderWay

LEMMA OneCommand ==
  ASSUME NEW cs \in Seq(CommandType), NEW ds \in Seq(CommandType), Len(cs \o ds) <= 1
  PROVE  /\ cs = <<>> => cs \o ds = ds
         /\ cs # <<>> => ds = <<>> /\ cs \o ds = cs
<1>1. Len(cs) \in Nat /\ Len(ds) \in Nat /\ Len(cs \o ds) = Len(cs) + Len(ds)
  BY ConcatProperties
<1>2. cs # <<>> => Len(cs) > 0
  BY EmptySeq, <1>1
<1>3. ds # <<>> => Len(ds) > 0
  BY EmptySeq, <1>1
<1>4. cs = <<>> => cs \o ds = ds
  OBVIOUS
<1>5. ds = <<>> => cs \o ds = cs
  OBVIOUS
<1> QED
  BY <1>1, <1>2, <1>3, <1>4, <1>5

LEMMA OnlyTheLast ==
  ASSUME NEW a \in Seq(CommandType), NEW b \in Seq(CommandType), NEW x \in Seq(CommandType),
         Len(x) = 1, Len(a \o (b \o x)) <= 1
  PROVE  a = <<>> /\ b = <<>> /\ a \o (b \o x) = x
<1> DEFINE y == b \o x
<1>1. y \in Seq(CommandType) /\ Len(y) = Len(b) + 1 /\ Len(b) \in Nat /\ Len(a) \in Nat
  BY ConcatProperties
<1> HIDE DEF y
<1>2. Len(a \o y) = Len(a) + Len(y)
  BY <1>1, ConcatProperties
<1>3. Len(a) = 0 /\ Len(b) = 0
  BY <1>1, <1>2 DEF y
<1>4. a = <<>> /\ b = <<>>
  BY <1>3, EmptySeq
<1> QED
  BY <1>4 DEF y

\* What a command is, and that no two kinds are the same.
LEMMA CommandKinds ==
  ASSUME NEW sp
  PROVE  /\ <<Command(sp, "current")>> \notin {<<>>, <<Command(None, "ours")>>, <<Command(Frost, "foreign")>>}
         /\ <<Command(sp, "current")>>[1] = Command(sp, "current")
         /\ Command(sp, "current").sp = sp /\ Command(sp, "current").id = "current"
BY DEF Command

LEMMA ChoiceInit == Init => ChoiceInv
<1> SUFFICES ASSUME Init PROVE Reached /\ Explained /\ UnderWay
  BY DEF ChoiceInv
<1>1. up = TRUE /\ enabled = TRUE /\ deaf = FALSE /\ dev.online /\ flight = <<>> /\ mem.age = None
  BY DEF Init, Fresh
<1> QED
  BY <1>1 DEF Reached, Explained, UnderWay

LEMMA ChoiceTick ==
  ASSUME PlainDevice, TypeInv, ChoiceInv, NEW d \in {0, 1}, NEW c \in Cases, Tick(d, c), enabled
  PROVE  ChoiceInv'
<1> SUFFICES ASSUME astray' = FALSE PROVE Reached' /\ Explained' /\ UnderWay'
  BY DEF ChoiceInv, TypeInv, Tick
<1>a. /\ up /\ up' = up /\ enabled' = enabled /\ deaf' = deaf /\ Len(flight') <= Depth
      /\ astray' = (astray \/ c.refused \/ (d > 0 /\ flight # <<>>))
      /\ dev.mark = "ours" /\ flight # <<>> => Fault("midway")
  BY DEF Tick, zone
<1>b. c.refused \in BOOLEAN /\ astray \in BOOLEAN /\ (d > 0 \/ d = 0)
  BY DEF Cases, TypeInv
<1>1. /\ up /\ up' = up /\ enabled' = enabled /\ deaf' = deaf /\ Len(flight') <= 1
      /\ astray = FALSE /\ c.refused = FALSE /\ (d = 0 \/ flight = <<>>)
      /\ flight # <<>> => dev.mark # "ours"
  BY <1>a, <1>b DEF PlainDevice, Fault
<1>2. Reached /\ Explained /\ UnderWay
  BY <1>1 DEF ChoiceInv
<1>3. /\ dev \in DevType /\ mem \in MemType /\ flight \in Seq(CommandType)
      /\ dev.online /\ deaf = FALSE /\ Actual = dev.sp /\ dev.sp \in Setpoints
  BY <1>2 DEF TypeInv, Reached, Actual, DevType
<1>4. /\ Noted(d).written = IF OwnChange THEN dev.sp ELSE mem.written
      /\ Noted(d).pre = mem.pre /\ Noted(d).prev = dev.sp
      /\ Noted(d).age = Aged(mem.age, d, Liveness) /\ Noted(d) \in MemType
      /\ Observes(d).age = Aged(mem.age, d, Liveness)
  BY <1>3, ObservesFacts
<1>5. /\ (Aged(mem.age, d, Liveness) = None) = (mem.age = None)
      /\ mem.age # None => Aged(mem.age, d, Liveness) >= mem.age
      /\ d = 0 => Aged(mem.age, d, Liveness) = mem.age
      /\ Aged(mem.age, d, Liveness) \in OrNone(0 .. Liveness) /\ mem.age \in OrNone(0 .. Liveness)
  BY <1>3, AgedFacts, Constants DEF MemType
<1>6. flight' = flight \o Nudging(c)
      => /\ flight = <<>> => flight' \in {<<>>, <<Command(None, "ours")>>}
         /\ flight # <<>> => flight' = flight
  BY <1>1, <1>3, NudgingTyped, OneCommand
<1>7. ASSUME NEW sp \in Setpoints, Awaited(sp) PROVE dev.mark = "foreign" /\ d = 0 /\ mem.age = 0
  <2>1. flight # <<>> /\ dev.mark \notin {"current", "ours"}
    BY <1>1, <1>7 DEF Awaited
  <2> QED
    BY <1>1, <1>3, <1>7, <2>1 DEF DevType, Marks, Awaited
<1>8. CASE Decides(d) /\ Takes(d, c)
  <2>1. /\ dev.mark = "foreign" /\ dev.sp # mem.written
    BY <1>8, DecidesFacts
  <2>2. /\ mem'.written = dev.sp /\ mem'.age = 0 /\ mem'.pre = mem.written
        /\ dev' = dev
    <3>1. Noted(d).written = mem.written
      BY <1>4, <2>1 DEF OwnChange
    <3>2. mem' = Adopted(Noted(d)) /\ dev' = dev
      BY <1>8 DEF Takes
    <3> QED
      BY <1>3, <1>4, <3>1, <3>2 DEF Adopted, MemType
  <2>3. UnderWay'
    <3>1. CASE flight = <<>>
      BY <1>6, <1>8, <3>1 DEF Takes, UnderWay
    <3>2. CASE flight # <<>> /\ flight \in {<<Command(None, "ours")>>, <<Command(Frost, "foreign")>>}
      BY <1>6, <1>8, <3>2 DEF Takes, UnderWay
    <3>3. ASSUME NEW sp \in Setpoints, Awaited(sp) PROVE Awaited(sp)'
      <4>1. sp = mem.written /\ flight # <<>> /\ flight = <<Command(sp, "current")>>
        BY <2>1, <3>3 DEF Awaited
      <4>2. flight' = flight
        BY <1>6, <1>8, <4>1 DEF Takes
      <4> QED
        BY <2>1, <2>2, <4>1, <4>2 DEF Awaited
    <3> QED
      BY <1>2, <3>1, <3>2, <3>3 DEF UnderWay
  <2> QED
    BY <1>1, <1>3, <2>2, <2>3 DEF Reached, Explained
<1>9. CASE ~Decides(d) /\ Sends(d, c)
  <2>1. Wanted(c) \in Setpoints
    BY TargetType DEF Wanted, Held, TypeInv, HoldType, OrNone
  <2> DEFINE x == <<Command(Wanted(c), "current")>>
  <2>2. x \in Seq(CommandType) /\ Len(x) = 1
    BY <2>1, CommandTyped DEF OrNone, Marks
  <2>3. flight = <<>> /\ flight' = x
    <3> HIDE DEF x
    <3>0. flight' = Superseded(flight) \o (Nudging(c) \o x)
      BY <1>9 DEF Sends, x
    <3>1. Superseded(flight) \in Seq(CommandType) /\ Len(Superseded(flight)) = Len(flight)
      BY <1>3, SupersededFacts
    <3>2. Nudging(c) \in Seq(CommandType)
      BY NudgingTyped
    <3>3. Superseded(flight) = <<>> /\ flight' = x
      BY <1>1, <2>2, <3>0, <3>1, <3>2, OnlyTheLast
    <3>4. Len(flight) = 0
      BY <3>1, <3>3, EmptySeq
    <3> QED
      BY <1>3, <3>3, <3>4, EmptySeq
  <2>4. /\ mem'.written = Wanted(c) /\ mem'.age = 0 /\ mem'.pre = dev.sp
    <3>1. mem' = Written(Noted(d), Wanted(c), plan)
      BY <1>9 DEF Sends
    <3> QED
      BY <1>3, <1>4, <3>1 DEF Written, MemType
  <2>5. dev'.sp = dev.sp /\ dev'.online /\ dev'.mark # "current"
    BY <1>3, <1>9 DEF Sends, DevType
  <2>6. UnderWay'
    <3> SUFFICES ASSUME NEW sp \in Setpoints, sp = Wanted(c) PROVE Awaited(sp)'
      BY <2>1 DEF UnderWay
    <3> QED
      BY <2>3, <2>4, <2>5 DEF Awaited
  <2>7. Explained'
    BY <2>4, <2>5 DEF Explained
  <2> QED
    BY <1>1, <1>3, <2>5, <2>6, <2>7 DEF Reached
<1>10. CASE ~Decides(d) /\ Keeps(d, c)
  <2>1. /\ mem' = Noted(d) /\ dev' = dev /\ flight' = flight \o Nudging(c)
        /\ fresh' = (fresh /\ Undecided(d))
    BY <1>1, <1>10 DEF Keeps
  <2>2. Explained'
    <3> SUFFICES ASSUME fresh' = FALSE, mem'.written # None, mem'.age # None, ~OwnChange
                 PROVE  \/ dev.sp \in {mem'.written, Frost}
                        \/ dev.sp = mem'.prev /\ (mem'.age >= Window \/ mem'.pre = dev.sp)
      BY <1>4, <2>1 DEF Explained
    <3>1. mem'.written = mem.written /\ mem'.prev = dev.sp /\ mem'.pre = mem.pre
          /\ mem'.age = Aged(mem.age, d, Liveness) /\ mem.age # None
      BY <1>4, <1>5, <2>1
    <3>2. CASE fresh
      <4>1. Undecided(d) = FALSE
        BY <2>1, <3>2 DEF Undecided
      <4>2. ~(mem'.age < Window)
        BY <1>3, <1>4, <1>5, <3>1, <4>1 DEF Undecided, InWindow
      <4>3. mem'.age \in Int /\ Window \in Int
        BY <1>4, <1>5, <3>1, Constants DEF OrNone
      <4> QED
        BY <3>1, <4>2, <4>3
    <3>3. CASE ~fresh
      BY <1>2, <1>5, <3>1, <3>3, Constants DEF Explained, OrNone
    <3> QED
      BY <3>2, <3>3
  <2>3. UnderWay'
    <3>1. CASE flight = <<>>
      BY <1>6, <2>1, <3>1 DEF UnderWay
    <3>2. CASE flight # <<>> /\ flight \in {<<Command(None, "ours")>>, <<Command(Frost, "foreign")>>}
      BY <1>6, <2>1, <3>2 DEF UnderWay
    <3>3. ASSUME NEW sp \in Setpoints, Awaited(sp) PROVE Awaited(sp)'
      <4>1. flight # <<>> /\ flight = <<Command(sp, "current")>>
        BY <3>3 DEF Awaited
      <4>2. flight' = flight
        BY <1>6, <2>1, <4>1
      <4>3. mem'.written = mem.written /\ mem'.pre = mem.pre /\ mem'.age = 0
        BY <1>4, <1>5, <1>7, <2>1, <3>3 DEF OwnChange
      <4> QED
        BY <2>1, <3>3, <4>2, <4>3 DEF Awaited
    <3> QED
      BY <1>2, <3>1, <3>2, <3>3 DEF UnderWay
  <2> QED
    BY <1>1, <1>3, <2>1, <2>2, <2>3 DEF Reached
<1> QED
  BY <1>8, <1>9, <1>10, TickEffect

LEMMA MissesFacts ==
  ASSUME TypeInv, Misses, astray' = FALSE
  PROVE  astray = FALSE /\ flight = <<>> /\ (fresh \/ dev.sp \in {mem.prev, mem.written})
BY DEF Misses, TypeInv

\* Time passes and nothing is observed.
LEMMA AgedExplained ==
  ASSUME TypeInv, ChoiceInv, astray = FALSE, NEW d \in {0, 1},
         ~fresh /\ mem.written # None => dev.sp \in {mem.written, mem.prev, Frost},
         fresh' = fresh, dev' = dev, mem' = Older(mem, d)
  PROVE  Explained'
<1> SUFFICES ASSUME ~fresh, mem'.written # None, mem'.age # None
             PROVE  \/ dev.sp \in {mem'.written, Frost}
                    \/ dev.sp = mem'.prev /\ (mem'.age >= Window \/ mem'.pre = dev.sp)
  BY DEF Explained
<1>1. mem \in MemType
  BY DEF TypeInv
<1>2. /\ mem'.written = mem.written /\ mem'.prev = mem.prev /\ mem'.pre = mem.pre
      /\ mem'.age = Aged(mem.age, d, Liveness)
  BY <1>1, OlderFacts
<1>3. mem.age \in OrNone(0 .. Liveness)
  BY <1>1 DEF MemType
<1>4. /\ mem.age # None /\ Aged(mem.age, d, Liveness) >= mem.age
      /\ Aged(mem.age, d, Liveness) \in OrNone(0 .. Liveness)
  BY <1>2, <1>3, AgedFacts, Constants
<1>5. mem.age \in Int /\ mem'.age \in Int /\ Window \in Int
  BY <1>2, <1>3, <1>4, Constants DEF OrNone
<1>6. Explained /\ dev.sp \in {mem.written, mem.prev, Frost}
  BY <1>2 DEF ChoiceInv
<1> QED
  BY <1>2, <1>4, <1>5, <1>6 DEF Explained

LEMMA ChoiceRescue ==
  ASSUME PlainDevice, TypeInv, ChoiceInv, NEW d \in {0, 1}, NEW c \in Cases, Tick(d, c), ~enabled
  PROVE  ChoiceInv'
<1> SUFFICES ASSUME astray' = FALSE PROVE Reached' /\ Explained' /\ UnderWay'
  BY DEF ChoiceInv, TypeInv, Tick
<1>1. /\ up' = up /\ enabled' = enabled /\ deaf' = deaf /\ Len(flight') <= Depth
      /\ astray' = (astray \/ c.refused \/ (d > 0 /\ flight # <<>>))
      /\ Rescue(Older(mem, d), c.rescues)
  BY DEF Tick, zone
<1>2. astray = FALSE
  BY <1>1 DEF TypeInv, Cases
<1>3. Reached /\ Explained /\ UnderWay
  BY <1>2 DEF ChoiceInv
<1>4. /\ mem \in MemType /\ Older(mem, d) \in MemType /\ flight \in Seq(CommandType)
      /\ Older(mem, d).written = mem.written /\ Older(mem, d).prev = mem.prev
  BY OlderFacts DEF TypeInv
<1>5. fresh' = fresh /\ dev' = dev
  BY <1>1 DEF Rescue
<1>6. /\ dev.online /\ ~deaf /\ flight \in {<<>>, <<Command(Frost, "foreign")>>}
      /\ ~fresh /\ mem.written # None => dev.sp \in {mem.written, mem.prev, Frost}
  BY <1>3 DEF Reached
<1>7. CASE c.rescues
  <2>1. mem' = OurFloor(Older(mem, d)) /\ flight' = Append(flight, Command(Frost, "foreign"))
    BY <1>1, <1>7 DEF Rescue
  <2>2. mem'.written = None
    BY <1>4, <2>1 DEF OurFloor, MemType
  <2>3. flight = <<>>
    <3>1. Command(Frost, "foreign") \in CommandType
      BY CommandTyped, Constants DEF OrNone, Marks
    <3>2. Len(flight') = Len(flight) + 1 /\ Len(flight) \in Nat
      BY <1>4, <2>1, <3>1, AppendProperties
    <3>3. Len(flight) = 0
      BY <1>1, <3>2 DEF PlainDevice
    <3> QED
      BY <1>4, <3>3, EmptySeq
  <2>4. flight' = <<Command(Frost, "foreign")>>
    BY <2>1, <2>3
  <2> QED
    BY <1>1, <1>5, <1>6, <2>2, <2>4 DEF Reached, Explained, UnderWay
<1>8. CASE ~c.rescues
  <2>1. mem' = Older(mem, d) /\ flight' = flight
    BY <1>1, <1>8 DEF Rescue
  <2>2. Explained'
    BY <1>2, <1>5, <1>6, <2>1, AgedExplained
  <2> QED
    BY <1>1, <1>4, <1>5, <1>6, <2>1, <2>2 DEF Reached, UnderWay
<1> QED
  BY <1>7, <1>8

LEMMA ChoiceBlind ==
  ASSUME PlainDevice, TypeInv, ChoiceInv, BlindTick
  PROVE  ChoiceInv'
<1> SUFFICES ASSUME astray' = FALSE PROVE Reached' /\ Explained' /\ UnderWay'
  BY DEF ChoiceInv, TypeInv, BlindTick, Misses
<1>1. /\ UNCHANGED <<zone, hold, dev, deaf, fresh, calm>> /\ flight = <<>> /\ Misses
      /\ \/ mem' = Older(mem, 1) /\ UNCHANGED flight
         \/ mem' = OurFloor(Older(mem, 1)) /\ Send(<<Command(Frost, "foreign")>>)
  BY DEF BlindTick
<1>2. astray = FALSE /\ (fresh \/ dev.sp \in {mem.prev, mem.written})
  BY <1>1, MissesFacts
<1>3. Reached
  BY <1>2 DEF ChoiceInv
<1>4. /\ mem \in MemType /\ Older(mem, 1) \in MemType
      /\ Older(mem, 1).written = mem.written /\ Older(mem, 1).prev = mem.prev
  BY OlderFacts DEF TypeInv
<1>5. CASE mem' = Older(mem, 1) /\ UNCHANGED flight
  <2>1. Explained'
    BY <1>1, <1>2, <1>5, AgedExplained
  <2> QED
    BY <1>1, <1>2, <1>3, <1>4, <1>5, <2>1 DEF Reached, UnderWay, zone
<1>6. CASE mem' = OurFloor(Older(mem, 1)) /\ Send(<<Command(Frost, "foreign")>>)
  <2>1. mem'.written = None
    BY <1>4, <1>6 DEF OurFloor, MemType
  <2>2. flight' = <<Command(Frost, "foreign")>>
    <3>1. Superseded(flight) = <<>>
      BY <1>1 DEF Superseded
    <3> QED
      BY <1>6, <3>1 DEF Send
  <2> QED
    BY <1>1, <1>3, <2>1, <2>2 DEF Reached, Explained, UnderWay, zone
<1> QED
  BY <1>1, <1>5, <1>6

LEMMA ChoiceTurns ==
  ASSUME PlainDevice, TypeInv, ChoiceInv, UserTurns
  PROVE  ChoiceInv'
<1> SUFFICES ASSUME astray' = FALSE PROVE Reached' /\ Explained' /\ UnderWay'
  BY DEF ChoiceInv, TypeInv, UserTurns
<1>1. /\ UNCHANGED <<zone, hold, mem, deaf, flight, astray, calm>> /\ fresh' = TRUE
      /\ \A i \in 1 .. Len(flight) :
           flight[i].id = "foreign" \/ flight[i].sp \in {None, mem.written}
  BY DEF UserTurns, Fault, PlainDevice
<1>2. Reached /\ Explained /\ UnderWay /\ dev \in DevType
  BY <1>1 DEF ChoiceInv, TypeInv
<1>3. dev'.online = dev.online /\ dev'.mark = "foreign"
  BY <1>2 DEF UserTurns, DevType
<1>4. UnderWay'
  <2>1. ASSUME NEW sp \in Setpoints, Awaited(sp) PROVE Awaited(sp)'
    <3>1. flight = <<Command(sp, "current")>>
      BY <2>1 DEF Awaited
    <3>2. Len(flight) = 1 /\ flight[1].sp = sp /\ flight[1].id = "current"
      BY <3>1, CommandKinds
    <3>3. sp = mem.written
      BY <1>1, <3>2, Constants
    <3> QED
      BY <1>1, <1>3, <2>1, <3>3 DEF Awaited
  <2> QED
    BY <1>1, <1>2, <2>1 DEF UnderWay
<1> QED
  BY <1>1, <1>2, <1>3, <1>4 DEF Reached, Explained, zone

LEMMA ChoiceZone ==
  ASSUME TypeInv, ChoiceInv, SetOverride \/ Toggle \/ PlanChanges \/ CalmDown \/ Stop
  PROVE  ChoiceInv'
<1> SUFFICES ASSUME astray' = FALSE PROVE Reached' /\ Explained' /\ UnderWay'
  BY DEF ChoiceInv, TypeInv, SetOverride, Toggle, PlanChanges, CalmDown, Stop, Misses
<1>1. UNCHANGED <<mem, dev, deaf, flight, fresh>>
  BY DEF SetOverride, Toggle, PlanChanges, CalmDown, Stop
<1>2. CASE SetOverride \/ PlanChanges \/ CalmDown
  <2>1. UNCHANGED <<up, enabled, astray>>
    BY <1>2 DEF SetOverride, PlanChanges, CalmDown, zone
  <2> QED
    BY <1>1, <2>1 DEF ChoiceInv, Reached, Explained, UnderWay, Awaited
<1>3. CASE Toggle \/ Stop
  <2>1. astray = FALSE /\ flight = <<>> /\ (fresh \/ dev.sp \in {mem.prev, mem.written})
    BY <1>3, MissesFacts DEF Toggle, Stop
  <2> QED
    BY <1>1, <2>1 DEF ChoiceInv, Reached, Explained, UnderWay
<1> QED
  BY <1>2, <1>3

LEMMA ChoiceLand ==
  ASSUME PlainDevice, TypeInv, ChoiceInv, Land
  PROVE  ChoiceInv'
<1>1. /\ flight # <<>> /\ flight' = Tail(flight) /\ fresh' = (fresh /\ dev'.sp = dev.sp)
      /\ dev'.sp = IF Head(flight).sp = None \/ deaf THEN dev.sp ELSE Settle[Head(flight).sp]
      /\ UNCHANGED <<zone, hold, mem, deaf, astray, calm>> /\ dev'.online
  BY LandFacts
<1> SUFFICES ASSUME astray' = FALSE PROVE Reached' /\ Explained' /\ UnderWay'
  BY <1>1 DEF ChoiceInv, TypeInv
<1>2. Reached /\ Explained /\ UnderWay
  BY <1>1 DEF ChoiceInv
<1>3. deaf = FALSE
  BY <1>2 DEF Reached, TypeInv
<1>4. CASE flight = <<Command(None, "ours")>>
  <2>1. flight' = <<>> /\ Head(flight).sp = None
    BY <1>1, <1>4, CommandTyped
  <2> QED
    BY <1>1, <1>2, <2>1 DEF Reached, Explained, UnderWay, zone
<1>5. CASE flight = <<Command(Frost, "foreign")>>
  <2>1. flight' = <<>> /\ Head(flight).sp = Frost /\ Frost # None
    BY <1>1, <1>5, CommandTyped, Constants DEF Frost
  <2>2. dev'.sp = Frost
    BY <1>1, <1>3, <2>1, Constants DEF PlainDevice
  <2> QED
    BY <1>1, <1>2, <2>1, <2>2 DEF Reached, Explained, UnderWay, zone
<1>6. ASSUME NEW sp \in Setpoints, Awaited(sp) PROVE Reached' /\ Explained' /\ UnderWay'
  <2>1. flight = <<Command(sp, "current")>> /\ mem.age = 0 /\ sp \in {mem.written, mem.pre}
    BY <1>6 DEF Awaited
  <2>2. flight' = <<>> /\ Head(flight).sp = sp /\ sp # None
    BY <1>1, <2>1, CommandTyped, Constants
  <2>3. dev'.sp = sp
    BY <1>1, <1>3, <2>2 DEF PlainDevice
  <2>4. up /\ enabled
    BY <1>2, <2>1, CommandKinds DEF Reached
  <2> QED
    BY <1>1, <1>3, <2>1, <2>2, <2>3, <2>4 DEF Reached, Explained, UnderWay, zone
<1> QED
  BY <1>1, <1>2, <1>4, <1>5, <1>6 DEF UnderWay

LEMMA ChoiceDevice ==
  ASSUME TypeInv, ChoiceInv, Reports \/ Lost \/ Vanishes \/ Returns \/ GoesDeaf
  PROVE  ChoiceInv'
<1>1. CASE Reports
  <2>1. UNCHANGED <<zone, hold, mem, deaf, flight, fresh, astray, calm>>
    BY <1>1 DEF Reports
  <2>2. dev'.sp = dev.sp /\ dev'.online = dev.online /\ dev'.mark = "foreign"
    BY <1>1 DEF Reports, TypeInv, DevType
  <2>3. \A sp : Awaited(sp) => Awaited(sp)'
    BY <2>1, <2>2 DEF Awaited
  <2> QED
    BY <2>1, <2>2, <2>3 DEF ChoiceInv, Reached, Explained, UnderWay, zone
<1>2. CASE Lost \/ Vanishes \/ GoesDeaf
  BY <1>2 DEF Lost, Vanishes, GoesDeaf, ChoiceInv
<1>3. CASE Returns
  BY <1>3 DEF Returns, ChoiceInv, Reached
<1> QED
  BY <1>1, <1>2, <1>3

LEMMA ChoiceStart ==
  ASSUME TypeInv, ChoiceInv, Start
  PROVE  ChoiceInv'
<1>1. ~up /\ up' = TRUE /\ UNCHANGED <<enabled, plan, hold, deaf, fresh, astray, calm>>
  BY DEF Start
<1> SUFFICES ASSUME astray' = FALSE PROVE Reached' /\ Explained' /\ UnderWay'
  BY <1>1 DEF ChoiceInv, TypeInv
<1>2. /\ dev.online /\ ~deaf /\ flight \in {<<>>, <<Command(Frost, "foreign")>>}
      /\ ~fresh /\ mem.written # None => dev.sp \in {mem.written, mem.prev, Frost}
  BY <1>1 DEF ChoiceInv, Reached
<1>3. /\ mem'.written = mem.written /\ mem'.prev = mem.prev
      /\ mem'.age # None => mem'.age >= Window
      /\ dev'.sp = dev.sp /\ dev'.online = dev.online
      /\ flight' \in Seq(CommandType) /\ Len(flight') = Len(flight)
      /\ \A i \in 1 .. Len(flight) : flight'[i] = Command(flight[i].sp, "foreign")
  BY StartFacts
<1>4. flight' \in {<<>>, <<Command(Frost, "foreign")>>}
  <2>1. CASE flight = <<>>
    BY <1>3, <2>1, EmptySeq
  <2>2. CASE flight = <<Command(Frost, "foreign")>>
    <3>1. Len(flight) = 1 /\ flight[1].sp = Frost
      BY <2>2, CommandTyped
    <3>2. Len(flight') = 1 /\ flight'[1] = Command(Frost, "foreign")
      BY <1>3, <3>1
    <3> QED
      BY <1>3, <3>2
  <2> QED
    BY <1>2, <2>1, <2>2
<1> QED
  BY <1>1, <1>2, <1>3, <1>4 DEF Reached, Explained, UnderWay

LEMMA ChoiceStep == PlainDevice /\ TypeInv /\ ChoiceInv /\ [Next]_vars => ChoiceInv'
<1> SUFFICES ASSUME PlainDevice, TypeInv, ChoiceInv, [Next]_vars PROVE ChoiceInv'
  OBVIOUS
<1>1. ASSUME NEW c \in Cases, TimerTick(c) \/ EventTick(c) PROVE ChoiceInv'
  BY <1>1, ChoiceTick, ChoiceRescue DEF TimerTick, EventTick
<1>2. CASE BlindTick
  BY <1>2, ChoiceBlind
<1>3. CASE Surroundings
  BY <1>3, ChoiceTurns, ChoiceZone, ChoiceLand, ChoiceDevice, ChoiceStart DEF Surroundings
<1>4. CASE UNCHANGED vars
  BY <1>4 DEF vars, ChoiceInv, Reached, Explained, UnderWay, Awaited
<1> QED
  BY <1>1, <1>2, <1>3, <1>4 DEF Next

LEMMA TakesWhatIsChosen ==
  ASSUME PlainDevice, TypeInv, ChoiceInv, [Next]_vars
  PROVE  TakesAChoice
<1> SUFFICES ASSUME Adopts, fresh = FALSE, astray = FALSE PROVE FALSE
  BY DEF TakesAChoice, TypeInv
<1>0. hold' \notin {None, hold} /\ mem' # mem
  BY DEF Adopts
<1>1. ASSUME NEW d \in {0, 1}, NEW c \in Cases, Tick(d, c) PROVE FALSE
  <2>1. hold' # Held(c)
    BY <1>0 DEF Held
  <2>2. enabled
    BY <1>1, <2>1 DEF Tick
  <2>3. Decides(d)
    BY <1>1, <2>1, <2>2, TickEffect DEF Sends, Keeps
  <2>4. /\ mem.written # None /\ mem.age # None /\ dev.sp # mem.written /\ dev.sp > Frost
        /\ IF Aged(mem.age, d, Liveness) < Window
           THEN mem.pre \notin {None, dev.sp} ELSE mem.prev # dev.sp
    BY <2>3, DecidesFacts
  <2>5. Explained /\ mem \in MemType
    BY DEF ChoiceInv, TypeInv
  <2>6. mem.age \in 0 .. Liveness /\ Liveness \in Nat
    BY <2>4, <2>5, Constants DEF MemType, OrNone
  <2>7. /\ Aged(mem.age, d, Liveness) >= mem.age /\ Aged(mem.age, d, Liveness) <= mem.age + d
        /\ Aged(mem.age, d, Liveness) \in OrNone(0 .. Liveness)
        /\ Aged(mem.age, d, Liveness) # None
    BY <2>4, <2>6, AgedFacts DEF OrNone
  <2>8. Aged(mem.age, d, Liveness) \in Int /\ Window \in Int /\ Window > 1
    BY <2>7, Constants DEF OrNone, PlainDevice
  <2>9. dev.sp # Frost
    BY <2>4 DEF Frost
  <2>10. CASE dev.sp = mem.prev /\ (mem.age >= Window \/ mem.pre = dev.sp)
    BY <2>4, <2>6, <2>7, <2>8, <2>10
  <2>11. CASE dev.sp = mem.pre /\ mem.age = 0
    BY <2>4, <2>7, <2>8, <2>11
  <2> QED
    BY <2>4, <2>5, <2>9, <2>10, <2>11 DEF Explained
<1>2. BlindTick \/ UserTurns \/ PlanChanges \/ Toggle \/ Land \/ Reports \/ Lost \/ Vanishes
      \/ Returns \/ GoesDeaf \/ Stop \/ Start \/ CalmDown \/ UNCHANGED vars => UNCHANGED hold
  BY DEF BlindTick, UserTurns, PlanChanges, Toggle, Land, Reports, Lost, Vanishes, Returns,
         GoesDeaf, Stop, Start, CalmDown, vars
<1>3. SetOverride => UNCHANGED mem
  BY DEF SetOverride
<1> QED
  BY <1>0, <1>1, <1>2, <1>3 DEF Next, Surroundings, TimerTick, EventTick

\* For every grid, plan and threshold, on a device that settles where it is told and
\* with one command under way at a time: unless something went astray, a setpoint is
\* taken over only if the user has set it at the device and no tick has decided on it
\* before (override.py, setpoint_adopt_reason).
THEOREM SetpointsAreTakenOnce == PlainDevice => (Spec => ChoiceIsTakenOnce)
<1> SUFFICES ASSUME PlainDevice PROVE Spec => ChoiceIsTakenOnce
  OBVIOUS
<1>1. TypeInv /\ ChoiceInv /\ [Next]_vars => TypeInv' /\ ChoiceInv' /\ [TakesAChoice]_vars
  BY TypeStep, ChoiceStep, TakesWhatIsChosen
<1>2. Init => TypeInv /\ ChoiceInv
  BY TypeInit, ChoiceInit
<1> QED
  BY <1>1, <1>2, PTL DEF Spec, ChoiceIsTakenOnce
-----------------------------------------------------------------------------
(* Nobody is accused.                                                      *)

DogType ==
  [count : 0 .. FailWrites, since : OrNone(0 .. FailMin), evidence : OrNone(0 .. Ttl + 1),
   issue : BOOLEAN]
Together(w) == (w.count = 0) = (w.since = None) /\ (w.since = None) = (w.evidence = None)
DogInv == dog \in DogType /\ Together(dog)

\* One command at a time, an age to wait for, a device that settles within the tolerance
\* of what it is told, and no hand at it.
Undisputed ==
  /\ Depth = 1 /\ FailMin >= 1 /\ "user" \notin Faults
  /\ \A v \in Setpoints : Settle[v] - v \in -1 .. 1

\* The last command is under way, or the device shows what it made of it.
Commanded ==
  /\ dev.online /\ ~deaf
  /\ mem.cmd # None =>
       /\ mem.age # None
       /\ \/ flight = <<Command(mem.cmd, "current")>>
          \/ flight \in {<<>>, <<Command(None, "ours")>>} /\ dev.sp = Settle[mem.cmd]
CommandInv == ~astray => Commanded

\* A write is counted as diverged only between a command and its arrival, in no time,
\* and whatever is counted is evidence for the next tick.
Counted ==
  /\ dog.issue = FALSE
  /\ dog.count > 0 =>
       /\ dog.since = 0 /\ dev.newer /\ dev.mark # "ours" /\ mem.cmd # None
       /\ flight # <<Command(None, "ours")>>
CountInv == ~astray => Counted

LEMMA WatchConstants ==
  /\ FailWrites \in Nat \ {0} /\ FailMin \in Nat /\ Ttl \in Nat /\ None \notin Int
BY ConvergenceAssumption, Constants

LEMMA QuietTyped ==
  \A b \in BOOLEAN : [Quiet EXCEPT !.issue = b] \in DogType /\ Together([Quiet EXCEPT !.issue = b])
BY WatchConstants DEF Quiet, DogType, OrNone, Together

LEMMA ExpiryFacts ==
  ASSUME DogInv, NEW d \in {0, 1}
  PROVE  LET w == Unexpired(DogOlder(dog, d))
         IN  /\ w \in DogType /\ Together(w) /\ w.issue = dog.issue
             /\ w.count \in {0, dog.count}
             /\ d = 0 /\ w.count > 0 => w.since = dog.since
<1> DEFINE o == DogOlder(dog, d)
<1>1. dog \in DogType /\ Together(dog)
  BY DEF DogInv
<1>2. /\ Aged(dog.since, d, FailMin) \in OrNone(0 .. FailMin)
      /\ (Aged(dog.since, d, FailMin) = None) = (dog.since = None)
      /\ d = 0 => Aged(dog.since, d, FailMin) = dog.since
  BY <1>1, AgedFacts, WatchConstants DEF DogType
<1>3. /\ Aged(dog.evidence, d, Ttl + 1) \in OrNone(0 .. Ttl + 1)
      /\ (Aged(dog.evidence, d, Ttl + 1) = None) = (dog.evidence = None)
  BY <1>1, AgedFacts, WatchConstants DEF DogType
<1>4. /\ o \in DogType /\ o.issue = dog.issue /\ o.count = dog.count
      /\ o.since = Aged(dog.since, d, FailMin) /\ o.evidence = Aged(dog.evidence, d, Ttl + 1)
  BY <1>1, <1>2, <1>3 DEF DogOlder, DogType
<1>5. Together(o) /\ (d = 0 => o.since = dog.since)
  BY <1>1, <1>2, <1>3, <1>4 DEF Together
<1> HIDE DEF o
<1>6. CASE Unexpired(o) = o
  BY <1>4, <1>5, <1>6 DEF o
<1>7. CASE Unexpired(o) = [Quiet EXCEPT !.issue = o.issue]
  <2>1. o.issue \in BOOLEAN
    BY <1>4 DEF DogType
  <2>2. [Quiet EXCEPT !.issue = o.issue].issue = o.issue /\ [Quiet EXCEPT !.issue = o.issue].count = 0
    BY DEF Quiet
  <2> QED
    BY <1>4, <1>7, <2>1, <2>2, QuietTyped DEF o
<1>8. Unexpired(o) \in {o, [Quiet EXCEPT !.issue = o.issue]}
  BY DEF Unexpired
<1> QED
  BY <1>6, <1>7, <1>8

LEMMA ReportedFacts ==
  ASSUME NEW w \in DogType, Together(w)
  PROVE  /\ Reported(w) \in DogType /\ Together(Reported(w))
         /\ Reported(w).count = w.count /\ Reported(w).since = w.since
         /\ Reported(w).issue = Escalated(w)
<1>1. Escalated(w) \in BOOLEAN
  BY DEF Escalated
<1> QED
  BY <1>1 DEF Reported, DogType, Together

\* The three things a tick may conclude from what it reads.
Counts(w) ==
  [w EXCEPT !.count = Min2(@ + 1, FailWrites), !.evidence = 0,
            !.since = IF @ = None THEN 0 ELSE @]

LEMMA ObserveFacts ==
  ASSUME NEW w \in DogType, Together(w), NEW v
  PROVE  /\ Observe(w, v) \in DogType /\ Together(Observe(w, v))
         /\ ~IsEvidence(v.mem) => Observe(w, v) = w
         /\ IsEvidence(v.mem) /\ Actual - v.mem.cmd \in -1 .. 1
              => Observe(w, v).count = 0 /\ Observe(w, v).issue = w.issue
         /\ Observe(w, v) # w => Observe(w, v).count = 0 \/ Observe(w, v).since \in {0, w.since}
         /\ Observe(w, v).count > 0 => w.count > 0 \/ Observe(w, v).since = 0
<1> DEFINE q == [Quiet EXCEPT !.issue = w.issue]
<1>1. q \in DogType /\ Together(q) /\ q.count = 0 /\ q.issue = w.issue
  BY QuietTyped DEF DogType, Quiet
<1>2. Min2(w.count + 1, FailWrites) \in 1 .. FailWrites
  BY WatchConstants DEF Min2, DogType
<1>3. Counts(w) \in DogType /\ Counts(w).count = Min2(w.count + 1, FailWrites)
      /\ Counts(w).since = (IF w.since = None THEN 0 ELSE w.since) /\ Counts(w).evidence = 0
  <2> DEFINE k == Min2(w.count + 1, FailWrites)
             t == IF w.since = None THEN 0 ELSE w.since
  <2>1. k \in 0 .. FailWrites
    BY <1>2
  <2>2. t \in OrNone(0 .. FailMin) /\ 0 \in OrNone(0 .. Ttl + 1)
    BY WatchConstants DEF DogType, OrNone
  <2>3. Counts(w) = [w EXCEPT !.count = k, !.evidence = 0, !.since = t]
    BY DEF Counts
  <2> HIDE DEF k, t
  <2>4. Counts(w) \in DogType /\ Counts(w).count = k /\ Counts(w).since = t /\ Counts(w).evidence = 0
    BY <2>1, <2>2, <2>3 DEF DogType
  <2> QED
    BY <2>4 DEF k, t
<1>4. Together(Counts(w)) /\ (w.count = 0 => Counts(w).since = 0)
  BY <1>2, <1>3, WatchConstants DEF Together, DogType, OrNone
<1>5. /\ ~IsEvidence(v.mem) => Observe(w, v) = w
      /\ IsEvidence(v.mem) /\ Actual - v.mem.cmd \in -1 .. 1 => Observe(w, v) = q
      /\ Observe(w, v) \in {w, q, Counts(w)}
  BY DEF Observe, Counts
<1> HIDE DEF q
<1>6. w.count \in 0 .. FailWrites
  BY DEF DogType
<1> QED
  BY <1>1, <1>3, <1>4, <1>5, <1>6, WatchConstants

LEMMA WatchTyped ==
  ASSUME DogInv, [WNext]_watched
  PROVE  DogInv'
<1>1. Quiet \in DogType /\ Together(Quiet)
  BY WatchConstants DEF Quiet, DogType, OrNone, Together
<1>2. ASSUME NEW d \in {0, 1}, NEW c \in Cases, Watch(d, c) PROVE DogInv'
  <2> DEFINE w == Unexpired(DogOlder(dog, d))
             o == Observe(w, Found(d, c))
  <2>1. w \in DogType /\ Together(w)
    BY ExpiryFacts
  <2> HIDE DEF w
  <2>2. o \in DogType /\ Together(o)
    BY <2>1, ObserveFacts
  <2> HIDE DEF o
  <2>3. Reported(o) \in DogType /\ Together(Reported(o))
    BY <2>2, ReportedFacts
  <2>4. dog' = IF enabled THEN Reported(o) ELSE Quiet
    BY <1>2 DEF Watch, o, w
  <2> QED
    BY <1>1, <2>3, <2>4 DEF DogInv
<1> QED
  BY <1>1, <1>2 DEF WNext, Interval, watched, DogInv

LEMMA WatchedSteps == [WNext]_watched => [Next]_vars
BY DEF WNext, watched, Next, Interval, Surroundings

LEMMA CommandTick ==
  ASSUME Undisputed, TypeInv, CommandInv, NEW d \in {0, 1}, NEW c \in Cases, Tick(d, c)
  PROVE  CommandInv'
<1> SUFFICES ASSUME astray' = FALSE PROVE Commanded'
  BY DEF CommandInv, TypeInv, Tick
<1>1. /\ deaf' = deaf /\ Len(flight') <= 1 /\ astray' = (astray \/ c.refused \/ (d > 0 /\ flight # <<>>))
      /\ flight \in Seq(CommandType) /\ mem \in MemType /\ dev \in DevType
  BY DEF Tick, TypeInv, Undisputed
<1>2. astray = FALSE /\ c.refused = FALSE
  BY <1>1 DEF TypeInv, Cases
<1>3. Commanded
  BY <1>2 DEF CommandInv
<1>4. /\ Noted(d) \in MemType /\ Noted(d).cmd = mem.cmd /\ Noted(d).age = Aged(mem.age, d, Liveness)
      /\ Older(mem, d) \in MemType /\ Older(mem, d).cmd = mem.cmd
      /\ Older(mem, d).age = Aged(mem.age, d, Liveness)
      /\ (Aged(mem.age, d, Liveness) = None) = (mem.age = None)
  BY <1>1, ObservesFacts, OlderFacts, AgedFacts, Constants DEF MemType
<1>5. 0 # None
  BY Constants
<1>6. ASSUME flight' = flight \o Nudging(c), mem'.cmd = mem.cmd, mem'.age # None \/ mem.age = None, dev' = dev
      PROVE  Commanded'
  <2>1. /\ flight = <<>> => flight' \in {<<>>, <<Command(None, "ours")>>}
        /\ flight # <<>> => flight' = flight
    BY <1>1, <1>6, NudgingTyped, OneCommand
  <2>2. CASE flight = <<>>
    BY <1>1, <1>3, <1>6, <2>1, <2>2 DEF Commanded
  <2>3. CASE flight # <<>>
    BY <1>1, <1>3, <1>6, <2>1, <2>3 DEF Commanded
  <2> QED
    BY <2>2, <2>3
<1>7. CASE enabled /\ Takes(d, c)
  <2>1. mem' = Adopted(Noted(d)) /\ flight' = flight \o Nudging(c) /\ dev' = dev
    BY <1>7 DEF Takes
  <2>2. mem'.cmd = mem.cmd /\ mem'.age = 0
    BY <1>4, <2>1 DEF Adopted, MemType
  <2> QED
    BY <1>5, <1>6, <2>1, <2>2
<1>8. CASE enabled /\ Keeps(d, c)
  <2>1. mem' = Noted(d) /\ flight' = flight \o Nudging(c) /\ dev' = dev
    BY <1>2, <1>8 DEF Keeps
  <2> QED
    BY <1>4, <1>6, <2>1
<1>9. CASE enabled /\ Sends(d, c)
  <2>1. Wanted(c) \in Setpoints
    BY TargetType DEF Wanted, Held, TypeInv, HoldType, OrNone
  <2> DEFINE w == Wanted(c)
             x == <<Command(w, "current")>>
  <2>2. x \in Seq(CommandType) /\ Len(x) = 1
    BY <2>1, CommandTyped DEF OrNone, Marks
  <2>3. flight' = Superseded(flight) \o (Nudging(c) \o x) /\ mem' = Written(Noted(d), w, plan)
    BY <1>9 DEF Sends
  <2>4. dev'.online = dev.online
    BY <1>1, <1>9 DEF Sends, DevType
  <2> HIDE DEF w
  <2>5. mem'.cmd = w /\ mem'.age = 0
    BY <1>4, <2>3 DEF Written, MemType
  <2>6. flight' = x
    <3> HIDE DEF x
    <3>1. Superseded(flight) \in Seq(CommandType) /\ Nudging(c) \in Seq(CommandType)
      BY <1>1, SupersededFacts, NudgingTyped
    <3> QED
      BY <1>1, <2>2, <2>3, <3>1, OnlyTheLast
  <2> QED
    BY <1>1, <1>3, <1>5, <2>4, <2>5, <2>6 DEF Commanded
<1>10. CASE ~enabled
  <2>1. /\ dev' = dev
        /\ \/ mem' = Older(mem, d) /\ flight' = flight
           \/ mem' = OurFloor(Older(mem, d))
    BY <1>10 DEF Tick, Rescue
  <2>2. CASE mem' = Older(mem, d) /\ flight' = flight
    BY <1>1, <1>3, <1>4, <2>1, <2>2 DEF Commanded
  <2>3. CASE mem' = OurFloor(Older(mem, d))
    <3>1. mem'.cmd = None
      BY <1>4, <2>3 DEF OurFloor, MemType
    <3> QED
      BY <1>1, <1>3, <2>1, <3>1 DEF Commanded
  <2> QED
    BY <2>1, <2>2, <2>3
<1> QED
  BY <1>7, <1>8, <1>9, <1>10, TickEffect DEF TypeInv

LEMMA CommandOthers ==
  ASSUME Undisputed, TypeInv, CommandInv, BlindTick \/ Surroundings \/ UNCHANGED vars
  PROVE  CommandInv'
<1>1. CASE BlindTick
  <2> SUFFICES ASSUME astray' = FALSE PROVE Commanded'
    BY <1>1 DEF CommandInv, BlindTick, Misses, TypeInv
  <2>1. /\ astray = FALSE /\ UNCHANGED <<dev, deaf>>
        /\ \/ mem' = Older(mem, 1) /\ UNCHANGED flight
           \/ mem' = OurFloor(Older(mem, 1))
    BY <1>1, MissesFacts DEF BlindTick
  <2>2. /\ mem \in MemType /\ Older(mem, 1) \in MemType /\ Older(mem, 1).cmd = mem.cmd
        /\ Older(mem, 1).age = Aged(mem.age, 1, Liveness)
        /\ (Aged(mem.age, 1, Liveness) = None) = (mem.age = None)
    BY OlderFacts, AgedFacts, Constants DEF TypeInv, MemType
  <2>3. Commanded
    BY <2>1 DEF CommandInv
  <2>4. CASE mem' = Older(mem, 1) /\ UNCHANGED flight
    BY <2>1, <2>2, <2>3, <2>4 DEF Commanded
  <2>5. CASE mem' = OurFloor(Older(mem, 1))
    <3>1. mem'.cmd = None
      BY <2>2, <2>5 DEF OurFloor, MemType
    <3> QED
      BY <2>1, <2>3, <3>1 DEF Commanded
  <2> QED
    BY <2>1, <2>4, <2>5
<1>2. ~UserTurns /\ ~SetOverride
  BY DEF UserTurns, SetOverride, Fault, Undisputed
<1>3. CASE Toggle \/ Stop
  <2> SUFFICES ASSUME astray' = FALSE PROVE Commanded'
    BY <1>3 DEF CommandInv, Toggle, Stop, Misses, TypeInv
  <2>1. astray = FALSE /\ UNCHANGED <<mem, dev, deaf, flight>>
    BY <1>3, MissesFacts DEF Toggle, Stop
  <2> QED
    BY <2>1 DEF CommandInv, Commanded
<1>4. CASE PlanChanges \/ CalmDown \/ UNCHANGED vars
  <2>1. UNCHANGED <<mem, dev, deaf, flight, astray>>
    BY <1>4 DEF PlanChanges, CalmDown, vars
  <2> QED
    BY <2>1 DEF CommandInv, Commanded
<1>5. CASE Land
  <2>1. /\ flight # <<>> /\ flight' = Tail(flight) /\ dev'.online
        /\ dev'.sp = IF Head(flight).sp = None \/ deaf THEN dev.sp ELSE Settle[Head(flight).sp]
        /\ UNCHANGED <<mem, deaf, astray>>
    BY <1>5, LandFacts
  <2> SUFFICES ASSUME astray = FALSE PROVE Commanded'
    BY <2>1 DEF CommandInv, TypeInv
  <2>2. Commanded
    BY DEF CommandInv
  <2>3. deaf = FALSE
    BY <2>2 DEF Commanded, TypeInv
  <2>4. CASE mem.cmd = None
    BY <2>1, <2>2, <2>4 DEF Commanded
  <2>5. CASE mem.cmd # None /\ flight = <<Command(mem.cmd, "current")>>
    <3>1. flight' = <<>> /\ Head(flight).sp = mem.cmd
      BY <2>1, <2>5, CommandTyped
    <3> QED
      BY <2>1, <2>2, <2>3, <2>5, <3>1 DEF Commanded
  <2>6. CASE mem.cmd # None /\ flight = <<Command(None, "ours")>> /\ dev.sp = Settle[mem.cmd]
    <3>1. flight' = <<>> /\ Head(flight).sp = None
      BY <2>1, <2>6, CommandTyped
    <3> QED
      BY <2>1, <2>2, <2>6, <3>1 DEF Commanded
  <2> QED
    BY <2>1, <2>2, <2>4, <2>5, <2>6 DEF Commanded
<1>6. CASE Reports
  <2>1. dev'.sp = dev.sp /\ dev'.online = dev.online /\ UNCHANGED <<mem, deaf, flight, astray>>
    BY <1>6 DEF Reports, TypeInv, DevType
  <2> QED
    BY <2>1 DEF CommandInv, Commanded
<1>7. CASE Lost \/ Vanishes \/ GoesDeaf
  BY <1>7 DEF Lost, Vanishes, GoesDeaf, CommandInv
<1>8. CASE Returns
  BY <1>8 DEF Returns, CommandInv, Commanded
<1>9. CASE Start
  <2>1. mem'.cmd = None /\ dev'.online = dev.online /\ UNCHANGED <<deaf, astray>>
    BY <1>9, StartFacts DEF Start
  <2> QED
    BY <2>1 DEF CommandInv, Commanded
<1> QED
  BY <1>1, <1>2, <1>3, <1>4, <1>5, <1>6, <1>7, <1>8, <1>9 DEF Surroundings

LEMMA CommandStep == Undisputed /\ TypeInv /\ CommandInv /\ [Next]_vars => CommandInv'
<1> SUFFICES ASSUME Undisputed, TypeInv, CommandInv, [Next]_vars PROVE CommandInv'
  OBVIOUS
<1>1. ASSUME NEW c \in Cases, TimerTick(c) \/ EventTick(c) PROVE CommandInv'
  BY <1>1, CommandTick DEF TimerTick, EventTick
<1> QED
  BY <1>1, CommandOthers DEF Next

LEMMA CountTick ==
  ASSUME Undisputed, TypeInv, DogInv, CommandInv, CountInv,
         NEW d \in {0, 1}, NEW c \in Cases, Tick(d, c), Watch(d, c), enabled
  PROVE  CountInv'
<1> SUFFICES ASSUME astray' = FALSE PROVE Counted'
  BY DEF CountInv, TypeInv, Tick
<1>1. /\ astray' = (astray \/ c.refused \/ (d > 0 /\ flight # <<>>))
      /\ Len(flight') <= 1 /\ flight \in Seq(CommandType) /\ dev \in DevType
  BY DEF Tick, TypeInv, Undisputed
<1>b. c.refused \in BOOLEAN /\ astray \in BOOLEAN /\ (d > 0 \/ d = 0)
  BY DEF Cases, TypeInv
<1>2. astray = FALSE /\ c.refused = FALSE /\ (flight # <<>> => d = 0)
  BY <1>1, <1>b
<1>3. Commanded /\ Counted
  BY <1>2 DEF CommandInv, CountInv
<1> DEFINE v == Found(d, c)
           w == Unexpired(DogOlder(dog, d))
           o == Observe(w, v)
<1>4. v.mem = Observes(d) /\ Observes(d).cmd = mem.cmd
      /\ Observes(d).age = Aged(mem.age, d, Liveness) /\ Actual = dev.sp
  BY <1>3, VerdictFacts, ObservesFacts DEF Commanded, Actual
<1>5. dog' = Reported(o)
  BY DEF Watch
<1>6. /\ w \in DogType /\ Together(w) /\ w.issue = FALSE /\ w.count \in {0, dog.count}
      /\ d = 0 /\ w.count > 0 => w.since = dog.since
  BY <1>3, ExpiryFacts DEF Counted
<1> HIDE DEF v, w
<1>7. /\ o \in DogType /\ Together(o)
      /\ ~IsEvidence(v.mem) => o = w
      /\ IsEvidence(v.mem) /\ Actual - v.mem.cmd \in -1 .. 1 => o.count = 0
      /\ o # w => o.count = 0 \/ o.since \in {0, w.since}
      /\ o.count > 0 => w.count > 0 \/ o.since = 0
  BY <1>6, ObserveFacts
<1> HIDE DEF o
<1>8. /\ dog'.count = o.count /\ dog'.since = o.since /\ dog'.issue = Escalated(o)
  BY <1>5, <1>7, ReportedFacts
<1>9. CASE o.count = 0
  <2>1. Escalated(o) = FALSE
    BY <1>9, WatchConstants DEF Escalated
  <2> QED
    BY <1>8, <1>9, <2>1 DEF Counted
<1>10. CASE o.count # 0
  <2>1. o.count > 0
    BY <1>7, <1>10, WatchConstants DEF DogType
  <2>2. IsEvidence(v.mem)
    <3>1. CASE ~IsEvidence(v.mem)
      <4>1. w.count > 0 /\ dog.count > 0
        BY <1>6, <1>7, <2>1, <3>1
      <4>2. dev.newer /\ dev.mark # "ours" /\ mem.cmd # None
        BY <1>3, <4>1 DEF Counted
      <4>3. Actual # None
        BY <1>1, <1>4, Constants DEF DevType
      <4> QED
        BY <1>4, <3>1, <4>2, <4>3 DEF IsEvidence
    <3> QED
      BY <3>1
  <2>3. mem.cmd # None /\ dev.mark # "ours"
    BY <1>4, <2>2 DEF IsEvidence
  <2>4. ~(dev.sp - mem.cmd \in -1 .. 1)
    BY <1>4, <1>7, <2>2, <1>10
  <2>5. flight = <<Command(mem.cmd, "current")>>
    <3>1. mem.cmd \in Setpoints
      BY <2>3 DEF TypeInv, MemType, OrNone
    <3>2. dev.sp # Settle[mem.cmd]
      BY <2>4, <3>1 DEF Undisputed
    <3> QED
      BY <1>3, <2>3, <3>2 DEF Commanded
  <2>6. flight # <<>> /\ d = 0
    BY <1>2, <2>5, CommandKinds
  <2>7. dev.newer
    <3>1. mem.age # None
      BY <1>3, <2>3 DEF Commanded
    <3>2. Aged(mem.age, d, Liveness) # None
      BY <3>1, AgedFacts, Constants DEF TypeInv, MemType
    <3> QED
      BY <1>4, <2>2, <3>2 DEF IsEvidence
  <2>8. o.since = 0
    <3>1. w.count > 0 => w.since = 0
      BY <1>3, <1>6, <2>6 DEF Counted
    <3>2. CASE w.count > 0
      BY <1>7, <2>1, <3>1, <3>2
    <3>3. CASE ~(w.count > 0)
      BY <1>7, <2>1, <3>3
    <3> QED
      BY <3>2, <3>3
  <2>9. Escalated(o) = FALSE
    BY <2>8, WatchConstants DEF Escalated, Undisputed
  <2>10. ~Sends(d, c)
    <3> SUFFICES ASSUME Sends(d, c) PROVE FALSE
      OBVIOUS
    <3>1. Wanted(c) \in Setpoints
      BY TargetType DEF Wanted, Held, TypeInv, HoldType, OrNone
    <3> DEFINE x == <<Command(Wanted(c), "current")>>
    <3>2. x \in Seq(CommandType) /\ Len(x) = 1
      BY <3>1, CommandTyped DEF OrNone, Marks
    <3>3. flight' = Superseded(flight) \o (Nudging(c) \o x)
      BY DEF Sends
    <3> HIDE DEF x
    <3>4. /\ Superseded(flight) \in Seq(CommandType) /\ Nudging(c) \in Seq(CommandType)
          /\ Len(Superseded(flight)) = Len(flight)
      BY <1>1, SupersededFacts, NudgingTyped
    <3>5. Superseded(flight) = <<>>
      BY <1>1, <3>2, <3>3, <3>4, OnlyTheLast
    <3>6. Len(flight) = 0
      BY <3>4, <3>5, EmptySeq
    <3> QED
      BY <1>1, <2>6, <3>6, EmptySeq
  <2>11. dev' = dev /\ mem'.cmd = mem.cmd
    <3>1. dev' = dev /\ mem' \in {Adopted(Noted(d)), Noted(d)}
      BY <1>2, <2>10, TickEffect DEF Takes, Keeps
    <3>2. Noted(d) \in MemType /\ Noted(d).cmd = mem.cmd
      BY ObservesFacts
    <3>3. Adopted(Noted(d)).cmd = mem.cmd
      BY <3>2 DEF Adopted, MemType
    <3> QED
      BY <3>1, <3>2, <3>3
  <2>12. flight' = flight
    <3>1. flight' = flight \o Nudging(c)
      BY <1>2, <2>10, TickEffect DEF Takes, Keeps
    <3> QED
      BY <1>1, <2>6, <3>1, NudgingTyped, OneCommand
  <2>13. flight' # <<Command(None, "ours")>>
    BY <2>5, <2>12, CommandKinds
  <2> QED
    BY <1>8, <2>3, <2>7, <2>8, <2>9, <2>11, <2>13 DEF Counted
<1> QED
  BY <1>9, <1>10

LEMMA CountOthers ==
  ASSUME Undisputed, TypeInv, CommandInv, CountInv, Surroundings, ~Start, UNCHANGED dog
  PROVE  CountInv'
<1>1. ~UserTurns /\ ~SetOverride
  BY DEF UserTurns, SetOverride, Fault, Undisputed
<1>2. CASE Toggle \/ Stop
  <2> SUFFICES ASSUME astray' = FALSE PROVE Counted'
    BY <1>2 DEF CountInv, Toggle, Stop, Misses, TypeInv
  <2>1. astray = FALSE /\ UNCHANGED <<mem, dev, flight>>
    BY <1>2, MissesFacts DEF Toggle, Stop
  <2> QED
    BY <2>1 DEF CountInv, Counted
<1>3. CASE PlanChanges \/ CalmDown
  <2>1. UNCHANGED <<mem, dev, flight, astray>>
    BY <1>3 DEF PlanChanges, CalmDown
  <2> QED
    BY <2>1 DEF CountInv, Counted
<1>4. CASE Land
  <2>1. /\ flight # <<>> /\ flight' = Tail(flight) /\ (dev' = dev \/ (dev'.newer /\ dev'.mark = Head(flight).id))
        /\ UNCHANGED <<mem, astray>>
    BY <1>4, LandFacts
  <2> SUFFICES ASSUME astray = FALSE PROVE Counted'
    BY <2>1 DEF CountInv, TypeInv
  <2>2. Commanded /\ Counted
    BY DEF CommandInv, CountInv
  <2>3. CASE mem.cmd = None
    BY <2>1, <2>2, <2>3 DEF Counted
  <2>4. CASE mem.cmd # None /\ flight = <<Command(mem.cmd, "current")>>
    <3>1. Head(flight).id = "current" /\ flight' = <<>>
      BY <2>1, <2>4, CommandTyped
    <3>2. flight' # <<Command(None, "ours")>>
      BY <3>1, CommandKinds
    <3> QED
      BY <2>1, <2>2, <3>1, <3>2 DEF Counted
  <2>5. CASE mem.cmd # None /\ flight = <<Command(None, "ours")>>
    BY <2>1, <2>2, <2>5 DEF Counted
  <2> QED
    BY <2>1, <2>2, <2>3, <2>4, <2>5 DEF Commanded
<1>5. CASE Reports
  <2>1. dev'.newer /\ dev'.mark = "foreign" /\ UNCHANGED <<mem, flight, astray>>
    BY <1>5 DEF Reports, TypeInv, DevType
  <2> QED
    BY <2>1 DEF CountInv, Counted
<1>6. CASE Lost \/ Vanishes \/ GoesDeaf
  BY <1>6 DEF Lost, Vanishes, GoesDeaf, CountInv
<1>7. CASE Returns
  BY <1>7 DEF Returns, CommandInv, Commanded, CountInv
<1> QED
  BY <1>1, <1>2, <1>3, <1>4, <1>5, <1>6, <1>7 DEF Surroundings

LEMMA CountStep ==
  Undisputed /\ TypeInv /\ DogInv /\ CommandInv /\ CountInv /\ [WNext]_watched => CountInv'
<1> SUFFICES ASSUME Undisputed, TypeInv, DogInv, CommandInv, CountInv, [WNext]_watched
             PROVE  CountInv'
  OBVIOUS
<1>1. dog' = Quiet => CountInv'
  BY DEF Quiet, CountInv, Counted
<1>2. ASSUME NEW d \in {0, 1}, NEW c \in Cases, Tick(d, c), Watch(d, c) PROVE CountInv'
  <2>1. CASE enabled
    BY <1>2, <2>1, CountTick
  <2>2. CASE ~enabled
    BY <1>1, <1>2, <2>2 DEF Watch
  <2> QED
    BY <2>1, <2>2
<1>3. CASE \E c \in Cases : Interval(c)
  BY <1>2, <1>3 DEF Interval, TimerTick
<1>4. CASE \E c \in Cases : EventTick(c) /\ Watch(0, c)
  BY <1>2, <1>4 DEF EventTick
<1>5. CASE Surroundings /\ ~Start /\ UNCHANGED dog
  BY <1>5, CountOthers
<1>6. CASE UNCHANGED watched
  BY <1>6 DEF watched, vars, CountInv, Counted
<1> QED
  BY <1>1, <1>3, <1>4, <1>5, <1>6 DEF WNext

\* A device that follows is never reported: as long as nothing has gone astray, the
\* watchdog of the setpoint channel (safety/write_convergence.py) counts a command only
\* between its sending and its arrival, and no time passes there.  The device may settle
\* one step off what it is told, and every fault but a hand at it may happen.
THEOREM NobodyIsAccused == Undisputed => (WSpec => []NotAccused)
<1> SUFFICES ASSUME Undisputed PROVE WSpec => []NotAccused
  OBVIOUS
<1> DEFINE WInv == TypeInv /\ DogInv /\ CommandInv /\ CountInv
<1>1. WInit => WInv
  <2> SUFFICES ASSUME WInit PROVE WInv
    OBVIOUS
  <2>1. TypeInv
    BY TypeInit DEF WInit
  <2>2. DogInv
    BY WatchConstants DEF WInit, Quiet, DogInv, DogType, OrNone, Together
  <2>3. CommandInv
    BY DEF WInit, Init, Fresh, CommandInv, Commanded
  <2>4. CountInv
    BY DEF WInit, Quiet, CountInv, Counted
  <2> QED
    BY <2>1, <2>2, <2>3, <2>4
<1>2. WInv /\ [WNext]_watched => WInv'
  BY WatchedSteps, TypeStep, WatchTyped, CommandStep, CountStep
<1>3. WInv => NotAccused
  BY DEF DogInv, DogType, Together, OrNone, CountInv, Counted, NotAccused, WatchTypeOK
<1> QED
  BY <1>1, <1>2, <1>3, PTL DEF WSpec
=============================================================================

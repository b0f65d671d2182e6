----------------------------- MODULE ComfortPlan ------------------------------
(***************************************************************************)
(* What a zone aims for, tick by tick: the comfort base of the schedule,   *)
(* lowered outside its windows, raised early by optimal start so that the  *)
(* room is warm when a window opens, let go early by optimal stop, shifted *)
(* by the preset and its timed Boost, widened when the room or the house   *)
(* is empty, and overruled by a manual hold.                               *)
(*                                                                         *)
(* Temperatures are whole levels.  The learned model is exact in its slow  *)
(* direction: a heated room gains at least a level per slot, an unheated   *)
(* one loses at most one.  A tick comes once a slot and sees the room, the *)
(* people at home and the people in the room as they are.                  *)
(***************************************************************************)
EXTENDS ComfortSchedule, OverrideHold

CONSTANTS
  Rooms,        \* levels the room may have
  ComfortBase,  \* comfort_base
  SetbackBy, EcoBy, BoostBy,   \* setback_delta and the offsets of the presets
  EcoDelta, AwayOffset,        \* how far the band is widened for an empty room, an empty house
  CoastLower,   \* the lower edge of the comfort band
  CoastReady,   \* COAST_READY_BAND_K
  MaxLead,      \* max_lead_h
  HeldAt,       \* the setpoint a user may hold
  BoostFor,     \* boost_duration_min
  AbsenceAfter, \* absence_after_min
  Presets,      \* the presets a user may choose
  Homes, People,\* what the house's and the room's presence sensors may report
  Faults        \* "restart": HA restarts

\* What the constants must be: assumed where they get their values.
PlanAssumption ==
  /\ BoostFor \in Nat \ {0} /\ AbsenceAfter \in Nat \ {0} /\ MaxLead \in Nat
  /\ Presets \subseteq {"none", "eco", "boost", "away"} /\ "none" \in Presets
  /\ Homes \subseteq {"home", "away", "unknown"} /\ People \subseteq {"in", "out", "unknown"}
  /\ Faults \subseteq {"restart"}
  /\ Rooms \subseteq Int /\ None \notin Presets /\ NoEdge = None
  /\ \A level \in {ComfortBase, SetbackBy, EcoBy, BoostBy, EcoDelta, AwayOffset,
                   CoastLower, CoastReady, HeldAt} : level \in Int

VARIABLES
  room,      \* the temperature the next tick will read
  user,      \* preset, boost_prev_preset, the time left of a Boost, and the hold
  latches,   \* was_preheating, was_coasting
  presence,  \* prev_home, room_absent_since as an age
  plan,      \* what the last tick decided: base, preheating, coasting, level
  ghost      \* what the properties need to remember; no action depends on it

vars == <<windows, now, room, user, latches, presence, plan, ghost>>

NoPreset == "none"
Verdicts == [ws \in Schedules |-> [t \in 0 .. Week - 1 |-> StateAt(ws, t)]]
SwitchPoints == [ws \in Schedules |-> [t \in 0 .. Week - 1 |-> SwitchPoint(ws, t)]]
State == Verdicts[windows][now]
Longer(a, b) == IF a > b THEN a ELSE b

-----------------------------------------------------------------------------
(* Presets and the timed Boost *)

\* mode_comfort_base
BaseOf(preset) ==
  CASE preset = "eco" -> ComfortBase - EcoBy
    [] preset = "boost" -> ComfortBase + BoostBy
    [] OTHER -> ComfortBase

\* Seeded fault: pressing Boost again freezes Boost itself.
SetPresetAgain(u, p) ==
  IF p = "boost" THEN [u EXCEPT !.preset = p, !.prev = u.preset, !.boost = BoostFor]
  ELSE [u EXCEPT !.preset = p, !.prev = None, !.boost = None]

\* set_preset
SetPreset(u, p) ==
  IF p = "boost"
  THEN [u EXCEPT !.preset = p, !.boost = BoostFor,
                 !.prev = IF u.preset = "boost" THEN @ ELSE u.preset]
  ELSE [u EXCEPT !.preset = p, !.prev = None, !.boost = None]

AgedUser(u, d) ==
  [u EXCEPT !.hold = AgedHold(@, d), !.boost = IF @ = None THEN None ELSE Less(@, d)]

\* expire_timed_states; a zone whose holds end with a presence change.
Expired(u, flip) ==
  LET boosted == IF u.boost = 0 THEN SetPreset(u, IF u.prev = None THEN NoPreset ELSE u.prev) ELSE u
  IN  [boosted EXCEPT !.hold = ExpireHold(@, flip)]

-----------------------------------------------------------------------------
(* The predictive plan *)

\* Seeded fault: optimal start misses the deadline by a slot.
StartLate(r, target, mins) == mins < Min({Longer(target - r, 0), MaxLead})

\* advise: the model knows how long heating takes; beyond its horizon it starts there.
StartNow(r, target, mins) == mins <= Min({Longer(target - r, 0), MaxLead})

\* advise_stop: the room could drift down to its lower edge by the end of the window.
StopNow(r, mins) ==
  /\ r <= CoastLower + MaxLead
  /\ mins <= Longer(r - CoastLower, 0)

Plan(base, preheating, coasting) == [base |-> base, preheating |-> preheating, coasting |-> coasting]

\* Engaged from a room at its target only, held until it is down at the edge.
Coasts(r, target, st, was) ==
  \/ StopNow(r, st.to_setback) /\ r >= target - CoastReady
  \/ was /\ r > CoastLower

Preheats(r, target, st, away, was) ==
  /\ ~ away /\ st.to_comfort # NoEdge
  /\ StartNow(r, target, st.to_comfort) \/ (was /\ r < target)

\* plan_preheat
PlanPreheat(r, target, st, away) ==
  IF st.is_comfort
  THEN IF st.to_setback # NoEdge /\ Coasts(r, target, st, latches.coasting)
       THEN Plan(CoastLower, FALSE, TRUE) ELSE Plan(target, FALSE, FALSE)
  ELSE IF Preheats(r, target, st, away, latches.preheating)
       THEN Plan(target, TRUE, FALSE) ELSE Plan(target - SetbackBy, FALSE, FALSE)

-----------------------------------------------------------------------------
(* Presence *)

\* step_room_absence: the anchor as an age; outside the window it is pinned.
Absence(since, people, accrue) ==
  IF people # "out" THEN None ELSE IF since = None \/ ~ accrue THEN 0 ELSE since

\* resolve_presence
Level(home, absent, st, preheating) ==
  IF home = "away" THEN "away"
  ELSE IF ~ preheating /\ st.is_comfort /\ absent # None /\ absent >= AbsenceAfter THEN "room_eco"
  ELSE "comfort"

Widened(level) ==
  CASE level = "away" -> AwayOffset [] level = "room_eco" -> EcoDelta [] OTHER -> 0

-----------------------------------------------------------------------------
(* The tick *)

\* What the heating works towards once the tick is done.
Aim == IF user.hold.sp THEN HeldAt ELSE plan.base - Widened(plan.level)

\* A slot passes: a heated room warms, the sun may warm one that is not.
Weather(r, aim) ==
  IF r < aim THEN {q \in Rooms : q \in {r + 1, r + 2}}
  ELSE {q \in Rooms : q \in {r - 1, r, r + 1}}

\* _stage_schedule_gate, _stage_schedule_presence and _stage_presence_level.
Tick(r, u, since, home, people) ==
  LET st    == Verdicts[windows][now']
      flip  == presence.home \notin {None, "unknown"} /\ home # "unknown" /\ home # presence.home
      timed == Expired(u, flip)
      away  == timed.preset = "away" \/ home = "away"
      target == BaseOf(IF away THEN NoPreset ELSE timed.preset)
      p     == PlanPreheat(r, target, st, away)
      ends  == p.preheating /\ ~ latches.preheating /\ target > HeldAt
      absent == Absence(since, people, st.is_comfort /\ ~ p.preheating)
      level == Level(home, absent, st, p.preheating)
  IN  /\ user' = [timed EXCEPT !.hold = EndAtPreheat(@, "schedule", ends)]
      /\ latches' = [preheating |-> p.preheating, coasting |-> p.coasting]
      /\ presence' = [home |-> home, absent |-> absent]
      /\ plan' = [base |-> p.base, preheating |-> p.preheating, coasting |-> p.coasting,
                  level |-> level]
      \* Remembered: whether nothing has disturbed the plan since it could start, the time
      \* the room has been empty in an open window, whether this window has been warm.
      /\ ghost' = [ghost EXCEPT
           !.quiet = IF st.is_comfort \/ away \/ u.hold.sp \/ timed.preset # user.preset THEN 0
                     ELSE Min({@ + 1, MaxLead + 1}),
           !.vacant = IF people = "out" /\ st.is_comfort /\ ~ p.preheating
                      THEN Min({@ + 1, AbsenceAfter}) ELSE 0,
           !.warm = st.is_comfort /\ (@ \/ r >= target - CoastReady)]

\* A timer tick, a slot later.
TimerTick ==
  /\ Pass(1)
  /\ \E r \in Weather(room, Aim), home \in Homes, people \in People :
       /\ room' = r
       /\ Tick(r, AgedUser(user, 1),
               IF presence.absent = None THEN None ELSE Min({presence.absent + 1, AbsenceAfter}),
               home, people)

\* set_preset, from the climate entity.
ChoosePreset(p) ==
  /\ user' = SetPreset(user, p)
  /\ ghost' = [ghost EXCEPT !.chosen = IF p = "boost" THEN @ ELSE p, !.quiet = 0]
  /\ UNCHANGED <<windows, now, room, latches, presence, plan>>

\* set_override, from the climate entity, and its end by the user.
TakeHold ==
  /\ user' = [user EXCEPT !.hold = SetOverride(@, "schedule", SwitchPoints[windows][now])]
  /\ ghost' = [ghost EXCEPT !.quiet = 0]
  /\ UNCHANGED <<windows, now, room, latches, presence, plan>>
DropHold ==
  /\ user.hold.sp
  /\ user' = [user EXCEPT !.hold = ClearOverride(@)]
  /\ UNCHANGED <<windows, now, room, latches, presence, plan, ghost>>

\* A restart keeps what the user chose; latches and presence start afresh, and
\* so do the ghosts that are about an undisturbed plan.
Restart ==
  /\ "restart" \in Faults
  /\ latches' = [preheating |-> FALSE, coasting |-> FALSE]
  /\ presence' = [home |-> None, absent |-> None]
  /\ user' = [user EXCEPT !.hold = RestoreHold(@, "schedule", SwitchPoints[windows][now])]
  /\ plan' = [base |-> ComfortBase, preheating |-> FALSE, coasting |-> FALSE, level |-> "comfort"]
  /\ ghost' = [ghost EXCEPT !.quiet = 0, !.vacant = 0]
  /\ UNCHANGED <<windows, now, room>>

PlanInit ==
  /\ room \in Rooms
  /\ user = [preset |-> NoPreset, prev |-> None, boost |-> None, hold |-> NoHold]
  /\ latches = [preheating |-> FALSE, coasting |-> FALSE]
  /\ presence = [home |-> None, absent |-> None]
  /\ plan = [base |-> ComfortBase, preheating |-> FALSE, coasting |-> FALSE, level |-> "comfort"]
  /\ ghost = [chosen |-> NoPreset, quiet |-> 0, vacant |-> 0, warm |-> FALSE]

Init == ClockInit /\ PlanInit

Next == TimerTick \/ (\E p \in Presets : ChoosePreset(p)) \/ TakeHold \/ DropHold \/ Restart

Spec == Init /\ [][Next]_vars

-----------------------------------------------------------------------------
\* Type correctness; the runtime's presets, timers and latches are what they may be.
TypeOK ==
  /\ windows \in Schedules /\ now \in 0 .. Week - 1 /\ room \in Rooms
  /\ user \in [preset : Presets, prev : (Presets \ {"boost"}) \cup {None}, boost : (0 .. BoostFor) \cup {None},
               hold : Hold]
  /\ latches \in [preheating : BOOLEAN, coasting : BOOLEAN]
  /\ presence \in [home : Homes \cup {None}, absent : (0 .. AbsenceAfter) \cup {None}]
  /\ plan.level \in {"comfort", "room_eco", "away"}

\* Boost is given back: while it runs it has an end, and the preset it will be
\* replaced by is the one the user last chose; when it is over that one is back.
BoostIsGivenBack ==
  IF user.preset = "boost" THEN user.boost # None /\ user.prev = ghost.chosen
  ELSE user.preset = ghost.chosen /\ user.boost = None

\* An empty room is set back only after it has been seen empty for the whole hold
\* inside an open comfort window (ADR-0058 N3): not at the opening, for a night
\* in which nobody was there, and not while optimal start still heats for it.
EcoIsEarned == plan.level = "room_eco" => ghost.vacant >= AbsenceAfter

\* Only a room that has been at comfort in this window is let go before its end.
CoastStartsWarm == plan.coasting => ghost.warm

\* The longest preheat warms the coldest room: optimal start looks no further.
HorizonAssumption ==
  /\ MaxLead # 0
  /\ \A p \in Presets, r \in Rooms : BaseOf(p) - r <= MaxLead + 1

\* Optimal start keeps its promise: if nothing has disturbed the zone for as long
\* as the longest preheat takes, the room is at its comfort target, or one level
\* below it, when a window opens, whenever in the week that is.  The level is what the
\* room may still lose in the slot before its lead begins.
ArrivesWarm ==
  [][TimerTick /\ State'.is_comfort /\ ~ State.is_comfort /\ ghost.quiet > MaxLead
       => room' >= BaseOf(user.preset) - 1]_vars
=============================================================================

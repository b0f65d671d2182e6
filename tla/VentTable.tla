----------------------------- MODULE VentTable -----------------------------
(***************************************************************************)
(* The ventilation advice of comfort/ventilation.py: one verdict per tick, *)
(* by precedence, over the air inside and outside, the walls, the window   *)
(* contact and the advice that stood on the previous tick.  The readings   *)
(* are cut at the thresholds the rules compare them with.                  *)
(***************************************************************************)
EXTENDS Naturals, Sequences, FiniteSets, FiniteSetsExt

CONSTANTS
  FreeCoolZone,    \* the device has neither a cooling mode nor a fan
  Airs             \* the states of the air a model draws from

\* What the rules tell apart about one moment.
\*   gap    absolute humidity inside minus outside: below the muggy guard,
\*          nothing to gain, below the exit, between exit and entry, above
\*   vapour below the dryness veto, in between, above both moisture limits
\*   wet    48-hour mean of the surface humidity within the mould margin
\*   near   that mean within the guard margin of the critical humidity
\*   over   room humidity above the safe ceiling
\*   warmer the temperature the fabric requires against the cooling edge
\*   engaged  the dose model enforces a floor     cold  room at that floor
\*   binds  the floor costs heat or is capped
\*   lift   outside cooler than the room: by less than the exit, the entry
AllAirs ==
  [gap : {"unknown", "muggy", "none", "low", "mid", "high"},
   vapour : {"dry", "plain", "moist"}, wet : BOOLEAN, near : BOOLEAN,
   over : BOOLEAN, warmer : {"no", "hold", "yes"}, engaged : BOOLEAN,
   cold : BOOLEAN, binds : BOOLEAN, occupied : BOOLEAN, co2 : BOOLEAN,
   warm : BOOLEAN, lift : {"none", "hold", "on"}]

\* What the constants must be: assumed where they get their values.
AirsAssumption == Airs \subseteq AllAirs

ProtectionOpen == {"mold_risk", "moisture_protect"}
ProtectionClose == {"mold_guard", "thermal_floor"}
Protection == ProtectionOpen \cup ProtectionClose
ComfortOpen == {"moisture_out", "co2", "heat_out"}
OtherReasons == {"too_dry", "cooled_off", "target_reached", "no_gain", "no_data"}
TableReasons == Protection \cup ComfortOpen \cup OtherReasons
Actions == {"idle", "open", "close", "discourage"}
Levels == {"ok", "warn", "alert"}

Verdict(action, reason, level) ==
  [action |-> action, reason |-> reason, level |-> level]

\* The advice of the tick before: whether it was to open, and for what.
NoAdvice == [active |-> FALSE, reason |-> ""]
Anchors == {NoAdvice} \cup
  {[active |-> r \in ProtectionOpen \cup ComfortOpen, reason |-> r] : r \in TableReasons}
----------------------------------------------------------------------------
OutsideDrier(a) == a.gap \in {"low", "mid", "high"}

\* Entry above delta_on, hold above delta_off.
Gain(a, held) == a.gap = "high" \/ (held /\ a.gap = "mid")

\* The comparison composed in diagnostics/shadows.py: the enforced floor has
\* reached the cooling edge.
EdgeProtected(a) == a.engaged /\ a.warmer = "yes"

\* The ungated requirement, with the release hysteresis of the guard.
NeedsWarmer(a, prev) ==
  a.warmer = "yes" \/ (prev.reason = "mold_guard" /\ a.warmer = "hold")

MoistureReason(a, prev) ==
  /\ a.occupied /\ Gain(a, prev.active) /\ a.vapour = "moist"
  /\ ~EdgeProtected(a)

ProtectReason(a, prev) ==
  /\ a.over /\ Gain(a, prev.reason = "moisture_protect")
  /\ ~EdgeProtected(a)

ComfortStandsDown(a, prev) ==
  prev.reason \in {"moisture_out", "mold_risk"} /\ MoistureReason(a, prev)

\* The guard stands down while an airing this advice asked for still holds.
OwnAiring(a, prev) ==
  \/ prev.reason \in {"moisture_out", "mold_risk"} /\ MoistureReason(a, prev)
  \/ prev.reason = "moisture_protect" /\ ProtectReason(a, prev)

HeatOut(a, prev) ==
  /\ a.gap \notin {"unknown", "muggy"} /\ FreeCoolZone
  /\ ~EdgeProtected(a) /\ ~a.near /\ a.warm
  /\ a.lift = "on" \/ (prev.reason = "heat_out" /\ a.lift = "hold")

MoldGuard(a, open, prev) ==
  open /\ ~OwnAiring(a, prev) /\ NeedsWarmer(a, prev) /\ a.over

AtFloor(a) == a.engaged /\ a.cold

\* The precedence, top down: a rule and the verdict it gives.
Rules(a, open, prev) ==
  << <<a.wet /\ OutsideDrier(a),
       Verdict("open", "mold_risk", IF a.binds THEN "alert" ELSE "warn")>>,
     <<MoldGuard(a, open, prev), Verdict("close", "mold_guard", "warn")>>,
     <<a.vapour = "dry" /\ OutsideDrier(a),
       Verdict(IF open THEN "close" ELSE "discourage", "too_dry", "warn")>>,
     <<open /\ AtFloor(a), Verdict("close", "thermal_floor", "warn")>>,
     <<ProtectReason(a, prev), Verdict("open", "moisture_protect", "warn")>>,
     <<open /\ prev.reason = "moisture_protect" /\ ~MoistureReason(a, prev),
       Verdict("close", "target_reached", "ok")>>,
     <<HeatOut(a, prev), Verdict("open", "heat_out", "ok")>>,
     <<MoistureReason(a, prev), Verdict("open", "moisture_out", "ok")>>,
     <<a.occupied /\ a.co2, Verdict("open", "co2", "ok")>>,
     <<open /\ prev.reason = "heat_out", Verdict("close", "cooled_off", "ok")>>,
     <<open /\ a.gap \notin {"unknown", "mid", "high"},
       Verdict("close", "target_reached", "ok")>>,
     <<TRUE, Verdict("idle", IF a.gap = "unknown" THEN "no_data" ELSE "no_gain", "ok")>> >>

ventilation_advise(a, open, prev) ==
  LET rules == Rules(a, open, prev)
  IN rules[Min({i \in DOMAIN rules : rules[i][1]})][2]

\* What the table can answer, by the window and the advice it is asked with.
Answers ==
  [open \in BOOLEAN |->
     [prev \in Anchors |-> {ventilation_advise(a, open, prev) : a \in Airs}]]
=============================================================================

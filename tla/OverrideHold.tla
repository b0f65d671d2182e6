------------------------------ MODULE OverrideHold ------------------------------
(***************************************************************************)
(* The manual hold of a zone (control/override_runtime.py): a setpoint the *)
(* user asked for, a device mode taken over from the user, or both, with   *)
(* one shared lifecycle -- when it was set, when it ends, where it came    *)
(* from.                                                                   *)
(*                                                                         *)
(* Stamps are kept relative to now: the age of override_set_wall, and the  *)
(* time left until override_expires_at.  Of the held setpoint only its     *)
(* presence matters.                                                       *)
(***************************************************************************)
EXTENDS Integers

CONSTANTS
  Modes,      \* the hvac modes there are
  Policies,   \* override_policy: which of them the user may choose
  TimerFor,   \* override_timer_h
  MaxFor,     \* override_max_h
  Points,     \* what the schedule may say of the time to its next switchpoint
  None

ASSUME HoldAssumption ==
  /\ Policies \subseteq {"schedule", "timer", "permanent"}
  /\ TimerFor \in Nat \ {0} /\ MaxFor \in Nat \ {0}
  /\ Points \subseteq Nat \cup {None}
  /\ None \notin Int /\ None \notin Modes /\ None \notin {"ui_setpoint", "device_adopt_mode"}

Longest == IF TimerFor > MaxFor THEN TimerFor ELSE MaxFor

Hold ==
  [sp : BOOLEAN, mode : Modes \cup {None},
   set : (0 .. Longest) \cup {None}, left : (0 .. Longest) \cup {None}, point : BOOLEAN,
   origin : {"ui_setpoint", "device_adopt_mode", None}]

NoHold == [sp |-> FALSE, mode |-> None, set |-> None, left |-> None, point |-> FALSE,
           origin |-> None]

Held(h) == h.sp \/ h.mode # None

Lesser(a, b) == IF a < b THEN a ELSE b
\* Seeded fault: an expiry may lie in the past.
LessUnbounded(a, b) == a - b
Less(a, b) == IF a > b THEN a - b ELSE 0

AgedHold(h, d) ==
  [h EXCEPT !.set = IF @ = None THEN None ELSE Lesser(@ + d, Longest),
            !.left = IF @ = None THEN None ELSE Less(@, d)]

IsPoint(mins) == mins # None /\ mins > 0

\* resolve_hold_expiry, counted from the moment the hold is set.
ResolveHoldExpiry(policy, mins) ==
  CASE policy = "permanent" -> None
    [] policy = "schedule" -> Lesser(IF IsPoint(mins) THEN mins ELSE TimerFor, MaxFor)
    [] OTHER -> TimerFor

\* _announce_hold_expiry
Announce(h, policy, mins) ==
  [h EXCEPT !.set = 0,
            !.left = ResolveHoldExpiry(policy, mins),
            !.point = policy = "schedule" /\ IsPoint(mins) /\ mins <= MaxFor]

SetOverride(h, policy, mins) ==
  [Announce(h, policy, mins) EXCEPT !.sp = TRUE, !.origin = "ui_setpoint"]

\* Seeded fault: the lifecycle goes with the setpoint, whatever it also serves.
ClearOverrideStrips(h) == [NoHold EXCEPT !.mode = h.mode]

\* set_override(None): the lifecycle outlives the setpoint if a mode needs it.
ClearOverride(h) == IF h.mode = None THEN NoHold ELSE [h EXCEPT !.sp = FALSE]

\* set_mode_override: it joins the lifecycle of a hold that is running.
SetModeOverride(h, m, policy, mins) ==
  LET pinned == [h EXCEPT !.mode = m, !.origin = "device_adopt_mode"]
  IN  IF h.set = None THEN Announce(pinned, policy, mins) ELSE pinned

HoldExpired(h, flip) == flip \/ h.left = 0

\* expire_timed_states; `flip': a presence change that ends holds.
ExpireHold(h, flip) == IF Held(h) /\ HoldExpired(h, flip) THEN NoHold ELSE h

\* hold_ends_at_preheat, on the rising edge towards a target above the held one.
EndAtPreheat(h, policy, preheat) ==
  IF preheat /\ policy = "schedule" /\ h.sp /\ h.point THEN NoHold ELSE h

\* restore: a hold without an expiry gets the one the policy of now gives it.
RestoreHold(h, policy, mins) ==
  LET expiry == ResolveHoldExpiry(policy, mins)
  IN  IF Held(h) /\ h.left = None /\ h.set # None /\ expiry # None
      THEN [h EXCEPT !.left = Less(expiry, h.set)]
      ELSE h
=============================================================================

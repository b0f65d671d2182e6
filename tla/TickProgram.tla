----------------------------- MODULE TickProgram ------------------------------
(***************************************************************************)
(* The order of a zone's tick (ha/tick_orchestrator.py): what is read when,*)
(* which command goes out when, which stamp is folded in when -- with the  *)
(* user, the device and errors in between.  At every await (the forecast,  *)
(* each dispatch, the fan among them, the save) commands of the user, which*)
(* take no lock, and changes at the device may come in; between two awaits *)
(* nothing can.                                                            *)
(*                                                                         *)
(* Values are abstract: a plan is a mode with its setpoint, and Poise knows*)
(* a choice made at the device for what it is (SetpointChannel and         *)
(* ModeChannel are about how).  Throttles may hold back what they may hold *)
(* back, whenever they like.                                               *)
(***************************************************************************)
EXTENDS Integers

CONSTANTS
  Floor,      \* the frost and mould floor of a rescue
  Plans,      \* what the schedule, the room and the weather may ask for: [mode, sp]
  Choices,    \* setpoints a user may choose, at the climate entity or at the device
  Compressor, \* does a compressor guard watch the device?
  Errors,     \* how many dispatches and stages may fail
  None

\* What the constants must be: assumed where they get their values.
PlansAssumption ==
  /\ \A p \in Plans : p.mode \in {"heat", "cool"} /\ p.sp \in Int
  /\ Choices \subseteq Int /\ Compressor \in BOOLEAN /\ Errors \in Nat
  /\ None \notin Int /\ None \notin {"heat", "cool", "off"}

VARIABLES
  pc,      \* where the tick is; it waits at the labels of Awaits
  tick,    \* what the tick has read and decided so far
  user,    \* enabled, the held setpoint (override), the held mode (mode_override)
  ledger,  \* last_commanded_hvac, last_cmd_sp, last_written_mode (the regime)
  dev,     \* mode and setpoint of the device
  hand,    \* what the user has chosen at the device and no tick has decided on
  errors,  \* errors so far
  ghost    \* what the properties need to remember

vars == <<pc, tick, user, ledger, dev, hand, errors, ghost>>

Awaits == {"idle", "forecast", "nudge", "fan", "setpoint", "rescue", "save"}
Setpoints == {p.sp : p \in Plans} \cup Choices
Modes == {"heat", "cool", "off"}
Nothing == [mode |-> None, sp |-> None]
NoTick == [final |-> None, mode |-> None, sp |-> None, seen |-> Nothing, hand |-> Nothing,
           held |-> FALSE, resumed |-> FALSE, nudged |-> FALSE, blocked |-> FALSE, ok |-> FALSE]

Holds(u) == u.override # None \/ u.mode # None

\* end_hold
EndHold(u) == [u EXCEPT !.override = None, !.mode = None]

\* What a step fires on the bus: poise_override_ended, or nothing.
Fires(e) == ghost' = [ghost EXCEPT !.event = e]
Quiet == Fires(FALSE)

Goto(label) == pc' = label

-----------------------------------------------------------------------------
(* Prepare, up to the forecast, and the decisions behind it *)

Begin ==
  /\ pc = "idle" /\ Goto("forecast") /\ Quiet
  /\ UNCHANGED <<tick, user, ledger, dev, hand, errors>>

\* expire_timed_states: a hold may be over.
Expire(u, over) == IF over /\ Holds(u) THEN EndHold(u) ELSE u

\* stage_hold_routing: a device held off that runs under a context not Poise's own.
IsResumed(u, own) == u.mode = "off" /\ dev.mode # "off" /\ ~ own

\* resume_prepare, up to the branch: THE read of the device.  The setpoint of a
\* hold replaces the planned one; final_mode is the plan's or what the hold calls for.
Resume(plan, over, own, dir) ==
  LET alive == Expire(user, over)
      back  == IF IsResumed(alive, own) THEN EndHold(alive) ELSE alive
      manual == alive.override # None
  IN  /\ pc = "forecast"
      /\ hand.mode # None \/ hand.sp # None => ~ own
      /\ user' = back
      /\ tick' = [NoTick EXCEPT !.final = IF manual THEN dir ELSE plan.mode,
                                !.sp = IF manual THEN alive.override ELSE plan.sp,
                                !.seen = dev, !.hand = hand, !.held = back.mode = "off",
                                !.resumed = IsResumed(alive, own)]
      /\ Goto(IF back.enabled /\ back.mode # "off" THEN "adopt" ELSE "protect")
      /\ Fires(alive # user \/ back # alive)
      /\ UNCHANGED <<ledger, dev, hand, errors>>

-----------------------------------------------------------------------------
(* The mode: adoption and nudge *)

\* stage_mode_adoption: a mode chosen at the device is held, the plan's mode
\* chosen there ends a hold; neither while the window is open or the sensor frozen.
Adopts == tick.hand.mode \notin {None, tick.final} /\ ~ tick.resumed
Realigns == user.mode \notin {None, tick.final} /\ tick.hand.mode = tick.final
Adopted(u, safe) ==
  IF safe THEN u
  ELSE IF Adopts THEN [u EXCEPT !.mode = tick.hand.mode]
  ELSE IF Realigns THEN EndHold(u) ELSE u

\* _stage_mode_nudge up to its dispatch; a re-nudge may be throttled.
AdoptMode(safe, guarded, throttled) ==
  LET next  == Adopted(user, safe)
      wants == IF next.mode # None /\ ~ safe THEN next.mode ELSE tick.final
      needs == tick.seen.mode # wants
      held  == guarded /\ needs /\ Compressor /\ next.override = None /\ ~ safe
  IN  /\ pc = "adopt"
      /\ throttled => ledger.mode = wants
      /\ user' = next
      /\ hand' = IF hand.mode = tick.hand.mode THEN [hand EXCEPT !.mode = None] ELSE hand
      /\ tick' = [tick EXCEPT !.mode = wants, !.blocked = held,
                              !.nudged = needs /\ ~ held /\ ~ throttled]
      /\ Goto(IF tick'.nudged THEN "dispatch_mode" ELSE "fan")
      /\ Fires(~ safe /\ ~ Adopts /\ Realigns)
      /\ UNCHANGED <<ledger, dev, errors>>

\* run_mode_nudge: dispatched, or the call raises and the tick goes on.
DispatchMode(ok) ==
  /\ pc = "dispatch_mode"
  /\ ok \/ errors < Errors
  /\ errors' = IF ok THEN errors ELSE errors + 1
  /\ tick' = [tick EXCEPT !.ok = ok]
  /\ dev' = IF ok THEN [dev EXCEPT !.mode = tick.mode] ELSE dev
  /\ ghost' = [ghost EXCEPT !.event = FALSE, !.moved = IF ok THEN FALSE ELSE @]
  /\ Goto("nudge")
  /\ UNCHANGED <<user, ledger, hand>>

\* Seeded fault: the stamp is set for the attempt.
CommitModeAttempt == tick.mode

CommitMode == IF tick.ok THEN tick.mode ELSE ledger.mode

NudgeDone ==
  /\ pc = "nudge"
  /\ ledger' = [ledger EXCEPT !.mode = CommitMode]
  /\ Goto("fan") /\ Quiet
  /\ UNCHANGED <<tick, user, dev, hand, errors>>

\* _stage_fan_write: its command is FanFirst's, and its errors are swallowed; what
\* matters here is that a tick with a fan to move waits once more.  One without is
\* as one in which nobody comes in.
FanDone ==
  /\ pc = "fan" /\ Goto("observe") /\ Quiet
  /\ UNCHANGED <<tick, user, ledger, dev, hand, errors>>

-----------------------------------------------------------------------------
(* The setpoint: observation, adoption, the write *)

ModeChanged == tick.final # ledger.regime

\* The regulation throttle reads the hold after the nudge; a repetition of the
\* command in force may be suppressed; neither when the mode changes.
MayBeThrottled ==
  /\ ~ ModeChanged
  /\ (~ tick.nudged /\ user.override = None) \/ tick.sp = ledger.sp

OffNow == user.mode = "off"

\* plan_setpoint_write
Writes(adopted, throttled) ==
  /\ ~ adopted /\ ~ OffNow /\ ~ tick.blocked /\ ~ throttled
  /\ ModeChanged \/ tick.seen.sp # tick.sp

\* stage_setpoint_observe, stage_setpoint_adopt, _stage_setpoint_write to its dispatch.
Observe(throttled) ==
  LET adopted == tick.hand.sp # None
  IN  /\ pc = "observe"
      /\ throttled => MayBeThrottled
      /\ user' = IF adopted THEN [user EXCEPT !.override = tick.hand.sp] ELSE user
      /\ hand' = IF hand.sp = tick.hand.sp THEN [hand EXCEPT !.sp = None] ELSE hand
      /\ Goto(IF Writes(adopted, throttled) THEN "dispatch_sp" ELSE "save")
      /\ ghost' = [ghost EXCEPT !.event = FALSE, !.parted = @ \/ adopted]
      /\ UNCHANGED <<tick, ledger, dev, errors>>

DispatchSetpoint(ok) ==
  /\ pc = "dispatch_sp"
  /\ ok \/ errors < Errors
  /\ errors' = IF ok THEN errors ELSE errors + 1
  /\ tick' = [tick EXCEPT !.ok = ok]
  /\ dev' = IF ok THEN [dev EXCEPT !.sp = tick.sp] ELSE dev
  /\ ghost' = [ghost EXCEPT !.event = FALSE, !.parted = ~ ok]
  /\ Goto("setpoint")
  /\ UNCHANGED <<user, ledger, hand>>

SetpointDone ==
  /\ pc = "setpoint"
  /\ ledger' = IF tick.ok THEN [ledger EXCEPT !.sp = tick.sp, !.regime = tick.final] ELSE ledger
  /\ Goto("save") /\ Quiet
  /\ UNCHANGED <<tick, user, dev, hand, errors>>
-----------------------------------------------------------------------------
(* A zone that is switched off, or held off: the rescue *)

\* _stage_frost_rescue: two dispatches, each of which may fail for itself.
Rescue(modeOk, spOk) ==
  /\ pc = "protect"
  /\ (modeOk /\ spOk) \/ errors < Errors
  /\ errors' = IF modeOk /\ spOk THEN errors ELSE errors + 1
  /\ dev' = [mode |-> IF modeOk THEN "heat" ELSE dev.mode, sp |-> IF spOk THEN Floor ELSE dev.sp]
  /\ tick' = [tick EXCEPT !.mode = IF modeOk THEN "heat" ELSE None, !.ok = spOk]
  /\ ghost' = [ghost EXCEPT !.event = FALSE, !.moved = IF modeOk THEN FALSE ELSE @]
  /\ Goto("rescue")
  /\ UNCHANGED <<user, ledger, hand>>

\* The commit, and the end of the hold the rescue overrules, whatever it has become.
RescueDone ==
  /\ pc = "rescue"
  /\ ledger' = [ledger EXCEPT !.mode = IF tick.mode = "heat" THEN "heat" ELSE @,
                              !.sp = IF tick.ok THEN None ELSE @]
  /\ user' = IF tick.held THEN EndHold(user) ELSE user
  /\ Fires(tick.held)
  /\ Goto("save")
  /\ UNCHANGED <<tick, dev, hand, errors>>

NoRescue ==
  /\ pc = "protect" /\ Goto("save") /\ Quiet
  /\ UNCHANGED <<tick, user, ledger, dev, hand, errors>>

Done ==
  /\ pc = "save" /\ Goto("idle") /\ Quiet
  /\ tick' = NoTick
  /\ UNCHANGED <<user, ledger, dev, hand, errors>>

\* A stage raises: the tick ends where it is, what it has changed stays changed.
Abort ==
  /\ pc \in {"adopt", "observe", "protect"} /\ errors < Errors
  /\ errors' = errors + 1 /\ Goto("idle") /\ tick' = NoTick /\ Quiet
  /\ UNCHANGED <<user, ledger, dev, hand>>

-----------------------------------------------------------------------------
(* The user, at the entity and at the device, whenever the tick waits *)

Waits == pc \in Awaits

\* set_override
SetOverride(v) ==
  /\ Waits
  /\ user' = [user EXCEPT !.override = v]
  /\ Quiet
  /\ UNCHANGED <<pc, tick, ledger, dev, hand, errors>>

\* set_override(None): the end is told only if no held mode keeps the hold alive.
ClearsHold(u) == u.override # None /\ u.mode = None

\* poise.resume_schedule; selecting a mode at the entity also switches the zone on.
ClearOverride(select) ==
  /\ Waits
  /\ user' = [user EXCEPT !.override = None, !.enabled = @ \/ select]
  /\ Fires(ClearsHold(user))
  /\ UNCHANGED <<pc, tick, ledger, dev, hand, errors>>

SetEnabled(value) ==
  /\ Waits /\ user.enabled # value
  /\ user' = [user EXCEPT !.enabled = value] /\ Quiet
  /\ UNCHANGED <<pc, tick, ledger, dev, hand, errors>>

\* A turn of the wheel, the remote control.
Turn(v) ==
  /\ Waits /\ v # dev.sp
  /\ dev' = [dev EXCEPT !.sp = v] /\ hand' = [hand EXCEPT !.sp = v]
  /\ ghost' = [ghost EXCEPT !.event = FALSE, !.parted = TRUE]
  /\ UNCHANGED <<pc, tick, user, ledger, errors>>

Switch(m) ==
  /\ Waits /\ m # dev.mode
  /\ dev' = [dev EXCEPT !.mode = m] /\ hand' = [hand EXCEPT !.mode = m]
  /\ ghost' = [ghost EXCEPT !.event = FALSE, !.moved = TRUE]
  /\ UNCHANGED <<pc, tick, user, ledger, errors>>

Init ==
  /\ pc = "idle" /\ tick = NoTick
  /\ user = [enabled |-> TRUE, override |-> None, mode |-> None]
  /\ ledger = [mode |-> None, sp |-> None, regime |-> None]
  /\ dev \in [mode : Modes, sp : {Floor}]
  /\ hand = Nothing /\ errors = 0
  /\ ghost = [event |-> FALSE, moved |-> TRUE, parted |-> FALSE]

Next ==
  \/ Begin
  \/ \E plan \in Plans, over, own \in BOOLEAN, dir \in {"heat", "cool"} :
       Resume(plan, over, own, dir)
  \/ \E safe, guarded, throttled \in BOOLEAN : AdoptMode(safe, guarded, throttled)
  \/ \E ok \in BOOLEAN : DispatchMode(ok) \/ DispatchSetpoint(ok)
  \/ NudgeDone \/ FanDone \/ SetpointDone
  \/ \E throttled \in BOOLEAN : Observe(throttled)
  \/ \E modeOk, spOk \in BOOLEAN : Rescue(modeOk, spOk)
  \/ RescueDone \/ NoRescue \/ Done \/ Abort
  \/ \E v \in Choices : SetOverride(v) \/ Turn(v)
  \/ \E yes \in BOOLEAN : ClearOverride(yes) \/ SetEnabled(yes)
  \/ \E m \in {"off", "heat"} : Switch(m)

Spec == Init /\ [][Next]_vars

-----------------------------------------------------------------------------
\* Type correctness: what a tick carries from stage to stage, the ledger and the
\* device keep their types, and nothing but an await leaves a tick waiting.
TypeOK ==
  /\ pc \in Awaits \cup {"adopt", "dispatch_mode", "observe", "dispatch_sp", "protect"}
  /\ user \in [enabled : BOOLEAN, override : Choices \cup {None},
              mode : Modes \cup {None}]
  /\ ledger \in [mode : Modes \cup {None}, sp : Setpoints \cup {None},
                 regime : {"heat", "cool", None}]
  /\ dev \in [mode : Modes, sp : Setpoints \cup {Floor}]
  /\ hand \in [mode : Modes \cup {None}, sp : Choices \cup {None}] /\ errors \in 0 .. Errors
  /\ tick.mode \in Modes \cup {None} /\ tick.sp \in Setpoints \cup {None}

\* The echo baseline tells the truth: the mode Poise believes it commanded is the
\* device's mode unless somebody moved the device since; a dispatch that raised
\* leaves no stamp that would pass for a command.
LedgerMatchesDevice ==
  pc \notin {"nudge", "rescue"} => dev.mode = ledger.mode \/ ghost.moved

\* A mode change carries its setpoint: a tick that has switched the device over
\* and sends nothing more leaves it at the setpoint of that mode, unless a
\* dispatch failed or somebody has set the device since Poise last did.
CarriesTheSetpoint ==
  pc = "observe" /\ tick.nudged /\ tick.ok /\ user'.mode # "off" /\ pc' = "save"
    => dev.sp = tick.sp \/ ghost'.parted
ModeCarriesItsSetpoint == [][CarriesTheSetpoint]_vars

\* The tick that learns the device was switched off sends no setpoint after it.
SparesOff == pc' = "setpoint" /\ pc # "setpoint" => user.mode # "off"
NoSetpointIntoOff == [][SparesOff]_vars

\* Every hold that ends is told exactly once, and no end is told of one that goes on.
TellsTheEnd == ghost'.event <=> (Holds(user) /\ ~ Holds(user'))
EventsMatchHolds == [][TellsTheEnd]_vars

\* A setpoint of one regime is never sent to a device Poise left in the other.
RegimesDoNotMix ==
  [][pc = "dispatch_sp" /\ dev'.sp # dev.sp /\ ~ ghost.moved => dev.mode = tick.mode]_vars
=============================================================================

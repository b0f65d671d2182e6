------------------------------ MODULE ModeChannel ------------------------------
(***************************************************************************)
(* The mode channel of a zone: every tick reads the device, takes over a   *)
(* mode the user selected there as a hold (ADR-0059 paragraph 8), or else  *)
(* commands the mode the zone wants.  The zone sees only states, with the  *)
(* Context of whoever caused them if the integration passes it on, and     *)
(* must tell the user's hand from the echo of its own commands.            *)
(*                                                                         *)
(* One unit of time is a tick interval; ages are saturated.                *)
(***************************************************************************)
EXTENDS OverrideHold, Sequences

CONSTANTS
  Supported,   \* hvac_modes of the device
  CanHeat,
  Plans,       \* what the rest of the tick may want of the device
  Window,      \* SETPOINT_ADOPT_ECHO_WINDOW_S
  Reassert,    \* MIN_MODE_REASSERT_INTERVAL_S
  Depth,       \* commands that may be under way at a time
  Faults       \* which of FaultKinds may happen

\* The resolved mode of the tick, and whether a safety layer is active.
PlanType == [want : Modes, safety : BOOLEAN]

\* A command is lost; it takes longer than a tick; the device vanishes; the
\* zone is reloaded while a command is under way; it is switched off; the tick also
\* writes a setpoint.
FaultKinds == {"lost", "late", "offline", "reload", "disable", "setpoint"}

ASSUME ChannelAssumption ==
  /\ Supported \subseteq Modes
  /\ CanHeat \in BOOLEAN
  /\ Plans \subseteq PlanType
  /\ Window \in Nat \ {0} /\ Reassert \in Nat /\ Window <= Reassert
  /\ Depth \in Nat \ {0}
  /\ Faults \subseteq FaultKinds
  /\ "unavailable" \notin Modes /\ None # "unavailable"

VARIABLES
  up,        \* the zone is set up
  enabled,   \* and not switched off
  policy,    \* override_policy
  plan,      \* what the tick wants
  hold,      \* the manual hold
  lastCmd,   \* last_commanded_hvac
  cmdAge,    \* now - last_hvac_cmd_ts
  nudgeAge,  \* now - last_mode_nudge_ts
  prev,      \* prev_device_mode
  mode,      \* the device: its mode,
  online,    \*   is it reachable,
  ctx,       \*   is its state marked with our Context,
  tags,      \*   does its integration pass the Context on
  flight,    \* commands under way
  fresh,     \* history: the user's last choice at the device is undecided
  astray,    \* history: a command or an observation has gone astray
  calm       \* history: the last disturbance is over

vars == <<up, enabled, policy, plan, hold, lastCmd, cmdAge, nudgeAge, prev,
          mode, online, ctx, tags, flight, fresh, astray, calm>>
memory == <<lastCmd, cmdAge, nudgeAge, prev>>
device == <<mode, online, ctx, tags>>
user == <<enabled, policy, plan>>

Fault(f) == f \in Faults /\ ~calm
Stray(f) == Fault(f) /\ ~astray    \* at most one of these

Aged(age, d, cap) == IF age = None THEN None ELSE Lesser(age + d, cap)
-----------------------------------------------------------------------------
(* Observation and adoption (control/external_override.py).                *)

\* What the state of the device reads.
Reading == IF online THEN mode ELSE "unavailable"

\* The window of the last command that changed the mode is open.
InWindow(age) == age # None /\ age < Window

\* Seeded fault: a mode that merely stays where it is counts as a change.
IsUserChangeOrStays(age) ==
  /\ Reading \in Supported \ {plan.want}
  /\ lastCmd # None /\ age # None
  /\ Reading # lastCmd
  /\ ~InWindow(age)

\* mode_adopt_reason = "adopt"
IsUserChange(age) ==
  /\ Reading \in Supported \ {plan.want}
  /\ lastCmd # None /\ age # None
  /\ Reading # lastCmd
  /\ ~InWindow(age)
  /\ prev # Reading

\* observe_mode
Adopts(age, resumed) == ~plan.safety /\ ~ctx /\ ~resumed /\ IsUserChange(age)

\* A hold ends when the user selects what the plan wants.
Realigns(h) ==
  /\ h.mode # None /\ ~plan.safety /\ ~ctx
  /\ Reading = plan.want /\ Reading # h.mode

\* The hold a tick leaves, and the mode it wants of the device.
Adoption(h, age, resumed, mins) ==
  IF Adopts(age, resumed) THEN SetModeOverride(h, Reading, policy, mins)
  ELSE IF Realigns(h) THEN NoHold ELSE h

Desired(h) == IF h.mode # None /\ ~plan.safety THEN h.mode ELSE plan.want

\* freeze_mode_reference
Reference(age) == IF InWindow(age) THEN prev ELSE Reading

\* stage_hold_routing: the user has switched a device back on that was held off.
Resumed(h) == h.mode = "off" /\ ~ctx /\ Reading \notin {"off", "unavailable"}
-----------------------------------------------------------------------------
(* The tick.                                                               *)

\* Seeded faults: the repetition limit is not there, or never over.
Unthrottled(m, age) == FALSE
ThrottledForGood(m, age) == m = lastCmd /\ age # None

Throttled(m, age) == m = lastCmd /\ age # None /\ age < Reassert

NeedsNudge(m, age) ==
  m \in Supported /\ Reading \notin {"unavailable", m} /\ ~Throttled(m, age)

\* Command m, or with None write a setpoint; `own': under our Context.
Command(m, own) == [mode |-> m, own |-> own]
Commands == [mode : Supported \cup {None}, own : BOOLEAN]

\* A regulated zone nudges, unless the compressor guard holds the command back
\* or its dispatch fails, and may write a setpoint.
Regulate(h, age, repeat) == \E held, wrote \in BOOLEAN :
  LET m == Desired(h)
      due == NeedsNudge(m, repeat)
      sends == due /\ ~held
  IN  /\ held => due /\ ~calm
      /\ wrote => h.mode # "off" /\ online /\ Fault("setpoint")
      /\ lastCmd' = IF sends THEN m ELSE lastCmd
      /\ cmdAge' = IF sends /\ m # lastCmd THEN 0 ELSE age
      /\ nudgeAge' = IF sends THEN 0 ELSE repeat
      /\ flight' = flight \o (IF sends THEN <<Command(m, TRUE)>> ELSE <<>>)
                          \o (IF wrote THEN <<Command(None, TRUE)>> ELSE <<>>)
      /\ prev' = Reference(age)
      /\ fresh' = (fresh /\ (InWindow(age) \/ ~online))

\* A zone that is disabled or held off is left alone, but for frost.
Rescue(age, repeat, rescues) ==
  LET nudges == rescues /\ mode # "heat" /\ "heat" \in Supported
  IN  /\ lastCmd' = IF nudges THEN "heat" ELSE lastCmd
      /\ cmdAge' = IF nudges THEN 0 ELSE age
      /\ nudgeAge' = repeat
      /\ flight' = IF nudges THEN Append(flight, Command("heat", FALSE)) ELSE flight
      /\ UNCHANGED <<prev, fresh>>

\* A refresh of the zone, d after the last one.
Tick(d) ==
  /\ up
  /\ \E flip, preheat, rescues \in BOOLEAN, mins \in Points :
       LET age == Aged(cmdAge, d, Window)
           repeat == Aged(nudgeAge, d, Reassert)
           lasting == EndAtPreheat(ExpireHold(AgedHold(hold, d), flip), policy, preheat)
           resumed == Resumed(lasting)
           routed == IF resumed THEN NoHold ELSE lasting
       IN  /\ calm => ~flip /\ ~preheat /\ ~rescues
           /\ rescues => CanHeat /\ online /\ (~enabled \/ routed.mode = "off")
           /\ IF enabled /\ routed.mode # "off"
              THEN /\ hold' = Adoption(routed, age, resumed, mins)
                   /\ Regulate(hold', age, repeat)
              ELSE /\ hold' = IF rescues /\ routed.mode = "off" THEN NoHold ELSE routed
                   /\ Rescue(age, repeat, rescues)
  /\ Len(flight') <= Depth
  /\ UNCHANGED <<up, user, device, astray, calm>>

\* The next interval begins when the device has caught up, unless it is late.
TimerTick ==
  /\ flight = <<>> \/ (Fault("late") /\ InWindow(Aged(cmdAge, 1, Window)))
  /\ Tick(1)
EventTick == Tick(0)

\* resolve_safe_state: heat if the device can, else off.
SafeMode == IF "heat" \in Supported THEN "heat" ELSE "off"

\* A tick without a room temperature neither observes nor expires anything;
\* when the loss lasts, it commands the safe state.
BlindTick ==
  /\ up /\ ~calm /\ flight = <<>>
  /\ hold' = AgedHold(hold, 1)
  /\ cmdAge' = Aged(cmdAge, 1, Window)
  /\ nudgeAge' = Aged(nudgeAge, 1, Reassert)
  /\ \/ UNCHANGED <<lastCmd, flight, astray>>
     \/ /\ ~astray /\ Reading \notin {"unavailable", SafeMode} /\ SafeMode \in Supported
        /\ lastCmd' = SafeMode
        /\ flight' = Append(flight, Command(SafeMode, FALSE)) /\ astray' = TRUE
  /\ UNCHANGED <<up, user, prev, device, fresh, calm>>
-----------------------------------------------------------------------------
(* The user and the plan.                                                  *)

\* At the device, with a remote or its own app.
UserSelects ==
  /\ ~calm /\ online
  /\ \E m \in Supported \ {mode} : mode' = m
  /\ ctx' = FALSE /\ fresh' = TRUE
  /\ UNCHANGED <<up, user, hold, memory, online, tags, flight, astray, calm>>

\* At the zone's entity: a setpoint,
SetTemperature ==
  /\ up /\ ~calm
  /\ \E mins \in Points : hold' = SetOverride(hold, policy, mins)
  /\ UNCHANGED <<up, user, memory, device, flight, fresh, astray, calm>>

\* an end of the hold (poise.resume_schedule, the card's X),
Resume ==
  /\ up /\ ~calm
  /\ hold' = ClearOverride(hold)
  /\ UNCHANGED <<up, user, memory, device, flight, fresh, astray, calm>>

\* an active mode,
SelectActiveMode ==
  /\ up /\ ~calm
  /\ enabled' = TRUE
  /\ hold' = ClearOverride(hold)
  /\ plan' \in Plans
  /\ UNCHANGED <<up, policy, memory, device, flight, fresh, astray, calm>>

\* off, or on again as it was (climate.turn_off, turn_on).
Toggle ==
  /\ up /\ Fault("disable")
  /\ enabled' = ~enabled
  /\ UNCHANGED <<up, policy, plan, hold, memory, device, flight, fresh, astray, calm>>

ChangePolicy ==
  /\ ~calm
  /\ policy' \in Policies \ {policy}
  /\ UNCHANGED <<up, enabled, plan, hold, memory, device, flight, fresh, astray, calm>>

PlanChanges ==
  /\ ~calm
  /\ plan' \in Plans \ {plan}
  /\ UNCHANGED <<up, enabled, policy, hold, memory, device, flight, fresh, astray, calm>>
-----------------------------------------------------------------------------
(* The device.                                                             *)

\* A command arrives.  A state that is not written anew keeps its Context.
Land ==
  /\ flight # <<>> /\ online
  /\ LET c == Head(flight)
         moves == c.mode \notin {None, mode}
     IN  /\ mode' = IF moves THEN c.mode ELSE mode
         /\ ctx' = IF moves \/ c.mode = None THEN c.own /\ tags ELSE ctx
         /\ fresh' = (fresh /\ ~moves)
  /\ flight' = Tail(flight)
  /\ UNCHANGED <<up, user, hold, memory, online, tags, astray, calm>>

\* An attribute changes (the current temperature, say): the state is written
\* anew, and nobody's Context marks it.
Reports ==
  /\ online /\ ctx
  /\ ctx' = FALSE
  /\ UNCHANGED <<up, user, hold, memory, mode, online, tags, flight, fresh, astray, calm>>

Lost ==
  /\ flight # <<>>
  /\ Stray("lost") \/ ~online
  /\ flight' = Tail(flight) /\ astray' = TRUE
  /\ UNCHANGED <<up, user, hold, memory, device, fresh, calm>>

Vanishes ==
  /\ Stray("offline") /\ online
  /\ online' = FALSE /\ ctx' = FALSE /\ astray' = TRUE
  /\ UNCHANGED <<up, user, hold, memory, mode, tags, flight, fresh, calm>>

Returns ==
  /\ ~online
  /\ online' = TRUE
  /\ UNCHANGED <<up, user, hold, memory, mode, ctx, tags, flight, fresh, astray, calm>>
-----------------------------------------------------------------------------
(* Restarts.  An orderly stop saves; the store holds the hold and the      *)
(* baselines, stamps and Contexts are lost.                                *)

Stop ==
  /\ up /\ ~calm
  /\ flight = <<>> \/ Stray("reload")
  /\ up' = FALSE /\ astray' = (astray \/ flight # <<>>)
  /\ UNCHANGED <<user, hold, memory, device, flight, fresh, calm>>

Start ==
  /\ ~up
  /\ up' = TRUE
  /\ \E mins \in Points : hold' = RestoreHold(hold, policy, mins)
  /\ cmdAge' = IF lastCmd = None THEN None ELSE Window
  /\ nudgeAge' = None
  /\ ctx' = FALSE
  /\ UNCHANGED <<user, lastCmd, prev, mode, online, tags, flight, fresh, astray, calm>>

Elapse ==
  /\ ~up
  /\ hold' = AgedHold(hold, 1)
  /\ UNCHANGED <<up, user, memory, device, flight, fresh, astray, calm>>

CalmDown ==
  /\ ~calm
  /\ calm' = TRUE
  /\ UNCHANGED <<up, user, hold, memory, device, flight, fresh, astray>>
-----------------------------------------------------------------------------
Init ==
  /\ up = FALSE /\ enabled = TRUE
  /\ policy \in Policies /\ plan \in Plans
  /\ hold = NoHold
  /\ lastCmd = None /\ cmdAge = None /\ nudgeAge = None /\ prev = None
  /\ mode \in Supported /\ online = TRUE /\ ctx = FALSE /\ tags \in BOOLEAN
  /\ flight = <<>>
  /\ fresh = FALSE /\ astray = FALSE /\ calm = FALSE

Next ==
  \/ TimerTick \/ EventTick \/ BlindTick
  \/ UserSelects \/ SetTemperature \/ Resume \/ SelectActiveMode \/ Toggle
  \/ ChangePolicy \/ PlanChanges
  \/ Land \/ Reports \/ Lost \/ Vanishes \/ Returns
  \/ Stop \/ Start \/ Elapse

Spec == Init /\ [][Next]_vars

\* The timer fires, an enabled entry is set up, a device that vanished comes
\* back, a command arrives.
FairSpec ==
  /\ Init /\ [][Next \/ CalmDown]_vars
  /\ WF_vars(TimerTick) /\ WF_vars(Start) /\ WF_vars(Returns) /\ WF_vars(Land)
-----------------------------------------------------------------------------
TypeOK ==
  /\ up \in BOOLEAN /\ enabled \in BOOLEAN
  /\ policy \in Policies /\ plan \in Plans
  /\ hold \in Hold
  /\ lastCmd \in Modes \cup {None}
  /\ cmdAge \in (0 .. Window) \cup {None}
  /\ nudgeAge \in (0 .. Reassert) \cup {None}
  /\ prev \in Modes \cup {None, "unavailable"}
  /\ mode \in Supported /\ online \in BOOLEAN /\ ctx \in BOOLEAN /\ tags \in BOOLEAN
  /\ flight \in Seq(Commands) /\ Len(flight) <= Depth
  /\ fresh \in BOOLEAN /\ astray \in BOOLEAN /\ calm \in BOOLEAN

(***************************************************************************)
(* A hold is whole: whoever set, joined, cleared or restored it, as long   *)
(* as a setpoint or a mode is held it has its stamp and its origin, and    *)
(* nothing of it is left when neither is (field bug of 2026-08-10).        *)
(***************************************************************************)
HoldIsWhole ==
  IF Held(hold) THEN hold.set # None /\ hold.origin # None ELSE hold = NoHold

(***************************************************************************)
(* One choice, one hold: a mode is taken over only if the user has chosen  *)
(* it at the device and no tick has decided on this choice before.  So no  *)
(* late echo of a command becomes a hold, and no hold that ended comes     *)
(* back, over any number of commands, repetitions and restarts.            *)
(***************************************************************************)
Takes == up /\ up' /\ hold'.mode \notin {None, hold.mode}
ChoiceIsTakenOnce == [][ Takes => fresh \/ astray ]_vars

(***************************************************************************)
(* The echo window delays an adoption; it does not undo the choice: while  *)
(* it keeps a choice of the user undecided, the zone does not repeat its   *)
(* command over it (a changed plan may; a rescue stamps no repetition).    *)
(***************************************************************************)
Repeats ==
  /\ up /\ up' /\ lastCmd # None
  /\ \E i \in Len(flight) + 1 .. Len(flight') : flight'[i] = Command(lastCmd, TRUE)
WindowSparesChoice ==
  [][ Repeats /\ fresh /\ ~plan.safety /\ cmdAge = nudgeAge => ~InWindow(cmdAge') ]_vars

(***************************************************************************)
(* Zone and device come to agree: once nobody interferes, the device ends  *)
(* up in the mode the zone wants or holds, and stays there.                *)
(***************************************************************************)
Agreement ==
  (<>calm /\ <>[]enabled) => <>[](mode = Desired(hold) \/ (hold.mode = "off" /\ ctx))

(***************************************************************************)
(* __init__.py:136: poise.resume_schedule is to "clear any active manual   *)
(* override/preset on the targeted room zones", and strings.json:411 calls *)
(* it "Return manual holds to automatic control."                          *)
(***************************************************************************)
ResumeEndsHold == [][ Resume => ~Held(hold') ]_vars
=============================================================================

---------------------------- MODULE SetpointChannel ----------------------------
(***************************************************************************)
(* The setpoint channel of a zone: every tick reads the setpoint the       *)
(* device shows, takes one the user has set there over as a hold, or else  *)
(* writes what the zone wants, unless the same command is no use           *)
(* (control/pipeline_actuate.py, external_override.py, override.py,        *)
(* write_economy.py).  The modes are ModeChannel's, the life of a hold is  *)
(* OverrideHold's; here a hold just ends.                                  *)
(*                                                                         *)
(* Setpoints are steps of the declared grid, of half a Kelvin or more: "in *)
(* the deadband" is equality, "within the tolerance" is one step.  A unit  *)
(* of time is a tick interval; ages are saturated.                         *)
(***************************************************************************)
EXTENDS Integers, Sequences

CONSTANTS
  Top,        \* setpoints are 0 .. Top, 0 is at the frost floor
  Settle,     \* where the device comes to rest after each command
  Default,    \* its setpoint after a reboot
  Plans,      \* what the rest of the tick may want
  Adopt,      \* adopt_external_setpoint
  Period,     \* regulation_period_s of a self-regulating device, else 0
  Window,     \* SETPOINT_ADOPT_ECHO_WINDOW_S
  SettleMin,  \* EPISODE_SETTLE_MIN_S
  Throttle,   \* MIN_SETPOINT_REASSERT_INTERVAL_S
  Liveness,   \* REASSERT_LIVENESS_S
  Depth,      \* commands that may be under way at a time
  Faults,     \* which of FaultKinds may happen
  None

Setpoints == 0 .. Top
Frost == 0

\* The comfort setpoint and the band a hold is clamped to, the resolved mode,
\* whether a safety layer is active, whether the device follows its own schedule.
PlanType == [sp : Setpoints, lo : Setpoints, hi : Setpoints,
             mode : {"heat", "idle", "off"}, safety : BOOLEAN, sched : BOOLEAN]

\* The user at the device and at the entity; a command is lost, or takes longer
\* than a tick; the device vanishes, comes back rebooted, stops listening; the
\* zone is switched off, loses its sensor, commands a mode or defers to its
\* guard; the user turns twice before a command arrives; a tick comes while
\* the device still shows the command before.
FaultKinds == {"user", "lost", "late", "offline", "reboot", "deaf", "restart",
               "disable", "blind", "nudge", "race",
               "midway"}

ASSUME SetpointAssumption ==
  /\ Top \in Nat \ {0} /\ Default \in Setpoints
  /\ Settle \in [Setpoints -> Setpoints]
  /\ Plans \subseteq PlanType /\ \A p \in Plans : p.lo <= p.hi
  /\ Adopt \in BOOLEAN /\ Period \in Nat
  /\ Window \in Nat \ {0} /\ SettleMin \in Nat /\ Throttle \in Nat
  /\ Window <= Throttle /\ SettleMin <= Throttle
  /\ Throttle <= Liveness /\ Period <= Liveness /\ Liveness \in Nat
  /\ Depth \in Nat \ {0} /\ Faults \subseteq FaultKinds
  /\ None \notin Int

VARIABLES
  up, enabled, \* the zone is set up; and not switched off
  plan,        \* what the tick wants
  hold,        \* user.override
  mem,         \* ExternalOverrideRuntime, and last_written_mode
  dev,         \* the device: setpoint, reachable, whose Context marks its state,
               \*   has the state been updated since the last write
  deaf,        \* the device has stopped listening
  flight,      \* commands under way
  fresh,       \* history: the user's last choice at the device is undecided
  astray,      \* history: a command or an observation has gone astray
  calm         \* history: the last disturbance is over

vars == <<up, enabled, plan, hold, mem, dev, deaf, flight, fresh, astray, calm>>
zone == <<up, enabled, plan>>

Fault(f) == f \in Faults /\ ~calm
Stray(f) == Fault(f) /\ ~astray    \* at most one of these

Max2(a, b) == IF a > b THEN a ELSE b
Min2(a, b) == IF a < b THEN a ELSE b
Aged(age, d, cap) == IF age = None THEN None ELSE Min2(age + d, cap)

Fresh == [written |-> None, age |-> None, pre |-> None, prev |-> None,
          cmd |-> None, episode |-> None, mode |-> None]
Older(m, d) == [m EXCEPT !.age = Aged(@, d, Liveness), !.episode = Aged(@, d, SettleMin)]

Command(sp, id) == [sp |-> sp, id |-> id]
\* Who wrote the state of the device: the setpoint command in force, another
\* command under a Context of ours, or someone else.
Marks == {"current", "ours", "foreign"}
Superseded(cs) ==
  [i \in 1 .. Len(cs) |->
     IF cs[i].id = "current" THEN [cs[i] EXCEPT !.id = "ours"] ELSE cs[i]]
-----------------------------------------------------------------------------
(* Observation.                                                            *)

Actual == IF dev.online THEN dev.sp ELSE None
OwnChange == dev.online /\ dev.mark # "foreign"

\* resolve_write_target: window, hold in the band, or comfort.
Target(p, h) ==
  IF p.safety THEN Frost
  ELSE IF h # None THEN Min2(Max2(h, p.lo), p.hi) ELSE p.sp

\* setpoint_adopt_reason.  Seeded fault: what merely stays where it is counts as a
\* change.
InWindow(m) == m.age < Window
ReasonOrStays(m) ==
  IF Actual = None \/ m.written = None \/ m.age = None THEN "no_baseline"
  ELSE IF Actual = m.written THEN "command_echo"
  ELSE IF Actual <= Frost THEN "implausible_frost"
  ELSE IF InWindow(m) /\ m.pre \in {None, Actual} THEN "echo_window"
  ELSE "adopt"
Reason(m) ==
  IF Actual = None \/ m.written = None \/ m.age = None THEN "no_baseline"
  ELSE IF Actual = m.written THEN "command_echo"
  ELSE IF Actual <= Frost THEN "implausible_frost"
  ELSE IF InWindow(m)
       THEN IF m.pre \in {None, Actual} THEN "echo_window" ELSE "adopt"
  ELSE IF m.prev = Actual THEN "stable_offset"
  ELSE "adopt"

\* observe_setpoint: the gates of the glue, then the detector.
Observation(m, p) ==
  IF ~Adopt THEN "opt_out"
  ELSE IF p.sched THEN "schedule_active"
  ELSE IF OwnChange THEN "own_echo"
  ELSE IF p.safety THEN "safety"
  ELSE Reason(m)

\* rebaseline_own_echo, and the end of the episode while the device is away.
Observed(m) ==
  [m EXCEPT !.written = IF OwnChange THEN dev.sp ELSE @,
            !.episode = IF dev.online THEN @ ELSE None]

\* classify_settle in RELEASING.
Releasing(m, reason) ==
  IF OwnChange THEN dev.mark = "current"
  ELSE /\ reason \in {"command_echo", "echo_window", "stable_offset"}
       /\ \/ Actual # None /\ m.cmd # None /\ Actual - m.cmd \in -1 .. 1
          \/ Actual # None /\ Actual = m.prev
-----------------------------------------------------------------------------
(* The write gate (write_economy.py, plan_setpoint_write).                 *)

\* reassert_idempotent.  Seeded fault: the escape V3 is missing.
IdempotentForGood(m, target, changed, reason) ==
  /\ ~changed /\ m.cmd = target
  /\ m.episode # None /\ m.episode >= SettleMin
  /\ Actual # None /\ Actual = m.prev
  /\ Releasing(m, reason)
Idempotent(m, target, changed, reason) ==
  /\ ~changed /\ m.cmd = target
  /\ m.episode # None /\ m.episode >= SettleMin
  /\ Actual # None /\ Actual = m.prev
  /\ Releasing(m, reason)
  /\ m.age # None => m.age < Liveness

\* reassert_throttled.  Seeded fault: the interval is not there.
Unthrottled(m, target, changed) == FALSE
Throttled(m, target, changed) ==
  /\ ~changed /\ m.cmd = target
  /\ m.episode # None /\ m.age # None /\ m.age < Throttle

\* regulation_throttled and its bypasses.
RegThrottled(m, p, h, changed, nudge) ==
  /\ Period > 0 /\ ~changed /\ nudge # "sent" /\ ~p.safety /\ h = None
  /\ m.age # None /\ m.age < Period

\* adopt_setpoint_baselines.
Adopted(m) == [m EXCEPT !.pre = m.written, !.written = Actual, !.age = 0]

\* commit_execution of a setpoint_write.
Written(m, target, p) ==
  [m EXCEPT !.pre = Actual, !.written = target, !.age = 0, !.cmd = target,
            !.episode = IF m.cmd # target \/ @ = None THEN 0 ELSE @, !.mode = p.mode]

\* commit_execution of rescue_write and safe_setpoint: not a regulation command.
OurFloor(m) == [m EXCEPT !.written = None, !.cmd = None]

\* A command is under way, or has arrived, and no tick will see its echo.
Misses ==
  IF flight = <<>> /\ (fresh \/ dev.sp \in {mem.prev, mem.written}) THEN UNCHANGED astray
  ELSE ~astray /\ astray' = TRUE

Send(cs) == flight' = Superseded(flight) \o cs

\* What the tick has found, decided and done.
Verdict(m, p, h, nudge) ==
  LET changed == p.mode # m.mode
      obs == Observed(m)
      reason == Observation(obs, p)
      target == Target(p, h)
      adopts == reason = "adopt"
      idle == Idempotent(obs, target, changed, reason)
      waits == Throttled(obs, target, changed)
  IN [target |-> target, adopts |-> adopts, mem |-> obs,
      writes |-> /\ dev.online /\ ~adopts /\ nudge # "blocked"
                 /\ ~RegThrottled(m, p, h, changed, nudge)
                 /\ ~idle /\ ~waits
                 /\ Actual = None \/ changed \/ Actual # target,
      suppressed |-> idle \/ waits]

\* An enabled tick; a write may be refused by the dispatch.
Regulate(v, nudge, refused) ==
  LET noted == [v.mem EXCEPT !.prev = Actual]
      sends == v.writes /\ ~refused
      nudging == IF nudge = "sent" THEN <<Command(None, "ours")>> ELSE <<>>
  IN  /\ mem' = IF v.adopts THEN Adopted(noted)
                ELSE IF sends THEN Written(noted, v.target, plan)
                ELSE IF v.writes THEN [noted EXCEPT !.pre = Actual] ELSE noted
      /\ IF sends THEN Send(nudging \o <<Command(v.target, "current")>>)
                  ELSE flight' = flight \o nudging
      /\ dev' = IF sends THEN [dev EXCEPT !.newer = FALSE,
                                          !.mark = IF @ = "current" THEN "ours" ELSE @]
                ELSE dev
      /\ fresh' = (fresh /\ ~v.adopts /\ (~dev.online \/ (v.mem.age # None /\ InWindow(v.mem))))

\* A disabled zone: nothing is observed; frost may be averted.
Rescue(m, rescues) ==
  /\ mem' = IF rescues THEN OurFloor(m) ELSE m
  /\ flight' = IF rescues THEN Append(flight, Command(Frost, "foreign")) ELSE flight
  /\ UNCHANGED <<dev, fresh>>

\* What a tick may meet: its hold has expired, the dispatch refuses the write,
\* a disabled zone is rescued from frost, the mode nudge of ModeChannel.
Cases == [expired : BOOLEAN, refused : BOOLEAN, rescues : BOOLEAN,
          nudge : {"no", "sent", "blocked"}]
Undisturbed == [expired |-> FALSE, refused |-> FALSE, rescues |-> FALSE, nudge |-> "no"]
Held(c) == IF c.expired THEN None ELSE hold
Found(d, c) == Verdict(Older(mem, d), plan, Held(c), c.nudge)

\* A refresh of the zone, d after the last one.
Tick(d, c) ==
  /\ up
  /\ c.expired => ~calm /\ hold # None
  /\ c.rescues => ~enabled /\ ~calm /\ dev.online
  /\ c.refused => enabled /\ Stray("lost") /\ dev.online
  /\ c.nudge # "no" => enabled /\ Fault("nudge") /\ dev.online
  /\ dev.mark = "ours" /\ flight # <<>> => Fault("midway")
  /\ IF enabled
     THEN LET v == Found(d, c)
          IN  /\ c.refused => v.writes
              /\ Regulate(v, c.nudge, c.refused)
              /\ hold' = IF v.adopts THEN Actual ELSE Held(c)
     ELSE /\ Rescue(Older(mem, d), c.rescues)
          /\ hold' = Held(c)
  /\ astray' = (astray \/ c.refused \/ (d > 0 /\ flight # <<>>))
  /\ Len(flight') <= Depth
  /\ UNCHANGED <<zone, deaf, calm>>

\* The next interval begins when the device has caught up, unless it is late.
TimerTick(c) ==
  /\ flight = <<>> \/ (Fault("late") /\ mem.age # None /\ mem.age + 1 < Window)
  /\ Tick(1, c)
EventTick(c) == Tick(0, c)

\* Without a room temperature nothing is observed; after a while the safe state
\* is commanded.
BlindTick ==
  /\ up /\ Fault("blind") /\ flight = <<>> /\ Misses
  /\ \/ mem' = Older(mem, 1) /\ UNCHANGED flight
     \/ /\ dev.online /\ dev.sp # Frost
        /\ mem' = OurFloor(Older(mem, 1))
        /\ Send(<<Command(Frost, "foreign")>>)
  /\ UNCHANGED <<zone, hold, dev, deaf, fresh, calm>>
-----------------------------------------------------------------------------
(* The user and the plan.                                                  *)

\* Without "race" no second turn meets a command that has not arrived.
UserTurns ==
  /\ Fault("user") /\ dev.online
  /\ \A i \in 1 .. Len(flight) :
       flight[i].id = "foreign" \/ flight[i].sp \in {None, mem.written} \/ Fault("race")
  /\ \E v \in Setpoints \ {dev.sp} :
       dev' = [dev EXCEPT !.sp = v, !.mark = "foreign", !.newer = TRUE]
  /\ fresh' = TRUE
  /\ UNCHANGED <<zone, hold, mem, deaf, flight, astray, calm>>

\* async_set_temperature, or the end of the hold.
SetOverride ==
  /\ up /\ Fault("user")
  /\ hold' \in (1 .. Top) \cup {None} /\ hold' # hold
  /\ UNCHANGED <<zone, mem, dev, deaf, flight, fresh, astray, calm>>

Toggle ==
  /\ up /\ Fault("disable")
  /\ enabled' = ~enabled /\ Misses
  /\ UNCHANGED <<up, plan, hold, mem, dev, deaf, flight, fresh, calm>>

PlanChanges ==
  /\ ~calm
  /\ plan' \in Plans \ {plan}
  /\ UNCHANGED <<up, enabled, hold, mem, dev, deaf, flight, fresh, astray, calm>>
-----------------------------------------------------------------------------
(* The device.                                                             *)

\* A command arrives.  A state that stays the same is not written anew; an
\* integration that drops the Context reports at once.
Land ==
  /\ flight # <<>> /\ dev.online
  /\ LET c == Head(flight)
         sp == IF c.sp = None \/ deaf THEN dev.sp ELSE Settle[c.sp]
     IN  dev' = IF sp # dev.sp \/ c.sp = None
                THEN [dev EXCEPT !.sp = sp, !.newer = TRUE,
                                 !.mark = c.id]
                ELSE dev
  /\ fresh' = (fresh /\ dev'.sp = dev.sp)
  /\ flight' = Tail(flight)
  /\ UNCHANGED <<zone, hold, mem, deaf, astray, calm>>

\* An attribute changes: the state is updated under nobody's Context.
Reports ==
  /\ dev.online /\ (dev.mark # "foreign" \/ ~dev.newer)
  /\ dev' = [dev EXCEPT !.mark = "foreign", !.newer = TRUE]
  /\ UNCHANGED <<zone, hold, mem, deaf, flight, fresh, astray, calm>>

Lost ==
  /\ flight # <<>>
  /\ Stray("lost") \/ ~dev.online
  /\ flight' = Tail(flight) /\ astray' = TRUE
  /\ UNCHANGED <<zone, hold, mem, dev, deaf, fresh, calm>>

Vanishes ==
  /\ Stray("offline") /\ dev.online
  /\ dev' = [dev EXCEPT !.online = FALSE] /\ astray' = TRUE
  /\ UNCHANGED <<zone, hold, mem, deaf, flight, fresh, calm>>

Returns ==
  /\ ~dev.online
  /\ \E sp \in {dev.sp} \cup (IF Fault("reboot") THEN {Default} ELSE {}) :
       dev' = [sp |-> sp, online |-> TRUE, mark |-> "foreign", newer |-> TRUE]
  /\ UNCHANGED <<zone, hold, mem, deaf, flight, fresh, astray, calm>>

GoesDeaf ==
  /\ Stray("deaf")
  /\ deaf' = TRUE /\ astray' = TRUE
  /\ UNCHANGED <<zone, hold, mem, dev, flight, fresh, calm>>
-----------------------------------------------------------------------------
(* Restarts.  The store holds the hold and two of the baselines; stamps,   *)
(* Contexts and the command in force are lost.                             *)

Stop ==
  /\ up /\ Fault("restart")
  /\ up' = FALSE
  /\ Misses
  /\ UNCHANGED <<enabled, plan, hold, mem, dev, deaf, flight, fresh, calm>>

Start ==
  /\ ~up
  /\ up' = TRUE
  /\ mem' = [Fresh EXCEPT !.written = mem.written, !.prev = mem.prev,
                          !.age = IF mem.written = None THEN None
                                  ELSE Min2(2 * Window, Liveness)]
  /\ dev' = [dev EXCEPT !.mark = "foreign", !.newer = TRUE]
  /\ flight' = [i \in 1 .. Len(flight) |-> Command(flight[i].sp, "foreign")]
  /\ UNCHANGED <<enabled, plan, hold, deaf, fresh, astray, calm>>

CalmDown ==
  /\ ~calm /\ calm' = TRUE
  /\ UNCHANGED <<zone, hold, mem, dev, deaf, flight, fresh, astray>>
-----------------------------------------------------------------------------
Init ==
  /\ up = TRUE /\ enabled = TRUE
  /\ plan \in Plans /\ hold = None
  /\ mem = Fresh
  /\ dev \in [sp : Setpoints, online : {TRUE}, mark : {"foreign"}, newer : {TRUE}]
  /\ deaf = FALSE
  /\ flight = <<>>
  /\ fresh = FALSE /\ astray = FALSE /\ calm = FALSE

Surroundings ==
  \/ UserTurns \/ SetOverride \/ Toggle \/ PlanChanges
  \/ Land \/ Reports \/ Lost \/ Vanishes \/ Returns \/ GoesDeaf
  \/ Stop \/ Start \/ CalmDown

Next ==
  \/ \E c \in Cases : TimerTick(c) \/ EventTick(c)
  \/ BlindTick \/ Surroundings

Spec == Init /\ [][Next]_vars

\* The timer fires, a device that vanished comes back, a command arrives, and
\* the thermometer of the device makes it report.
FairSpec ==
  /\ Spec
  /\ WF_vars(TimerTick(Undisturbed)) /\ WF_vars(Start) /\ WF_vars(Returns) /\ WF_vars(Land)
-----------------------------------------------------------------------------
TypeOK ==
  /\ up \in BOOLEAN /\ enabled \in BOOLEAN /\ plan \in Plans
  /\ hold \in (1 .. Top) \cup {None}
  /\ mem \in [written : Setpoints \cup {None}, age : (0 .. Liveness) \cup {None},
              pre : Setpoints \cup {None}, prev : Setpoints \cup {None},
              cmd : Setpoints \cup {None}, episode : (0 .. SettleMin) \cup {None},
              mode : {"heat", "idle", "off", None}]
  /\ dev \in [sp : Setpoints, online : BOOLEAN, mark : Marks, newer : BOOLEAN]
  /\ flight \in Seq([sp : Setpoints \cup {None}, id : Marks]) /\ Len(flight) <= Depth
  /\ deaf \in BOOLEAN /\ fresh \in BOOLEAN /\ astray \in BOOLEAN /\ calm \in BOOLEAN

(***************************************************************************)
(* One choice, one hold: a setpoint is taken over only if the user has set *)
(* it at the device and no tick has decided on it before, over any number  *)
(* of commands, plans, restarts and safety floors (override.py, "never a   *)
(* user change"; the phantom holds of adopt_setpoint_baselines).           *)
(***************************************************************************)
Adopts == up /\ hold' \notin {None, hold} /\ mem' # mem
TakesAChoice == Adopts => fresh \/ astray
ChoiceIsTakenOnce == [][TakesAChoice]_vars

(***************************************************************************)
(* While the echo window keeps a choice of the user undecided, the zone    *)
(* does not repeat its command over it: only a new command, another mode   *)
(* or an outage goes out (the reassert interval outlasts the window).      *)
(***************************************************************************)
WritesNow == mem'.age = 0 /\ Len(flight') > Len(flight) /\ flight'[Len(flight')].id = "current"
SparesChoice ==
  up /\ WritesNow /\ fresh /\ mem.episode # None /\ mem.mode = plan.mode
    /\ Target(plan, hold') = mem.cmd => mem.age >= Window - 1
WindowSparesChoice == [][SparesChoice]_vars

(***************************************************************************)
(* Once nobody interferes, the device rests at what the zone wants, though *)
(* a write was lost, the device was away or rebooted, or a repetition was  *)
(* found to be no use (write_economy.py, V3).                              *)
(***************************************************************************)
Obeyed == dev.sp = Settle[Target(plan, hold)] \/ deaf
Agreement == (<>calm /\ <>[]enabled) => <>[]Obeyed

(***************************************************************************)
(* pipeline_actuate.py:371, of an actuator that was away: "the first tick  *)
(* after it returns is a NEW episode and is written at once".              *)
(***************************************************************************)
ReturnIsNoChoice == [][ Adopts => fresh ]_vars

=============================================================================

---------------------------- MODULE CompressorGuard ----------------------------
(***************************************************************************)
(* The compressor guard of one zone and its air conditioner: at the end of *)
(* a tick multi/lifecycle.py folds what the tick saw of the device, at its *)
(* start the next tick asks the folded state whether a change of mode must *)
(* wait.  The state survives restarts in the zone's store.                 *)
(*                                                                         *)
(* Stamps are kept as ages, saturated at the threshold they are compared   *)
(* with.  One unit of time is one tick interval.  A command arrives or is  *)
(* lost before the next refresh of the zone.                               *)
(***************************************************************************)
EXTENDS Integers

CONSTANTS
  Supported,    \* hvac_modes of the device
  CanHeat,      \* the zone uses it for heating
  CanCool,      \* the zone uses it for cooling
  GuardOn,      \* the kill switch is not set
  MinOff,       \* compressor_min_off
  ModeHold,     \* compressor_mode_hold
  Reassert,     \* MIN_MODE_REASSERT_INTERVAL_S
  Skew,         \* _CLOCK_SKEW_TOLERANCE_S
  WallBack,     \* how far the wall clock may have been set back by a restart
  Silent,       \* the device reports no hvac_action
  Wishes,       \* what the rest of the tick may ask of the device
  Faults,       \* which of FaultKinds may happen
  None,         \* an absent stamp or mode
  Running       \* history: instead of the time of a rest

Modes == {"off", "heat", "cool", "dry", "fan_only"}
Conditioning == {"cool", "dry"}
Compressing == {"heat", "cool", "dry"}

\* The resolved mode of the tick, where it parks when idle, a mode hold of the
\* user, a safety layer (window open or sensor frozen), a setpoint override,
\* and whether the zone is enabled.
WishType ==
  [final : {"off", "heat", "cool", "dry", "fan_only", "idle"},
   park : {"heat", "cool", "fan_only", None},
   hold : Modes \cup {None}, safety : BOOLEAN, override : BOOLEAN, enabled : BOOLEAN]

\* The device vanishes; Home Assistant dies unflushed; somebody else changes
\* the mode; a command is lost.
FaultKinds == {"offline", "crash", "foreign", "lost"}

ASSUME GuardAssumption ==
  /\ Supported \subseteq Modes
  /\ CanHeat \in BOOLEAN /\ CanCool \in BOOLEAN /\ GuardOn \in BOOLEAN
  /\ MinOff \in Nat /\ ModeHold \in Nat /\ Reassert \in Nat
  /\ Skew \in Nat /\ WallBack \in Nat
  /\ Silent \in BOOLEAN
  /\ Wishes \subseteq WishType
  /\ Faults \subseteq FaultKinds
  /\ None \notin Int /\ None \notin Modes /\ Running \notin Int

VARIABLES
  up,        \* the zone is set up
  wish,      \* what the tick asks for
  lc,        \* multi_lifecycle
  lastCmd,   \* last_commanded_hvac
  nudged,    \* now - last_mode_nudge_ts
  disk,      \* what the zone's store holds of the above
  mode,      \* the device: its hvac mode,
  run,       \*   does its compressor run,
  online,    \*   is it reachable
  flight,    \* the mode command under way
  seen,      \* history: what the ticks have seen, see Seen
  calm       \* history: the last disturbance is over

vars == <<up, wish, lc, lastCmd, nudged, disk, mode, run, online, flight, seen, calm>>
device == <<mode, run, online>>
zone == <<lc, lastCmd, nudged>>

Fault(f) == f \in Faults /\ ~calm

AtMost(a, b) == IF a < b THEN a ELSE b
Aged(age, d, cap) == IF age = None THEN None ELSE AtMost(age + d, cap)
-----------------------------------------------------------------------------
(* multi/lifecycle.py                                                      *)

Lifecycle(least) ==
  [isOn : BOOLEAN, off : (least .. MinOff) \cup {None},
   mode : Modes \cup {None}, changed : (least .. ModeHold) \cup {None}]

NewLifecycle == [isOn |-> FALSE, off |-> None, mode |-> None, changed |-> None]

AgedLifecycle(l, d) ==
  [l EXCEPT !.off = Aged(@, d, MinOff), !.changed = Aged(@, d, ModeHold)]

\* compressor_running: what the device reports, else what the zone intends.
CompressorRunning(final) ==
  IF online /\ ~Silent THEN run ELSE final \in Compressing

\* Seeded fault: every tick at rest renews the stamp.
ObserveRenewsStamp(l, conditioning, m) ==
  [isOn |-> conditioning,
   off |-> IF ~conditioning /\ (l.isOn \/ l.off # None) THEN 0 ELSE l.off,
   mode |-> IF m # None THEN m ELSE l.mode,
   changed |-> IF m # None /\ m # l.mode THEN 0 ELSE l.changed]

\* Seeded fault: the stamp of a stop is not renewed.
ObserveKeepsStamp(l, conditioning, m) ==
  [isOn |-> conditioning,
   off |-> IF ~conditioning /\ l.isOn /\ l.off = None THEN 0 ELSE l.off,
   mode |-> IF m # None THEN m ELSE l.mode,
   changed |-> IF m # None /\ m # l.mode THEN 0 ELSE l.changed]

\* Seeded fault: a new mode is taken over, but not stamped.
ObserveForgetsChange(l, conditioning, m) ==
  [isOn |-> conditioning,
   off |-> IF ~conditioning /\ l.isOn THEN 0 ELSE l.off,
   mode |-> IF m # None THEN m ELSE l.mode,
   changed |-> l.changed]

Observe(l, conditioning, m) ==
  [isOn |-> conditioning,
   off |-> IF ~conditioning /\ l.isOn THEN 0 ELSE l.off,
   mode |-> IF m # None THEN m ELSE l.mode,
   changed |-> IF m # None /\ m # l.mode THEN 0 ELSE l.changed]

MinOffActive(l) == ~l.isOn /\ l.off # None /\ l.off < MinOff
ModeHoldActive(l) == l.changed # None /\ l.changed < ModeHold

\* resolve_guard_policy: no compressor, no guard.
Guarded == GuardOn /\ (CanCool \/ "dry" \in Supported)

\* guard_block_reason: a start waits for min-off, a flip for the mode hold.
GuardBlocks(l, desired) ==
  /\ Guarded
  /\ desired \in Conditioning
  /\ \/ mode \notin Conditioning /\ MinOffActive(l)
     \/ mode \in Conditioning /\ desired # mode /\ ModeHoldActive(l)

\* _clamp_future: a stamp too far in the future is taken for now.
Unfuture(age) == IF age # None /\ age < -Skew THEN 0 ELSE age

\* Seeded fault: stamps are taken as they are.
FromDictUnclamped(l) == l

FromDict(l) == [l EXCEPT !.off = Unfuture(@), !.changed = Unfuture(@)]
-----------------------------------------------------------------------------
(* The mode channel of a tick.                                             *)

\* resolve_desired_mode
ResolveDesiredMode ==
  CASE wish.final \in {"heat", "cool", "dry", "fan_only"} -> wish.final
    [] wish.final = "off" -> IF CanHeat THEN "heat" ELSE "off"
    [] wish.final = "idle" /\ wish.park # None -> wish.park
    [] OTHER -> IF CanCool /\ mode \in {"heat", "cool"} THEN mode ELSE "heat"

\* stage_mode_adoption: a hold pins the mode unless a safety layer took over.
Desired == IF wish.hold # None /\ ~wish.safety THEN wish.hold ELSE ResolveDesiredMode

\* An off hold is routed like a disabled zone.
Active == wish.enabled /\ wish.hold # "off"

Exempt == wish.safety \/ wish.override

NeedsModeNudge == online /\ Desired \in Supported /\ mode # Desired

\* Seeded fault: the first repetition is the last.
ReassertForEver(age) == Desired = lastCmd /\ age # None

\* mode_reassert_throttled
ReassertThrottled(age) == Desired = lastCmd /\ age # None /\ age < Reassert

\* The nudge of an enabled zone: the guard first, then the repetition limit.
Nudge(l, age) ==
  IF /\ NeedsModeNudge
     /\ Exempt \/ ~GuardBlocks(l, Desired)
     /\ ~ReassertThrottled(age)
  THEN {Desired} ELSE {None}

\* The frost rescue of a disabled zone, if its room calls for it.
FrostRescue ==
  {None} \cup IF CanHeat /\ online /\ "heat" \in Supported THEN {"heat"} \ {mode} ELSE {}

\* What a tick may send: at most one mode.
Command(l, age) == IF Active THEN Nudge(l, age) ELSE FrostRescue

\* resolve_safe_state: heat if the device can, else off.
SafeMode ==
  IF ~online THEN {}
  ELSE (IF "heat" \in Supported THEN {"heat"} ELSE {"off"}) \ {mode}

\* History.  watch: the compressor ran at the last tick that saw the device, or
\* the time since a tick first saw it rest.  since: the time since a tick first
\* saw the device in the mode it last saw it in.
Seen == [watch : (0 .. MinOff) \cup {Running}, mode : Modes \cup {None}, since : 0 .. ModeHold]

AgedSeen(d) ==
  [seen EXCEPT !.watch = IF @ = Running THEN @ ELSE AtMost(@ + d, MinOff),
               !.since = AtMost(@ + d, ModeHold)]

Look(s) ==
  [watch |-> IF run THEN Running ELSE IF s.watch = Running THEN 0 ELSE s.watch,
   mode |-> mode,
   since |-> IF mode = s.mode THEN s.since ELSE 0]

\* The store's record.  Of a zone that is up it matters only for a crash: an
\* orderly stop overwrites it before it is read.
Record(l, cmd) == [lc |-> l, cmd |-> cmd]
DiskType == [lc : Lifecycle(-(Skew + WallBack)), cmd : Modes \cup {None}]
ASSUME NoRecordAssumption == None \notin DiskType
IfCrash(record) == IF "crash" \in Faults THEN record ELSE None
AgedDisk(d) == IF disk = None THEN None ELSE [disk EXCEPT !.lc = AgedLifecycle(@, d)]

\* A refresh of the zone, d after the last one, that sends `sent' (None: nothing).
\* The guard judges by the state of the earlier ticks, the fold follows, and a
\* save, if one is due, comes last.
Refresh(d, sent) ==
  /\ flight' = sent
  /\ lastCmd' = IF sent = None THEN lastCmd ELSE sent
  /\ nudged' = IF sent # None /\ Active THEN 0 ELSE Aged(nudged, d, Reassert)
  /\ lc' = Observe(AgedLifecycle(lc, d), CompressorRunning(wish.final),
                   IF online THEN mode ELSE None)
  /\ seen' = IF online THEN Look(AgedSeen(d)) ELSE AgedSeen(d)
  /\ disk' \in {AgedDisk(d), IfCrash(Record(lc', lastCmd'))}
  /\ UNCHANGED <<up, wish, device, calm>>

Due(d) == Command(AgedLifecycle(lc, d), Aged(nudged, d, Reassert))

Tick(d) ==
  /\ up /\ flight = None
  /\ \E sent \in Due(d) : Refresh(d, sent)

\* The service call raises: it is logged, and nothing is stamped.
FailedTick ==
  /\ up /\ flight = None /\ Fault("lost")
  /\ Due(1) # {None}
  /\ Refresh(1, None)

TimerTick == Tick(1)
EventTick == Tick(0)

\* A tick without a room temperature folds nothing; when the loss lasts it
\* commands the safe state.
BlindTick ==
  /\ up /\ flight = None /\ ~calm
  /\ flight' \in {None} \cup SafeMode
  /\ lastCmd' = IF flight' = None THEN lastCmd ELSE flight'
  /\ lc' = AgedLifecycle(lc, 1)
  /\ nudged' = Aged(nudged, 1, Reassert)
  /\ seen' = AgedSeen(1)
  /\ disk' \in {AgedDisk(1), IfCrash(Record(lc', lastCmd'))}
  /\ UNCHANGED <<up, wish, device, calm>>

WishChanges ==
  /\ ~calm
  /\ wish' \in Wishes
  /\ UNCHANGED <<up, zone, disk, device, flight, seen, calm>>
-----------------------------------------------------------------------------
(* The device.                                                             *)

\* It enters a mode; a mode that may compress may start or stop the compressor.
Enter(m) ==
  /\ mode' = m
  /\ run' \in IF m \in Compressing THEN BOOLEAN ELSE {FALSE}

Land ==
  /\ flight # None /\ online
  /\ Enter(flight)
  /\ flight' = None
  /\ UNCHANGED <<up, wish, zone, disk, online, seen, calm>>

Lost ==
  /\ flight # None
  /\ Fault("lost") \/ ~online
  /\ flight' = None
  /\ UNCHANGED <<up, wish, zone, disk, device, seen, calm>>

\* Its own thermostat.
DeviceCycles ==
  /\ mode \in Compressing
  /\ run' = ~run
  /\ UNCHANGED <<up, wish, zone, disk, mode, online, flight, seen, calm>>

Foreign ==
  /\ Fault("foreign")
  /\ \E m \in Supported \ {mode} : Enter(m)
  /\ UNCHANGED <<up, wish, zone, disk, online, flight, seen, calm>>

Vanishes ==
  /\ Fault("offline") /\ online
  /\ online' = FALSE
  /\ UNCHANGED <<up, wish, zone, disk, mode, run, flight, seen, calm>>

Returns ==
  /\ ~online
  /\ online' = TRUE
  /\ UNCHANGED <<up, wish, zone, disk, mode, run, flight, seen, calm>>
-----------------------------------------------------------------------------
(* Restarts.                                                               *)

NewZone == lc' = NewLifecycle /\ lastCmd' = None /\ nudged' = None

\* An orderly stop or unload saves under the tick lock.
Stop ==
  /\ up /\ ~calm
  /\ up' = FALSE
  /\ disk' = Record(lc, lastCmd)
  /\ NewZone
  /\ UNCHANGED <<wish, device, flight, seen, calm>>

Crash ==
  /\ up /\ Fault("crash")
  /\ up' = FALSE
  /\ NewZone
  /\ UNCHANGED <<wish, disk, device, flight, seen, calm>>

\* What an age may read when the clock was set back by j: a saturated one may
\* have been larger.
SetBack(age, cap, j) ==
  IF age = None THEN {None} ELSE {age - j} \cup (IF age = cap THEN {cap} ELSE {})

\* apply_persisted_state with the stamps clamped against the clock of now.
Start ==
  /\ ~up
  /\ up' = TRUE
  /\ \E j \in 0 .. WallBack :
       \E off \in SetBack(disk.lc.off, MinOff, j),
          changed \in SetBack(disk.lc.changed, ModeHold, j) :
         /\ \A age \in {off, changed} \ {None} : age >= -(Skew + WallBack)
         /\ LET l == [disk.lc EXCEPT !.off = off, !.changed = changed]
            IN  /\ lc' = FromDict(l)
                /\ disk' = IfCrash(Record(l, disk.cmd))
  /\ lastCmd' = disk.cmd
  /\ nudged' = None
  /\ UNCHANGED <<wish, device, flight, seen, calm>>

\* Time passes while the zone is down.
Elapse ==
  /\ ~up
  /\ disk' = AgedDisk(1)
  /\ seen' = AgedSeen(1)
  /\ UNCHANGED <<up, wish, zone, device, flight, calm>>

CalmDown ==
  /\ ~calm
  /\ calm' = TRUE
  /\ UNCHANGED <<up, wish, zone, disk, device, flight, seen>>
-----------------------------------------------------------------------------
Init ==
  /\ up = FALSE
  /\ wish \in Wishes
  /\ lc = NewLifecycle /\ lastCmd = None /\ nudged = None
  /\ disk = Record(NewLifecycle, None)
  /\ mode \in Supported /\ run \in (IF mode \in Compressing THEN BOOLEAN ELSE {FALSE})
  /\ online = TRUE
  /\ flight = None
  /\ seen = [watch |-> MinOff, mode |-> None, since |-> ModeHold]
  /\ calm = FALSE

Next ==
  \/ TimerTick \/ EventTick \/ FailedTick \/ BlindTick \/ WishChanges
  \/ Land \/ Lost \/ DeviceCycles \/ Foreign \/ Vanishes \/ Returns
  \/ Stop \/ Crash \/ Start \/ Elapse

Spec == Init /\ [][Next]_vars

\* The timer fires, an enabled entry is set up, a device that vanished comes
\* back, a command that is not lost arrives.
FairSpec ==
  /\ Init /\ [][Next \/ CalmDown]_vars
  /\ WF_vars(TimerTick) /\ WF_vars(Start) /\ WF_vars(Returns) /\ WF_vars(Land)
-----------------------------------------------------------------------------
TypeOK ==
  /\ up \in BOOLEAN
  /\ wish \in Wishes
  /\ lc \in Lifecycle(-Skew)
  /\ lastCmd \in Modes \cup {None}
  /\ nudged \in (0 .. Reassert) \cup {None}
  /\ disk \in DiskType \cup {None}
  /\ mode \in Modes /\ run \in BOOLEAN /\ online \in BOOLEAN
  /\ flight \in Modes \cup {None}
  /\ seen \in Seen
  /\ calm \in BOOLEAN

\* A tick sends a mode that starts the compressor, or flips it, unprompted.
Starts == flight = None /\ flight' \in Conditioning /\ mode \notin Conditioning /\ ~Exempt
Flips == flight = None /\ flight' \in Conditioning \ {mode} /\ mode \in Conditioning /\ ~Exempt

\* A start of a compressor at rest is allowed: earlier ticks have not yet seen
\* it rest, or have seen it rest for long enough.
StartIsAllowed == Starts /\ ~run => seen.watch = Running \/ seen'.watch >= MinOff

(***************************************************************************)
(* A compressor that earlier ticks have seen at rest is not started before *)
(* it has been seen at rest for MinOff, whatever restarts, clock changes,  *)
(* foreign hands and lost commands came in between (ADR-0046 paragraph 8). *)
(***************************************************************************)
LockHolds ==
  [][ StartIsAllowed ]_vars

(***************************************************************************)
(* A device that earlier ticks have seen in this mode is not flipped       *)
(* between cooling and drying before they have seen it there for ModeHold. *)
(***************************************************************************)
FlipsAreHeld ==
  [][ Flips => seen.mode # mode \/ seen'.since >= ModeHold ]_vars

(***************************************************************************)
(* Nor does it protect too much: as long as every stop is orderly and the  *)
(* clock is not set back, a start that is due and is not a mere repetition *)
(* is held back only if the compressor has rested for less than MinOff.    *)
(* (After a crash an older record may count the rest anew.)                *)
(***************************************************************************)
StartIsDue == /\ up /\ Active /\ ~Exempt /\ NeedsModeNudge
              /\ Desired \in Conditioning /\ mode \notin Conditioning
              /\ Desired # lastCmd
HeldOnlyInside ==
  [][ (TimerTick \/ EventTick) /\ StartIsDue /\ ~run /\ flight' = None
        => seen'.watch < MinOff ]_vars

(***************************************************************************)
(* The guard delays and never denies: after the last disturbance a device  *)
(* that can do so ends up in the mode the zone asks for, and stays there,  *)
(* although starts and repetitions wait, commands are lost in an outage and*)
(* crashes bring back older records (ADR-0046: "pure suppression", the wish*)
(* stands and fires when the timer is over).                               *)
(***************************************************************************)
WishIsServed ==
  (<>calm /\ <>[](Active /\ Desired \in Supported)) => <>[](mode = Desired)

(***************************************************************************)
(* ha/phase_shadow.py:315: the intended mode stands in for the action of a *)
(* device that reports none, which "would otherwise read as permanently    *)
(* off and never accrue a min-off lock".  So a silent device has the lock. *)
(***************************************************************************)
SilentDeviceIsLocked == [][ StartIsAllowed ]_vars
=============================================================================

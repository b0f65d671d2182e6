----------------------------- MODULE TrvCalibration -----------------------------
(***************************************************************************)
(* The offset Poise writes to the calibration number of a radiator         *)
(* thermostat (ha/phase_actuate.py, segments H and W), who owns it and how *)
(* it is handed back: in the tick when another compensation takes over,    *)
(* before the actuator is replaced, when the zone is disabled or removed.  *)
(* The ownership, a baseline and the number it was read from, is stored.   *)
(*                                                                         *)
(* Offsets are steps of the number's grid, so "within half a step" is      *)
(* equality.  A tick and the save at its end are one step.  A number keeps *)
(* its grid.  Home Assistant does not die between a dispatch and the save  *)
(* of the tick, and that save does not fail.                               *)
(***************************************************************************)
EXTENDS Integers

CONSTANTS
  Lo, Hi,         \* the grid of the numbers
  First, Second,  \* the number found at first; the one of a new device or name
  Original,       \* what they show before Poise writes to them
  Needs,          \* room sensor less internal sensor, in grid steps
  Interval,       \* CALIBRATION_MIN_INTERVAL_S, in ticks
  Limit,          \* CALIBRATION_UNCONVERGED_LIMIT
  Faults,         \* which of FaultKinds may happen
  None

Numbers == {First, Second}
Offsets == Lo .. Hi

\* A command may still be under way at the next tick.
FaultKinds == {"slow"}

ASSUME CalibrationAssumption ==
  /\ Lo \in Int /\ Hi \in Int /\ Lo < Hi
  /\ First # Second
  /\ Original \in [Numbers -> Offsets]
  /\ Needs \subseteq Offsets /\ Needs # {}
  /\ Interval \in Nat \ {0} /\ Limit \in Nat \ {0}
  /\ Faults \subseteq FaultKinds
  /\ None \notin Int /\ None \notin Numbers

VARIABLES
  num,     \* the numbers: state, offset shown, command under way
  device,  \* the number of the configured actuator
  need,    \* the offset that would make the thermostat read the room
  seen,    \* the offset in the temperature the thermostat last reported
  fresh,   \* it was reported after the anchor last_cal_dispatch_wall_ts
  cfg,     \* trv_calibration, external input present, reliable heat mode
  rt,      \* ActuatorRuntime, and what the coordinator instance has found
  disk,    \* cal_baseline and cal_entity in the store
  flow,    \* where the config entry is in its life
  fed,     \* the last tick let the external-temperature feed run
  told,    \* teardown has warned that an offset was not restored
  first,   \* history: what each number showed before Poise wrote to it
  calm     \* history: the last disturbance is over

vars == <<num, device, need, seen, fresh, cfg, rt, disk, flow, fed, told, first, calm>>
thermostat == <<need, seen, fresh>>
history == <<first, calm>>

Clamp(v) == IF v < Lo THEN Lo ELSE IF v > Hi THEN Hi ELSE v
Older(age, cap) == IF age = None \/ age = cap THEN age ELSE age + 1
Loaded == flow \in {"up", "swapping"}
Readable(e) == num[e].st = "ok"

NoOwnership == [base |-> None, owner |-> None]
Ownership(r) == [base |-> r.base, owner |-> r.owner]

\* A coordinator instance as it is set up from the store.
Instance(option, d, stored) ==
  [armed |-> option, found |-> IF num[d].st = "gone" THEN None ELSE d,
   base |-> stored.base, owner |-> stored.owner,
   cmd |-> None, anchor |-> FALSE, wrote |-> None, restored |-> None]

TypeOK ==
  /\ num \in [Numbers -> [st : {"ok", "unreadable", "gone"}, shown : Offsets,
                          flight : Offsets \cup {None}]]
  /\ device \in Numbers
  /\ need \in Needs /\ seen \in Offsets /\ fresh \in BOOLEAN
  /\ cfg \in [option : BOOLEAN, ext : BOOLEAN, heat : BOOLEAN]
  /\ rt \in [armed : BOOLEAN, found : Numbers \cup {None},
             base : Offsets \cup {None}, owner : Numbers \cup {None},
             cmd : Offsets \cup {None}, anchor : BOOLEAN,
             wrote : (0 .. Limit * Interval) \cup {None},
             restored : (0 .. Interval) \cup {None}]
  /\ (rt.base = None) <=> (rt.owner = None)
  /\ disk \in [base : Offsets \cup {None}, owner : Numbers \cup {None}]
  /\ (disk.base = None) <=> (disk.owner = None)
  /\ flow \in {"up", "swapping", "down", "removed"}
  /\ fed \in BOOLEAN /\ told \in BOOLEAN
  /\ first \in [Numbers -> Offsets] /\ calm \in BOOLEAN

Init ==
  /\ num = [e \in Numbers |-> [st |-> "ok", shown |-> Original[e], flight |-> None]]
  /\ device = First
  /\ need \in Needs
  /\ seen = Original[First] /\ fresh = FALSE
  /\ cfg = [option |-> TRUE, ext |-> FALSE, heat |-> TRUE]
  /\ disk = NoOwnership
  /\ rt = Instance(TRUE, First, NoOwnership)
  /\ flow = "up" /\ fed = FALSE /\ told = FALSE
  /\ first = Original
  /\ calm = FALSE
-----------------------------------------------------------------------------
(* The tick.                                                               *)

\* select_live_path, as far as calibration is concerned.
Live(r) == r.armed /\ r.found # None /\ ~cfg.ext /\ cfg.heat

\* clear_calibration_ownership.
Cleared(r) ==
  [r EXCEPT !.base = None, !.owner = None, !.cmd = None,
            !.anchor = FALSE, !.wrote = None, !.restored = None]

Outcome(r, n, pending) == [rt |-> r, num |-> n, pending |-> pending]
Sent(e, v) == [num EXCEPT ![e].flight = v]

\* The stored number is structurally gone: its offset acts on nothing.
Gone(e) == num[e].st = "gone"

\* observe_calibration_restore: the device reports the restore target.
\* Seeded fault: the dispatch of the restore is taken for its success.
HandedOnDispatch(r) == num[r.owner].shown = Clamp(r.base) \/ r.restored # None
Handed(r) == num[r.owner].shown = Clamp(r.base)

\* Seeded fault: the restore is dispatched once and never again.
RestoreOnce(r) == r.restored = None
RestoreDue(r) == r.restored \in {None, Interval}

\* _stage_calibration_handoff while calibration is not the live path.
HandOff(r) ==
  IF r.base = None THEN {Outcome(r, num, FALSE)}
  ELSE IF Gone(r.owner) THEN {Outcome(r, num, FALSE)}
  ELSE IF ~Readable(r.owner) THEN {Outcome(r, num, TRUE)}
  ELSE IF Handed(r) THEN {Outcome(Cleared(r), num, FALSE)}
  ELSE {Outcome(r, num, TRUE)} \cup
       IF RestoreDue(r)
       THEN {Outcome([r EXCEPT !.restored = 0], Sent(r.owner, Clamp(r.base)), TRUE)}
       ELSE {}

\* calibration_accumulation_allowed.  Seeded fault: any report will do.
EvidenceIgnoresReport(r) == r.cmd = None \/ num[r.found].shown = r.cmd
Evidence(r) == r.cmd = None \/ (num[r.found].shown = r.cmd /\ (r.anchor => fresh))

\* What the thermostat is off by, on top of the offset its number shows.
Wanted(r) == Clamp(need - seen + num[r.found].shown)
WriteDue(r) == /\ r.wrote = None \/ r.wrote >= Interval
               /\ Wanted(r) # num[r.found].shown

\* commit_execution of a cal_write.
Owns(r) ==
  [r EXCEPT !.base = IF @ = None THEN num[r.found].shown ELSE @,
            !.owner = IF r.base = None THEN r.found ELSE @,
            !.cmd = Wanted(r), !.anchor = TRUE, !.wrote = 0]

\* observe_calibration_resume.
Quarantined(r) == r.base # None /\ r.cmd = None

\* _stage_calibration_write while calibration is the live path; offline says
\* that the thermostat is, or shows no temperature.
Regulate(r, offline) ==
  IF offline \/ ~Readable(r.found) THEN {Outcome(r, num, FALSE)}
  ELSE IF r.owner \notin {None, r.found}
       THEN {Outcome(IF Gone(r.owner) THEN Cleared(r) ELSE r, num, FALSE)}
  ELSE IF Quarantined(r)
       THEN {Outcome([r EXCEPT !.cmd = num[r.found].shown, !.anchor = TRUE], num, FALSE)}
  ELSE {Outcome(r, num, FALSE)} \cup
       IF Evidence(r) /\ WriteDue(r)
       THEN {Outcome(Owns(r), Sent(r.found, Wanted(r)), FALSE)} ELSE {}

\* calibration_diverged: the issue calibration_unapplied
Unapplied(r) ==
  Live(r) /\ r.cmd # None /\ num[r.found].shown # r.cmd /\ r.wrote = Limit * Interval

\* Commands land or are lost before the next tick, unless they are slow.
Settled == "slow" \in Faults \/ \A e \in Numbers : num[e].flight = None

\* One enabled tick with its save.  A report is fresh until the anchor moves.
Tick(offline) ==
  /\ Loaded /\ Settled
  /\ \E o \in IF Live(rt) THEN Regulate(rt, offline) ELSE HandOff(rt) :
       /\ rt' = [o.rt EXCEPT !.wrote = IF @ = rt.wrote THEN Older(@, Limit * Interval) ELSE @,
                             !.restored = IF @ = rt.restored THEN Older(@, Interval) ELSE @]
       /\ num' = o.num
       /\ fed' = (cfg.ext /\ ~o.pending)
       /\ fresh' = (fresh /\ (o.rt.anchor => rt.anchor) /\ o.num = num)
       /\ disk' = Ownership(o.rt)
  /\ UNCHANGED <<device, need, seen, cfg, flow, told, history>>
-----------------------------------------------------------------------------
(* The life of the config entry.                                           *)

\* restore_trv_calibration: the write, and the fresh read after it.
Restores(o) ==
  IF o.base = None THEN {[num |-> num, ok |-> TRUE]}
  ELSE IF Gone(o.owner) THEN {[num |-> num, ok |-> TRUE]}
  ELSE IF ~Readable(o.owner) THEN {[num |-> num, ok |-> FALSE]}
  ELSE IF num[o.owner].shown = Clamp(o.base) THEN {[num |-> num, ok |-> TRUE]}
  ELSE {[num |-> [num EXCEPT ![o.owner].shown = Clamp(o.base), ![o.owner].flight = None],
         ok |-> TRUE],
        [num |-> Sent(o.owner, Clamp(o.base)), ok |-> FALSE],
        [num |-> num, ok |-> FALSE]}

\* async_prepare_actuator_handoff; without success the dialog shows an error.
Disarmed(r) == [Cleared(r) EXCEPT !.armed = FALSE]

PrepareSwap ==
  /\ flow = "up" /\ device = First /\ Settled
  /\ \E x \in Restores(rt) :
       /\ num' = x.num
       /\ IF x.ok THEN rt' = Disarmed(rt) /\ flow' = "swapping"
                  ELSE UNCHANGED <<rt, flow>>
  /\ UNCHANGED <<device, thermostat, cfg, disk, fed, told, history>>

\* The dialog has parked the actuator and stored the new one: the reload saves
\* and quiesces the old instance and sets up the new.
Swapped ==
  /\ device' = Second /\ seen' = num[Second].shown /\ fresh' = FALSE
  /\ fed' = FALSE /\ flow' = "up"

ReloadSwapped ==
  /\ flow = "swapping" /\ Settled
  /\ Swapped
  /\ disk' = Ownership(rt)
  /\ rt' = Instance(cfg.option, Second, Ownership(rt))
  /\ UNCHANGED <<num, need, cfg, told, history>>

\* The same dialog while the entry is not loaded: the store is the truth.
SwapUnloaded ==
  /\ flow = "down" /\ device = First /\ Settled
  /\ \E x \in Restores(disk) :
       /\ num' = x.num
       /\ IF x.ok
          THEN /\ Swapped
               /\ disk' = NoOwnership
               /\ rt' = Instance(cfg.option, Second, NoOwnership)
          ELSE UNCHANGED <<device, seen, fresh, fed, flow, disk, rt>>
  /\ UNCHANGED <<need, cfg, told, history>>

Down(r) == Instance(FALSE, device, NoOwnership)

\* Home Assistant stops with its last save, or dies; or the entry is reloaded.
Stop ==
  /\ Loaded /\ Settled
  /\ flow' = "down" /\ rt' = Down(rt)
  /\ disk' \in {Ownership(rt), disk}
  /\ UNCHANGED <<num, device, thermostat, cfg, fed, told, history>>

Start ==
  /\ flow = "down"
  /\ flow' = "up" /\ rt' = Instance(cfg.option, device, disk)
  /\ UNCHANGED <<num, device, thermostat, cfg, disk, fed, told, history>>

\* async_unload_entry of a disabled entry and _park_room_actuator.
StoreKeeps(o, x) == IF x.ok THEN NoOwnership ELSE o

Disable ==
  /\ Loaded /\ Settled
  /\ \E x \in Restores(rt) :
       /\ num' = x.num
       /\ disk' = StoreKeeps(Ownership(rt), x)
       /\ told' = ~x.ok
  /\ flow' = "down" /\ rt' = Down(rt)
  /\ UNCHANGED <<device, thermostat, cfg, fed, history>>

\* async_remove_entry after the unload: the park, then the store is deleted.
Remove ==
  /\ flow = "down" /\ Settled
  /\ \E x \in Restores(disk) : num' = x.num /\ told' = ~x.ok
  /\ flow' = "removed" /\ disk' = NoOwnership
  /\ UNCHANGED <<device, thermostat, cfg, rt, fed, history>>
-----------------------------------------------------------------------------
(* Around it.                                                              *)

\* The number shows the offset it was sent.
Apply(e) ==
  /\ num[e].flight # None /\ Readable(e)
  /\ num' = [num EXCEPT ![e].shown = num[e].flight, ![e].flight = None]
  /\ UNCHANGED <<device, thermostat, cfg, rt, disk, flow, fed, told, history>>

Lose(e) ==
  /\ ~calm /\ num[e].flight # None
  /\ num' = [num EXCEPT ![e].flight = None]
  /\ UNCHANGED <<device, thermostat, cfg, rt, disk, flow, fed, told, history>>

\* The thermostat reports its temperature, as its offset makes it; it first
\* applies what it has received.
Report ==
  /\ num[device].flight = None /\ num[device].st # "gone"
  /\ seen' = num[device].shown /\ fresh' = TRUE
  /\ UNCHANGED <<num, device, need, cfg, rt, disk, flow, fed, told, history>>

RoomChanges ==
  /\ ~calm /\ need' \in Needs
  /\ UNCHANGED <<num, device, seen, fresh, cfg, rt, disk, flow, fed, told, history>>

\* async_apply_options, and what the reader finds of the device.
Reconfigure ==
  /\ ~calm /\ flow \in {"up", "down"}
  /\ \E option, ext, heat \in BOOLEAN :
       /\ cfg' = [option |-> option, ext |-> ext, heat |-> heat]
       /\ rt' = IF flow = "up" THEN [rt EXCEPT !.armed = option] ELSE rt
  /\ UNCHANGED <<num, device, thermostat, disk, flow, fed, told, history>>

Sleep(e) ==
  /\ ~calm /\ num[e].st = "ok"
  /\ num' = [num EXCEPT ![e].st = "unreadable"]
  /\ UNCHANGED <<device, thermostat, cfg, rt, disk, flow, fed, told, history>>

Wake(e) ==
  /\ num[e].st = "unreadable" /\ (e = First => device = First)
  /\ num' = [num EXCEPT ![e].st = "ok"]
  /\ UNCHANGED <<device, thermostat, cfg, rt, disk, flow, fed, told, history>>

Vanish(e) ==
  /\ ~calm /\ num[e].st # "gone"
  /\ num' = [num EXCEPT ![e].st = "gone", ![e].flight = None]
  /\ UNCHANGED <<device, thermostat, cfg, rt, disk, flow, fed, told, history>>

\* The number of the same thermostat comes back under another name; the old
\* name is gone from the registry, or left there without a state.  An instance
\* finds the new name when it is set up.
Rename ==
  /\ ~calm /\ device = First /\ num[First].st # "gone" /\ flow = "down"
  /\ \E st \in {"gone", "unreadable"} :
       num' = [num EXCEPT ![First] = [@ EXCEPT !.st = st, !.flight = None],
                          ![Second] = [@ EXCEPT !.shown = num[First].shown]]
  /\ device' = Second
  /\ first' = [first EXCEPT ![Second] = num[First].shown]
  /\ UNCHANGED <<thermostat, cfg, rt, disk, flow, fed, told, calm>>

CalmDown ==
  /\ ~calm /\ calm' = TRUE
  /\ UNCHANGED <<num, device, thermostat, cfg, rt, disk, flow, fed, told, first>>

Lifecycle ==
  ~calm /\ (PrepareSwap \/ SwapUnloaded \/ Stop \/ Disable \/ Remove)

Next ==
  \/ \E offline \in BOOLEAN : Tick(offline)
  \/ Lifecycle \/ ReloadSwapped \/ Start
  \/ \E e \in Numbers : Apply(e) \/ Lose(e) \/ Sleep(e) \/ Wake(e) \/ Vanish(e)
  \/ Report \/ RoomChanges \/ Reconfigure \/ Rename \/ CalmDown

Spec == Init /\ [][Next]_vars

\* The refresh timer, and a thermostat that does what it was sent.
FairSpec ==
  /\ Spec
  /\ WF_vars(Tick(FALSE)) /\ WF_vars(ReloadSwapped) /\ WF_vars(Report)
  /\ \A e \in Numbers : WF_vars(Apply(e))
-----------------------------------------------------------------------------
(* Properties.                                                             *)

\* The baseline is what the number showed before Poise first wrote to it, across
\* every hand-over, restart and replaced device: an offset of Poise's own that
\* was taken for it would be restored for ever (zone_runtime.py, cal_write).
BaselineIsOriginal ==
  /\ rt.base # None => rt.base = first[rt.owner]
  /\ disk.base # None => disk.base = first[disk.owner]

\* A number that shows an offset of Poise's is owned: by the running instance,
\* by the store while none runs; after a removal the user has been told.
OffsetIsOwned ==
  \A e \in Numbers : num[e].st # "gone" /\ num[e].shown # first[e] =>
    CASE Loaded -> rt.owner = e
      [] flow = "down" -> disk.owner = e
      [] flow = "removed" -> told

\* A thermostat that was replaced shows its own offset again, even if the old
\* instance ticks once more before the reload.
ReplacedIsRestored ==
  device = Second /\ Readable(First) => num[First].shown = first[First]

\* The external-temperature feed does not run on top of an offset of Poise's
\* (segment H is fail-closed).
SuccessorStartsClean ==
  fed => \A e \in Numbers : num[e].st # "gone" => num[e].shown = first[e]

\* Whatever offset the user had set is known, or already back in its number:
\* whoever took it owns it, across restarts, hand-overs and replaced devices, and
\* no successor works on top of it (calibration.py, phase_actuate.py).
OffsetIsNeverLost ==
  TypeOK /\ BaselineIsOriginal /\ OffsetIsOwned /\ ReplacedIsRestored /\ SuccessorStartsClean

\* While Poise owns the offset it commands what corrects the thermostat now, or
\* restores the original: a stale temperature is never added to an offset it
\* already contains, not after a restart either (the evidence gate, D4).  A
\* command that equals the original is left out: a restore, which leaves no
\* evidence, may pass for it.
NothingCompounds ==
  [][\A e \in Numbers :
       rt.base \notin {None, rt.cmd} /\ num'[e].flight \notin {num[e].flight, None} =>
         num'[e].flight \in {Clamp(need), first[e]}]_vars

\* Once calibration is no longer the live path the offset is handed back,
\* however many restores were lost before (the redispatch of segment H).
HandsBack ==
  [](calm /\ flow = "up" /\ ~Live(rt) /\ rt.base # None /\ Readable(rt.owner)
       => <>(rt.base = None))

\* While calibration is the live path, the thermostat is brought to read the
\* room, or the user is told that the offset is not applied (README, "Calibration
\* offset not applied").
CorrectedOrReported ==
  [](calm /\ flow = "up" /\ Live(rt) /\ num[device].st = "ok" /\ rt.owner \in {None, rt.found} /\ rt.found = device
       => <>(Unapplied(rt) \/ num[device].shown = Clamp(need)))
=============================================================================

# Poise in TLA+

Poise is a Home Assistant integration that regulates the rooms of a home: each
room is a *zone* with its own coordinator, and one optional *hub* switches a
shared boiler on behalf of the zones. This directory holds TLA+ models of the
parts of it whose correctness depends on time, order, failure and restarts,
the TLC runs that check them, and TLAPS proofs of the properties that matter
most. Every definition is translated from the Python source; `PROJECT.json`
maps each one to its lines.

## 1. The system

### 1.1 Components and how they interact

| Component | State it keeps | Operations | Talks to |
|---|---|---|---|
| **Hub** (`hub_coordinator.py`, `control/hub_aggregate.py`) | commanded boiler state with three monotonic stamps, `restored`, `reconciled`, `has_actuated`, lock | timer tick (collect, aggregate, step, call, persist), hand-over OFF | reads `runtime_data.data` of every room entry; calls the boiler's on/off scripts or entities; its own store |
| **Zone coordinator** (`coordinator.py`, `ha/tick_orchestrator.py`, `ha/phase_*.py`, `control/pipeline_*.py`) | `ZoneRuntime`: override, ledgers of own writes, learned models, lifecycles; a tick lock; a dirty flag | tick = prepare, actuate, finalize, report, with awaits in between; user commands (override, mode, preset) outside the lock | the climate device (calls, state events), the store, Home Assistant's registries, the forecast service |
| **Entry lifecycle** (`__init__.py`) | entry data and options, `runtime_data`, last-known actuation | setup, options update, unload, remove, migrate | creates and ends zones and hub, hands the device back |
| **Actuator executor** (`ha/actuator_executor.py`) | ledger of the last setpoint, mode, fan and offset commands | one call per command, with throttles and retries | the device |
| **Mode channel** (`control/external_override.py`, `control/override.py`) | last commanded mode, last observed mode, baseline, freeze | observe, adopt as a user's hold, nudge | executor, override hold |
| **Compressor guard** (`multi/lifecycle.py`) | is the compressor on, since when off, mode, since when | fold a tick, block a mode change | mode channel, store |
| **Override hold** (`control/override_runtime.py`) | hold with expiry, presence memory | set, expire, resume, cancel on schedule or presence | climate entity, store |
| **Safety** (`safety/`) | watchdog timers, convergence counters, heating-failure window | feed a sample, raise or clear | prepare phase, repairs |
| **FSMs of comfort** (`comfort/vent_episode.py`, `control/window_auto.py`, `control/fan_first.py`) | episode state and stamps | feed a sample | pipeline |
| **Stores** (`storage.py`, `persistence/`) | one JSON document per zone, one for the hub | load, save, delayed save, remove, migrate | zone, hub |
| **Estimators, comfort physics, controllers** (`estimation/`, `comfort/`, `control/mpc*.py`, `control/tpi*.py`, `control/pi*.py`) | real-valued filter states | update, evaluate | pipeline |
| **Entities, forms, diagnostics, card** | none of their own | render, submit | coordinator |

Everything runs on one asyncio loop, so the interleavings are those at awaits:
a blocking service call, a store save, a forecast request. Home Assistant
delivers state events, timer ticks, user commands and entry changes between
any two of them.

### 1.2 What is hard in it

* **Time.** Dwell times, delays, keep-alives, throttles and holds are
  differences of stamps, monotonic while the process lives and wall-clock
  across a restart, where the clock may also have been set back.
* **Calls that fail, hang, or succeed late.** The device is remote; a call is
  bounded by a timeout, and what timed out may still arrive.
* **Knowing who did it.** The zone must tell a user's change on the device from
  the echo of its own command.
* **Restarts.** What is restored may be older than what was done last.
* **Reloads.** An entry can be unloaded while one of its ticks waits.
* **Silence.** A zone that hangs leaves a dict that looks alive.

### 1.3 What makes each component correct

* Hub: no short-cycling of the boiler, no stuck boiler, frost protection that
  no threshold outvotes, nothing switched that is not its own, and off when it
  is relinquished.
* Compressor guard: no restart of a compressor inside its rest time, no flip
  between cooling and drying inside the hold, and yet every wish served in the
  end.
* Mode and setpoint channels: no echo adopted as a user's wish, no user's wish
  overwritten, and convergence once nobody interferes.
* Override hold: it ends when its rule says so and not before, also over a
  restart.
* Zone store: what a user set is not lost by an orderly stop, and by a crash
  only within the documented cadence.
* Watchdogs and FSMs: no flapping, no verdict from stale samples, no state they
  cannot leave.

## 2. The modules

| Module | Models | Kind |
|---|---|---|
| `BoilerStep` | `control/hub_aggregate.py`: the pure boiler step (latch, delay, dwell gate, keep-alive) | operators |
| `HubDemand` | what the hub reads of the zones, and `aggregate_boiler_demand` | state machine of the zones, pure demand |
| `BoilerPromise` | the abstract specification: what a boiler may expect of whoever is in charge of it | abstract specification |
| `PoiseHub` | the hub: tick, blocking call, save, restore, reconcile, entry life, restarts, unfinished ticks | state machine, extends both; implements `BoilerPromise` |
| `PoiseHubProofs` | theorems about `HubDemand` and `PoiseHub` | TLAPS |
| `CompressorGuard` | the compressor guard of a zone: lifecycle fold, block, mode channel, store, restarts, and the air conditioner | state machine |
| `OverrideHold` | the manual hold: setpoint and mode with one lifecycle, its rules of expiry | operators |
| `ModeChannel` | the mode channel of a zone: observation, adoption as a hold, nudge, restarts, the device and the user's hands on both | state machine, extends `OverrideHold` |
| `ModeChannelProofs` | theorems about `ModeChannel`, and about both parts of `MCChoices` | TLAPS |
| `SetpointChannel` | the setpoint channel: observation, adoption, write economy, dispatch, a device that rounds | state machine |
| `WriteConvergence` | the watchdog folded into every tick of that channel | state machine, extends `SetpointChannel` |
| `SetpointChannelProofs` | theorems about `SetpointChannel` and `WriteConvergence` | TLAPS |
| `TickProgram` | the order of a tick's reads, commands and stamps, with user, device and errors in its awaits | state machine |
| `ZoneLifecycle` | the life of a room's entry: setup, refresh, save, options, unload, park, removal, stop, crash | state machine |
| `ZoneLifecycleProofs` | theorems about `ZoneLifecycle`, and about both parts of `MCEntries` | TLAPS |
| `TrvCalibration` | who owns the offset of a radiator valve, and its way back | state machine |
| `TrvCalibrationProofs` | theorems about `TrvCalibration` | TLAPS |
| `SensorSource` | whose thermometer a valve regulates by | state machine |
| `RoomObservation` | readings, window contact and detector, and the gate before the learners | state machine |
| `FailureAlarm` | heating without effect: detector, issue, ledger | state machine |
| `FanFirst` | the fan stage before the compressor | state machine |
| `DeviceProofs` | theorems about `CompressorGuard`, `TickProgram`, `FailureAlarm` and `FanFirst`, beside each other in `MCDevice` | TLAPS |
| `VentTable` | the rule table of the ventilation advice | operators |
| `VentAdvice` | the advice as a zone lives it: latch, announcement, notification | state machine, extends `VentTable` |
| `VentEpisode` | the episode machine that closes a loop with the table | state machine, extends `VentTable` |
| `RoomsProofs` | theorems about `RoomObservation`, `VentAdvice` and `VentEpisode`, beside each other in `MCRooms` | TLAPS |
| `ComfortSchedule` | comfort windows over a cyclic week, against a reference definition | operators |
| `ComfortPlan` | what a zone aims for: schedule, presets, presence, pre-heat, coast, hold | state machine, extends `ComfortSchedule`, `OverrideHold` |
| `ZoneTarget` | what the aim becomes under floors, caps, lockouts and the mode of the device | state machine |
| `ZoneComfortProofs` | theorems about `ComfortSchedule`, `ComfortPlan` and `ZoneTarget`, beside each other in `MCZoneComfort` | TLAPS |
| `MC...` | instances for TLC; those named after a question put several components side by side | model checking |

The modules of a zone are cut where the code hands a value over: `ZoneTarget` and
`ComfortPlan` choose what is wanted, `CompressorGuard` and `ModeChannel` bring the mode
to the device, `SetpointChannel` the setpoint; `TickProgram` is the order in which one tick does all of it, and
`ZoneLifecycle` what surrounds the ticks. What a module takes from another is one
choice from a set (`plan`, `wish`), so that it is right for whatever the other does.

### 2.1 `BoilerStep`

The code keeps monotonic stamps and compares `now - stamp` with thresholds; the
model keeps the difference itself, saturated at the largest threshold it is
compared with, so no comparison can tell a saturated age from the true one and
the state space stays finite. `StepBoiler(b, demand, allowKeepalive)` is
`step_boiler`: it returns the next state and the call to make. `MinOn` and
`MinOff` include the clamp to `BOILER_MIN_DWELL_FLOOR_S` that the coordinator
applies when it reads its configuration.

### 2.2 `HubDemand`

`zone[z]` is what the hub can read of a room entry: the data dict of its last
successful tick (abstracted to the seven facts the aggregation looks at),
`last_update_success`, and the age of `mono_ts`. The actions are those of the
zones: `Publish`, `UpdateFails` (the old dict stays), `UnloadZone`, and time.
`Collected` is `_collect_requests`, `DemandOf` is `aggregate_boiler_demand`.

### 2.3 `PoiseHub`

| Code | Model |
|---|---|
| entry configured, disabled, removed | `entry`; `Create`, `Enable`, `Unload("disable")`, `Remove` |
| boiler actions configured | `wired`; `Unload("wire")`, `Unload("unwire")`, `Retarget` |
| `_actuate` up to its first await | `Tick`: restore once, reconcile once, step, and either no call or `pc = "calling"` |
| `await self._call(action)` | `Land` (the boiler obeys), `CallReturns`, `CallFails` (raise or timeout); time may pass in between, at most `CallTimeout` |
| `await self._persist()` | `Save`, `SaveFails` |
| `PoiseHubStore` | `disk`, wall-clock age included; a restart may set the clock back by up to `WallBack` |
| `async_unload_entry` | `Unload(reason)`: cancels the timer, sends the hand-over OFF for a genuine hand-over, drops the hub |
| a tick that an unload overtook | `orphan`: its call may still land and its save still run |
| `_remove_hub_entry` | `Remove`: the dead-man OFF, gated by the store |
| Home Assistant stops or crashes | `HaStop`: ticks die, memory is lost, zones are gone |
| the boiler | `power`, `held` (time since it really switched), `lost` |

`lost` counts what the record on disk is worth: 0, the last switch is the one
the store has a true stamp of; 1, one switch since; 2, worse or unknown. It is
a history variable that only the properties read.

`Faults` chooses what may go wrong: `"callFails"`, `"lateCall"` (a call that was
given up on has been obeyed), `"saveFails"`, `"loadFails"`, `"midCall"` (an
unload overtakes a tick), `"foreign"` (somebody else switches the boiler).

### 2.4 `BoilerPromise`

The abstract view has the boiler, the time it has held its state, how many
switches its controller cannot know of, and whether the controller is in
charge. A switch made in charge may end a run only after `RunTime` and a rest
only after `RestTime`, unless a switch is unknown. `PoiseHub` implements it
with `RunTime = MinOn - CallTimeout`: a call is stamped when it is decided and
takes effect up to a call timeout later.

### 2.5 `CompressorGuard`

One zone and one air conditioner. At the start of a tick the guard compares the
stamps of `multi_lifecycle` with min-off and mode hold and may hold back a mode
command; at its end `observe` folds what the tick saw of the device into the
same lifecycle. Stamps are ages again, one unit is a tick interval.

| Code | Model |
|---|---|
| a refresh of the zone | `TimerTick` (an interval after the last one), `EventTick` (at once: a watched entity changed), `FailedTick` (the service call raises: nothing is stamped) |
| guard, repetition limit, fold and save, in this order | `Nudge`, `Refresh` |
| everything else that chooses the mode (comfort, window, park mode, holds, overrides) | `wish`, one of `Wishes`, changed by `WishChanges`; `ResolveDesiredMode` and `Desired` translate it into the mode to command |
| a disabled zone, or one held off | `FrostRescue` |
| a tick without a room temperature | `BlindTick` with `SafeMode` |
| `climate.set_hvac_mode`, sent without waiting | `flight`: `Land`, `Lost` |
| the device and other hands on it | `DeviceCycles`, `Foreign`, `Vanishes`, `Returns` |
| unload or stop of Home Assistant; its death; setup | `Stop` (saves), `Crash` (does not), `Start` (reads, clamps stamps that lie in the future), `Elapse` |

`seen` is history: since when the ticks have seen the compressor rest and the
device in its mode. A stop that no tick has seen yet cannot bind the guard; that
it does not is noted under the findings. `Exempt` commands (safety layers, overrides) pass the
guard by decision and are outside the properties. `Faults` again chooses what may
go wrong, and `disk` holds a record of a running zone only when crashes are among
the faults, since an orderly stop overwrites it before it is read. A save that
fails at a stop is a crash for the model. How holds come and go is left to
`WishChanges`; it is the subject of `ModeChannel` and `OverrideHold`.

### 2.6 `OverrideHold`

`Hold` is the hold half of `UserControlState`: is a setpoint held (its value does not
matter here), which mode is, the age of `override_set_wall`, the time left until
`override_expires_at`, whether that is a switch point, and the origin. One operator per
function of `control/override_runtime.py` takes a hold to the next one:
`SetOverride`, `ClearOverride` (both halves of `set_override`), `SetModeOverride`,
`ExpireHold` (`expire_timed_states`), `EndAtPreheat`, `RestoreHold`; `end_hold` is the
constant `NoHold`. The time the schedule gives for the next switch point and a presence
change are inputs. The ages saturate at the longest time a hold can last, past which
every expiry is over.

### 2.7 `ModeChannel`

One zone and one climate device. The zone sees a mode and perhaps the Context of
whoever wrote it; from this, its last command and two stamps it must tell the user's
hand from the echo of its own command.

| Code | Model |
|---|---|
| a refresh of the zone | `TimerTick` (an interval later), `EventTick` (at once) |
| `expire_timed_states`, the end at preheat, `stage_hold_routing`, in this order | `Tick`: `ExpireHold`, `EndAtPreheat`, `Resumed` |
| `observe_mode`, re-alignment, pinning, `freeze_mode_reference` | `Adoption`, `Desired`, `Reference` |
| `_stage_mode_nudge`, `_stage_frost_rescue` | `Regulate`, `Rescue` |
| a tick without a room temperature | `BlindTick` |
| the rest of the tick, which wants a mode and knows of open windows and frozen sensors | `plan`, one of `Plans`, changed by `PlanChanges` |
| `climate.set_temperature`, `set_hvac_mode`, `turn_off`, `turn_on`, `poise.resume_schedule`, the options form | `SetTemperature`, `SelectActiveMode`, `Toggle`, `Resume`, `ChangePolicy` |
| `climate.set_hvac_mode`, sent without waiting | `flight`: `Land`, `Lost` |
| the device and its integration | `UserSelects`, `Reports` (an attribute changes, and the state loses its Context), `Vanishes`, `Returns`; `tags`: does the integration pass the Context on |
| unload or stop, setup | `Stop`, `Start` (stamps are stale, Contexts gone), `Elapse` |

Here the compressor guard is a nudge that may be `held` back. A setpoint
write of the same tick (`wrote`) matters only because it marks the state with the
own Context; what it writes is left to `SetpointChannel`. Three variables are history, read by properties
and by the bounds on faults only: `fresh`, the user has chosen a mode at the device
and no tick outside the echo window has decided on it; `astray`, something went wrong that the zone
cannot know of (a command lost, an outage, a reload with a command under way, a safe
state commanded without a stamp); `calm`, nobody interferes any more.

### 2.8 `SetpointChannel` and `WriteConvergence`

A tick reads the setpoint the device shows (`Reason` is `setpoint_adopt_reason`), takes
one the user has turned over as a hold, or writes its own unless the same command is of no
use (`Idempotent`, `Throttled` are `reassert_idempotent` and `reassert_throttled`).
`Settle` is what the device makes of a setpoint it is sent: its rounding or clamp.
Commands are `flight`; they land, are lost, or land late. `deaf` is a device that has
stopped listening. `WriteConvergence` folds the counter of diverged writes into the
same tick (`Observe`) and reports with `Escalated`. `fresh`, `astray` and `calm` are the
history variables of `ModeChannel`.

### 2.9 `TickProgram`

`pc` names the awaits of one tick: the forecast, the mode dispatch, the fan write (whose command is `FanFirst`'s:
`FanDone` is only the wait), the setpoint dispatch, the save. Between two of them nothing can happen, so everything the code does
from one await to the next is one action; at them `SetOverride`, `ClearOverride`,
`SetEnabled` (no lock) and `Turn`, `Switch` (at the device) may come in. `tick` is what
the tick has read so far, `ledger` what it has stamped, `ghost` remembers the commands sent
and the events told. Throttles and guards are coins: they may hold back what they may.

### 2.10 `ZoneLifecycle`

| Code | Model |
|---|---|
| `async_setup_entry`, `async_bootstrap` | `SetUp`, `ComesUp` |
| the coordinator's lock | `lock`, a queue whose head holds it |
| a refresh under the lock | `Refresh`, `TickSends`, `TickCommits` (`mark_actuated`), `TickFinishes`, `Saves`, `TickRaises` |
| user commands, which take no lock | `Command` |
| `async_apply_options` | `OptionsSubmitted`, `ApplyOptions` |
| `async_quiesce`, the platforms, `async_persist_and_cleanup` | `Unload`, `Quiesced`, `PlatformsUnload`, `FinalSave` |
| `_park_room_actuator`, `async_remove_entry` | `Park`, `Enable`, `RemoveDisabled` |
| `async_flush_on_stop`; death; a damaged file | `Stop`, `FlushOnStop`, `Crash`, `Torn` |

The store is reduced to four facts: the user's intent, is anything learned, is there
a mould dose, has the zone actuated. What a tick decides is left open.

### 2.11 `TrvCalibration`

Offsets are steps of the number's grid. `num` is each number entity (readable or not, the offset it
shows, the command under way), `rt` the ownership in memory, `disk` in the store.
`Tick` is segment H or W with the save at its end: `HandOff` while another compensation is live, `Regulate`
otherwise. `PrepareSwap`, `ReloadSwapped`, `SwapUnloaded`, `Disable`, `Remove` are the ways
an offset is handed back outside a tick; `Rename` gives the number another name. `first`
is history: what a number showed before Poise first wrote to it.

### 2.12 `SensorSource`, `RoomObservation`, `FailureAlarm`

`SensorSource`: the room sensor dies and returns, the valve is away, reboots or flips its
switch, calls are lost; `Handback` and the feed are what a tick does about it.
`RoomObservation`: a reading is measured, derived or a default; the slope detector and the
contact give the window verdict, the learners' anchors delimit the intervals they integrate.
`FailureAlarm`: the detector steps over live ticks, blind ones pass it by, the issue follows the
verdict through the ledger of `runtime/issue_ledger.py`.

### 2.13 `FanFirst`

The stage machine (`ff`), its memory of commands (`ext`), the device with commands that travel, and a
user who picks a stage. `choice` remembers what the fan showed before the sequence.

### 2.14 `VentTable`, `VentAdvice`, `VentEpisode`

`ventilation_advise` is one verdict by precedence: `Rules` is the list in the code's order, the
first that applies answers. The air is a record of what the rules tell apart
(`Airs`). `VentAdvice` is the tick that keeps the latch and announces changes; `VentEpisode` is
`episode_step`, fed with any verdict the table can give for the flags of its own phase (`Answers`). The
episode machine is not called by the glue code at this commit; it is modelled as its tests drive it.

### 2.15 `ComfortSchedule`, `ComfortPlan`, `ZoneTarget`

A week has few days of few slots. `StateAt` is `state_at` over the expanded intervals, seam
included; the reference definition asks each window. `ComfortPlan` adds presets and their
timed Boost, presence levels, pre-heat and coast with their latches, and a hold. Its learned
model is exact in the slow direction. `ZoneTarget` decides heat, cool or idle from
temperatures in quarters of a kelvin, and comes to a setpoint under floors, caps and lockouts; the arbitration of `dry` and
`fan_first` (`comfort/mode_seam.py`) is left out.

### 2.16 Composites

Components that share no state are checked side by side in one run: a composite holds the
variables of all of them and `part`, chosen initially, which names the one that moves. Its
states are the disjoint union of theirs, so each property is checked on exactly the
behaviours of its component. Its fairness is the fairness of each part while it is the one that moves.
A composite that theorems speak of (`MCDevice`, `MCRooms`, `MCZoneComfort`, `MCChoices`, `MCEntries`) has the constants of its parts
as its own, assumes of them what the parts assume (`PartsAssumption`, `RoomsAssumption`), and takes their values from the `.cfg`.
`MCChoices` and `MCEntries` instantiate a component through its proof module, so that the theorems proved there can be cited for the
part.

## 3. The runs

| Run | Question | Result |
|---|---|---|
| `hub_cycle` | With failing calls, saves and loads, restarts and a clock set back: does the hub keep the boiler's promise and know its state? | yes |
| `hub_serves` | After foreign switches and lost or late calls, does a lasting demand (or its absence) reach the boiler, do hung zones release it, does a parked one keep it? Does a room bring intent to disk and options into effect? | yes |
| `entries` | Does a room that is unloaded, disabled, removed or stopped leave its device, its issues and its store as it should, with crashes, torn files, failed saves and parks? Does removing, disabling or unwiring a hub turn its boiler off, and does nothing of the unloaded entry turn it on again but a call that was under way? | yes |
| `rooms` | Demand of three zones against silence, outsiders, dead sensors, frost; the window verdict and the learners against sensors; the advice against the air; the episode against the advice | all as they should |
| `zone_serves` | Does the compressor end up in the mode the zone asks for; does a valve follow the room sensor while there is one? | yes |
| `mode_agree` | A radiator with a window sensor under all faults: do device and zone come to agree? | yes |
| `calibration` | Is the user's offset ever lost, a correction made twice, an offset kept that should be handed back? | no |
| `setpoint_obeyed` | Do device and zone agree on the setpoint; is a deaf device reported, and an obedient one spared? | yes |
| `choices` | Is a hold always whole; does anything but a choice of the user become a hold, or one choice two; does a repetition overrun a choice? | yes; no; no |
| `device` | A start inside min-off, a flip inside the hold, a start held back for longer? Is the fan given back, do the books of a tick match its device, is the alarm honest? | no; yes |
| `comfort` | Does the schedule tell the clock; are setbacks and boosts earned and given back, is a room left alone within a level of its target when comfort begins, does the target settle? | yes |
| `zone_dose` | Does the mould dose survive a restart? | no: finding 1 |

**Bounds.** One unit of time is a step of the clock or a tick; thresholds are 0 to 5 of
them, chosen so that each is passed, reached exactly and missed, and so that
the dwell floor lies above one configured dwell and below the other (`DwellFloor = 4`,
`MinOnCfg = 3`, `MinOffCfg = 5`). Ages saturate, so runs are unbounded in length. One
zone is enough for the hub because it reads nothing of the zones but `Demand`; the
rules about several zones are checked in `rooms`, with three zones, one of them not opted in, and
thresholds that one zone alone cannot reach. At most one unfinished tick (`orphan`)
exists at a time: a second needs a second unload within one call timeout.

For the compressor min-off is 2 or 3 ticks and the mode hold and repetition limit
0 to 2, so that each can end before, with and after the others. For the mode channel the echo
window is 2 ticks and the repetition limit 3 (120 s and 600 s in the code): only their order
matters, and that a tick falls inside, on the edge and outside of both. Two commands may be under way
(`Depth`): a late one and its successor. The mode part of `choices`
has lateness but no other fault, because there the properties must hold without excuse, and two policies of the hold;
`mode_agree` has two modes, one policy and every fault, at most one of which leads astray per run.
The setpoint channel has a grid of three setpoints, enough for a command, the
value before it and a third one of the user's. In `choices` it has two plans, ticks that
see no room temperature and nudges of the mode; restarts and the other faults are those of `setpoint_obeyed`. In
`hub_cycle` nobody else switches the boiler; in `hub_serves` a call is answered within its unit (`CallTimeout = 0`), others switch
it as well, and a stamp one unit old is stale (`StaleAfter = 0`). `Waiting` is 1 in `entries`: with the holder, two
tasks compete for the lock; 2 in `hub_serves`, without faults. The offsets of `calibration` are 0 to 2,
so that a compounded correction is clamped in neither direction at first. The clock part of `comfort` has a week of two days
of five slots, every window of it alone and beside some others (`ManyWeeks`). The airs of `rooms` have no CO2 value, since no tick passes
one. The temperatures of `comfort` are one below, in, and above each band.
An airing episode has budgets of one and two. Faults of a kind are counted where they would make a premise void (`Troubles = 1`,
`Errors = 1`).

**Fairness.** `FairSpec` of the hub has weak fairness of the tick (`async_track_time_interval`
fires whatever the entities do), of the setup of an enabled entry, of time, and
of a call that nothing prevents: it lands, returns, and its save runs. Zones owe
nothing; they may hang for ever. Faults and interference are never fair: the
liveness properties start from `calm`, the moment the last one is over, or ask for it. The
compressor's and the channels' have weak fairness of the timer tick, of the setup, of the return of the device and of
the arrival of a command. Once it is `calm` a tick of the mode channel has no choices left (no presence change,
preheat, rescue or guard), so that its fairness cannot be met by ticks that never do
anything. `Agreement` asks for a zone that stays enabled, and excuses one state: a zone held off whose
device was switched on by the zone's own late command, until an attribute of the device
changes (see the notes). A room has weak fairness of whoever holds its lock (the event loop), of setup (Home Assistant retries)
and of the refresh (the timer), and strong fairness of ticks that see a room
temperature: a zone that is blind at every second tick still sees at the others. The
calibration has fairness of the tick, of the reload after a swap, and of a thermostat that
applies and reports. `ArrivesWarm` needs no fairness: it is stated over slots of the clock.

## 4. The theorems

Eight modules hold the 43 theorems `PROJECT.json` lists, and the lemmas they rest on. Every invariant and every action property of the
passing runs is stated by one of them; the runs check it on a small instance, the theorem holds for every value of the
constants that meets the named assumptions. Each was checked by TLC on a small instance before it was proved, and so was the
inductive invariant behind it, with the faults the theorem allows. A hypothesis of a theorem is a named definition of its
module or a condition on constants, is met by the constants the program really has; where TLC refutes the statement without it, this section says so.

`PoiseHubProofs` proves, for every value of the constants that meets the named
assumptions:

* `TypeCorrect`: `Spec => []TypeOK`.
* `BeliefHolds`: a reconciled resting hub believes what the boiler does,
* `PromiseKept`: the hub implements `BoilerPromise`,

the last two under `SoleActor`: nobody else switches the boiler, no call lands
after it was given up, no unload overtakes a tick. All other faults are allowed
there: failing calls, saves and loads, restarts, clocks that jump back. The assumption
is needed: with `"foreign"` the belief is simply false until the keep-alive
repairs it, with the other two an ON may land that nobody remembers.

The inductive invariant `IInv` adds to the type invariant what each place
remembers of the boiler:

* `Control`: which of `entry`, `pc`, `pend`, `callAge`, `landed` go together;
* `BeliefSound`: what the hub believes, once it is reconciled, is what the
  boiler does, and before it is, what the record allows;
* `BeliefCurrent`: the age in memory is not larger than the time the boiler has
  held its state, up to the call timeout;
* `StoreSound`: the same of the record on disk, as far as `lost` excuses it not;
* `CallSound`: the step under way was computed from a sound belief;
* `SaveSound`: what is about to be saved is what the boiler did.

`KeepsPromise` is not inductive by itself: that a switch is late enough follows
from the gate, which compares the age in memory, so the memory (after a restart
the record, in a call the pending step) must be tied to the boiler. The proof
has one lemma per action, and the refinement is proved step by step from
`IInv` and `IInv'`.

`DeviceProofs` proves of the compressor guard, under `GuardAssumption` (the constants have their
types, `None` and `Running` are no numbers):

* `TypeCorrect`: `Spec => []TypeOK`, with all faults: however far a restart sets the
  clock back, no stamp is read further in the future than the skew tolerance;
* `LockIsKept`: `Spec => LockHolds`,
* `HoldIsKept`: `Spec => FlipsAreHeld`,

the last two for a `Trustworthy` device and host: it reports its action, it stays
reachable, and every stop is orderly. The notes of section 5 on silent devices, outages and
crashes show that each of the three is needed. Foreign hands, lost and failed commands, restarts and backward clock
jumps are allowed. The invariant `LockInv` says that the lifecycle, in memory or in
the store, *knows* what the ticks have seen (`Knows`): running if they saw it run, never
a longer rest or stay than they saw, and no stamp only if it would long have run
out. Aging, folding and reading back each keep it (`KnowsAged`, `KnowsFolded`, `KnowsRead`).

It also proves `GuardOnlyDelays`, under `Trustworthy` and a wall clock that is not set back
(`WallBack = 0`: a clamped stamp begins the rest anew, so that a start may wait longer than min-off): the invariant
`LockInv` has to be strengthened by the converse, that what the lifecycle knows is not *younger* than what the ticks have seen.

`ModeChannelProofs` proves, under `HoldAssumption` and `ChannelAssumption` and with
every fault allowed:

* `TypeCorrect`: `Spec => []TypeOK`, proved together with the next one (`TypeInv`), because an
  expiry is in range only on a hold that is whole;
* `HoldStaysWhole`: `Spec => []HoldIsWhole`, with one lemma for each operator of `OverrideHold`;
* `ChoicesAreTakenOnce`: `Spec => ChoiceIsTakenOnce`, for every number of commands under way.

The last one needs to know why the device is in a mode that the zone has not wanted
last. `ChoiceInv` says so: unless something went astray, what the device shows is
*explained* (`Explained`): the user's choice is undecided, or it is what the zone commanded
last, or the reference already has it, or commands are under way and their echo window
is still open. The commands under way end with the last one recorded
(`EndsWith`), and past the window only repetitions of it are
(`OnlyRepeats`), so a command that lands late changes nothing the zone does not expect. In each
of these cases one guard of `mode_adopt_reason` refuses: own command, stable mode, or echo
window; what is left is the user's hand.

The same module proves `WindowIsSpared`: `Spec => WindowSparesChoice`, with every fault. It needs no more of the
past than that a repetition is limited for at least as long as the window is open (`ChannelAssumption`).

`PoiseHubProofs` has a fourth theorem, `RemovalStaysOff`: `Spec => RemovalLeavesItOff` if the store and the calls work
(`StoreWorks`), whoever else switches the boiler, with late answers and unfinished ticks. The property has four parts: the
removal turns the boiler off (`RemovedIsOff`), so does disabling or unwiring (`HandedOverIsOff`), an unloaded hub turns nothing on
but by a call that was under way (`StaysOff`), and only an unload in the middle of such a call leaves one behind
(`OnlyWhatWasUnderWay`). `GoneIsOff` is what the code's comment promises, `Spec => []Relinquished`, where it is true: when no
unload overtakes a tick and nobody else is at the boiler (`NoneInterferes`).
`HubLeavesItOff` (`ZoneLifecycleProofs`) carries it over to the run `entries`: the hub's part of `MCEntries` is a behaviour of `PoiseHub`. Its invariant
`Marked` says that an acknowledged call has marked the store, and so has each call the instance knows of except the one whose save is
under way.

About `HubDemand` it proves `ZonesAreTyped`, `DemandStaysSound` and `SilenceRaisesNothing` for all zones, powers and
thresholds, from the type invariant of the zones alone. The demand adds the powers of the rooms
that call; that a zone which falls silent lowers no sum but its own is shown by induction over the finite set of zones.
The library's induction theorems are out of the provers' reach (see below), so the lemma takes a smallest set that
contradicts it, which exists because strict inclusion is well founded on finite sets.

`TrvCalibrationProofs` proves, if no command is still on its way at the next tick (`Prompt`): `BooksAlwaysFit` (the
invariant), `NoOffsetIsLost` and `NoCorrectionCompounds`. `IInv` says who answers for a
number that does not show the user's offset: the instance, after it ended the record, after removal the issue the
user was told (`OffsetsAreHeld`); that the baseline is the original (`BaselineIsOriginal`); that a swapped-out number is
left clean (`OldNumberIsLeft`, `FedIsClean`, `NewNumberIsFresh`); and that books and report match the thermostat
(`RestIsRestore`, `InstanceFits`, `ReportFits`). With `"slow"` a command decided by an earlier
tick overtakes the restore, which TLC shows in a few steps.

`ZoneLifecycleProofs` proves `EntryAlwaysEndsClean` and `EntryNeverLoses` with every fault, cadence and limit, under
`LifecycleAssumption` alone. `IInv` has a part for each thing an unload may catch in the middle: who holds and waits for the lock
(`LockInv`), what a save under way carries (`SaveInv`), whether a device that was commanded is known to be (`ActedInv`), where the
user's intent is (`IntentInv`), which issues are in the ledger (`IssueInv`), what was learned (`ModelInv`). TLC checked it on
1 049 386 states of the room of `entries`, and on 4 892 758 with every limit at 2.

Of the tick's program `DeviceProofs` proves `LedgerIsTrue`, `ModeAlwaysCarriesItsSetpoint`, `OffIsAlwaysSpared` and `EveryEndIsTold` for all
plans (`PlansAssumption`: they have their types). Together they are
`BooksAreKept`: `PartsSpec => TickKeepsItsBooks`, the property of the run `device`.
`IInv` is an annotation of the tick's program: at each label, what may be assumed of the
device's mode (`ModeInv`), of its setpoint (`SetpointInv`) and of the hold (`HoldInv`), given that user, device and errors may
have come at every await before it.

`SetpointChannelProofs` proves

* `TypeCorrect` and `WindowIsSpared` with all faults;
* `SetpointsAreTakenOnce`: `PlainDevice => (Spec => ChoiceIsTakenOnce)`. The setpoint channel judges a value, not an
  event, so this holds under narrower conditions than for the mode: with two commands under way (`Depth = 2`), or two turns of
  the wheel between a command and its arrival (`"race"`), a value the device passes through may be taken for a choice;
  with a window of one tick no tick falls into it; a device that rounds shows what nobody has chosen. Every
  other fault is allowed. `ChoiceInv` has three parts: while no choice is undecided the device has `Reached` what it was told,
  what it shows is `Explained` by the baseline, by the tick before or by a command about to land, and the one command `UnderWay` is
  known. TLC checked it on 4 152 384 states, and refutes it for `Window = 1` and for `"race"`. `SetpointIsHeard`
  (`ModeChannelProofs`) carries types, choice and window over to the run `choices`, whose setpoint part is a behaviour of `SetpointChannel`;
* `NobodyIsAccused`: `Undisputed => (WSpec => []NotAccused)`. A device that follows, one step off at most, is
  never reported. The watchdog does count a command as diverged while it is on its way; the invariant (`CommandInv`, `CountInv`) says
  that this is the only time it does, that no time passes there (`FailMin >= 1` is what separates the count from the report),
  and that the report which ends it is evidence, so that the next tick resets the count. TLC checked it on 318 156 states with a
  device that settles one step off, and refutes it for `FailMin = 0`.

Of the failure alarm it proves `StallsAreTold`, `VerdictsLatch` and `IssueTellsTheVerdict` for all windows, rises, rooms and
setpoints with every fault, and from them `AlarmTellsTheTruth`: `PartsSpec => AlarmIsHonest`. That the windows of the detector
lie anywhere across a stall is what makes the first one hard: `Stalls` says that a window opened *within* the stall began no colder than
the room is now, and that one which also ended within it has failed; two windows of stall always contain a whole one. `Verdicts` says that the
window under way began no colder than the coldest room since the alarm, so that a verdict taken back has seen the rise. TLC
checked the invariant on 42 944 states.

Of the fan stage `DeviceProofs` proves `FanComesBack`: `PartsSpec => FanIsGivenBack`, for all timers, budgets and queues of commands
(`FanAssumption`), with commands lost or late and with restarts. The memory of the sequence is spread over the stage machine,
the ledger of commands, the commands on their way and what the fan shows; the invariant ties them together:
`FanTypes`; while nobody has come in between, what was found is what will be given back (`Undisturbed`); once the user has
answered the stage, nothing of the sequence is on its way and nothing will be (`Answered`). It is stated where the idle circulation is not configured
(`~Circulates`), since circulation moves the fan on purpose. TLC checked the invariant on 3 106 656 states.

`RoomsProofs` proves, under `RoomsAssumption`:

* `VerdictIsEarned`: `PartsSpec => WindowVerdictIsEarned`. `ObsInv` adds to the types that a detector which says *open* has been stepped
  often enough and not for too long, and that each anchor delimits an interval of undisturbed ticks with readings that
  were fit (`StandsCounted`, `AnchorsAreClean`). TLC checked it on two instances of 7 752 and 9 012 states;
* `AdviceStaysSteady`: `PartsSpec => AdviceIsSteady`, where no air has a CO2 value (`ha/phase_prepare.py` passes `co2=None`) and the
  option is neither switched off nor reloaded alone (`AdviceFaults = {}`: a notification then stays behind). The proof is about the
  rule table: which row answers before which. While the air stands still and no free cooling is on, an airing for moisture that
  was announced remains the answer with the window shut or open (`AiringIsKept`), so that the advice turns at most once;
* `AiringIsTold`: `PartsSpec => EpisodeIsTold`, for every budget, delay and quiet time, if protection has no smaller
  budget than comfort (`EpisodeCap[FALSE] <= EpisodeCap[TRUE]`: 4 against 10 prompts in the code). The budget of an episode is only kept because
  protection, once spoken of, stays the episode's kind; so `EpisodeOK` says who owns the airing (`Owned`), that what was spoken is
  held (`SpokenIsHeld`), that the prompts are counted across the phases (`Counted`), that it escalated at most once
  (`EscalatedOnce`), and for what a stop is latched (`LatchedFor`). TLC checked it on 30 880 states.

`ZoneComfortProofs` proves

* `ScheduleTellsTheClock` and `ClockIsTold`, for every number and length of days and every set of windows (`WeekAssumption`). The code splits a window
  over midnight, sorts, merges, and looks for the next edge round the seam; the plain meaning asks of each window whether the instant lies
  in it. Both are put as arcs of the cyclic week; the step that carries the proof is that the nearest edge of merged intervals is
  the nearest edge of the union of arcs;
* `PlanTakesNothingUnearned`: `PartsSpec => []PlanIsEarned`, under `PlanAssumption`. The invariant says that timers stand exactly while what they
  time does (`TimersAgree`) and where a pre-heat is on its way (`OnItsWay`). TLC checked it on 230 048 states;
* `RoomArrivesWarm`: `PartsSpec => ArrivesWarm`, under `HorizonAssumption`: the optimal start may look far enough ahead for the coldest
  room to be heated. With a shorter horizon a room comes too late, as it does in the house. The argument: the lead is renewed
  at every tick, and each tick of heat gains what the lead counted on;
* `TargetComesToRest`: `PartsSpec => TargetIsSteady`, for all bands, floors, caps, lockouts and devices whose smallest setpoint is not above
  their largest (`LimitsOrdered`). A tick that reads what the last one read commands what stands. The commanded setpoint is rate-limited against
  the last edge, raised to the floors and capped, and the edge is what it remembers; `TargetInv` says that after a
  tick the device stands at the command for the remembered edge (`CommandAt`), and `CommandIsRepeated` that this command is a fixpoint.
  `EnvelopeHolds` keeps every target within the device's range but for the floors.

**Only model-checked.** Liveness, because ENABLED and fairness are out of the prover's reach: `HeatArrives`, `BoilerRests`,
`LostZonesAreAnswered`, `RoomKeepsUp`, `WishIsServed`, `SourceFollowsTheRoom`, `Agreement` of both channels, `HandsBack`,
`DeafIsReported`. Theorems of the library that take an operator as a parameter (induction over numbers and
sets in their general form) cannot be instantiated by the provers at hand, which is why that one induction is
spelled out.
The merge of overlapping stretches, a loop in the code, is therefore defined by the longest intervals it yields (`Merged`).

## 5. Findings

1. **The mould dose is lost at every restart** (run `zone_dose`). It is saved
   (`coordinator.py:1133`) and decoded (`persistence/codec.py:634`), and `ZoneRuntime.restore` never
   assigns it; `runtime/state.py:371` says a restart "must not silently reset" it.

Met while modelling, and confirmed by TLC on the models where they can be stated, without a run of their own:

* **The hub's store outlives its entry.** Its key does not depend on the entry and
  nothing deletes it, so a hub that never commanded anything inherits
  `has_actuated`, and removing it turns a foreign boiler off
  (`__init__.py:551` says it must not).
* **An unload does not wait for the tick under way.** Its ON may land after the
  hand-over OFF, and then the boiler runs with nobody in charge: the comment at `__init__.py:397` says that with
  the timer cancelled a tick cannot "switch the boiler back ON after we relinquish it", and `tick_unsub()` at
  line 402 ends the timer only. `PoiseHub.Relinquished` states the comment; no run lists it because TLC
  refutes it under the faults of `entries` (a tick calls for heat, the entry is removed, the OFF arrives, then the ON). What does hold is
  in `RemovalLeavesItOff`: it takes a call that was under way.
* **A made-up room temperature moves the window verdict.** The comment at `control/pipeline_prepare.py:304` treats a
  reading of the DEFAULT source like a frozen sensor, "instead of regulating on [...] a fabricated constant"; line 697 hands it to
  the slope detector all the same. `RoomObservation.FabricatedRoomMovesNoWindow` states the comment for the window; no run lists it because it is false:
  in the bounds of `rooms` the jump to the constant takes back a verdict, and with `DefaultRoom = 1` it also makes one.
* **A silent device is locked for one tick only.** The tick whose start the guard has
  held back folds its own wish to cool as a running compressor, so the next tick
  finds no rest to protect; the fallback exists to give such a device its lock
  (`ha/phase_shadow.py:315`).
* **Resuming the schedule leaves a mode held.** `set_override(None)` clears the setpoint
  of a hold, and a mode adopted from the device stays pinned until the hold expires or
  the user acts at the device; `__init__.py:136` and `strings.json:411` promise the
  return to automatic control. Selecting an active mode at the zone's entity
  (`climate.py:471`, "clears any manual hold") does the same.
* **A calibration may get stuck in silence** (`CorrectedOrReported`, which no run lists because it is false): after a restart in the middle of a
  correction the command is re-adopted without a stamp; if a hand-back is dispatched and the option returns before it
  lands, the number never shows that command, the evidence gate never opens, and "offset not applied" is
  never reported, since its age is counted from a write.
* A parked zone whose updates then fail goes on calling for heat: `_collect_requests`
  takes the parked branch before it looks at `last_update_success`, which the comment
  at `hub_coordinator.py:234` does not say. For frost the order may well be wanted.
* A crash may lose the compressor lock: the fold does not make the zone dirty, so the
  record may be 30 ticks old and still say *running*. `runtime/zone_runtime.py:656`
  promises the lock across a restart; an orderly one keeps it.
* An outage of one tick loses the compressor lock: an unavailable device has no
  `hvac_action` and is taken for a silent one that runs as intended
  (`multi/lifecycle.py:234`); the first tick that finds it again may start it at once.
* The tick that first sees a stop may restart the compressor, because the guard judges by
  the fold of the tick before.
* The hand-over OFF of a disabled hub is not persisted, so the next setup restores a
  stale ON until it reconciles; a timed-out ON that landed is answered by a keep-alive
  OFF that no dwell governs; without one readable state of the boiler entity the
  keep-alive never starts; a store that raises at removal means no dead-man OFF;
  a failed first save is not retried before the next flip.
* A mode that nobody has touched may be adopted after an outage: during it the reference
  becomes `unavailable`, so the return looks like a move to the docstring's "stable mode"
  guard (`control/override.py:409`), and if the command before it was lost, the mode is not the last
  commanded one either. This is why an outage counts as `astray`.
* A zone that has just adopted *off* may find its device switched on by its own late
  command. The state carries its own Context, so the escape of `stage_hold_routing`
  does not see a user in it, and "a stale off while the device runs"
  (`control/external_override.py:380`) lasts until an attribute changes, the hold ends, or
  the user acts.
* The safe state of a blind tick is commanded without Context and without a stamp; if
  the device obeys late, the tick that regulates again may adopt the mode it had before.
* Presence that is unknown for one tick, or over a restart, swallows the change that
  should end a hold (`control/override_runtime.py:305`).
* A second mode chosen at the device joins the hold that runs and inherits its expiry; a
  setpoint set later restarts it and takes over the origin.
* A choice made inside the echo window is lost if the same window sees a setpoint write
  of the zone: the state is marked with the own Context until an attribute changes.
* A rescue nudge stamps the echo window but not the repetition limit, so a repetition may
  follow it inside the window.

* Calibration: the first write after a hand-back may use a temperature from before it (`observe_calibration_resume`
  says the quarantine excludes that); a restore leaves no evidence behind, so it may pass for a correction;
  a rename of the number makes Poise take its own offset for the original; a report between dispatch and
  application defeats the evidence gate.
* Setpoint channel: a half-way value the device shows may be adopted; so may a return after an outage; two turns
  of the wheel that race with a write leave a hold nobody chose; a turn back to the value before the
  write, inside the echo window, is never adopted and is re-asserted against only after up to an hour
  (`control/write_economy.py:24` argues the other way); a slow obedient device may be reported.
* Entry: a first refresh that raises after it has commanded loses `has_actuated`; a store that cannot be
  read in the park ends the removal and leaves store and issues; a command during a save is
  marked persisted although it is not, and reaches the disk by the periodic save only
  (`coordinator.py:1180` says the flag guards that).
* Fan-first: a stage picked before the first command is overridden; disabling the zone, a restart, or a lost
  command cost the restore; it is not retried.
* Window detection: a room sensor that is unavailable between any two ticks resets the slope anchor each time, and
  an open verdict then ends by its longest duration only.
* Sensor source: a zone switched off leaves its valve on the external input with the last value fed, although
  `safety/sensor_watchdog.py:8` relies on the actuator's own sensor; a restart inside an outage gives no hand-back
  of a switch that was detected and not configured.
* Failure alarm: missed ticks count as a stall or as recovery alike, since only the clock passes (`safety/heating_failure.py:3`
  speaks of a sustained period); after a restart the first live tick clears an adopted issue; a
  disabled calibration keeps its issues although `_cal_inactive_edges` says no issue outlives its condition.
* Target: the outdoor lockout of heating does not bind a valve that can only heat (`control/cooling.py:3`
  calls it hard); an idle device is parked above the floor under lockout. The same in the other direction: `control/cooling.py:1` has lockouts
  and climate mode prevent "cooling when it is cold, or acting in a direction the device cannot do", and `idle_park`
  (`control/tick_resolve.py:327`) asks neither. A device shown in *cool* is parked at the cool edge; where a cap or the rate
  limit keeps that edge below the room, the device goes on cooling at an outdoor temperature that rules cooling out
  (`LockoutHolds`, which no run lists because it is false).
* Plan: a Boost chosen during an optimal-stop coast is ignored; a hold set while pre-heating may be ended by the
  next rising edge of the same pre-heat; blind ticks skip the expiry of timed states.
* Tick: a hold set while the mode command is awaited is overwritten by the adoption of an older choice at the
  device; one set while a rescue is awaited is torn down with it; when a mode command raises and the plan has
  changed its regime, the next setpoint goes to a device still in the old mode (`control/pipeline_actuate.py:461`
  holds it back for the compressor guard only).
* Episodes: a comfort reason that flickers with the window shut starts a new episode each time.

## 6. Not modelled

Real-valued control laws, filters and comfort formulas (TLC has no reals and
their properties are numerical), the arbitration of `dry` and `fan_first` (`comfort/mode_seam.py`, a stateless
choice), forms and rendering, diagnostics that act on
nothing, discovery of devices (pure classification). `PROJECT.json` lists every component with its reason.

## 7. Plan

What the code's core consists of is modelled: hub, demand, zone entry, tick, both channels with their watchdog, guard,
calibration, sensors, alarm, window, ventilation, fan, plan and target; every safety property of the runs is a theorem.
In order of weight, what is left:

1. `SetpointsAreTakenOnce` for more than one command under way, with the exact set of values that may be adopted wrongly;
2. the hypothesis `SoleActor` of the hub in two halves: which of its theorems survive an unload that overtakes a tick, and which a
   call that lands after it was given up;
3. the safety halves of the liveness properties (what each stage of `HeatArrives`, `HandsBack` and `Agreement` preserves until the next),
   so that only the fairness argument rests on TLC.

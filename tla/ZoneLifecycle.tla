------------------------------ MODULE ZoneLifecycle ------------------------------
(***************************************************************************)
(* The life of a room: setting up its entry from the store, the refreshes, *)
(* hot-applied options, saves and flushes that share one lock, unloading,  *)
(* disabling, removing, stopping and crashing (__init__.py, coordinator.py,*)
(* ha/tick_orchestrator.py, storage.py, persistence/codec.py).             *)
(*                                                                         *)
(* What a tick decides is left open: it may command the device, it may     *)
(* learn, it may fail.  The lock is an asyncio.Lock: a queue whose head    *)
(* holds it.                                                               *)
(***************************************************************************)
EXTENDS Integers, Sequences

CONSTANTS
  SaveEvery,   \* EKF_SAVE_EVERY_TICKS
  SaveLimit,   \* failed saves in a row that raise persistence_failed
  TickLimit,   \* failed ticks in a row that raise tick_failing
  Waiting,     \* tasks that may be waiting for the lock
  Faults,      \* which of FaultKinds may happen
  None

\* A save, a load, a tick, the unload of the platforms or the park fails; the
\* learned part of the store is torn; the process dies between two ticks.
FaultKinds == {"save", "load", "tick", "unload", "park", "torn", "crash"}

\* What the store holds of a zone.
Content == [intent : BOOLEAN, model : BOOLEAN, dose : BOOLEAN, acted : BOOLEAN]

ASSUME LifecycleAssumption ==
  /\ {SaveEvery, SaveLimit, TickLimit, Waiting} \subseteq Nat \ {0}
  /\ Faults \subseteq FaultKinds
  /\ None \notin Content

VARIABLES
  entry,   \* how far the entry is
  goal,    \* what it is being unloaded for
  shut,    \* listeners detached, coordinator shut down (async_quiesce)
  lock,    \* who waits for the lock, its holder first
  step,    \* how far the holder is
  live,    \* the runtime: the user's intent, model, mould dose, has_actuated, dirty
  counts,  \* _save_counter, _save_failures, _tick_failures, saturated
  disk,    \* the store
  payload, \* what the save under way carries
  issues,  \* Home Assistant's repair issues of this entry
  ledger,  \* those the coordinator knows it has raised
  device,  \* who has commanded the device last
  wish,    \* history: the user's last intent
  spoilt,  \* history: the last flush has failed, or the process has died
  orphan,  \* history: an instance has died before it could save that it had acted
  calm     \* history: no more faults

vars == <<entry, goal, shut, lock, step, live, counts, disk, payload, issues,
          ledger, device, wish, spoilt, orphan, calm>>

Entries == {"off", "setup", "loaded", "quiesce", "platforms", "final", "park",
            "stuck", "stopping", "disabled", "gone"}
Tasks == {"tick", "options", "quiesce", "final", "stop"}

Fault(f) == f \in Faults /\ ~calm
Holds(task) == lock # <<>> /\ Head(lock) = task
Release == lock' = Tail(lock) /\ step' = "begin"
Enqueued(task) == Append(lock, task)

FreshContent == [intent |-> FALSE, model |-> FALSE, dose |-> FALSE, acted |-> FALSE]
FreshCounts == [save |-> 0, saveFails |-> 0, tickFails |-> 0]
Kept(l) == [intent |-> l.intent, model |-> l.model, dose |-> l.dose, acted |-> l.acted]
Live(c) ==
  [intent |-> c.intent, model |-> c.model, dose |-> c.dose, acted |-> c.acted, dirty |-> FALSE]
-----------------------------------------------------------------------------
(* Repair issues.                                                          *)

\* HealthReporter.issue: a transition only, by what the ledger knows.
Raised(set, i, active) == IF active THEN set \cup {i} ELSE set \ {i}
Report(i, active) ==
  IF active = (i \in ledger) THEN UNCHANGED <<issues, ledger>>
  ELSE issues' = Raised(issues, i, active) /\ ledger' = Raised(ledger, i, active)
-----------------------------------------------------------------------------
(* Setting up.                                                             *)

\* codec.decode, ZoneRuntime.restore: what the user wants comes back even from a
\* store whose model part is torn; the mould dose is decoded and not assigned.
Restored(d) ==
  IF d.content = None THEN FreshContent
  ELSE [d.content EXCEPT !.model = @ /\ ~d.torn, !.dose = FALSE]

\* async_setup_entry up to the first refresh.  A load that raises is no empty store:
\* the setup is tried again later, and nothing has happened.  The issues that stand
\* are adopted.
SetUp ==
  /\ entry = "off"
  /\ live' = Live(Restored(disk)) /\ wish' = live'.intent
  /\ entry' = "setup" /\ shut' = FALSE
  /\ lock' = <<"tick">> /\ step' = "begin"
  /\ counts' = FreshCounts
  /\ ledger' = issues
  /\ UNCHANGED <<goal, disk, payload, issues, device, spoilt, orphan, calm>>

\* The first refresh is over: the platforms, then the listeners.
ComesUp ==
  /\ entry = "setup" /\ lock = <<>>
  /\ entry' = "loaded"
  /\ UNCHANGED <<goal, shut, lock, step, live, counts, disk, payload, issues,
                 ledger, device, wish, spoilt, orphan, calm>>
-----------------------------------------------------------------------------
(* Ticks.                                                                  *)

\* The timer, a listener, the end of a command or of an options update.
Refresh ==
  /\ entry \in {"loaded", "stuck"} /\ ~shut
  /\ Len(lock) < Waiting /\ \A i \in 2 .. Len(lock) : lock[i] # "tick"
  /\ lock' = Enqueued("tick")
  /\ UNCHANGED <<entry, goal, shut, step, live, counts, disk, payload, issues,
                 ledger, device, wish, spoilt, orphan, calm>>

\* The tick commands the device: control, frost rescue or the safe state.
TickSends ==
  /\ Holds("tick") /\ step = "begin"
  /\ step' = "sent" /\ device' = "poise"
  /\ UNCHANGED <<entry, goal, shut, lock, live, counts, disk, payload, issues,
                 ledger, wish, spoilt, orphan, calm>>

\* mark_actuated.  Seeded fault: the flip is not worth a save.
Unmarked(l) == [l EXCEPT !.acted = TRUE]
MarkActuated(l) == [l EXCEPT !.acted = TRUE, !.dirty = @ \/ ~l.acted]
TickCommits ==
  /\ Holds("tick") /\ step = "sent"
  /\ step' = "done" /\ live' = MarkActuated(live)
  /\ UNCHANGED <<entry, goal, shut, lock, counts, disk, payload, issues, ledger,
                 device, wish, spoilt, orphan, calm>>

\* _maybe_save.  Seeded fault: no save without a flag.
DueIfDirty(count) == live.dirty
Due(count) == count >= SaveEvery \/ live.dirty

\* finalize_tick and save_if_due; without a room temperature nothing is
\* learned, and nothing is saved but what is dirty.
TickFinishes(sees) ==
  /\ Holds("tick") /\ step \in {"begin", "done"}
  /\ LET count == counts.save + 1
         learnt == [live EXCEPT !.model = @ \/ sees, !.dose = @ \/ sees]
     IN  /\ live' = learnt
         /\ IF Due(count) /\ (sees \/ live.dirty)
            THEN /\ step' = "saving"
                 /\ payload' = Kept(learnt)
                 /\ counts' = [counts EXCEPT !.save = 0]
                 /\ UNCHANGED <<lock, issues, ledger>>
            ELSE /\ counts' = [counts EXCEPT !.save = IF sees /\ count <= SaveEvery THEN count ELSE @,
                                             !.tickFails = 0]
                 /\ Report("tick", FALSE)
                 /\ Release
                 /\ UNCHANGED payload
  /\ UNCHANGED <<entry, goal, shut, disk, device, wish, spoilt, orphan, calm>>

\* The awaited save returns; a tick that comes this far has not failed.
Saves(ok) ==
  /\ Holds("tick") /\ step = "saving"
  /\ ~ok => Fault("save")
  /\ LET fails == IF ok THEN 0 ELSE counts.saveFails + 1
     IN  /\ counts' = [counts EXCEPT !.saveFails = IF fails < SaveLimit THEN fails ELSE SaveLimit,
                                     !.tickFails = 0]
         /\ LET want == (IF fails >= SaveLimit THEN {"save"} ELSE {})
                known == ledger
            IN  /\ issues' = (issues \ (known \ want)) \cup want
                /\ ledger' = want
  /\ disk' = IF ok THEN [content |-> payload, torn |-> FALSE] ELSE disk
  /\ live' = IF ok THEN [live EXCEPT !.dirty = FALSE] ELSE live
  /\ payload' = None
  /\ Release
  /\ UNCHANGED <<entry, goal, shut, device, wish, spoilt, orphan, calm>>

\* _async_update_data counts the failure; a first refresh that fails drops the
\* coordinator, and the setup is tried again.
TickRaises ==
  /\ Holds("tick") /\ step \in {"begin", "done"} /\ Fault("tick")
  /\ LET fails == IF counts.tickFails < TickLimit THEN counts.tickFails + 1 ELSE TickLimit
     IN  /\ counts' = [counts EXCEPT !.tickFails = fails]
         /\ Report("tick", fails >= TickLimit)
  /\ Release
  /\ entry' = IF entry = "setup" THEN "off" ELSE entry
  /\ shut' = (shut \/ entry = "setup")
  /\ orphan' = (orphan \/ (entry = "setup" /\ live.acted))
  /\ UNCHANGED <<goal, live, disk, payload, device, wish, spoilt, calm>>
-----------------------------------------------------------------------------
(* The user.                                                               *)

\* set_override, set_preset, set_enabled, set_climate_mode ...: not under the
\* lock, as long as the entities are there.
Command ==
  /\ entry \in {"loaded", "quiesce", "platforms", "stuck"} /\ ~calm
  /\ wish' = ~live.intent
  /\ live' = [live EXCEPT !.intent = ~@, !.dirty = TRUE]
  /\ UNCHANGED <<entry, goal, shut, lock, step, counts, disk, payload, issues,
                 ledger, device, spoilt, orphan, calm>>

\* async_apply_options: the tuning under the lock, the refresh outside it.
OptionsSubmitted ==
  /\ entry = "loaded" /\ ~calm /\ Len(lock) < Waiting
  /\ \A i \in 1 .. Len(lock) : lock[i] # "options"
  /\ lock' = Enqueued("options")
  /\ UNCHANGED <<entry, goal, shut, step, live, counts, disk, payload, issues,
                 ledger, device, wish, spoilt, orphan, calm>>

TickWaits == \E i \in 1 .. Len(lock) : lock[i] = "tick"
Requested == IF shut \/ TickWaits THEN <<>> ELSE <<"tick">>
AppliesOptions == lock' = Tail(lock) \o Requested /\ step' = "begin"
ApplyOptions ==
  /\ Holds("options")
  /\ AppliesOptions
  /\ UNCHANGED <<entry, goal, shut, live, counts, disk, payload, issues, ledger,
                 device, wish, spoilt, orphan, calm>>
-----------------------------------------------------------------------------
(* Unloading.                                                              *)

\* async_unload_entry starts with async_quiesce, which waits for the lock last.
\* Seeded fault: it does not wait.
NoDrain == shut' = TRUE /\ entry' = "platforms" /\ UNCHANGED lock
Quiesce == shut' = TRUE /\ entry' = "quiesce" /\ lock' = Enqueued("quiesce")
Unload ==
  /\ entry = "loaded"
  /\ goal' \in {"reload", "disable", "remove"}
  /\ Quiesce
  /\ UNCHANGED <<step, live, counts, disk, payload, issues, ledger, device,
                 wish, spoilt, orphan, calm>>

Quiesced ==
  /\ Holds("quiesce")
  /\ Release
  /\ entry' = "platforms"
  /\ UNCHANGED <<goal, shut, live, counts, disk, payload, issues, ledger, device,
                 wish, spoilt, orphan, calm>>

\* The entities go; a coordinator whose platforms stay is inert all the same.
PlatformsUnload(ok) ==
  /\ entry = "platforms"
  /\ ~ok => Fault("unload")
  /\ entry' = IF ok THEN "final" ELSE "stuck"
  /\ lock' = IF ok THEN Enqueued("final") ELSE lock
  /\ UNCHANGED <<goal, shut, step, live, counts, disk, payload, issues, ledger,
                 device, wish, spoilt, orphan, calm>>

\* async_persist_and_cleanup.
Final == [content |-> Kept(live), torn |-> FALSE]
Keeps(ok) == IF ok THEN {} ELSE {"save"}
FinalSave(ok) ==
  /\ Holds("final")
  /\ ~ok => Fault("save")
  /\ disk' = IF ok THEN Final ELSE disk
  /\ issues' = (issues \ ledger) \cup Keeps(ok)
  /\ ledger' = Keeps(ok)
  /\ spoilt' = ~ok /\ orphan' = (orphan \/ ~ok)
  /\ entry' = IF goal = "reload" THEN "off" ELSE "park"
  /\ Release
  /\ UNCHANGED <<goal, shut, live, counts, payload, device, wish, calm>>

\* _park_room_actuator by what the store says, then, of a removal, the store and
\* the issues.  A store that cannot be read ends the hand-over.
HasActuated == disk.content # None /\ disk.content.acted
Park(readable, obeyed) ==
  /\ entry = "park"
  /\ ~readable => Fault("load")
  /\ ~obeyed => Fault("park")
  /\ device' = IF readable /\ HasActuated /\ obeyed THEN "parked" ELSE device
  /\ spoilt' = (spoilt \/ ~readable \/ ~obeyed)
  /\ entry' = IF goal = "remove" THEN "gone" ELSE IF readable THEN "disabled" ELSE "stuck"
  /\ IF goal = "remove" /\ readable
     THEN disk' = [content |-> None, torn |-> FALSE] /\ issues' = {}
     ELSE UNCHANGED <<disk, issues>>
  /\ UNCHANGED <<goal, shut, lock, step, live, counts, payload, ledger, wish, orphan, calm>>

\* A disabled entry is enabled again, or removed as it is.
Enable ==
  /\ entry = "disabled" /\ ~calm
  /\ entry' = "off"
  /\ UNCHANGED <<goal, shut, lock, step, live, counts, disk, payload, issues,
                 ledger, device, wish, spoilt, orphan, calm>>
RemoveDisabled ==
  /\ entry = "disabled"
  /\ entry' = "park" /\ goal' = "remove"
  /\ UNCHANGED <<shut, lock, step, live, counts, disk, payload, issues, ledger,
                 device, wish, spoilt, orphan, calm>>
-----------------------------------------------------------------------------
(* The process.                                                            *)

\* EVENT_HOMEASSISTANT_STOP: the listener of a set-up entry flushes its state.
Stop ==
  /\ entry \in {"loaded", "stuck"} /\ ~calm
  /\ entry' = "stopping" /\ shut' = TRUE /\ lock' = Enqueued("stop")
  /\ UNCHANGED <<goal, step, live, counts, disk, payload, issues, ledger, device,
                 wish, spoilt, orphan, calm>>

\* async_flush_on_stop, and the end of the process; the issues are not
\* persistent, and _sweep_orphan_issues finds nothing of a live entry.
FlushOnStop(ok) ==
  /\ Holds("stop")
  /\ ~ok => Fault("save")
  /\ disk' = IF ok THEN Final ELSE disk
  /\ spoilt' = ~ok /\ orphan' = (orphan \/ ~ok)
  /\ entry' = "off" /\ issues' = {} /\ ledger' = {}
  /\ Release
  /\ UNCHANGED <<goal, shut, live, counts, payload, device, wish, calm>>

\* Dies between two ticks of a set-up entry.
Crash ==
  /\ Fault("crash") /\ entry = "loaded" /\ lock = <<>>
  /\ entry' = "off" /\ issues' = {} /\ ledger' = {}
  /\ spoilt' = (disk.content = None \/ disk.content.intent # wish)
  /\ orphan' = (orphan \/ counts.saveFails > 0 \/ counts.tickFails > 0)
  /\ UNCHANGED <<goal, shut, lock, step, live, counts, disk, payload, device,
                 wish, calm>>

\* The learned part of the file is damaged.
Torn ==
  /\ Fault("torn") /\ entry = "off" /\ disk.content # None /\ ~disk.torn
  /\ disk' = [disk EXCEPT !.torn = TRUE]
  /\ UNCHANGED <<entry, goal, shut, lock, step, live, counts, payload, issues,
                 ledger, device, wish, spoilt, orphan, calm>>

\* Whoever else uses the device once Poise has let go of it.
SomeoneElse ==
  /\ entry \in {"disabled", "gone"} /\ device # "user" /\ ~calm
  /\ device' = "user"
  /\ UNCHANGED <<entry, goal, shut, lock, step, live, counts, disk, payload,
                 issues, ledger, wish, spoilt, orphan, calm>>

CalmDown ==
  /\ ~calm /\ calm' = TRUE
  /\ UNCHANGED <<entry, goal, shut, lock, step, live, counts, disk, payload,
                 issues, ledger, device, wish, spoilt, orphan>>
-----------------------------------------------------------------------------
Init ==
  /\ entry = "off" /\ goal = "reload" /\ shut = TRUE
  /\ lock = <<>> /\ step = "begin"
  /\ live = Live(FreshContent) /\ counts = FreshCounts
  /\ disk = [content |-> None, torn |-> FALSE] /\ payload = None
  /\ issues = {} /\ ledger = {}
  /\ device = "user"
  /\ wish = FALSE /\ spoilt = FALSE /\ orphan = FALSE /\ calm = FALSE

Holder ==
  \/ TickSends \/ TickCommits
  \/ \E sees \in BOOLEAN : TickFinishes(sees)
  \/ \E ok \in BOOLEAN : Saves(ok) \/ FinalSave(ok) \/ FlushOnStop(ok)
  \/ TickRaises \/ ApplyOptions \/ Quiesced

Next ==
  \/ Holder
  \/ SetUp \/ ComesUp \/ Refresh
  \/ Command \/ OptionsSubmitted
  \/ Unload \/ \E ok \in BOOLEAN : PlatformsUnload(ok)
  \/ \E readable, obeyed \in BOOLEAN : Park(readable, obeyed)
  \/ Enable \/ RemoveDisabled
  \/ Stop \/ Crash \/ Torn \/ SomeoneElse \/ CalmDown

Spec == Init /\ [][Next]_vars

\* The event loop runs whoever holds the lock, Home Assistant retries a setup,
\* the timer fires, and the room sensor is read now and then.
FairSpec ==
  /\ Spec
  /\ WF_vars(Holder) /\ WF_vars(SetUp) /\ WF_vars(ComesUp) /\ WF_vars(Refresh)
  /\ SF_vars(TickFinishes(TRUE))
-----------------------------------------------------------------------------
TypeOK ==
  /\ entry \in Entries /\ goal \in {"reload", "disable", "remove"}
  /\ shut \in BOOLEAN
  /\ lock \in Seq(Tasks) /\ step \in {"begin", "sent", "done", "saving"}
  /\ live \in [intent : BOOLEAN, model : BOOLEAN, dose : BOOLEAN, acted : BOOLEAN, dirty : BOOLEAN]
  /\ counts \in [save : 0 .. SaveEvery - 1, saveFails : 0 .. SaveLimit, tickFails : 0 .. TickLimit]
  /\ disk \in [content : Content \cup {None}, torn : BOOLEAN]
  /\ payload \in Content \cup {None}
  /\ (payload = None) = (step # "saving")
  /\ issues \subseteq {"save", "tick"} /\ ledger \subseteq {"save", "tick"}
  /\ device \in {"user", "poise", "parked"}
  /\ wish \in BOOLEAN /\ spoilt \in BOOLEAN /\ orphan \in BOOLEAN /\ calm \in BOOLEAN

(***************************************************************************)
(* Once it has quiesced, an instance commands the device no more, whatever *)
(* was waiting for its lock (async_quiesce: detach, shut down, drain).     *)
(***************************************************************************)
TheDeadDoNotAct ==
  [][ device' # device /\ device' = "poise" => entry \in {"setup", "loaded", "quiesce", "stopping"} ]_vars

(***************************************************************************)
(* What Poise has commanded it hands back when the zone is disabled or     *)
(* removed, over any number of restarts before that (mark_actuated, AR-03, *)
(* AR-11), unless the last flush or the park itself failed.                *)
(***************************************************************************)
WrittenIsParked == entry \in {"disabled", "gone"} /\ ~spoilt /\ ~orphan => device # "poise"

(***************************************************************************)
(* After an unload or an orderly stop the store holds what the user wants, *)
(* even a command that came while a save was under way and took the dirty  *)
(* flag with it (async_persist_and_cleanup, async_flush_on_stop).          *)
(***************************************************************************)
FlushKeepsIntent ==
  entry \in {"off", "park", "disabled"} /\ ~spoilt /\ disk.content # None
    => disk.content.intent = wish

(***************************************************************************)
(* A load that fails never costs the learned model: only a torn store or   *)
(* the removal of the zone does (async_bootstrap).                         *)
(***************************************************************************)
Learnt(d) == d.content # None /\ d.content.model
LearningIsKept == [][ Learnt(disk) /\ ~Learnt(disk') => disk.torn \/ entry' = "gone" ]_vars

(***************************************************************************)
(* No ghosts: a set-up zone knows every issue it has raised, after a save  *)
(* that worked none speaks of failing saves, and a removed zone leaves     *)
(* none (adopt, async_persist_and_cleanup, _delete_issues).                *)
(***************************************************************************)
NoGhosts ==
  /\ entry = "loaded" => ledger = issues
  /\ entry = "gone" /\ ~spoilt => issues = {}
  /\ entry = "off" /\ "save" \in issues => spoilt

(***************************************************************************)
(* A torn model costs no intent: what the user wanted is restored          *)
(* (decode, the cheap keys before the models).                             *)
(***************************************************************************)
TornKeepsIntent == [][ entry = "off" /\ entry' = "setup" /\ disk.content # None => live'.intent = disk.content.intent ]_vars

(***************************************************************************)
(* A zone that is gone has let go of its device and of its issues, one     *)
(* that is unloaded has its user's intent on disk (mark_actuated,          *)
(* async_persist_and_cleanup, IssueLedger.adopt).                          *)
(***************************************************************************)
EntryEndsClean == TypeOK /\ WrittenIsParked /\ FlushKeepsIntent /\ NoGhosts

(***************************************************************************)
(* Nothing is done by the dead and nothing is lost by the living: a        *)
(* quiesced instance commands no device, a failed load costs no model, a   *)
(* torn one no intent (async_quiesce, async_bootstrap, codec.py decode).   *)
(***************************************************************************)
EntryLosesNothing == TheDeadDoNotAct /\ LearningIsKept /\ TornKeepsIntent

(***************************************************************************)
(* A loaded zone brings every command of the user to disk, be it without   *)
(* its dirty flag and only by the periodic save (_maybe_save).             *)
(***************************************************************************)
IntentReachesDisk ==
  <>calm /\ <>[](entry = "loaded") => <>[](disk.content # None /\ disk.content.intent = live.intent)

(***************************************************************************)
(* Options are applied although a tick, a save and an unload compete for   *)
(* the lock (async_apply_options: "held across that call, it would         *)
(* deadlock immediately").                                                 *)
(***************************************************************************)
OptionsWait == \E i \in 1 .. Len(lock) : lock[i] = "options"
OptionsAreApplied == OptionsWait ~> ~OptionsWait

(***************************************************************************)
(* _maybe_save: "Clearing it unconditionally would mark a fresh override   *)
(* ... as persisted": what is not on disk is flagged.                      *)
(***************************************************************************)
UnsavedIsDirty ==
  entry = "loaded" /\ payload = None /\ disk.content # None
    => live.dirty \/ live.intent = disk.content.intent

(***************************************************************************)
(* runtime/state.py, HumidityRuntime: the mould dose "is a multi-day       *)
(* accumulation that a restart must not silently reset".                   *)
(***************************************************************************)
DoseSurvivesRestart ==
  [][ entry = "off" /\ entry' = "setup" /\ disk.content # None /\ ~disk.torn
        => live'.dose = disk.content.dose ]_vars
=============================================================================

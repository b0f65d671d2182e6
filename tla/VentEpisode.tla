---------------------------- MODULE VentEpisode ----------------------------
(***************************************************************************)
(* The ventilation episode of comfort/vent_episode.py: what the verdict of *)
(* the rule table means in the phase the airing is in, and when the door-  *)
(* bell rings.  The machine judges the window by what its reading proves   *)
(* and hands the table that same reading and the flags of the stored       *)
(* phase, so the two close a loop.  Minutes are counted in ticks.          *)
(***************************************************************************)
EXTENDS VentTable

CONSTANTS
  RequestTtl, ReminderEvery, UnknownRelease, MaxTick,
  PhaseCap, EpisodeCap,    \* [FALSE |-> comfort budget, TRUE |-> protection]
  Cooldown,                \* length by cause
  Verdicts,                \* the Answers of the table, tabulated once
  MinuteCap                \* bound: no phase is told apart beyond it

Causes == {"regular", "manual", "expired", "emergency"}
\* What the constants must be: assumed where they get their values.
EpisodeAssumption ==
  /\ {RequestTtl, ReminderEvery, UnknownRelease, MaxTick} \subseteq Nat \ {0}
  /\ PhaseCap \in [BOOLEAN -> Nat] /\ EpisodeCap \in [BOOLEAN -> Nat]
  /\ Cooldown \in [Causes -> Nat]
  /\ MinuteCap \in Nat /\ RequestTtl <= MinuteCap
  /\ \A p \in BOOLEAN : ReminderEvery * PhaseCap[p] <= MinuteCap
  /\ \A c \in Causes : Cooldown[c] <= MinuteCap
  /\ Verdicts = Answers

VARIABLES
  st,      \* EpisodeState, without the fields nothing reads
  out,     \* EpisodeResult: the advice on the card, and the doorbell
  heard,   \* ghost: the verdict of the table on this tick, and the one before
  seen,    \* what the reading of the window was worth
  rung     \* ghost: reminders that rang since the episode began

vars == <<st, out, heard, seen, rung>>

AiringDone == "airing_done"
Phases == {"idle", "requested", "ventilating", "stop_requested", "cooldown"}
Windows == {"open", "closed", "likely_open", "likely_closed", "unknown"}
Openish == {"open", "likely_open"}
Closedish == {"closed", "likely_closed"}
EpisodeReasons == TableReasons \cup {AiringDone, ""}

States ==
  [phase : Phases, reason : EpisodeReasons, level : Levels, owner : EpisodeReasons,
   prompts : Nat, episode_prompts : Nat, escalations : Nat, protected : BOOLEAN,
   emergency : BOOLEAN, phase_min : 0..MinuteCap, unknown_dwell : 0..UnknownRelease,
   cooldown_for : Nat, cooldown_scope : EpisodeReasons, pending : EpisodeReasons]

Fresh ==
  [phase |-> "idle", reason |-> "", level |-> "ok", owner |-> "", prompts |-> 0,
   episode_prompts |-> 0, escalations |-> 0, protected |-> FALSE,
   emergency |-> FALSE, phase_min |-> 0, unknown_dwell |-> 0,
   cooldown_for |-> 0, cooldown_scope |-> "", pending |-> ""]

TypeOK ==
  /\ st \in States
  /\ out \in [action : Actions, reason : EpisodeReasons, level : Levels, prompt : BOOLEAN]
  /\ seen \in Windows /\ rung \in Nat
  /\ \A h \in {heard.now, heard.before} :
       h \in [action : Actions, reason : TableReasons, level : Levels]

Nothing == Verdict("idle", "no_data", "ok")

Init ==
  /\ st = Fresh
  /\ out = [action |-> "idle", reason |-> "no_data", level |-> "ok", prompt |-> FALSE]
  /\ heard = [now |-> Nothing, before |-> Nothing]
  /\ seen = "unknown" /\ rung = 0
----------------------------------------------------------------------------
\* effective_window: a stale reading is worth nothing, a closed one only what
\* a contact measured.
Effective(reading, source, stale) ==
  IF stale \/ (reading \in Closedish /\ source # "contact") THEN "unknown" ELSE reading

\* oracle_flags
Running(s) == s.phase \in {"requested", "ventilating"}
oracle_flags(s) ==
  IF Running(s) THEN [active |-> TRUE, reason |-> s.owner] ELSE NoAdvice

Protected(s) ==
  s.protected \/ s.emergency \/ {s.reason, s.owner} \cap Protection # {}

Abort(v) == v.action = "close" /\ v.reason \in ProtectionClose
Quiet(v) == v.action \in {"idle", "discourage"} \/ (v.action = "open" /\ v.reason # "mold_risk")

\* The start of episode_step: the machine ages, and protection once spoken
\* holds its budget for the episode.
Aged(s, v, step) ==
  [s EXCEPT !.phase_min = Min({@ + step, MinuteCap}),
            !.protected = @ \/ (s.phase # "idle" /\ (v.reason \in Protection \/ s.emergency))]

Enter(s, phase) == [s EXCEPT !.phase = phase, !.phase_min = 0, !.unknown_dwell = 0]

Carried(s, v) == [s EXCEPT !.reason = v.reason, !.owner = v.reason, !.level = v.level]

\* A new episode: fresh ceiling, the budget of its reason.
Begin(s, phase, v) ==
  [Enter(s, phase) EXCEPT !.episode_prompts = 0, !.escalations = 0,
     !.protected = v.reason \in Protection, !.pending = ""]

MayRing(s) ==
  s.episode_prompts < EpisodeCap[Protected(s)] /\ PhaseCap[Protected(s)] >= 1

\* The opening prompt of a phase counts in both budgets.
Asked(s) ==
  IF MayRing(s) THEN [s EXCEPT !.prompts = 1, !.episode_prompts = @ + 1] ELSE s

ReminderDue(s) ==
  /\ s.episode_prompts < EpisodeCap[Protected(s)]
  /\ s.prompts < PhaseCap[Protected(s)]
  /\ s.phase_min >= s.prompts * ReminderEvery

Spent(s) ==
  IF ReminderDue(s)
  THEN [s EXCEPT !.prompts = @ + 1, !.episode_prompts = @ + 1] ELSE s

Stop(s, reason, level, emergency) ==
  [Enter(s, "stop_requested") EXCEPT !.reason = reason, !.level = level,
                                     !.emergency = emergency]

\* The quiet time after an episode carries the demand that outlived it.
Settled(s, v, cause, scope) ==
  [Enter(s, "cooldown") EXCEPT !.prompts = 0, !.emergency = FALSE,
     !.cooldown_for = Cooldown[cause], !.cooldown_scope = scope,
     !.pending = IF v.action = "open" THEN v.reason ELSE ""]
----------------------------------------------------------------------------
\* What a tick publishes.  rang: the doorbell, once more within the episode.
Publish(s, action, reason, level, rang, reminders) ==
  /\ st' = s
  /\ out' = [action |-> action, reason |-> reason, level |-> level, prompt |-> rang]
  /\ rung' = reminders

\* The table's own verdict where the episode has none.
QuietTick(s, v) ==
  IF v.action = "discourage"
  THEN Publish(s, "discourage", v.reason, v.level, FALSE, rung)
  ELSE Publish(s, "idle", v.reason, "ok", FALSE, rung)

\* A phase is entered (old: before the prompt) and its prompt asked.
AskTick(old, action, reason, level, reminders) ==
  Publish(Asked(old), action, reason, level, MayRing(old),
          IF MayRing(old) THEN reminders + 1 ELSE reminders)

RemindTick(s, action, reason, level) ==
  Publish(Spent(s), action, reason, level, ReminderDue(s),
          IF ReminderDue(s) THEN rung + 1 ELSE rung)

Watching(s, v, w) ==
  /\ s.phase = "idle"
  /\ \/ /\ v.action = "open" /\ w \in Openish
        /\ Publish([Carried(Begin(s, "ventilating", v), v) EXCEPT !.prompts = 0],
                   "open", v.reason, v.level, FALSE, 0)
     \/ /\ v.action = "open" /\ w \notin Openish
        /\ AskTick(Carried(Begin(s, "requested", v), v), "open", v.reason, v.level, 0)
     \/ /\ v.action = "close" /\ w \in Openish
        /\ AskTick([Stop(Begin(s, "stop_requested", v), v.reason, v.level, Abort(v))
                      EXCEPT !.owner = ""], "close", v.reason, v.level, 0)
     \/ /\ ~(v.action = "open" \/ (v.action = "close" /\ w \in Openish))
        /\ QuietTick(s, v)

\* The end of an airing whose cause is gone, or gone with the data.
DoneTick(s) ==
  AskTick(Stop(s, AiringDone, "ok", FALSE), "close", AiringDone, "ok", rung)

CloseTick(s, v) ==
  AskTick(Stop(s, v.reason, v.level, Abort(v)), "close", v.reason, v.level, rung)

AirTick(s, v) ==
  Publish([Carried(Enter(s, "ventilating"), v) EXCEPT !.prompts = 0],
          "open", v.reason, v.level, FALSE, rung)

Requested(s, v, w) ==
  LET kept == Carried(s, v)
      expired == /\ w \in Closedish /\ s.phase_min >= RequestTtl
                 /\ v.reason \notin Protection
  IN /\ s.phase = "requested"
     /\ \/ w \in Openish /\ v.action = "open" /\ AirTick(s, v)
        \/ w \in Openish /\ v.action = "close" /\ CloseTick(s, v)
        \/ w \in Openish /\ v.action \notin {"open", "close"} /\ DoneTick(s)
        \/ /\ w \in Closedish /\ v.action # "open"
           /\ QuietTick([Enter(s, "idle") EXCEPT !.reason = "", !.owner = "",
                           !.level = "ok", !.prompts = 0], v)
        \/ w = "unknown" /\ v.action # "open" /\ DoneTick(s)
        \/ /\ w \notin Openish /\ v.action = "open" /\ expired
           /\ QuietTick(Settled(kept, v, "expired", ""), v)
        \/ /\ w \notin Openish /\ v.action = "open" /\ ~expired
           /\ RemindTick(kept, "open", v.reason, v.level)

Ventilating(s, v, w) ==
  /\ s.phase = "ventilating"
  /\ \/ w \in Closedish /\ QuietTick(Settled(s, v, "manual", ""), v)
     \/ /\ w \notin Closedish /\ v.action = "open"
        /\ Publish(Carried(s, v), "open", v.reason, v.level, FALSE, rung)
     \/ w \notin Closedish /\ v.action = "close" /\ CloseTick(s, v)
     \/ w \notin Closedish /\ v.action \notin {"open", "close"} /\ DoneTick(s)

\* An unobservable stop is held for a while; a window seen open holds it.
Dwelt(s, v, w, step) ==
  [s EXCEPT !.unknown_dwell =
     IF w = "unknown" /\ Quiet(v) THEN Min({@ + step, UnknownRelease}) ELSE 0]

\* A latched stop keeps its own reason; only a protection close replaces it.
Told(s, v) ==
  IF v.action = "close" /\ (Abort(v) \/ ~s.emergency)
  THEN [s EXCEPT !.reason = v.reason, !.level = v.level, !.emergency = @ \/ Abort(v)]
  ELSE s

\* A new reason to open resumes an ordinary stop.
Resumes(s, v) == v.action = "open" /\ ~s.emergency

StopRequested(s, v, w, step) ==
  LET resumes == Resumes(s, v)
      dwelt == Dwelt(s, v, w, step)
      released == w = "unknown" /\ Quiet(v) /\ dwelt.unknown_dwell >= UnknownRelease
      told == Told(dwelt, v)
  IN /\ s.phase = "stop_requested"
     /\ \/ /\ w \in Closedish
           /\ QuietTick(Settled(s, v, IF s.emergency THEN "emergency" ELSE "regular",
                                IF s.emergency THEN "" ELSE s.owner), v)
        \/ w \in Openish /\ resumes /\ AirTick(s, v)
        \/ /\ w = "unknown" /\ resumes
           /\ AskTick(Carried(Enter(s, "requested"), v), "open", v.reason, v.level, rung)
        \/ /\ w \notin Closedish /\ ~resumes /\ released
           /\ QuietTick(Settled(dwelt, v, IF s.emergency THEN "emergency" ELSE "expired", ""), v)
        \/ /\ w \notin Closedish /\ ~resumes /\ ~released
           /\ IF Abort(v) /\ ~s.emergency
              THEN Publish([told EXCEPT !.escalations = @ + 1], "close", told.reason,
                           told.level, TRUE, rung)
              ELSE RemindTick(told, "close", told.reason, told.level)

\* A cooldown noted down, or broken by protection, by a reason out of its
\* scope, or by its end.
Noted(s, v) == [s EXCEPT !.pending = IF v.action = "open" THEN v.reason ELSE ""]
\* Mutant: protection waits like the rest.
BreaksOutOfScope(s, v) ==
  \/ v.action = "open" /\ s.cooldown_scope # "" /\ v.reason # s.cooldown_scope
  \/ s.phase_min >= s.cooldown_for
Breaks(s, v) ==
  \/ v.action = "open" /\ v.reason \in ProtectionOpen
  \/ Abort(v)
  \/ v.action = "open" /\ s.cooldown_scope # "" /\ v.reason # s.cooldown_scope
  \/ s.phase_min >= s.cooldown_for
Rested(s) ==
  [Enter(s, "idle") EXCEPT !.reason = "", !.owner = "", !.level = "ok", !.prompts = 0,
     !.episode_prompts = 0, !.protected = FALSE, !.emergency = FALSE,
     !.cooldown_scope = "", !.cooldown_for = 0, !.pending = ""]

Cooling(s, v, w) ==
  /\ s.phase = "cooldown"
  /\ \/ Breaks(s, v) /\ Watching(Rested(s), v, w)
     \/ /\ ~Breaks(s, v) /\ v.action = "close"
        /\ Publish(Noted(s, v), "close", v.reason, v.level, FALSE, rung)
     \/ ~Breaks(s, v) /\ v.action # "close" /\ QuietTick(Noted(s, v), v)

episode_step(s, v, w, step) ==
  \/ Watching(s, v, w) \/ Requested(s, v, w) \/ Ventilating(s, v, w)
  \/ StopRequested(s, v, w, step) \/ Cooling(s, v, w)

\* One tick: a reading of the window, some air, the minutes since the last.
Tick(w, step) ==
  \E v \in Verdicts[(w \in Openish)][oracle_flags(st)] :
    /\ seen' = w
    /\ heard' = [now |-> v, before |-> heard.now]
    /\ episode_step(Aged(st, v, step), v, w, step)

\* A late tick counts for no more than the longest.
Steps == {Min({minutes, MaxTick}) : minutes \in 1..(MaxTick + 1)}

Readings ==
  {Effective(r, source, stale) :
     r \in Windows, source \in {"contact", "slope", "bypass", "none"}, stale \in BOOLEAN}

Next == \E w \in Readings, step \in Steps : Tick(w, step)

Spec == Init /\ [][Next]_vars
----------------------------------------------------------------------------
Latched == st.phase = "stop_requested" /\ st.emergency

(* The card tells the truth in every phase, whatever the doorbell's budget*)
(* and the quiet time say: a window that is seen open while the table says*)
(* close is told to be closed, and a standing stop with an open window is *)
(* never silent.                                                          *)
OpenWindowIsTold ==
  (seen \in Openish /\ heard.now.action = "close") => out.action = "close"

(* A latched protection stop keeps a protection reason and its severity   *)
(* until it ends: no harmless all-clear is worn by it.                    *)
LatchKeepsItsReason ==
  Latched => st.reason \in ProtectionClose /\ st.level # "ok"

(* Quotas govern reminders: over a whole episode, whatever path it takes  *)
(* through its phases, no more prompts ring than its budget, and at most  *)
(* one escalation outside it.                                             *)
RemindersAreBounded ==
  /\ rung <= EpisodeCap[Protected(st)] \/ st.phase = "idle"
  /\ st.escalations <= 1

(* Building protection is never postponed: an open-advice for protection  *)
(* that stands on two ticks in a row is on the card on the second one,    *)
(* unless a latched protection stop is, or the window was just shut or    *)
(* given up on, which the next tick answers.                              *)
ProtectionIsHeard ==
  {heard.now.reason, heard.before.reason} \subseteq ProtectionOpen
  => \/ out.action = "open" \/ Latched
     \/ (st.phase = "cooldown" /\ st.phase_min = 0)

(* Only a window seen shut, or one nobody can observe, ends a latched stop*)
(* and none of it ends without the long quiet time.                       *)
LatchedStopEndsCarefully ==
  [][ (Latched /\ ~Latched')
      => /\ seen' \notin Openish
         /\ st'.phase = "cooldown" /\ st'.cooldown_for = Cooldown["emergency"] ]_vars
=============================================================================

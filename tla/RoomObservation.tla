-------------------------- MODULE RoomObservation --------------------------
(***************************************************************************)
(* What a zone makes of its room sensor and its window contact, tick by    *)
(* tick (control/pipeline_prepare.py): the degradation ladder of a         *)
(* reading, the contact against the slope detector (control/window_auto.py)*)
(* and the gate in front of the learners, which may only integrate an      *)
(* interval the room was really observed in. Temperatures are levels of a  *)
(* sensor quantum, a tick is a minute; the numbers of the estimator itself *)
(* are left out, the anchors that delimit its intervals are the subject.   *)
(***************************************************************************)
EXTENDS Integers

CONSTANTS
  Levels,        \* room temperatures a sensor tells
  DefaultRoom,   \* the constant of ingest_temperature
  Contact,       \* a window contact is configured
  Thresholds,    \* opening thresholds: fixed, or adapted to the learned tau
  Scale,         \* slope of one level in a minute
  MaxSlope, MinPoints, MaxDuration, MinRise,
  Longest        \* ages are counted up to here

Unset == -1
\* What the constants must be: assumed where they get their values.
ObservationAssumption ==
  /\ Levels \subseteq Nat /\ DefaultRoom \in Levels /\ Contact \in BOOLEAN
  /\ Thresholds \subseteq Nat \ {0} /\ Thresholds # {}
  /\ {Scale, MaxSlope, MinPoints, MaxDuration, MinRise, Longest} \subseteq Nat \ {0}

VARIABLES
  contact,  \* "open", "closed" or "gone" (unavailable); "closed" without one
  bypass,   \* the user's window bypass
  wa,       \* WindowAutoState and the anchors of its slope
  learn,    \* the anchors of the learners: last_mono, prev_room, heatup_acc
  window,   \* window_open of the last tick
  out,      \* the last tick: a learning step, a heat-up rate, the contact and
            \* the provenance of the room it read
  taint,    \* ghost: since the learning anchor the room was not fit to learn from
  held      \* ghost: undisturbed minutes the detector has said open

vars == <<contact, bypass, wa, learn, window, out, taint, held>>

Fresh == [ema |-> 0, n |-> 0, open |-> FALSE, minutes |-> 0]
NoAnchor == [ref |-> Unset, age |-> 0, live |-> FALSE]
Forgotten == [mono |-> Unset, room |-> Unset, acc |-> Unset, span |-> 0]
Nothing == [learned |-> FALSE, rated |-> FALSE, contact |-> "gone", source |-> "measured"]

Init ==
  /\ contact = "closed" /\ bypass = FALSE
  /\ wa = [state |-> Fresh, at |-> NoAnchor]
  /\ learn = Forgotten
  /\ window = FALSE /\ out = Nothing /\ taint = TRUE /\ held = 0
----------------------------------------------------------------------------
Lower(a, b) == IF a < b THEN a ELSE b
Abs(x) == IF x < 0 THEN -x ELSE x
TowardsZero(x, d) == IF x < 0 THEN -((-x) \div d) ELSE x \div d

\* ingest_temperature: measured, else the last good room, else the constant.
Sources == {"measured", "derived", "default"}
Source(plausible) ==
  IF plausible THEN "measured" ELSE IF learn.room # Unset THEN "derived" ELSE "default"
Ingested(source, room) ==
  CASE source = "measured" -> room
    [] source = "derived" -> learn.room
    [] source = "default" -> DefaultRoom

Healthy == Contact /\ contact # "gone"

\* A healthy contact beats the heuristic: the detector starts over.
Reset(w) == IF Healthy THEN [state |-> Fresh, at |-> NoAnchor] ELSE w

effective_window_open(w) == ~bypass /\ (contact = "open" \/ w.state.open)

\* quantized_slope: over the interval since the room last moved; without a
\* reference there is none, which is treated like an aberrant one.
quantized_slope(at, room) ==
  IF at.ref = Unset THEN MaxSlope + 1 ELSE TowardsZero(Scale * (room - at.ref), at.age)
Anchored(at, room) ==
  IF at.ref = Unset \/ at.ref # room THEN [ref |-> room, age |-> 0, live |-> TRUE]
  ELSE [at EXCEPT !.live = TRUE]
Aged(at, minutes) == [at EXCEPT !.age = IF at.ref = Unset THEN 0 ELSE Lower(@ + minutes, Longest)]

Missing(slope) == Abs(slope) > MaxSlope

Closed(s) == [s EXCEPT !.open = FALSE, !.minutes = 0]

\* The anti-stick close, with or without a slope.
Overdue(s, slope) == s.open /\ s.minutes >= MaxDuration

Smoothed(s, slope) == IF s.n = 0 THEN slope ELSE TowardsZero(s.ema + 4 * slope, 5)
Judged(s, threshold) ==
  IF s.n < MinPoints THEN s
  ELSE IF ~s.open THEN [s EXCEPT !.open = s.ema < -threshold, !.minutes = 0]
  ELSE IF s.ema >= -(threshold \div 5) THEN Closed(s) ELSE s

step_window_auto(s, slope, threshold) ==
  LET older == [s EXCEPT !.minutes = IF s.open THEN Lower(@ + 1, MaxDuration) ELSE 0]
      seen == [older EXCEPT !.ema = Smoothed(s, slope), !.n = Lower(@ + 1, MinPoints)]
  IN IF Missing(slope)
     THEN IF Overdue(older, slope) THEN Closed(older) ELSE older
     ELSE IF Overdue(seen, slope) /\ seen.n >= MinPoints THEN Closed(seen)
     ELSE Judged(seen, threshold)

\* observe_window_auto: a gap of an hour or more is not integrated.
observe_window_auto(w, room, cooling, minutes, threshold) ==
  IF Healthy THEN w
  ELSE LET at == Aged(w.at, minutes)
           slope == IF cooling THEN 0 ELSE quantized_slope(at, room)
       IN [state |-> IF w.at.live /\ minutes < Longest
                     THEN step_window_auto(w.state, slope, threshold) ELSE w.state,
           at |-> Anchored(at, room)]
----------------------------------------------------------------------------
should_learn(open, frozen, failed) == ~open /\ ~frozen /\ ~failed

\* sample_heatup_rate: a rate needs a real rise over the whole burst.
Accumulated(heating, room, minutes) ==
  LET span == Lower(learn.span + minutes, Longest)
      started == [acc |-> room, span |-> 0, rate |-> FALSE]
  IN IF ~heating THEN [acc |-> Unset, span |-> 0, rate |-> FALSE]
     ELSE IF learn.acc = Unset \/ span >= Longest \/ (learn.acc # Unset /\ room < learn.acc)
     THEN started
     ELSE IF room - learn.acc < MinRise THEN [acc |-> learn.acc, span |-> span, rate |-> FALSE]
     ELSE [started EXCEPT !.rate = TRUE]

\* Mutant: a pause stops the learner but keeps its anchors.
PausedWithAnchors == learn

\* A pause drops the anchors: the first step afterwards starts over.
Paused == Forgotten

\* A measured room moves the anchors; a derived one leaves them alone.
Learnt(source, room, heating, minutes) ==
  IF source # "measured"
  THEN [learn EXCEPT !.span = Lower(@ + minutes, Longest),
                     !.mono = IF @ = Unset THEN Unset ELSE Lower(@ + minutes, Longest)]
  ELSE LET run == Accumulated(heating, room, minutes)
       IN [mono |-> 0, room |-> room, acc |-> run.acc, span |-> run.span]

Tick(room, plausible, stale, cooling, heating, failed, minutes, threshold) ==
  LET source == Source(plausible)
      seen == Ingested(source, room)
      frozen == stale \/ source = "default"
      w == Reset(wa)
      open == effective_window_open(w)
      learns == should_learn(open, frozen, failed)
      steps == learns /\ source = "measured"
      rate == Accumulated(heating, seen, minutes).rate
  IN /\ window' = open
     /\ learn' = IF learns THEN Learnt(source, seen, heating, minutes) ELSE Paused
     /\ wa' = observe_window_auto(w, seen, cooling, minutes, threshold)
     /\ out' = [learned |-> steps /\ learn.mono # Unset /\ learn.mono + minutes < Longest,
                rated |-> steps /\ rate, contact |-> contact, source |-> source]
     /\ taint' = IF steps THEN FALSE ELSE taint \/ ~learns
     /\ held' = IF ~wa'.state.open THEN 0
                ELSE IF minutes < Longest /\ w.at.live THEN Lower(held + 1, MaxDuration + 2) ELSE 0
     /\ UNCHANGED <<contact, bypass>>

\* What a tick reads; the last one may be an hour or more ago.
ObservedTick ==
  \E room \in Levels, plausible, stale, cooling, heating, failed \in BOOLEAN,
     minutes \in {1, Longest}, threshold \in Thresholds :
    /\ cooling => ~heating /\ ~window
    /\ Tick(room, plausible, stale, cooling, heating, failed, minutes, threshold)

\* The room sensor is unavailable: every anchor goes, the verdict stays.
BlindTick ==
  /\ learn' = Forgotten
  /\ wa' = [wa EXCEPT !.at = NoAnchor]
  /\ out' = [out EXCEPT !.learned = FALSE, !.rated = FALSE, !.source = "measured"]
  /\ taint' = TRUE /\ held' = 0
  /\ UNCHANGED <<contact, bypass, window>>

MoveWindow ==
  /\ Contact
  /\ contact' \in {"open", "closed", "gone"} \ {contact}
  /\ UNCHANGED <<bypass, wa, learn, window, out, taint, held>>

SwitchBypass ==
  /\ bypass' = ~bypass
  /\ UNCHANGED <<contact, wa, learn, window, out, taint, held>>

\* The detector's state is stored, anchors and learning anchors are not.
Restart ==
  /\ wa' = [wa EXCEPT !.at = NoAnchor]
  /\ learn' = Forgotten
  /\ window' = FALSE /\ out' = Nothing /\ taint' = TRUE /\ held' = 0
  /\ UNCHANGED <<contact, bypass>>

Next == ObservedTick \/ BlindTick \/ MoveWindow \/ SwitchBypass \/ Restart

Spec == Init /\ [][Next]_vars
----------------------------------------------------------------------------
\* Every variable keeps its type.
TypeOK ==
  /\ contact \in {"open", "closed", "gone"} /\ bypass \in BOOLEAN
  /\ wa.state.open \in BOOLEAN /\ wa.state.n \in 0..MinPoints
  /\ wa.state.minutes \in 0..MaxDuration /\ (~wa.state.open => wa.state.minutes = 0)
  /\ wa.at.ref \in Levels \cup {Unset} /\ (wa.at.live => wa.at.ref # Unset)
  /\ learn.room \in Levels \cup {Unset} /\ learn.acc \in Levels \cup {Unset}
  /\ learn.acc # Unset => learn.mono # Unset
  /\ window \in BOOLEAN /\ taint \in BOOLEAN

\* The estimator never integrates an interval the room was not fit to learn
\* from: a window that was open, a frozen, fabricated or missing reading, a
\* failed heating. A pause anywhere inside means starting over afterwards.
CleanInterval == [][out'.learned \/ out'.rated => ~taint]_vars

\* A verdict the detector latched while the contact was away does not outlive
\* the contact's return: a healthy contact that says closed is believed in the
\* very tick, and the room is heated again.
HealthyContactWins == Contact /\ window => out.contact # "closed"

\* A stuck-open verdict always clears, with a slope or without, as long as the
\* detector is stepped.
StuckVerdictClears == held <= MaxDuration

\* A constant made up for a room nobody measured moves no window, as the comment at
\* pipeline_prepare.py 304 has it ("instead of regulating on [...] a fabricated
\* constant").  False: the slope detector is stepped on it (697), so no run lists it;
\* the README tells the case.
FabricatedRoomMovesNoWindow ==
  [][out'.source = "default" /\ ~Healthy => wa'.state.open = wa.state.open]_vars
=============================================================================

------------------------------ MODULE RoomsProofs ------------------------------
(***************************************************************************)
(* What a zone observes of its room and what it tells the people in it:    *)
(* the learners see clean intervals only and the window verdict clears     *)
(* (RoomObservation), the ventilation advice does not turn round under the *)
(* hand that follows it (VentAdvice over VentTable), and the episode of an *)
(* airing is told truthfully (VentEpisode over the same table).  The parts *)
(* share no state: each invariant is kept by its own steps and untouched   *)
(* by the steps of the others.                                             *)
(***************************************************************************)
EXTENDS MCRooms, TLAPS

-----------------------------------------------------------------------------
(* The observation of the room: verdict and anchors are what undisturbed   *)
(* ticks have made of fit readings.                                        *)

ObsWindows == {"open", "closed", "gone"}
Detectors == [ema : Int, n : 0 .. MinPoints, open : BOOLEAN, minutes : 0 .. MaxDuration]
SlopeAnchors == [ref : RoomLevels \cup {Observation!Unset}, age : 0 .. Longest, live : BOOLEAN]
LearnAnchors ==
  [mono : (0 .. Longest) \cup {Observation!Unset}, room : RoomLevels \cup {Observation!Unset},
   acc : RoomLevels \cup {Observation!Unset}, span : 0 .. Longest]

\* A detector that says open was stepped often enough, and not for too long.
DetectorOK(s) ==
  /\ s \in Detectors
  /\ s.open => s.n = MinPoints /\ s.minutes < MaxDuration
  /\ ~s.open => s.minutes = 0

WindowOK(w) ==
  /\ w = [state |-> w.state, at |-> w.at]
  /\ DetectorOK(w.state) /\ w.at \in SlopeAnchors
  /\ w.at.live => w.at.ref # Observation!Unset

ObsTypes ==
  /\ contact \in ObsWindows /\ bypass \in BOOLEAN
  /\ WindowOK(wa)
  /\ learn \in LearnAnchors
  /\ learn.acc # Observation!Unset => learn.mono # Observation!Unset
  /\ verdict \in BOOLEAN /\ taint \in BOOLEAN
  /\ out \in [learned : BOOLEAN, rated : BOOLEAN, contact : ObsWindows,
              source : Observation!Sources]

\* The minutes a verdict stands are counted by the detector, one of them not yet.
StandsCounted ==
  /\ heldOpen \in Nat
  /\ wa.state.open => heldOpen <= wa.state.minutes + 1
  /\ ~wa.state.open => heldOpen = 0

\* An anchor stands for an interval that was fit to learn from.
AnchorsAreClean ==
  /\ learn.mono # Observation!Unset => ~taint
  /\ out.learned \/ out.rated => ~taint

ObsInv == ObsTypes /\ StandsCounted /\ AnchorsAreClean /\ Observation!HealthyContactWins

LEMMA ObsConstants ==
  /\ RoomLevels \subseteq Nat /\ DefaultRoom \in RoomLevels /\ Contact \in BOOLEAN
  /\ Thresholds \subseteq Nat \ {0} /\ Observation!Unset = -1
  /\ Scale \in Nat \ {0} /\ MaxSlope \in Nat \ {0} /\ MinPoints \in Nat \ {0}
  /\ MaxDuration \in Nat \ {0} /\ MinRise \in Nat \ {0} /\ Longest \in Nat \ {0}
BY RoomsAssumption DEF Observation!ObservationAssumption, Observation!Unset

LEMMA Truncated ==
  ASSUME NEW x \in Int, NEW d \in Nat \ {0}
  PROVE  Observation!TowardsZero(x, d) \in Int
BY DEF Observation!TowardsZero

LEMMA FreshDetector == DetectorOK(Observation!Fresh) /\ ~Observation!Fresh.open
BY ObsConstants DEF DetectorOK, Detectors, Observation!Fresh

LEMMA NoAnchorFacts ==
  Observation!NoAnchor \in SlopeAnchors /\ ~Observation!NoAnchor.live
BY ObsConstants DEF SlopeAnchors, Observation!NoAnchor

\* Records of the detector.
LEMMA MinutesEdit ==
  ASSUME NEW s \in Detectors, NEW m \in 0 .. MaxDuration
  PROVE  LET t == [s EXCEPT !.minutes = m]
         IN  t \in Detectors /\ t.minutes = m /\ t.n = s.n /\ t.open = s.open /\ t.ema = s.ema
BY DEF Detectors

LEMMA OpenEdit ==
  ASSUME NEW s \in Detectors, NEW o \in BOOLEAN, 0 \in 0 .. MaxDuration
  PROVE  LET t == [s EXCEPT !.open = o, !.minutes = 0]
         IN  t \in Detectors /\ t.minutes = 0 /\ t.n = s.n /\ t.open = o /\ t.ema = s.ema
BY DEF Detectors

\* One step of the detector keeps it sound; a verdict that stands counts one more.
LEMMA DetectorSteps ==
  ASSUME NEW s, DetectorOK(s), NEW slope \in Int, NEW threshold \in Nat \ {0}
  PROVE  LET t == Observation!step_window_auto(s, slope, threshold)
         IN  /\ DetectorOK(t)
             /\ t.open => IF s.open THEN t.minutes = s.minutes + 1 ELSE t.minutes = 0
<1> DEFINE m == IF s.open THEN Observation!Lower(s.minutes + 1, MaxDuration) ELSE 0
           older == [s EXCEPT !.minutes = m]
           e == Observation!Smoothed(s, slope)
           k == Observation!Lower(older.n + 1, MinPoints)
           seen == [older EXCEPT !.ema = e, !.n = k]
<1>1. /\ s \in Detectors /\ s.n \in 0 .. MinPoints /\ s.minutes \in 0 .. MaxDuration
      /\ s.open \in BOOLEAN /\ s.ema \in Int
      /\ s.open => s.n = MinPoints /\ s.minutes < MaxDuration
      /\ ~s.open => s.minutes = 0
  BY DEF DetectorOK, Detectors
<1>2. /\ m \in 0 .. MaxDuration /\ 0 \in 0 .. MaxDuration /\ FALSE \in BOOLEAN
      /\ s.open => m = s.minutes + 1
      /\ ~s.open => m = 0
  BY <1>1, ObsConstants DEF Observation!Lower
<1> HIDE DEF m
<1>3. older \in Detectors /\ older.minutes = m /\ older.n = s.n /\ older.open = s.open
      /\ older.ema = s.ema
  BY <1>1, <1>2, MinutesEdit
<1>4. Observation!step_window_auto(s, slope, threshold) =
        IF Observation!Missing(slope)
        THEN IF Observation!Overdue(older, slope) THEN Observation!Closed(older) ELSE older
        ELSE IF Observation!Overdue(seen, slope) /\ seen.n >= MinPoints
             THEN Observation!Closed(seen) ELSE Observation!Judged(seen, threshold)
  BY DEF Observation!step_window_auto, m
<1> HIDE DEF older
<1>5. e \in Int /\ k \in 0 .. MinPoints /\ (s.open => k = MinPoints)
  <2>1. 5 \in Nat \ {0} /\ s.ema + 4 * slope \in Int
    BY <1>1
  <2>2. Observation!TowardsZero(s.ema + 4 * slope, 5) \in Int
    BY <2>1, Truncated
  <2> QED
    BY <1>1, <1>3, <2>2, ObsConstants DEF Observation!Smoothed, Observation!Lower
<1> HIDE DEF e, k
<1>6. seen \in Detectors /\ seen.minutes = m /\ seen.n = k /\ seen.open = s.open /\ seen.ema = e
  <2>1. older \in Detectors /\ e \in Int /\ k \in 0 .. MinPoints
    BY <1>3, <1>5
  <2>2. /\ seen \in Detectors /\ seen.minutes = older.minutes /\ seen.n = k
        /\ seen.open = older.open /\ seen.ema = e
    BY <2>1 DEF Detectors
  <2> HIDE DEF seen
  <2> QED
    BY <1>3, <2>2
<1> HIDE DEF seen
<1>7. ASSUME NEW t, t \in {older, seen}
      PROVE  DetectorOK(Observation!Closed(t)) /\ ~Observation!Closed(t).open
  <2>1. t \in Detectors
    BY <1>3, <1>6, <1>7
  <2> QED
    BY <1>2, <2>1, OpenEdit DEF DetectorOK, Observation!Closed
<1> DEFINE r == Observation!step_window_auto(s, slope, threshold)
<1> SUFFICES /\ DetectorOK(r)
             /\ r.open => IF s.open THEN r.minutes = s.minutes + 1 ELSE r.minutes = 0
  OBVIOUS
<1>8. CASE Observation!Missing(slope)
  <2>1. CASE Observation!Overdue(older, slope)
    BY <1>4, <1>7, <1>8, <2>1
  <2>2. CASE ~Observation!Overdue(older, slope)
    <3>1. r = older
      BY <1>4, <1>8, <2>2
    <3>2. s.open => m < MaxDuration
      BY <1>2, <1>3, <2>2, ObsConstants DEF Observation!Overdue
    <3> QED
      BY <1>1, <1>2, <1>3, <3>1, <3>2 DEF DetectorOK
  <2> QED
    BY <2>1, <2>2
<1>9. CASE ~Observation!Missing(slope)
  <2>1. CASE Observation!Overdue(seen, slope) /\ seen.n >= MinPoints
    BY <1>4, <1>7, <1>9, <2>1
  <2>2. CASE ~(Observation!Overdue(seen, slope) /\ seen.n >= MinPoints)
    <3>1. r = Observation!Judged(seen, threshold)
      BY <1>4, <1>9, <2>2
    <3>2. s.open => m < MaxDuration /\ k = MinPoints
      BY <1>2, <1>5, <1>6, <2>2, ObsConstants DEF Observation!Overdue
    <3>3. CASE seen.n < MinPoints
      <4>1. r = seen /\ ~s.open
        BY <1>6, <3>1, <3>2, <3>3, ObsConstants DEF Observation!Judged
      <4> QED
        BY <1>2, <1>6, <4>1 DEF DetectorOK
    <3>4. CASE ~(seen.n < MinPoints) /\ ~seen.open
      <4> DEFINE o == seen.ema < -threshold
      <4>1. r = [seen EXCEPT !.open = o, !.minutes = 0] /\ o \in BOOLEAN
        BY <3>1, <3>4 DEF Observation!Judged
      <4> HIDE DEF o, r
      <4>2. r \in Detectors /\ r.minutes = 0 /\ r.n = k
        BY <1>2, <1>6, <4>1, OpenEdit
      <4>3. k = MinPoints
        BY <1>5, <1>6, <3>4, ObsConstants
      <4> QED
        BY <1>6, <3>4, <4>2, <4>3, ObsConstants DEF DetectorOK
    <3>5. CASE ~(seen.n < MinPoints) /\ seen.open
      <4>1. r = seen \/ r = Observation!Closed(seen)
        BY <3>1, <3>5 DEF Observation!Judged
      <4>2. CASE r = seen
        BY <1>2, <1>6, <3>2, <3>5, <4>2 DEF DetectorOK
      <4> QED
        BY <1>7, <4>1, <4>2
    <3> QED
      BY <3>3, <3>4, <3>5
  <2> QED
    BY <2>1, <2>2
<1> QED
  BY <1>8, <1>9

\* The slope the detector sees, and the anchor it is measured from.
LEMMA AnchorFacts ==
  ASSUME NEW at \in SlopeAnchors, NEW room \in RoomLevels, NEW minutes \in {1, Longest}
  PROVE  LET aged == Observation!Aged(at, minutes)
         IN  /\ Observation!quantized_slope(aged, room) \in Int
             /\ Observation!Anchored(aged, room) \in SlopeAnchors
             /\ Observation!Anchored(aged, room).ref # Observation!Unset
<1> DEFINE n == IF at.ref = Observation!Unset THEN 0 ELSE Observation!Lower(at.age + minutes, Longest)
           aged == Observation!Aged(at, minutes)
<1>1. /\ at.ref \in RoomLevels \cup {Observation!Unset} /\ at.age \in 0 .. Longest
      /\ minutes \in 1 .. Longest /\ room \in Int /\ room # Observation!Unset
      /\ 0 \in 0 .. Longest
  BY ObsConstants DEF SlopeAnchors
<1>2. n \in 0 .. Longest /\ (at.ref # Observation!Unset => n \in Nat \ {0})
  BY <1>1, ObsConstants DEF Observation!Lower
<1>3. aged = [at EXCEPT !.age = n]
  BY DEF Observation!Aged
<1> HIDE DEF n, aged
<1>4. aged \in SlopeAnchors /\ aged.ref = at.ref /\ aged.age = n
  BY <1>2, <1>3 DEF SlopeAnchors
<1>5. Observation!quantized_slope(aged, room) \in Int
  <2>1. CASE at.ref = Observation!Unset
    BY <1>4, <2>1, ObsConstants DEF Observation!quantized_slope
  <2>2. CASE at.ref # Observation!Unset
    <3>0. at.ref \in Nat /\ Scale \in Int
      <4>1. at.ref \in RoomLevels
        BY <1>1, <2>2
      <4>2. RoomLevels \subseteq Nat /\ Scale \in Nat
        BY ObsConstants
      <4>3. at.ref \in Nat
        BY <4>1, <4>2, Zenon
      <4> QED
        BY <4>2, <4>3
    <3>1. room - at.ref \in Int /\ n \in Nat \ {0}
      BY <1>1, <1>2, <2>2, <3>0
    <3>2. Scale * (room - at.ref) \in Int
      BY <3>0, <3>1
    <3>3. Observation!quantized_slope(aged, room) =
            Observation!TowardsZero(Scale * (room - at.ref), n)
      <4>1. Observation!quantized_slope(aged, room) =
              Observation!TowardsZero(Scale * (room - aged.ref), aged.age)
        BY <1>4, <2>2, Zenon DEF Observation!quantized_slope
      <4> QED
        BY <1>4, <4>1, Zenon
    <3> QED
      BY <3>1, <3>2, <3>3, Truncated
  <2> QED
    BY <2>1, <2>2
<1>6. /\ Observation!Anchored(aged, room) \in SlopeAnchors
      /\ Observation!Anchored(aged, room).ref # Observation!Unset
  <2>1. CASE at.ref = Observation!Unset \/ at.ref # room
    <3>1. Observation!Anchored(aged, room) = [ref |-> room, age |-> 0, live |-> TRUE]
      BY <1>4, <2>1 DEF Observation!Anchored
    <3> QED
      BY <1>1, <3>1 DEF SlopeAnchors
  <2>2. CASE ~(at.ref = Observation!Unset \/ at.ref # room)
    <3>1. Observation!Anchored(aged, room) = [aged EXCEPT !.live = TRUE]
      BY <1>4, <2>2 DEF Observation!Anchored
    <3> QED
      BY <1>4, <2>2, <3>1 DEF SlopeAnchors
  <2> QED
    BY <2>1, <2>2
<1> QED
  BY <1>5, <1>6 DEF aged

\* What the detector may be after a tick of some minutes, seen from the one before.
CountsFrom(v, w, minutes) ==
  \/ v.state = w.state /\ (minutes < Longest /\ w.at.live => Observation!Healthy)
  \/ v.state.open =>
       IF w.state.open THEN v.state.minutes = w.state.minutes + 1 ELSE v.state.minutes = 0

LEMMA ObserveFacts ==
  ASSUME NEW w, WindowOK(w),
         NEW room \in RoomLevels, NEW cooling \in BOOLEAN, NEW minutes \in {1, Longest},
         NEW threshold \in Thresholds
  PROVE  LET v == Observation!observe_window_auto(w, room, cooling, minutes, threshold)
         IN  WindowOK(v) /\ CountsFrom(v, w, minutes)
<1> DEFINE v == Observation!observe_window_auto(w, room, cooling, minutes, threshold)
           at == Observation!Aged(w.at, minutes)
           slope == IF cooling THEN 0 ELSE Observation!quantized_slope(at, room)
           s == Observation!step_window_auto(w.state, slope, threshold)
<1>1. CASE Observation!Healthy
  <2>1. v = w
    BY <1>1 DEF Observation!observe_window_auto
  <2> HIDE DEF v
  <2> QED
    BY <1>1, <2>1 DEF CountsFrom, v
<1>2. CASE ~Observation!Healthy
  <2>0. DetectorOK(w.state) /\ w.at \in SlopeAnchors
    BY DEF WindowOK
  <2>1. v = [state |-> IF w.at.live /\ minutes < Longest THEN s ELSE w.state,
             at |-> Observation!Anchored(at, room)]
    BY <1>2 DEF Observation!observe_window_auto
  <2>2. /\ slope \in Int /\ threshold \in Nat \ {0}
        /\ Observation!Anchored(at, room) \in SlopeAnchors
        /\ Observation!Anchored(at, room).ref # Observation!Unset
    <3>1. /\ Observation!quantized_slope(at, room) \in Int
          /\ Observation!Anchored(at, room) \in SlopeAnchors
          /\ Observation!Anchored(at, room).ref # Observation!Unset
      BY <2>0, AnchorFacts
    <3>2. threshold \in Nat \ {0}
      BY ObsConstants
    <3> QED
      BY <3>1, <3>2
  <2> HIDE DEF slope
  <2>3. /\ DetectorOK(s)
        /\ s.open => IF w.state.open THEN s.minutes = w.state.minutes + 1 ELSE s.minutes = 0
    BY <2>0, <2>2, DetectorSteps
  <2> HIDE DEF s, at, v
  <2>4. /\ v = [state |-> v.state, at |-> v.at]
        /\ v.state = IF w.at.live /\ minutes < Longest THEN s ELSE w.state
        /\ v.at = Observation!Anchored(at, room)
    BY <2>1
  <2>5. WindowOK(v)
    BY <2>0, <2>2, <2>3, <2>4 DEF WindowOK
  <2>6. CountsFrom(v, w, minutes)
    BY <2>3, <2>4 DEF CountsFrom
  <2> QED
    BY <2>5, <2>6 DEF v
<1> QED
  BY <1>1, <1>2

\* The anchors of the learners.
LEMMA LearnFacts ==
  ASSUME learn \in LearnAnchors, learn.acc # Observation!Unset => learn.mono # Observation!Unset,
         NEW source, NEW room \in RoomLevels, NEW heating \in BOOLEAN, NEW minutes \in {1, Longest}
  PROVE  LET l == Observation!Learnt(source, room, heating, minutes)
         IN  /\ l \in LearnAnchors /\ (l.acc # Observation!Unset => l.mono # Observation!Unset)
             /\ source # "measured" => (l.mono # Observation!Unset <=> learn.mono # Observation!Unset)
             /\ Observation!Accumulated(heating, room, minutes).rate =>
                  learn.acc # Observation!Unset
<1> DEFINE l == Observation!Learnt(source, room, heating, minutes)
           run == Observation!Accumulated(heating, room, minutes)
           n == Observation!Lower(learn.span + minutes, Longest)
           k == IF learn.mono = Observation!Unset THEN Observation!Unset
                ELSE Observation!Lower(learn.mono + minutes, Longest)
<1>1. /\ learn.span \in 0 .. Longest /\ learn.mono \in (0 .. Longest) \cup {Observation!Unset}
      /\ learn.acc \in RoomLevels \cup {Observation!Unset}
      /\ minutes \in 1 .. Longest /\ 0 \in 0 .. Longest
      /\ Observation!Unset = -1
  BY ObsConstants DEF LearnAnchors
<1>2. /\ n \in 0 .. Longest /\ k \in (0 .. Longest) \cup {Observation!Unset}
      /\ k # Observation!Unset <=> learn.mono # Observation!Unset
  BY <1>1, ObsConstants DEF Observation!Lower
<1>3. /\ run.acc \in RoomLevels \cup {Observation!Unset} /\ run.span \in 0 .. Longest
      /\ run.rate => learn.acc # Observation!Unset
  <2> DEFINE started == [acc |-> room, span |-> 0, rate |-> FALSE]
  <2>1. \/ run = [acc |-> Observation!Unset, span |-> 0, rate |-> FALSE]
        \/ run = started
        \/ run = [acc |-> learn.acc, span |-> n, rate |-> FALSE]
        \/ run = [started EXCEPT !.rate = TRUE] /\ learn.acc # Observation!Unset
    BY DEF Observation!Accumulated
  <2> HIDE DEF n, run
  <2> QED
    BY <1>1, <1>2, <2>1
<1>4. CASE source # "measured"
  <2>1. l = [learn EXCEPT !.span = n, !.mono = k]
    BY <1>4 DEF Observation!Learnt
  <2> HIDE DEF l, n, k, run
  <2>2. l \in LearnAnchors /\ l.mono = k /\ l.acc = learn.acc
    BY <1>2, <2>1 DEF LearnAnchors
  <2>3. learn.acc # Observation!Unset => l.mono # Observation!Unset
    BY <1>2, <2>2
  <2> QED
    BY <1>2, <1>3, <2>2, <2>3 DEF l, run
<1>5. CASE source = "measured"
  <2>1. l = [mono |-> 0, room |-> room, acc |-> run.acc, span |-> run.span]
    BY <1>5 DEF Observation!Learnt
  <2> HIDE DEF run
  <2>2. l \in LearnAnchors /\ l.mono = 0
    BY <1>1, <1>3, <2>1 DEF LearnAnchors
  <2> QED
    BY <1>1, <1>3, <1>5, <2>2 DEF run
<1> QED
  BY <1>4, <1>5

LEMMA ObsTickKeeps ==
  ASSUME ObsInv, Observation!ObservedTick
  PROVE  ObsInv' /\ (out'.learned \/ out'.rated => ~taint)
<1>1. PICK room \in RoomLevels, plausible \in BOOLEAN, stale \in BOOLEAN, cooling \in BOOLEAN,
           heating \in BOOLEAN, failed \in BOOLEAN, minutes \in {1, Longest},
           threshold \in Thresholds :
         Observation!Tick(room, plausible, stale, cooling, heating, failed, minutes, threshold)
  BY DEF Observation!ObservedTick
<1> DEFINE source == Observation!Source(plausible)
           seen == Observation!Ingested(source, room)
           frozen == stale \/ source = "default"
           w == Observation!Reset(wa)
           ajarNow == Observation!effective_window_open(w)
           learns == Observation!should_learn(ajarNow, frozen, failed)
           steps == learns /\ source = "measured"
           rate == Observation!Accumulated(heating, seen, minutes).rate
           fresh == learn.mono # Observation!Unset /\ learn.mono + minutes < Longest
<1>2. /\ verdict' = ajarNow
      /\ learn' = IF learns THEN Observation!Learnt(source, seen, heating, minutes)
                  ELSE Observation!Forgotten
      /\ wa' = Observation!observe_window_auto(w, seen, cooling, minutes, threshold)
      /\ out' = [learned |-> steps /\ fresh, rated |-> steps /\ rate, contact |-> contact,
                 source |-> source]
      /\ taint' = IF steps THEN FALSE ELSE taint \/ ~learns
      /\ heldOpen' = IF ~wa'.state.open THEN 0
                     ELSE IF minutes < Longest /\ w.at.live
                          THEN Observation!Lower(heldOpen + 1, MaxDuration + 2) ELSE 0
      /\ contact' = contact /\ bypass' = bypass
  BY <1>1, Zenon DEF Observation!Tick, Observation!Paused
<1>3. /\ ObsTypes /\ StandsCounted /\ AnchorsAreClean
      /\ contact \in ObsWindows /\ bypass \in BOOLEAN /\ taint \in BOOLEAN
      /\ learn \in LearnAnchors /\ learn.room \in RoomLevels \cup {Observation!Unset}
      /\ learn.acc # Observation!Unset => learn.mono # Observation!Unset
  BY DEF ObsInv, ObsTypes, LearnAnchors
<1>4. source \in Observation!Sources /\ seen \in RoomLevels
  <2>1. \/ source = "measured"
        \/ source = "derived" /\ learn.room # Observation!Unset
        \/ source = "default"
    BY DEF Observation!Source
  <2>2. source \in Observation!Sources
    BY <2>1 DEF Observation!Sources
  <2> HIDE DEF source
  <2>3. \/ source = "measured" /\ seen = room
        \/ source = "derived" /\ seen = learn.room
        \/ source = "default" /\ seen = DefaultRoom
    BY <2>1 DEF Observation!Ingested
  <2> HIDE DEF seen
  <2> QED
    BY <1>3, <2>1, <2>2, <2>3, ObsConstants
<1> HIDE DEF source, seen
<1>5. /\ WindowOK(w)
      /\ Observation!Healthy => ~w.state.open /\ ~w.at.live
      /\ ~Observation!Healthy => w = wa
  <2>1. CASE Observation!Healthy
    <3>1. w = [state |-> Observation!Fresh, at |-> Observation!NoAnchor]
      BY <2>1 DEF Observation!Reset
    <3> HIDE DEF w
    <3>2. w.state = Observation!Fresh /\ w.at = Observation!NoAnchor
      BY <3>1
    <3> QED
      BY <2>1, <3>1, <3>2, FreshDetector, NoAnchorFacts DEF WindowOK
  <2>2. CASE ~Observation!Healthy
    <3>1. w = wa
      BY <2>2 DEF Observation!Reset
    <3> HIDE DEF w
    <3> QED
      BY <1>3, <2>2, <3>1 DEF ObsTypes
  <2> QED
    BY <2>1, <2>2
<1> HIDE DEF w
<1>6. ajarNow \in BOOLEAN /\ learns \in BOOLEAN /\ fresh \in BOOLEAN
  BY DEF Observation!effective_window_open, Observation!should_learn
<1>7. Contact /\ ajarNow => contact # "closed"
  BY <1>5 DEF Observation!effective_window_open, Observation!Healthy
<1> HIDE DEF ajarNow
<1>8. WindowOK(wa)' /\ CountsFrom(wa', w, minutes)
  BY <1>2, <1>4, <1>5, ObserveFacts
<1>9. StandsCounted'
  <2>1. /\ heldOpen \in Nat /\ MaxDuration \in Nat \ {0} /\ wa'.state.minutes \in Nat
        /\ w.state.minutes \in Nat
    BY <1>3, <1>5, <1>8, ObsConstants DEF StandsCounted, WindowOK, DetectorOK, Detectors
  <2>3. CASE ~wa'.state.open
    BY <1>2, <2>3 DEF StandsCounted
  <2>4. CASE wa'.state.open /\ ~(minutes < Longest /\ w.at.live)
    BY <1>2, <2>1, <2>4 DEF StandsCounted
  <2>5. CASE wa'.state.open /\ minutes < Longest /\ w.at.live
    <3>1. ~Observation!Healthy /\ w = wa
      BY <1>5, <2>5
    <3>2. heldOpen' = Observation!Lower(heldOpen + 1, MaxDuration + 2)
      BY <1>2, <2>5
    <3>3. heldOpen' \in Nat /\ heldOpen' <= heldOpen + 1
      BY <2>1, <3>2 DEF Observation!Lower
    <3>4. heldOpen + 1 <= wa'.state.minutes + 1
      BY <1>3, <1>8, <2>1, <2>5, <3>1 DEF StandsCounted, CountsFrom
    <3> QED
      BY <2>1, <2>5, <3>3, <3>4 DEF StandsCounted
  <2> QED
    BY <2>3, <2>4, <2>5
<1>10. /\ learn' \in LearnAnchors
       /\ learn'.acc # Observation!Unset => learn'.mono # Observation!Unset
       /\ learns /\ source # "measured" =>
            (learn'.mono # Observation!Unset <=> learn.mono # Observation!Unset)
       /\ ~learns => learn'.mono = Observation!Unset
       /\ rate => learn.acc # Observation!Unset
  <2> DEFINE l == Observation!Learnt(source, seen, heating, minutes)
  <2>1. /\ l \in LearnAnchors /\ (l.acc # Observation!Unset => l.mono # Observation!Unset)
        /\ source # "measured" => (l.mono # Observation!Unset <=> learn.mono # Observation!Unset)
        /\ rate => learn.acc # Observation!Unset
    BY <1>3, <1>4, LearnFacts
  <2>2. /\ Observation!Forgotten \in LearnAnchors
        /\ Observation!Forgotten.acc = Observation!Unset
        /\ Observation!Forgotten.mono = Observation!Unset
    BY ObsConstants DEF Observation!Forgotten, LearnAnchors
  <2> HIDE DEF l, rate
  <2>3. learn' = IF learns THEN l ELSE Observation!Forgotten
    BY <1>2 DEF l
  <2> HIDE DEF learns
  <2> QED
    BY <2>1, <2>2, <2>3
<1>11. rate \in BOOLEAN
  BY DEF Observation!Accumulated
<1> HIDE DEF rate, fresh, learns
<1>12. /\ out' \in [learned : BOOLEAN, rated : BOOLEAN, contact : ObsWindows,
                    source : Observation!Sources]
       /\ out'.learned => steps /\ learn.mono # Observation!Unset
       /\ out'.rated => steps /\ rate
       /\ out'.contact = contact
  <2> DEFINE x == steps /\ fresh
             y == steps /\ rate
  <2>1. x \in BOOLEAN /\ y \in BOOLEAN /\ (x => learn.mono # Observation!Unset)
    BY <1>6, <1>11 DEF fresh
  <2>2. out' = [learned |-> x, rated |-> y, contact |-> contact, source |-> source]
    BY <1>2
  <2>3. (x => steps) /\ (y => steps /\ rate)
    OBVIOUS
  <2> HIDE DEF x, y
  <2> QED
    BY <1>3, <1>4, <2>1, <2>2, <2>3
<1>13. out'.learned \/ out'.rated => ~taint
  BY <1>3, <1>10, <1>12 DEF AnchorsAreClean
<1>14. taint' \in BOOLEAN /\ (steps => ~taint') /\ (learns /\ ~steps => taint' = taint)
  BY <1>2, <1>3, <1>6
<1>15. AnchorsAreClean'
  <2>1. out'.learned \/ out'.rated => ~taint'
    BY <1>12, <1>14
  <2>2. learn'.mono # Observation!Unset => ~taint'
    BY <1>3, <1>10, <1>14 DEF AnchorsAreClean
  <2> QED
    BY <2>1, <2>2 DEF AnchorsAreClean
<1>16. ObsTypes'
  BY <1>2, <1>3, <1>6, <1>8, <1>10, <1>12, <1>14 DEF ObsTypes
<1>17. Observation!HealthyContactWins'
  BY <1>2, <1>7, <1>12 DEF Observation!HealthyContactWins
<1> QED
  BY <1>9, <1>13, <1>15, <1>16, <1>17 DEF ObsInv

LEMMA ForgottenFacts ==
  /\ Observation!Forgotten \in LearnAnchors
  /\ Observation!Forgotten.acc = Observation!Unset /\ Observation!Forgotten.mono = Observation!Unset
BY ObsConstants DEF Observation!Forgotten, LearnAnchors

\* A detector without its anchor.
LEMMA Unanchored ==
  ASSUME WindowOK(wa), wa' = [wa EXCEPT !.at = Observation!NoAnchor]
  PROVE  WindowOK(wa)' /\ wa'.state = wa.state
<1>1. wa' = [state |-> wa.state, at |-> Observation!NoAnchor]
  <2> DEFINE n == Observation!NoAnchor
             s == wa.state
             t == wa.at
  <2>1. wa = [state |-> s, at |-> t] /\ wa' = [wa EXCEPT !.at = n]
    BY DEF WindowOK
  <2> HIDE DEF n, s, t
  <2>2. wa' = [state |-> s, at |-> n]
    BY <2>1
  <2> QED
    BY <2>2 DEF n, s
<1>2. wa'.state = wa.state /\ wa'.at = Observation!NoAnchor
  BY <1>1
<1> QED
  BY <1>1, <1>2, NoAnchorFacts DEF WindowOK

LEMMA ObsBlindKeeps ==
  ASSUME ObsInv, Observation!BlindTick
  PROVE  ObsInv' /\ (out'.learned \/ out'.rated => ~taint)
<1>1. /\ learn' = Observation!Forgotten /\ wa' = [wa EXCEPT !.at = Observation!NoAnchor]
      /\ out' = [out EXCEPT !.learned = FALSE, !.rated = FALSE, !.source = "measured"]
      /\ taint' = TRUE /\ heldOpen' = 0 /\ contact' = contact /\ bypass' = bypass
      /\ verdict' = verdict
  BY DEF Observation!BlindTick
<1>2. /\ ObsTypes /\ WindowOK(wa)
      /\ out \in [learned : BOOLEAN, rated : BOOLEAN, contact : ObsWindows,
                  source : Observation!Sources]
  BY DEF ObsInv, ObsTypes
<1>3. WindowOK(wa)' /\ wa'.state = wa.state
  BY <1>1, <1>2, Unanchored
<1>4. /\ out' \in [learned : BOOLEAN, rated : BOOLEAN, contact : ObsWindows,
                   source : Observation!Sources]
      /\ out'.learned = FALSE /\ out'.rated = FALSE /\ out'.contact = out.contact
  BY <1>1, <1>2 DEF Observation!Sources
<1>5. ObsTypes'
  BY <1>1, <1>2, <1>3, <1>4, ForgottenFacts DEF ObsTypes
<1>6. StandsCounted'
  BY <1>1, <1>2, <1>3 DEF StandsCounted, WindowOK, DetectorOK, Detectors
<1>7. AnchorsAreClean'
  BY <1>1, <1>4, ForgottenFacts DEF AnchorsAreClean
<1>8. Observation!HealthyContactWins'
  BY <1>1, <1>4 DEF ObsInv, Observation!HealthyContactWins
<1> QED
  BY <1>4, <1>5, <1>6, <1>7, <1>8 DEF ObsInv

LEMMA ObsRestartKeeps ==
  ASSUME ObsInv, Observation!Restart
  PROVE  ObsInv' /\ (out'.learned \/ out'.rated => ~taint)
<1>1. /\ learn' = Observation!Forgotten /\ wa' = [wa EXCEPT !.at = Observation!NoAnchor]
      /\ out' = Observation!Nothing /\ verdict' = FALSE
      /\ taint' = TRUE /\ heldOpen' = 0 /\ contact' = contact /\ bypass' = bypass
  BY DEF Observation!Restart
<1>2. ObsTypes /\ WindowOK(wa)
  BY DEF ObsInv, ObsTypes
<1>3. WindowOK(wa)' /\ wa'.state = wa.state
  BY <1>1, <1>2, Unanchored
<1>4. /\ out' \in [learned : BOOLEAN, rated : BOOLEAN, contact : ObsWindows,
                   source : Observation!Sources]
      /\ out'.learned = FALSE /\ out'.rated = FALSE
  BY <1>1 DEF Observation!Nothing, Observation!Sources, ObsWindows
<1>5. ObsTypes'
  BY <1>1, <1>2, <1>3, <1>4, ForgottenFacts DEF ObsTypes
<1>6. StandsCounted'
  BY <1>1, <1>2, <1>3 DEF StandsCounted, WindowOK, DetectorOK, Detectors
<1>7. AnchorsAreClean'
  BY <1>1, <1>4, ForgottenFacts DEF AnchorsAreClean
<1>8. Observation!HealthyContactWins'
  BY <1>1 DEF Observation!HealthyContactWins
<1> QED
  BY <1>4, <1>5, <1>6, <1>7, <1>8 DEF ObsInv

LEMMA ObsSteps ==
  ASSUME ObsInv
  PROVE  /\ Observation!Next => ObsInv' /\ (out'.learned \/ out'.rated => ~taint)
         /\ UNCHANGED observation => ObsInv' /\ (out'.learned \/ out'.rated => ~taint)
<1>1. UNCHANGED observation => ObsInv' /\ (out'.learned \/ out'.rated => ~taint)
  BY DEF observation, ObsInv, ObsTypes, WindowOK, StandsCounted, AnchorsAreClean,
     Observation!HealthyContactWins
<1>2. Observation!MoveWindow \/ Observation!SwitchBypass
        => ObsInv' /\ (out'.learned \/ out'.rated => ~taint)
  <2> SUFFICES ASSUME Observation!MoveWindow \/ Observation!SwitchBypass
               PROVE  ObsInv' /\ (out'.learned \/ out'.rated => ~taint)
    OBVIOUS
  <2>1. /\ contact' \in ObsWindows /\ bypass' \in BOOLEAN
        /\ UNCHANGED <<wa, learn, verdict, out, taint, heldOpen>>
    BY DEF Observation!MoveWindow, Observation!SwitchBypass, ObsWindows, ObsInv, ObsTypes
  <2> QED
    BY <2>1 DEF ObsInv, ObsTypes, WindowOK, StandsCounted, AnchorsAreClean,
       Observation!HealthyContactWins
<1> QED
  BY <1>1, <1>2, ObsTickKeeps, ObsBlindKeeps, ObsRestartKeeps DEF Observation!Next

LEMMA ObsStarts == Observation!Init => ObsInv
<1> SUFFICES ASSUME Observation!Init PROVE ObsInv
  OBVIOUS
<1>1. /\ contact = "closed" /\ bypass = FALSE /\ learn = Observation!Forgotten
      /\ wa = [state |-> Observation!Fresh, at |-> Observation!NoAnchor]
      /\ verdict = FALSE /\ out = Observation!Nothing /\ taint = TRUE /\ heldOpen = 0
  BY DEF Observation!Init
<1>2. wa.state = Observation!Fresh /\ wa.at = Observation!NoAnchor
  BY <1>1
<1>3. WindowOK(wa) /\ ~wa.state.open
  BY <1>1, <1>2, FreshDetector, NoAnchorFacts DEF WindowOK
<1>4. /\ out \in [learned : BOOLEAN, rated : BOOLEAN, contact : ObsWindows,
                  source : Observation!Sources]
      /\ out.learned = FALSE /\ out.rated = FALSE
  BY <1>1 DEF Observation!Nothing, Observation!Sources, ObsWindows
<1> QED
  BY <1>1, <1>3, <1>4, ForgottenFacts DEF ObsInv, ObsTypes, ObsWindows, StandsCounted,
     AnchorsAreClean, Observation!HealthyContactWins

LEMMA ObsTells ==
  ObsInv => Observation!TypeOK /\ Observation!StuckVerdictClears /\ Observation!HealthyContactWins
<1> SUFFICES ASSUME ObsInv PROVE Observation!TypeOK /\ Observation!StuckVerdictClears
  BY DEF ObsInv
<1>1. /\ WindowOK(wa) /\ wa.state \in Detectors /\ wa.at \in SlopeAnchors /\ learn \in LearnAnchors
      /\ wa.state.open => wa.state.minutes < MaxDuration
      /\ ~wa.state.open => wa.state.minutes = 0
  BY DEF ObsInv, ObsTypes, WindowOK, DetectorOK
<1>2. Observation!TypeOK
  BY <1>1 DEF ObsInv, ObsTypes, WindowOK, DetectorOK, Detectors, SlopeAnchors, LearnAnchors,
     ObsWindows, Observation!TypeOK
<1>3. Observation!StuckVerdictClears
  <2>1. wa.state.minutes \in Nat /\ heldOpen \in Nat /\ wa.state.open \in BOOLEAN
    BY <1>1 DEF Detectors, ObsInv, StandsCounted
  <2>2. CASE wa.state.open
    BY <1>1, <2>1, <2>2, ObsConstants DEF ObsInv, StandsCounted, Observation!StuckVerdictClears
  <2>3. CASE ~wa.state.open
    BY <2>1, <2>3, ObsConstants DEF ObsInv, StandsCounted, Observation!StuckVerdictClears
  <2> QED
    BY <2>2, <2>3
<1> QED
  BY <1>2, <1>3

LEMMA ObsPart ==
  PartsSpec => [](part = "observation" => ObsInv)
<1>1. PartsInit => (part = "observation" => ObsInv)
  BY ObsStarts DEF PartsInit
<1>2. (part = "observation" => ObsInv)
        /\ [PartsNext]_<<part, zone, observation, advice, episode>>
        => (part = "observation" => ObsInv)'
  <2> SUFFICES ASSUME part' = "observation", part = "observation" => ObsInv,
                      [PartsNext]_<<part, zone, observation, advice, episode>>
               PROVE  ObsInv'
    OBVIOUS
  <2>1. part = "observation" /\ ObsInv /\ (Observation!Next \/ UNCHANGED observation)
    BY DEF PartsNext
  <2> QED
    BY <2>1, ObsSteps
<1> QED
  BY <1>1, <1>2, PTL DEF PartsSpec

(***************************************************************************)
(* Across contacts that vanish, sensors that fail, a detector that sticks, *)
(* a bypass and restarts, for every threshold, duration and scale: a stuck *)
(* window verdict clears, a healthy contact wins over it, and the learners *)
(* integrate no interval that held a pause (control/window_auto.py,        *)
(* control/pipeline_prepare.py).                                           *)
(***************************************************************************)
THEOREM VerdictIsEarned == PartsSpec => WindowVerdictIsEarned
<1>1. ObsInv => Observation!TypeOK /\ Observation!StuckVerdictClears
                  /\ Observation!HealthyContactWins
  BY ObsTells
<1>2. (part = "observation" => ObsInv)
        /\ [PartsNext]_<<part, zone, observation, advice, episode>>
        => [out'.learned \/ out'.rated => ~taint]_(Observation!vars)
  <2> SUFFICES ASSUME part = "observation" => ObsInv,
                      [PartsNext]_<<part, zone, observation, advice, episode>>,
                      Observation!vars' # Observation!vars
               PROVE  out'.learned \/ out'.rated => ~taint
    OBVIOUS
  <2>1. part = "observation" /\ (Observation!Next \/ UNCHANGED observation)
    BY DEF PartsNext, observation, Observation!vars
  <2> QED
    BY <2>1, ObsSteps
<1> QED
  BY <1>1, <1>2, ObsPart, PTL DEF PartsSpec, WindowVerdictIsEarned, Observation!CleanInterval

-----------------------------------------------------------------------------
(* The table of the advice: the first rule that holds gives the verdict,   *)
(* and which rule that is follows from the rows above it.                  *)
LEMMA LeastOfTwelve ==
  ASSUME NEW S \in SUBSET (1 .. 12), 12 \in S
  PROVE  Advice!Min(S) \in S /\ \A j \in S : Advice!Min(S) <= j
<1>1. \E i \in S : \A j \in S : i <= j
  <2>1. \A i \in S : i \in {1, 2, 3, 4, 5, 6, 7, 8, 9, 10, 11, 12}
    OBVIOUS
  <2>2. CASE 1 \in S
    BY <2>1, <2>2
  <2>3. CASE 1 \notin S /\ 2 \in S
    BY <2>1, <2>3
  <2>4. CASE {1, 2} \cap S = {} /\ 3 \in S
    BY <2>1, <2>4
  <2>5. CASE {1, 2, 3} \cap S = {} /\ 4 \in S
    BY <2>1, <2>5
  <2>6. CASE {1, 2, 3, 4} \cap S = {} /\ 5 \in S
    BY <2>1, <2>6
  <2>7. CASE {1, 2, 3, 4, 5} \cap S = {} /\ 6 \in S
    BY <2>1, <2>7
  <2>8. CASE {1, 2, 3, 4, 5, 6} \cap S = {} /\ 7 \in S
    BY <2>1, <2>8
  <2>9. CASE {1, 2, 3, 4, 5, 6, 7} \cap S = {} /\ 8 \in S
    BY <2>1, <2>9
  <2>10. CASE {1, 2, 3, 4, 5, 6, 7, 8} \cap S = {} /\ 9 \in S
    BY <2>1, <2>10
  <2>11. CASE {1, 2, 3, 4, 5, 6, 7, 8, 9} \cap S = {} /\ 10 \in S
    BY <2>1, <2>11
  <2>12. CASE {1, 2, 3, 4, 5, 6, 7, 8, 9, 10} \cap S = {} /\ 11 \in S
    BY <2>1, <2>12
  <2>13. CASE {1, 2, 3, 4, 5, 6, 7, 8, 9, 10, 11} \cap S = {}
    BY <2>1, <2>13
  <2> QED
    BY <2>2, <2>3, <2>4, <2>5, <2>6, <2>7, <2>8, <2>9, <2>10, <2>11, <2>12, <2>13
<1>2. Advice!Min(S) = CHOOSE x \in S : \A y \in S : x <= y
  BY DEF Advice!Min
<1> QED
  BY <1>1, <1>2

LEMMA TableFirst ==
  ASSUME NEW x, NEW o, NEW p
  PROVE  LET r == Advice!Rules(x, o, p)
         IN  \E i \in 1 .. 12 : /\ r[i][1] /\ (\A j \in 1 .. 12 : j < i => ~r[j][1])
                                /\ Advice!ventilation_advise(x, o, p) = r[i][2]
<1> DEFINE r == Advice!Rules(x, o, p)
           S == {i \in DOMAIN r : r[i][1]}
<1>1. DOMAIN r = 1 .. 12
  BY DEF Advice!Rules
<1>2. r[12][1]
  BY DEF Advice!Rules
<1>3. Advice!ventilation_advise(x, o, p) = r[Advice!Min(S)][2]
  BY DEF Advice!ventilation_advise
<1> HIDE DEF r
<1>4. S \in SUBSET (1 .. 12) /\ 12 \in S /\ \A i \in S : r[i][1]
  BY <1>1, <1>2
<1>5. \A i \in 1 .. 12 : i \notin S => ~r[i][1]
  BY <1>1
<1> DEFINE i == Advice!Min(S)
<1> HIDE DEF S
<1>6. i \in S /\ \A j \in S : i <= j
  BY <1>4, LeastOfTwelve
<1> HIDE DEF i
<1>7. r[i][1] /\ i \in 1 .. 12 /\ \A j \in 1 .. 12 : j < i => ~r[j][1]
  BY <1>4, <1>5, <1>6
<1> QED
  BY <1>3, <1>7 DEF i, r

\* The rows of the table.
LEMMA TableRows ==
  ASSUME NEW x, NEW o, NEW p
  PROVE  LET r == Advice!Rules(x, o, p)
         IN  /\ r[1][1] <=> x.wet /\ Advice!OutsideDrier(x)
             /\ r[2][1] <=> Advice!MoldGuard(x, o, p)
             /\ r[3][1] <=> x.vapour = "dry" /\ Advice!OutsideDrier(x)
             /\ r[4][1] <=> o /\ Advice!AtFloor(x)
             /\ r[5][1] <=> Advice!ProtectReason(x, p)
             /\ r[6][1] <=> o /\ p.reason = "moisture_protect" /\ ~Advice!MoistureReason(x, p)
             /\ r[7][1] <=> Advice!HeatOut(x, p)
             /\ r[8][1] <=> Advice!MoistureReason(x, p)
             /\ r[9][1] <=> x.occupied /\ x.co2
BY DEF Advice!Rules

Row(v, action, reason) == v.action = action /\ v.reason = reason

LEMMA TableVerdicts ==
  ASSUME NEW x, NEW o, NEW p
  PROVE  LET r == Advice!Rules(x, o, p)
         IN  /\ Row(r[1][2], "open", "mold_risk") /\ r[1][2].level \in Advice!Levels
             /\ Row(r[2][2], "close", "mold_guard") /\ r[2][2].level \in Advice!Levels
             /\ r[3][2].action \in {"close", "discourage"} /\ r[3][2].reason = "too_dry"
             /\ r[3][2].level \in Advice!Levels
             /\ Row(r[4][2], "close", "thermal_floor") /\ r[4][2].level \in Advice!Levels
             /\ Row(r[5][2], "open", "moisture_protect") /\ r[5][2].level \in Advice!Levels
             /\ Row(r[6][2], "close", "target_reached") /\ r[6][2].level \in Advice!Levels
             /\ Row(r[7][2], "open", "heat_out") /\ r[7][2].level \in Advice!Levels
             /\ Row(r[8][2], "open", "moisture_out") /\ r[8][2].level \in Advice!Levels
             /\ Row(r[9][2], "open", "co2") /\ r[9][2].level \in Advice!Levels
             /\ Row(r[10][2], "close", "cooled_off") /\ r[10][2].level \in Advice!Levels
             /\ Row(r[11][2], "close", "target_reached") /\ r[11][2].level \in Advice!Levels
             /\ r[12][2].action = "idle" /\ r[12][2].reason \in {"no_data", "no_gain"}
             /\ r[12][2].level \in Advice!Levels
BY DEF Advice!Rules, Advice!Verdict, Row, Advice!Levels

LEMMA TableShape ==
  ASSUME NEW x, NEW o, NEW p
  PROVE  Advice!ventilation_advise(x, o, p) \in
           [action : Advice!Actions, reason : Advice!TableReasons, level : Advice!Levels]
<1>1. \A i \in 1 .. 12 : Advice!Rules(x, o, p)[i][2] \in
        [action : Advice!Actions, reason : Advice!TableReasons, level : Advice!Levels]
  BY DEF Advice!Rules, Advice!Verdict, Advice!Levels, Advice!Actions, Advice!TableReasons,
     Advice!Protection, Advice!ProtectionOpen, Advice!ProtectionClose, Advice!ComfortOpen,
     Advice!OtherReasons
<1> QED
  BY <1>1, TableFirst

Twelve == {1, 2, 3, 4, 5, 6, 7, 8, 9, 10, 11, 12}

\* What a verdict tells of the air it was given for.
LEMMA VerdictMeans ==
  ASSUME NEW x, NEW o, NEW p
  PROVE  LET v == Advice!ventilation_advise(x, o, p)
         IN  /\ v.reason = "mold_risk" => v.action = "open" /\ x.wet /\ Advice!OutsideDrier(x)
             /\ v.reason = "moisture_protect" =>
                  /\ v.action = "open" /\ Advice!ProtectReason(x, p)
                  /\ ~(x.vapour = "dry" /\ Advice!OutsideDrier(x))
             /\ v.reason = "moisture_out" => v.action = "open" /\ Advice!MoistureReason(x, p)
             /\ v.action = "open" /\ ~(x.occupied /\ x.co2) /\ ~AdviceCools =>
                  v.reason \in {"mold_risk", "moisture_protect", "moisture_out"}
<1> DEFINE r == Advice!Rules(x, o, p)
           v == Advice!ventilation_advise(x, o, p)
<1>1. PICK i \in 1 .. 12 : /\ r[i][1] /\ (\A j \in 1 .. 12 : j < i => ~r[j][1])
                           /\ v = r[i][2]
  BY TableFirst
<1>2. i \in Twelve
  BY DEF Twelve
<1>3. ~AdviceCools => ~r[7][1]
  BY TableRows DEF Advice!HeatOut
<1>4. CASE i = 1
  BY <1>1, <1>4, TableRows, TableVerdicts DEF Row
<1>5. CASE i = 5
  <2>1. ~r[3][1]
    BY <1>1, <1>5
  <2> QED
    BY <1>1, <1>5, <2>1, TableRows, TableVerdicts DEF Row
<1>6. CASE i = 8
  BY <1>1, <1>6, TableRows, TableVerdicts DEF Row
<1>7. CASE i = 7
  BY <1>1, <1>3, <1>7, TableVerdicts DEF Row
<1>8. CASE i = 9
  BY <1>1, <1>8, TableRows, TableVerdicts DEF Row
<1>9. CASE i \notin {1, 5, 7, 8, 9}
  <2>1. /\ v.action # "open"
        /\ v.reason \notin {"mold_risk", "moisture_protect", "moisture_out"}
    BY <1>1, <1>2, <1>9, TableVerdicts DEF Row, Twelve
  <2> QED
    BY <2>1
<1> QED
  BY <1>4, <1>5, <1>6, <1>7, <1>8, <1>9

\* An airing for moisture stands on what this air gave it.
Grounded(x, reason) ==
  /\ reason = "mold_risk" => x.wet /\ Advice!OutsideDrier(x)
  /\ reason = "moisture_protect" =>
       x.over /\ Advice!Gain(x, TRUE) /\ ~(x.vapour = "dry" /\ Advice!OutsideDrier(x))
  /\ reason = "moisture_out" => x.occupied /\ Advice!Gain(x, TRUE) /\ x.vapour = "moist"

Moisture == {"mold_risk", "moisture_protect", "moisture_out"}

LEMMA VerdictIsGrounded ==
  ASSUME NEW x, NEW o, NEW p
  PROVE  Grounded(x, Advice!ventilation_advise(x, o, p).reason)
BY VerdictMeans DEF Grounded, Advice!ProtectReason, Advice!MoistureReason, Advice!Gain

\* It stands as long as the air does, whatever the window.
LEMMA AiringStands ==
  ASSUME NEW x, NEW o, NEW p, ~x.engaged, p.active, p.reason \in Moisture, Grounded(x, p.reason)
  PROVE  Advice!ventilation_advise(x, o, p).action = "open"
<1> DEFINE r == Advice!Rules(x, o, p)
           v == Advice!ventilation_advise(x, o, p)
<1>1. PICK i \in 1 .. 12 : /\ r[i][1] /\ (\A j \in 1 .. 12 : j < i => ~r[j][1])
                           /\ v = r[i][2]
  BY TableFirst
<1>2. i \in Twelve
  BY DEF Twelve
<1>3. ~Advice!EdgeProtected(x) /\ ~Advice!AtFloor(x)
  BY DEF Advice!EdgeProtected, Advice!AtFloor
<1>4. ~r[4][1]
  BY <1>3, TableRows
<1>5. CASE p.reason = "mold_risk"
  <2>1. r[1][1]
    BY <1>5, TableRows DEF Grounded
  <2>2. i = 1
    BY <1>1, <1>2, <2>1 DEF Twelve
  <2> QED
    BY <1>1, <2>2, TableVerdicts DEF Row
<1>6. CASE p.reason = "moisture_protect"
  <2>1. Advice!ProtectReason(x, p)
    BY <1>3, <1>6 DEF Grounded, Advice!ProtectReason, Advice!Gain
  <2>2. ~Advice!MoldGuard(x, o, p)
    BY <1>6, <2>1 DEF Advice!MoldGuard, Advice!OwnAiring
  <2>3. r[5][1] /\ ~r[2][1] /\ ~r[3][1]
    BY <1>6, <2>1, <2>2, TableRows DEF Grounded
  <2>4. i \in {1, 5}
    BY <1>1, <1>2, <1>4, <2>3 DEF Twelve
  <2> QED
    BY <1>1, <2>4, TableVerdicts DEF Row
<1>7. CASE p.reason = "moisture_out"
  <2>1. Advice!MoistureReason(x, p)
    BY <1>3, <1>7 DEF Grounded, Advice!MoistureReason, Advice!Gain
  <2>2. ~Advice!MoldGuard(x, o, p)
    BY <1>7, <2>1 DEF Advice!MoldGuard, Advice!OwnAiring
  <2>3. r[8][1] /\ ~r[2][1] /\ ~r[3][1] /\ ~r[6][1]
    BY <1>7, <2>1, <2>2, TableRows DEF Grounded
  <2>4. i \in {1, 5, 7, 8}
    BY <1>1, <1>2, <1>4, <2>3 DEF Twelve
  <2> QED
    BY <1>1, <2>4, TableVerdicts DEF Row
<1> QED
  BY <1>5, <1>6, <1>7 DEF Moisture

-----------------------------------------------------------------------------
(* The advice.                                                             *)

\* The last advice is the latch, given for this air, or none is remembered.
Remembered ==
  \/ announced = Advice!Unannounced /\ turns = 0
  \/ /\ announced.action # ""
     /\ latch = [active |-> announced.action = "open", reason |-> announced.reason]
     /\ Grounded(air, announced.reason)
     /\ announced.reason \in Moisture => announced.action = "open"
     /\ announced.action = "open" /\ ~(air.occupied /\ air.co2) /\ ~AdviceCools =>
          announced.reason \in Moisture

\* An advice that has turned round in this air has turned to an airing.
TurnedOnce ==
  ~air.engaged /\ ~(air.occupied /\ air.co2) /\ ~AdviceCools =>
    turns = 0 \/ (turns = 1 /\ announced.action = "open")

NoteStands == AdviceFaults = {} /\ note => optin /\ Advice!Episode(announced)

AdviceInv == Advice!TypeOK /\ Remembered /\ TurnedOnce /\ NoteStands

LEMMA AirFacts ==
  ASSUME NEW x \in Airs
  PROVE  x.engaged \in BOOLEAN /\ x.occupied \in BOOLEAN /\ x.co2 \in BOOLEAN
BY RoomsAssumption DEF Advice!AirsAssumption, Advice!AllAirs

LEMMA NotesFollow ==
  ASSUME NEW v \in [action : Advice!Actions, reason : Advice!TableReasons, level : Advice!Levels],
         note => optin /\ Advice!Episode(announced), note \in BOOLEAN, optin \in BOOLEAN,
         announced \in Advice!Announced,
         Advice!_announce_vent_advice(v), optin' = optin
  PROVE  note' \in BOOLEAN /\ (note' => optin' /\ Advice!Episode(announced'))
<1>1. /\ announced' = [action |-> v.action, reason |-> v.reason]
      /\ note' = IF Advice!Creates(announced, v) THEN TRUE
                 ELSE IF Advice!Dismisses(announced, v) THEN FALSE ELSE note
  BY DEF Advice!_announce_vent_advice
<1>2. Advice!Episode(announced') = Advice!Episode(v)
  BY <1>1 DEF Advice!Episode
<1>3. v.action \in Advice!Actions
  OBVIOUS
<1>4. CASE Advice!Creates(announced, v)
  BY <1>1, <1>2, <1>4 DEF Advice!Creates
<1>5. CASE ~Advice!Creates(announced, v) /\ Advice!Dismisses(announced, v)
  BY <1>1, <1>5
<1>6. CASE ~Advice!Creates(announced, v) /\ ~Advice!Dismisses(announced, v) /\ note
  <2>1. optin /\ Advice!Episode(announced) /\ note' = note
    BY <1>1, <1>6
  <2>2. CASE Advice!Silent(announced, v)
    <3>0. announced.action # ""
      <4>0. Advice!Episode(announced)
        BY <2>1
      <4>1. announced # Advice!Unannounced
        <5>1. ~Advice!Episode(Advice!Unannounced)
          BY DEF Advice!Unannounced, Advice!Episode, Advice!NotifyReasons
        <5> QED
          BY <4>0, <5>1
      <4>2. announced.action \in Advice!Actions
        BY <4>1 DEF Advice!Announced
      <4> QED
        BY <4>2 DEF Advice!Actions
    <3>1. Advice!Key(v) = Advice!Key(announced)
      BY <2>2, <3>0 DEF Advice!Silent
    <3>2. /\ v.action = announced.action
          /\ (IF v.reason \in Advice!NotifyReasons THEN v.reason ELSE "") =
             (IF announced.reason \in Advice!NotifyReasons THEN announced.reason ELSE "")
      BY <3>1 DEF Advice!Key
    <3>3. Advice!Episode(v)
      BY <2>1, <3>2 DEF Advice!Episode, Advice!NotifyReasons
    <3> QED
      BY <1>2, <2>1, <3>3
  <2>3. CASE ~Advice!Silent(announced, v)
    BY <1>2, <1>6, <2>1, <2>3 DEF Advice!Creates, Advice!Dismisses
  <2> QED
    BY <2>2, <2>3
<1>7. CASE ~Advice!Creates(announced, v) /\ ~Advice!Dismisses(announced, v) /\ ~note
  BY <1>1, <1>7
<1> QED
  BY <1>4, <1>5, <1>6, <1>7

-----------------------------------------------------------------------------
\* In air that stands still an airing for moisture stands too.
LEMMA AiringIsKept ==
  ASSUME Remembered, ~air.engaged, announced.reason \in Moisture
  PROVE  announced.action = "open" /\ Advice!ventilation_advise(air, ajar, latch).action = "open"
<1>1. announced # Advice!Unannounced
  <2>1. Advice!Unannounced.reason \notin Moisture
    BY DEF Moisture, Advice!Unannounced
  <2> QED
    BY <2>1
<1>2. /\ announced.action = "open"
      /\ latch = [active |-> announced.action = "open", reason |-> announced.reason]
      /\ Grounded(air, announced.reason)
  BY <1>1 DEF Remembered
<1>3. latch.active /\ latch.reason = announced.reason
  BY <1>2
<1> QED
  BY <1>2, <1>3, AiringStands

LEMMA TickRemembers ==
  ASSUME NEW x, Advice!Tick(x)
  PROVE  Remembered'
<1> DEFINE v == Advice!ventilation_advise(x, ajar, latch)
<1>1. /\ air' = x
      /\ latch' = [active |-> v.action = "open", reason |-> v.reason]
      /\ announced' = [action |-> v.action, reason |-> v.reason]
  BY DEF Advice!Tick, Advice!_announce_vent_advice
<1>2. v.action \in Advice!Actions
  BY TableShape
<1>3. announced'.action # ""
  BY <1>1, <1>2 DEF Advice!Actions
<1>4. Grounded(x, v.reason)
  BY VerdictIsGrounded
<1>5. /\ v.reason \in Moisture => v.action = "open"
      /\ v.action = "open" /\ ~(x.occupied /\ x.co2) /\ ~AdviceCools => v.reason \in Moisture
  BY VerdictMeans DEF Moisture
<1> HIDE DEF v
<1>6. announced'.action = v.action /\ announced'.reason = v.reason
  BY <1>1
<1>7. Grounded(air', announced'.reason)
  BY <1>1, <1>4, <1>6
<1>8. latch' = [active |-> announced'.action = "open", reason |-> announced'.reason]
  BY <1>1, <1>6
<1> QED
  BY <1>1, <1>3, <1>5, <1>6, <1>7, <1>8 DEF Remembered

LEMMA TickTurnsOnce ==
  ASSUME AdviceInv, NEW x \in Airs, Advice!Tick(x)
  PROVE  TurnedOnce' /\ turns' \in 0 .. 3
<1> DEFINE v == Advice!ventilation_advise(x, ajar, latch)
<1>1. /\ air' = x /\ turns' = Advice!Turns(x, v)
      /\ announced' = [action |-> v.action, reason |-> v.reason]
  BY DEF Advice!Tick, Advice!_announce_vent_advice
<1>2. turns \in 0 .. 3 /\ Remembered /\ TurnedOnce
  BY DEF AdviceInv, Advice!TypeOK
<1>3. CASE x # air
  BY <1>1, <1>3 DEF Advice!Turns, TurnedOnce
<1>4. CASE x = air
  <2>1. turns' = IF Advice!Turned(v) /\ turns < 3 THEN turns + 1 ELSE turns
    BY <1>1, <1>4 DEF Advice!Turns
  <2>2. ASSUME ~x.engaged, ~(x.occupied /\ x.co2), ~AdviceCools
        PROVE  turns' = 0 \/ (turns' = 1 /\ announced'.action = "open")
    <3>1. turns = 0 \/ (turns = 1 /\ announced.action = "open")
      BY <1>2, <1>4, <2>2 DEF TurnedOnce
    <3>2. CASE announced.action = "open"
      <4>1. announced.reason \in Moisture
        <5>1. Advice!Unannounced.action # "open"
          BY DEF Advice!Unannounced
        <5>2. ~(air.occupied /\ air.co2) /\ ~AdviceCools
          BY <1>4, <2>2
        <5> QED
          BY <1>2, <3>2, <5>1, <5>2 DEF Remembered
      <4>2. v.action = "open"
        BY <1>2, <1>4, <2>2, <4>1, AiringIsKept
      <4>3. ~Advice!Turned(v)
        BY <3>2, <4>2 DEF Advice!Turned
      <4>4. announced'.action = "open"
        BY <1>1, <4>2
      <4> QED
        BY <2>1, <3>1, <4>3, <4>4
    <3>3. CASE announced.action # "open"
      <4>1. turns = 0
        BY <3>1, <3>3
      <4>2. Advice!Turned(v) => v.action = "open"
        BY <3>3 DEF Advice!Turned
      <4>3. announced'.action = v.action
        BY <1>1
      <4> HIDE DEF v
      <4> QED
        BY <2>1, <4>1, <4>2, <4>3
    <3> QED
      BY <3>2, <3>3
  <2>3. TurnedOnce'
    BY <1>1, <1>4, <2>2 DEF TurnedOnce
  <2> QED
    BY <1>2, <2>1, <2>3
<1> QED
  BY <1>3, <1>4

LEMMA TickKeepsAdvice ==
  ASSUME AdviceInv, NEW x \in Airs, Advice!Tick(x)
  PROVE  AdviceInv'
<1> DEFINE v == Advice!ventilation_advise(x, ajar, latch)
<1>1. /\ air' = x /\ ajar' = ajar /\ optin' = optin
      /\ latch' = [active |-> v.action = "open", reason |-> v.reason]
      /\ announced' = [action |-> v.action, reason |-> v.reason]
      /\ Advice!_announce_vent_advice(v)
  BY DEF Advice!Tick, Advice!_announce_vent_advice
<1>2. v \in [action : Advice!Actions, reason : Advice!TableReasons, level : Advice!Levels]
  BY TableShape
<1> HIDE DEF v
<1>3. /\ ajar \in BOOLEAN /\ optin \in BOOLEAN /\ note \in BOOLEAN
      /\ announced \in Advice!Announced /\ NoteStands
  BY DEF AdviceInv, Advice!TypeOK
<1>4. note' \in BOOLEAN
  BY <1>1, <1>3 DEF Advice!_announce_vent_advice
<1>5. NoteStands'
  <2>1. SUFFICES ASSUME AdviceFaults = {}
                 PROVE  note' => optin' /\ Advice!Episode(announced')
    BY DEF NoteStands
  <2>2. note => optin /\ Advice!Episode(announced)
    BY <1>3, <2>1 DEF NoteStands
  <2> QED
    BY <1>1, <1>2, <1>3, <2>2, NotesFollow
<1>6. announced' \in Advice!Announced
  BY <1>1, <1>2 DEF Advice!Announced
<1>7. latch' \in [active : BOOLEAN, reason : {""} \cup Advice!TableReasons]
  BY <1>1, <1>2
<1>8. Remembered' /\ TurnedOnce' /\ turns' \in 0 .. 3
  BY TickRemembers, TickTurnsOnce
<1>9. ajar' \in BOOLEAN /\ optin' \in BOOLEAN /\ air' \in Airs
  BY <1>1, <1>3
<1>10. Advice!TypeOK'
  BY <1>4, <1>6, <1>7, <1>8, <1>9 DEF Advice!TypeOK
<1> QED
  BY <1>5, <1>8, <1>10 DEF AdviceInv

LEMMA FreshRuntimeKeepsAdvice ==
  ASSUME AdviceInv, NEW k \in BOOLEAN, Advice!FreshRuntime(k)
  PROVE  AdviceInv'
<1>1. /\ latch' = [latch EXCEPT !.reason = ""] /\ announced' = Advice!Unannounced /\ turns' = 0
      /\ note' = (note /\ k) /\ (k => "reload" \in AdviceFaults)
      /\ air' = air /\ ajar' = ajar /\ optin' = optin
  BY DEF Advice!FreshRuntime
<1>2. latch' \in [active : BOOLEAN, reason : {""} \cup Advice!TableReasons]
  BY <1>1 DEF AdviceInv, Advice!TypeOK
<1>3. Advice!TypeOK'
  <2>1. note' \in BOOLEAN
    BY <1>1
  <2>2. /\ air \in Airs /\ ajar \in BOOLEAN /\ optin \in BOOLEAN
    BY DEF AdviceInv, Advice!TypeOK
  <2>3. announced' \in Advice!Announced
    BY <1>1 DEF Advice!Announced
  <2>4. /\ air' \in Airs /\ ajar' \in BOOLEAN /\ optin' \in BOOLEAN
    BY <1>1, <2>2
  <2>5. turns' \in 0 .. 3
    <3>1. turns' = 0
      BY <1>1
    <3> QED
      BY <3>1
  <2> QED
    BY <1>2, <2>1, <2>3, <2>4, <2>5 DEF Advice!TypeOK
<1>4. Remembered' /\ TurnedOnce'
  BY <1>1 DEF Remembered, TurnedOnce
<1>5. NoteStands'
  BY <1>1 DEF NoteStands
<1> QED
  BY <1>3, <1>4, <1>5 DEF AdviceInv

\* The user moves the window, dismisses the notification, asks for it again.
LEMMA UserKeepsAdvice ==
  ASSUME AdviceInv,
         \/ Advice!MoveWindow \/ Advice!DismissByHand \/ Advice!SwitchOption
         \/ UNCHANGED advice
  PROVE  AdviceInv' /\ announced' = announced
<1>1. /\ air' = air /\ latch' = latch /\ announced' = announced /\ turns' = turns
      /\ (ajar' = ajar \/ ajar' = ~ajar) /\ (optin' = optin \/ optin' = ~optin)
      /\ (note' = note \/ note' = FALSE)
      /\ (AdviceFaults = {} /\ optin => optin')
  BY DEF Advice!MoveWindow, Advice!DismissByHand, Advice!SwitchOption, advice
<1>2. Advice!TypeOK'
  BY <1>1 DEF AdviceInv, Advice!TypeOK
<1>3. Remembered' /\ TurnedOnce'
  BY <1>1 DEF AdviceInv, Remembered, TurnedOnce
<1>4. NoteStands'
  <2>1. NoteStands
    BY DEF AdviceInv
  <2>2. Advice!Episode(announced') = Advice!Episode(announced)
    BY <1>1
  <2> QED
    BY <1>1, <2>1, <2>2 DEF NoteStands
<1> QED
  BY <1>1, <1>2, <1>3, <1>4 DEF AdviceInv

\* While the air stands still an airing for moisture is not turned round.
Unreversed ==
  air' = air /\ ~air.engaged /\ announced.reason \in Moisture => announced'.action # "close"

LEMMA AdviceSteps ==
  ASSUME AdviceInv, Advice!Next \/ UNCHANGED advice
  PROVE  AdviceInv' /\ Unreversed
<1>0. Remembered
  BY DEF AdviceInv
<1>1. ASSUME NEW x \in Airs, Advice!Tick(x)
      PROVE  AdviceInv' /\ Unreversed
  <2> DEFINE v == Advice!ventilation_advise(x, ajar, latch)
  <2>1. AdviceInv'
    BY <1>1, TickKeepsAdvice
  <2>2. air' = x /\ announced'.action = v.action
    BY <1>1 DEF Advice!Tick, Advice!_announce_vent_advice
  <2>3. ASSUME air' = air, ~air.engaged, announced.reason \in Moisture
        PROVE  announced'.action # "close"
    <3>1. v.action = "open"
      BY <1>0, <2>2, <2>3, AiringIsKept
    <3> QED
      BY <2>2, <3>1
  <2> QED
    BY <2>1, <2>3 DEF Unreversed
<1>2. ASSUME NEW k \in BOOLEAN, Advice!FreshRuntime(k)
      PROVE  AdviceInv' /\ Unreversed
  <2>1. announced'.action = ""
    BY <1>2 DEF Advice!FreshRuntime, Advice!Unannounced
  <2> QED
    BY <1>2, <2>1, FreshRuntimeKeepsAdvice DEF Unreversed
<1>3. CASE \/ Advice!MoveWindow \/ Advice!DismissByHand \/ Advice!SwitchOption
           \/ UNCHANGED advice
  <2>1. AdviceInv' /\ announced' = announced
    BY <1>3, UserKeepsAdvice
  <2>2. announced.reason \in Moisture /\ ~air.engaged => announced.action = "open"
    BY <1>0, AiringIsKept
  <2> QED
    BY <2>1, <2>2 DEF Unreversed
<1> QED
  BY <1>1, <1>2, <1>3 DEF Advice!Next

LEMMA AdviceStarts == Advice!Init => AdviceInv
<1> SUFFICES ASSUME Advice!Init PROVE AdviceInv
  OBVIOUS
<1>1. /\ air \in Airs /\ ajar = FALSE /\ latch = Advice!NoAdvice
      /\ announced = Advice!Unannounced /\ note = FALSE /\ optin \in BOOLEAN /\ turns = 0
  BY DEF Advice!Init
<1>2. Advice!TypeOK
  <2>1. latch \in [active : BOOLEAN, reason : {""} \cup Advice!TableReasons]
    BY <1>1 DEF Advice!NoAdvice
  <2>2. announced \in Advice!Announced
    BY <1>1 DEF Advice!Announced
  <2>3. /\ air \in Airs /\ ajar \in BOOLEAN /\ optin \in BOOLEAN
        /\ note \in BOOLEAN
    BY <1>1
  <2>4. turns \in 0 .. 3
    BY <1>1
  <2> QED
    BY <2>1, <2>2, <2>3, <2>4 DEF Advice!TypeOK
<1>3. Remembered /\ TurnedOnce /\ NoteStands
  BY <1>1 DEF Remembered, TurnedOnce, NoteStands
<1> QED
  BY <1>2, <1>3 DEF AdviceInv

LEMMA AdviceAlways == PartsSpec => []AdviceInv
<1>1. PartsInit => AdviceInv
  BY AdviceStarts DEF PartsInit
<1>2. AdviceInv /\ [PartsNext]_<<part, zone, observation, advice, episode>> => AdviceInv'
  <2> SUFFICES ASSUME AdviceInv, [PartsNext]_<<part, zone, observation, advice, episode>>
               PROVE  AdviceInv'
    OBVIOUS
  <2>1. Advice!Next \/ UNCHANGED advice
    BY DEF PartsNext
  <2> QED
    BY <2>1, AdviceSteps
<1> QED
  BY <1>1, <1>2, PTL DEF PartsSpec

(***************************************************************************)
(* The advice is steady for every set of states of the air: an airing for  *)
(* moisture is not turned round in air that stands still, however often    *)
(* the user moves the window; without free cooling and without a CO2 value *)
(* (the tick passes co2=None, ha/phase_prepare.py) the advice turns at     *)
(* most once in one and the same air; the notification that is up stands   *)
(* for the advice announced last, as long as its option stays on and Home  *)
(* Assistant keeps running or restarts as a whole.                         *)
(***************************************************************************)
THEOREM AdviceStaysSteady ==
  ASSUME AdviceFaults = {}, \A x \in Airs : ~x.co2
  PROVE  PartsSpec => AdviceIsSteady
<1>1. AdviceInv => Advice!TypeOK /\ Advice!NoteIsCurrent /\ Advice!SteadyAirSteadyAdvice
  <2> SUFFICES ASSUME AdviceInv
               PROVE  Advice!TypeOK /\ Advice!NoteIsCurrent /\ Advice!SteadyAirSteadyAdvice
    OBVIOUS
  <2>1. Advice!TypeOK /\ TurnedOnce /\ NoteStands
    BY DEF AdviceInv
  <2>2. Advice!NoteIsCurrent
    BY <2>1 DEF NoteStands, Advice!NoteIsCurrent
  <2>3. ~air.co2 /\ turns \in 0 .. 3
    BY <2>1 DEF Advice!TypeOK
  <2>4. Advice!SteadyAirSteadyAdvice
    BY <2>1, <2>3 DEF TurnedOnce, Advice!SteadyAirSteadyAdvice
  <2> QED
    BY <2>1, <2>2, <2>4
<1>2. AdviceInv /\ [PartsNext]_<<part, zone, observation, advice, episode>>
        => [(/\ air' = air /\ ~air.engaged
             /\ announced.reason \in {"moisture_out", "moisture_protect", "mold_risk"})
            => announced'.action # "close"]_(Advice!vars)
  <2> SUFFICES ASSUME AdviceInv, [PartsNext]_<<part, zone, observation, advice, episode>>
               PROVE  Unreversed
    BY DEF Unreversed, Moisture
  <2>1. Advice!Next \/ UNCHANGED advice
    BY DEF PartsNext
  <2> QED
    BY <2>1, AdviceSteps
<1> QED
  BY <1>1, <1>2, AdviceAlways, PTL
     DEF PartsSpec, AdviceIsSteady, Advice!MoistureAiringIsNotReversed

-----------------------------------------------------------------------------
(* The episode of an airing.                                               *)

Openers == Episode!ProtectionOpen \cup Episode!ComfortOpen

\* What the episode relies on in a verdict of the table.
Verdicts == [action : Episode!Actions, reason : Episode!TableReasons, level : Episode!Levels]
SoundVerdict(v) ==
  /\ v \in Verdicts
  /\ v.action = "open" => v.reason \in Openers
  /\ v.reason \in Episode!ProtectionOpen => v.action = "open"
  /\ v.reason \in Episode!ProtectionClose => v.level # "ok"

\* An airing is owned by a reason to open.
Owned(s) == s.phase \in {"requested", "ventilating"} => s.owner \in Openers

\* Protection once spoken in an episode holds its budget.
SpokenIsHeld(s) ==
  s.phase # "idle" => (Episode!Protected(s) <=> s.protected)

\* Every reminder of the episode is in its budget.
Counted(s, n) ==
  s.phase # "idle" => n = s.episode_prompts /\ n <= EpisodeCap[s.protected]

\* An escalation latches the stop, and a latched stop ends in the quiet time.
EscalatedOnce(s) ==
  /\ s.escalations <= 1
  /\ s.phase \in {"requested", "ventilating"} => s.escalations = 0
  /\ s.phase = "stop_requested" /\ ~s.emergency => s.escalations = 0

\* Only a stop is latched, by protection.
LatchedFor(s) ==
  s.emergency => /\ s.phase = "stop_requested"
                 /\ s.reason \in Episode!ProtectionClose /\ s.level # "ok"

EpisodeOK(s, n) ==
  /\ s \in Episode!States /\ n \in Nat
  /\ Owned(s) /\ SpokenIsHeld(s) /\ Counted(s, n) /\ EscalatedOnce(s) /\ LatchedFor(s)

Cards ==
  [action : Episode!Actions, reason : Episode!EpisodeReasons, level : Episode!Levels,
   prompt : BOOLEAN]

\* What a tick that read w and heard v leaves behind.
TickTells(v, w) ==
  /\ card \in Cards
  /\ w \in Episode!Openish /\ v.action = "close" => card.action = "close"
  /\ v.reason \in Episode!ProtectionOpen =>
       \/ card.action = "open" \/ Episode!Latched
       \/ airing.phase = "cooldown" /\ airing.phase_min = 0

EpisodeInv ==
  /\ EpisodeOK(airing, rung)
  /\ TickTells(heard.now, glimpse)
  /\ glimpse \in Episode!Windows
  /\ heard \in [now : Verdicts, before : Verdicts]

\* Every row of the table gives a sound verdict, so every answer is one.
LEMMA RowsAreSound ==
  ASSUME NEW x, NEW o, NEW p, NEW i \in 1 .. 12
  PROVE  SoundVerdict(Table!Rules(x, o, p)[i][2])
<1> DEFINE e == Table!Rules(x, o, p)[i][2]
<1>1. i \in Twelve
  BY DEF Twelve
<1>2. /\ e.action \in Episode!Actions /\ e.reason \in Episode!TableReasons
      /\ e.level \in Episode!Levels
      /\ e = [action |-> e.action, reason |-> e.reason, level |-> e.level]
  BY <1>1 DEF Table!Rules, Table!Verdict, Twelve, Episode!Actions, Episode!Levels,
     Episode!TableReasons, Episode!Protection, Episode!ProtectionOpen,
     Episode!ProtectionClose, Episode!ComfortOpen, Episode!OtherReasons
<1>3. /\ e.action = "open" => e.reason \in Openers
      /\ e.reason \in Episode!ProtectionOpen => e.action = "open"
      /\ e.reason \in Episode!ProtectionClose => e.level # "ok"
  BY <1>1 DEF Table!Rules, Table!Verdict, Twelve, Openers, Episode!ProtectionOpen,
     Episode!ProtectionClose, Episode!ComfortOpen
<1> HIDE DEF e
<1>4. e \in Verdicts
  BY <1>2 DEF Verdicts
<1> QED
  BY <1>3, <1>4 DEF SoundVerdict, e

LEMMA SoundAnswers ==
  ASSUME NEW o \in BOOLEAN, NEW p \in Table!Anchors, NEW v \in Answered[o][p]
  PROVE  SoundVerdict(v)
<1>1. Answered[o][p] = {Table!ventilation_advise(x, o, p) : x \in Airs}
  BY DEF Answered, Table!Answers
<1>2. PICK x \in Airs : v = Table!ventilation_advise(x, o, p)
  BY <1>1
<1> DEFINE r == Table!Rules(x, o, p)
           S == {i \in DOMAIN r : r[i][1]}
<1>3. DOMAIN r = 1 .. 12 /\ r[12][1]
  BY DEF Table!Rules
<1>4. v = r[Table!Min(S)][2]
  BY <1>2 DEF Table!ventilation_advise
<1>5. Table!Min(S) = Advice!Min(S)
  BY DEF Table!Min, Advice!Min
<1> HIDE DEF r
<1>6. S \in SUBSET (1 .. 12) /\ 12 \in S
  BY <1>3
<1> HIDE DEF S
<1>7. Table!Min(S) \in 1 .. 12
  BY <1>5, <1>6, LeastOfTwelve
<1>8. SoundVerdict(r[Table!Min(S)][2])
  BY <1>7, RowsAreSound DEF r
<1> QED
  BY <1>4, <1>8

\* A running airing is a state the table is asked with.
LEMMA FlagsAreAnchors ==
  ASSUME NEW s, Owned(s)
  PROVE  Episode!oracle_flags(s) \in Table!Anchors
<1>1. CASE Episode!Running(s)
  <2>1. s.owner \in Openers /\ Episode!oracle_flags(s) = [active |-> TRUE, reason |-> s.owner]
    BY <1>1 DEF Owned, Episode!Running, Episode!oracle_flags
  <2> QED
    BY <2>1 DEF Openers, Table!Anchors, Table!TableReasons, Table!Protection,
       Table!ProtectionOpen, Table!ComfortOpen, Episode!ProtectionOpen, Episode!ComfortOpen
<1>2. CASE ~Episode!Running(s)
  BY <1>2 DEF Episode!oracle_flags, Episode!NoAdvice, Table!Anchors, Table!NoAdvice
<1> QED
  BY <1>1, <1>2

-----------------------------------------------------------------------------
(* The helpers of the episode, field by field.                             *)
LEMMA LeastOfTwo ==
  ASSUME NEW m \in Nat, NEW k \in Nat
  PROVE  Episode!Min({m, k}) \in Nat /\ Episode!Min({m, k}) <= m /\ Episode!Min({m, k}) <= k
<1>1. Episode!Min({m, k}) = CHOOSE x \in {m, k} : \A y \in {m, k} : x <= y
  BY DEF Episode!Min
<1>2. \E x \in {m, k} : \A y \in {m, k} : x <= y
  <2>1. CASE m <= k
    BY <2>1
  <2>2. CASE ~(m <= k)
    BY <2>2
  <2> QED
    BY <2>1, <2>2
<1>3. Episode!Min({m, k}) \in {m, k} /\ \A y \in {m, k} : Episode!Min({m, k}) <= y
  BY <1>1, <1>2
<1> QED
  BY <1>3

LEMMA EpisodeConstants ==
  /\ MinuteCap \in Nat /\ UnknownRelease \in Nat \ {0} /\ MaxTick \in Nat \ {0}
  /\ EpisodeCap \in [BOOLEAN -> Nat] /\ PhaseCap \in [BOOLEAN -> Nat]
  /\ Cooldown \in [Episode!Causes -> Nat]
BY RoomsAssumption DEF Episode!EpisodeAssumption

\* What two states of the machine have in common.
SameDemand(t, s) == t.reason = s.reason /\ t.owner = s.owner /\ t.level = s.level
SameBudget(t, s) ==
  /\ t.episode_prompts = s.episode_prompts /\ t.escalations = s.escalations
  /\ t.protected = s.protected

LEMMA EnterFacts ==
  ASSUME NEW s \in Episode!States, NEW p \in Episode!Phases
  PROVE  LET t == Episode!Enter(s, p)
         IN  /\ t \in Episode!States /\ t.phase = p /\ t.phase_min = 0
             /\ SameDemand(t, s) /\ SameBudget(t, s) /\ t.emergency = s.emergency
<1> DEFINE t == Episode!Enter(s, p)
<1>1. 0 \in 0 .. MinuteCap /\ 0 \in 0 .. UnknownRelease
  BY EpisodeConstants
<1>2. t = [s EXCEPT !.phase = p, !.phase_min = 0, !.unknown_dwell = 0]
  BY DEF Episode!Enter
<1> HIDE DEF t
<1>3. t \in Episode!States
  BY <1>1, <1>2 DEF Episode!States
<1>4. /\ t.phase = p /\ t.phase_min = 0 /\ SameDemand(t, s) /\ SameBudget(t, s)
      /\ t.emergency = s.emergency
  BY <1>2 DEF Episode!States, SameDemand, SameBudget
<1> QED
  BY <1>3, <1>4 DEF t

LEMMA CarriedFacts ==
  ASSUME NEW s \in Episode!States, NEW v \in Verdicts
  PROVE  LET t == Episode!Carried(s, v)
         IN  /\ t \in Episode!States /\ t.phase = s.phase /\ t.phase_min = s.phase_min
             /\ t.reason = v.reason /\ t.owner = v.reason /\ t.level = v.level
             /\ SameBudget(t, s) /\ t.emergency = s.emergency
BY DEF Episode!Carried, Episode!States, Episode!EpisodeReasons, SameBudget, Verdicts

LEMMA SettledFacts ==
  ASSUME NEW s \in Episode!States, NEW v \in Verdicts, NEW cause \in Episode!Causes,
         NEW scope \in Episode!EpisodeReasons
  PROVE  LET t == Episode!Settled(s, v, cause, scope)
         IN  /\ t \in Episode!States /\ t.phase = "cooldown" /\ t.phase_min = 0
             /\ SameDemand(t, s) /\ SameBudget(t, s) /\ t.emergency = FALSE
             /\ t.cooldown_for = Cooldown[cause]
<1> DEFINE e == Episode!Enter(s, "cooldown")
           p == IF v.action = "open" THEN v.reason ELSE ""
           k == Cooldown[cause]
           t == Episode!Settled(s, v, cause, scope)
<1>1. e \in Episode!States /\ e.phase = "cooldown" /\ e.phase_min = 0
      /\ SameDemand(e, s) /\ SameBudget(e, s)
  BY EnterFacts DEF Episode!Phases
<1>2. p \in Episode!EpisodeReasons
  BY DEF Verdicts, Episode!EpisodeReasons
<1>3. k \in Nat
  BY EpisodeConstants
<1>4. t = [e EXCEPT !.prompts = 0, !.emergency = FALSE, !.cooldown_for = k,
                    !.cooldown_scope = scope, !.pending = p]
  BY DEF Episode!Settled
<1> HIDE DEF e, p, k, t
<1>5. /\ t \in Episode!States /\ t.phase = e.phase /\ t.phase_min = e.phase_min
      /\ SameDemand(t, e) /\ SameBudget(t, e) /\ t.emergency = FALSE /\ t.cooldown_for = k
  BY <1>1, <1>2, <1>3, <1>4 DEF Episode!States, SameDemand, SameBudget
<1> QED
  BY <1>1, <1>5 DEF SameDemand, SameBudget, k, t

LEMMA StopFacts ==
  ASSUME NEW s \in Episode!States, NEW r \in Episode!EpisodeReasons, NEW l \in Episode!Levels,
         NEW e \in BOOLEAN
  PROVE  LET t == Episode!Stop(s, r, l, e)
         IN  /\ t \in Episode!States /\ t.phase = "stop_requested" /\ t.phase_min = 0
             /\ t.reason = r /\ t.level = l /\ t.owner = s.owner /\ t.emergency = e
             /\ SameBudget(t, s)
<1> DEFINE q == Episode!Enter(s, "stop_requested")
           t == Episode!Stop(s, r, l, e)
<1>1. q \in Episode!States /\ q.phase = "stop_requested" /\ q.phase_min = 0
      /\ SameDemand(q, s) /\ SameBudget(q, s)
  BY EnterFacts DEF Episode!Phases
<1>2. t = [q EXCEPT !.reason = r, !.level = l, !.emergency = e]
  BY DEF Episode!Stop
<1> HIDE DEF q, t
<1>3. /\ t \in Episode!States /\ t.phase = q.phase /\ t.phase_min = q.phase_min
      /\ t.reason = r /\ t.level = l /\ t.owner = q.owner /\ t.emergency = e /\ SameBudget(t, q)
  BY <1>1, <1>2 DEF Episode!States, SameBudget
<1> QED
  BY <1>1, <1>3 DEF SameDemand, SameBudget, t

LEMMA BeginFacts ==
  ASSUME NEW s \in Episode!States, NEW p \in Episode!Phases, NEW v \in Verdicts
  PROVE  LET t == Episode!Begin(s, p, v)
         IN  /\ t \in Episode!States /\ t.phase = p /\ t.phase_min = 0
             /\ SameDemand(t, s) /\ t.emergency = s.emergency
             /\ t.episode_prompts = 0 /\ t.escalations = 0
             /\ t.protected = (v.reason \in Episode!Protection)
<1> DEFINE q == Episode!Enter(s, p)
           u == (v.reason \in Episode!Protection)
           t == Episode!Begin(s, p, v)
<1>1. q \in Episode!States /\ q.phase = p /\ q.phase_min = 0
      /\ SameDemand(q, s) /\ q.emergency = s.emergency
  BY EnterFacts
<1>2. u \in BOOLEAN
  OBVIOUS
<1>3. t = [q EXCEPT !.episode_prompts = 0, !.escalations = 0, !.protected = u, !.pending = ""]
  BY DEF Episode!Begin
<1> HIDE DEF q, u, t
<1>4. /\ t \in Episode!States /\ t.phase = q.phase /\ t.phase_min = q.phase_min
      /\ SameDemand(t, q) /\ t.emergency = q.emergency
      /\ t.episode_prompts = 0 /\ t.escalations = 0 /\ t.protected = u
  BY <1>1, <1>2, <1>3 DEF Episode!States, Episode!EpisodeReasons, SameDemand
<1> QED
  BY <1>1, <1>4 DEF SameDemand, u, t

LEMMA RestedFacts ==
  ASSUME NEW s \in Episode!States
  PROVE  LET t == Episode!Rested(s)
         IN  t \in Episode!States /\ t.phase = "idle" /\ t.emergency = FALSE
               /\ t.escalations = s.escalations
<1> DEFINE q == Episode!Enter(s, "idle")
           t == Episode!Rested(s)
<1>1. q \in Episode!States /\ q.phase = "idle" /\ q.escalations = s.escalations
  BY EnterFacts DEF Episode!Phases, SameBudget
<1>2. t = [q EXCEPT !.reason = "", !.owner = "", !.level = "ok", !.prompts = 0,
                    !.episode_prompts = 0, !.protected = FALSE, !.emergency = FALSE,
                    !.cooldown_scope = "", !.cooldown_for = 0, !.pending = ""]
  BY DEF Episode!Rested
<1> HIDE DEF q, t
<1>3. t \in Episode!States /\ t.phase = q.phase /\ t.emergency = FALSE
      /\ t.escalations = q.escalations
  BY <1>1, <1>2 DEF Episode!States, Episode!EpisodeReasons, Episode!Levels
<1> QED
  BY <1>1, <1>3 DEF t

\* A demand that comes up in the quiet time is noted down.
LEMMA NotedFacts ==
  ASSUME NEW s \in Episode!States, NEW v \in Verdicts
  PROVE  LET t == Episode!Noted(s, v)
         IN  /\ t \in Episode!States /\ t.phase = s.phase /\ t.phase_min = s.phase_min
             /\ SameDemand(t, s) /\ SameBudget(t, s) /\ t.emergency = s.emergency
<1> DEFINE p == IF v.action = "open" THEN v.reason ELSE ""
           t == Episode!Noted(s, v)
<1>1. p \in Episode!EpisodeReasons
  BY DEF Verdicts, Episode!EpisodeReasons
<1>2. t = [s EXCEPT !.pending = p]
  BY DEF Episode!Noted
<1> HIDE DEF p, t
<1>3. /\ t \in Episode!States /\ t.phase = s.phase /\ t.phase_min = s.phase_min
      /\ SameDemand(t, s) /\ SameBudget(t, s) /\ t.emergency = s.emergency
  BY <1>1, <1>2 DEF Episode!States, SameDemand, SameBudget
<1> QED
  BY <1>3 DEF t

LEMMA DweltFacts ==
  ASSUME NEW s \in Episode!States, NEW v, NEW w, NEW step \in Nat
  PROVE  LET t == Episode!Dwelt(s, v, w, step)
         IN  /\ t \in Episode!States /\ t.phase = s.phase /\ t.phase_min = s.phase_min
             /\ SameDemand(t, s) /\ SameBudget(t, s) /\ t.emergency = s.emergency
<1> DEFINE p == IF w = "unknown" /\ Episode!Quiet(v)
                THEN Episode!Min({s.unknown_dwell + step, UnknownRelease}) ELSE 0
           t == Episode!Dwelt(s, v, w, step)
<1>1. s.unknown_dwell + step \in Nat /\ UnknownRelease \in Nat
  BY EpisodeConstants DEF Episode!States
<1>2. p \in 0 .. UnknownRelease
  <2> DEFINE m == s.unknown_dwell + step
             k == Episode!Min({m, UnknownRelease})
  <2> HIDE DEF m
  <2>1. k \in Nat /\ k <= UnknownRelease
    BY <1>1, LeastOfTwo DEF m
  <2>2. p = k \/ p = 0
    BY DEF m
  <2> HIDE DEF k, p
  <2> QED
    BY <1>1, <2>1, <2>2
<1>3. t = [s EXCEPT !.unknown_dwell = p]
  BY DEF Episode!Dwelt
<1> HIDE DEF p, t
<1>4. /\ t \in Episode!States /\ t.phase = s.phase /\ t.phase_min = s.phase_min
      /\ SameDemand(t, s) /\ SameBudget(t, s) /\ t.emergency = s.emergency
  BY <1>2, <1>3 DEF Episode!States, SameDemand, SameBudget
<1> QED
  BY <1>4 DEF t

LEMMA AgedFacts ==
  ASSUME NEW s \in Episode!States, NEW v, NEW step \in Nat
  PROVE  LET t == Episode!Aged(s, v, step)
         IN  /\ t \in Episode!States /\ t.phase = s.phase /\ t.emergency = s.emergency
             /\ SameDemand(t, s)
             /\ t.episode_prompts = s.episode_prompts /\ t.escalations = s.escalations
             /\ t.protected = (s.protected
                  \/ (s.phase # "idle" /\ (v.reason \in Episode!Protection \/ s.emergency)))
<1> DEFINE p == Episode!Min({s.phase_min + step, MinuteCap})
           u == s.protected
                  \/ (s.phase # "idle" /\ (v.reason \in Episode!Protection \/ s.emergency))
           t == Episode!Aged(s, v, step)
<1>1. s.phase_min + step \in Nat /\ MinuteCap \in Nat
  BY EpisodeConstants DEF Episode!States
<1>2. p \in 0 .. MinuteCap
  <2> DEFINE m == s.phase_min + step
  <2> HIDE DEF m
  <2>1. p \in Nat /\ p <= MinuteCap
    BY <1>1, LeastOfTwo DEF m
  <2> HIDE DEF p
  <2> QED
    BY <1>1, <2>1
<1>3. u \in BOOLEAN
  OBVIOUS
<1>4. t = [s EXCEPT !.phase_min = p, !.protected = u]
  BY DEF Episode!Aged
<1> HIDE DEF p, u, t
<1>5. /\ t \in Episode!States /\ t.phase = s.phase /\ t.emergency = s.emergency
      /\ SameDemand(t, s)
      /\ t.episode_prompts = s.episode_prompts /\ t.escalations = s.escalations
      /\ t.protected = u
  BY <1>2, <1>3, <1>4 DEF Episode!States, SameDemand
<1> QED
  BY <1>5 DEF t, u

\* A latched stop keeps its own reason; only a protection close replaces it.
LEMMA ToldFacts ==
  ASSUME NEW s \in Episode!States, NEW v \in Verdicts
  PROVE  LET t == Episode!Told(s, v)
         IN  /\ t \in Episode!States /\ t.phase = s.phase /\ t.phase_min = s.phase_min
             /\ t.owner = s.owner /\ SameBudget(t, s)
             /\ t.emergency = (s.emergency \/ Episode!Abort(v))
             /\ \/ t.reason = s.reason /\ t.level = s.level /\ ~Episode!Abort(v)
                \/ t.reason = v.reason /\ t.level = v.level
                     /\ (Episode!Abort(v) \/ ~s.emergency)
<1> DEFINE u == s.emergency \/ Episode!Abort(v)
           t == Episode!Told(s, v)
<1>1. u \in BOOLEAN
  OBVIOUS
<1>2. CASE v.action = "close" /\ (Episode!Abort(v) \/ ~s.emergency)
  <2>1. t = [s EXCEPT !.reason = v.reason, !.level = v.level, !.emergency = u]
    BY <1>2 DEF Episode!Told
  <2> HIDE DEF u, t
  <2>2. /\ t \in Episode!States /\ t.phase = s.phase /\ t.phase_min = s.phase_min
        /\ t.owner = s.owner /\ SameBudget(t, s) /\ t.emergency = u
        /\ t.reason = v.reason /\ t.level = v.level
    BY <1>1, <2>1 DEF Episode!States, Episode!EpisodeReasons, SameBudget, Verdicts
  <2> QED
    BY <1>2, <2>2 DEF t, u
<1>3. CASE ~(v.action = "close" /\ (Episode!Abort(v) \/ ~s.emergency))
  <2>1. t = s /\ ~Episode!Abort(v)
    BY <1>3 DEF Episode!Told, Episode!Abort
  <2>2. s.emergency \in BOOLEAN
    BY DEF Episode!States
  <2>3. s.emergency = (s.emergency \/ Episode!Abort(v))
    BY <2>1, <2>2
  <2> QED
    BY <2>1, <2>3 DEF SameBudget
<1> QED
  BY <1>2, <1>3

-----------------------------------------------------------------------------
(* The states the episode passes through keep its invariant.               *)
LEMMA ProtectedMeans ==
  ASSUME NEW s
  PROVE  Episode!Protected(s) <=> \/ s.protected \/ s.emergency
                                  \/ s.reason \in Episode!Protection
                                  \/ s.owner \in Episode!Protection
<1>1. {s.reason, s.owner} \cap Episode!Protection # {}
        <=> s.reason \in Episode!Protection \/ s.owner \in Episode!Protection
  OBVIOUS
<1> QED
  BY <1>1 DEF Episode!Protected

\* The budget for protection is no smaller than the one for comfort.
Generous == EpisodeCap[FALSE] <= EpisodeCap[TRUE]

\* The machine has aged with the verdict it is about to act on.
Spoken(s, v) == s.phase # "idle" /\ v.reason \in Episode!Protection => s.protected

LEMMA AgedOK ==
  ASSUME Generous, NEW s, NEW n, EpisodeOK(s, n), NEW v, NEW step \in Nat
  PROVE  LET t == Episode!Aged(s, v, step)
         IN  /\ EpisodeOK(t, n) /\ Spoken(t, v) /\ t.phase = s.phase
             /\ t.emergency = s.emergency
<1> DEFINE t == Episode!Aged(s, v, step)
<1>0. s \in Episode!States
  BY DEF EpisodeOK
<1>1. /\ t \in Episode!States /\ t.phase = s.phase /\ t.emergency = s.emergency
      /\ SameDemand(t, s)
      /\ t.episode_prompts = s.episode_prompts /\ t.escalations = s.escalations
      /\ t.protected = (s.protected
           \/ (s.phase # "idle" /\ (v.reason \in Episode!Protection \/ s.emergency)))
  BY <1>0, AgedFacts
<1> HIDE DEF t
<1>2. SpokenIsHeld(t)
  BY <1>1, ProtectedMeans DEF EpisodeOK, SpokenIsHeld, SameDemand
<1>3. s.protected => t.protected
  BY <1>1
<1>4. t.protected \in BOOLEAN /\ s.protected \in BOOLEAN
  BY <1>0, <1>1 DEF Episode!States
<1>5. EpisodeCap[s.protected] <= EpisodeCap[t.protected]
  <2>1. EpisodeCap[TRUE] \in Nat /\ EpisodeCap[FALSE] \in Nat
    BY EpisodeConstants
  <2>2. CASE s.protected = t.protected
    <3>1. EpisodeCap[s.protected] = EpisodeCap[t.protected] /\ EpisodeCap[s.protected] \in Nat
      BY <1>4, <2>2, EpisodeConstants
    <3> QED
      BY <3>1
  <2>3. CASE s.protected = FALSE /\ t.protected = TRUE
    BY <2>3 DEF Generous
  <2> QED
    BY <1>3, <1>4, <2>2, <2>3
<1>6. Counted(t, n)
  <2>1. EpisodeCap[s.protected] \in Nat /\ EpisodeCap[t.protected] \in Nat /\ n \in Nat
    BY <1>4, EpisodeConstants DEF EpisodeOK
  <2> QED
    BY <1>1, <1>5, <2>1 DEF EpisodeOK, Counted
<1>7. Owned(t) /\ EscalatedOnce(t) /\ LatchedFor(t)
  BY <1>1 DEF EpisodeOK, Owned, EscalatedOnce, LatchedFor, SameDemand
<1>8. Spoken(t, v)
  BY <1>1 DEF Spoken
<1> QED
  BY <1>1, <1>2, <1>6, <1>7, <1>8 DEF EpisodeOK, t

\* A state with the demand and the budget of another.
LEMMA LikeOK ==
  ASSUME NEW s, NEW n, EpisodeOK(s, n), NEW t \in Episode!States,
         SameDemand(t, s), SameBudget(t, s), t.emergency = s.emergency, t.phase = s.phase
  PROVE  EpisodeOK(t, n)
<1>1. SpokenIsHeld(t)
  BY ProtectedMeans DEF EpisodeOK, SpokenIsHeld, SameDemand, SameBudget
<1>2. Counted(t, n)
  BY DEF EpisodeOK, Counted, SameBudget
<1>3. Owned(t) /\ EscalatedOnce(t) /\ LatchedFor(t)
  BY DEF EpisodeOK, Owned, EscalatedOnce, LatchedFor, SameDemand, SameBudget
<1> QED
  BY <1>1, <1>2, <1>3 DEF EpisodeOK

\* An airing is stopped, for what the verdict says or because it is done.
LEMMA StopOK ==
  ASSUME NEW s, NEW n, EpisodeOK(s, n), NEW v, Spoken(s, v), SoundVerdict(v),
         s.phase \in {"requested", "ventilating"}
  PROVE  /\ EpisodeOK(Episode!Stop(s, v.reason, v.level, Episode!Abort(v)), n)
         /\ EpisodeOK(Episode!Stop(s, Episode!AiringDone, "ok", FALSE), n)
<1>0. s \in Episode!States /\ v \in Verdicts
  BY DEF EpisodeOK, SoundVerdict
<1>1. ASSUME NEW r \in Episode!EpisodeReasons, NEW l \in Episode!Levels, NEW e \in BOOLEAN,
             r \in Episode!Protection => s.protected,
             e => r \in Episode!ProtectionClose /\ l # "ok"
      PROVE  EpisodeOK(Episode!Stop(s, r, l, e), n)
  <2> DEFINE t == Episode!Stop(s, r, l, e)
  <2>1. /\ t \in Episode!States /\ t.phase = "stop_requested"
        /\ t.reason = r /\ t.level = l /\ t.owner = s.owner /\ t.emergency = e
        /\ SameBudget(t, s)
    BY <1>0, StopFacts
  <2> HIDE DEF t
  <2>2. e => s.protected
    BY <1>1 DEF Episode!Protection
  <2>3. SpokenIsHeld(t)
    BY <1>1, <2>1, <2>2, ProtectedMeans DEF EpisodeOK, SpokenIsHeld, SameBudget
  <2>4. Counted(t, n)
    BY <2>1 DEF EpisodeOK, Counted, SameBudget
  <2>5. EscalatedOnce(t)
    BY <2>1 DEF EpisodeOK, EscalatedOnce, SameBudget
  <2>6. Owned(t) /\ LatchedFor(t)
    BY <1>1, <2>1 DEF Owned, LatchedFor
  <2> QED
    BY <2>1, <2>3, <2>4, <2>5, <2>6 DEF EpisodeOK, t
<1>2. EpisodeOK(Episode!Stop(s, v.reason, v.level, Episode!Abort(v)), n)
  <2> DEFINE e == Episode!Abort(v)
  <2>1. e \in BOOLEAN /\ (e => v.reason \in Episode!ProtectionClose)
    BY DEF Episode!Abort
  <2>2. v.reason \in Episode!ProtectionClose => v.level # "ok"
    BY DEF SoundVerdict
  <2>3. v.reason \in Episode!EpisodeReasons /\ v.level \in Episode!Levels
    BY <1>0 DEF Verdicts, Episode!EpisodeReasons
  <2>4. v.reason \in Episode!Protection => s.protected
    BY DEF Spoken
  <2> HIDE DEF e
  <2>5. EpisodeOK(Episode!Stop(s, v.reason, v.level, e), n)
    BY <1>1, <2>1, <2>2, <2>3, <2>4
  <2> QED
    BY <2>5 DEF e
<1>3. EpisodeOK(Episode!Stop(s, Episode!AiringDone, "ok", FALSE), n)
  <2>1. Episode!AiringDone \in Episode!EpisodeReasons /\ "ok" \in Episode!Levels
    BY DEF Episode!EpisodeReasons, Episode!Levels
  <2>2. Episode!AiringDone \notin Episode!Protection
    BY DEF Episode!AiringDone, Episode!Protection, Episode!ProtectionOpen,
       Episode!ProtectionClose
  <2> QED
    BY <1>1, <2>1, <2>2
<1> QED
  BY <1>2, <1>3

\* An airing goes on, or is taken up again, for the reason the verdict gives.
LEMMA AirOK ==
  ASSUME NEW s, NEW n, EpisodeOK(s, n), NEW v, Spoken(s, v), SoundVerdict(v),
         v.action = "open", s.phase # "idle", s.escalations = 0, ~s.emergency,
         NEW q \in Episode!States, SameBudget(q, s), q.emergency = s.emergency,
         q.phase \in {"requested", "ventilating"}
  PROVE  LET t == Episode!Carried(q, v) IN EpisodeOK(t, n) /\ t.phase = q.phase
<1> DEFINE t == Episode!Carried(q, v)
<1>1. v \in Verdicts /\ v.reason \in Openers
  BY DEF SoundVerdict
<1>2. /\ t \in Episode!States /\ t.phase = q.phase /\ t.phase_min = q.phase_min
      /\ t.reason = v.reason /\ t.owner = v.reason /\ t.level = v.level
      /\ SameBudget(t, q) /\ t.emergency = q.emergency
  BY <1>1, CarriedFacts
<1> HIDE DEF t
<1>3. SpokenIsHeld(t)
  BY <1>2, ProtectedMeans DEF Spoken, SpokenIsHeld, SameBudget
<1>4. Counted(t, n)
  BY <1>2 DEF EpisodeOK, Counted, SameBudget
<1>5. EscalatedOnce(t)
  BY <1>2 DEF EpisodeOK, EscalatedOnce, SameBudget
<1>6. Owned(t) /\ LatchedFor(t)
  BY <1>1, <1>2 DEF Owned, LatchedFor
<1> QED
  BY <1>2, <1>3, <1>4, <1>5, <1>6 DEF EpisodeOK, t

\* A new episode begins with nothing counted.
LEMMA BeginOK ==
  ASSUME NEW s \in Episode!States, ~s.emergency, NEW v, SoundVerdict(v),
         NEW p \in {"requested", "ventilating"}, v.action = "open"
  PROVE  LET t == Episode!Carried(Episode!Begin(s, p, v), v)
         IN  EpisodeOK(t, 0) /\ t.phase = p
<1> DEFINE q == Episode!Begin(s, p, v)
           t == Episode!Carried(q, v)
<1>1. v \in Verdicts /\ v.reason \in Openers /\ p \in Episode!Phases
  BY DEF SoundVerdict, Episode!Phases
<1>2. /\ q \in Episode!States /\ q.phase = p /\ q.emergency = s.emergency
      /\ q.episode_prompts = 0 /\ q.escalations = 0
      /\ q.protected = (v.reason \in Episode!Protection)
  BY <1>1, BeginFacts
<1> HIDE DEF q
<1>3. /\ t \in Episode!States /\ t.phase = q.phase
      /\ t.reason = v.reason /\ t.owner = v.reason
      /\ SameBudget(t, q) /\ t.emergency = q.emergency
  BY <1>1, <1>2, CarriedFacts
<1> HIDE DEF t
<1>4. /\ t.phase = p /\ ~t.emergency /\ t.episode_prompts = 0 /\ t.escalations = 0
      /\ t.protected = (v.reason \in Episode!Protection) /\ t.protected \in BOOLEAN
  BY <1>2, <1>3 DEF SameBudget
<1>5. SpokenIsHeld(t)
  BY <1>3, <1>4, ProtectedMeans DEF SpokenIsHeld
<1>6. EpisodeCap[t.protected] \in Nat
  BY <1>4, EpisodeConstants
<1>7. Counted(t, 0)
  BY <1>4, <1>6 DEF Counted
<1>8. Owned(t) /\ LatchedFor(t) /\ EscalatedOnce(t)
  BY <1>1, <1>3, <1>4 DEF Owned, LatchedFor, EscalatedOnce
<1> QED
  BY <1>3, <1>4, <1>5, <1>7, <1>8 DEF EpisodeOK, t, q

\* A window open against the verdict begins one with the stop.
LEMMA BeginStopOK ==
  ASSUME NEW s \in Episode!States, ~s.emergency, NEW v, SoundVerdict(v)
  PROVE  LET t == [Episode!Stop(Episode!Begin(s, "stop_requested", v), v.reason, v.level,
                                Episode!Abort(v)) EXCEPT !.owner = ""]
         IN  EpisodeOK(t, 0) /\ t.phase = "stop_requested"
<1> DEFINE q == Episode!Begin(s, "stop_requested", v)
           e == Episode!Abort(v)
           d == Episode!Stop(q, v.reason, v.level, e)
           t == [d EXCEPT !.owner = ""]
<1>1. v \in Verdicts /\ (v.reason \in Episode!ProtectionClose => v.level # "ok")
  BY DEF SoundVerdict
<1>2. /\ q \in Episode!States /\ q.emergency = s.emergency
      /\ q.episode_prompts = 0 /\ q.escalations = 0
      /\ q.protected = (v.reason \in Episode!Protection)
  BY <1>1, BeginFacts DEF Episode!Phases
<1> HIDE DEF q
<1>3. e \in BOOLEAN /\ (e => v.reason \in Episode!ProtectionClose)
  BY DEF Episode!Abort
<1>4. v.reason \in Episode!EpisodeReasons /\ v.level \in Episode!Levels
  BY <1>1 DEF Verdicts, Episode!EpisodeReasons
<1> HIDE DEF e
<1>5. /\ d \in Episode!States /\ d.phase = "stop_requested"
      /\ d.reason = v.reason /\ d.level = v.level /\ d.emergency = e
      /\ SameBudget(d, q)
  BY <1>2, <1>3, <1>4, StopFacts
<1> HIDE DEF d
<1>6. /\ t \in Episode!States /\ t.phase = "stop_requested"
      /\ t.reason = d.reason /\ t.level = d.level /\ t.emergency = d.emergency
      /\ t.owner = "" /\ SameBudget(t, d)
  BY <1>5 DEF Episode!States, Episode!EpisodeReasons, SameBudget
<1> HIDE DEF t
<1>7. /\ t.episode_prompts = 0 /\ t.escalations = 0
      /\ t.protected = (v.reason \in Episode!Protection) /\ t.protected \in BOOLEAN
  <2>1. /\ t.episode_prompts = q.episode_prompts /\ t.escalations = q.escalations
        /\ t.protected = q.protected
    BY <1>5, <1>6 DEF SameBudget
  <2>2. t.protected \in BOOLEAN
    BY <1>6 DEF Episode!States
  <2> QED
    BY <1>2, <2>1, <2>2
<1>8. "" \notin Episode!Protection /\ (e => v.reason \in Episode!Protection)
  BY <1>3 DEF Episode!Protection, Episode!ProtectionOpen, Episode!ProtectionClose
<1>9. SpokenIsHeld(t)
  BY <1>5, <1>6, <1>7, <1>8, ProtectedMeans DEF SpokenIsHeld
<1>10. EpisodeCap[t.protected] \in Nat
  BY <1>7, EpisodeConstants
<1>11. Counted(t, 0)
  BY <1>7, <1>10 DEF Counted
<1>12. Owned(t) /\ LatchedFor(t)
  BY <1>1, <1>3, <1>5, <1>6 DEF Owned, LatchedFor
<1>13. EscalatedOnce(t)
  BY <1>7 DEF EscalatedOnce
<1> QED
  BY <1>6, <1>9, <1>11, <1>12, <1>13 DEF EpisodeOK, t, d, e, q

\* The quiet time keeps what the episode counted.
LEMMA SettledOK ==
  ASSUME NEW s, NEW n, EpisodeOK(s, n), NEW v, SoundVerdict(v), s.phase # "idle",
         NEW cause \in Episode!Causes, NEW scope \in Episode!EpisodeReasons
  PROVE  LET t == Episode!Settled(s, v, cause, scope)
         IN  /\ EpisodeOK(t, n) /\ t.phase = "cooldown" /\ t.phase_min = 0
             /\ t.cooldown_for = Cooldown[cause]
<1> DEFINE t == Episode!Settled(s, v, cause, scope)
<1>1. /\ t \in Episode!States /\ t.phase = "cooldown" /\ t.phase_min = 0
      /\ SameDemand(t, s) /\ SameBudget(t, s) /\ t.emergency = FALSE
      /\ t.cooldown_for = Cooldown[cause]
  BY SettledFacts DEF EpisodeOK, SoundVerdict
<1> HIDE DEF t
<1>2. SpokenIsHeld(t)
  BY <1>1, ProtectedMeans DEF EpisodeOK, SpokenIsHeld, SameDemand, SameBudget
<1>3. Counted(t, n)
  BY <1>1 DEF EpisodeOK, Counted, SameBudget
<1>4. Owned(t) /\ LatchedFor(t)
  BY <1>1 DEF Owned, LatchedFor
<1>5. EscalatedOnce(t)
  BY <1>1 DEF EpisodeOK, EscalatedOnce, SameBudget
<1> QED
  BY <1>1, <1>2, <1>3, <1>4, <1>5 DEF EpisodeOK, t

\* An idle machine has nothing to keep.
LEMMA IdleOK ==
  ASSUME NEW s \in Episode!States, NEW n \in Nat, s.phase = "idle", ~s.emergency,
         s.escalations <= 1
  PROVE  EpisodeOK(s, n)
BY DEF EpisodeOK, Owned, SpokenIsHeld, Counted, EscalatedOnce, LatchedFor

-----------------------------------------------------------------------------
(* What a tick publishes.                                                  *)
\* The machine is left in s, but for the prompts it counted.
LeftIn(s) ==
  /\ EpisodeOK(airing', rung')
  /\ airing'.phase = s.phase /\ airing'.phase_min = s.phase_min
  /\ airing'.emergency = s.emergency

LEMMA PublishKeeps ==
  ASSUME NEW s, NEW n, EpisodeOK(s, n), NEW act \in Episode!Actions,
         NEW r \in Episode!EpisodeReasons, NEW l \in Episode!Levels, NEW rang \in BOOLEAN,
         Episode!Publish(s, act, r, l, rang, n)
  PROVE  LeftIn(s) /\ card' \in Cards /\ card'.action = act
<1>1. /\ airing' = s /\ rung' = n
      /\ card' = [action |-> act, reason |-> r, level |-> l, prompt |-> rang]
  BY DEF Episode!Publish
<1>2. card' \in Cards /\ card'.action = act
  BY <1>1 DEF Cards
<1> QED
  BY <1>1, <1>2 DEF LeftIn

\* One more prompt, within the budget.
LEMMA PromptOK ==
  ASSUME NEW s, NEW n, EpisodeOK(s, n), s.phase # "idle", NEW p \in Nat,
         s.episode_prompts < EpisodeCap[Episode!Protected(s)]
  PROVE  LET t == [s EXCEPT !.prompts = p, !.episode_prompts = s.episode_prompts + 1]
         IN  /\ EpisodeOK(t, n + 1) /\ t.phase = s.phase /\ t.phase_min = s.phase_min
             /\ t.emergency = s.emergency
<1> DEFINE k == s.episode_prompts + 1
           t == [s EXCEPT !.prompts = p, !.episode_prompts = k]
<1>0. s \in Episode!States /\ n \in Nat /\ n = s.episode_prompts /\ s.protected \in BOOLEAN
  BY DEF EpisodeOK, Counted, Episode!States
<1>1. k \in Nat /\ k = n + 1
  BY <1>0
<1> HIDE DEF k
<1>2. /\ t \in Episode!States /\ t.phase = s.phase /\ t.phase_min = s.phase_min
      /\ SameDemand(t, s) /\ t.emergency = s.emergency
      /\ t.episode_prompts = k /\ t.escalations = s.escalations /\ t.protected = s.protected
  BY <1>0, <1>1 DEF Episode!States, SameDemand
<1> HIDE DEF t
<1>3. SpokenIsHeld(t)
  BY <1>2, ProtectedMeans DEF EpisodeOK, SpokenIsHeld, SameDemand
<1>4. Counted(t, n + 1)
  <2>1. Episode!Protected(s) = s.protected
    <3>1. Episode!Protected(s) <=> s.protected
      BY DEF EpisodeOK, SpokenIsHeld
    <3>2. Episode!Protected(s) \in BOOLEAN
      BY <1>0, <3>1 DEF Episode!Protected
    <3> QED
      BY <1>0, <3>1, <3>2
  <2>2. EpisodeCap[s.protected] \in Nat
    BY <1>0, EpisodeConstants
  <2>3. n + 1 <= EpisodeCap[s.protected]
    BY <1>0, <2>1, <2>2
  <2> QED
    BY <1>1, <1>2, <2>3 DEF Counted
<1>5. Owned(t) /\ EscalatedOnce(t) /\ LatchedFor(t)
  BY <1>2 DEF EpisodeOK, Owned, EscalatedOnce, LatchedFor, SameDemand
<1>6. n + 1 \in Nat
  BY <1>0
<1>7. EpisodeOK(t, n + 1)
  BY <1>2, <1>3, <1>4, <1>5, <1>6 DEF EpisodeOK
<1> QED
  BY <1>2, <1>7 DEF t, k

LEMMA AskKeeps ==
  ASSUME NEW s, NEW n, EpisodeOK(s, n), s.phase # "idle", NEW act \in Episode!Actions,
         NEW r \in Episode!EpisodeReasons, NEW l \in Episode!Levels,
         Episode!AskTick(s, act, r, l, n)
  PROVE  LeftIn(s) /\ card' \in Cards /\ card'.action = act
<1>1. CASE Episode!MayRing(s)
  <2> DEFINE t == [s EXCEPT !.prompts = 1, !.episode_prompts = s.episode_prompts + 1]
  <2>1. /\ EpisodeOK(t, n + 1) /\ t.phase = s.phase /\ t.phase_min = s.phase_min
        /\ t.emergency = s.emergency
    BY <1>1, PromptOK DEF Episode!MayRing
  <2>2. Episode!Asked(s) = t
    BY <1>1 DEF Episode!Asked
  <2>3. Episode!Publish(t, act, r, l, TRUE, n + 1)
    BY <1>1, <2>2 DEF Episode!AskTick, Episode!Publish
  <2> HIDE DEF t
  <2>4. LeftIn(t) /\ card' \in Cards /\ card'.action = act
    BY <2>1, <2>3, PublishKeeps
  <2> QED
    BY <2>1, <2>4 DEF LeftIn
<1>2. CASE ~Episode!MayRing(s)
  <2>0. Episode!MayRing(s) = FALSE
    BY <1>2 DEF Episode!MayRing
  <2>1. Episode!Publish(s, act, r, l, FALSE, n)
    BY <2>0 DEF Episode!AskTick, Episode!Asked, Episode!Publish
  <2> QED
    BY <2>1, PublishKeeps
<1> QED
  BY <1>1, <1>2

LEMMA RemindKeeps ==
  ASSUME NEW s, EpisodeOK(s, rung), s.phase # "idle", NEW act \in Episode!Actions,
         NEW r \in Episode!EpisodeReasons, NEW l \in Episode!Levels,
         Episode!RemindTick(s, act, r, l)
  PROVE  LeftIn(s) /\ card' \in Cards /\ card'.action = act
<1>1. CASE Episode!ReminderDue(s)
  <2> DEFINE p == s.prompts + 1
             t == [s EXCEPT !.prompts = p, !.episode_prompts = s.episode_prompts + 1]
  <2>0. p \in Nat
    BY DEF EpisodeOK, Episode!States
  <2>1. /\ EpisodeOK(t, rung + 1) /\ t.phase = s.phase /\ t.phase_min = s.phase_min
        /\ t.emergency = s.emergency
    <3> HIDE DEF p
    <3> QED
      BY <1>1, <2>0, PromptOK DEF Episode!ReminderDue
  <2>2. Episode!Spent(s) = t
    BY <1>1 DEF Episode!Spent
  <2>3. Episode!Publish(t, act, r, l, TRUE, rung + 1)
    BY <1>1, <2>2 DEF Episode!RemindTick, Episode!Publish
  <2> HIDE DEF t
  <2>4. LeftIn(t) /\ card' \in Cards /\ card'.action = act
    BY <2>1, <2>3, PublishKeeps
  <2> QED
    BY <2>1, <2>4 DEF LeftIn
<1>2. CASE ~Episode!ReminderDue(s)
  <2>0. Episode!ReminderDue(s) = FALSE
    BY <1>2 DEF Episode!ReminderDue
  <2>1. Episode!Publish(s, act, r, l, FALSE, rung)
    BY <2>0 DEF Episode!RemindTick, Episode!Spent, Episode!Publish
  <2> QED
    BY <2>1, PublishKeeps
<1> QED
  BY <1>1, <1>2

LEMMA QuietKeeps ==
  ASSUME NEW s, EpisodeOK(s, rung), NEW v \in Verdicts, Episode!QuietTick(s, v)
  PROVE  LeftIn(s) /\ card' \in Cards
<1>1. /\ v.reason \in Episode!EpisodeReasons /\ v.level \in Episode!Levels
      /\ "ok" \in Episode!Levels /\ {"idle", "discourage"} \subseteq Episode!Actions
  BY DEF Verdicts, Episode!EpisodeReasons, Episode!Levels, Episode!Actions
<1>2. \/ Episode!Publish(s, "discourage", v.reason, v.level, FALSE, rung)
      \/ Episode!Publish(s, "idle", v.reason, "ok", FALSE, rung)
  BY DEF Episode!QuietTick
<1> QED
  BY <1>1, <1>2, PublishKeeps

\* What a tick that read w and acted on v leaves behind.
Follows(v, w) ==
  /\ EpisodeOK(airing', rung') /\ card' \in Cards
  /\ w \in Episode!Openish /\ v.action = "close" => card'.action = "close"
  /\ v.reason \in Episode!ProtectionOpen =>
       \/ card'.action = "open"
       \/ airing'.phase = "stop_requested" /\ airing'.emergency
       \/ airing'.phase = "cooldown" /\ airing'.phase_min = 0

-----------------------------------------------------------------------------
(* The phases, one by one.                                                 *)
LEMMA PromptlessOK ==
  ASSUME NEW s, NEW n, EpisodeOK(s, n)
  PROVE  LET t == [s EXCEPT !.prompts = 0]
         IN  EpisodeOK(t, n) /\ t.phase = s.phase /\ t.emergency = s.emergency
<1> DEFINE t == [s EXCEPT !.prompts = 0]
<1>1. s \in Episode!States
  BY DEF EpisodeOK
<1>2. t \in Episode!States /\ SameDemand(t, s) /\ SameBudget(t, s)
      /\ t.emergency = s.emergency /\ t.phase = s.phase
  BY <1>1 DEF Episode!States, SameDemand, SameBudget
<1> HIDE DEF t
<1>3. EpisodeOK(t, n)
  BY <1>2, LikeOK
<1> QED
  BY <1>2, <1>3 DEF t

LEMMA Words ==
  /\ {"open", "close", "idle"} \subseteq Episode!Actions
  /\ "ok" \in Episode!Levels /\ Episode!AiringDone \in Episode!EpisodeReasons
  /\ "" \in Episode!EpisodeReasons
BY DEF Episode!Actions, Episode!Levels, Episode!EpisodeReasons

LEMMA SoundWords ==
  ASSUME NEW v, SoundVerdict(v)
  PROVE  v \in Verdicts /\ v.reason \in Episode!EpisodeReasons /\ v.level \in Episode!Levels
BY DEF SoundVerdict, Verdicts, Episode!EpisodeReasons

LEMMA WatchingFollows ==
  ASSUME NEW s, EpisodeOK(s, rung), NEW v, SoundVerdict(v), NEW w, Episode!Watching(s, v, w)
  PROVE  Follows(v, w)
<1>1. s \in Episode!States /\ s.phase = "idle" /\ ~s.emergency
  BY DEF EpisodeOK, LatchedFor, Episode!Watching
<1>2. v.reason \in Episode!EpisodeReasons /\ v.level \in Episode!Levels /\ v \in Verdicts
  BY SoundWords
<1>3. ASSUME v.action = "open",
             Episode!Publish([Episode!Carried(Episode!Begin(s, "ventilating", v), v)
                                EXCEPT !.prompts = 0], "open", v.reason, v.level, FALSE, 0)
      PROVE  Follows(v, w)
  <2> DEFINE q == Episode!Carried(Episode!Begin(s, "ventilating", v), v)
             t == [q EXCEPT !.prompts = 0]
  <2>1. EpisodeOK(q, 0)
    BY <1>1, <1>3, BeginOK
  <2> HIDE DEF q
  <2>2. EpisodeOK(t, 0)
    BY <2>1, PromptlessOK
  <2>3. Episode!Publish(t, "open", v.reason, v.level, FALSE, 0)
    BY <1>3 DEF q
  <2> HIDE DEF t
  <2>4. LeftIn(t) /\ card' \in Cards /\ card'.action = "open"
    BY <1>2, <2>2, <2>3, PublishKeeps, Words
  <2> QED
    BY <1>3, <2>4 DEF Follows, LeftIn
<1>4. ASSUME v.action = "open",
             Episode!AskTick(Episode!Carried(Episode!Begin(s, "requested", v), v),
                             "open", v.reason, v.level, 0)
      PROVE  Follows(v, w)
  <2> DEFINE t == Episode!Carried(Episode!Begin(s, "requested", v), v)
  <2>1. EpisodeOK(t, 0) /\ t.phase = "requested"
    BY <1>1, <1>4, BeginOK
  <2>2. Episode!AskTick(t, "open", v.reason, v.level, 0)
    BY <1>4
  <2> HIDE DEF t
  <2>4. LeftIn(t) /\ card' \in Cards /\ card'.action = "open"
    BY <1>2, <2>1, <2>2, AskKeeps, Words
  <2> QED
    BY <1>4, <2>4 DEF Follows, LeftIn
<1>5. ASSUME v.action = "close",
             Episode!AskTick([Episode!Stop(Episode!Begin(s, "stop_requested", v), v.reason,
                                           v.level, Episode!Abort(v)) EXCEPT !.owner = ""],
                             "close", v.reason, v.level, 0)
      PROVE  Follows(v, w)
  <2> DEFINE t == [Episode!Stop(Episode!Begin(s, "stop_requested", v), v.reason,
                                v.level, Episode!Abort(v)) EXCEPT !.owner = ""]
  <2>1. EpisodeOK(t, 0) /\ t.phase = "stop_requested"
    BY <1>1, BeginStopOK
  <2>2. Episode!AskTick(t, "close", v.reason, v.level, 0)
    BY <1>5
  <2> HIDE DEF t
  <2>4. LeftIn(t) /\ card' \in Cards /\ card'.action = "close"
    BY <1>2, <2>1, <2>2, AskKeeps, Words
  <2>5. v.reason \notin Episode!ProtectionOpen
    BY <1>5 DEF SoundVerdict
  <2> QED
    BY <2>4, <2>5 DEF Follows, LeftIn
<1>6. ASSUME ~(v.action = "open" \/ (v.action = "close" /\ w \in Episode!Openish)),
             Episode!QuietTick(s, v)
      PROVE  Follows(v, w)
  <2>1. LeftIn(s) /\ card' \in Cards
    BY <1>2, <1>6, QuietKeeps
  <2>2. v.reason \notin Episode!ProtectionOpen
    BY <1>6 DEF SoundVerdict
  <2> QED
    BY <1>6, <2>1, <2>2 DEF Follows, LeftIn
<1> QED
  BY <1>3, <1>4, <1>5, <1>6 DEF Episode!Watching

\* Airing is taken up, or goes on, at an open window.
LEMMA AirTickFollows ==
  ASSUME NEW s, EpisodeOK(s, rung), NEW v, Spoken(s, v), SoundVerdict(v), NEW w,
         v.action = "open", s.phase # "idle", s.escalations = 0, ~s.emergency,
         Episode!AirTick(s, v)
  PROVE  Follows(v, w)
<1> DEFINE e == Episode!Enter(s, "ventilating")
           q == Episode!Carried(e, v)
           t == [q EXCEPT !.prompts = 0]
<1>1. e \in Episode!States /\ e.phase = "ventilating" /\ SameBudget(e, s)
      /\ e.emergency = s.emergency
  BY EnterFacts DEF EpisodeOK, Episode!Phases
<1>2. Episode!Publish(t, "open", v.reason, v.level, FALSE, rung)
  BY DEF Episode!AirTick
<1> HIDE DEF e
<1>3. EpisodeOK(q, rung)
  BY <1>1, AirOK
<1> HIDE DEF q
<1>4. EpisodeOK(t, rung)
  BY <1>3, PromptlessOK
<1> HIDE DEF t
<1>5. LeftIn(t) /\ card' \in Cards /\ card'.action = "open"
  BY <1>2, <1>4, PublishKeeps, SoundWords, Words
<1> QED
  BY <1>5 DEF Follows, LeftIn

\* An airing is stopped.
LEMMA StopTickFollows ==
  ASSUME NEW s, EpisodeOK(s, rung), NEW v, Spoken(s, v), SoundVerdict(v), NEW w,
         s.phase \in {"requested", "ventilating"}, v.action # "open",
         Episode!CloseTick(s, v) \/ Episode!DoneTick(s)
  PROVE  Follows(v, w)
<1> DEFINE t == Episode!Stop(s, v.reason, v.level, Episode!Abort(v))
           u == Episode!Stop(s, Episode!AiringDone, "ok", FALSE)
<1>1. EpisodeOK(t, rung) /\ EpisodeOK(u, rung)
  BY StopOK
<1>2. s \in Episode!States /\ Episode!Abort(v) \in BOOLEAN
  BY DEF EpisodeOK, Episode!Abort
<1>3. t.phase = "stop_requested" /\ u.phase = "stop_requested"
  <2>1. \A r \in Episode!EpisodeReasons, l \in Episode!Levels, e \in BOOLEAN :
          Episode!Stop(s, r, l, e).phase = "stop_requested"
    BY <1>2, StopFacts
  <2> QED
    BY <1>2, <2>1, SoundWords, Words
<1>4. \/ Episode!AskTick(t, "close", v.reason, v.level, rung)
      \/ Episode!AskTick(u, "close", Episode!AiringDone, "ok", rung)
  BY DEF Episode!CloseTick, Episode!DoneTick
<1> HIDE DEF t, u
<1>5. (LeftIn(t) \/ LeftIn(u)) /\ card' \in Cards /\ card'.action = "close"
  BY <1>1, <1>3, <1>4, AskKeeps, SoundWords, Words
<1>6. v.reason \notin Episode!ProtectionOpen
  BY DEF SoundVerdict
<1> QED
  BY <1>5, <1>6 DEF Follows, LeftIn

LEMMA RequestedFollows ==
  ASSUME NEW s, EpisodeOK(s, rung), NEW v, Spoken(s, v), SoundVerdict(v), NEW w,
         Episode!Requested(s, v, w)
  PROVE  Follows(v, w)
<1> DEFINE kept == Episode!Carried(s, v)
           rest == Episode!Settled(kept, v, "expired", "")
           back == [Episode!Enter(s, "idle") EXCEPT !.reason = "", !.owner = "",
                                                    !.level = "ok", !.prompts = 0]
<1>1. /\ s.phase = "requested" /\ s \in Episode!States /\ s.escalations = 0 /\ ~s.emergency
      /\ v \in Verdicts
  BY DEF Episode!Requested, EpisodeOK, EscalatedOnce, LatchedFor, SoundVerdict
<1>2. v.action = "open" => EpisodeOK(kept, rung) /\ kept.phase = "requested"
  BY <1>1, AirOK DEF SameBudget
<1>3. ASSUME v.action = "open", Episode!AirTick(s, v)
      PROVE  Follows(v, w)
  BY <1>1, <1>3, AirTickFollows
<1>4. ASSUME v.action # "open", Episode!CloseTick(s, v) \/ Episode!DoneTick(s)
      PROVE  Follows(v, w)
  BY <1>1, <1>4, StopTickFollows
<1>5. ASSUME w \in Episode!Closedish, v.action # "open", Episode!QuietTick(back, v)
      PROVE  Follows(v, w)
  <2> DEFINE e == Episode!Enter(s, "idle")
  <2>1. e \in Episode!States /\ e.phase = "idle" /\ e.emergency = s.emergency
        /\ SameBudget(e, s)
    BY <1>1, EnterFacts DEF Episode!Phases
  <2>2. back = [e EXCEPT !.reason = "", !.owner = "", !.level = "ok", !.prompts = 0]
    OBVIOUS
  <2> HIDE DEF e, back
  <2>3. /\ back \in Episode!States /\ back.phase = "idle" /\ back.emergency = e.emergency
        /\ back.escalations = e.escalations
    BY <2>1, <2>2 DEF Episode!States, Episode!EpisodeReasons, Episode!Levels
  <2>4. ~back.emergency /\ back.escalations <= 1 /\ rung \in Nat
    BY <1>1, <2>1, <2>3 DEF SameBudget, EpisodeOK
  <2>5. EpisodeOK(back, rung)
    BY <2>3, <2>4, IdleOK
  <2>6. LeftIn(back) /\ card' \in Cards
    BY <1>1, <1>5, <2>5, QuietKeeps
  <2>7. v.reason \notin Episode!ProtectionOpen /\ w \notin Episode!Openish
    BY <1>5 DEF SoundVerdict, Episode!Openish, Episode!Closedish
  <2> QED
    BY <2>6, <2>7 DEF Follows, LeftIn
<1>6. ASSUME v.action = "open", v.reason \notin Episode!Protection, Episode!QuietTick(rest, v)
      PROVE  Follows(v, w)
  <2>1. "expired" \in Episode!Causes /\ "" \in Episode!EpisodeReasons
    BY Words DEF Episode!Causes
  <2> HIDE DEF kept
  <2>2. EpisodeOK(rest, rung)
    BY <1>2, <1>6, <2>1, SettledOK
  <2> HIDE DEF rest
  <2>3. LeftIn(rest) /\ card' \in Cards
    BY <1>1, <1>6, <2>2, QuietKeeps
  <2>4. v.reason \notin Episode!ProtectionOpen
    BY <1>6 DEF Episode!Protection
  <2> QED
    BY <1>6, <2>3, <2>4 DEF Follows, LeftIn
<1>7. ASSUME v.action = "open", Episode!RemindTick(kept, "open", v.reason, v.level)
      PROVE  Follows(v, w)
  <2> HIDE DEF kept
  <2>1. LeftIn(kept) /\ card' \in Cards /\ card'.action = "open"
    BY <1>2, <1>7, RemindKeeps, SoundWords, Words
  <2> QED
    BY <1>7, <2>1 DEF Follows, LeftIn
<1>8. \/ v.action = "open" /\ Episode!AirTick(s, v)
      \/ v.action # "open" /\ (Episode!CloseTick(s, v) \/ Episode!DoneTick(s))
      \/ w \in Episode!Closedish /\ v.action # "open" /\ Episode!QuietTick(back, v)
      \/ v.action = "open" /\ v.reason \notin Episode!Protection /\ Episode!QuietTick(rest, v)
      \/ v.action = "open" /\ Episode!RemindTick(kept, "open", v.reason, v.level)
  BY DEF Episode!Requested
<1> QED
  BY <1>3, <1>4, <1>5, <1>6, <1>7, <1>8

LEMMA VentilatingFollows ==
  ASSUME NEW s, EpisodeOK(s, rung), NEW v, Spoken(s, v), SoundVerdict(v), NEW w,
         Episode!Ventilating(s, v, w)
  PROVE  Follows(v, w)
<1> DEFINE kept == Episode!Carried(s, v)
           rest == Episode!Settled(s, v, "manual", "")
<1>1. /\ s.phase = "ventilating" /\ s \in Episode!States /\ s.escalations = 0 /\ ~s.emergency
      /\ v \in Verdicts
  BY DEF Episode!Ventilating, EpisodeOK, EscalatedOnce, LatchedFor, SoundVerdict
<1>2. ASSUME w \in Episode!Closedish, Episode!QuietTick(rest, v)
      PROVE  Follows(v, w)
  <2>1. "manual" \in Episode!Causes /\ "" \in Episode!EpisodeReasons
    BY Words DEF Episode!Causes
  <2>2. EpisodeOK(rest, rung) /\ rest.phase = "cooldown" /\ rest.phase_min = 0
    BY <1>1, <2>1, SettledOK
  <2> HIDE DEF rest
  <2>3. LeftIn(rest) /\ card' \in Cards
    BY <1>1, <1>2, <2>2, QuietKeeps
  <2>4. w \notin Episode!Openish
    BY <1>2 DEF Episode!Openish, Episode!Closedish
  <2> QED
    BY <2>2, <2>3, <2>4 DEF Follows, LeftIn
<1>3. ASSUME v.action = "open", Episode!Publish(kept, "open", v.reason, v.level, FALSE, rung)
      PROVE  Follows(v, w)
  <2>1. EpisodeOK(kept, rung)
    BY <1>1, <1>3, AirOK DEF SameBudget
  <2> HIDE DEF kept
  <2>2. LeftIn(kept) /\ card' \in Cards /\ card'.action = "open"
    BY <1>3, <2>1, PublishKeeps, SoundWords, Words
  <2> QED
    BY <1>3, <2>2 DEF Follows, LeftIn
<1>4. ASSUME v.action # "open", Episode!CloseTick(s, v) \/ Episode!DoneTick(s)
      PROVE  Follows(v, w)
  BY <1>1, <1>4, StopTickFollows
<1> QED
  BY <1>2, <1>3, <1>4 DEF Episode!Ventilating

\* What a stop is told for.
LEMMA ToldOK ==
  ASSUME NEW s, NEW n, EpisodeOK(s, n), s.phase = "stop_requested", NEW v, Spoken(s, v),
         SoundVerdict(v)
  PROVE  LET t == Episode!Told(s, v)
         IN  /\ EpisodeOK(t, n) /\ t.phase = s.phase
             /\ t.emergency = (s.emergency \/ Episode!Abort(v)) /\ t.escalations = s.escalations
<1> DEFINE t == Episode!Told(s, v)
<1>0. s \in Episode!States /\ v \in Verdicts
  BY DEF EpisodeOK, SoundVerdict
<1>1. /\ t \in Episode!States /\ t.phase = s.phase
      /\ t.owner = s.owner /\ SameBudget(t, s)
      /\ t.emergency = (s.emergency \/ Episode!Abort(v))
      /\ \/ t.reason = s.reason /\ t.level = s.level /\ ~Episode!Abort(v)
         \/ t.reason = v.reason /\ t.level = v.level /\ (Episode!Abort(v) \/ ~s.emergency)
  BY <1>0, ToldFacts
<1> HIDE DEF t
<1>2. Episode!Abort(v) => /\ v.reason \in Episode!ProtectionClose /\ v.level # "ok"
                          /\ v.reason \in Episode!Protection
  BY DEF Episode!Abort, SoundVerdict, Episode!Protection
<1>3. v.reason \in Episode!Protection => s.protected
  BY DEF Spoken
<1>4. SpokenIsHeld(t)
  BY <1>1, <1>2, <1>3, ProtectedMeans DEF EpisodeOK, SpokenIsHeld, SameBudget
<1>5. Counted(t, n)
  BY <1>1 DEF EpisodeOK, Counted, SameBudget
<1>6. EscalatedOnce(t)
  BY <1>1 DEF EpisodeOK, EscalatedOnce, SameBudget
<1>7. Owned(t)
  BY <1>1 DEF Owned
<1>8. LatchedFor(t)
  <2>1. CASE Episode!Abort(v)
    BY <1>1, <1>2, <2>1 DEF LatchedFor
  <2>2. CASE ~Episode!Abort(v)
    <3>1. t.emergency => s.emergency /\ t.reason = s.reason /\ t.level = s.level
      BY <1>1, <2>2
    <3> QED
      BY <1>1, <3>1 DEF EpisodeOK, LatchedFor
  <2> QED
    BY <2>1, <2>2
<1>9. t.escalations = s.escalations
  BY <1>1 DEF SameBudget
<1> QED
  BY <1>1, <1>4, <1>5, <1>6, <1>7, <1>8, <1>9 DEF EpisodeOK, t

\* A latched stop stands, or ends in the long quiet time, and never by a window
\* that is seen open.
Careful(s, w) ==
  s.emergency =>
    \/ airing'.phase = "stop_requested" /\ airing'.emergency
    \/ /\ w \notin Episode!Openish /\ airing'.phase = "cooldown"
       /\ airing'.cooldown_for = Cooldown["emergency"]

LEMMA SettledTick ==
  ASSUME NEW s, EpisodeOK(s, rung), NEW v, SoundVerdict(v), s.phase # "idle",
         NEW cause \in Episode!Causes, NEW scope \in Episode!EpisodeReasons, NEW w,
         w \notin Episode!Openish, s.emergency => cause = "emergency",
         Episode!QuietTick(Episode!Settled(s, v, cause, scope), v)
  PROVE  Follows(v, w) /\ Careful(s, w)
<1> DEFINE t == Episode!Settled(s, v, cause, scope)
<1>1. /\ EpisodeOK(t, rung) /\ t.phase = "cooldown" /\ t.phase_min = 0
      /\ t.cooldown_for = Cooldown[cause]
  BY SettledOK
<1>2. v \in Verdicts
  BY DEF SoundVerdict
<1> HIDE DEF t
<1>3. Episode!QuietTick(t, v)
  BY DEF t
<1>4. LeftIn(t) /\ card' \in Cards
  BY <1>1, <1>2, <1>3, QuietKeeps
<1>5. airing' = t
  BY <1>3 DEF Episode!QuietTick, Episode!Publish
<1> QED
  BY <1>1, <1>4, <1>5 DEF Follows, Careful, LeftIn

LEMMA StopRequestedFollows ==
  ASSUME NEW s, EpisodeOK(s, rung), NEW v, Spoken(s, v), SoundVerdict(v), NEW w,
         NEW step \in Nat, Episode!StopRequested(s, v, w, step)
  PROVE  Follows(v, w) /\ Careful(s, w)
<1> DEFINE dwelt == Episode!Dwelt(s, v, w, step)
           told == Episode!Told(dwelt, v)
           up == [told EXCEPT !.escalations = told.escalations + 1]
           again == Episode!Carried(Episode!Enter(s, "requested"), v)
<1>1. /\ s.phase = "stop_requested" /\ s \in Episode!States /\ v \in Verdicts
      /\ ~s.emergency => s.escalations = 0
      /\ s.emergency \in BOOLEAN
  BY DEF Episode!StopRequested, EpisodeOK, EscalatedOnce, SoundVerdict, Episode!States
<1>2. /\ dwelt \in Episode!States /\ dwelt.phase = s.phase
      /\ SameDemand(dwelt, s) /\ SameBudget(dwelt, s) /\ dwelt.emergency = s.emergency
  BY <1>1, DweltFacts
<1> HIDE DEF dwelt
<1>3. EpisodeOK(dwelt, rung)
  BY <1>2, LikeOK
<1>4. Spoken(dwelt, v) /\ dwelt.escalations = s.escalations
  BY <1>2 DEF Spoken, SameBudget
<1>5. /\ EpisodeOK(told, rung) /\ told.phase = "stop_requested"
      /\ told.emergency = (s.emergency \/ Episode!Abort(v))
      /\ told.escalations = s.escalations
  BY <1>1, <1>2, <1>3, <1>4, ToldOK
<1>6. told.reason \in Episode!EpisodeReasons /\ told.level \in Episode!Levels
  BY <1>5 DEF EpisodeOK, Episode!States
<1>7. {"regular", "emergency", "expired"} \subseteq Episode!Causes
      /\ s.owner \in Episode!EpisodeReasons /\ "" \in Episode!EpisodeReasons
  BY <1>1, Words DEF Episode!Causes, Episode!States
<1> HIDE DEF told
<1>8. ASSUME w \in Episode!Closedish, NEW c1 \in {"regular", "emergency"},
             s.emergency => c1 = "emergency", NEW c2 \in {"", s.owner},
             Episode!QuietTick(Episode!Settled(s, v, c1, c2), v)
      PROVE  Follows(v, w) /\ Careful(s, w)
  <2>1. w \notin Episode!Openish
    BY <1>8 DEF Episode!Openish, Episode!Closedish
  <2>2. c1 \in Episode!Causes /\ c2 \in Episode!EpisodeReasons
    BY <1>7
  <2> QED
    BY <1>1, <1>8, <2>1, <2>2, SettledTick
<1>9. ASSUME w = "unknown", NEW c1 \in {"expired", "emergency"},
             s.emergency => c1 = "emergency",
             Episode!QuietTick(Episode!Settled(dwelt, v, c1, ""), v)
      PROVE  Follows(v, w) /\ Careful(s, w)
  <2>1. w \notin Episode!Openish
    BY <1>9 DEF Episode!Openish
  <2>2. c1 \in Episode!Causes
    BY <1>7
  <2>3. dwelt.phase # "idle" /\ (dwelt.emergency => c1 = "emergency")
    BY <1>1, <1>2, <1>9
  <2>4. Follows(v, w) /\ Careful(dwelt, w)
    BY <1>3, <1>7, <1>9, <2>1, <2>2, <2>3, SettledTick
  <2> QED
    BY <1>2, <2>4 DEF Careful
<1>10. ASSUME v.action = "open", ~s.emergency, Episode!AirTick(s, v)
       PROVE  Follows(v, w) /\ Careful(s, w)
  BY <1>1, <1>10, AirTickFollows DEF Careful
<1>11. ASSUME v.action = "open", ~s.emergency,
              Episode!AskTick(again, "open", v.reason, v.level, rung)
       PROVE  Follows(v, w) /\ Careful(s, w)
  <2> DEFINE e == Episode!Enter(s, "requested")
  <2>1. e \in Episode!States /\ e.phase = "requested" /\ SameBudget(e, s)
        /\ e.emergency = s.emergency
    BY <1>1, EnterFacts DEF Episode!Phases
  <2>2. again = Episode!Carried(e, v)
    OBVIOUS
  <2> HIDE DEF e, again
  <2>3. EpisodeOK(again, rung) /\ again.phase = "requested"
    BY <1>1, <1>11, <2>1, <2>2, AirOK
  <2>4. LeftIn(again) /\ card' \in Cards /\ card'.action = "open"
    BY <1>11, <2>3, AskKeeps, SoundWords, Words
  <2> QED
    BY <1>11, <2>4 DEF Follows, Careful, LeftIn
<1>12. v.reason \in Episode!ProtectionOpen => v.action = "open"
  BY DEF SoundVerdict
<1>13. ASSUME ~(v.action = "open" /\ ~s.emergency), Episode!Abort(v), ~s.emergency,
              Episode!Publish(up, "close", told.reason, told.level, TRUE, rung)
       PROVE  Follows(v, w) /\ Careful(s, w)
  <2> DEFINE k == told.escalations + 1
  <2>1. k = 1 /\ k \in Nat
    BY <1>1, <1>5, <1>13
  <2>2. told \in Episode!States
    BY <1>5 DEF EpisodeOK
  <2>3. up = [told EXCEPT !.escalations = k]
    OBVIOUS
  <2> HIDE DEF k, up
  <2>4. /\ up \in Episode!States /\ up.phase = told.phase /\ SameDemand(up, told)
        /\ up.emergency = told.emergency /\ up.escalations = k
        /\ up.episode_prompts = told.episode_prompts /\ up.protected = told.protected
    BY <2>1, <2>2, <2>3 DEF Episode!States, SameDemand
  <2>5. SpokenIsHeld(up)
    BY <1>5, <2>4, ProtectedMeans DEF EpisodeOK, SpokenIsHeld, SameDemand
  <2>6. Counted(up, rung)
    BY <1>5, <2>4 DEF EpisodeOK, Counted
  <2>7. EscalatedOnce(up)
    <3>1. up.emergency /\ up.phase = "stop_requested"
      BY <1>5, <1>13, <2>4
    <3>2. up.escalations = 1
      BY <2>1, <2>4
    <3> QED
      BY <3>1, <3>2 DEF EscalatedOnce
  <2>8. Owned(up) /\ LatchedFor(up)
    BY <1>5, <2>4 DEF EpisodeOK, Owned, LatchedFor, SameDemand
  <2>9. EpisodeOK(up, rung)
    BY <1>5, <2>4, <2>5, <2>6, <2>7, <2>8 DEF EpisodeOK
  <2>10. LeftIn(up) /\ card' \in Cards /\ card'.action = "close"
    BY <1>6, <1>13, <2>9, PublishKeeps, Words
  <2> QED
    BY <1>12, <1>13, <2>10 DEF Follows, Careful, LeftIn
<1>14. ASSUME ~(v.action = "open" /\ ~s.emergency),
              Episode!RemindTick(told, "close", told.reason, told.level)
       PROVE  Follows(v, w) /\ Careful(s, w)
  <2>1. LeftIn(told) /\ card' \in Cards /\ card'.action = "close"
    BY <1>5, <1>6, <1>14, RemindKeeps, Words
  <2>2. s.emergency => airing'.phase = "stop_requested" /\ airing'.emergency
    BY <1>5, <2>1 DEF LeftIn
  <2> QED
    BY <1>12, <1>14, <2>1, <2>2 DEF Follows, Careful, LeftIn
<1> DEFINE ended == IF s.emergency THEN "emergency" ELSE "regular"
           kept == IF s.emergency THEN "" ELSE s.owner
           lost == IF s.emergency THEN "emergency" ELSE "expired"
<1>15. \/ w \in Episode!Closedish /\ Episode!QuietTick(Episode!Settled(s, v, ended, kept), v)
       \/ v.action = "open" /\ ~s.emergency /\ Episode!AirTick(s, v)
       \/ v.action = "open" /\ ~s.emergency
            /\ Episode!AskTick(again, "open", v.reason, v.level, rung)
       \/ w = "unknown" /\ Episode!QuietTick(Episode!Settled(dwelt, v, lost, ""), v)
       \/ ~(v.action = "open" /\ ~s.emergency) /\ Episode!Abort(v) /\ ~s.emergency
            /\ Episode!Publish(up, "close", told.reason, told.level, TRUE, rung)
       \/ ~(v.action = "open" /\ ~s.emergency)
            /\ Episode!RemindTick(told, "close", told.reason, told.level)
  BY DEF Episode!StopRequested, Episode!Resumes, dwelt, told
<1>16. /\ ended \in {"regular", "emergency"} /\ (s.emergency => ended = "emergency")
       /\ kept \in {"", s.owner}
       /\ lost \in {"expired", "emergency"} /\ (s.emergency => lost = "emergency")
  OBVIOUS
<1> HIDE DEF ended, kept, lost, up, again
<1> QED
  BY <1>8, <1>9, <1>10, <1>11, <1>13, <1>14, <1>15, <1>16

LEMMA CoolingFollows ==
  ASSUME NEW s, EpisodeOK(s, rung), NEW v, SoundVerdict(v), NEW w, Episode!Cooling(s, v, w)
  PROVE  Follows(v, w)
<1> DEFINE noted == Episode!Noted(s, v)
           rested == Episode!Rested(s)
<1>1. /\ s.phase = "cooldown" /\ s \in Episode!States /\ s.escalations <= 1 /\ rung \in Nat
      /\ v \in Verdicts
  BY DEF Episode!Cooling, EpisodeOK, EscalatedOnce, SoundVerdict
<1>2. v.reason \in Episode!ProtectionOpen => v.action = "open"
  BY DEF SoundVerdict
<1>3. ASSUME Episode!Watching(rested, v, w)
      PROVE  Follows(v, w)
  <2>1. /\ rested \in Episode!States /\ rested.phase = "idle" /\ rested.emergency = FALSE
        /\ rested.escalations = s.escalations
    BY <1>1, RestedFacts
  <2> HIDE DEF rested
  <2>2. EpisodeOK(rested, rung)
    BY <1>1, <2>1, IdleOK
  <2> QED
    BY <1>3, <2>2, WatchingFollows
<1>4. /\ noted \in Episode!States /\ noted.phase = s.phase /\ SameDemand(noted, s)
      /\ SameBudget(noted, s) /\ noted.emergency = s.emergency
  BY <1>1, NotedFacts
<1> HIDE DEF noted
<1>5. EpisodeOK(noted, rung)
  BY <1>4, LikeOK
<1>6. ASSUME v.action = "close",
             Episode!Publish(noted, "close", v.reason, v.level, FALSE, rung)
      PROVE  Follows(v, w)
  <2>1. LeftIn(noted) /\ card' \in Cards /\ card'.action = "close"
    BY <1>5, <1>6, PublishKeeps, SoundWords, Words
  <2> QED
    BY <1>2, <1>6, <2>1 DEF Follows, LeftIn
<1>7. ASSUME ~Episode!Breaks(s, v), v.action # "close", Episode!QuietTick(noted, v)
      PROVE  Follows(v, w)
  <2>1. LeftIn(noted) /\ card' \in Cards
    BY <1>1, <1>5, <1>7, QuietKeeps
  <2>2. v.reason \notin Episode!ProtectionOpen
    BY <1>2, <1>7 DEF Episode!Breaks
  <2> QED
    BY <1>7, <2>1, <2>2 DEF Follows, LeftIn
<1> QED
  BY <1>3, <1>6, <1>7 DEF Episode!Cooling, noted

\* Only a stop is latched, so the other phases have nothing to be careful of.
LEMMA StepFollows ==
  ASSUME NEW s, EpisodeOK(s, rung), NEW v, Spoken(s, v), SoundVerdict(v), NEW w,
         NEW step \in Nat, Episode!episode_step(s, v, w, step)
  PROVE  Follows(v, w) /\ Careful(s, w)
<1>1. CASE Episode!StopRequested(s, v, w, step)
  BY <1>1, StopRequestedFollows
<1>2. CASE \/ Episode!Watching(s, v, w) \/ Episode!Requested(s, v, w)
           \/ Episode!Ventilating(s, v, w) \/ Episode!Cooling(s, v, w)
  <2>1. Follows(v, w)
    BY <1>2, WatchingFollows, RequestedFollows, VentilatingFollows, CoolingFollows
  <2>2. s.phase # "stop_requested"
    BY <1>2 DEF Episode!Watching, Episode!Requested, Episode!Ventilating, Episode!Cooling
  <2>3. ~s.emergency
    BY <2>2 DEF EpisodeOK, LatchedFor
  <2> QED
    BY <2>1, <2>3 DEF Careful
<1> QED
  BY <1>1, <1>2 DEF Episode!episode_step

LEMMA ReadingsAreWindows == Episode!Readings \subseteq Episode!Windows
BY DEF Episode!Readings, Episode!Effective, Episode!Windows

LEMMA StepsAreMinutes == Episode!Steps \subseteq Nat
<1> SUFFICES ASSUME NEW k \in Episode!Steps PROVE k \in Nat
  OBVIOUS
<1>1. PICK m \in 1 .. MaxTick + 1 : k = Episode!Min({m, MaxTick})
  BY DEF Episode!Steps
<1>2. m \in Nat /\ MaxTick \in Nat
  BY <1>1, EpisodeConstants
<1> QED
  BY <1>1, <1>2, LeastOfTwo

\* A latched stop stays latched or ends by a window that is not seen open, in
\* the long quiet time.
EndsCarefully ==
  Episode!Latched /\ ~Episode!Latched' =>
    /\ glimpse' \notin Episode!Openish
    /\ airing'.phase = "cooldown" /\ airing'.cooldown_for = Cooldown["emergency"]

LEMMA EpisodeSteps ==
  ASSUME Generous, EpisodeInv, Episode!Next \/ UNCHANGED episode
  PROVE  EpisodeInv' /\ EndsCarefully
<1>1. CASE UNCHANGED episode
  BY <1>1 DEF episode, EpisodeInv, TickTells, EndsCarefully, Episode!Latched
<1>2. CASE Episode!Next
  <2>1. PICK w \in Episode!Readings, step \in Episode!Steps : Episode!Tick(w, step)
    BY <1>2 DEF Episode!Next
  <2>2. PICK v \in Answered[(w \in Episode!Openish)][Episode!oracle_flags(airing)] :
          /\ glimpse' = w /\ heard' = [now |-> v, before |-> heard.now]
          /\ Episode!episode_step(Episode!Aged(airing, v, step), v, w, step)
    BY <2>1 DEF Episode!Tick
  <2>3. w \in Episode!Windows /\ step \in Nat
    BY ReadingsAreWindows, StepsAreMinutes
  <2>4. EpisodeOK(airing, rung) /\ Owned(airing)
    BY DEF EpisodeInv, EpisodeOK
  <2>5. SoundVerdict(v)
    <3> DEFINE o == w \in Episode!Openish
               p == Episode!oracle_flags(airing)
    <3>1. o \in BOOLEAN
      OBVIOUS
    <3>2. p \in Table!Anchors
      BY <2>4, FlagsAreAnchors
    <3>3. v \in Answered[o][p]
      OBVIOUS
    <3> HIDE DEF o, p
    <3> QED
      BY <3>1, <3>2, <3>3, SoundAnswers
  <2> DEFINE s == Episode!Aged(airing, v, step)
  <2>6. EpisodeOK(s, rung) /\ Spoken(s, v) /\ s.phase = airing.phase
        /\ s.emergency = airing.emergency
    BY <2>3, <2>4, AgedOK
  <2>7. Episode!episode_step(s, v, w, step)
    BY <2>2
  <2> HIDE DEF s
  <2>8. Follows(v, w) /\ Careful(s, w)
    BY <2>3, <2>5, <2>6, <2>7, StepFollows
  <2>9. heard'.now = v /\ heard' \in [now : Verdicts, before : Verdicts]
    BY <2>2, <2>5 DEF EpisodeInv, SoundVerdict
  <2>10. TickTells(heard.now, glimpse)'
    BY <2>2, <2>8, <2>9 DEF Follows, TickTells, Cards, Episode!Latched
  <2>11. EpisodeInv'
    BY <2>2, <2>3, <2>8, <2>9, <2>10 DEF Follows, EpisodeInv
  <2>12. EndsCarefully
    BY <2>2, <2>6, <2>8 DEF Careful, EndsCarefully, Episode!Latched
  <2> QED
    BY <2>11, <2>12
<1> QED
  BY <1>1, <1>2

LEMMA EpisodeStarts == Episode!Init => EpisodeInv
<1> SUFFICES ASSUME Episode!Init PROVE EpisodeInv
  OBVIOUS
<1>1. /\ airing = Episode!Fresh /\ glimpse = "unknown" /\ rung = 0
      /\ card = [action |-> "idle", reason |-> "no_data", level |-> "ok", prompt |-> FALSE]
      /\ heard = [now |-> Episode!Nothing, before |-> Episode!Nothing]
  BY DEF Episode!Init
<1>2. airing \in Episode!States /\ airing.phase = "idle" /\ ~airing.emergency
      /\ airing.escalations <= 1
  <2>1. 0 \in 0 .. MinuteCap /\ 0 \in 0 .. UnknownRelease
    BY EpisodeConstants
  <2>2. "" \in Episode!EpisodeReasons /\ "ok" \in Episode!Levels /\ "idle" \in Episode!Phases
    BY Words DEF Episode!Phases
  <2>3. airing = [phase |-> "idle", reason |-> "", level |-> "ok", owner |-> "", prompts |-> 0,
          episode_prompts |-> 0, escalations |-> 0, protected |-> FALSE,
          emergency |-> FALSE, phase_min |-> 0, unknown_dwell |-> 0,
          cooldown_for |-> 0, cooldown_scope |-> "", pending |-> ""]
    BY <1>1 DEF Episode!Fresh
  <2>4. airing \in Episode!States
    BY <2>1, <2>2, <2>3 DEF Episode!States
  <2>5. airing.phase = "idle" /\ airing.emergency = FALSE /\ airing.escalations = 0
    BY <2>3
  <2>6. airing.escalations <= 1
    BY <2>5
  <2> QED
    BY <2>4, <2>5, <2>6
<1>3. rung \in Nat
  BY <1>1
<1>4. EpisodeOK(airing, rung)
  BY <1>2, <1>3, IdleOK
<1>5. heard.now = [action |-> "idle", reason |-> "no_data", level |-> "ok"]
      /\ heard.before = heard.now
  BY <1>1 DEF Episode!Nothing, Episode!Verdict
<1>6. [action |-> "idle", reason |-> "no_data", level |-> "ok"] \in Verdicts
  BY DEF Verdicts, Episode!Actions, Episode!TableReasons, Episode!OtherReasons,
     Episode!Levels
<1>7. heard \in [now : Verdicts, before : Verdicts]
  BY <1>1, <1>6 DEF Episode!Nothing, Episode!Verdict
<1>8. card \in Cards
  BY <1>1 DEF Cards, Episode!Actions, Episode!EpisodeReasons, Episode!TableReasons,
     Episode!OtherReasons, Episode!Levels
<1>9. TickTells(heard.now, glimpse)
  BY <1>5, <1>8 DEF TickTells, Cards, Episode!ProtectionOpen
<1> QED
  BY <1>1, <1>4, <1>7, <1>9 DEF EpisodeInv, Episode!Windows

LEMMA EpisodeTells ==
  EpisodeInv => /\ Episode!TypeOK /\ Episode!OpenWindowIsTold /\ Episode!LatchKeepsItsReason
                /\ Episode!RemindersAreBounded /\ Episode!ProtectionIsHeard
<1> SUFFICES ASSUME EpisodeInv
             PROVE  /\ Episode!TypeOK /\ Episode!OpenWindowIsTold
                    /\ Episode!LatchKeepsItsReason /\ Episode!RemindersAreBounded
                    /\ Episode!ProtectionIsHeard
  OBVIOUS
<1>1. /\ EpisodeOK(airing, rung) /\ TickTells(heard.now, glimpse)
      /\ glimpse \in Episode!Windows /\ heard.now \in Verdicts /\ heard.before \in Verdicts
  BY DEF EpisodeInv
<1>2. Episode!TypeOK
  BY <1>1 DEF EpisodeOK, TickTells, Cards, Verdicts, Episode!TypeOK
<1>3. Episode!OpenWindowIsTold /\ Episode!ProtectionIsHeard
  <2>1. heard.now.reason \in {heard.now.reason, heard.before.reason}
    OBVIOUS
  <2> QED
    BY <1>1, <2>1 DEF TickTells, Episode!OpenWindowIsTold, Episode!ProtectionIsHeard
<1>4. Episode!LatchKeepsItsReason
  BY <1>1 DEF EpisodeOK, LatchedFor, Episode!Latched, Episode!LatchKeepsItsReason
<1>5. Episode!RemindersAreBounded
  <2>1. airing.escalations <= 1
    BY <1>1 DEF EpisodeOK, EscalatedOnce
  <2>2. ASSUME airing.phase # "idle"
        PROVE  rung <= EpisodeCap[Episode!Protected(airing)]
    <3>1. airing.protected \in BOOLEAN /\ (Episode!Protected(airing) <=> airing.protected)
      BY <1>1, <2>2 DEF EpisodeOK, SpokenIsHeld, Episode!States
    <3>2. Episode!Protected(airing) = airing.protected
      <4>1. Episode!Protected(airing) \in BOOLEAN
        BY <3>1 DEF Episode!Protected
      <4> QED
        BY <3>1, <4>1
    <3>3. rung <= EpisodeCap[airing.protected]
      BY <1>1, <2>2 DEF EpisodeOK, Counted
    <3> QED
      BY <3>2, <3>3
  <2> QED
    BY <2>1, <2>2 DEF Episode!RemindersAreBounded
<1> QED
  BY <1>2, <1>3, <1>4, <1>5

(***************************************************************************)
(* An airing is told truthfully for every table of airs, every budget and  *)
(* every quiet time, as long as protection has no smaller budget than      *)
(* comfort (4 against 10 prompts, comfort/vent_episode.py): an open window *)
(* the table would have shut is spoken of, a latched stop keeps a          *)
(* protection reason and its severity, the reminders of an episode stay in *)
(* its budget across all its phases, protection is heard at once, and a    *)
(* latched stop ends by no window that is seen open.                       *)
(***************************************************************************)
THEOREM AiringIsTold ==
  ASSUME EpisodeCap[FALSE] <= EpisodeCap[TRUE]
  PROVE  PartsSpec => EpisodeIsTold
<1>0. Generous
  BY DEF Generous
<1>1. PartsInit => EpisodeInv
  BY EpisodeStarts DEF PartsInit
<1>2. EpisodeInv /\ [PartsNext]_<<part, zone, observation, advice, episode>>
        => EpisodeInv' /\ [EndsCarefully]_(Episode!vars)
  <2> SUFFICES ASSUME EpisodeInv, [PartsNext]_<<part, zone, observation, advice, episode>>
               PROVE  EpisodeInv' /\ EndsCarefully
    OBVIOUS
  <2>1. Episode!Next \/ UNCHANGED episode
    BY DEF PartsNext
  <2> QED
    BY <1>0, <2>1, EpisodeSteps
<1>3. [EndsCarefully]_(Episode!vars)
        => [(Episode!Latched /\ ~Episode!Latched') =>
              /\ glimpse' \notin Episode!Openish
              /\ airing'.phase = "cooldown"
              /\ airing'.cooldown_for = Cooldown["emergency"]]_(Episode!vars)
  BY DEF EndsCarefully
<1>4. EpisodeInv => (part = "episode" =>
        /\ Episode!TypeOK /\ Episode!OpenWindowIsTold /\ Episode!LatchKeepsItsReason
        /\ Episode!RemindersAreBounded /\ Episode!ProtectionIsHeard)
  BY EpisodeTells
<1> QED
  BY <1>1, <1>2, <1>3, <1>4, PTL
     DEF PartsSpec, EpisodeIsTold, Episode!LatchedStopEndsCarefully
=============================================================================

--------------------------- MODULE ComfortSchedule ----------------------------
(***************************************************************************)
(* The weekly comfort schedule of a zone (comfort/schedule.py): windows of *)
(* a day with the weekdays they apply to, expanded onto one cyclic week;   *)
(* what the schedule says of an instant -- comfort or setback, how long    *)
(* until the next comfort window opens and until the present one closes.   *)
(*                                                                         *)
(* A week has Days days of DayLen slots.  A window may end before it       *)
(* starts: it then runs over midnight, from Sunday into Monday too.        *)
(***************************************************************************)
EXTENDS Integers, FiniteSets, FiniteSetsExt

CONSTANTS
  Days,       \* days of the week
  DayLen,     \* slots of a day
  Schedules,  \* the sets of windows a zone may be configured with
  NoEdge      \* what Python's None stands for: a transition that does not exist

Week == Days * DayLen
Window == [start : 0 .. DayLen, end : 0 .. DayLen, days : SUBSET (0 .. Days - 1)]

\* What the constants must be: assumed where they get their values.
WeekAssumption ==
  /\ Days \in Nat \ {0} /\ DayLen \in Nat \ {0}
  /\ NoEdge \notin Nat
  /\ Schedules \subseteq SUBSET Window

VARIABLES windows, now
clockVars == <<windows, now>>

\* _normalize: an empty window does not count as configured.
Normalized(ws) == {w \in ws : w.start # w.end}

\* The stretch window w takes up from day d on, its end possibly beyond Sunday.
Stretch(w, d) ==
  <<d * DayLen + w.start, (IF w.end < w.start THEN d + 1 ELSE d) * DayLen + w.end>>

\* _expand, before the merge: what runs over Sunday midnight is split there.
Raw(ws) ==
  LET all == {Stretch(p[1], p[2]) : p \in {q \in ws \X (0 .. Days - 1) : q[2] \in q[1].days}}
  IN  {<<r[1], Min({r[2], Week})>> : r \in all} \cup {<<0, r[2] - Week>> : r \in all}

\* Overlapping and touching stretches are one interval, an empty one is none.
Merged(raw) ==
  LET slots == UNION {r[1] .. r[2] - 1 : r \in raw}
  IN  {r \in (0 .. Week - 1) \X (1 .. Week) :
         /\ r[1] < r[2] /\ (r[1] .. r[2] - 1) \subseteq slots
         /\ r[1] - 1 \notin slots /\ r[2] \notin slots}

\* Seeded fault: the seam between Sunday and Monday stays open.
SeamOpen(ivs) == ivs

\* The interval that ends with the week and the one that begins it are one.
Seam(ivs) ==
  LET first == {r \in ivs : r[1] = 0}
      last  == {r \in ivs : r[2] = Week}
  IN  IF Cardinality(ivs) >= 2 /\ first # {} /\ last # {}
      THEN (ivs \ (first \cup last)) \cup
           {<<l[1], Week + f[2]>> : l \in last, f \in first}
      ELSE ivs

Intervals(ws) == Seam(Merged(Raw(ws)))

Verdict(comfort, toComfort, toSetback) ==
  [is_comfort |-> comfort, to_comfort |-> toComfort, to_setback |-> toSetback]

\* state_at
StateAt(ws, t) ==
  LET ivs == Intervals(Normalized(ws))
      hits == {h \in ivs \X {t, t + Week} : h[1][1] <= h[2] /\ h[2] < h[1][2]}
  IN  IF Normalized(ws) = {} \/ ivs = {<<0, Week>>} THEN Verdict(TRUE, NoEdge, NoEdge)
      ELSE IF ivs = {} THEN Verdict(FALSE, NoEdge, NoEdge)
      ELSE IF hits # {} THEN Verdict(TRUE, 0, Min({h[1][2] - h[2] : h \in hits}))
      ELSE Verdict(FALSE, Min({(r[1] - t) % Week : r \in ivs}), 0)

\* minutes_to_switchpoint: the nearer of the edges to come.
SwitchPoint(ws, t) ==
  LET st == StateAt(ws, t)
      edges == {m \in {st.to_comfort, st.to_setback} : m # NoEdge /\ m # 0}
  IN  IF edges = {} THEN NoEdge ELSE Min(edges)

ClockInit == windows \in Schedules /\ now \in 0 .. Week - 1
Pass(d) == now' = (now + d) % Week /\ UNCHANGED windows
Minute == Pass(1)
ClockSpec == ClockInit /\ [][Minute]_clockVars

-----------------------------------------------------------------------------
(* What a schedule means, window by window, with no intervals, seam or probes. *)

LengthOf(w) == IF w.end < w.start THEN DayLen - w.start + w.end ELSE w.end - w.start

IsOpen(ws, t) ==
  \E w \in ws : \E d \in w.days : (t - d * DayLen - w.start) % Week < LengthOf(w)

Ahead(P(_)) == IF \E k \in 0 .. Week - 1 : P(k)
               THEN Min({k \in 0 .. Week - 1 : P(k)}) ELSE NoEdge

\* The verdict is the plain meaning of the windows at that instant: comfort iff
\* one of them holds (or none is configured), the next opening and closing where
\* they really are on the cyclic week, and no edge where there is none.
TellsTheClock(ws, t) ==
  LET v    == StateAt(ws, t)
      opens(k)  == IsOpen(ws, t + k)
      closes(k) == ~ opens(k)
      none == Normalized(ws) = {}
      ever == none \/ \E k \in 0 .. Week - 1 : opens(k)
      bar  == ~ none /\ \E k \in 0 .. Week - 1 : closes(k)
  IN  /\ v.is_comfort = (none \/ opens(0))
      /\ v.to_comfort = IF ever /\ bar THEN Ahead(opens) ELSE NoEdge
      /\ v.to_setback = IF ever /\ bar THEN Ahead(closes) ELSE NoEdge

VerdictIsTheClock == TellsTheClock(windows, now)
=============================================================================

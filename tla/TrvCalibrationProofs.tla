-------------------------- MODULE TrvCalibrationProofs --------------------------
(***************************************************************************)
(* Whose offset a thermostat shows, for every grid, every original offset  *)
(* and every life of the entry, when no command outlives its tick.         *)
(***************************************************************************)
EXTENDS TrvCalibration, TLAPS

Numbers_ == [Numbers -> [st : {"ok", "unreadable", "gone"}, shown : Offsets,
                         flight : Offsets \cup {None}]]
Runtimes ==
  [armed : BOOLEAN, found : Numbers \cup {None},
   base : Offsets \cup {None}, owner : Numbers \cup {None},
   cmd : Offsets \cup {None}, anchor : BOOLEAN,
   wrote : (0 .. Limit * Interval) \cup {None},
   restored : (0 .. Interval) \cup {None}]

\* Nothing in the number but what the user had set.
Untouched(e) == num[e].shown = first[e] /\ num[e].flight \in {None, first[e]}

Holds(e) ==
  CASE Loaded -> rt.owner = e
    [] flow = "down" -> disk.owner = e
    [] flow = "removed" -> told

OffsetsAreHeld == \A e \in Numbers : num[e].st # "gone" /\ ~Untouched(e) => Holds(e)

OldNumberIsLeft ==
  device = Second /\ Readable(First) => num[First].shown = first[First] /\ num[First].flight = None

FedIsClean == fed => \A e \in Numbers : num[e].st # "gone" => Untouched(e)

NewNumberIsFresh ==
  device = First => rt.owner # Second /\ disk.owner # Second /\ num[Second].flight = None

\* Between two instances only restores are under way.
RestIsRestore == flow # "up" => \A e \in Numbers : num[e].flight \in {None, first[e]}

InstanceFits ==
  /\ Loaded => rt.found \in {None, device}
  /\ flow # "up" => rt.base = None
  /\ flow = "swapping" => ~rt.armed /\ device = First
  /\ flow = "up" => disk = Ownership(rt)
  /\ (rt.cmd # None) <=> rt.anchor

\* A fresh report contains the offset the number shows, unless the command was lost.
ReportFits ==
  rt.base \notin {None, rt.cmd} /\ rt.owner = device /\ fresh =>
    /\ num[device].flight \in {None, rt.base}
    /\ rt.cmd # None => seen = num[device].shown \/ num[device].shown # rt.cmd

IInv ==
  /\ TypeOK /\ BaselineIsOriginal
  /\ OffsetsAreHeld /\ OldNumberIsLeft /\ FedIsClean /\ NewNumberIsFresh
  /\ RestIsRestore /\ InstanceFits /\ ReportFits

\* No command is still under way at the next tick.
Prompt == "slow" \notin Faults
-----------------------------------------------------------------------------
(* The operators.                                                          *)

LEMMA ClampFits ==
  ASSUME NEW v \in Int
  PROVE  Clamp(v) \in Offsets /\ (v \in Offsets => Clamp(v) = v)
BY CalibrationAssumption DEF Clamp, Offsets

LEMMA OffsetsAreNumbers == Offsets \subseteq Int /\ None \notin Offsets /\ None \notin Numbers
BY CalibrationAssumption DEF Offsets

LEMMA CapsAreNatural == Limit * Interval \in Nat /\ Interval \in Nat
BY CalibrationAssumption

LEMMA OlderFits ==
  ASSUME NEW cap \in Nat, NEW age \in (0 .. cap) \cup {None}
  PROVE  Older(age, cap) \in (0 .. cap) \cup {None}
BY CalibrationAssumption DEF Older

LEMMA TypeSplit == TypeOK => num \in Numbers_ /\ rt \in Runtimes
BY DEF TypeOK, Numbers_, Runtimes

\* A command changes the flight of one number.
LEMMA SentFits ==
  ASSUME TypeOK, NEW e \in Numbers, NEW v \in Offsets
  PROVE  /\ Sent(e, v) \in Numbers_
         /\ \A f \in Numbers : /\ Sent(e, v)[f].st = num[f].st
                               /\ Sent(e, v)[f].shown = num[f].shown
                               /\ f # e => Sent(e, v)[f] = num[f]
         /\ Sent(e, v)[e].flight = v
         /\ num[e].flight = None => Sent(e, v) # num
BY OffsetsAreNumbers DEF Sent, TypeOK, Numbers_

LEMMA ClearedFits ==
  ASSUME NEW r \in Runtimes
  PROVE  /\ Cleared(r) \in Runtimes
         /\ Cleared(r).base = None /\ Cleared(r).owner = None /\ Cleared(r).cmd = None
         /\ Cleared(r).anchor = FALSE /\ Cleared(r).wrote = None /\ Cleared(r).restored = None
         /\ Cleared(r).found = r.found /\ Cleared(r).armed = r.armed
BY DEF Cleared, Runtimes

LEMMA InstanceTyped ==
  ASSUME TypeOK, NEW option \in BOOLEAN, NEW d \in Numbers, NEW stored,
         stored.base \in Offsets \cup {None}, stored.owner \in Numbers \cup {None}
  PROVE  Instance(option, d, stored) \in Runtimes
BY DEF Instance, Runtimes, TypeOK

\* The hand-back outside the tick writes the original offset, or nothing.
LEMMA RestoresFit ==
  ASSUME TypeOK, NEW o, o.base \in Offsets \cup {None}, o.owner \in Numbers \cup {None},
         (o.base = None) <=> (o.owner = None),
         o.base # None => o.base = first[o.owner],
         \A e \in Numbers : num[e].flight = None,
         NEW x \in Restores(o)
  PROVE  /\ x.num \in Numbers_ /\ x.ok \in BOOLEAN
         /\ \A e \in Numbers :
              /\ x.num[e].st = num[e].st
              /\ x.num[e].flight \in {None, first[e]}
              /\ x.num[e].shown \in {num[e].shown, first[e]}
              /\ x.num[e] # num[e] =>
                   e = o.owner /\ Readable(e) /\ num[e].shown # first[e]
              /\ x.ok => /\ x.num[e].flight = None
                         /\ e = o.owner /\ num[e].st # "gone" => x.num[e].shown = first[e]
<1> DEFINE orig == first[o.owner]
           back == [num EXCEPT ![o.owner].shown = orig, ![o.owner].flight = None]
<1>1. \A e \in Numbers : num[e].shown \in Offsets /\ num[e].flight = None
  BY DEF TypeOK
<1>2. o.base # None => o.owner \in Numbers /\ Clamp(o.base) = orig /\ orig \in Offsets
  BY ClampFits, OffsetsAreNumbers DEF TypeOK
<1>3. \/ /\ x = [num |-> num, ok |-> TRUE]
         /\ o.base = None \/ num[o.owner].st = "gone" \/ num[o.owner].shown = orig
      \/ x = [num |-> num, ok |-> FALSE]
      \/ /\ o.base # None /\ Readable(o.owner) /\ num[o.owner].shown # orig
         /\ x = [num |-> back, ok |-> TRUE] \/ x = [num |-> Sent(o.owner, orig), ok |-> FALSE]
  BY <1>2 DEF Restores, Gone
<1>4. CASE /\ x = [num |-> num, ok |-> TRUE]
           /\ o.base = None \/ num[o.owner].st = "gone" \/ num[o.owner].shown = orig
  <2>1. x.num = num /\ x.ok = TRUE
    BY <1>4
  <2> QED
    BY <1>1, <1>4, <2>1, TypeSplit, OffsetsAreNumbers
<1>5. CASE x = [num |-> num, ok |-> FALSE]
  <2>1. x.num = num /\ x.ok = FALSE
    BY <1>5
  <2> QED
    BY <1>1, <2>1, TypeSplit
<1>6. CASE /\ o.base # None /\ Readable(o.owner) /\ num[o.owner].shown # orig
           /\ x = [num |-> back, ok |-> TRUE]
  <2>1. x.num = back /\ x.ok = TRUE
    BY <1>6
  <2>2. o.owner \in Numbers /\ orig \in Offsets
    BY <1>2, <1>6
  <2>3. /\ back \in Numbers_
        /\ \A e \in Numbers : /\ back[e].st = num[e].st /\ (e # o.owner => back[e] = num[e])
                              /\ e = o.owner => back[e].shown = orig /\ back[e].flight = None
    BY <2>2 DEF TypeOK, Numbers_
  <2> HIDE DEF back
  <2> QED
    BY <1>1, <1>6, <2>1, <2>3
<1>7. CASE /\ o.base # None /\ Readable(o.owner) /\ num[o.owner].shown # orig
           /\ x = [num |-> Sent(o.owner, orig), ok |-> FALSE]
  <2>1. x.num = Sent(o.owner, orig) /\ x.ok = FALSE
    BY <1>7
  <2> QED
    BY <1>1, <1>2, <1>7, <2>1, SentFits
<1> QED
  BY <1>3, <1>4, <1>5, <1>6, <1>7
-----------------------------------------------------------------------------
(* What a tick does: it leaves the offset, gives it up, restores it,        *)
(* resumes it or writes a new one.                                          *)

SameBooks ==
  /\ rt'.armed = rt.armed /\ rt'.found = rt.found /\ rt'.base = rt.base
  /\ rt'.owner = rt.owner /\ rt'.cmd = rt.cmd /\ rt'.anchor = rt.anchor

Keeps ==
  /\ num' = num /\ SameBooks /\ (fresh' => fresh)
  /\ fed' => rt.base = None \/ num[rt.owner].st = "gone"

Releases ==
  /\ num' = num /\ (fresh' => fresh)
  /\ rt'.base = None /\ rt'.owner = None /\ rt'.cmd = None /\ rt'.anchor = FALSE
  /\ rt'.found = rt.found /\ rt'.armed = rt.armed
  /\ rt.base # None /\ rt.owner \in Numbers
  /\ num[rt.owner].st = "gone" \/ num[rt.owner].shown = Clamp(rt.base)

RestoresIt ==
  /\ rt.base # None /\ Readable(rt.owner) /\ num[rt.owner].shown # Clamp(rt.base)
  /\ num' = Sent(rt.owner, Clamp(rt.base)) /\ SameBooks
  /\ fed' = FALSE /\ fresh' = FALSE

Resumes ==
  /\ num' = num /\ rt.base # None /\ rt.cmd = None /\ (fresh' => rt.anchor)
  /\ rt'.cmd \in Offsets /\ rt'.anchor = TRUE /\ rt'.base = rt.base /\ rt'.owner = rt.owner
  /\ rt'.found = rt.found /\ rt'.armed = rt.armed
  /\ fed' = FALSE

Writes ==
  /\ Live(rt) /\ Readable(rt.found)
  /\ rt.found \in Numbers /\ rt.owner \in {None, rt.found}
  /\ Evidence(rt) /\ ~Quarantined(rt)
  /\ num' = Sent(rt.found, Wanted(rt)) /\ Wanted(rt) \in Offsets
  /\ rt'.base = (IF rt.base = None THEN num[rt.found].shown ELSE rt.base)
  /\ rt'.owner = rt.found /\ rt'.cmd = Wanted(rt) /\ rt'.anchor = TRUE
  /\ rt'.found = rt.found /\ rt'.armed = rt.armed
  /\ fed' = FALSE /\ fresh' = FALSE

LEMMA WantedFits ==
  ASSUME TypeOK, rt.found \in Numbers
  PROVE  Wanted(rt) \in Offsets
<1>1. need \in Int /\ seen \in Int /\ num[rt.found].shown \in Int
  BY OffsetsAreNumbers, CalibrationAssumption DEF TypeOK
<1> QED
  BY <1>1, ClampFits DEF Wanted

\* The clocks of the actuator age, the rest is the outcome's.
Aging(r) == [r EXCEPT !.wrote = IF @ = rt.wrote THEN Older(@, Limit * Interval) ELSE @,
                      !.restored = IF @ = rt.restored THEN Older(@, Interval) ELSE @]

LEMMA AgingFits ==
  ASSUME NEW r \in Runtimes
  PROVE  /\ Aging(r) \in Runtimes
         /\ Aging(r).armed = r.armed /\ Aging(r).found = r.found /\ Aging(r).base = r.base
         /\ Aging(r).owner = r.owner /\ Aging(r).cmd = r.cmd /\ Aging(r).anchor = r.anchor
<1> DEFINE w == IF r.wrote = rt.wrote THEN Older(r.wrote, Limit * Interval) ELSE r.wrote
           v == IF r.restored = rt.restored THEN Older(r.restored, Interval) ELSE r.restored
<1>1. w \in (0 .. Limit * Interval) \cup {None} /\ v \in (0 .. Interval) \cup {None}
  BY OlderFits, CapsAreNatural DEF Runtimes
<1>2. Aging(r) = [r EXCEPT !.wrote = w, !.restored = v]
  BY DEF Aging
<1> HIDE DEF w, v
<1> QED
  BY <1>1, <1>2 DEF Runtimes

LEMMA TickCases ==
  ASSUME TypeOK, Prompt, NEW offline \in BOOLEAN, Tick(offline)
  PROVE  /\ rt' \in Runtimes /\ num' \in Numbers_ /\ fed' \in BOOLEAN /\ fresh' \in BOOLEAN
         /\ disk' = Ownership(rt')
         /\ \A e \in Numbers : num[e].flight = None
         /\ Keeps \/ Releases \/ RestoresIt \/ Resumes \/ Writes
<1>1. PICK o \in (IF Live(rt) THEN Regulate(rt, offline) ELSE HandOff(rt)) :
        /\ rt' = Aging(o.rt)
        /\ num' = o.num
        /\ fed' = (cfg.ext /\ ~o.pending)
        /\ fresh' = (fresh /\ (o.rt.anchor => rt.anchor) /\ o.num = num)
        /\ disk' = Ownership(o.rt)
  BY DEF Tick, Aging
<1>2. \A e \in Numbers : num[e].flight = None
  BY DEF Tick, Settled, Prompt
<1>3. num \in Numbers_ /\ rt \in Runtimes /\ cfg.ext \in BOOLEAN /\ fresh \in BOOLEAN
  BY TypeSplit DEF TypeOK
<1>4. o.rt \in Runtimes /\ o.pending \in BOOLEAN =>
        /\ rt' \in Runtimes /\ fed' \in BOOLEAN /\ fresh' \in BOOLEAN
        /\ rt'.armed = o.rt.armed /\ rt'.found = o.rt.found /\ rt'.base = o.rt.base
        /\ rt'.owner = o.rt.owner /\ rt'.cmd = o.rt.cmd /\ rt'.anchor = o.rt.anchor
        /\ disk' = Ownership(rt')
  <2> SUFFICES ASSUME o.rt \in Runtimes, o.pending \in BOOLEAN
               PROVE  /\ rt' \in Runtimes /\ fed' \in BOOLEAN /\ fresh' \in BOOLEAN
                      /\ rt'.armed = o.rt.armed /\ rt'.found = o.rt.found
                      /\ rt'.base = o.rt.base /\ rt'.owner = o.rt.owner
                      /\ rt'.cmd = o.rt.cmd /\ rt'.anchor = o.rt.anchor
                      /\ disk' = Ownership(rt')
    OBVIOUS
  <2>2. /\ rt' \in Runtimes
        /\ rt'.armed = o.rt.armed /\ rt'.found = o.rt.found
        /\ rt'.base = o.rt.base /\ rt'.owner = o.rt.owner
        /\ rt'.cmd = o.rt.cmd /\ rt'.anchor = o.rt.anchor
    BY <1>1, AgingFits
  <2>3. fed' \in BOOLEAN /\ fresh' \in BOOLEAN
    BY <1>1, <1>3
  <2>4. disk' = Ownership(rt')
    BY <1>1, <2>2 DEF Ownership
  <2> QED
    BY <2>2, <2>3, <2>4
<1>5. rt.base # None => rt.owner \in Numbers /\ rt.base \in Offsets /\ Clamp(rt.base) \in Offsets
  BY ClampFits, OffsetsAreNumbers DEF TypeOK
<1>6. CASE ~Live(rt)
  <2>1. \/ /\ o = Outcome(rt, num, FALSE) /\ (rt.base = None \/ Gone(rt.owner))
        \/ o = Outcome(rt, num, TRUE)
        \/ /\ o = Outcome(Cleared(rt), num, FALSE) /\ rt.base # None /\ Handed(rt)
        \/ /\ o = Outcome([rt EXCEPT !.restored = 0], Sent(rt.owner, Clamp(rt.base)), TRUE)
           /\ rt.base # None /\ Readable(rt.owner) /\ ~Handed(rt)
    BY <1>1, <1>6 DEF HandOff
  <2>2. CASE o = Outcome(rt, num, FALSE) /\ (rt.base = None \/ Gone(rt.owner))
    <3>1. o.rt = rt /\ o.num = num /\ o.pending = FALSE
      BY <2>2 DEF Outcome
    <3> QED
      BY <1>1, <1>2, <1>3, <1>4, <2>2, <3>1 DEF Keeps, SameBooks, Gone
  <2>3. CASE o = Outcome(rt, num, TRUE)
    <3>1. o.rt = rt /\ o.num = num /\ o.pending = TRUE
      BY <2>3 DEF Outcome
    <3> QED
      BY <1>1, <1>2, <1>3, <1>4, <3>1 DEF Keeps, SameBooks
  <2>4. CASE o = Outcome(Cleared(rt), num, FALSE) /\ rt.base # None /\ Handed(rt)
    <3>1. o.rt = Cleared(rt) /\ o.num = num /\ o.pending = FALSE
      BY <2>4 DEF Outcome
    <3>2. /\ o.rt \in Runtimes /\ o.rt.base = None /\ o.rt.owner = None
          /\ o.rt.cmd = None /\ o.rt.anchor = FALSE
          /\ o.rt.found = rt.found /\ o.rt.armed = rt.armed
      BY <1>3, <3>1, ClearedFits
    <3>3. rt.base # None /\ rt.owner \in Numbers /\ num[rt.owner].shown = Clamp(rt.base)
      BY <1>5, <2>4 DEF Handed
    <3>4. Releases
      BY <1>1, <1>4, <3>1, <3>2, <3>3 DEF Releases
    <3> QED
      BY <1>1, <1>2, <1>3, <1>4, <3>1, <3>2, <3>4
  <2>5. CASE /\ o = Outcome([rt EXCEPT !.restored = 0], Sent(rt.owner, Clamp(rt.base)), TRUE)
             /\ rt.base # None /\ Readable(rt.owner) /\ ~Handed(rt)
    <3>1. /\ o.rt = [rt EXCEPT !.restored = 0] /\ o.num = Sent(rt.owner, Clamp(rt.base))
          /\ o.pending = TRUE
      BY <2>5 DEF Outcome
    <3>2. o.rt \in Runtimes
      BY <1>3, <3>1, CapsAreNatural DEF Runtimes
    <3>3. /\ o.rt.armed = rt.armed /\ o.rt.found = rt.found /\ o.rt.base = rt.base
          /\ o.rt.owner = rt.owner /\ o.rt.cmd = rt.cmd /\ o.rt.anchor = rt.anchor
      BY <1>3, <3>1 DEF Runtimes
    <3>4. o.num \in Numbers_ /\ o.num # num
      <4>1. rt.owner \in Numbers /\ Clamp(rt.base) \in Offsets
        BY <1>5, <2>5
      <4> QED
        BY <1>2, <3>1, <4>1, SentFits
    <3>5. fed' = FALSE /\ fresh' = FALSE
      BY <1>1, <3>1, <3>4
    <3>6. RestoresIt
      BY <1>1, <1>4, <2>5, <3>1, <3>2, <3>3, <3>5 DEF RestoresIt, SameBooks, Handed
    <3> QED
      BY <1>1, <1>2, <1>4, <3>1, <3>2, <3>4, <3>6
  <2> QED
    BY <2>1, <2>2, <2>3, <2>4, <2>5
<1>7. CASE Live(rt)
  <2>1. rt.found \in Numbers /\ ~cfg.ext
    BY <1>3, <1>7 DEF Live, Runtimes
  <2>2. fed' = FALSE
    BY <1>1, <2>1
  <2>3. \/ o = Outcome(rt, num, FALSE)
        \/ /\ o = Outcome(Cleared(rt), num, FALSE)
           /\ rt.owner # None /\ Gone(rt.owner)
        \/ /\ o = Outcome([rt EXCEPT !.cmd = num[rt.found].shown, !.anchor = TRUE], num, FALSE)
           /\ Quarantined(rt)
        \/ /\ o = Outcome(Owns(rt), Sent(rt.found, Wanted(rt)), FALSE)
           /\ rt.owner \in {None, rt.found} /\ ~Quarantined(rt) /\ Evidence(rt)
           /\ Readable(rt.found)
    BY <1>1, <1>7 DEF Regulate
  <2>4. CASE o = Outcome(rt, num, FALSE)
    <3>1. o.rt = rt /\ o.num = num /\ o.pending = FALSE
      BY <2>4 DEF Outcome
    <3> QED
      BY <1>1, <1>2, <1>3, <1>4, <2>2, <3>1 DEF Keeps, SameBooks
  <2>5. CASE /\ o = Outcome(Cleared(rt), num, FALSE)
             /\ rt.owner # None /\ Gone(rt.owner)
    <3>1. o.rt = Cleared(rt) /\ o.num = num /\ o.pending = FALSE
      BY <2>5 DEF Outcome
    <3>2. rt.base # None /\ rt.owner \in Numbers /\ num[rt.owner].st = "gone"
      BY <2>5 DEF TypeOK, Gone
    <3>3. /\ o.rt \in Runtimes /\ o.rt.base = None /\ o.rt.owner = None
          /\ o.rt.cmd = None /\ o.rt.anchor = FALSE
          /\ o.rt.found = rt.found /\ o.rt.armed = rt.armed
      BY <1>3, <3>1, ClearedFits
    <3>4. Releases
      BY <1>1, <1>4, <3>1, <3>2, <3>3 DEF Releases
    <3> QED
      BY <1>1, <1>2, <1>3, <1>4, <3>1, <3>3, <3>4
  <2>6. CASE /\ o = Outcome([rt EXCEPT !.cmd = num[rt.found].shown, !.anchor = TRUE], num, FALSE)
             /\ Quarantined(rt)
    <3>1. /\ o.rt = [rt EXCEPT !.cmd = num[rt.found].shown, !.anchor = TRUE] /\ o.num = num
          /\ o.pending = FALSE
      BY <2>6 DEF Outcome
    <3>2. num[rt.found].shown \in Offsets
      BY <2>1 DEF TypeOK
    <3>3. /\ o.rt \in Runtimes
          /\ o.rt.armed = rt.armed /\ o.rt.found = rt.found /\ o.rt.base = rt.base
          /\ o.rt.owner = rt.owner /\ o.rt.cmd = num[rt.found].shown /\ o.rt.anchor = TRUE
      BY <1>3, <3>1, <3>2 DEF Runtimes
    <3>4. Resumes
      BY <1>1, <1>4, <2>2, <2>6, <3>1, <3>2, <3>3 DEF Resumes, Quarantined
    <3> QED
      BY <1>1, <1>2, <1>3, <1>4, <3>1, <3>3, <3>4
  <2>7. CASE /\ o = Outcome(Owns(rt), Sent(rt.found, Wanted(rt)), FALSE)
             /\ rt.owner \in {None, rt.found} /\ ~Quarantined(rt) /\ Evidence(rt)
             /\ Readable(rt.found)
    <3>1. o.rt = Owns(rt) /\ o.num = Sent(rt.found, Wanted(rt)) /\ o.pending = FALSE
      BY <2>7 DEF Outcome
    <3>2. Wanted(rt) \in Offsets /\ num[rt.found].shown \in Offsets
      BY <2>1, WantedFits DEF TypeOK
    <3>3. o.num \in Numbers_ /\ o.num # num
      BY <1>2, <2>1, <3>1, <3>2, SentFits
    <3>4. (rt.base = None) <=> (rt.owner = None)
      BY DEF TypeOK
    <3>5. /\ o.rt \in Runtimes
          /\ o.rt.armed = rt.armed /\ o.rt.found = rt.found
          /\ o.rt.base = (IF rt.base = None THEN num[rt.found].shown ELSE rt.base)
          /\ o.rt.owner = rt.found /\ o.rt.cmd = Wanted(rt) /\ o.rt.anchor = TRUE
      <4> DEFINE b == IF rt.base = None THEN num[rt.found].shown ELSE rt.base
                 w == IF rt.base = None THEN rt.found ELSE rt.owner
      <4>1. Owns(rt) = [rt EXCEPT !.base = b, !.owner = w, !.cmd = Wanted(rt),
                                  !.anchor = TRUE, !.wrote = 0]
        BY DEF Owns
      <4>2. b \in Offsets /\ w = rt.found
        BY <1>3, <2>1, <2>7, <3>2, <3>4 DEF Runtimes
      <4>3. 0 \in 0 .. Limit * Interval
        BY CapsAreNatural
      <4> HIDE DEF b, w
      <4>4. /\ Owns(rt) \in Runtimes
            /\ Owns(rt).armed = rt.armed /\ Owns(rt).found = rt.found
            /\ Owns(rt).base = b /\ Owns(rt).owner = w
            /\ Owns(rt).cmd = Wanted(rt) /\ Owns(rt).anchor = TRUE
        BY <1>3, <2>1, <3>2, <4>1, <4>2, <4>3 DEF Runtimes
      <4> QED
        BY <3>1, <4>2, <4>4 DEF b
    <3>6. Writes
      BY <1>1, <1>4, <1>7, <2>1, <2>2, <2>7, <3>1, <3>2, <3>3, <3>5 DEF Writes
    <3> QED
      BY <1>1, <1>2, <1>4, <3>1, <3>3, <3>5, <3>6
  <2> QED
    BY <2>3, <2>4, <2>5, <2>6, <2>7
<1> QED
  BY <1>6, <1>7
-----------------------------------------------------------------------------
(* The invariant holds at first, and every step keeps it.                  *)

LEMMA FieldsTyped ==
  ASSUME TypeOK
  PROVE  /\ \A e \in Numbers : /\ num[e].st \in {"ok", "unreadable", "gone"}
                              /\ num[e].shown \in Offsets
                              /\ num[e].flight \in Offsets \cup {None}
                              /\ first[e] \in Offsets
         /\ rt.found \in Numbers \cup {None} /\ rt.armed \in BOOLEAN
         /\ rt.base \in Offsets \cup {None} /\ rt.owner \in Numbers \cup {None}
         /\ (rt.base = None) <=> (rt.owner = None)
         /\ rt.cmd \in Offsets \cup {None} /\ rt.anchor \in BOOLEAN
         /\ disk.base \in Offsets \cup {None} /\ disk.owner \in Numbers \cup {None}
         /\ (disk.base = None) <=> (disk.owner = None)
BY DEF TypeOK

LEMMA OwnershipFits ==
  ASSUME NEW r
  PROVE  Ownership(r).base = r.base /\ Ownership(r).owner = r.owner
BY DEF Ownership

LEMMA NoOwnershipFits == NoOwnership.base = None /\ NoOwnership.owner = None
BY DEF NoOwnership

\* The books of a store.
Books == [base : Offsets \cup {None}, owner : Numbers \cup {None}]

LEMMA OwnershipTyped ==
  ASSUME NEW r \in Runtimes
  PROVE  Ownership(r) \in Books
BY DEF Ownership, Runtimes, Books

LEMMA InitHolds == Init => IInv
<1> SUFFICES ASSUME Init PROVE IInv
  OBVIOUS
<1>1. rt = Instance(TRUE, First, NoOwnership)
  BY DEF Init
<1>2. rt = [armed |-> TRUE, found |-> First, base |-> None, owner |-> None,
            cmd |-> None, anchor |-> FALSE, wrote |-> None, restored |-> None]
  BY <1>1 DEF Init, Instance, NoOwnership, Numbers
<1>3. \A e \in Numbers : num[e].st = "ok" /\ num[e].shown = first[e] /\ num[e].flight = None
  BY DEF Init
<1>4. TypeOK
  <2>1. Original \in [Numbers -> Offsets] /\ First \in Numbers /\ need \in Needs
    BY CalibrationAssumption DEF Init, Numbers
  <2>2. num \in Numbers_
    BY <2>1 DEF Init, Numbers_
  <2>3. rt \in Runtimes
    BY <1>2, <2>1 DEF Runtimes
  <2>4. disk \in Books /\ disk.base = None /\ disk.owner = None
    BY DEF Init, NoOwnership, Books
  <2>5. cfg \in [option : BOOLEAN, ext : BOOLEAN, heat : BOOLEAN]
    BY DEF Init
  <2>6. rt.base = None /\ rt.owner = None
    BY <1>2
  <2>7. /\ device = First /\ seen = Original[First] /\ fresh = FALSE /\ flow = "up"
        /\ fed = FALSE /\ told = FALSE /\ first = Original /\ calm = FALSE
    BY DEF Init
  <2> QED
    BY <2>1, <2>2, <2>3, <2>4, <2>5, <2>6, <2>7 DEF TypeOK, Numbers_, Runtimes, Books
<1>5. disk = NoOwnership /\ device = First /\ flow = "up" /\ fed = FALSE /\ fresh = FALSE
  BY DEF Init
<1>6. BaselineIsOriginal
  BY <1>2, <1>5 DEF BaselineIsOriginal, NoOwnership
<1>7. OffsetsAreHeld /\ FedIsClean /\ OldNumberIsLeft
  BY <1>3, <1>5, CalibrationAssumption DEF OffsetsAreHeld, Untouched, FedIsClean, OldNumberIsLeft, Numbers
<1>8. NewNumberIsFresh
  BY <1>2, <1>3, <1>5, CalibrationAssumption DEF NewNumberIsFresh, NoOwnership, Numbers
<1>9. RestIsRestore /\ InstanceFits /\ ReportFits
  BY <1>2, <1>5 DEF RestIsRestore, InstanceFits, ReportFits, Ownership, NoOwnership
<1> QED
  BY <1>4, <1>6, <1>7, <1>8, <1>9 DEF IInv

\* Neither the numbers nor the books change.
LEMMA BooksStay ==
  ASSUME IInv, UNCHANGED <<num, device, disk, flow, fed, told, first>>,
         rt'.base = rt.base, rt'.owner = rt.owner
  PROVE  /\ BaselineIsOriginal' /\ OffsetsAreHeld' /\ OldNumberIsLeft'
         /\ FedIsClean' /\ NewNumberIsFresh' /\ RestIsRestore'
<1>1. BaselineIsOriginal'
  BY DEF IInv, BaselineIsOriginal
<1>2. OffsetsAreHeld'
  <2>1. \A e : Untouched(e)' = Untouched(e) /\ Holds(e)' = Holds(e)
    BY DEF Untouched, Holds, Loaded
  <2> QED
    BY <2>1 DEF IInv, OffsetsAreHeld
<1>3. OldNumberIsLeft'
  BY DEF IInv, OldNumberIsLeft, Readable
<1>4. FedIsClean'
  BY DEF IInv, FedIsClean, Untouched
<1>5. NewNumberIsFresh' /\ RestIsRestore'
  BY DEF IInv, NewNumberIsFresh, RestIsRestore
<1> QED
  BY <1>1, <1>2, <1>3, <1>4, <1>5

LEMMA SurroundingsKeep ==
  ASSUME IInv, Report \/ RoomChanges \/ CalmDown
  PROVE  IInv'
<1>1. UNCHANGED <<num, device, cfg, rt, disk, flow, fed, told, first>>
  BY DEF Report, RoomChanges, CalmDown, history
<1>2. need' \in Needs /\ seen' \in Offsets /\ fresh' \in BOOLEAN /\ calm' \in BOOLEAN
  BY FieldsTyped DEF IInv, TypeOK, Report, RoomChanges, CalmDown, thermostat, history
<1>3. TypeOK'
  BY <1>1, <1>2 DEF IInv, TypeOK
<1>4. InstanceFits'
  BY <1>1 DEF IInv, InstanceFits, Loaded, Ownership
<1>5. CASE RoomChanges \/ CalmDown
  <2>1. fresh' = fresh /\ seen' = seen
    BY <1>5 DEF RoomChanges, CalmDown, thermostat
  <2>2. ReportFits'
    BY <1>1, <2>1 DEF IInv, ReportFits
  <2> QED
    BY <1>1, <1>3, <1>4, <2>2, BooksStay DEF IInv
<1>6. CASE Report
  <2>1. ReportFits'
    BY <1>1, <1>6 DEF IInv, Report, ReportFits
  <2> QED
    BY <1>1, <1>3, <1>4, <2>1, BooksStay DEF IInv
<1> QED
  BY <1>5, <1>6

LEMMA ReconfigureKeeps == IInv /\ Reconfigure => IInv'
<1> SUFFICES ASSUME IInv, Reconfigure PROVE IInv'
  OBVIOUS
<1>1. /\ rt' \in Runtimes
      /\ rt'.found = rt.found /\ rt'.base = rt.base /\ rt'.owner = rt.owner
      /\ rt'.cmd = rt.cmd /\ rt'.anchor = rt.anchor
      /\ flow # "swapping"
  <2>1. rt \in Runtimes
    BY TypeSplit DEF IInv
  <2>2. PICK option \in BOOLEAN : rt' = IF flow = "up" THEN [rt EXCEPT !.armed = option] ELSE rt
    BY DEF Reconfigure
  <2> QED
    BY <2>1, <2>2 DEF Runtimes, Reconfigure
<1>2. cfg' \in [option : BOOLEAN, ext : BOOLEAN, heat : BOOLEAN]
  BY DEF Reconfigure
<1>3. UNCHANGED <<num, device, need, seen, fresh, disk, flow, fed, told, first, calm>>
  BY DEF Reconfigure, thermostat, history
<1>4. TypeOK'
  BY <1>1, <1>2, <1>3 DEF IInv, TypeOK, Runtimes
<1>5. InstanceFits'
  BY <1>1, <1>3 DEF IInv, InstanceFits, Loaded, Ownership
<1>6. ReportFits'
  BY <1>1, <1>3 DEF IInv, ReportFits
<1> QED
  BY <1>1, <1>3, <1>4, <1>5, <1>6, BooksStay DEF IInv

\* One number changes its state, or a command reaches it or gets lost.
LEMMA NumberChangesKeep ==
  ASSUME IInv, NEW e \in Numbers, Apply(e) \/ Lose(e) \/ Sleep(e) \/ Wake(e) \/ Vanish(e)
  PROVE  IInv'
<1>1. UNCHANGED <<device, need, seen, fresh, cfg, rt, disk, flow, fed, told, first, calm>>
  BY DEF Apply, Lose, Sleep, Wake, Vanish, thermostat, history
<1>2. /\ num' \in Numbers_
      /\ \A f \in Numbers : f # e => num'[f] = num[f]
      /\ \/ /\ num'[e].st = num[e].st /\ num[e].flight # None /\ num'[e].flight = None
            /\ num'[e].shown \in {num[e].shown, num[e].flight}
         \/ /\ num[e].st # "gone" /\ num'[e].st # "gone"
            /\ num'[e].shown = num[e].shown /\ num'[e].flight = num[e].flight
            /\ e = First /\ num'[e].st = "ok" => device = First
         \/ num'[e].st = "gone" /\ num'[e].shown = num[e].shown /\ num'[e].flight = None
  <2>1. num \in Numbers_
    BY TypeSplit DEF IInv
  <2>2. CASE Apply(e)
    BY <2>1, <2>2 DEF Apply, Numbers_
  <2>3. CASE Lose(e)
    BY <2>1, <2>3 DEF Lose, Numbers_
  <2>4. CASE Sleep(e)
    BY <2>1, <2>4 DEF Sleep, Numbers_
  <2>5. CASE Wake(e)
    BY <2>1, <2>5 DEF Wake, Numbers_
  <2>6. CASE Vanish(e)
    BY <2>1, <2>6 DEF Vanish, Numbers_
  <2> QED
    BY <2>2, <2>3, <2>4, <2>5, <2>6
<1>3. TypeOK'
  BY <1>1, <1>2 DEF IInv, TypeOK, Numbers_
<1>4. BaselineIsOriginal'
  BY <1>1 DEF IInv, BaselineIsOriginal
<1>5. \A f \in Numbers : num'[f].st # "gone" => num[f].st # "gone" /\ (Untouched(f) => Untouched(f)')
  BY <1>1, <1>2, FieldsTyped DEF IInv, Untouched
<1>6. OffsetsAreHeld'
  <2>1. \A f : Holds(f)' = Holds(f)
    BY <1>1 DEF Holds, Loaded
  <2> QED
    BY <1>5, <2>1 DEF IInv, OffsetsAreHeld
<1>7. FedIsClean'
  BY <1>1, <1>5 DEF IInv, FedIsClean
<1>8. OldNumberIsLeft'
  BY <1>1, <1>2, CalibrationAssumption DEF IInv, OldNumberIsLeft, Readable, Numbers
<1>9. NewNumberIsFresh' /\ RestIsRestore'
  BY <1>1, <1>2, CalibrationAssumption DEF IInv, NewNumberIsFresh, RestIsRestore, Numbers
<1>10. InstanceFits'
  BY <1>1 DEF IInv, InstanceFits, Loaded, Ownership
<1>11. ReportFits'
  BY <1>1, <1>2 DEF IInv, TypeOK, ReportFits
<1> QED
  BY <1>3, <1>4, <1>6, <1>7, <1>8, <1>9, <1>10, <1>11 DEF IInv

\* The new name starts with the offset the number shows, whoever set it; the old
\* name takes the books with it.
LEMMA RenameKeeps == IInv /\ Rename => IInv'
<1> SUFFICES ASSUME IInv, Rename PROVE IInv'
  OBVIOUS
<1>1. /\ device = First /\ device' = Second /\ flow = "down"
      /\ first' = [first EXCEPT ![Second] = num[First].shown]
      /\ UNCHANGED <<need, seen, fresh, cfg, rt, disk, flow, fed, told, calm>>
  BY DEF Rename, thermostat
<1>2. First \in Numbers /\ Second \in Numbers /\ First # Second
      /\ \A e \in Numbers : e = First \/ e = Second
  BY CalibrationAssumption DEF Numbers
<1>3. num \in Numbers_ /\ first \in [Numbers -> Offsets]
  BY TypeSplit DEF IInv, TypeOK
<1>4. /\ num' \in Numbers_
      /\ num'[First].st \in {"gone", "unreadable"} /\ num'[First].shown = num[First].shown
      /\ num[First].st # "gone" /\ num'[First].flight = None
      /\ num'[Second].st = num[Second].st /\ num'[Second].shown = num[First].shown
      /\ num'[Second].flight = num[Second].flight
  <2>1. PICK st \in {"gone", "unreadable"} :
          num' = [num EXCEPT ![First] = [num[First] EXCEPT !.st = st, !.flight = None],
                             ![Second] = [num[Second] EXCEPT !.shown = num[First].shown]]
    BY <1>2, <1>3 DEF Rename, Numbers_
  <2> DEFINE one == [num[First] EXCEPT !.st = st, !.flight = None]
             two == [num[Second] EXCEPT !.shown = num[First].shown]
  <2>2. /\ one \in [st : {"ok", "unreadable", "gone"}, shown : Offsets, flight : Offsets \cup {None}]
        /\ one.st = st /\ one.shown = num[First].shown /\ one.flight = None
    BY <1>2, <1>3 DEF Numbers_
  <2>3. /\ two \in [st : {"ok", "unreadable", "gone"}, shown : Offsets, flight : Offsets \cup {None}]
        /\ two.st = num[Second].st /\ two.shown = num[First].shown
        /\ two.flight = num[Second].flight
    BY <1>2, <1>3 DEF Numbers_
  <2>4. num[First].st # "gone"
    BY DEF Rename
  <2>5. num' = [num EXCEPT ![First] = one, ![Second] = two]
    BY <2>1
  <2> HIDE DEF one, two
  <2>6. num' \in Numbers_ /\ num'[First] = one /\ num'[Second] = two
    BY <1>2, <1>3, <2>2, <2>3, <2>5 DEF Numbers_
  <2> QED
    BY <2>2, <2>3, <2>4, <2>6
<1>5. first'[First] = first[First] /\ first'[Second] = num[First].shown /\ first' \in [Numbers -> Offsets]
  BY <1>1, <1>2, <1>3 DEF Numbers_
<1>6. TypeOK'
  BY <1>1, <1>2, <1>4, <1>5 DEF IInv, TypeOK, Numbers_
<1>7. rt.owner # Second /\ disk.owner # Second /\ num[Second].flight = None
  BY <1>1 DEF IInv, NewNumberIsFresh
<1>8. BaselineIsOriginal'
  BY <1>1, <1>2, <1>5, <1>7, FieldsTyped DEF IInv, BaselineIsOriginal
<1>9. Untouched(Second)' /\ (Untouched(First) => Untouched(First)')
  BY <1>4, <1>5, <1>7 DEF Untouched
<1>10. OffsetsAreHeld'
  <2>1. \A f : Holds(f)' = Holds(f)
    BY <1>1 DEF Holds, Loaded
  <2> QED
    BY <1>2, <1>4, <1>9, <2>1 DEF IInv, OffsetsAreHeld
<1>11. FedIsClean'
  BY <1>1, <1>2, <1>4, <1>9 DEF IInv, FedIsClean
<1>12. OldNumberIsLeft'
  BY <1>4 DEF OldNumberIsLeft, Readable
<1>13. NewNumberIsFresh' /\ RestIsRestore'
  BY <1>1, <1>2, <1>4, <1>7 DEF NewNumberIsFresh, RestIsRestore
<1>14. InstanceFits' /\ ReportFits'
  BY <1>1 DEF IInv, InstanceFits, Loaded, ReportFits
<1> QED
  BY <1>6, <1>8, <1>10, <1>11, <1>12, <1>13, <1>14 DEF IInv


\* Who holds a number in each stage of the entry's life.
LEMMA HoldersOwn ==
  ASSUME NEW e
  PROVE  /\ Loaded => (Holds(e) <=> rt.owner = e)
         /\ flow = "down" => (Holds(e) <=> disk.owner = e)
         /\ flow = "removed" => (Holds(e) <=> told)
<1>1. ASSUME Loaded PROVE Holds(e) <=> rt.owner = e
  <2>1. flow # "down" /\ flow # "removed"
    BY <1>1 DEF Loaded
  <2> QED
    BY <1>1, <2>1 DEF Holds
<1>2. ASSUME flow = "down" PROVE Holds(e) <=> disk.owner = e
  <2>1. ~Loaded /\ flow # "removed"
    BY <1>2 DEF Loaded
  <2> QED
    BY <1>2, <2>1 DEF Holds
<1>3. ASSUME flow = "removed" PROVE Holds(e) <=> told
  <2>1. ~Loaded /\ flow # "down"
    BY <1>3 DEF Loaded
  <2> QED
    BY <1>3, <2>1 DEF Holds
<1> QED
  BY <1>1, <1>2, <1>3

LEMMA TickKeeps ==
  ASSUME IInv, Prompt, NEW offline \in BOOLEAN, Tick(offline)
  PROVE  IInv'
<1>1. /\ rt' \in Runtimes /\ num' \in Numbers_ /\ fed' \in BOOLEAN /\ fresh' \in BOOLEAN
      /\ disk' = Ownership(rt')
      /\ \A e \in Numbers : num[e].flight = None
      /\ Keeps \/ Releases \/ RestoresIt \/ Resumes \/ Writes
  BY TickCases DEF IInv
<1>2. UNCHANGED <<device, need, seen, cfg, flow, told, first, calm>> /\ Loaded
  BY DEF Tick, history
<1>3. disk' \in Books /\ disk'.base = rt'.base /\ disk'.owner = rt'.owner
  BY <1>1, OwnershipFits, OwnershipTyped
<1>4. /\ rt.base # None =>
           /\ rt.owner \in Numbers /\ rt.base = first[rt.owner]
           /\ Clamp(rt.base) = first[rt.owner] /\ first[rt.owner] \in Offsets
      /\ rt.base = None => rt.owner = None
      /\ device \in Numbers
  BY ClampFits, OffsetsAreNumbers, FieldsTyped DEF IInv, TypeOK, BaselineIsOriginal
<1>5. \A e \in Numbers : num[e].st # "gone" /\ rt.owner # e => Untouched(e)
  BY <1>2, HoldersOwn DEF IInv, OffsetsAreHeld
<1>6. /\ rt.found \in {None, device} /\ ((rt.cmd # None) <=> rt.anchor)
      /\ flow # "up" => flow = "swapping" /\ rt.base = None /\ ~rt.armed /\ device = First
  BY <1>2 DEF IInv, InstanceFits, Loaded
<1>7. flow # "up" => Keeps
  BY <1>1, <1>6 DEF Releases, RestoresIt, Resumes, Writes, Live
<1>8. RestoresIt => /\ rt.owner \in Numbers
                    /\ \A e \in Numbers : /\ num'[e].st = num[e].st /\ num'[e].shown = num[e].shown
                                          /\ e # rt.owner => num'[e] = num[e]
                    /\ num'[rt.owner].flight = first[rt.owner]
                    /\ num[rt.owner].shown # first[rt.owner]
  BY <1>4, SentFits DEF IInv, RestoresIt
<1>9. ASSUME Writes
      PROVE  /\ rt.found = device
             /\ \A e \in Numbers : /\ num'[e].st = num[e].st /\ num'[e].shown = num[e].shown
                                   /\ e # device => num'[e] = num[e]
  <2>1. rt.found \in Numbers /\ num' = Sent(rt.found, Wanted(rt)) /\ Wanted(rt) \in Offsets
    BY <1>9 DEF Writes
  <2>2. rt.found = device
    BY <1>6, <2>1, OffsetsAreNumbers
  <2>3. TypeOK
    BY DEF IInv
  <2> QED
    BY <2>1, <2>2, <2>3, SentFits
<1>10. (rt'.base = None) <=> (rt'.owner = None)
  BY <1>1, <1>4, OffsetsAreNumbers, FieldsTyped DEF IInv, Keeps, SameBooks, Releases, RestoresIt, Resumes, Writes
<1>11. TypeOK'
  BY <1>1, <1>2, <1>3, <1>10 DEF IInv, TypeOK, Numbers_, Runtimes, Books
<1>12. rt'.base # None => rt'.base = first[rt'.owner]
  <2>1. CASE Keeps \/ RestoresIt \/ Resumes
    BY <1>4, <2>1 DEF Keeps, RestoresIt, Resumes, SameBooks
  <2>2. CASE Releases
    BY <2>2 DEF Releases
  <2>3. CASE Writes
    BY <1>4, <1>5, <1>9, <2>3, OffsetsAreNumbers DEF Writes, Readable, Untouched
  <2> QED
    BY <1>1, <2>1, <2>2, <2>3
<1>13. BaselineIsOriginal'
  BY <1>2, <1>3, <1>12 DEF BaselineIsOriginal
<1>14. ASSUME NEW e \in Numbers, num'[e].st # "gone", rt'.owner # e
       PROVE  Untouched(e)'
  <2>1. CASE Keeps \/ Resumes
    BY <1>2, <1>5, <1>14, <2>1 DEF Keeps, Resumes, SameBooks, Untouched
  <2>2. CASE Releases
    <3>1. CASE rt.owner # e
      BY <1>2, <1>5, <1>14, <2>2, <3>1 DEF Releases, Untouched
    <3>2. CASE rt.owner = e
      BY <1>1, <1>2, <1>4, <1>14, <2>2, <3>2 DEF Releases, Untouched
    <3> QED
      BY <3>1, <3>2
  <2>3. CASE RestoresIt
    <3>1. rt.owner # e
      BY <1>14, <2>3 DEF RestoresIt, SameBooks
    <3> QED
      BY <1>2, <1>5, <1>8, <1>14, <2>3, <3>1 DEF Untouched
  <2>4. CASE Writes
    <3>1. rt.owner # e /\ e # device
      BY <1>9, <1>14, <2>4, OffsetsAreNumbers DEF Writes
    <3> QED
      BY <1>2, <1>5, <1>9, <1>14, <2>4, <3>1 DEF Untouched
  <2> QED
    BY <1>1, <2>1, <2>2, <2>3, <2>4
<1>15. OffsetsAreHeld'
  <2>1. \A e \in Numbers : Holds(e)' <=> rt'.owner = e
    BY <1>2 DEF Holds, Loaded
  <2> QED
    BY <1>14, <2>1 DEF OffsetsAreHeld
<1>16. OldNumberIsLeft'
  <2> SUFFICES ASSUME device = Second, num'[First].st = "ok"
               PROVE  num'[First].shown = first[First] /\ num'[First].flight = None
    BY <1>2 DEF OldNumberIsLeft, Readable
  <2>1. First \in Numbers /\ First # Second
    BY CalibrationAssumption DEF Numbers
  <2>2. num[First].st = "ok" => num[First].shown = first[First]
    BY DEF IInv, OldNumberIsLeft, Readable
  <2>3. num'[First] = num[First]
    BY <1>1, <1>8, <1>9, <2>1, <2>2 DEF Keeps, Releases, Resumes
  <2> QED
    BY <1>1, <2>1, <2>2, <2>3
<1>17. FedIsClean'
  <2> SUFFICES ASSUME fed', NEW e \in Numbers, num'[e].st # "gone"
               PROVE  Untouched(e)'
    BY DEF FedIsClean
  <2>1. Keeps \/ Releases
    BY <1>1 DEF RestoresIt, Resumes, Writes
  <2>2. rt'.owner # e
    BY <1>4, <2>1, OffsetsAreNumbers DEF Keeps, SameBooks, Releases
  <2> QED
    BY <1>14, <2>2
<1>18. NewNumberIsFresh'
  <2> SUFFICES ASSUME device = First
               PROVE  rt'.owner # Second /\ num'[Second].flight = None
    BY <1>2, <1>3 DEF NewNumberIsFresh
  <2>1. Second \in Numbers /\ First # Second /\ None # Second
    BY CalibrationAssumption DEF Numbers
  <2>2. rt.owner # Second
    BY DEF IInv, NewNumberIsFresh
  <2>3. rt'.owner # Second /\ num'[Second] = num[Second]
    BY <1>1, <1>8, <1>9, <2>1, <2>2 DEF Keeps, SameBooks, Releases, RestoresIt, Resumes, Writes
  <2> QED
    BY <1>1, <2>1, <2>3
<1>19. RestIsRestore'
  BY <1>1, <1>2, <1>7 DEF RestIsRestore, Keeps
<1>20. InstanceFits'
  <2>1. rt'.found = rt.found /\ rt'.armed = rt.armed
    BY <1>1 DEF Keeps, SameBooks, Releases, RestoresIt, Resumes, Writes
  <2>2. (rt'.cmd # None) <=> rt'.anchor
    BY <1>1, <1>6, OffsetsAreNumbers DEF Keeps, SameBooks, Releases, RestoresIt, Resumes, Writes
  <2>3. flow # "up" => rt'.base = None
    BY <1>6, <1>7 DEF Keeps, SameBooks
  <2> QED
    BY <1>1, <1>2, <1>6, <2>1, <2>2, <2>3 DEF InstanceFits, Loaded, Ownership
<1>21. ReportFits'
  <2> SUFFICES ASSUME rt'.base \notin {None, rt'.cmd}, rt'.owner = device, fresh'
               PROVE  /\ num'[device].flight = None
                      /\ rt'.cmd # None => seen = num'[device].shown \/ num'[device].shown # rt'.cmd
    BY <1>2 DEF ReportFits
  <2>1. Keeps
    BY <1>1, <1>6 DEF Releases, RestoresIt, Resumes, Writes
  <2> QED
    BY <1>1, <1>4, <2>1 DEF Keeps, SameBooks, IInv, ReportFits
<1> QED
  BY <1>11, <1>13, <1>15, <1>16, <1>17, <1>18, <1>19, <1>20, <1>21 DEF IInv

-----------------------------------------------------------------------------
(* The life of the entry.                                                  *)

\* The restore outside the tick: it gives back, or it leaves the number as it
\* is, and what it calls a success is one.
LEMMA RestoreKeeps ==
  ASSUME IInv, Prompt, Settled, NEW o,
         \/ o.base = rt.base /\ o.owner = rt.owner
         \/ o.base = disk.base /\ o.owner = disk.owner,
         NEW x \in Restores(o), num' = x.num, first' = first
  PROVE  /\ num' \in Numbers_ /\ x.ok \in BOOLEAN
         /\ \A e \in Numbers :
              /\ num[e].flight = None
              /\ num'[e].st = num[e].st
              /\ num'[e].flight \in {None, first[e]}
              /\ num'[e].shown \in {num[e].shown, first[e]}
              /\ num'[e] # num[e] =>
                   e = o.owner /\ Readable(e) /\ num[e].shown # first[e]
              /\ Untouched(e) => Untouched(e)'
              /\ ~Untouched(e) /\ x.ok /\ e = o.owner /\ num[e].st # "gone" => Untouched(e)'
              /\ e # o.owner => num'[e] = num[e] /\ (Untouched(e)' => Untouched(e))
              /\ x.ok => num'[e].flight = None
<1>1. /\ TypeOK
      /\ o.base \in Offsets \cup {None} /\ o.owner \in Numbers \cup {None}
      /\ (o.base = None) <=> (o.owner = None)
      /\ o.base # None => o.base = first[o.owner]
  BY FieldsTyped DEF IInv, BaselineIsOriginal
<1>2. \A e \in Numbers : num[e].flight = None
  BY DEF Prompt, Settled
<1>3. /\ num' \in Numbers_ /\ x.ok \in BOOLEAN
      /\ \A e \in Numbers :
           /\ num'[e].st = num[e].st
           /\ num'[e].flight \in {None, first[e]}
           /\ num'[e].shown \in {num[e].shown, first[e]}
           /\ num'[e] # num[e] =>
                e = o.owner /\ Readable(e) /\ num[e].shown # first[e]
           /\ x.ok => /\ num'[e].flight = None
                      /\ e = o.owner /\ num[e].st # "gone" => num'[e].shown = first[e]
  BY <1>1, <1>2, RestoresFit
<1> QED
  BY <1>2, <1>3 DEF Untouched

\* After a restore that succeeded nothing but the user's offset is left.
LEMMA SuccessLeavesNothing ==
  ASSUME IInv, Prompt, Settled, NEW o,
         \/ Loaded /\ o.base = rt.base /\ o.owner = rt.owner
         \/ flow = "down" /\ o.base = disk.base /\ o.owner = disk.owner,
         NEW x \in Restores(o), x.ok, num' = x.num, first' = first
  PROVE  \A e \in Numbers :
           /\ num'[e].flight = None
           /\ num'[e].st # "gone" => Untouched(e)' /\ num'[e].shown = first[e]
<1>1. \A e \in Numbers :
        /\ num'[e].st = num[e].st /\ num'[e].flight = None
        /\ Untouched(e) => Untouched(e)'
        /\ ~Untouched(e) /\ e = o.owner /\ num[e].st # "gone" => Untouched(e)'
  BY RestoreKeeps
<1>2. \A e \in Numbers : num[e].st # "gone" /\ ~Untouched(e) => e = o.owner
  BY HoldersOwn DEF IInv, OffsetsAreHeld
<1> QED
  BY <1>1, <1>2 DEF Untouched

\* Typing after a step of the entry's life.
LEMMA LifeTyped ==
  ASSUME TypeOK, num' \in Numbers_, rt' \in Runtimes, (rt'.base = None) <=> (rt'.owner = None),
         disk' \in Books, (disk'.base = None) <=> (disk'.owner = None),
         device' \in Numbers, seen' \in Offsets, fresh' \in BOOLEAN, need' = need, cfg' = cfg,
         flow' \in {"up", "swapping", "down", "removed"},
         fed' \in BOOLEAN, told' \in BOOLEAN, UNCHANGED <<first, calm>>
  PROVE  TypeOK'
BY DEF TypeOK, Numbers_, Runtimes, Books

LEMMA BooksTyped ==
  ASSUME TypeOK
  PROVE  /\ rt \in Runtimes /\ disk \in Books /\ NoOwnership \in Books /\ Ownership(rt) \in Books
         /\ Ownership(disk) = disk
<1>1. rt \in Runtimes /\ disk \in Books
  BY TypeSplit DEF TypeOK, Books
<1>2. NoOwnership \in Books
  BY DEF NoOwnership, Books
<1>3. Ownership(disk) = disk
  BY <1>1 DEF Ownership, Books
<1> QED
  BY <1>1, <1>2, <1>3, OwnershipTyped

\* An instance has the ownership of the store it was set up from.
LEMMA InstanceOwns ==
  ASSUME NEW option, NEW d, NEW stored
  PROVE  Ownership(Instance(option, d, stored)) = Ownership(stored)
BY DEF Instance, Ownership

LEMMA DownFits ==
  ASSUME TypeOK
  PROVE  /\ Down(rt) \in Runtimes /\ Down(rt).base = None /\ Down(rt).owner = None
         /\ Down(rt).cmd = None /\ Down(rt).anchor = FALSE
BY DEF Down, Instance, NoOwnership, Runtimes, TypeOK

LEMMA PrepareSwapKeeps ==
  ASSUME IInv, Prompt, PrepareSwap
  PROVE  IInv'
<1>1. /\ flow = "up" /\ device = First /\ Settled /\ Loaded
      /\ UNCHANGED <<device, need, seen, fresh, cfg, disk, fed, told, first, calm>>
  BY DEF PrepareSwap, Loaded, thermostat, history
<1>2. PICK x \in Restores(rt) :
        /\ num' = x.num
        /\ IF x.ok THEN rt' = Disarmed(rt) /\ flow' = "swapping" ELSE UNCHANGED <<rt, flow>>
  BY DEF PrepareSwap
<1>3. /\ num' \in Numbers_ /\ x.ok \in BOOLEAN
      /\ \A e \in Numbers :
           /\ num[e].flight = None
           /\ num'[e].st = num[e].st
           /\ num'[e].flight \in {None, first[e]}
           /\ num'[e].shown \in {num[e].shown, first[e]}
           /\ num'[e] # num[e] =>
                e = rt.owner /\ Readable(e) /\ num[e].shown # first[e]
           /\ Untouched(e) => Untouched(e)'
           /\ e # rt.owner => num'[e] = num[e] /\ (Untouched(e)' => Untouched(e))
  BY <1>1, <1>2, RestoreKeeps
<1>4. /\ TypeOK /\ rt \in Runtimes /\ disk \in Books
      /\ (disk.base = None) <=> (disk.owner = None)
      /\ First # Second /\ First \in Numbers /\ Second \in Numbers /\ None # Second
  BY BooksTyped, FieldsTyped, CalibrationAssumption DEF IInv, Numbers
<1>5. rt.owner # Second /\ disk.owner # Second
  BY <1>1 DEF IInv, NewNumberIsFresh
<1>6. FedIsClean' /\ OldNumberIsLeft' /\ RestIsRestore'
  BY <1>1, <1>3, <1>4 DEF IInv, FedIsClean, OldNumberIsLeft, RestIsRestore
<1>7. CASE x.ok
  <2>1. rt' = Disarmed(rt) /\ flow' = "swapping"
    BY <1>2, <1>7
  <2>2. /\ rt' \in Runtimes /\ rt'.base = None /\ rt'.owner = None /\ rt'.cmd = None
        /\ rt'.anchor = FALSE /\ rt'.armed = FALSE /\ rt'.found = rt.found
    BY <1>4, <2>1, ClearedFits DEF Disarmed, Runtimes
  <2>3. TypeOK'
    BY <1>1, <1>3, <1>4, <2>1, <2>2, LifeTyped DEF TypeOK
  <2>4. BaselineIsOriginal'
    BY <1>1, <2>2 DEF IInv, BaselineIsOriginal
  <2>5. OffsetsAreHeld'
    BY <1>1, <1>2, <1>7, SuccessLeavesNothing DEF OffsetsAreHeld
  <2>6. NewNumberIsFresh'
    BY <1>1, <1>3, <1>4, <1>5, <2>2 DEF NewNumberIsFresh
  <2>7. InstanceFits'
    BY <1>1, <2>1, <2>2 DEF IInv, InstanceFits, Loaded
  <2>8. ReportFits'
    BY <2>2 DEF ReportFits
  <2> QED
    BY <1>6, <2>3, <2>4, <2>5, <2>6, <2>7, <2>8 DEF IInv
<1>8. CASE ~x.ok
  <2>1. rt' = rt /\ flow' = flow
    BY <1>2, <1>8
  <2>2. TypeOK'
    BY <1>1, <1>3, <2>1 DEF IInv, TypeOK, Numbers_
  <2>3. BaselineIsOriginal' /\ InstanceFits'
    BY <1>1, <2>1 DEF IInv, BaselineIsOriginal, InstanceFits, Loaded, Ownership
  <2>4. OffsetsAreHeld'
    <3>1. \A e : Holds(e)' = Holds(e)
      BY <1>1, <2>1 DEF Holds, Loaded
    <3>2. \A e : Holds(e) <=> rt.owner = e
      BY <1>1, HoldersOwn
    <3> QED
      BY <1>3, <3>1, <3>2 DEF IInv, OffsetsAreHeld
  <2>5. NewNumberIsFresh'
    BY <1>1, <1>3, <1>4, <1>5, <2>1 DEF NewNumberIsFresh
  <2>6. ReportFits'
    BY <1>1, <1>3, <2>1 DEF IInv, BaselineIsOriginal, TypeOK, ReportFits
  <2> QED
    BY <1>6, <2>2, <2>3, <2>4, <2>5, <2>6 DEF IInv
<1> QED
  BY <1>3, <1>7, <1>8

LEMMA ReloadSwappedKeeps ==
  ASSUME IInv, Prompt, ReloadSwapped
  PROVE  IInv'
<1>1. /\ flow = "swapping" /\ Settled /\ Loaded
      /\ device' = Second /\ seen' = num[Second].shown /\ fresh' = FALSE
      /\ fed' = FALSE /\ flow' = "up" /\ disk' = Ownership(rt)
      /\ rt' = Instance(cfg.option, Second, Ownership(rt))
      /\ UNCHANGED <<num, need, cfg, told, first, calm>>
  BY DEF ReloadSwapped, Swapped, Loaded, history
<1>2. /\ TypeOK /\ First # Second /\ First \in Numbers /\ Second \in Numbers
      /\ Ownership(rt) \in Books /\ cfg.option \in BOOLEAN
  BY BooksTyped, CalibrationAssumption DEF IInv, TypeOK, Numbers
<1>3. /\ rt.base = None /\ rt.owner = None
      /\ Ownership(rt).base = None /\ Ownership(rt).owner = None
  BY <1>1, OwnershipFits, FieldsTyped DEF IInv, InstanceFits
<1>4. /\ rt' \in Runtimes /\ rt'.base = None /\ rt'.owner = None /\ rt'.cmd = None
      /\ rt'.anchor = FALSE /\ rt'.found \in {None, Second}
  <2>1. Ownership(rt).base \in Offsets \cup {None} /\ Ownership(rt).owner \in Numbers \cup {None}
    BY <1>3
  <2> DEFINE new == Instance(cfg.option, Second, Ownership(rt))
  <2>2. /\ new \in Runtimes /\ new.base = Ownership(rt).base /\ new.owner = Ownership(rt).owner
        /\ new.cmd = None /\ new.anchor = FALSE /\ new.found \in {None, Second}
    <3>1. new \in Runtimes
      BY <1>2, <2>1, InstanceTyped
    <3> QED
      BY <3>1 DEF Instance
  <2>3. rt' = new
    BY <1>1
  <2> HIDE DEF new
  <2> QED
    BY <1>3, <2>2, <2>3
<1>5. \A e \in Numbers : num[e].flight = None /\ (num[e].st # "gone" => Untouched(e))
  <2>1. None \notin Numbers
    BY OffsetsAreNumbers
  <2> QED
    BY <1>1, <1>3, <2>1, HoldersOwn DEF IInv, OffsetsAreHeld, Prompt, Settled
<1>6. TypeOK'
  BY <1>1, <1>2, <1>3, <1>4, TypeSplit, FieldsTyped, LifeTyped DEF TypeOK
<1>7. BaselineIsOriginal' /\ NewNumberIsFresh' /\ ReportFits' /\ RestIsRestore' /\ FedIsClean'
  BY <1>1, <1>2, <1>3, <1>4
     DEF BaselineIsOriginal, NewNumberIsFresh, ReportFits, RestIsRestore, FedIsClean
<1>8. OffsetsAreHeld' /\ OldNumberIsLeft'
  BY <1>1, <1>2, <1>5 DEF OffsetsAreHeld, OldNumberIsLeft, Untouched, Readable
<1>9. InstanceFits'
  <2>1. Ownership(rt') = Ownership(Ownership(rt))
    BY <1>1, InstanceOwns
  <2>2. Ownership(Ownership(rt)) = Ownership(rt)
    BY DEF Ownership
  <2> QED
    BY <1>1, <1>4, <2>1, <2>2 DEF InstanceFits, Loaded, Ownership
<1> QED
  BY <1>6, <1>7, <1>8, <1>9 DEF IInv

LEMMA SwapUnloadedKeeps ==
  ASSUME IInv, Prompt, SwapUnloaded
  PROVE  IInv'
<1>1. /\ flow = "down" /\ device = First /\ Settled
      /\ UNCHANGED <<need, cfg, told, first, calm>>
  BY DEF SwapUnloaded, history
<1>2. PICK x \in Restores(disk) :
        /\ num' = x.num
        /\ IF x.ok
           THEN Swapped /\ disk' = NoOwnership /\ rt' = Instance(cfg.option, Second, NoOwnership)
           ELSE UNCHANGED <<device, seen, fresh, fed, flow, disk, rt>>
  BY DEF SwapUnloaded
<1>3. /\ num' \in Numbers_ /\ x.ok \in BOOLEAN
      /\ \A e \in Numbers :
           /\ num'[e].st = num[e].st
           /\ num'[e].flight \in {None, first[e]}
           /\ num'[e].shown \in {num[e].shown, first[e]}
           /\ num'[e] # num[e] => e = disk.owner
           /\ num[e].flight = None
           /\ Untouched(e) => Untouched(e)'
           /\ e # disk.owner => num'[e] = num[e] /\ (Untouched(e)' => Untouched(e))
  BY <1>1, <1>2, RestoreKeeps
<1>4. /\ TypeOK /\ rt \in Runtimes /\ disk \in Books /\ NoOwnership \in Books
      /\ NoOwnership.base = None /\ NoOwnership.owner = None
      /\ First # Second /\ First \in Numbers /\ Second \in Numbers /\ None # Second
      /\ cfg.option \in BOOLEAN
  BY BooksTyped, NoOwnershipFits, CalibrationAssumption DEF IInv, TypeOK, Numbers
<1>5. CASE x.ok
  <2>1. /\ device' = Second /\ seen' = num[Second].shown /\ fresh' = FALSE /\ fed' = FALSE
        /\ flow' = "up" /\ disk' = NoOwnership
        /\ rt' = Instance(cfg.option, Second, NoOwnership)
    BY <1>2, <1>5 DEF Swapped
  <2>2. /\ rt' \in Runtimes /\ rt'.base = None /\ rt'.owner = None /\ rt'.cmd = None
        /\ rt'.anchor = FALSE /\ rt'.found \in {None, Second}
    <3>1. rt' \in Runtimes
      BY <1>4, <2>1, InstanceTyped
    <3> QED
      BY <1>4, <2>1, <3>1 DEF Instance
  <2>3. \A e \in Numbers : /\ num'[e].flight = None
                           /\ num'[e].st # "gone" => Untouched(e)' /\ num'[e].shown = first[e]
    BY <1>1, <1>2, <1>5, SuccessLeavesNothing
  <2>4. TypeOK'
    BY <1>1, <1>3, <1>4, <2>1, <2>2, FieldsTyped, LifeTyped DEF TypeOK
  <2>5. BaselineIsOriginal' /\ NewNumberIsFresh' /\ ReportFits' /\ RestIsRestore' /\ FedIsClean'
    BY <1>1, <1>4, <2>1, <2>2
       DEF BaselineIsOriginal, NewNumberIsFresh, ReportFits, RestIsRestore, FedIsClean
  <2>6. OffsetsAreHeld' /\ OldNumberIsLeft'
    BY <1>1, <1>4, <2>1, <2>3 DEF OffsetsAreHeld, OldNumberIsLeft, Readable
  <2>7. InstanceFits'
    BY <2>1, <2>2, <1>4 DEF InstanceFits, Loaded, Ownership, NoOwnership
  <2> QED
    BY <2>4, <2>5, <2>6, <2>7 DEF IInv
<1>6. CASE ~x.ok
  <2>1. UNCHANGED <<device, seen, fresh, fed, flow, disk, rt>>
    BY <1>2, <1>6
  <2>2. TypeOK'
    BY <1>1, <1>3, <2>1 DEF IInv, TypeOK, Numbers_
  <2>3. BaselineIsOriginal' /\ InstanceFits'
    BY <1>1, <2>1 DEF IInv, BaselineIsOriginal, InstanceFits, Loaded, Ownership
  <2>4. OffsetsAreHeld'
    <3>1. \A e : Holds(e)' = Holds(e)
      BY <1>1, <2>1 DEF Holds, Loaded
    <3>2. \A e : Holds(e) <=> disk.owner = e
      BY <1>1, HoldersOwn
    <3> QED
      BY <1>3, <3>1, <3>2 DEF IInv, OffsetsAreHeld
  <2>5. FedIsClean' /\ OldNumberIsLeft' /\ RestIsRestore'
    BY <1>1, <1>3, <1>4, <2>1 DEF IInv, FedIsClean, OldNumberIsLeft, RestIsRestore
  <2>6. NewNumberIsFresh'
    BY <1>1, <1>3, <1>4, <2>1 DEF IInv, NewNumberIsFresh
  <2>7. ReportFits'
    BY <1>1, <2>1 DEF IInv, InstanceFits, ReportFits
  <2> QED
    BY <2>2, <2>3, <2>4, <2>5, <2>6, <2>7 DEF IInv
<1> QED
  BY <1>3, <1>5, <1>6

LEMMA StopKeeps ==
  ASSUME IInv, Prompt, Stop
  PROVE  IInv'
<1>1. /\ Loaded /\ Settled /\ flow' = "down" /\ rt' = Down(rt)
      /\ disk' \in {Ownership(rt), disk}
      /\ UNCHANGED <<num, device, need, seen, fresh, cfg, fed, told, first, calm>>
  BY DEF Stop, thermostat, history
<1>2. /\ TypeOK /\ Ownership(rt) \in Books /\ disk \in Books
      /\ Ownership(rt).base = rt.base /\ Ownership(rt).owner = rt.owner
      /\ (rt.base = None) <=> (rt.owner = None)
      /\ (disk.base = None) <=> (disk.owner = None)
  BY BooksTyped, OwnershipFits, FieldsTyped DEF IInv
<1>3. /\ rt' \in Runtimes /\ rt'.base = None /\ rt'.owner = None /\ rt'.cmd = None
      /\ rt'.anchor = FALSE
  BY <1>1, <1>2, DownFits
<1>4. /\ disk' \in Books /\ ((disk'.base = None) <=> (disk'.owner = None))
      /\ disk'.base # None => disk'.base = first[disk'.owner]
      /\ device = First => disk'.owner # Second
  BY <1>1, <1>2 DEF IInv, BaselineIsOriginal, NewNumberIsFresh
<1>5. \A e \in Numbers : num[e].st # "gone" /\ ~Untouched(e) => disk'.owner = e
  <2>1. CASE flow = "up"
    BY <1>1, <1>2, <2>1, HoldersOwn DEF IInv, OffsetsAreHeld, InstanceFits
  <2>2. CASE flow = "swapping"
    BY <1>1, <1>2, <2>2, HoldersOwn, OffsetsAreNumbers DEF IInv, OffsetsAreHeld, InstanceFits
  <2> QED
    BY <1>1, <2>1, <2>2 DEF Loaded
<1>6. TypeOK'
  BY <1>1, <1>2, <1>3, <1>4, TypeSplit, LifeTyped DEF TypeOK
<1>7. BaselineIsOriginal' /\ NewNumberIsFresh'
  BY <1>1, <1>3, <1>4, CalibrationAssumption DEF IInv, BaselineIsOriginal, NewNumberIsFresh, Numbers
<1>8. OffsetsAreHeld'
  <2>1. \A e : Untouched(e)' = Untouched(e)
    BY <1>1 DEF Untouched
  <2>2. \A e : Holds(e)' <=> disk'.owner = e
    BY <1>1 DEF Holds, Loaded
  <2> QED
    BY <1>1, <1>5, <2>1, <2>2 DEF OffsetsAreHeld
<1>9. OldNumberIsLeft' /\ FedIsClean' /\ RestIsRestore'
  BY <1>1 DEF IInv, OldNumberIsLeft, FedIsClean, RestIsRestore, Untouched, Readable, Prompt, Settled
<1>10. InstanceFits' /\ ReportFits'
  BY <1>1, <1>3 DEF InstanceFits, ReportFits, Loaded
<1> QED
  BY <1>6, <1>7, <1>8, <1>9, <1>10 DEF IInv

LEMMA StartKeeps ==
  ASSUME IInv, Start
  PROVE  IInv'
<1>1. /\ flow = "down" /\ flow' = "up" /\ rt' = Instance(cfg.option, device, disk)
      /\ UNCHANGED <<num, device, need, seen, fresh, cfg, disk, fed, told, first, calm>>
  BY DEF Start, thermostat, history
<1>2. /\ TypeOK /\ disk \in Books /\ Ownership(disk) = disk
      /\ disk.base \in Offsets \cup {None} /\ disk.owner \in Numbers \cup {None}
      /\ (disk.base = None) <=> (disk.owner = None)
      /\ cfg.option \in BOOLEAN /\ device \in Numbers
  BY BooksTyped, FieldsTyped DEF IInv, TypeOK
<1>3. /\ rt' \in Runtimes /\ rt'.base = disk.base /\ rt'.owner = disk.owner
      /\ rt'.cmd = None /\ rt'.anchor = FALSE /\ rt'.found \in {None, device}
  <2>1. rt' \in Runtimes
    BY <1>1, <1>2, InstanceTyped
  <2> QED
    BY <1>1, <2>1 DEF Instance
<1>4. TypeOK'
  BY <1>1, <1>2, <1>3, TypeSplit, LifeTyped DEF TypeOK
<1>5. BaselineIsOriginal' /\ NewNumberIsFresh'
  BY <1>1, <1>3 DEF IInv, BaselineIsOriginal, NewNumberIsFresh
<1>6. OffsetsAreHeld'
  <2>1. \A e : Untouched(e)' = Untouched(e)
    BY <1>1 DEF Untouched
  <2>2. \A e : Holds(e)' <=> rt'.owner = e
    BY <1>1 DEF Holds, Loaded
  <2> QED
    BY <1>1, <1>3, <2>1, <2>2, HoldersOwn DEF IInv, OffsetsAreHeld
<1>7. OldNumberIsLeft' /\ FedIsClean' /\ RestIsRestore'
  BY <1>1 DEF IInv, OldNumberIsLeft, FedIsClean, RestIsRestore, Untouched, Readable
<1>8. InstanceFits'
  BY <1>1, <1>2, <1>3 DEF InstanceFits, Loaded, Ownership
<1>9. ReportFits'
  BY <1>1, <1>2, <1>3 DEF IInv, BaselineIsOriginal, RestIsRestore, ReportFits
<1> QED
  BY <1>4, <1>5, <1>6, <1>7, <1>8, <1>9 DEF IInv

LEMMA DisableKeeps ==
  ASSUME IInv, Prompt, Disable
  PROVE  IInv'
<1>1. PICK x \in Restores(rt) :
        num' = x.num /\ disk' = StoreKeeps(Ownership(rt), x) /\ told' = ~x.ok
  BY DEF Disable
<1>2. /\ Loaded /\ Settled /\ flow' = "down" /\ rt' = Down(rt)
      /\ UNCHANGED <<device, need, seen, fresh, cfg, fed, first, calm>>
  BY DEF Disable, thermostat, history
<1>3. /\ num' \in Numbers_ /\ x.ok \in BOOLEAN
      /\ \A e \in Numbers :
           /\ num'[e].st = num[e].st
           /\ num'[e].flight \in {None, first[e]}
           /\ num'[e].shown \in {num[e].shown, first[e]}
           /\ num'[e] # num[e] => e = rt.owner /\ Readable(e) /\ num[e].shown # first[e]
           /\ num[e].flight = None
           /\ Untouched(e) => Untouched(e)'
           /\ e # rt.owner => num'[e] = num[e] /\ (Untouched(e)' => Untouched(e))
  BY <1>1, <1>2, RestoreKeeps
<1>4. /\ TypeOK /\ NoOwnership \in Books /\ Ownership(rt) \in Books
      /\ NoOwnership.base = None /\ NoOwnership.owner = None
      /\ Ownership(rt).base = rt.base /\ Ownership(rt).owner = rt.owner
      /\ (rt.base = None) <=> (rt.owner = None)
      /\ First # Second /\ First \in Numbers /\ Second \in Numbers /\ None # Second
  BY BooksTyped, NoOwnershipFits, OwnershipFits, FieldsTyped, CalibrationAssumption DEF IInv, Numbers
<1>5. /\ rt' \in Runtimes /\ rt'.base = None /\ rt'.owner = None /\ rt'.cmd = None
      /\ rt'.anchor = FALSE
  BY <1>2, <1>4, DownFits
<1>6. /\ disk' = (IF x.ok THEN NoOwnership ELSE Ownership(rt)) /\ disk' \in Books
      /\ (disk'.base = None) <=> (disk'.owner = None)
      /\ disk'.base # None => disk'.base = first[disk'.owner]
      /\ device = First => disk'.owner # Second
  BY <1>1, <1>4 DEF StoreKeeps, IInv, BaselineIsOriginal, NewNumberIsFresh
<1>7. \A e \in Numbers : num'[e].st # "gone" /\ ~Untouched(e)' => disk'.owner = e
  <2>1. CASE x.ok
    BY <1>1, <1>2, <2>1, SuccessLeavesNothing
  <2>2. CASE ~x.ok
    BY <1>2, <1>3, <1>4, <1>6, <2>2, HoldersOwn DEF IInv, OffsetsAreHeld
  <2> QED
    BY <1>3, <2>1, <2>2
<1>8. TypeOK'
  BY <1>1, <1>2, <1>3, <1>4, <1>5, <1>6, LifeTyped DEF TypeOK
<1>9. BaselineIsOriginal'
  BY <1>2, <1>5, <1>6 DEF BaselineIsOriginal
<1>10. OffsetsAreHeld'
  <2>1. \A e : Holds(e)' <=> disk'.owner = e
    BY <1>2 DEF Holds, Loaded
  <2> QED
    BY <1>7, <2>1 DEF OffsetsAreHeld
<1>11. OldNumberIsLeft' /\ FedIsClean' /\ RestIsRestore'
  BY <1>2, <1>3, <1>4 DEF IInv, OldNumberIsLeft, FedIsClean, RestIsRestore, Readable
<1>12. NewNumberIsFresh'
  BY <1>2, <1>3, <1>4, <1>5, <1>6 DEF IInv, NewNumberIsFresh
<1>13. InstanceFits' /\ ReportFits'
  BY <1>2, <1>5 DEF InstanceFits, ReportFits, Loaded
<1> QED
  BY <1>8, <1>9, <1>10, <1>11, <1>12, <1>13 DEF IInv

LEMMA RemoveKeeps ==
  ASSUME IInv, Prompt, Remove
  PROVE  IInv'
<1>1. PICK x \in Restores(disk) : num' = x.num /\ told' = ~x.ok
  BY DEF Remove
<1>2. /\ flow = "down" /\ Settled /\ flow' = "removed" /\ disk' = NoOwnership
      /\ UNCHANGED <<device, need, seen, fresh, cfg, rt, fed, first, calm>>
  BY DEF Remove, thermostat, history
<1>3. /\ num' \in Numbers_ /\ x.ok \in BOOLEAN
      /\ \A e \in Numbers :
           /\ num'[e].st = num[e].st
           /\ num'[e].flight \in {None, first[e]}
           /\ num'[e].shown \in {num[e].shown, first[e]}
           /\ num'[e] # num[e] => e = disk.owner /\ Readable(e) /\ num[e].shown # first[e]
           /\ num[e].flight = None
           /\ Untouched(e) => Untouched(e)'
  BY <1>1, <1>2, RestoreKeeps
<1>4. /\ TypeOK /\ NoOwnership \in Books /\ rt \in Runtimes
      /\ NoOwnership.base = None /\ NoOwnership.owner = None
      /\ First # Second /\ First \in Numbers /\ Second \in Numbers /\ None # Second
  BY BooksTyped, NoOwnershipFits, CalibrationAssumption DEF IInv, Numbers
<1>5. TypeOK'
  BY <1>1, <1>2, <1>3, <1>4, FieldsTyped, LifeTyped DEF TypeOK
<1>6. BaselineIsOriginal'
  BY <1>2, <1>4 DEF IInv, BaselineIsOriginal
<1>7. OffsetsAreHeld'
  <2>1. CASE x.ok
    BY <1>1, <1>2, <2>1, SuccessLeavesNothing DEF OffsetsAreHeld
  <2>2. CASE ~x.ok
    <3>1. \A e : Holds(e)' <=> told'
      BY <1>2 DEF Holds, Loaded
    <3> QED
      BY <1>1, <2>2, <3>1 DEF OffsetsAreHeld
  <2> QED
    BY <1>3, <2>1, <2>2
<1>8. OldNumberIsLeft' /\ FedIsClean' /\ RestIsRestore'
  BY <1>2, <1>3, <1>4 DEF IInv, OldNumberIsLeft, FedIsClean, RestIsRestore, Readable
<1>9. NewNumberIsFresh'
  BY <1>2, <1>3, <1>4 DEF IInv, NewNumberIsFresh
<1>10. InstanceFits' /\ ReportFits'
  BY <1>2 DEF IInv, InstanceFits, ReportFits, Loaded
<1> QED
  BY <1>5, <1>6, <1>7, <1>8, <1>9, <1>10 DEF IInv
-----------------------------------------------------------------------------
LEMMA Inductive == IInv /\ Prompt /\ [Next]_vars => IInv'
<1> SUFFICES ASSUME IInv, Prompt, [Next]_vars
             PROVE  IInv'
  OBVIOUS
<1>1. CASE \E offline \in BOOLEAN : Tick(offline)
  BY <1>1, TickKeeps
<1>2. CASE PrepareSwap \/ SwapUnloaded \/ ReloadSwapped
  BY <1>2, PrepareSwapKeeps, SwapUnloadedKeeps, ReloadSwappedKeeps
<1>3. CASE Stop \/ Start \/ Disable \/ Remove
  BY <1>3, StopKeeps, StartKeeps, DisableKeeps, RemoveKeeps
<1>4. CASE \E e \in Numbers : Apply(e) \/ Lose(e) \/ Sleep(e) \/ Wake(e) \/ Vanish(e)
  BY <1>4, NumberChangesKeep
<1>5. CASE Report \/ RoomChanges \/ CalmDown
  BY <1>5, SurroundingsKeep
<1>6. CASE Reconfigure \/ Rename
  BY <1>6, ReconfigureKeeps, RenameKeeps
<1>7. CASE UNCHANGED vars
  <2>1. UNCHANGED <<num, device, need, seen, fresh, cfg, rt, disk, flow, fed, told, first, calm>>
    BY <1>7 DEF vars
  <2>2. TypeOK' /\ InstanceFits' /\ ReportFits'
    BY <2>1 DEF IInv, TypeOK, InstanceFits, ReportFits, Loaded, Ownership
  <2> QED
    BY <2>1, <2>2, BooksStay DEF IInv
<1> QED
  BY <1>1, <1>2, <1>3, <1>4, <1>5, <1>6, <1>7 DEF Next, Lifecycle

\* The books, the numbers and the entry's life always fit together: what any of
\* the theorems below rests on (phase_actuate.py, zone_runtime.py, lifecycle.py).
THEOREM BooksAlwaysFit == ASSUME Prompt PROVE Spec => []IInv
<1>1. IInv /\ [Next]_vars => IInv'
  BY Inductive
<1> QED
  BY <1>1, InitHolds, PTL DEF Spec

\* Whatever offset the user had set is known or back in its number, for every
\* grid, every original offset, every need and every life of the entry.
THEOREM NoOffsetIsLost == ASSUME Prompt PROVE Spec => []OffsetIsNeverLost
<1>1. ASSUME IInv PROVE OffsetIsOwned
  <2> SUFFICES ASSUME NEW e \in Numbers, num[e].st # "gone", num[e].shown # first[e]
               PROVE  Holds(e)
    BY Zenon DEF OffsetIsOwned, Holds
  <2> QED
    BY <1>1 DEF IInv, OffsetsAreHeld, Untouched
<1>2. ASSUME IInv PROVE ReplacedIsRestored /\ SuccessorStartsClean
  BY <1>2 DEF IInv, OldNumberIsLeft, FedIsClean, ReplacedIsRestored, SuccessorStartsClean, Untouched
<1>3. IInv => OffsetIsNeverLost
  BY <1>1, <1>2 DEF IInv, OffsetIsNeverLost
<1> QED
  BY <1>3, BooksAlwaysFit, PTL

LEMMA CommandsFit ==
  ASSUME IInv, Prompt, [Next]_vars, NEW e \in Numbers,
         rt.base \notin {None, rt.cmd}, num'[e].flight \notin {num[e].flight, None}
  PROVE  num'[e].flight \in {Clamp(need), first[e]}
<1>1. TypeOK /\ num \in Numbers_
  BY TypeSplit DEF IInv
<1>2. CASE \E offline \in BOOLEAN : Tick(offline)
  <2>1. Keeps \/ Releases \/ RestoresIt \/ Resumes \/ Writes
    BY <1>1, <1>2, TickCases
  <2>2. Loaded
    BY <1>2 DEF Tick
  <2>3. CASE Keeps \/ Releases \/ Resumes
    BY <2>3 DEF Keeps, Releases, Resumes
  <2>4. /\ rt.owner \in Numbers /\ Clamp(rt.base) = first[rt.owner] /\ first[rt.owner] \in Offsets
    BY <1>1, ClampFits, OffsetsAreNumbers, FieldsTyped DEF IInv, BaselineIsOriginal
  <2>5. CASE RestoresIt
    <3>1. num' = Sent(rt.owner, first[rt.owner])
      BY <2>4, <2>5 DEF RestoresIt
    <3> QED
      BY <1>1, <2>4, <3>1, SentFits
  <2>6. CASE Writes
    <3>1. /\ rt.found \in Numbers /\ rt.owner = rt.found /\ rt.cmd # None
          /\ num[rt.found].shown = rt.cmd /\ (rt.anchor => fresh)
          /\ num' = Sent(rt.found, Wanted(rt)) /\ Wanted(rt) \in Offsets
      BY <2>4, <2>6, OffsetsAreNumbers DEF Writes, Evidence, Quarantined
    <3>2. rt.found = device /\ fresh
      BY <2>2, <3>1, OffsetsAreNumbers DEF IInv, InstanceFits
    <3>3. seen = num[rt.found].shown
      BY <3>1, <3>2 DEF IInv, ReportFits
    <3>4. need \in Int /\ seen \in Int
      BY <1>1, OffsetsAreNumbers, CalibrationAssumption DEF TypeOK
    <3>5. need - seen + seen = need
      BY <3>4
    <3>6. Wanted(rt) = Clamp(need)
      BY <3>3, <3>5 DEF Wanted
    <3> QED
      BY <1>1, <3>1, <3>6, SentFits
  <2> QED
    BY <2>1, <2>3, <2>5, <2>6
<1>3. CASE PrepareSwap
  <2>1. PICK x \in Restores(rt) : num' = x.num
    BY <1>3 DEF PrepareSwap
  <2> QED
    BY <1>3, <2>1, RestoreKeeps DEF PrepareSwap, history
<1>4. CASE Disable
  <2>1. PICK x \in Restores(rt) : num' = x.num
    BY <1>4 DEF Disable
  <2> QED
    BY <1>4, <2>1, RestoreKeeps DEF Disable, history
<1>5. CASE SwapUnloaded \/ Remove
  <2>1. PICK x \in Restores(disk) : num' = x.num
    BY <1>5 DEF SwapUnloaded, Remove
  <2> QED
    BY <1>5, <2>1, RestoreKeeps DEF SwapUnloaded, Remove, history
<1>6. CASE ReloadSwapped \/ Stop \/ Start \/ Report \/ RoomChanges \/ Reconfigure \/ CalmDown
           \/ UNCHANGED vars
  BY <1>6 DEF ReloadSwapped, Stop, Start, Report, RoomChanges, Reconfigure, CalmDown, vars
<1>7. CASE \E f \in Numbers : Apply(f) \/ Lose(f) \/ Sleep(f) \/ Wake(f) \/ Vanish(f)
  <2>1. num'[e].flight \in {num[e].flight, None}
    BY <1>1, <1>7 DEF Apply, Lose, Sleep, Wake, Vanish, Numbers_
  <2> QED
    BY <2>1
<1>8. CASE Rename
  <2>1. rt.base = None
    BY <1>8 DEF IInv, InstanceFits, Rename
  <2> QED
    BY <2>1
<1> QED
  BY <1>2, <1>3, <1>4, <1>5, <1>6, <1>7, <1>8 DEF Next, Lifecycle

\* No correction is ever added to an offset the reported temperature already
\* contains, for every grid, need and interval (the evidence gate of calibration.py).
THEOREM NoCorrectionCompounds == ASSUME Prompt PROVE Spec => NothingCompounds
<1>1. IInv /\ [Next]_vars =>
        [\A e \in Numbers :
           rt.base \notin {None, rt.cmd} /\ num'[e].flight \notin {num[e].flight, None} =>
             num'[e].flight \in {Clamp(need), first[e]}]_vars
  BY CommandsFit
<1> QED
  BY <1>1, BooksAlwaysFit, PTL DEF Spec, NothingCompounds
=============================================================================

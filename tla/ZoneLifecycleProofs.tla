--------------------------- MODULE ZoneLifecycleProofs ---------------------------
(***************************************************************************)
(* What the life of a room keeps for every cadence, limit and fault.       *)
(***************************************************************************)
EXTENDS MCEntries, SequenceTheorems, TLAPS

\* Tasks that a waiting unload or stop finds before it.
Work == {"tick", "options"}
AllWork(q) == \A i \in 1 .. Len(q) : q[i] \in Work
Closes(q, t) == q # <<>> /\ q[Len(q)] = t /\ \A i \in 1 .. Len(q) - 1 : q[i] \in Work

\* Who waits for the lock, by how far the entry is.
Queued(e, q) ==
  /\ e \in {"off", "platforms", "park", "disabled", "gone", "stuck"} => q = <<>>
  /\ e = "final" => q = <<"final">>
  /\ e = "setup" => q \in {<<>>, <<"tick">>}
  /\ e = "loaded" => AllWork(q)
  /\ e = "quiesce" => Closes(q, "quiesce")
  /\ e = "stopping" => Closes(q, "stop")

\* The holder is past its beginning only as a tick.
LockInv ==
  /\ Queued(entry, lock)
  /\ entry \in {"quiesce", "platforms", "final", "park", "disabled", "stuck", "stopping"} => shut
  /\ step # "begin" => lock # <<>> /\ Head(lock) = "tick"

\* What a save under way carries is what the instance knows, but for a command
\* of the user that came since.
SaveInv ==
  step = "saving" =>
    /\ payload.acted = live.acted /\ payload.model = live.model
    /\ entry = "setup" => payload.intent = live.intent

\* A device that Poise has commanded is known to be: to the instance, to the
\* store once the instance has ended; and what the store does not know yet is
\* flagged and about to be saved.
ActedInv ==
  /\ device = "poise" /\ ~orphan =>
       /\ entry \notin {"off", "gone"} => live.acted \/ step = "sent"
       /\ entry \in {"off", "park", "disabled"} => HasActuated
  /\ entry \in {"setup", "loaded"} /\ live.acted /\ ~HasActuated =>
       /\ live.dirty
       /\ step \in {"done", "saving"} \/ counts.saveFails > 0 \/ counts.tickFails > 0

\* The instance has what the user wants, and the store once the instance ended.
IntentInv ==
  /\ live.intent = wish
  /\ disk.content # None /\ (entry = "setup" \/ (entry \in {"off", "park", "disabled"} /\ ~spoilt))
       => disk.content.intent = wish

IssueInv ==
  /\ entry # "gone" => ledger = issues
  /\ entry = "gone" /\ ~spoilt => issues = {}
  /\ "save" \in issues /\ (entry \in {"off", "park", "disabled"} \/ (entry = "setup" /\ lock # <<>>))
       => spoilt

\* An instance has read what was learned.
ModelInv == entry # "off" /\ Learnt(disk) /\ ~disk.torn => live.model

IInv ==
  /\ TypeOK
  /\ LockInv /\ SaveInv /\ ActedInv /\ IntentInv /\ IssueInv /\ ModelInv
  /\ WrittenIsParked
-----------------------------------------------------------------------------
(* The queue for the lock.                                                 *)

LEMMA TailFacts ==
  ASSUME NEW q \in Seq(Tasks), q # <<>>
  PROVE  /\ Len(q) \in Nat /\ Len(q) > 0 /\ Head(q) = q[1] /\ Head(q) \in Tasks
         /\ Tail(q) \in Seq(Tasks) /\ Len(Tail(q)) = Len(q) - 1
         /\ \A i \in 1 .. Len(q) - 1 : Tail(q)[i] = q[i + 1]
         /\ Len(q) = 1 => Tail(q) = <<>>
OBVIOUS

LEMMA AppendFacts ==
  ASSUME NEW q \in Seq(Tasks), NEW t \in Tasks
  PROVE  /\ Len(q) \in Nat /\ Append(q, t) \in Seq(Tasks) /\ Len(Append(q, t)) = Len(q) + 1
         /\ Append(q, t) # <<>>
         /\ \A i \in 1 .. Len(q) : Append(q, t)[i] = q[i]
         /\ Append(q, t)[Len(q) + 1] = t
         /\ Head(Append(q, t)) = IF q = <<>> THEN t ELSE Head(q)
<1>1. Head(Append(q, t)) = IF q = <<>> THEN t ELSE Head(q)
  BY HeadTailAppend
<1>2. Append(q, t) # <<>> /\ Append(q, t) \in Seq(Tasks) /\ Len(Append(q, t)) = Len(q) + 1
      /\ Len(q) \in Nat
  OBVIOUS
<1>3. /\ \A i \in 1 .. Len(q) : Append(q, t)[i] = q[i]
      /\ Append(q, t)[Len(q) + 1] = t
  OBVIOUS
<1> QED
  BY <1>1, <1>2, <1>3

LEMMA NothingAppended ==
  ASSUME NEW q \in Seq(Tasks), NEW t \in Tasks
  PROVE  q \o <<>> = q /\ q \o <<t>> = Append(q, t)
BY ConcatEmptySeq, AppendIsConcat

LEMMA WorkQueues ==
  ASSUME NEW q \in Seq(Tasks), AllWork(q), NEW t \in Tasks
  PROVE  /\ Closes(Append(q, t), t)
         /\ t \in Work => AllWork(Append(q, t))
BY AppendFacts DEF AllWork, Closes

LEMMA ClosingHead ==
  ASSUME NEW q \in Seq(Tasks), NEW t, Closes(q, t)
  PROVE  Head(q) \in Work \cup {t}
BY TailFacts DEF Closes

\* The holder hands on.
LEMMA HandOn ==
  ASSUME NEW q \in Seq(Tasks), q # <<>>, NEW e, Queued(e, q), Head(q) \in Work
  PROVE  Queued(e, Tail(q))
<1>1. ASSUME NEW t, t \notin Work, Closes(q, t) PROVE Closes(Tail(q), t)
  <2>1. Len(q) > 1
    BY <1>1, TailFacts DEF Closes
  <2>2. Tail(q)[Len(q) - 1] = t /\ Tail(q) # <<>>
    <3>1. Len(q) \in Nat /\ Len(q) - 1 \in 1 .. Len(q) - 1 /\ (Len(q) - 1) + 1 = Len(q)
      BY <2>1, TailFacts
    <3>2. Tail(q)[Len(q) - 1] = q[(Len(q) - 1) + 1]
      BY <3>1, TailFacts
    <3>3. Len(Tail(q)) = Len(q) - 1 /\ Len(q) - 1 > 0 /\ Len(<<>>) = 0
      BY <2>1, TailFacts
    <3>4. Len(Tail(q)) # Len(<<>>)
      BY <3>3
    <3>5. Tail(q) # <<>>
      BY <3>4, Zenon
    <3>6. q[(Len(q) - 1) + 1] = t
      BY <1>1, <3>1 DEF Closes
    <3> QED
      BY <3>2, <3>5, <3>6
  <2>3. \A i \in 1 .. Len(q) - 2 : Tail(q)[i] \in Work
    <3> SUFFICES ASSUME NEW i \in 1 .. Len(q) - 2 PROVE Tail(q)[i] \in Work
      OBVIOUS
    <3>1. i \in 1 .. Len(q) - 1 /\ i + 1 \in 1 .. Len(q) - 1
      BY TailFacts
    <3> QED
      BY <1>1, <3>1, TailFacts DEF Closes
  <2> QED
    BY <2>2, <2>3, TailFacts DEF Closes
<1>2. AllWork(q) => AllWork(Tail(q))
  <2> SUFFICES ASSUME AllWork(q), NEW i \in 1 .. Len(Tail(q)) PROVE Tail(q)[i] \in Work
    BY DEF AllWork
  <2>1. i \in 1 .. Len(q) - 1 /\ i + 1 \in 1 .. Len(q)
    BY TailFacts
  <2> QED
    BY <2>1, TailFacts DEF AllWork
<1>3. q = <<"final">> => Head(q) \notin Work
  BY DEF Work
<1>4. q = <<"tick">> => Tail(q) = <<>>
  OBVIOUS
<1>5. "quiesce" \notin Work /\ "stop" \notin Work
  BY DEF Work
<1> QED
  BY <1>1, <1>2, <1>3, <1>4, <1>5 DEF Queued

LEMMA LastOut ==
  ASSUME NEW q \in Seq(Tasks), q # <<>>, NEW t, t \notin Work, Closes(q, t), Head(q) = t
  PROVE  Tail(q) = <<>>
BY TailFacts DEF Closes

\* Whoever holds the lock says how far the entry is.
LEMMA WhoHolds ==
  ASSUME IInv, lock # <<>>
  PROVE  /\ lock \in Seq(Tasks) /\ Head(lock) \in Tasks
         /\ Head(lock) = "tick" => entry \in {"setup", "loaded", "quiesce", "stopping"}
         /\ Head(lock) = "options" => entry \in {"loaded", "quiesce", "stopping"}
         /\ Head(lock) = "quiesce" => entry = "quiesce"
         /\ Head(lock) = "final" => entry = "final"
         /\ Head(lock) = "stop" => entry = "stopping"
<1>1. lock \in Seq(Tasks) /\ Head(lock) \in Tasks /\ Head(lock) = lock[1] /\ entry \in Entries
      /\ Len(lock) \in Nat /\ Len(lock) > 0
  BY TailFacts DEF IInv, TypeOK
<1>2. Queued(entry, lock)
  BY DEF IInv, LockInv
<1>3. entry = "loaded" => Head(lock) \in Work
  BY <1>1, <1>2 DEF Queued, AllWork
<1>4. entry = "quiesce" => Head(lock) \in Work \cup {"quiesce"}
  BY <1>1, <1>2, ClosingHead DEF Queued
<1>5. entry = "stopping" => Head(lock) \in Work \cup {"stop"}
  BY <1>1, <1>2, ClosingHead DEF Queued
<1>6. entry = "setup" => Head(lock) = "tick"
  BY <1>2 DEF Queued
<1>7. entry = "final" => Head(lock) = "final"
  BY <1>2 DEF Queued
<1>8. entry \in {"setup", "loaded", "quiesce", "stopping", "final"}
  BY <1>1, <1>2 DEF Queued, Entries
<1> QED
  BY <1>1, <1>3, <1>4, <1>5, <1>6, <1>7, <1>8 DEF Work

Counts == [save : 0 .. SaveEvery - 1, saveFails : 0 .. SaveLimit, tickFails : 0 .. TickLimit]

LEMMA Limits ==
  /\ SaveEvery \in Nat /\ SaveEvery > 0 /\ SaveLimit \in Nat /\ SaveLimit > 0
  /\ TickLimit \in Nat /\ TickLimit > 0
BY LifecycleAssumption

LEMMA CountsFit ==
  ASSUME TypeOK, NEW s \in 0 .. SaveEvery - 1, NEW f \in 0 .. SaveLimit, NEW t \in 0 .. TickLimit
  PROVE  /\ [counts EXCEPT !.save = s] \in Counts
         /\ [counts EXCEPT !.save = s, !.tickFails = t] \in Counts
         /\ [counts EXCEPT !.saveFails = f, !.tickFails = t] \in Counts
<1>1. counts \in Counts
  BY DEF TypeOK, Counts
<1> QED
  BY <1>1 DEF Counts

LEMMA TypeFields ==
  ASSUME TypeOK
  PROVE  /\ Kept(live) \in Content
         /\ Kept(live).intent = live.intent /\ Kept(live).model = live.model
         /\ Kept(live).acted = live.acted /\ Kept(live) # None
BY LifecycleAssumption DEF TypeOK, Kept, Content

\* Whoever releases the lock leaves a queue that fits.
LEMMA Released ==
  ASSUME IInv, NEW t \in Tasks, Holds(t), Release
  PROVE  /\ lock # <<>> /\ Head(lock) = t /\ lock' \in Seq(Tasks) /\ step' = "begin"
         /\ t \in Work => Queued(entry, lock')
         /\ t \notin Work => lock' = <<>>
         /\ entry = "setup" => lock' = <<>>
<1>1. lock # <<>> /\ Head(lock) = t /\ lock' = Tail(lock) /\ step' = "begin"
  BY DEF Holds, Release
<1>2. lock \in Seq(Tasks) /\ Queued(entry, lock)
  BY DEF IInv, TypeOK, LockInv
<1>3. Tail(lock) \in Seq(Tasks)
  BY <1>1, <1>2, TailFacts
<1>4. t \in Work => Queued(entry, Tail(lock))
  BY <1>1, <1>2, HandOn
<1>5. ASSUME t \notin Work PROVE Tail(lock) = <<>>
  <2>1. t \in {"quiesce", "final", "stop"}
    BY <1>5 DEF Work, Tasks
  <2>2. CASE t = "final"
    BY <1>1, <1>2, <2>2, WhoHolds DEF Queued
  <2>3. CASE t = "quiesce"
    BY <1>1, <1>2, <1>5, <2>3, WhoHolds, LastOut DEF Queued
  <2>4. CASE t = "stop"
    BY <1>1, <1>2, <1>5, <2>4, WhoHolds, LastOut DEF Queued
  <2> QED
    BY <2>1, <2>2, <2>3, <2>4
<1>6. entry = "setup" => Tail(lock) = <<>>
  BY <1>1, <1>2 DEF Queued
<1> QED
  BY <1>1, <1>3, <1>4, <1>5, <1>6

-----------------------------------------------------------------------------
(* The steps.                                                              *)

LEMMA TickSendsKeeps ==
  ASSUME IInv, TickSends
  PROVE  IInv'
<1>1. TypeOK'
  BY DEF IInv, TypeOK, TickSends
<1>2. LockInv'
  BY DEF IInv, LockInv, TickSends, Holds
<1>3. SaveInv'
  BY DEF IInv, SaveInv, TickSends
<1>4. ActedInv'
  BY DEF IInv, ActedInv, LockInv, Queued, HasActuated, TickSends, Holds
<1>5. IntentInv'
  BY DEF IInv, IntentInv, TickSends
<1>6. IssueInv'
  BY DEF IInv, IssueInv, TickSends
<1>7. ModelInv'
  BY DEF IInv, ModelInv, TickSends
<1>8. WrittenIsParked'
  BY DEF IInv, LockInv, Queued, WrittenIsParked, TickSends, Holds
<1> QED
  BY <1>1, <1>2, <1>3, <1>4, <1>5, <1>6, <1>7, <1>8 DEF IInv

LEMMA TickCommitsKeeps ==
  ASSUME IInv, TickCommits
  PROVE  IInv'
<1>1. TypeOK'
  <2>1. live' \in [intent : BOOLEAN, model : BOOLEAN, dose : BOOLEAN, acted : BOOLEAN, dirty : BOOLEAN]
    BY DEF IInv, TypeOK, TickCommits, MarkActuated
  <2> QED
    BY <2>1 DEF IInv, TypeOK, Entries, Tasks, TickCommits
<1>2. LockInv' /\ SaveInv' /\ ActedInv' /\ IntentInv'
  BY DEF IInv, TypeOK, LockInv, TickCommits, MarkActuated, SaveInv, ActedInv, HasActuated,
     IntentInv
<1>3. IssueInv'
  BY DEF IInv, IssueInv, TickCommits
<1>4. ModelInv'
  BY DEF IInv, ModelInv, TickCommits, MarkActuated, Fault
<1>5. WrittenIsParked'
  BY DEF IInv, WrittenIsParked, TickCommits, Fault
<1> QED
  BY <1>1, <1>2, <1>3, <1>4, <1>5 DEF IInv

LEMMA TickFinishesKeeps ==
  ASSUME IInv, NEW sees \in BOOLEAN, TickFinishes(sees)
  PROVE  IInv'
<1>1. /\ lock # <<>> /\ Head(lock) = "tick" /\ lock \in Seq(Tasks) /\ Queued(entry, lock) /\ step # "saving"
  BY DEF TickFinishes, Holds, IInv, TypeOK, LockInv
<1>2. \/ /\ lock' = lock /\ step' = "saving" /\ payload' \in Content
         /\ issues' = issues /\ ledger' = ledger
      \/ /\ Release /\ payload' = payload /\ Report("tick", FALSE)
  <2>1. [live EXCEPT !.model = @ \/ sees, !.dose = @ \/ sees] \in
          [intent : BOOLEAN, model : BOOLEAN, dose : BOOLEAN, acted : BOOLEAN, dirty : BOOLEAN]
    BY DEF IInv, TypeOK
  <2>2. Kept([live EXCEPT !.model = @ \/ sees, !.dose = @ \/ sees]) \in Content
    BY <2>1 DEF Kept, Content
  <2> QED
    BY <2>2 DEF TickFinishes
<1>3. /\ lock' \in Seq(Tasks) /\ Queued(entry, lock')
      /\ step' = "saving" => lock' = lock
      /\ step' \in {"begin", "saving"}
      /\ entry = "setup" => lock' = <<>> \/ lock' = lock
  BY <1>1, <1>2, Released DEF Tasks, Work, Holds, Release
<1>4. TypeOK'
  <2>1. counts' \in [save : 0 .. SaveEvery - 1, saveFails : 0 .. SaveLimit, tickFails : 0 .. TickLimit]
    <3> DEFINE n == IF sees /\ counts.save + 1 <= SaveEvery THEN counts.save + 1 ELSE counts.save
    <3>1. counts.save \in 0 .. SaveEvery - 1 /\ counts.save \in Nat
      BY Limits DEF IInv, TypeOK
    <3>2. CASE Due(counts.save + 1) /\ (sees \/ live.dirty)
      <4>1. counts' = [counts EXCEPT !.save = 0]
        BY <3>2 DEF TickFinishes
      <4> QED
        BY <4>1, Limits DEF IInv, TypeOK
    <3>3. CASE ~(Due(counts.save + 1) /\ (sees \/ live.dirty))
      <4>1. counts' = [counts EXCEPT !.save = n, !.tickFails = 0]
        BY <3>3 DEF TickFinishes
      <4>2. n \in 0 .. SaveEvery - 1
        <5>1. sees => ~(counts.save + 1 >= SaveEvery)
          BY <3>3 DEF Due
        <5> QED
          BY <3>1, <5>1, Limits
      <4>3. 0 \in 0 .. TickLimit /\ 0 \in 0 .. SaveLimit
        BY Limits
      <4> HIDE DEF n
      <4> QED
        BY <4>1, <4>2, <4>3, CountsFit DEF IInv, Counts
    <3> QED
      BY <3>2, <3>3
  <2>2. issues' \subseteq {"save", "tick"} /\ ledger' \subseteq {"save", "tick"}
    BY <1>2 DEF IInv, TypeOK, Report, Raised
  <2>3. live' \in [intent : BOOLEAN, model : BOOLEAN, dose : BOOLEAN, acted : BOOLEAN, dirty : BOOLEAN]
    BY DEF IInv, TypeOK, TickFinishes
  <2>4. payload' \in Content \cup {None} /\ (payload' = None) = (step' # "saving")
    BY <1>1, <1>2, LifecycleAssumption DEF IInv, TypeOK, Release
  <2> QED
    BY <1>3, <2>1, <2>2, <2>3, <2>4 DEF IInv, TypeOK, TickFinishes
<1>5. LockInv'
  BY <1>1, <1>3 DEF IInv, LockInv, TickFinishes
<1>6. SaveInv'
  BY DEF IInv, SaveInv, TickFinishes, Release, Kept, FreshContent, Holds, Fault
<1>7. ActedInv'
  BY DEF IInv, ActedInv, HasActuated, TickFinishes, Report, Raised, Release, Due, Kept,
     FreshContent, Holds, Fault
<1>8. IntentInv'
  BY DEF IInv, IntentInv, TickFinishes, Due, Kept, FreshContent, Holds, Fault
<1>9. IssueInv'
  <2>1. ledger' = issues' /\ ("save" \in issues' => "save" \in issues)
    <3>1. ledger = issues
      BY <1>1, WhoHolds DEF IInv, IssueInv
    <3> QED
      BY <1>2, <3>1 DEF Report, Raised
  <2> QED
    BY <1>1, <1>3, <2>1, WhoHolds DEF IInv, IssueInv, TickFinishes
<1>10. ModelInv'
  BY DEF IInv, TypeOK, ModelInv, TickFinishes, Release, Due, Kept, FreshContent, Holds, Fault
<1>11. WrittenIsParked'
  BY DEF IInv, WrittenIsParked, TickFinishes
<1> QED
  BY <1>4, <1>5, <1>6, <1>7, <1>8, <1>9, <1>10, <1>11 DEF IInv

LEMMA SavesKeeps ==
  ASSUME IInv, NEW ok \in BOOLEAN, Saves(ok)
  PROVE  IInv'
<1>1. /\ lock # <<>> /\ Head(lock) = "tick" /\ lock' \in Seq(Tasks) /\ step' = "begin"
      /\ Queued(entry, lock')
      /\ entry = "setup" => lock' = <<>>
  BY Released DEF Saves, Tasks, Work
<1>2. TypeOK'
  <2>1. counts' \in [save : 0 .. SaveEvery - 1, saveFails : 0 .. SaveLimit, tickFails : 0 .. TickLimit]
    <3> DEFINE fails == IF ok THEN 0 ELSE counts.saveFails + 1
    <3>1. counts.saveFails \in Nat
      BY Limits DEF IInv, TypeOK
    <3>2. fails \in Nat
      BY <3>1
    <3>3. counts' = [counts EXCEPT !.saveFails = IF fails < SaveLimit THEN fails ELSE SaveLimit,
                                   !.tickFails = 0]
      BY DEF Saves
    <3> HIDE DEF fails
    <3>4. (IF fails < SaveLimit THEN fails ELSE SaveLimit) \in 0 .. SaveLimit
      BY <3>2, Limits
    <3>5. 0 \in 0 .. TickLimit /\ 0 \in 0 .. SaveEvery - 1
      BY Limits
    <3> QED
      BY <3>3, <3>4, <3>5, CountsFit DEF IInv, Counts
  <2>2. issues' \subseteq {"save", "tick"} /\ ledger' \subseteq {"save", "tick"}
    BY DEF IInv, TypeOK, Saves
  <2>3. disk' \in [content : Content \cup {None}, torn : BOOLEAN]
    BY DEF IInv, TypeOK, Saves
  <2>4. live' \in [intent : BOOLEAN, model : BOOLEAN, dose : BOOLEAN, acted : BOOLEAN, dirty : BOOLEAN]
    BY DEF IInv, TypeOK, Saves
  <2> QED
    BY <1>1, <2>1, <2>2, <2>3, <2>4 DEF IInv, TypeOK, Saves
<1>3. LockInv'
  BY <1>1 DEF IInv, LockInv, Saves
<1>4. SaveInv'
  BY DEF IInv, SaveInv, Saves, Release
<1>5. ActedInv'
  BY LifecycleAssumption DEF IInv, TypeOK, ActedInv, SaveInv, LockInv, Queued, HasActuated, Saves,
     Fault
<1>6. IntentInv'
  BY DEF IInv, IntentInv, SaveInv, LockInv, Queued, Saves
<1>7. IssueInv'
  <2>1. ledger' = issues'
    <3>1. ledger = issues
      BY <1>1, WhoHolds DEF IInv, IssueInv
    <3> QED
      BY <3>1 DEF Saves
  <2> QED
    BY <1>1, <2>1, WhoHolds DEF IInv, IssueInv, Saves
<1>8. ModelInv'
  BY DEF IInv, ModelInv, SaveInv, Learnt, Saves, Fault
<1>9. WrittenIsParked'
  BY DEF IInv, WrittenIsParked, Saves
<1> QED
  BY <1>2, <1>3, <1>4, <1>5, <1>6, <1>7, <1>8, <1>9 DEF IInv

LEMMA TickRaisesKeeps ==
  ASSUME IInv, TickRaises
  PROVE  IInv'
<1>1. /\ lock # <<>> /\ Head(lock) = "tick" /\ lock' \in Seq(Tasks) /\ step' = "begin"
      /\ Queued(entry, lock')
      /\ entry = "setup" => lock' = <<>>
  BY Released DEF TickRaises, Tasks, Work
<1>2. TypeOK'
  <2>1. counts' \in [save : 0 .. SaveEvery - 1, saveFails : 0 .. SaveLimit, tickFails : 0 .. TickLimit]
    BY LifecycleAssumption DEF IInv, TypeOK, TickRaises
  <2>2. issues' \subseteq {"save", "tick"} /\ ledger' \subseteq {"save", "tick"}
    BY DEF IInv, TypeOK, TickRaises, Report, Raised
  <2>3. shut' \in BOOLEAN /\ orphan' \in BOOLEAN /\ entry' \in Entries /\ step # "saving"
    <3>1. shut' \in BOOLEAN /\ orphan' \in BOOLEAN
      BY DEF IInv, TypeOK, TickRaises
    <3> QED
      BY <3>1 DEF IInv, TypeOK, TickRaises, Entries
  <2> QED
    BY <1>1, <2>1, <2>2, <2>3 DEF IInv, TypeOK, TickRaises
<1>3. LockInv'
  BY <1>1 DEF IInv, TypeOK, LockInv, Queued, TickRaises
<1>4. SaveInv' /\ ActedInv' /\ IntentInv' /\ ModelInv'
  BY LifecycleAssumption DEF IInv, TypeOK, SaveInv, TickRaises, Release, ActedInv, HasActuated,
     IntentInv, ModelInv
<1>5. IssueInv'
  <2>1. ledger' = issues' /\ ("save" \in issues' => "save" \in issues)
    <3>1. ledger = issues
      BY <1>1, WhoHolds DEF IInv, IssueInv
    <3> QED
      BY <3>1 DEF TickRaises, Report, Raised
  <2> QED
    BY <1>1, <2>1, WhoHolds DEF IInv, IssueInv, TickRaises
<1>6. WrittenIsParked'
  BY DEF IInv, WrittenIsParked, TickRaises
<1> QED
  BY <1>2, <1>3, <1>4, <1>5, <1>6 DEF IInv

LEMMA ApplyOptionsKeeps ==
  ASSUME IInv, ApplyOptions
  PROVE  IInv'
<1>1. /\ lock # <<>> /\ Head(lock) = "options" /\ lock \in Seq(Tasks)
      /\ lock' = Tail(lock) \o Requested /\ step' = "begin" /\ step = "begin"
  BY DEF ApplyOptions, AppliesOptions, Holds, IInv, TypeOK, LockInv
<1>2. Tail(lock) \in Seq(Tasks) /\ Queued(entry, Tail(lock)) /\ entry \in {"loaded", "quiesce", "stopping"}
  BY <1>1, TailFacts, HandOn, WhoHolds DEF IInv, LockInv, Work
<1>3. lock' = Tail(lock) \/ (~shut /\ lock' = Append(Tail(lock), "tick"))
  BY <1>1, <1>2, NothingAppended, AppendFacts DEF Requested, Tasks
<1>4. TypeOK'
  <2>1. lock' \in Seq(Tasks)
    BY <1>2, <1>3, AppendFacts DEF Tasks
  <2> QED
    BY <1>1, <2>1 DEF IInv, TypeOK, ApplyOptions
<1>5. LockInv'
  <2>1. CASE lock' = Tail(lock)
    BY <1>1, <1>2, <2>1 DEF IInv, LockInv, ApplyOptions
  <2>2. CASE ~shut /\ lock' = Append(Tail(lock), "tick")
    <3>1. entry = "loaded"
      BY <1>2, <2>2 DEF IInv, LockInv
    <3>2. AllWork(lock')
      BY <1>2, <2>2, <3>1, WorkQueues DEF Queued, Work, Tasks
    <3> QED
      BY <1>1, <3>1, <3>2 DEF IInv, LockInv, Queued, ApplyOptions
  <2> QED
    BY <1>3, <2>1, <2>2
<1>6. SaveInv'
  BY DEF IInv, SaveInv, ApplyOptions, AppliesOptions
<1>7. ActedInv'
  BY DEF IInv, ActedInv, LockInv, HasActuated, ApplyOptions, TickWaits, Holds, Fault
<1>8. IntentInv'
  BY DEF IInv, IntentInv, ApplyOptions, Holds, Fault
<1>9. IssueInv'
  BY DEF IInv, IssueInv, ApplyOptions, Holds, Fault
<1>10. ModelInv' /\ WrittenIsParked'
  BY DEF IInv, ModelInv, ApplyOptions, WrittenIsParked
<1> QED
  BY <1>4, <1>5, <1>6, <1>7, <1>8, <1>9, <1>10 DEF IInv

LEMMA QuiescedKeeps ==
  ASSUME IInv, Quiesced
  PROVE  IInv'
<1>1. /\ lock # <<>> /\ Head(lock) = "quiesce" /\ lock' \in Seq(Tasks) /\ step' = "begin"
      /\ lock' = <<>>
      /\ entry = "setup" => lock' = <<>>
  BY Released DEF Quiesced, Tasks, Work
<1>2. TypeOK'
  <2>1. step # "saving"
    BY <1>1 DEF IInv, LockInv
  <2> QED
    BY <1>1, <2>1 DEF IInv, TypeOK, Entries, Quiesced
<1>3. LockInv'
  BY <1>1, WhoHolds DEF IInv, LockInv, Queued, Quiesced
<1>4. SaveInv' /\ ActedInv' /\ IntentInv' /\ IssueInv'
  BY DEF IInv, SaveInv, LockInv, Quiesced, Release, Holds, ActedInv, Queued, IntentInv, IssueInv
<1>5. ModelInv'
  BY DEF IInv, ModelInv, LockInv, Queued, Quiesced, Holds, Fault
<1>6. WrittenIsParked'
  BY DEF IInv, WrittenIsParked, Quiesced, Fault
<1> QED
  BY <1>2, <1>3, <1>4, <1>5, <1>6 DEF IInv

LEMMA FinalSaveKeeps ==
  ASSUME IInv, NEW ok \in BOOLEAN, FinalSave(ok)
  PROVE  IInv'
<1>1. /\ lock # <<>> /\ Head(lock) = "final" /\ lock' \in Seq(Tasks) /\ step' = "begin"
      /\ lock' = <<>>
      /\ entry = "setup" => lock' = <<>>
  BY Released DEF FinalSave, Tasks, Work
<1>2. ok => disk'.content = Kept(live) /\ disk'.torn = FALSE
  BY DEF FinalSave, Final
<1>3. ~ok => disk' = disk
  BY DEF FinalSave
<1>4. TypeOK'
  <2>1. disk' \in [content : Content \cup {None}, torn : BOOLEAN]
    <3>1. ok => disk' = [content |-> Kept(live), torn |-> FALSE]
      BY DEF FinalSave, Final
    <3>2. Kept(live) \in Content
      BY TypeFields DEF IInv
    <3>3. CASE ok
      <4>1. disk' = [content |-> Kept(live), torn |-> FALSE]
        BY <3>1, <3>3
      <4>2. \A k \in Content : [content |-> k, torn |-> FALSE] \in [content : Content \cup {None}, torn : BOOLEAN]
        OBVIOUS
      <4> QED
        BY <3>2, <4>1, <4>2, Zenon
    <3>4. CASE ~ok
      BY <1>3, <3>4 DEF IInv, TypeOK
    <3> QED
      BY <3>3, <3>4
  <2>2. orphan' \in BOOLEAN /\ spoilt' \in BOOLEAN
    BY DEF IInv, TypeOK, FinalSave
  <2>3. step # "saving"
    BY <1>1 DEF IInv, LockInv
  <2> QED
    BY <1>1, <2>1, <2>2, <2>3 DEF IInv, TypeOK, Entries, FinalSave, Keeps
<1>5. LockInv'
  <2>1. entry' \in {"off", "park"} /\ shut' = shut /\ (entry' = "park" => entry = "final")
    BY <1>1, WhoHolds DEF FinalSave
  <2> QED
    BY <1>1, <2>1 DEF IInv, LockInv, Queued
<1>6. SaveInv'
  BY DEF IInv, SaveInv, FinalSave, Release, Fault
<1>7. ActedInv'
  <2>1. entry \notin {"off", "gone"} /\ entry' \in {"off", "park"} /\ step # "sent"
    BY <1>1, WhoHolds DEF IInv, LockInv, FinalSave
  <2>2. orphan' = (orphan \/ ~ok) /\ live' = live /\ device' = device
    BY DEF FinalSave
  <2>3. ok /\ live.acted => HasActuated'
    <3> SUFFICES ASSUME ok, live.acted PROVE HasActuated'
      OBVIOUS
    <3>1. disk'.content = Kept(live) /\ Kept(live) # None /\ Kept(live).acted
      BY <1>2, TypeFields DEF IInv
    <3> QED
      BY <3>1 DEF HasActuated
  <2>4. live.acted \in BOOLEAN
    BY DEF IInv, TypeOK
  <2>5. device = "poise" /\ ~orphan => live.acted
    BY <2>1 DEF IInv, ActedInv
  <2> QED
    BY <2>1, <2>2, <2>3, <2>4, <2>5 DEF ActedInv
<1>8. IntentInv'
  BY DEF IInv, IntentInv, FinalSave, Final, Kept, Holds, Fault
<1>9. IssueInv'
  BY DEF IInv, IssueInv, LockInv, Queued, FinalSave, Keeps, Holds, Fault
<1>10. ModelInv'
  BY DEF IInv, ModelInv, LockInv, Queued, Learnt, FinalSave, Final, Keeps, Kept, Holds, Fault
<1>11. WrittenIsParked'
  BY DEF IInv, WrittenIsParked, FinalSave
<1> QED
  BY <1>4, <1>5, <1>6, <1>7, <1>8, <1>9, <1>10, <1>11 DEF IInv

LEMMA FlushOnStopKeeps ==
  ASSUME IInv, NEW ok \in BOOLEAN, FlushOnStop(ok)
  PROVE  IInv'
<1>1. /\ lock # <<>> /\ Head(lock) = "stop" /\ lock' \in Seq(Tasks) /\ step' = "begin"
      /\ lock' = <<>>
      /\ entry = "setup" => lock' = <<>>
  BY Released DEF FlushOnStop, Tasks, Work
<1>2. ok => disk'.content = Kept(live) /\ disk'.torn = FALSE
  BY DEF FlushOnStop, Final
<1>3. ~ok => disk' = disk
  BY DEF FlushOnStop
<1>4. TypeOK'
  <2>1. disk' \in [content : Content \cup {None}, torn : BOOLEAN]
    <3>1. ok => disk' = [content |-> Kept(live), torn |-> FALSE]
      BY DEF FlushOnStop, Final
    <3>2. Kept(live) \in Content
      BY TypeFields DEF IInv
    <3>3. CASE ok
      <4>1. disk' = [content |-> Kept(live), torn |-> FALSE]
        BY <3>1, <3>3
      <4>2. \A k \in Content : [content |-> k, torn |-> FALSE] \in [content : Content \cup {None}, torn : BOOLEAN]
        OBVIOUS
      <4> QED
        BY <3>2, <4>1, <4>2, Zenon
    <3>4. CASE ~ok
      BY <1>3, <3>4 DEF IInv, TypeOK
    <3> QED
      BY <3>3, <3>4
  <2>2. orphan' \in BOOLEAN /\ spoilt' \in BOOLEAN
    BY DEF IInv, TypeOK, FlushOnStop
  <2>3. step # "saving"
    BY <1>1 DEF IInv, LockInv
  <2> QED
    BY <1>1, <2>1, <2>2, <2>3 DEF IInv, TypeOK, Entries, FlushOnStop
<1>5. LockInv'
  <2>1. entry' \in {"off", "park"} /\ shut' = shut /\ (entry' = "park" => entry = "final")
    BY <1>1, WhoHolds DEF FlushOnStop
  <2> QED
    BY <1>1, <2>1 DEF IInv, LockInv, Queued
<1>6. SaveInv' /\ IntentInv' /\ IssueInv' /\ ModelInv'
  BY DEF IInv, SaveInv, FlushOnStop, Release, Final, Kept, IntentInv, IssueInv, ModelInv
<1>7. ActedInv'
  <2>1. entry \notin {"off", "gone"} /\ entry' \in {"off", "park"} /\ step # "sent"
    BY <1>1, WhoHolds DEF IInv, LockInv, FlushOnStop
  <2>2. orphan' = (orphan \/ ~ok) /\ live' = live /\ device' = device
    BY DEF FlushOnStop
  <2>3. ok /\ live.acted => HasActuated'
    <3> SUFFICES ASSUME ok, live.acted PROVE HasActuated'
      OBVIOUS
    <3>1. disk'.content = Kept(live) /\ Kept(live) # None /\ Kept(live).acted
      BY <1>2, TypeFields DEF IInv
    <3> QED
      BY <3>1 DEF HasActuated
  <2>4. live.acted \in BOOLEAN
    BY DEF IInv, TypeOK
  <2>5. device = "poise" /\ ~orphan => live.acted
    BY <2>1 DEF IInv, ActedInv
  <2> QED
    BY <2>1, <2>2, <2>3, <2>4, <2>5 DEF ActedInv
<1>8. WrittenIsParked'
  BY DEF IInv, WrittenIsParked, FlushOnStop
<1> QED
  BY <1>4, <1>5, <1>6, <1>7, <1>8 DEF IInv

LEMMA SetUpKeeps ==
  ASSUME IInv, SetUp
  PROVE  IInv'
<1>1. PICK c \in Content : c = Restored(disk)
  BY DEF IInv, TypeOK, Restored, FreshContent, Content
<1>2. disk.content # None => /\ c.intent = disk.content.intent
                             /\ c.acted = disk.content.acted
                             /\ (disk.content.model /\ ~disk.torn) => c.model
  BY <1>1 DEF IInv, TypeOK, Restored, FreshContent, Content
<1>3. live' = Live(c) /\ wish' = live'.intent
  BY <1>1, Zenon DEF SetUp
<1>4. c.intent \in BOOLEAN /\ c.model \in BOOLEAN /\ c.dose \in BOOLEAN /\ c.acted \in BOOLEAN
  BY DEF Content
<1>5. /\ live'.intent = c.intent /\ live'.acted = c.acted /\ live'.model = c.model
      /\ live'.dirty = FALSE /\ wish' = c.intent
  BY <1>3 DEF Live
<1>6. TypeOK'
  <2>1. live' \in [intent : BOOLEAN, model : BOOLEAN, dose : BOOLEAN, acted : BOOLEAN, dirty : BOOLEAN]
    BY <1>3, <1>4 DEF Live
  <2>2. wish' \in BOOLEAN
    BY <1>4, <1>5
  <2>3. <<"tick">> \in Seq(Tasks)
    BY DEF Tasks
  <2>4. FreshCounts \in [save : 0 .. SaveEvery - 1, saveFails : 0 .. SaveLimit, tickFails : 0 .. TickLimit]
    BY Limits DEF FreshCounts
  <2>5. step # "saving"
    BY DEF IInv, LockInv, Queued, SetUp
  <2> QED
    BY <2>1, <2>2, <2>3, <2>4, <2>5 DEF IInv, TypeOK, Entries, SetUp
<1>7. LockInv'
  BY DEF IInv, LockInv, Queued, SetUp, Fault
<1>8. SaveInv'
  BY DEF IInv, SaveInv, SetUp, Fault
<1>9. ActedInv'
  <2>1. disk' = disk /\ device' = device /\ orphan' = orphan /\ entry = "off" /\ entry' = "setup"
    BY DEF SetUp
  <2>2. disk.content # None => live'.acted = disk.content.acted
    BY <1>2, <1>5
  <2>3. disk.content = None => live'.acted = FALSE
    BY <1>1, <1>5 DEF Restored, FreshContent
  <2>4. device = "poise" /\ ~orphan => disk.content # None /\ disk.content.acted
    BY <2>1 DEF IInv, ActedInv, HasActuated
  <2> QED
    BY <2>1, <2>2, <2>3, <2>4 DEF ActedInv, HasActuated
<1>10. IntentInv'
  <2>1. live'.intent = wish' /\ (disk.content # None => disk.content.intent = wish') /\ disk' = disk
    BY <1>2, <1>5 DEF SetUp
  <2> QED
    BY <2>1 DEF IntentInv
<1>11. IssueInv'
  BY DEF IInv, IssueInv, SetUp, Holds, Fault
<1>12. ModelInv'
  <2>1. disk' = disk
    BY DEF SetUp
  <2>2. disk.content # None /\ disk.content.model /\ ~disk.torn => live'.model
    BY <1>2, <1>5
  <2> QED
    BY <2>1, <2>2 DEF ModelInv, Learnt
<1>13. WrittenIsParked'
  BY DEF IInv, WrittenIsParked, SetUp, FreshContent, FreshCounts, Holds, Fault
<1> QED
  BY <1>6, <1>7, <1>8, <1>9, <1>10, <1>11, <1>12, <1>13 DEF IInv

LEMMA ComesUpKeeps ==
  ASSUME IInv, ComesUp
  PROVE  IInv'
<1>1. TypeOK'
  BY DEF IInv, TypeOK, Entries, ComesUp
<1>2. LockInv'
  <2>1. AllWork(<<>>)
    BY DEF AllWork
  <2> QED
    BY <2>1 DEF IInv, LockInv, Queued, ComesUp
<1>3. SaveInv'
  BY DEF IInv, SaveInv, ComesUp
<1>4. ActedInv'
  BY DEF IInv, ActedInv, HasActuated, ComesUp
<1>5. IntentInv'
  BY DEF IInv, IntentInv, ComesUp
<1>6. IssueInv' /\ ModelInv' /\ WrittenIsParked'
  BY DEF IInv, IssueInv, ComesUp, ModelInv, WrittenIsParked
<1> QED
  BY <1>1, <1>2, <1>3, <1>4, <1>5, <1>6 DEF IInv

LEMMA RefreshKeeps ==
  ASSUME IInv, Refresh
  PROVE  IInv'
<1>1. TypeOK'
  BY DEF IInv, TypeOK, Tasks, Refresh, Enqueued
<1>2. LockInv'
  <2>1. entry = "loaded" /\ entry' = entry /\ shut' = shut /\ step' = step
    BY DEF IInv, LockInv, Refresh
  <2>2. lock \in Seq(Tasks) /\ AllWork(lock) /\ lock' = Append(lock, "tick")
    BY <2>1 DEF IInv, TypeOK, LockInv, Queued, Refresh, Enqueued
  <2>3. AllWork(lock') /\ lock' # <<>> /\ (lock # <<>> => Head(lock') = Head(lock))
    BY <2>2, WorkQueues, AppendFacts DEF Work, Tasks
  <2> QED
    BY <2>1, <2>3 DEF IInv, LockInv, Queued
<1>3. SaveInv'
  BY DEF IInv, SaveInv, Refresh
<1>4. ActedInv'
  BY DEF IInv, ActedInv, HasActuated, Refresh, Fault
<1>5. IntentInv'
  BY DEF IInv, IntentInv, Refresh
<1>6. IssueInv'
  BY DEF IInv, IssueInv, Refresh
<1>7. ModelInv'
  BY DEF IInv, ModelInv, Refresh, Fault
<1>8. WrittenIsParked'
  BY DEF IInv, WrittenIsParked, Refresh, Fault
<1> QED
  BY <1>1, <1>2, <1>3, <1>4, <1>5, <1>6, <1>7, <1>8 DEF IInv

LEMMA CommandKeeps ==
  ASSUME IInv, Command
  PROVE  IInv'
<1>1. TypeOK'
  <2>1. live' \in [intent : BOOLEAN, model : BOOLEAN, dose : BOOLEAN, acted : BOOLEAN, dirty : BOOLEAN] /\ wish' \in BOOLEAN
    BY DEF IInv, TypeOK, Command
  <2> QED
    BY <2>1 DEF IInv, TypeOK, Entries, Tasks, Command
<1>2. LockInv' /\ SaveInv' /\ ActedInv' /\ IntentInv'
  BY DEF IInv, LockInv, Command, SaveInv, ActedInv, HasActuated, IntentInv
<1>3. IssueInv' /\ ModelInv' /\ WrittenIsParked'
  BY DEF IInv, IssueInv, Command, ModelInv, WrittenIsParked
<1> QED
  BY <1>1, <1>2, <1>3 DEF IInv

LEMMA OptionsSubmittedKeeps ==
  ASSUME IInv, OptionsSubmitted
  PROVE  IInv'
<1>1. TypeOK'
  BY DEF IInv, TypeOK, Tasks, OptionsSubmitted, Enqueued
<1>2. LockInv'
  <2>1. entry = "loaded" /\ entry' = entry /\ shut' = shut /\ step' = step
    BY DEF OptionsSubmitted
  <2>2. lock \in Seq(Tasks) /\ AllWork(lock) /\ lock' = Append(lock, "options")
    BY <2>1 DEF IInv, TypeOK, LockInv, Queued, OptionsSubmitted, Enqueued
  <2>3. AllWork(lock') /\ lock' # <<>> /\ (lock # <<>> => Head(lock') = Head(lock))
    BY <2>2, WorkQueues, AppendFacts DEF Work, Tasks
  <2> QED
    BY <2>1, <2>3 DEF IInv, LockInv, Queued
<1>3. SaveInv'
  BY DEF IInv, SaveInv, OptionsSubmitted
<1>4. ActedInv'
  BY DEF IInv, ActedInv, HasActuated, OptionsSubmitted, Fault
<1>5. IntentInv'
  BY DEF IInv, IntentInv, OptionsSubmitted
<1>6. IssueInv'
  BY DEF IInv, IssueInv, OptionsSubmitted
<1>7. ModelInv'
  BY DEF IInv, ModelInv, OptionsSubmitted, Fault
<1>8. WrittenIsParked'
  BY DEF IInv, WrittenIsParked, OptionsSubmitted, Fault
<1> QED
  BY <1>1, <1>2, <1>3, <1>4, <1>5, <1>6, <1>7, <1>8 DEF IInv

LEMMA UnloadKeeps ==
  ASSUME IInv, Unload
  PROVE  IInv'
<1>1. TypeOK' /\ SaveInv' /\ ActedInv' /\ IntentInv'
  BY DEF IInv, TypeOK, Entries, Tasks, Unload, Quiesce, Enqueued, SaveInv, ActedInv, IntentInv
<1>2. LockInv'
  <2>1. entry = "loaded" /\ entry' = "quiesce" /\ shut' = TRUE /\ step' = step
    BY DEF Unload, Quiesce
  <2>2. lock \in Seq(Tasks) /\ AllWork(lock) /\ lock' = Append(lock, "quiesce")
    BY <2>1 DEF IInv, TypeOK, LockInv, Queued, Unload, Quiesce, Enqueued
  <2>3. Closes(lock', "quiesce") /\ lock' # <<>> /\ (lock # <<>> => Head(lock') = Head(lock))
    BY <2>2, WorkQueues, AppendFacts DEF Tasks
  <2> QED
    BY <2>1, <2>3 DEF IInv, LockInv, Queued
<1>3. IssueInv' /\ ModelInv' /\ WrittenIsParked'
  BY DEF IInv, IssueInv, Unload, Quiesce, ModelInv, WrittenIsParked
<1> QED
  BY <1>1, <1>2, <1>3 DEF IInv

LEMMA PlatformsUnloadKeeps ==
  ASSUME IInv, NEW ok \in BOOLEAN, PlatformsUnload(ok)
  PROVE  IInv'
<1>1. TypeOK'
  BY DEF IInv, TypeOK, Entries, Tasks, PlatformsUnload, Enqueued
<1>2. LockInv'
  BY DEF IInv, LockInv, Queued, PlatformsUnload, Enqueued
<1>3. SaveInv'
  BY DEF IInv, SaveInv, PlatformsUnload
<1>4. ActedInv'
  BY DEF IInv, ActedInv, PlatformsUnload
<1>5. IntentInv' /\ IssueInv' /\ ModelInv' /\ WrittenIsParked'
  BY DEF IInv, IntentInv, PlatformsUnload, IssueInv, ModelInv, WrittenIsParked
<1> QED
  BY <1>1, <1>2, <1>3, <1>4, <1>5 DEF IInv

LEMMA ParkKeeps ==
  ASSUME IInv, NEW readable \in BOOLEAN, NEW obeyed \in BOOLEAN, Park(readable, obeyed)
  PROVE  IInv'
<1>1. TypeOK'
  <2>1. disk' \in [content : Content \cup {None}, torn : BOOLEAN] /\ issues' \subseteq {"save", "tick"}
    <3>1. CASE goal = "remove" /\ readable
      <4>1. disk' = [content |-> None, torn |-> FALSE] /\ issues' = {}
        BY <3>1 DEF Park
      <4> QED
        BY <4>1
    <3>2. CASE ~(goal = "remove" /\ readable)
      <4>1. disk' = disk /\ issues' = issues
        BY <3>2 DEF Park
      <4> QED
        BY <4>1 DEF IInv, TypeOK
    <3> QED
      BY <3>1, <3>2
  <2>2. device' \in {"user", "poise", "parked"} /\ entry' \in Entries /\ spoilt' \in BOOLEAN
    <3>1. spoilt' \in BOOLEAN
      BY DEF IInv, TypeOK, Park
    <3> QED
      BY <3>1 DEF IInv, TypeOK, Park, Entries
  <2> QED
    BY <2>1, <2>2 DEF IInv, TypeOK, Entries, Tasks, Park
<1>2. LockInv' /\ SaveInv' /\ ActedInv' /\ IntentInv'
  BY DEF IInv, LockInv, Queued, Park, HasActuated, SaveInv, ActedInv, IntentInv
<1>3. IssueInv'
  BY DEF IInv, IssueInv, Park
<1>4. ModelInv'
  BY DEF IInv, ModelInv, Learnt, Park
<1>5. WrittenIsParked'
  BY DEF IInv, ActedInv, WrittenIsParked, Park
<1> QED
  BY <1>1, <1>2, <1>3, <1>4, <1>5 DEF IInv

LEMMA EnableKeeps ==
  ASSUME IInv, Enable
  PROVE  IInv'
<1>1. TypeOK'
  BY DEF IInv, TypeOK, Entries, Enable
<1>2. LockInv'
  BY DEF IInv, LockInv, Queued, Enable
<1>3. SaveInv'
  BY DEF IInv, SaveInv, Enable
<1>4. ActedInv'
  BY DEF IInv, ActedInv, HasActuated, Enable
<1>5. IntentInv'
  BY DEF IInv, IntentInv, Enable
<1>6. IssueInv'
  BY DEF IInv, IssueInv, Enable
<1>7. ModelInv'
  BY DEF IInv, ModelInv, Enable
<1>8. WrittenIsParked'
  BY DEF IInv, WrittenIsParked, Enable
<1> QED
  BY <1>1, <1>2, <1>3, <1>4, <1>5, <1>6, <1>7, <1>8 DEF IInv

LEMMA RemoveDisabledKeeps ==
  ASSUME IInv, RemoveDisabled
  PROVE  IInv'
<1>1. TypeOK'
  BY DEF IInv, TypeOK, Entries, RemoveDisabled
<1>2. LockInv'
  BY DEF IInv, LockInv, Queued, RemoveDisabled
<1>3. SaveInv'
  BY DEF IInv, SaveInv, RemoveDisabled
<1>4. ActedInv'
  BY DEF IInv, ActedInv, HasActuated, RemoveDisabled
<1>5. IntentInv'
  BY DEF IInv, IntentInv, RemoveDisabled
<1>6. IssueInv'
  BY DEF IInv, IssueInv, RemoveDisabled
<1>7. ModelInv'
  BY DEF IInv, ModelInv, RemoveDisabled
<1>8. WrittenIsParked'
  BY DEF IInv, WrittenIsParked, RemoveDisabled
<1> QED
  BY <1>1, <1>2, <1>3, <1>4, <1>5, <1>6, <1>7, <1>8 DEF IInv

LEMMA StopKeeps ==
  ASSUME IInv, Stop
  PROVE  IInv'
<1>1. TypeOK'
  BY DEF IInv, TypeOK, Entries, Tasks, Stop, Enqueued
<1>2. LockInv'
  <2>1. entry \in {"loaded", "stuck"} /\ entry' = "stopping" /\ shut' = TRUE /\ step' = step
    BY DEF Stop
  <2>2. lock \in Seq(Tasks) /\ AllWork(lock) /\ lock' = Append(lock, "stop")
    BY <2>1 DEF IInv, TypeOK, LockInv, Queued, Stop, Enqueued, AllWork
  <2>3. Closes(lock', "stop") /\ lock' # <<>> /\ (lock # <<>> => Head(lock') = Head(lock))
    BY <2>2, WorkQueues, AppendFacts DEF Tasks
  <2> QED
    BY <2>1, <2>3 DEF IInv, LockInv, Queued
<1>3. SaveInv'
  BY DEF IInv, SaveInv, Stop
<1>4. ActedInv'
  BY DEF IInv, ActedInv, Stop, Fault
<1>5. IntentInv'
  BY DEF IInv, IntentInv, Stop
<1>6. IssueInv'
  BY DEF IInv, IssueInv, Stop
<1>7. ModelInv'
  BY DEF IInv, ModelInv, Stop, Fault
<1>8. WrittenIsParked'
  BY DEF IInv, WrittenIsParked, Stop, Fault
<1> QED
  BY <1>1, <1>2, <1>3, <1>4, <1>5, <1>6, <1>7, <1>8 DEF IInv

LEMMA CrashKeeps ==
  ASSUME IInv, Crash
  PROVE  IInv'
<1>1. TypeOK'
  BY DEF IInv, TypeOK, Entries, Crash
<1>2. LockInv'
  BY DEF IInv, LockInv, Queued, Crash
<1>3. SaveInv'
  BY DEF IInv, SaveInv, Crash
<1>4. ActedInv'
  BY DEF IInv, ActedInv, LockInv, HasActuated, Crash
<1>5. IntentInv'
  BY DEF IInv, IntentInv, Crash
<1>6. IssueInv'
  BY DEF IInv, IssueInv, Crash
<1>7. ModelInv'
  BY DEF IInv, ModelInv, Crash
<1>8. WrittenIsParked'
  BY DEF IInv, WrittenIsParked, Crash
<1> QED
  BY <1>1, <1>2, <1>3, <1>4, <1>5, <1>6, <1>7, <1>8 DEF IInv

LEMMA TornKeeps ==
  ASSUME IInv, Torn
  PROVE  IInv'
<1>1. TypeOK'
  <2>1. disk' \in [content : Content \cup {None}, torn : BOOLEAN]
    BY DEF IInv, TypeOK, Torn
  <2> QED
    BY <2>1 DEF IInv, TypeOK, Entries, Tasks, Torn
<1>2. LockInv' /\ SaveInv' /\ ActedInv' /\ IntentInv'
  BY DEF IInv, LockInv, Torn, SaveInv, ActedInv, HasActuated, IntentInv
<1>3. IssueInv' /\ ModelInv' /\ WrittenIsParked'
  BY DEF IInv, IssueInv, Torn, ModelInv, WrittenIsParked
<1> QED
  BY <1>1, <1>2, <1>3 DEF IInv

LEMMA SomeoneElseKeeps ==
  ASSUME IInv, SomeoneElse
  PROVE  IInv'
<1>1. TypeOK'
  BY DEF IInv, TypeOK, SomeoneElse
<1>2. LockInv'
  BY DEF IInv, LockInv, SomeoneElse
<1>3. SaveInv'
  BY DEF IInv, SaveInv, SomeoneElse
<1>4. ActedInv'
  BY DEF IInv, ActedInv, SomeoneElse
<1>5. IntentInv'
  BY DEF IInv, IntentInv, SomeoneElse
<1>6. IssueInv'
  BY DEF IInv, IssueInv, SomeoneElse
<1>7. ModelInv'
  BY DEF IInv, ModelInv, SomeoneElse
<1>8. WrittenIsParked'
  BY DEF IInv, WrittenIsParked, SomeoneElse
<1> QED
  BY <1>1, <1>2, <1>3, <1>4, <1>5, <1>6, <1>7, <1>8 DEF IInv

LEMMA CalmDownKeeps ==
  ASSUME IInv, CalmDown
  PROVE  IInv'
<1>1. TypeOK'
  BY DEF IInv, TypeOK, CalmDown
<1>2. LockInv'
  BY DEF IInv, LockInv, CalmDown
<1>3. SaveInv'
  BY DEF IInv, SaveInv, CalmDown
<1>4. ActedInv'
  BY DEF IInv, ActedInv, HasActuated, CalmDown
<1>5. IntentInv'
  BY DEF IInv, IntentInv, CalmDown
<1>6. IssueInv'
  BY DEF IInv, IssueInv, CalmDown
<1>7. ModelInv'
  BY DEF IInv, ModelInv, CalmDown
<1>8. WrittenIsParked'
  BY DEF IInv, WrittenIsParked, CalmDown
<1> QED
  BY <1>1, <1>2, <1>3, <1>4, <1>5, <1>6, <1>7, <1>8 DEF IInv

-----------------------------------------------------------------------------
(* All together.                                                           *)

LEMMA InitKeeps == Init => IInv
<1> SUFFICES ASSUME Init PROVE IInv
  OBVIOUS
<1>1. /\ live = [intent |-> FALSE, model |-> FALSE, dose |-> FALSE, acted |-> FALSE, dirty |-> FALSE]
      /\ counts = [save |-> 0, saveFails |-> 0, tickFails |-> 0]
      /\ disk = [content |-> None, torn |-> FALSE]
  BY DEF Init, Live, FreshContent, FreshCounts
<1>2. TypeOK
  <2>1. counts \in [save : 0 .. SaveEvery - 1, saveFails : 0 .. SaveLimit, tickFails : 0 .. TickLimit]
    BY <1>1, Limits
  <2>2. disk \in [content : Content \cup {None}, torn : BOOLEAN]
    BY <1>1
  <2>3. lock \in Seq(Tasks) /\ issues = {} /\ ledger = {}
    BY DEF Init
  <2>4. live \in [intent : BOOLEAN, model : BOOLEAN, dose : BOOLEAN, acted : BOOLEAN, dirty : BOOLEAN]
    BY <1>1
  <2> QED
    BY <2>1, <2>2, <2>3, <2>4 DEF Init, TypeOK, Entries
<1>3. LockInv /\ SaveInv /\ IssueInv /\ WrittenIsParked
  BY DEF Init, LockInv, Queued, SaveInv, IssueInv, WrittenIsParked
<1>4. ActedInv /\ IntentInv /\ ModelInv
  <2>1. disk.content = None /\ live.intent = FALSE /\ entry = "off" /\ device = "user" /\ wish = FALSE
    BY <1>1 DEF Init
  <2> QED
    BY <2>1 DEF ActedInv, IntentInv, ModelInv
<1> QED
  BY <1>2, <1>3, <1>4 DEF IInv

LEMMA NextKeeps ==
  ASSUME IInv, [Next]_vars
  PROVE  IInv'
<1>1. CASE Holder
  <2>1. CASE TickSends
    BY <2>1, TickSendsKeeps
  <2>2. CASE TickCommits
    BY <2>2, TickCommitsKeeps
  <2>3. CASE \E sees \in BOOLEAN : TickFinishes(sees)
    BY <2>3, TickFinishesKeeps
  <2>4. CASE \E ok \in BOOLEAN : Saves(ok) \/ FinalSave(ok) \/ FlushOnStop(ok)
    BY <2>4, SavesKeeps, FinalSaveKeeps, FlushOnStopKeeps
  <2>5. CASE TickRaises
    BY <2>5, TickRaisesKeeps
  <2>6. CASE ApplyOptions
    BY <2>6, ApplyOptionsKeeps
  <2>7. CASE Quiesced
    BY <2>7, QuiescedKeeps
  <2> QED
    BY <1>1, <2>1, <2>2, <2>3, <2>4, <2>5, <2>6, <2>7 DEF Holder
<1>2. CASE SetUp
  BY <1>2, SetUpKeeps
<1>3. CASE ComesUp
  BY <1>3, ComesUpKeeps
<1>4. CASE Refresh
  BY <1>4, RefreshKeeps
<1>5. CASE Command
  BY <1>5, CommandKeeps
<1>6. CASE OptionsSubmitted
  BY <1>6, OptionsSubmittedKeeps
<1>7. CASE Unload
  BY <1>7, UnloadKeeps
<1>8. CASE \E ok \in BOOLEAN : PlatformsUnload(ok)
  BY <1>8, PlatformsUnloadKeeps
<1>9. CASE \E readable, obeyed \in BOOLEAN : Park(readable, obeyed)
  BY <1>9, ParkKeeps
<1>10. CASE Enable
  BY <1>10, EnableKeeps
<1>11. CASE RemoveDisabled
  BY <1>11, RemoveDisabledKeeps
<1>12. CASE Stop
  BY <1>12, StopKeeps
<1>13. CASE Crash
  BY <1>13, CrashKeeps
<1>14. CASE Torn
  BY <1>14, TornKeeps
<1>15. CASE SomeoneElse
  BY <1>15, SomeoneElseKeeps
<1>16. CASE CalmDown
  BY <1>16, CalmDownKeeps
<1>17. CASE UNCHANGED vars
  <2>1. TypeOK' /\ LockInv' /\ SaveInv' /\ ActedInv'
    BY <1>17 DEF IInv, vars, TypeOK, LockInv, SaveInv, ActedInv, HasActuated
  <2>2. IntentInv' /\ IssueInv' /\ ModelInv' /\ WrittenIsParked'
    BY <1>17 DEF IInv, vars, IntentInv, IssueInv, ModelInv, Learnt, WrittenIsParked
  <2> QED
    BY <2>1, <2>2 DEF IInv
<1> QED
  BY <1>1, <1>2, <1>3, <1>4, <1>5, <1>6, <1>7, <1>8, <1>9, <1>10, <1>11, <1>12, <1>13,
     <1>14, <1>15, <1>16, <1>17 DEF Next

LEMMA IInvHolds == Spec => []IInv
BY InitKeeps, NextKeeps, PTL DEF Spec

(***************************************************************************)
(* A zone that is gone has let go of its device and of its issues, one     *)
(* that is unloaded has its user's intent on disk, whatever cadence, limits *)
(* and faults (async_persist_and_cleanup, _park_room_actuator).            *)
(***************************************************************************)
THEOREM EntryAlwaysEndsClean == Spec => []EntryEndsClean
<1>1. IInv => EntryEndsClean
  <2> SUFFICES ASSUME IInv PROVE EntryEndsClean
    OBVIOUS
  <2>1. TypeOK /\ WrittenIsParked
    BY DEF IInv
  <2>2. FlushKeepsIntent
    BY DEF IInv, IntentInv, FlushKeepsIntent
  <2>3. NoGhosts
    BY DEF IInv, IssueInv, NoGhosts
  <2> QED
    BY <2>1, <2>2, <2>3 DEF EntryEndsClean
<1> QED
  BY <1>1, IInvHolds, PTL

(***************************************************************************)
(* Whoever commands the device holds the lock as a tick, and a tick holds  *)
(* it only while the instance lives (async_quiesce waits its turn).        *)
(***************************************************************************)
LEMMA OnlyTheLivingAct ==
  ASSUME IInv, [Next]_vars, device' # device, device' = "poise"
  PROVE  entry \in {"setup", "loaded", "quiesce", "stopping"}
<1>1. TickSends
  BY DEF Next, Holder, vars, TickCommits, TickFinishes, Saves, FinalSave, FlushOnStop, TickRaises,
     ApplyOptions, Quiesced, SetUp, ComesUp, Refresh, Command, OptionsSubmitted, Unload,
     PlatformsUnload, Park, Enable, RemoveDisabled, Stop, Crash, Torn, SomeoneElse, CalmDown
<1> QED
  BY <1>1, WhoHolds DEF TickSends, Holds

\* Whoever writes the store has read what was learned.
LEMMA WritersHaveLearnt ==
  ASSUME IInv, [Next]_vars, Learnt(disk), ~Learnt(disk'), ~disk.torn
  PROVE  entry' = "gone"
<1>1. disk' # disk
  BY DEF Learnt
<1>2. CASE \E ok \in BOOLEAN : Saves(ok)
  <2>1. PICK ok \in BOOLEAN : Saves(ok)
    BY <1>2
  <2>2. disk'.content = payload /\ step = "saving" /\ lock # <<>> /\ Head(lock) = "tick"
    BY <1>1, <2>1 DEF Saves, Holds
  <2>3. live.model /\ payload.model = live.model /\ payload # None
    BY <2>2, WhoHolds DEF IInv, TypeOK, ModelInv, SaveInv
  <2> QED
    BY <2>2, <2>3 DEF Learnt
<1>3. CASE \E ok \in BOOLEAN : FinalSave(ok) \/ FlushOnStop(ok)
  <2>1. PICK ok \in BOOLEAN : FinalSave(ok) \/ FlushOnStop(ok)
    BY <1>3
  <2>2. disk' = Final /\ entry # "off"
    BY <1>1, <2>1, WhoHolds DEF FinalSave, FlushOnStop, Holds
  <2>3. disk'.content = Kept(live)
    BY <2>2 DEF Final
  <2>4. live.model /\ Kept(live).model = live.model /\ Kept(live) # None
    BY <2>2, TypeFields DEF IInv, ModelInv
  <2> QED
    BY <2>3, <2>4 DEF Learnt
<1>4. CASE Torn
  <2>1. disk'.content = disk.content
    BY <1>4 DEF Torn, IInv, TypeOK
  <2> QED
    BY <2>1 DEF Learnt
<1>5. CASE \E readable, obeyed \in BOOLEAN : Park(readable, obeyed)
  BY <1>1, <1>5 DEF Park
<1> QED
  BY <1>1, <1>2, <1>3, <1>4, <1>5 DEF Next, Holder, vars, TickSends, TickCommits, TickFinishes,
     TickRaises, ApplyOptions, Quiesced, SetUp, ComesUp, Refresh, Command, OptionsSubmitted, Unload,
     PlatformsUnload, Enable, RemoveDisabled, Stop, Crash, SomeoneElse, CalmDown

\* What the user wanted comes back, be the learned part torn.
LEMMA IntentIsRestored ==
  ASSUME IInv, [Next]_vars, entry = "off", entry' = "setup", disk.content # None
  PROVE  live'.intent = disk.content.intent
<1>1. SetUp
  <2>1. lock = <<>>
    BY DEF IInv, LockInv, Queued
  <2> QED
    BY <2>1 DEF Next, Holder, Holds, vars, TickSends, TickCommits, TickFinishes, Saves, FinalSave,
       FlushOnStop, TickRaises, ApplyOptions, Quiesced, ComesUp, Refresh, Command, OptionsSubmitted,
       Unload, PlatformsUnload, Park, Enable, RemoveDisabled, Stop, Crash, Torn, SomeoneElse, CalmDown
<1>2. IntentInv'
  BY <1>1, SetUpKeeps DEF IInv
<1> QED
  BY <1>1, <1>2 DEF IntentInv, SetUp

(***************************************************************************)
(* Nothing is done by the dead and nothing is lost by the living, whatever *)
(* cadence, limits and faults (async_quiesce, async_bootstrap, codec.py).  *)
(***************************************************************************)
THEOREM EntryNeverLoses == Spec => EntryLosesNothing
<1>1. IInv /\ [Next]_vars =>
        [device' # device /\ device' = "poise" => entry \in {"setup", "loaded", "quiesce", "stopping"}]_vars
  BY OnlyTheLivingAct
<1>2. IInv /\ [Next]_vars =>
        [Learnt(disk) /\ ~Learnt(disk') => disk.torn \/ entry' = "gone"]_vars
  BY WritersHaveLearnt
<1>3. IInv /\ [Next]_vars =>
        [entry = "off" /\ entry' = "setup" /\ disk.content # None
           => live'.intent = disk.content.intent]_vars
  BY IntentIsRestored
<1> QED
  BY <1>1, <1>2, <1>3, IInvHolds, PTL
     DEF Spec, EntryLosesNothing, TheDeadDoNotAct, LearningIsKept, TornKeepsIntent
-----------------------------------------------------------------------------
(* The other entry: the hub's.                                             *)

\* The store of the hub and the services it calls work.
StoreServes == HubFaults \cap {"callFails", "saveFails", "loadFails"} = {}

\* While the room moves, the hub rests.
LEMMA HubPart == PartsSpec => Hub!Spec
<1>1. PartsInit => Hub!Init
  BY DEF PartsInit
<1>2. [PartsNext]_<<part, vars, hub>> => [Hub!Next]_(Hub!vars)
  BY DEF PartsNext, hub, Hub!vars, Hub!hub, Hub!tick, Hub!plant
<1> QED
  BY <1>1, <1>2, PTL DEF PartsSpec, Hub!Spec

\* In the run of the entries as in the hub alone, for every set of zones and timers: as
\* long as the store and the services work, removing, disabling or unwiring a hub that has
\* switched its boiler turns the boiler off, with a call or a save under way as well, and
\* nothing of the unloaded entry turns it on again but a call that was under way (AR-15,
\* F27, F4).
THEOREM HubLeavesItOff ==
  ASSUME StoreServes
  PROVE  PartsSpec => RemovalLeavesItOff
<1>0. Hub!StoreWorks
  BY DEF StoreServes, Hub!StoreWorks
<1>1. Hub!HubAssumption /\ Hub!DemandAssumption /\ Hub!TimersAssumption
  BY PartsAssumption
<1>2. Hub!Spec => Hub!RemovalLeavesItOff
  BY <1>0, <1>1, Hub!RemovalStaysOff
<1>3. [Hub!LeavesItOff]_(Hub!vars) => [part = "hub" => Hub!LeavesItOff]_hub
  BY DEF hub, Hub!vars, Hub!hub, Hub!tick, Hub!plant
<1> QED
  BY <1>2, <1>3, HubPart, PTL DEF Hub!RemovalLeavesItOff, RemovalLeavesItOff
===============================================================================

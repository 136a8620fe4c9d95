----------------------------- MODULE MvsProofs -----------------------------
(***************************************************************************)
(* Proofs about Mvs, for every registry and every input: the selection is  *)
(* well typed, is a closure when the run ends, meets its seeds, only rises *)
(* while the run goes on, and holds only requested versions.               *)
(***************************************************************************)
EXTENDS Mvs, TLAPS

LEMMA SeqWiden ==
  ASSUME NEW S, NEW T, S \subseteq T, NEW s \in Seq(S)
  PROVE  s \in Seq(T)
OBVIOUS

LEMMA RequiresType ==
  ASSUME TypeOK, NEW id \in Ids, NEW v \in Versions
  PROVE  Requires(id, v) \in Seq(Requirement)
<1>1. registry \in [Ids -> [Versions -> Manifest]]
  BY DEF TypeOK, Registry
<1>2. registry[id] \in [Versions -> Manifest]
  BY <1>1
<1>3. registry[id][v] \in Manifest
  BY <1>2
<1>4. /\ registry[id][v].direct \in Seq(Requirement)
      /\ registry[id][v].indirect \in Seq(Requirement)
  BY <1>3 DEF Manifest
<1> QED BY <1>4 DEF Requires

LEMMA VersionNat ==
  ASSUME MvsAssumption, NEW v, v \in Versions \cup {0}
  PROVE  v \in Nat
<1>1. CASE v = 0
  BY <1>1
<1>2. CASE v \in Versions
  BY <1>2 DEF MvsAssumption
<1> QED BY <1>1, <1>2

LEMMA SelectedType ==
  ASSUME TypeOK, MvsAssumption, NEW id \in Ids
  PROVE  selected[id] \in Versions \cup {0} /\ selected[id] \in Nat
<1>1. selected[id] \in Versions \cup {Absent}
  BY DEF TypeOK
<1> QED BY <1>1, VersionNat DEF Absent

(* The two kinds of list the loop reads hold requirements with a typed id. *)
LEMMA SourceType ==
  ASSUME TypeOK, MvsAssumption
  PROVE  /\ Source \in Seq(Requirement)
         /\ Seeds \in Seq(Requirement)
<1>1. input.direct \in Seq(Requirement)
  <2>1. [id : Ids \ StdlibIds, version : Versions \cup {Absent}] \subseteq Requirement
    BY DEF Requirement
  <2>2. input.direct \in Seq([id : Ids \ StdlibIds, version : Versions \cup {Absent}])
    BY DEF TypeOK, Input
  <2> QED BY <2>1, <2>2, SeqWiden
<1>2. input.floors \in Seq(Requirement)
  <2>1. [id : Ids \ StdlibIds, version : Versions] \subseteq Requirement
    BY DEF Requirement
  <2>2. input.floors \in Seq([id : Ids \ StdlibIds, version : Versions])
    BY DEF TypeOK, Input
  <2> QED BY <2>1, <2>2, SeqWiden
<1>3. Seeds \in Seq(Requirement)
  BY <1>1, <1>2 DEF Seeds
<1>4. Requires(visiting.id, visiting.version) \in Seq(Requirement)
  <2>1. visiting.id \in Ids /\ visiting.version \in Versions
    BY DEF TypeOK
  <2> QED BY <2>1, RequiresType
<1> QED BY <1>3, <1>4 DEF Source

(* Type correctness needs to know that a queued id has a version: Visit    *)
(* reads it.                                                               *)
LEMMA TypeStep ==
  ASSUME MvsAssumption, TypeOK, QueuedSelected, [Next]_vars
  PROVE  TypeOK'
<1> USE DEF Absent
<1>1. ASSUME NEW in \in Inputs, Start(in) PROVE TypeOK'
  BY <1>1 DEF TypeOK, Start, MvsAssumption, Nothing, Idle, Busy
<1>2. CASE SkipStdlib
  BY <1>2 DEF TypeOK, SkipStdlib
<1>3. CASE RaiseFloor
  <2>1. Source[next] \in Requirement
    BY <1>3, SourceType DEF RaiseFloor, Merging, TypeOK
  <2>2. /\ Source[next].id \in Ids
        /\ Source[next].version \in Versions \cup {0}
    BY <2>1 DEF Requirement
  <2>3. Source[next].version > selected[Source[next].id]
    BY <1>3 DEF RaiseFloor, RaisesFloor
  <2>4. selected[Source[next].id] \in Nat
    BY <2>2, SelectedType
  <2>5. Source[next].version \in Versions
    BY <2>2, <2>3, <2>4
  <2> QED BY <2>2, <2>5, <1>3 DEF RaiseFloor, RaisedTo, Enqueued, TypeOK
<1>4. CASE KeepFloor
  BY <1>4 DEF TypeOK, KeepFloor
<1>5. CASE FailSpec
  BY <1>5 DEF TypeOK, FailSpec, Idle
<1>6. CASE EndSource
  BY <1>6 DEF TypeOK, EndSource, Busy
<1>7. CASE Visit
  <2>1. Head(queue) \in Ids /\ selected[Head(queue)] \in Versions
    BY <1>7 DEF Visit, TypeOK, QueuedSelected, Selected
  <2> QED BY <2>1, <1>7 DEF Visit, TypeOK, Busy, Idle
<1>8. CASE Finish
  BY <1>8 DEF TypeOK, Finish, Idle
<1>9. CASE UNCHANGED vars
  BY <1>9 DEF TypeOK, vars
<1> QED BY <1>1, <1>2, <1>3, <1>4, <1>5, <1>6, <1>7, <1>8, <1>9 DEF Next, Step

LEMMA InitTypeOK == MvsAssumption /\ Init => TypeOK /\ Inv
<1> SUFFICES ASSUME MvsAssumption, Init PROVE TypeOK /\ Inv
  OBVIOUS
<1>1. (CHOOSE in \in Inputs : TRUE) \in Inputs
  BY DEF MvsAssumption
<1>2. (CHOOSE x \in [id : Ids, version : Versions] : TRUE) \in [id : Ids, version : Versions]
  <2>1. PICK i \in Ids, v \in Versions : TRUE
    BY DEF MvsAssumption
  <2>2. [id |-> i, version |-> v] \in [id : Ids, version : Versions]
    OBVIOUS
  <2> QED BY <2>2
<1>3. TypeOK
  BY <1>1, <1>2 DEF Init, TypeOK, MvsAssumption, Nothing, Idle
<1>4. Inv
  BY DEF Init, Inv, Pending, SeedsPending, QueuedSelected, Busy
<1> QED BY <1>3, <1>4

-----------------------------------------------------------------------------
(* How a rise of the selection affects what was met before it. *)

LEMMA SatisfiedRises ==
  ASSUME TypeOK, MvsAssumption, NEW r \in Requirement, Satisfied(r),
         \A j \in Ids : selected'[j] \in Nat /\ selected'[j] >= selected[j]
  PROVE  Meets(selected', r)
<1>1. CASE r.id \in StdlibIds
  BY <1>1 DEF Meets
<1>2. CASE r.id \notin StdlibIds
  <2>1. r.id \in Ids /\ r.version \in Versions \cup {Absent}
    BY DEF Requirement
  <2>2. r.version # Absent /\ r.version <= selected[r.id]
    BY <1>2 DEF Satisfied, Meets
  <2>3. r.version \in Nat
    BY <2>1, <2>2 DEF MvsAssumption
  <2>4. selected[r.id] \in Nat /\ selected'[r.id] \in Nat /\ selected'[r.id] >= selected[r.id]
    BY <2>1, SelectedType
  <2> QED BY <2>2, <2>3, <2>4 DEF Meets
<1> QED BY <1>1, <1>2

LEMMA ClosedRises ==
  ASSUME TypeOK, MvsAssumption, registry' = registry,
         \A j \in Ids : selected'[j] \in Nat /\ selected'[j] >= selected[j],
         NEW id \in Ids, selected[id] \in Versions, selected'[id] = selected[id],
         Closed(id)
  PROVE  Closed(id)'
<1>1. Requires(id, selected[id]) \in Seq(Requirement)
  BY RequiresType
<1>2. Requires(id, selected[id])' = Requires(id, selected[id])
  BY DEF Requires
<1> SUFFICES ASSUME NEW i \in 1..Len(Requires(id, selected[id]))
             PROVE  Satisfied(Requires(id, selected[id])[i])'
  BY <1>2 DEF Closed
<1>3. Requires(id, selected[id])[i] \in Requirement
  BY <1>1
<1>4. Satisfied(Requires(id, selected[id])[i])
  BY DEF Closed
<1> DEFINE r == Requires(id, selected[id])[i]
<1>5. Meets(selected', r)
  <2> HIDE DEF r
  <2>1. r \in Requirement /\ Satisfied(r)
    BY <1>3, <1>4 DEF r
  <2> QED BY <2>1, SatisfiedRises
<1> QED BY <1>2, <1>5 DEF Satisfied, Meets

-----------------------------------------------------------------------------
(* What SkipStdlib, KeepFloor and RaiseFloor have in common: requirement   *)
(* `next` is met afterwards, the selection only rises, and an id whose     *)
(* selection changes is queued.                                            *)

LEMMA MergeKeepsPending ==
  ASSUME TypeOK, MvsAssumption, Pending, Merging,
         registry' = registry, pc' = pc, visiting' = visiting, next' = next + 1,
         \A j \in Ids : selected'[j] \in Nat /\ selected'[j] >= selected[j],
         \A j \in Ids : InQueue(j) => InQueue(j)',
         \A j \in Ids : selected'[j] = selected[j] \/ InQueue(j)',
         pc = "merging" => Meets(selected', Source[next])
  PROVE  Pending'
<1> SUFFICES ASSUME NEW id \in Selected', ~InQueue(id)'
             PROVE  BeingVisited(id)' \/ Closed(id)'
  BY DEF Pending
<1>1. id \in Ids /\ selected'[id] = selected[id] /\ ~InQueue(id)
  BY DEF Selected
<1>2. selected[id] \in Versions
  BY <1>1, SelectedType DEF Selected, Absent
<1>3. BeingVisited(id) \/ Closed(id)
  BY <1>1 DEF Pending, Selected, Merging, Busy
<1>4. CASE Closed(id)
  BY <1>1, <1>2, <1>4, ClosedRises
<1>5. CASE BeingVisited(id)
  <2>1. pc = "merging" /\ visiting = [id |-> id, version |-> selected[id]]
    BY <1>5 DEF BeingVisited
  <2>2. Source = Requires(id, selected[id]) /\ Source' = Source
    BY <2>1, <1>1 DEF Source, Requires
  <2>3. ASSUME NEW i \in 1..Len(Source), i < next + 1
        PROVE  Satisfied(Source[i])'
    <3>1. CASE i = next
      BY <3>1, <2>1, <2>2 DEF Satisfied, Meets
    <3>2. CASE i # next
      <4>1. i < next
        BY <2>3, <3>2 DEF TypeOK
      <4>2. Satisfied(Source[i])
        BY <4>1, <2>2, <1>5 DEF BeingVisited
      <4>3. Source[i] \in Requirement
        BY SourceType
      <4> DEFINE r == Source[i]
      <4>4. Meets(selected', r)
        <5> HIDE DEF r
        <5>1. r \in Requirement /\ Satisfied(r)
          BY <4>2, <4>3 DEF r
        <5> QED BY <5>1, SatisfiedRises
      <4> QED BY <4>4, <2>2 DEF Satisfied, Meets
    <3> QED BY <3>1, <3>2
  <2>4. \A i \in 1..Len(Source) : i < next' => Satisfied(Source[i])'
    BY <2>3
  <2>5. Requires(id, selected[id])' = Source
    BY <2>2, <1>1 DEF Requires
  <2> QED BY <1>1, <2>1, <2>2, <2>4, <2>5 DEF BeingVisited
<1> QED BY <1>3, <1>4, <1>5

LEMMA MergeKeepsSeeds ==
  ASSUME TypeOK, MvsAssumption, SeedsPending, Merging,
         input' = input, pc' = pc, next' = next + 1,
         \A j \in Ids : selected'[j] \in Nat /\ selected'[j] >= selected[j],
         pc = "seeding" => Meets(selected', Source[next])
  PROVE  SeedsPending'
<1>1. Seeds' = Seeds /\ Seeds \in Seq(Requirement)
  BY SourceType DEF Seeds
<1> SUFFICES ASSUME NEW i \in 1..Len(Seeds), pc = "seeding" => i < next + 1
             PROVE  Satisfied(Seeds[i])'
  BY <1>1 DEF SeedsPending
<1>2. CASE pc = "seeding" /\ i = next
  BY <1>1, <1>2 DEF Source, Satisfied, Meets
<1>3. CASE ~(pc = "seeding" /\ i = next)
  <2>1. pc = "seeding" => i < next
    BY <1>3 DEF TypeOK
  <2>2. Satisfied(Seeds[i])
    BY <2>1 DEF SeedsPending, Merging, Busy
  <2>3. Seeds[i] \in Requirement
    BY <1>1
  <2> DEFINE r == Seeds[i]
  <2>4. Meets(selected', r)
    <3> HIDE DEF r
    <3>1. r \in Requirement /\ Satisfied(r)
      BY <2>2, <2>3 DEF r
    <3> QED BY <3>1, SatisfiedRises
  <2> QED BY <2>4, <1>1 DEF Satisfied, Meets
<1> QED BY <1>2, <1>3

-----------------------------------------------------------------------------
(* The three merging actions satisfy the hypotheses of the two lemmas. *)

LEMMA MergeStep ==
  ASSUME TypeOK, MvsAssumption, QueuedSelected, SkipStdlib \/ KeepFloor \/ RaiseFloor
  PROVE  /\ Merging
         /\ registry' = registry /\ input' = input /\ pc' = pc
         /\ visiting' = visiting /\ next' = next + 1
         /\ \A j \in Ids : selected'[j] \in Nat /\ selected'[j] >= selected[j]
         /\ \A j \in Ids : InQueue(j) => InQueue(j)'
         /\ \A j \in Ids : selected'[j] = selected[j] \/ InQueue(j)'
         /\ Meets(selected', Source[next])
         /\ QueuedSelected'
<1>1. \A j \in Ids : selected[j] \in Nat
  BY SelectedType
<1>2. CASE SkipStdlib
  BY <1>1, <1>2 DEF SkipStdlib, InQueue, Meets, QueuedSelected, Selected
<1>3. ASSUME Merging PROVE /\ Source[next].id \in Ids
                           /\ Source[next].version \in Nat
  <2>1. Source[next] \in Requirement
    BY <1>3, SourceType DEF Merging, TypeOK
  <2>2. Source[next].id \in Ids /\ Source[next].version \in Versions \cup {0}
    BY <2>1 DEF Requirement, Absent
  <2> QED BY <2>2, VersionNat
<1>4. CASE KeepFloor
  <2>1. Source[next].version # Absent /\ ~(Source[next].version > selected[Source[next].id])
    BY <1>4 DEF KeepFloor, RaisesFloor
  <2>2. Source[next].version <= selected[Source[next].id]
    BY <2>1, <1>1, <1>3, <1>4 DEF KeepFloor
  <2> QED BY <1>1, <1>4, <2>1, <2>2 DEF KeepFloor, InQueue, Meets, QueuedSelected, Selected
<1>5. CASE RaiseFloor
  <2>1. PICK id \in Ids, v \in Nat :
          /\ id = Source[next].id /\ v = Source[next].version
          /\ Merging /\ v > selected[id]
    BY <1>3, <1>5 DEF RaiseFloor, RaisesFloor
  <2>2. /\ selected' = [selected EXCEPT ![id] = v]
        /\ queue' = Append(queue, id)
    BY <1>5, <2>1 DEF RaiseFloor, RaisedTo, Enqueued
  <2>3. /\ registry' = registry /\ input' = input /\ pc' = pc
        /\ visiting' = visiting /\ next' = next + 1
    BY <1>5 DEF RaiseFloor
  <2>4. selected'[id] = v /\ \A j \in Ids : j # id => selected'[j] = selected[j]
    BY <2>1, <2>2 DEF TypeOK
  <2>5. \A j \in Ids : selected'[j] \in Nat /\ selected'[j] >= selected[j]
    BY <1>1, <2>1, <2>4
  <2>6. /\ Len(queue') = Len(queue) + 1
        /\ queue'[Len(queue) + 1] = id
        /\ \A i \in 1..Len(queue) : queue'[i] = queue[i]
    BY <2>1, <2>2 DEF TypeOK
  <2>7. Len(queue) \in Nat
    BY DEF TypeOK
  <2>8. InQueue(id)'
    BY <2>6, <2>7 DEF InQueue
  <2>9. \A j \in Ids : InQueue(j) => InQueue(j)'
    BY <2>6, <2>7 DEF InQueue
  <2>10. Meets(selected', Source[next])
    <3>1. v # Absent /\ v <= selected'[id]
      BY <1>1, <2>1, <2>4 DEF Absent
    <3> QED BY <3>1, <2>1 DEF Meets
  <2>11. QueuedSelected'
    <3>1. ASSUME NEW i \in 1..Len(queue') PROVE queue'[i] \in Selected'
      <4>1. CASE i = Len(queue) + 1
        BY <4>1, <2>1, <2>4, <2>6, <1>1 DEF Selected, Absent
      <4>2. CASE i # Len(queue) + 1
        <5>1. i \in 1..Len(queue)
          BY <4>2, <2>6, <2>7
        <5>2. queue[i] \in Selected
          BY <5>1 DEF QueuedSelected
        <5>3. queue[i] \in Ids /\ selected[queue[i]] # 0
          BY <5>2 DEF Selected, Absent
        <5>4. selected'[queue[i]] # 0
          BY <5>3, <2>5, <1>1
        <5> QED BY <5>1, <5>3, <5>4, <2>6 DEF Selected, Absent
      <4> QED BY <4>1, <4>2
    <3>2. pc' = "merging" => visiting'.version <= selected'[visiting'.id]
      <4>1. visiting.id \in Ids /\ visiting.version \in Versions
        BY DEF TypeOK
      <4>2. visiting.version \in Nat
        BY <4>1, VersionNat
      <4> QED BY <4>1, <4>2, <1>1, <2>3, <2>5 DEF QueuedSelected
    <3>3. pc' # "resolved"
      BY <2>1, <2>3 DEF Merging
    <3> QED BY <3>1, <3>2, <3>3 DEF QueuedSelected
  <2> QED BY <2>1, <2>3, <2>4, <2>5, <2>8, <2>9, <2>10, <2>11
<1> QED BY <1>2, <1>4, <1>5

-----------------------------------------------------------------------------
(* The inductive step: one step per action. *)

LEMMA SameSelectionSameClosed ==
  ASSUME registry' = registry, selected' = selected, NEW id
  PROVE  Closed(id)' = Closed(id)
<1>1. Requires(id, selected[id])' = Requires(id, selected[id])
  BY DEF Requires
<1>2. \A r : Satisfied(r)' = Satisfied(r)
  BY DEF Satisfied, Meets
<1> QED BY <1>1, <1>2 DEF Closed

LEMMA InvStep ==
  ASSUME MvsAssumption, TypeOK, Inv, [Next]_vars
  PROVE  Inv'
<1> USE DEF Inv
<1>1. ASSUME NEW in \in Inputs, Start(in) PROVE Inv'
  <2>1. /\ pc' = "seeding" /\ next' = 1 /\ queue' = <<>> /\ selected' = Nothing
    BY <1>1 DEF Start
  <2>2. Pending'
    BY <2>1 DEF Pending, Selected, Nothing
  <2>3. SeedsPending'
    <3>1. \A i \in 1..Len(Seeds') : ~(i < 1)
      OBVIOUS
    <3> QED BY <2>1, <3>1 DEF SeedsPending
  <2>4. QueuedSelected'
    BY <2>1 DEF QueuedSelected
  <2> QED BY <2>2, <2>3, <2>4
<1>2. CASE SkipStdlib \/ KeepFloor \/ RaiseFloor
  BY <1>2, MergeStep, MergeKeepsPending, MergeKeepsSeeds
<1>3. CASE FailSpec
  BY <1>3 DEF FailSpec, Pending, SeedsPending, QueuedSelected, Selected, Busy
<1>4. CASE EndSource
  <2>1. /\ pc' = "popping" /\ ~(next <= Len(Source)) /\ pc \in {"seeding", "merging"}
        /\ UNCHANGED <<registry, input, selected, queue, visiting, next>>
    BY <1>4, SourceType DEF EndSource, TypeOK
  <2>2. Pending'
    <3> SUFFICES ASSUME NEW id \in Selected, ~InQueue(id) PROVE Closed(id)
      BY <2>1, SameSelectionSameClosed DEF Pending, Selected, InQueue
    <3>1. BeingVisited(id) \/ Closed(id)
      BY <2>1 DEF Pending, Busy
    <3>2. ASSUME BeingVisited(id) PROVE Closed(id)
      <4>1. pc = "merging" /\ Source = Requires(id, selected[id])
        BY <3>2 DEF BeingVisited, Source
      <4>2. \A i \in 1..Len(Source) : i < next
        BY <2>1, SourceType DEF TypeOK
      <4> QED BY <3>2, <4>1, <4>2 DEF BeingVisited, Closed
    <3> QED BY <3>1, <3>2
  <2>3. SeedsPending'
    <3>1. pc = "seeding" => \A i \in 1..Len(Seeds) : i < next
      BY <2>1, SourceType DEF Source, TypeOK
    <3> QED BY <2>1, <3>1 DEF SeedsPending, Seeds, Satisfied, Meets, Busy
  <2>4. QueuedSelected'
    BY <2>1 DEF QueuedSelected, Selected
  <2> QED BY <2>2, <2>3, <2>4
<1>5. CASE Visit
  <2> DEFINE id0 == Head(queue)
  <2>1. /\ pc = "popping" /\ queue # <<>> /\ queue \in Seq(Ids)
        /\ queue' = Tail(queue) /\ next' = 1
        /\ visiting' = [id |-> Head(queue), version |-> selected[Head(queue)]]
        /\ pc' \in {"merging", "failed"}
        /\ UNCHANGED <<registry, input, selected>>
    BY <1>5 DEF Visit, TypeOK
  <2>2. /\ Len(queue) \in Nat \ {0}
        /\ Head(queue) = queue[1]
        /\ Len(queue') = Len(queue) - 1
        /\ \A i \in 1..Len(queue') : queue'[i] = queue[i + 1]
    BY <2>1
  <2>3. Pending'
    <3> SUFFICES ASSUME NEW id \in Selected, ~InQueue(id)', pc' = "merging"
                 PROVE  BeingVisited(id)' \/ Closed(id)
      BY <2>1, ZenonT(60) DEF Pending, Selected, Closed, Satisfied, Meets, Requires, Busy
    <3>1. CASE id = queue[1]
      <4>1. \A i \in 1..Len(Requires(id, selected[id])) : ~(i < 1)
        OBVIOUS
      <4> QED BY <2>1, <2>2, <3>1, <4>1 DEF BeingVisited, Requires
    <3>2. CASE id # queue[1]
      <4>1. ~InQueue(id)
        <5> SUFFICES ASSUME NEW i \in 1..Len(queue), queue[i] = id PROVE FALSE
          BY DEF InQueue
        <5>1. i # 1 /\ i - 1 \in 1..Len(queue') /\ (i - 1) + 1 = i
          BY <2>2, <3>2
        <5>2. queue'[i - 1] = id
          BY <2>2, <5>1
        <5> QED BY <5>1, <5>2 DEF InQueue
      <4>2. ~BeingVisited(id)
        BY <2>1 DEF BeingVisited
      <4> QED BY <4>1, <4>2, <2>1 DEF Pending, Busy
    <3> QED BY <3>1, <3>2
  <2>4. SeedsPending'
    BY <2>1 DEF SeedsPending, Seeds, Satisfied, Meets, Busy
  <2>5. QueuedSelected'
    <3>1. \A i \in 1..Len(queue') : queue'[i] \in Selected
      BY <2>2 DEF QueuedSelected
    <3>2. visiting'.version <= selected'[visiting'.id]
      <4>1. Head(queue) \in Ids
        BY <2>1
      <4>2. selected[Head(queue)] \in Nat
        BY <4>1, SelectedType
      <4> QED BY <2>1, <4>2
    <3> QED BY <2>1, <3>1, <3>2 DEF QueuedSelected, Selected
  <2> QED BY <2>3, <2>4, <2>5
<1>6. CASE Finish
  <2>1. /\ pc = "popping" /\ pc' = "resolved" /\ queue = <<>>
        /\ UNCHANGED <<registry, input, selected, queue, visiting, next>>
    BY <1>6 DEF Finish
  <2>2. Pending'
    BY <2>1, SameSelectionSameClosed DEF Pending, Selected, InQueue, BeingVisited, Busy
  <2>3. SeedsPending'
    BY <2>1 DEF SeedsPending, Seeds, Satisfied, Meets, Busy
  <2>4. QueuedSelected'
    BY <2>1 DEF QueuedSelected, Selected
  <2> QED BY <2>2, <2>3, <2>4
<1>7. CASE UNCHANGED vars
  <2>1. UNCHANGED <<registry, input, pc, selected, queue, visiting, next>>
    BY <1>7 DEF vars
  <2>2. Pending' = Pending
    <3>1. \A id : BeingVisited(id)' = BeingVisited(id)
      BY <2>1 DEF BeingVisited, Satisfied, Meets, Requires
    <3> QED BY <2>1, <3>1, SameSelectionSameClosed DEF Pending, Selected, InQueue
  <2>3. SeedsPending' = SeedsPending
    BY <2>1 DEF SeedsPending, Seeds, Satisfied, Meets
  <2>4. QueuedSelected' = QueuedSelected
    BY <2>1 DEF QueuedSelected, Selected
  <2> QED BY <2>2, <2>3, <2>4
<1> QED BY <1>1, <1>2, <1>3, <1>4, <1>5, <1>6, <1>7 DEF Next, Step

-----------------------------------------------------------------------------
LEMMA GroundedStep ==
  ASSUME MvsAssumption, TypeOK, QueuedSelected, GroundedVisit, [Next]_vars
  PROVE  GroundedVisit'
<1>1. ASSUME NEW in \in Inputs, Start(in) PROVE GroundedVisit'
  BY <1>1 DEF Start, GroundedVisit, Selected, Nothing
<1>2. ASSUME pc # "idle", registry' = registry, input' = input,
             NEW S \in SUBSET (Ids \X Versions), RequestClosed(S)'
      PROVE  /\ RequestClosed(S)
             /\ \A id \in Selected : <<id, selected[id]>> \in S
             /\ pc = "merging" => <<visiting.id, visiting.version>> \in S
  <2>1. RequestClosed(S)
    BY <1>2 DEF RequestClosed, Seeds, Requires
  <2> QED BY <1>2, <2>1 DEF GroundedVisit
<1>3. CASE SkipStdlib \/ KeepFloor \/ FailSpec \/ EndSource \/ Finish
  <2>1. /\ pc # "idle" /\ (pc' = "merging" => pc = "merging")
        /\ UNCHANGED <<registry, input, selected, visiting>>
    BY <1>3 DEF SkipStdlib, KeepFloor, FailSpec, EndSource, Finish, Merging
  <2> QED BY <1>2, <2>1 DEF GroundedVisit, Selected
<1>4. CASE RaiseFloor
  <2>1. PICK id \in Ids, v \in Versions :
          /\ id = Source[next].id /\ v = Source[next].version /\ id \notin StdlibIds
          /\ selected' = [selected EXCEPT ![id] = v]
    <3>1. Source[next] \in Requirement
      BY <1>4, SourceType DEF RaiseFloor, Merging, TypeOK
    <3>2. Source[next].id \in Ids /\ Source[next].version \in Versions \cup {0}
      BY <3>1 DEF Requirement, Absent
    <3>3. Source[next].version > selected[Source[next].id]
      BY <1>4 DEF RaiseFloor, RaisesFloor
    <3>4. selected[Source[next].id] \in Nat
      BY <3>2, SelectedType
    <3>5. Source[next].version \in Versions
      BY <3>2, <3>3, <3>4
    <3> QED BY <1>4, <3>2, <3>5 DEF RaiseFloor, RaisedTo
  <2>2. /\ pc \in {"seeding", "merging"} /\ next \in 1..Len(Source)
        /\ UNCHANGED <<registry, input, pc, visiting>>
    BY <1>4, SourceType DEF RaiseFloor, Merging, TypeOK
  <2> SUFFICES ASSUME NEW S \in SUBSET (Ids \X Versions), RequestClosed(S)'
               PROVE  /\ \A j \in Selected' : <<j, selected'[j]>> \in S
                      /\ pc' = "merging" => <<visiting'.id, visiting'.version>> \in S
    BY DEF GroundedVisit
  <2>3. /\ RequestClosed(S)
        /\ \A j \in Selected : <<j, selected[j]>> \in S
        /\ pc = "merging" => <<visiting.id, visiting.version>> \in S
    BY <1>2, <2>2
  <2>4. v # Absent
    BY DEF MvsAssumption, Absent
  <2>5. <<id, v>> \in S
    <3>1. CASE pc = "seeding"
      BY <3>1, <2>1, <2>2, <2>3, <2>4 DEF Source, RequestClosed
    <3>2. CASE pc = "merging"
      <4> DEFINE s == <<visiting.id, visiting.version>>
      <4>1. s \in S /\ s[1] = visiting.id /\ s[2] = visiting.version
        BY <3>2, <2>3
      <4>2. \A i \in 1..Len(Source) :
              \/ Source[i].id \in StdlibIds \/ Source[i].version = Absent
              \/ <<Source[i].id, Source[i].version>> \in S
        BY <3>2, <4>1, <2>3 DEF Source, RequestClosed
      <4> QED BY <4>2, <2>1, <2>2, <2>4
    <3> QED BY <2>2, <3>1, <3>2
  <2>6. \A j \in Selected' : <<j, selected'[j]>> \in S
    <3> SUFFICES ASSUME NEW j \in Selected' PROVE <<j, selected'[j]>> \in S
      OBVIOUS
    <3>1. j \in Ids /\ selected'[j] # Absent
      BY DEF Selected
    <3>2. CASE j = id
      BY <2>1, <2>5, <3>2 DEF TypeOK
    <3>3. CASE j # id
      BY <2>1, <2>3, <3>1, <3>3 DEF TypeOK, Selected
    <3> QED BY <3>2, <3>3
  <2> QED BY <2>2, <2>3, <2>6
<1>5. CASE Visit
  <2>1. /\ pc = "popping" /\ UNCHANGED <<registry, input, selected>>
        /\ visiting' = [id |-> Head(queue), version |-> selected[Head(queue)]]
        /\ Head(queue) = queue[1] /\ 1 \in 1..Len(queue)
    BY <1>5 DEF Visit, TypeOK
  <2>2. Head(queue) \in Selected
    BY <2>1 DEF QueuedSelected
  <2>3. visiting'.id = Head(queue) /\ visiting'.version = selected[Head(queue)]
    BY <2>1
  <2> SUFFICES ASSUME NEW S \in SUBSET (Ids \X Versions), RequestClosed(S)'
               PROVE  /\ \A j \in Selected' : <<j, selected'[j]>> \in S
                      /\ <<visiting'.id, visiting'.version>> \in S
    BY DEF GroundedVisit
  <2>4. \A j \in Selected : <<j, selected[j]>> \in S
    BY <1>2, <2>1
  <2> QED BY <2>1, <2>2, <2>3, <2>4 DEF Selected
<1>6. CASE UNCHANGED vars
  BY <1>2, <1>6 DEF vars, GroundedVisit, Selected
<1> QED BY <1>1, <1>3, <1>4, <1>5, <1>6 DEF Next, Step

-----------------------------------------------------------------------------
(* Every run is one step of the contract.                                  *)

LEMMA ListMembers ==
  ASSUME NEW T, NEW s \in Seq(T), NEW r \in Contract!Of(s)
  PROVE  r \in T
BY DEF Contract!Of

LEMMA ListParts ==
  ASSUME NEW T, NEW d \in Seq(T), NEW n \in Seq(T)
  PROVE  Contract!Of(d \o n) = Contract!Of(d) \cup Contract!Of(n)
<1>1. /\ Len(d) \in Nat /\ Len(n) \in Nat /\ Len(d \o n) = Len(d) + Len(n)
      /\ \A i \in 1..Len(d) : i \in 1..Len(d \o n) /\ (d \o n)[i] = d[i]
      /\ \A i \in 1..Len(n) : i + Len(d) \in 1..Len(d \o n) /\ (d \o n)[i + Len(d)] = n[i]
      /\ \A i \in 1..Len(d \o n) : i \in 1..Len(d) \/
           (i - Len(d) \in 1..Len(n) /\ (d \o n)[i] = n[i - Len(d)])
  OBVIOUS
<1> QED BY <1>1 DEF Contract!Of

LEMMA ListsAreSets ==
  ASSUME MvsAssumption, TypeOK
  PROVE  /\ Contract!Asked = Contract!Of(Seeds)
         /\ \A id \in Ids, v \in Versions :
              Contract!Requirements(<<id, v>>) = {r \in Contract!Of(Requires(id, v)) : r.id \notin StdlibIds}
<1>1. /\ input.direct \in Seq([id : Ids \ StdlibIds, version : Versions \cup {Absent}])
      /\ input.floors \in Seq([id : Ids \ StdlibIds, version : Versions])
  BY DEF TypeOK, Input
<1>2. input.floors \in Seq([id : Ids \ StdlibIds, version : Versions \cup {Absent}])
  <2> DEFINE narrow == [id : Ids \ StdlibIds, version : Versions]
             wide == [id : Ids \ StdlibIds, version : Versions \cup {Absent}]
  <2>1. narrow \subseteq wide /\ input.floors \in Seq(narrow)
    BY <1>1
  <2> HIDE DEF narrow, wide
  <2>2. input.floors \in Seq(wide)
    BY <2>1, SeqWiden
  <2> QED BY <2>2 DEF wide
<1>3. Contract!Asked = Contract!Of(Seeds)
  BY <1>1, <1>2, ListParts DEF Contract!Asked, Seeds
<1>4. ASSUME NEW id \in Ids, NEW v \in Versions
      PROVE  Contract!Requirements(<<id, v>>) = {r \in Contract!Of(Requires(id, v)) : r.id \notin StdlibIds}
  <2>1. registry[id][v].direct \in Seq(Requirement) /\ registry[id][v].indirect \in Seq(Requirement)
    BY DEF TypeOK, Registry, Manifest
  <2>2. Contract!Of(Requires(id, v)) = Contract!Of(registry[id][v].direct) \cup Contract!Of(registry[id][v].indirect)
    BY <2>1, ListParts DEF Requires
  <2> QED BY <2>2 DEF Contract!Requirements
<1> QED BY <1>3, <1>4

(* The two ways to say which sets of requests are closed.                  *)
LEMMA ClosedSetsAgree ==
  ASSUME MvsAssumption, TypeOK, NEW S \in SUBSET (Ids \X Versions),
         Contract!Holds(S, Contract!Asked), \A y \in S : Contract!Holds(S, Contract!Requirements(y))
  PROVE  RequestClosed(S)
<1>1. ASSUME NEW i \in 1..Len(Seeds)
      PROVE  Seeds[i].version = Absent \/ <<Seeds[i].id, Seeds[i].version>> \in S
  <2>1. Seeds[i] \in Contract!Asked
    BY ListsAreSets DEF Contract!Of
  <2> QED BY <2>1 DEF Contract!Holds, Contract!Absent, Absent
<1>2. ASSUME NEW s \in S, NEW i \in 1..Len(Requires(s[1], s[2]))
      PROVE  LET r == Requires(s[1], s[2])[i] IN
               r.id \in StdlibIds \/ r.version = Absent \/ <<r.id, r.version>> \in S
  <2>1. s[1] \in Ids /\ s[2] \in Versions /\ s = <<s[1], s[2]>>
    OBVIOUS
  <2>2. Requires(s[1], s[2])[i] \in Contract!Of(Requires(s[1], s[2]))
    BY DEF Contract!Of
  <2>3. Requires(s[1], s[2])[i].id \in StdlibIds \/ Requires(s[1], s[2])[i] \in Contract!Requirements(s)
    BY <2>1, <2>2, ListsAreSets
  <2> QED BY <2>3 DEF Contract!Holds, Contract!Absent, Absent
<1> QED BY <1>1, <1>2 DEF RequestClosed

(* All that a run selects and visits, the contract reaches.                *)
LEMMA GroundedIsReached ==
  ASSUME MvsAssumption, TypeOK, GroundedVisit, pc # "idle"
  PROVE  /\ \A id \in Selected : <<id, selected[id]>> \in Contract!Reached
         /\ pc = "merging" => <<visiting.id, visiting.version>> \in Contract!Reached
<1>1. ASSUME NEW x \in Ids \X Versions,
             \A S \in SUBSET (Ids \X Versions) : RequestClosed(S) => x \in S
      PROVE  x \in Contract!Reached
  BY <1>1, ClosedSetsAgree DEF Contract!Reached
<1>2. \A id \in Selected : <<id, selected[id]>> \in Ids \X Versions
  BY DEF TypeOK, Selected
<1>3. <<visiting.id, visiting.version>> \in Ids \X Versions
  BY DEF TypeOK
<1>4. \A S \in SUBSET (Ids \X Versions) : RequestClosed(S) =>
        /\ \A id \in Selected : <<id, selected[id]>> \in S
        /\ pc = "merging" => <<visiting.id, visiting.version>> \in S
  BY DEF GroundedVisit
<1> QED BY <1>1, <1>2, <1>3, <1>4

LEMMA AnswersArePromised ==
  ASSUME MvsAssumption, TypeOK, Inv, GroundedVisit, Finish
  PROVE  Contract!Promised(selected)
<1>1. pc = "popping" /\ queue = <<>>
  BY DEF Finish
<1>2. \A id \in Selected : Closed(id)
  BY <1>1 DEF Inv, Pending, InQueue, BeingVisited, Busy
<1>3. \A i \in 1..Len(Seeds) : Satisfied(Seeds[i])
  BY <1>1 DEF Inv, SeedsPending, Busy
<1>4. Contract!Meets(selected, Contract!Asked)
  <2> SUFFICES ASSUME NEW r \in Contract!Asked PROVE r.version # Absent /\ r.version <= selected[r.id]
    BY DEF Contract!Meets, Contract!Absent, Absent
  <2>1. PICK i \in 1..Len(Seeds) : Seeds[i] = r
    BY ListsAreSets DEF Contract!Of
  <2>2. r.id \notin StdlibIds
    <3>1. /\ input.direct \in Seq([id : Ids \ StdlibIds, version : Versions \cup {Absent}])
          /\ input.floors \in Seq([id : Ids \ StdlibIds, version : Versions])
      BY DEF TypeOK, Input
    <3>2. r \in Contract!Of(input.direct) \/ r \in Contract!Of(input.floors)
      BY DEF Contract!Asked
    <3>3. ASSUME r \in Contract!Of(input.direct) PROVE r.id \in Ids \ StdlibIds
      <4>1. r \in [id : Ids \ StdlibIds, version : Versions \cup {Absent}]
        BY <3>1, <3>3, ListMembers
      <4> QED BY <4>1
    <3>4. ASSUME r \in Contract!Of(input.floors) PROVE r.id \in Ids \ StdlibIds
      <4>1. r \in [id : Ids \ StdlibIds, version : Versions]
        BY <3>1, <3>4, ListMembers
      <4> QED BY <4>1
    <3> QED BY <3>2, <3>3, <3>4
  <2> QED BY <1>3, <2>1, <2>2 DEF Satisfied, Meets
<1>5. ASSUME NEW id \in Ids, selected[id] # Absent
      PROVE  Contract!Meets(selected, Contract!Requirements(<<id, selected[id]>>))
  <2>1. selected[id] \in Versions /\ Closed(id)
    BY <1>2, <1>5 DEF TypeOK, Selected
  <2> SUFFICES ASSUME NEW r \in Contract!Requirements(<<id, selected[id]>>)
               PROVE  r.version # Absent /\ r.version <= selected[r.id]
    BY DEF Contract!Meets, Contract!Absent, Absent
  <2> DEFINE v == selected[id]
  <2>2. Contract!Requirements(<<id, v>>) = {q \in Contract!Of(Requires(id, v)) : q.id \notin StdlibIds}
    <3> HIDE DEF v
    <3> QED BY <2>1, ListsAreSets DEF v
  <2>3. r \in Contract!Of(Requires(id, v)) /\ r.id \notin StdlibIds
    BY <2>2
  <2>4. PICK i \in 1..Len(Requires(id, v)) : Requires(id, v)[i] = r
    BY <2>3 DEF Contract!Of
  <2> QED BY <2>1, <2>3, <2>4 DEF Closed, Satisfied, Meets
<1>6. \A id \in Ids : selected[id] # Absent => <<id, selected[id]>> \in Contract!Reached
  BY <1>1, GroundedIsReached DEF Selected
<1> QED BY <1>4, <1>5, <1>6 DEF Contract!Promised, Contract!Absent, Absent

LEMMA FailuresHaveCauses ==
  ASSUME MvsAssumption, TypeOK, Inv, GroundedVisit, FailSpec \/ (Visit /\ pc' = "failed")
  PROVE  Contract!Defective
<1>1. CASE FailSpec
  <2>1. /\ pc \in {"seeding", "merging"} /\ next \in 1..Len(Source) /\ Source[next].version = Absent
        /\ Source[next].id \notin StdlibIds
    BY <1>1, SourceType DEF FailSpec, Merging, TypeOK
  <2>2. CASE pc = "seeding"
    <3>1. Source[next] \in Contract!Asked
      BY <2>1, <2>2, ListsAreSets DEF Source, Contract!Of
    <3> QED BY <2>1, <3>1 DEF Contract!Defective, Contract!Unresolvable, Contract!Absent, Absent
  <2>3. CASE pc = "merging"
    <3> DEFINE x == <<visiting.id, visiting.version>>
    <3>1. x \in Contract!Reached
      BY <2>3, GroundedIsReached
    <3>2. visiting.id \in Ids /\ visiting.version \in Versions
      BY DEF TypeOK
    <3>3. Source[next] \in Contract!Of(Requires(visiting.id, visiting.version))
      BY <2>1, <2>3 DEF Source, Contract!Of
    <3>4. Contract!Requirements(x) =
            {r \in Contract!Of(Requires(visiting.id, visiting.version)) : r.id \notin StdlibIds}
      BY <3>2, ListsAreSets
    <3>5. Source[next] \in Contract!Requirements(x)
      BY <2>1, <3>3, <3>4
    <3> QED BY <2>1, <3>1, <3>5 DEF Contract!Defective, Contract!Unresolvable, Contract!Absent, Absent
  <2> QED BY <2>1, <2>2, <2>3
<1>2. CASE Visit /\ pc' = "failed"
  <2> DEFINE id == Head(queue)
             x  == <<id, selected[id]>>
  <2>1. /\ pc = "popping" /\ queue # <<>> /\ ~registry[id][selected[id]].loads
    BY <1>2 DEF Visit
  <2>2. id = queue[1] /\ 1 \in 1..Len(queue)
    BY <2>1 DEF TypeOK
  <2>3. id \in Selected
    BY <2>2 DEF Inv, QueuedSelected
  <2>4. x \in Contract!Reached
    BY <2>1, <2>3, GroundedIsReached
  <2>5. x[1] = id /\ x[2] = selected[id]
    OBVIOUS
  <2> QED BY <2>1, <2>4, <2>5 DEF Contract!Defective
<1> QED BY <1>1, <1>2

LEMMA StepsFulfilContract ==
  ASSUME MvsAssumption, TypeOK, Inv, GroundedVisit, [Next]_vars
  PROVE  [Contract!Next]_(Contract!vars)
<1> USE DEF Contract!vars
<1>1. ASSUME NEW in \in Inputs, Start(in) PROVE Contract!Call(in)
  BY <1>1 DEF Start, Idle, Contract!Call, Contract!Nothing, Nothing, Contract!Absent, Absent
<1>2. CASE SkipStdlib \/ RaiseFloor \/ KeepFloor \/ EndSource
  BY <1>2 DEF SkipStdlib, RaiseFloor, KeepFloor, EndSource, Merging
<1>3. CASE Finish
  <2>1. Contract!Promised(selected) /\ selected \in Contract!Selection
    BY <1>3, AnswersArePromised DEF TypeOK, Contract!Selection, Contract!Absent, Absent
  <2> QED BY <1>3, <2>1 DEF Finish, Contract!Next, Contract!Answer, Contract!Promised
<1>4. CASE FailSpec
  BY <1>4, FailuresHaveCauses DEF FailSpec, Merging, Contract!Next, Contract!Fail
<1>5. CASE Visit
  <2>1. CASE pc' = "failed"
    BY <1>5, <2>1, FailuresHaveCauses DEF Visit, Contract!Next, Contract!Fail
  <2>2. CASE pc' # "failed"
    BY <1>5, <2>2 DEF Visit
  <2> QED BY <2>1, <2>2
<1>6. CASE UNCHANGED vars
  BY <1>6 DEF vars
<1> QED BY <1>1, <1>2, <1>3, <1>4, <1>5, <1>6 DEF Next, Step, Contract!Next

-----------------------------------------------------------------------------
(* Type correctness and the inductive invariant: in every reachable state  *)
(* of run_remote_mvs, an id whose requirements are not met is queued or is *)
(* being visited, and a queued id has a version.                           *)
THEOREM TypeAndInvariant == Spec => [](TypeOK /\ Inv)
<1>1. Init => TypeOK /\ Inv
  BY MvsAssumption, InitTypeOK
<1>2. TypeOK /\ Inv /\ [Next]_vars => (TypeOK /\ Inv)'
  BY MvsAssumption, TypeStep, InvStep DEF Inv
<1> QED BY <1>1, <1>2, PTL DEF Spec

(* The selection a run returns is a closure: the builder that later looks  *)
(* up the requirements of a selected manifest finds every one of them.     *)
THEOREM SelectionIsClosed == Spec => []ClosureComplete
<1>1. TypeOK /\ Inv => ClosureComplete
  BY DEF Inv, Pending, QueuedSelected, ClosureComplete, InQueue, BeingVisited, Busy
<1> QED BY <1>1, TypeAndInvariant, PTL

(* Direct dependencies and imported floors hold in the selection a run     *)
(* returns, so fold_direct_dependencies never misses a direct dependency.  *)
THEOREM SeedsAreMet == Spec => []SeedsSatisfied
<1>1. TypeOK /\ Inv => SeedsSatisfied
  BY DEF Inv, SeedsPending, SeedsSatisfied
<1> QED BY <1>1, TypeAndInvariant, PTL

(* No step of a run lowers or drops a version that was selected. *)
THEOREM SelectionOnlyRises == Spec => OnlyRises
<1>1. TypeOK /\ Inv /\ [Next]_vars =>
        [(pc \in Busy) => \A id \in Ids : selected'[id] >= selected[id]]_vars
  <2> SUFFICES ASSUME TypeOK, Inv, Next, pc \in Busy, NEW id \in Ids
               PROVE  selected'[id] >= selected[id]
    BY DEF vars
  <2>1. ~\E in \in Inputs : Start(in)
    BY DEF Start, Busy, Idle
  <2>2. CASE SkipStdlib \/ KeepFloor \/ RaiseFloor
    BY <2>2, MergeStep, MvsAssumption DEF Inv
  <2>3. CASE FailSpec \/ EndSource \/ Visit \/ Finish
    <3>1. selected' = selected
      BY <2>3 DEF FailSpec, EndSource, Visit, Finish
    <3>2. selected[id] \in Nat
      BY SelectedType, MvsAssumption
    <3> QED BY <3>1, <3>2
  <2> QED BY <2>1, <2>2, <2>3 DEF Next, Step
<1> QED BY <1>1, TypeAndInvariant, PTL DEF Spec, OnlyRises

(* Every selected version was requested by a seed or by a manifest reached *)
(* from the seeds: a newly published version cannot enter the selection.   *)
THEOREM SelectionIsGrounded == Spec => []Grounded
<1>1. Init => GroundedVisit
  BY DEF Init, GroundedVisit
<1>2. TypeOK /\ Inv /\ GroundedVisit /\ [Next]_vars => GroundedVisit'
  BY MvsAssumption, GroundedStep DEF Inv
<1>3. GroundedVisit => Grounded
  BY DEF GroundedVisit, Grounded
<1> QED BY <1>1, <1>2, <1>3, TypeAndInvariant, PTL DEF Spec

(* A run implements its contract: for every registry and input it answers  *)
(* with a closed and grounded selection, or fails for a cause that the     *)
(* seeds lead to.                                                          *)
THEOREM SelectionImplementsContract == Spec => FulfilsContract
<1>1. Init => Contract!Init
  BY MvsAssumption DEF Init, MvsAssumption, Contract!Init, Contract!Nothing, Nothing, Contract!Absent, Absent
<1>2. Init => GroundedVisit
  BY DEF Init, GroundedVisit
<1>3. TypeOK /\ Inv /\ GroundedVisit /\ [Next]_vars => GroundedVisit'
  BY MvsAssumption, GroundedStep DEF Inv
<1>4. TypeOK /\ Inv /\ GroundedVisit /\ [Next]_vars => [Contract!Next]_(Contract!vars)
  BY MvsAssumption, StepsFulfilContract
<1> QED BY <1>1, <1>2, <1>3, <1>4, TypeAndInvariant, PTL DEF Spec, FulfilsContract, Contract!Spec

-----------------------------------------------------------------------------
(* A run is determined by its arguments.  The loop is sequential, so what  *)
(* it keeps has one successor; visiting counts only during the visit.      *)

Config == [pc : Busy \cup {"resolved", "failed"}, selected : [Ids -> Versions \cup {Absent}],
           queue : Seq(Ids), visiting : [id : Ids, version : Versions], next : Nat]

NoVisit == CHOOSE x \in [id : Ids, version : Versions] : TRUE

At(p, s, q, v, n) == [pc |-> p, selected |-> s, queue |-> q, visiting |-> v, next |-> n]

View == At(pc, selected, queue, IF pc = "merging" THEN visiting ELSE NoVisit, next)

FirstView == At("seeding", Nothing, <<>>, NoVisit, 1)

Final(c) == c.pc \in {"resolved", "failed"}

ListOf(reg, in, c) ==
  IF c.pc = "seeding" THEN in.direct \o in.floors
  ELSE reg[c.visiting.id][c.visiting.version].direct \o reg[c.visiting.id][c.visiting.version].indirect

Merged(list, c) ==
  LET r == list[c.next] IN
    IF c.next > Len(list) THEN At("popping", c.selected, c.queue, NoVisit, c.next)
    ELSE IF r.id \in StdlibIds THEN At(c.pc, c.selected, c.queue, c.visiting, c.next + 1)
    ELSE IF r.version = Absent THEN At("failed", c.selected, c.queue, NoVisit, c.next)
    ELSE IF r.version > c.selected[r.id]
         THEN At(c.pc, [c.selected EXCEPT ![r.id] = r.version], Append(c.queue, r.id), c.visiting,
                 c.next + 1)
    ELSE At(c.pc, c.selected, c.queue, c.visiting, c.next + 1)

Visited(reg, c) ==
  LET id == Head(c.queue)
      v  == c.selected[id]
  IN  IF c.queue = <<>> THEN At("resolved", c.selected, c.queue, NoVisit, c.next)
      ELSE IF reg[id][v].loads
           THEN At("merging", c.selected, Tail(c.queue), [id |-> id, version |-> v], 1)
      ELSE At("failed", c.selected, Tail(c.queue), NoVisit, 1)

After(reg, in, c) ==
  IF c.pc \in {"seeding", "merging"} THEN Merged(ListOf(reg, in, c), c) ELSE Visited(reg, c)

FollowsAll(reg, in, T) ==
  \A c \in T : ~Final(c) /\ After(reg, in, c) \in Config => After(reg, in, c) \in T

(* The configurations that follow c, c included: the least set.            *)
Trace(reg, in, c) ==
  {d \in Config : \A T \in SUBSET Config : c \in T /\ FollowsAll(reg, in, T) => d \in T}

LEMMA NoVisitIsTyped ==
  ASSUME MvsAssumption
  PROVE  NoVisit \in [id : Ids, version : Versions]
<1>1. PICK i \in Ids, w \in Versions : TRUE
  BY DEF MvsAssumption
<1>2. [id |-> i, version |-> w] \in [id : Ids, version : Versions]
  OBVIOUS
<1> QED BY <1>2 DEF NoVisit

LEMMA AtIsConfig ==
  ASSUME MvsAssumption, NEW p \in Busy \cup {"resolved", "failed"},
         NEW s \in [Ids -> Versions \cup {Absent}], NEW q \in Seq(Ids),
         NEW v \in [id : Ids, version : Versions], NEW n \in Nat
  PROVE  At(p, s, q, IF p = "merging" THEN v ELSE NoVisit, n) \in Config
BY NoVisitIsTyped DEF At, Config

LEMMA FirstIsConfig ==
  ASSUME MvsAssumption
  PROVE  FirstView \in Config
<1>1. Nothing \in [Ids -> Versions \cup {Absent}] /\ <<>> \in Seq(Ids)
  BY DEF Nothing
<1> QED BY <1>1, NoVisitIsTyped DEF FirstView, At, Config, Busy

LEMMA ViewIsConfig ==
  ASSUME MvsAssumption
  PROVE  (TypeOK /\ pc # "idle" => View \in Config) /\ (TypeOK' /\ pc' # "idle" => View' \in Config)
BY AtIsConfig DEF TypeOK, Idle, View

LEMMA StepIsAfter ==
  ASSUME MvsAssumption, TypeOK, Step
  PROVE  ~Final(View) /\ View' = After(registry, input, View)
<1>1. /\ View.pc = pc /\ View.selected = selected /\ View.queue = queue /\ View.next = next
      /\ pc = "merging" => View.visiting = visiting
      /\ pc # "merging" => View.visiting = NoVisit
  BY DEF View, At
<1>2. pc \in {"seeding", "merging"} => ListOf(registry, input, View) = Source
  BY <1>1 DEF ListOf, Source, Seeds, Requires
<1>3. Source \in Seq(Requirement) /\ Len(Source) \in Nat /\ next \in Nat \ {0}
  BY SourceType DEF TypeOK
<1>4. CASE SkipStdlib \/ RaiseFloor \/ KeepFloor \/ FailSpec \/ EndSource
  <2>1. pc \in {"seeding", "merging"} /\ After(registry, input, View) = Merged(Source, View)
    BY <1>1, <1>2, <1>4 DEF After, SkipStdlib, RaiseFloor, KeepFloor, FailSpec, EndSource, Merging
  <2>2. ~Final(View)
    BY <1>1, <2>1 DEF Final
  <2>3. CASE SkipStdlib
    <3>1. View' = At(pc, selected, queue, View.visiting, next + 1)
      BY <1>1, <2>1, <2>3 DEF SkipStdlib, View
    <3>2. ~(next > Len(Source)) /\ Source[next].id \in StdlibIds
      BY <1>3, <2>3 DEF SkipStdlib, Merging
    <3> QED BY <1>1, <2>1, <2>2, <3>1, <3>2 DEF Merged
  <2>4. CASE RaiseFloor
    <3>1. Source[next] \in Requirement
      BY <1>3, <2>4 DEF RaiseFloor, Merging
    <3>2. Source[next].id \in Ids /\ selected[Source[next].id] \in Nat
      BY <3>1, SelectedType DEF Requirement
    <3>3. ~(next > Len(Source)) /\ Source[next].id \notin StdlibIds
          /\ Source[next].version > selected[Source[next].id]
      BY <1>3, <2>4 DEF RaiseFloor, Merging, RaisesFloor
    <3>4. Source[next].version # Absent
      BY <3>2, <3>3 DEF Absent
    <3>5. View' = At(pc, [selected EXCEPT ![Source[next].id] = Source[next].version],
                     Append(queue, Source[next].id), View.visiting, next + 1)
      BY <1>1, <2>1, <2>4 DEF RaiseFloor, View, RaisedTo, Enqueued
    <3> QED BY <1>1, <2>1, <2>2, <3>3, <3>4, <3>5 DEF Merged
  <2>5. CASE KeepFloor
    <3>1. ~(next > Len(Source)) /\ Source[next].id \notin StdlibIds /\ Source[next].version # Absent
          /\ ~(Source[next].version > selected[Source[next].id])
      BY <1>3, <2>5 DEF KeepFloor, Merging, RaisesFloor
    <3>2. View' = At(pc, selected, queue, View.visiting, next + 1)
      BY <1>1, <2>1, <2>5 DEF KeepFloor, View
    <3> QED BY <1>1, <2>1, <2>2, <3>1, <3>2 DEF Merged
  <2>6. CASE FailSpec
    <3>1. ~(next > Len(Source)) /\ Source[next].id \notin StdlibIds /\ Source[next].version = Absent
      BY <1>3, <2>6 DEF FailSpec, Merging
    <3>2. View' = At("failed", selected, queue, NoVisit, next)
      BY <2>6 DEF FailSpec, View
    <3> QED BY <1>1, <2>1, <2>2, <3>1, <3>2 DEF Merged
  <2>7. CASE EndSource
    <3>1. View' = At("popping", selected, queue, NoVisit, next)
      BY <2>7 DEF EndSource, View
    <3> QED BY <1>1, <2>1, <2>2, <2>7, <3>1 DEF Merged, EndSource
  <2> QED BY <1>4, <2>3, <2>4, <2>5, <2>6, <2>7
<1>5. CASE Visit \/ Finish
  <2>1. pc = "popping" /\ After(registry, input, View) = Visited(registry, View) /\ ~Final(View)
    BY <1>1, <1>5 DEF After, Visit, Finish, Final
  <2>2. CASE Finish
    <3>1. View' = At("resolved", selected, queue, NoVisit, next)
      BY <2>2 DEF Finish, View
    <3> QED BY <1>1, <2>1, <2>2, <3>1 DEF Visited, Finish
  <2>3. CASE Visit
    <3> DEFINE id == Head(queue)
               v  == selected[id]
    <3>1. CASE registry[id][v].loads
      <4>1. View' = At("merging", selected, Tail(queue), [id |-> id, version |-> v], 1)
        BY <2>3, <3>1 DEF Visit, View
      <4> QED BY <1>1, <2>1, <2>3, <3>1, <4>1 DEF Visited, Visit
    <3>2. CASE ~registry[id][v].loads
      <4>1. View' = At("failed", selected, Tail(queue), NoVisit, 1)
        BY <2>1, <2>3, <3>2 DEF Visit, View
      <4> QED BY <1>1, <2>1, <2>3, <3>2, <4>1 DEF Visited, Visit
    <3> QED BY <3>1, <3>2
  <2> QED BY <1>5, <2>2, <2>3
<1> QED BY <1>4, <1>5 DEF Step

(* What follows c is c and what follows its successor.                     *)
LEMMA TraceGoesOn ==
  ASSUME NEW reg, NEW in, NEW c \in Config, NEW d \in Trace(reg, in, c), ~Final(d),
         After(reg, in, d) \in Config
  PROVE  After(reg, in, d) \in Trace(reg, in, c)
BY DEF Trace, FollowsAll

LEMMA TraceUnfolds ==
  ASSUME NEW reg, NEW in, NEW c \in Config, NEW t \in Trace(reg, in, c), t # c
  PROVE  ~Final(c) /\ After(reg, in, c) \in Config /\ t \in Trace(reg, in, After(reg, in, c))
<1> DEFINE succ == After(reg, in, c)
<1>1. ASSUME Final(c) \/ succ \notin Config PROVE FALSE
  <2>1. {c} \in SUBSET Config /\ FollowsAll(reg, in, {c})
    BY <1>1 DEF FollowsAll
  <2> QED BY <2>1 DEF Trace
<1>2. succ \in Config
  BY <1>1
<1> DEFINE U == {c} \cup Trace(reg, in, succ)
<1>3. succ \in Trace(reg, in, succ)
  BY <1>2 DEF Trace
<1>4. U \in SUBSET Config
  BY DEF Trace
<1>5. FollowsAll(reg, in, U)
  <2> SUFFICES ASSUME NEW d \in U, ~Final(d), After(reg, in, d) \in Config
               PROVE  After(reg, in, d) \in U
    BY DEF FollowsAll
  <2>1. CASE d = c
    BY <1>3, <2>1
  <2>2. CASE d \in Trace(reg, in, succ)
    BY <1>2, <2>2, TraceGoesOn
  <2> QED BY <2>1, <2>2
<1>6. t \in U
  BY <1>4, <1>5 DEF Trace
<1> QED BY <1>1, <1>6

(* One run cannot end in two ways.                                         *)
LEMMA TracesEndOnce ==
  ASSUME NEW reg, NEW in, NEW c \in Config,
         NEW s \in Trace(reg, in, c), NEW t \in Trace(reg, in, c), Final(s), Final(t)
  PROVE  s = t
<1> DEFINE T == {d \in Trace(reg, in, c) : t \in Trace(reg, in, d)}
<1>1. T \in SUBSET Config /\ s \in Config
  BY DEF Trace
<1>2. c \in T
  BY DEF Trace
<1>3. FollowsAll(reg, in, T)
  <2> SUFFICES ASSUME NEW d \in T, ~Final(d), After(reg, in, d) \in Config
               PROVE  After(reg, in, d) \in T
    BY DEF FollowsAll
  <2>1. After(reg, in, d) \in Trace(reg, in, c)
    BY TraceGoesOn
  <2>2. d \in Config /\ t \in Trace(reg, in, d) /\ t # d
    BY <1>1
  <2>3. t \in Trace(reg, in, After(reg, in, d))
    BY <2>2, TraceUnfolds
  <2> QED BY <2>1, <2>3
<1>4. s \in T
  <2> HIDE DEF T
  <2> QED BY <1>1, <1>2, <1>3 DEF Trace
<1>5. t \in Trace(reg, in, s)
  BY <1>4
<1> QED BY <1>1, <1>5, TraceUnfolds

(* The current run is at a configuration that follows its first one.       *)
Traced == pc # "idle" => View \in Trace(registry, input, FirstView)

LEMMA TracedStep ==
  ASSUME MvsAssumption, TypeOK, TypeOK', Step, Traced
  PROVE  Traced'
<1>1. pc # "idle" /\ pc' # "idle" /\ registry' = registry /\ input' = input
  BY DEF Step, SkipStdlib, RaiseFloor, KeepFloor, FailSpec, EndSource, Visit, Finish, Merging
<1>2. View' \in Config
  BY <1>1, ViewIsConfig
<1>3. View \in Trace(registry, input, FirstView) /\ ~Final(View) /\ View' = After(registry, input, View)
  BY <1>1, StepIsAfter DEF Traced
<1>4. View' \in Trace(registry, input, FirstView)
  BY <1>2, <1>3 DEF Trace, FollowsAll
<1> QED BY <1>1, <1>4 DEF Traced

LEMMA TracedStart ==
  ASSUME MvsAssumption, NEW in, Start(in)
  PROVE  Traced'
<1>1. View' = FirstView /\ pc' = "seeding" /\ registry' = registry
  BY DEF Start, View, FirstView, At
<1>2. FirstView \in Config
  BY FirstIsConfig
<1>3. \A reg, arg : FirstView \in Trace(reg, arg, FirstView)
  BY <1>2 DEF Trace
<1> QED BY <1>1, <1>3 DEF Traced
=============================================================================

-------------------------------- MODULE Mvs --------------------------------
(***************************************************************************)
(* One remote version selection: PackageResolver::run_remote_mvs in        *)
(* crates/pcb-zen/src/package_resolver/mvs.rs.                             *)
(*                                                                         *)
(* A dependency id is a module path together with its compatibility lane,  *)
(* so the versions of one id are totally ordered and are modelled by       *)
(* positive integers.  The registry (every published manifest) does not    *)
(* change during a run: published versions are immutable.                  *)
(***************************************************************************)
EXTENDS Naturals, Sequences

CONSTANTS
  Ids,         \* ResolvedDepId: (path, lane)
  StdlibIds,   \* ids for which is_stdlib_module_path holds
  Versions,    \* versions of an id
  Registries,  \* the registries to consider
  Inputs       \* the (direct, floors) arguments to consider

Absent == 0    \* an id that is not selected, or a spec that names no version

(* A requirement is what enqueue_floor_version is called with: an id and a *)
(* minimum version.  Version Absent is a spec that cannot be resolved.     *)
Requirement == [id : Ids, version : Versions \cup {Absent}]

(* ManifestRequirements: whether the manifest loads, and its direct and    *)
(* indirect requirements in iteration order.  An indirect one is exact.    *)
Manifest == [loads : BOOLEAN, direct : Seq(Requirement), indirect : Seq(Requirement)]

Registry == [Ids -> [Versions -> Manifest]]

(* scanned.remote in path order, and the imported workspace floors, which  *)
(* are the selections of earlier runs.                                     *)
Input == [direct : Seq([id : Ids \ StdlibIds, version : Versions \cup {Absent}]),
          floors : Seq([id : Ids \ StdlibIds, version : Versions])]

ASSUME MvsAssumption ==
  /\ StdlibIds \subseteq Ids
  /\ Ids # {} /\ Versions # {} /\ Inputs # {}
  /\ Versions \subseteq Nat \ {0}
  /\ Registries \subseteq Registry
  /\ Inputs \subseteq Input

VARIABLES
  registry,   \* what the manifest loader reads
  input,      \* the arguments of the current run
  pc,         \* where the run is
  selected,   \* selected: id -> version
  queue,      \* queue: FIFO worklist of ids
  visiting,   \* the (id, version) popped last
  next        \* index of the next requirement to merge

vars == <<registry, input, pc, selected, queue, visiting, next>>

Busy == {"seeding", "popping", "merging"}
Idle == {"idle", "resolved", "failed"}

Nothing == [id \in Ids |-> Absent]

Selected == {id \in Ids : selected[id] # Absent}

InQueue(id) == \E i \in 1..Len(queue) : queue[i] = id

Seeds == input.direct \o input.floors

Requires(id, v) == registry[id][v].direct \o registry[id][v].indirect

(* The requirements the current loop iterates over. *)
Source == IF pc = "seeding" THEN Seeds ELSE Requires(visiting.id, visiting.version)

TypeOK ==
  /\ registry \in Registry
  /\ input \in Input
  /\ pc \in Busy \cup Idle
  /\ selected \in [Ids -> Versions \cup {Absent}]
  /\ queue \in Seq(Ids)
  /\ visiting \in [id : Ids, version : Versions]
  /\ next \in Nat \ {0}

Init ==
  /\ registry \in Registries
  /\ input = CHOOSE in \in Inputs : TRUE
  /\ pc = "idle"
  /\ selected = Nothing
  /\ queue = <<>>
  /\ visiting = CHOOSE x \in [id : Ids, version : Versions] : TRUE
  /\ next = 1

Start(in) ==
  /\ pc \in Idle
  /\ input' = in
  /\ pc' = "seeding"
  /\ selected' = Nothing
  /\ queue' = <<>>
  /\ next' = 1
  /\ UNCHANGED <<registry, visiting>>

(* merge_floor_version's test: the version is newer, or the id is new.     *)
(* The slips here and below are what a mistake would look like; the runs   *)
(* show that the properties notice them.                                   *)
OrEqual_Slip(r) == r.version # Absent /\ r.version >= selected[r.id]
RaisesFloor(r) == r.version > selected[r.id]

NewIdsOnly_Slip(id) == IF selected[id] = Absent THEN Append(queue, id) ELSE queue
Enqueued(id) == Append(queue, id)

NewestPublished_Slip(r) == CHOOSE v \in Versions : \A w \in Versions : w <= v
RaisedTo(r) == r.version

Merging == pc \in {"seeding", "merging"} /\ next <= Len(Source)

(* is_stdlib_module_path: neither resolved nor merged. *)
SkipStdlib ==
  /\ Merging
  /\ Source[next].id \in StdlibIds
  /\ next' = next + 1
  /\ UNCHANGED <<registry, input, pc, selected, queue, visiting>>

(* merge_floor_version returned true: the id is queued for a visit. *)
RaiseFloor ==
  /\ Merging
  /\ LET r == Source[next] IN
       /\ r.id \notin StdlibIds
       /\ RaisesFloor(r)
       /\ selected' = [selected EXCEPT ![r.id] = RaisedTo(r)]
       /\ queue' = Enqueued(r.id)
  /\ next' = next + 1
  /\ UNCHANGED <<registry, input, pc, visiting>>

(* merge_floor_version returned false: the selection already satisfies it. *)
KeepFloor ==
  /\ Merging
  /\ LET r == Source[next] IN
       r.id \notin StdlibIds /\ r.version # Absent /\ ~RaisesFloor(r)
  /\ next' = next + 1
  /\ UNCHANGED <<registry, input, pc, selected, queue, visiting>>

(* resolve_spec fails: the whole resolution is abandoned.  The slip asks it*)
(* before is_stdlib_module_path.                                           *)
EagerFail_Slip ==
  /\ Merging
  /\ Source[next].version = Absent
  /\ pc' = "failed"
  /\ UNCHANGED <<registry, input, selected, queue, visiting, next>>

FailSpec ==
  /\ Merging
  /\ Source[next].id \notin StdlibIds
  /\ Source[next].version = Absent
  /\ pc' = "failed"
  /\ UNCHANGED <<registry, input, selected, queue, visiting, next>>

EndSource ==
  /\ pc \in {"seeding", "merging"}
  /\ next > Len(Source)
  /\ pc' = "popping"
  /\ UNCHANGED <<registry, input, selected, queue, visiting, next>>

(* Pop an id and load the manifest of the version selected for it NOW,     *)
(* which may be newer than the one it was queued for.                      *)
Visit ==
  /\ pc = "popping"
  /\ queue # <<>>
  /\ LET id == Head(queue)
         v  == selected[id]
     IN /\ visiting' = [id |-> id, version |-> v]
        /\ pc' = IF registry[id][v].loads THEN "merging" ELSE "failed"
  /\ queue' = Tail(queue)
  /\ next' = 1
  /\ UNCHANGED <<registry, input, selected>>

Finish ==
  /\ pc = "popping"
  /\ queue = <<>>
  /\ pc' = "resolved"
  /\ UNCHANGED <<registry, input, selected, queue, visiting, next>>

Step == SkipStdlib \/ RaiseFloor \/ KeepFloor \/ FailSpec \/ EndSource \/ Visit \/ Finish

Next == (\E in \in Inputs : Start(in)) \/ Step

(* The loop is sequential code: it keeps running until it returns. *)
Spec == Init /\ [][Next]_vars /\ WF_vars(Step)

-----------------------------------------------------------------------------
(* What the resolution promises.                                           *)

Meets(selection, r) ==
  r.id \in StdlibIds \/ (r.version # Absent /\ r.version <= selection[r.id])

Satisfied(r) == Meets(selected, r)

(* The requirements of id at its selected version are met. *)
Closed(id) ==
  \A i \in 1..Len(Requires(id, selected[id])) : Satisfied(Requires(id, selected[id])[i])

(* A finished selection is a closure: every requirement of every selected  *)
(* manifest is met by the selection itself.  The frozen build looks ids up *)
(* in this selection and stops at the first one that is missing            *)
(* ("Resolved closure is missing ..."), and nothing re-checks the loop     *)
(* that a later raise may have invalidated.                                *)
ClosureComplete == pc = "resolved" => \A id \in Selected : Closed(id)

(* Every direct dependency and every floor imported from a workspace       *)
(* dependency is met, whatever was raised afterwards; so the error         *)
(* "Resolved closure is missing direct dependency" cannot happen.          *)
SeedsSatisfied == pc = "resolved" => \A i \in 1..Len(Seeds) : Satisfied(Seeds[i])

(* A set of (id, version) requests that contains the seeds and, with every *)
(* request, the requirements of its manifest.                              *)
RequestClosed(S) ==
  /\ \A i \in 1..Len(Seeds) :
       \/ Seeds[i].version = Absent
       \/ <<Seeds[i].id, Seeds[i].version>> \in S
  /\ \A s \in S : \A i \in 1..Len(Requires(s[1], s[2])) :
       LET r == Requires(s[1], s[2])[i] IN
         \/ r.id \in StdlibIds
         \/ r.version = Absent
         \/ <<r.id, r.version>> \in S

(* Nothing newer than what somebody asked for is ever selected: each       *)
(* selected version is a seed or required by a manifest reached from the   *)
(* seeds ("Newly published versions do not change the result unless a      *)
(* manifest requires them").                                               *)
Grounded ==
  pc # "idle" =>
    \A S \in SUBSET (Ids \X Versions) :
      RequestClosed(S) => \A id \in Selected : <<id, selected[id]>> \in S

(* Seen from outside, a run is one step: it answers with some selection    *)
(* that is closed and grounded, or fails for a cause, a spec or a manifest *)
(* that the seeds lead to; never because of something it passes over, like *)
(* the standard library.                                                   *)
Contract == INSTANCE SelectionContract WITH
              status <- IF pc = "idle" THEN "idle" ELSE IF pc = "resolved" THEN "ok"
                        ELSE IF pc = "failed" THEN "error" ELSE "running",
              answer <- IF pc = "resolved" THEN selected ELSE Nothing

FulfilsContract == Contract!Spec

(* Within one run a selected version is never lowered or dropped. *)
OnlyRises ==
  [][(pc \in Busy) => \A id \in Ids : selected'[id] >= selected[id]]_vars

(* A run that started returns, even when manifests require each other. *)
Terminates == (pc \in Busy) ~> (pc \in {"resolved", "failed"})

-----------------------------------------------------------------------------
(* The inductive strengthening of ClosureComplete: while the loop runs, an *)
(* id whose requirements are not met yet is waiting for a visit or is being*)
(* visited, with only the remaining requirements unmet.                    *)

BeingVisited(id) ==
  /\ pc = "merging"
  /\ visiting = [id |-> id, version |-> selected[id]]
  /\ \A i \in 1..Len(Requires(id, selected[id])) :
       i < next => Satisfied(Requires(id, selected[id])[i])

Pending ==
  pc \in Busy \cup {"resolved"} =>
    \A id \in Selected : InQueue(id) \/ BeingVisited(id) \/ Closed(id)

SeedsPending ==
  pc \in Busy \cup {"resolved"} =>
    \A i \in 1..Len(Seeds) : (pc = "seeding" => i < next) => Satisfied(Seeds[i])

(* Head(queue) always has a version: the `continue` of the loop is dead. *)
QueuedSelected ==
  /\ \A i \in 1..Len(queue) : queue[i] \in Selected
  /\ pc = "merging" => visiting.version <= selected[visiting.id]
  /\ pc = "resolved" => queue = <<>>

Inv == Pending /\ SeedsPending /\ QueuedSelected

(* The strengthening of Grounded: the manifest being merged was asked for. *)
GroundedVisit ==
  pc # "idle" =>
    \A S \in SUBSET (Ids \X Versions) :
      RequestClosed(S) =>
        /\ \A id \in Selected : <<id, selected[id]>> \in S
        /\ pc = "merging" => <<visiting.id, visiting.version>> \in S
=============================================================================

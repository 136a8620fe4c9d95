----------------------------- MODULE FrozenBuild -----------------------------
(***************************************************************************)
(* FrozenResolutionBuilder (crates/pcb-zen/src/package_resolver/resolve.rs)*)
(* and selected_remote_from_hydrated_manifest (crates/pcb-zen-core/src/    *)
(* resolution.rs): a build selects nothing.  It reads the closure recorded *)
(* in the manifest of the root package and walks the dependency graph,     *)
(* looking every remote dependency up in that closure.                     *)
(***************************************************************************)
EXTENDS Naturals, Sequences

CONSTANTS
  Ids, StdlibIds, Versions,  \* see Mvs
  Packages,                  \* workspace package urls
  Registries,                \* the registries to consider
  Workspaces                 \* the manifests to consider

Absent == 0

Selection == [Ids -> Versions \cup {Absent}]

(* The [dependencies] of a workspace manifest: workspace packages, remote  *)
(* ids with a version, and [dependencies.indirect].                        *)
WorkspaceManifest == [links : SUBSET Packages, direct : Selection, indirect : Selection]

Requirement == [id : Ids, version : Versions \cup {Absent}]

Registry ==
  [Ids -> [Versions -> [loads : BOOLEAN, direct : Seq(Requirement), indirect : Seq(Requirement)]]]

ASSUME FrozenBuildAssumption ==
  /\ StdlibIds \subseteq Ids
  /\ Ids # {} /\ Packages # {}
  /\ Versions \subseteq Nat \ {0}
  /\ Registries \subseteq Registry
  /\ Workspaces \subseteq [Packages -> WorkspaceManifest]

(* PackageNode: a workspace package or a remote one at a version. *)
WorkspaceNode(p) == [kind |-> "workspace", pkg |-> p]
RemoteNode(id, v) == [kind |-> "remote", id |-> id, version |-> v]
Node == [kind : {"workspace"}, pkg : Packages]
          \cup [kind : {"remote"}, id : Ids, version : Versions]

VARIABLES
  registry,   \* remote manifests
  manifests,  \* workspace manifests, as loaded when the command started
  root,       \* the package being built
  chosen,     \* selected_remote
  todo,       \* queue of nodes
  seen,       \* nodes resolved already
  status      \* "idle", "building", "built", "missing", "failed"

vars == <<registry, manifests, root, chosen, todo, seen, status>>

(* selected_remote_from_manifest: the direct remote versions, then the     *)
(* indirect entries on top.                                                *)
RecordedClosure(m) ==
  [id \in Ids |-> IF id \in StdlibIds THEN Absent
                  ELSE IF m.indirect[id] # Absent THEN m.indirect[id] ELSE m.direct[id]]

(* The remote ids a node depends on directly; resolve_direct_deps looks at *)
(* `direct` only, also for remote packages, and skips the stdlib.          *)
DirectIds(node) ==
  (IF node.kind = "workspace"
   THEN {id \in Ids : manifests[node.pkg].direct[id] # Absent}
   ELSE LET d == registry[node.id][node.version].direct IN {d[i].id : i \in 1..Len(d)})
  \ StdlibIds

(* exact_spec_version fails on a requirement without an exact version.     *)
Inexact(node) ==
  /\ node.kind = "remote"
  /\ \E i \in 1..Len(registry[node.id][node.version].direct) :
       LET r == registry[node.id][node.version].direct[i] IN
         r.id \notin StdlibIds /\ r.version = Absent

Unreadable(node) == node.kind = "remote" /\ ~registry[node.id][node.version].loads

ChosenNode(id) == RemoteNode(id, chosen[id])

Children(node) ==
  {ChosenNode(id) : id \in DirectIds(node)}
    \cup IF node.kind = "workspace"
         THEN {WorkspaceNode(p) : p \in manifests[node.pkg].links} ELSE {}

TypeOK ==
  /\ registry \in Registry
  /\ manifests \in [Packages -> WorkspaceManifest]
  /\ root \in Packages
  /\ chosen \in Selection
  /\ todo \subseteq Node
  /\ seen \subseteq Node
  /\ status \in {"idle", "building", "built", "missing", "failed"}

Init ==
  /\ registry \in Registries
  /\ manifests \in Workspaces
  /\ root = CHOOSE p \in Packages : TRUE
  /\ chosen = [id \in Ids |-> Absent]
  /\ todo = {}
  /\ seen = {}
  /\ status = "idle"

DirectOnly_Slip(p) == manifests[p].direct
ClosureOf(p) == RecordedClosure(manifests[p])

(* build(): materialize_selected_remote may fail to fetch a version. *)
Start(p) ==
  /\ status # "building"
  /\ root' = p
  /\ chosen' = ClosureOf(p)
  /\ todo' = {WorkspaceNode(p)}
  /\ seen' = {}
  /\ status' = IF \E id \in Ids : chosen'[id] # Absent /\ ~registry[id][chosen'[id]].loads
               THEN "failed" ELSE "building"
  /\ UNCHANGED <<registry, manifests>>

Recorded(id) == chosen[id] # Absent

WorkspaceOnly_Slip(node) == IF node.kind = "workspace" THEN Children(node) ELSE {}
Queued(node) == Children(node)

NotMarked_Slip(node) == seen
Marked(node) == seen \cup {node}

(* resolve_package_node on a node that was not seen.  The order in which   *)
(* the queue yields nodes decides nothing but which error comes first.     *)
ResolveNode(node) ==
  /\ status = "building"
  /\ node \in todo
  /\ node \notin seen
  /\ ~Unreadable(node) /\ ~Inexact(node)
  /\ \A id \in DirectIds(node) : Recorded(id)
  /\ seen' = Marked(node)
  /\ todo' = (todo \ {node}) \cup Queued(node)
  /\ UNCHANGED <<registry, manifests, root, chosen, status>>

SkipSeen(node) ==
  /\ status = "building"
  /\ node \in todo \cap seen
  /\ todo' = todo \ {node}
  /\ UNCHANGED <<registry, manifests, root, chosen, seen, status>>

(* "Resolved closure is missing {}@{} required by {}" *)
NodeMissing(node) ==
  /\ status = "building"
  /\ node \in todo \ seen
  /\ ~Unreadable(node)
  /\ \E id \in DirectIds(node) : ~Recorded(id)
  /\ status' = "missing"
  /\ UNCHANGED <<registry, manifests, root, chosen, todo, seen>>

NodeFails(node) ==
  /\ status = "building"
  /\ node \in todo \ seen
  /\ Unreadable(node) \/ Inexact(node)
  /\ status' = "failed"
  /\ UNCHANGED <<registry, manifests, root, chosen, todo, seen>>

Finish ==
  /\ status = "building"
  /\ todo = {}
  /\ status' = "built"
  /\ UNCHANGED <<registry, manifests, root, chosen, todo, seen>>

Step ==
  \/ \E node \in todo : ResolveNode(node) \/ SkipSeen(node) \/ NodeMissing(node) \/ NodeFails(node)
  \/ Finish

Next == (\E p \in Packages : Start(p)) \/ Step

Spec == Init /\ [][Next]_vars /\ WF_vars(Step)
-----------------------------------------------------------------------------
(* The manifests suffice for a build of p: some set T of packages holds p  *)
(* and what its members link to, and the closure recorded by p covers the  *)
(* direct dependencies of T and of every version it records.               *)
Covers(T, p) ==
  LET closure == RecordedClosure(manifests[p]) IN
  /\ p \in T
  /\ \A q \in T : manifests[q].links \subseteq T
  /\ \A q \in T : \A id \in Ids \ StdlibIds :
       manifests[q].direct[id] # Absent => closure[id] # Absent
  /\ \A id \in Ids : closure[id] # Absent =>
       \A i \in 1..Len(registry[id][closure[id]].direct) :
         LET r == registry[id][closure[id]].direct[i] IN
           r.id \in StdlibIds \/ closure[r.id] # Absent

Sufficient(p) == \E T \in SUBSET Packages : Covers(T, p)

(* A build from sufficient manifests never stops at a missing dependency,  *)
(* in whatever order the nodes are resolved and whatever the graph's shape *)
(* is (cycles between packages included).                                  *)
SufficientNeverMisses == Sufficient(root) => status # "missing"

(* A finished build resolved every node it refers to: no frozen package    *)
(* maps a dependency to a package the map does not hold.                   *)
BuiltIsComplete ==
  status = "built" => \A node \in seen : Children(node) \subseteq seen

(* A build ends: a cycle of packages does not keep the queue filled. *)
BuildEnds == (status = "building") ~> (status # "building")

ChosenIsRecorded == status # "idle" => chosen = RecordedClosure(manifests[root])

(* The inductive strengthening of SufficientNeverMisses: only covered      *)
(* packages and recorded versions are ever queued.                         *)
QueueIsCovered ==
  status # "idle" =>
    \A T \in SUBSET Packages : Covers(T, root) =>
      \A node \in todo :
        IF node.kind = "workspace" THEN node.pkg \in T
        ELSE chosen[node.id] # Absent /\ node.version = chosen[node.id]
=============================================================================

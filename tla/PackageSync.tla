------------------------------ MODULE PackageSync ------------------------------
(***************************************************************************)
(* `pcb sync`, `pcb sync --check` and `pcb mod add` (crates/pcbc/src/mod):  *)
(* resolve every target package with one PackageResolver, then rewrite the *)
(* manifests and the vendor directory, or report what would change.  The   *)
(* manifests written here are what FrozenBuild reads.                      *)
(***************************************************************************)
EXTENDS Naturals, Sequences

CONSTANTS
  Ids, StdlibIds, Versions, Registries, IdOrder,  \* see Mvs, PackageResolver
  Packages, PackageOrder, Overrides,
  Codes,        \* what the .zen files may load: workspace packages, remote ids
  Disks,        \* the manifests to start from
  Indexes,      \* the newest versions the cache index may offer
  TagSets,      \* the workspace package versions git tags may show
  VendorIds,    \* ids that match a pattern of [workspace.vendor]
  MaxCommands   \* bound: commands per behaviour

Absent == 0

Selection == [Ids -> Versions \cup {Absent}]
PackageVersions == [Packages -> Versions \cup {Absent}]

(* [dependencies] of a pcb.toml: pins of workspace packages and of remote  *)
(* ids, and [dependencies.indirect].                                       *)
Manifest == [pins : PackageVersions, direct : Selection, indirect : Selection]

Blank == [pins |-> [p \in Packages |-> Absent], direct |-> [id \in Ids |-> Absent],
          indirect |-> [id \in Ids |-> Absent]]

Code == [uses : [Packages -> SUBSET Packages], imports : [Packages -> SUBSET (Ids \ StdlibIds)]]

Root == Ids \X Versions   \* a vendored or selected {url}/{version}

NoOverrides == [id \in Ids |-> Absent]

(* `pcb sync` at the workspace root takes every package and prunes vendor/ *)
(* (is_workspace_root), in a package directory that package; --check takes *)
(* every package; `pcb mod add` one package with direct overrides.         *)
WholeSync == [kind |-> "sync", targets |-> PackageOrder, overrides |-> NoOverrides, prune |-> TRUE]
Check == [WholeSync EXCEPT !.kind = "check"]
Commands ==
  {WholeSync, Check}
    \cup {[kind |-> "sync", targets |-> <<p>>, overrides |-> NoOverrides, prune |-> FALSE] : p \in Packages}
    \cup {[kind |-> "add", targets |-> <<p>>, overrides |-> o, prune |-> FALSE] : p \in Packages, o \in Overrides}

VARIABLES
  registry, input, pc, selected, queue, visiting, next,  \* of Mvs
  ws, states, resolution, stack, outcome, result,        \* of PackageResolver
  code, newest, tags,  \* the sources, the index and the tags a command reads
  disk,      \* pcb.toml of every package
  vendor,    \* the roots that exist under vendor/
  cmd,       \* the current or the last command
  phase,     \* "idle", "planning", "resolving", "reporting", "writing"
  targets,   \* targets not planned yet
  edits,     \* manifest_edits not applied yet
  roots,     \* selected_remote of all targets
  copies, prunes,  \* of the VendorPlan, not applied yet
  exit,      \* "none", "running", "ok", "refused", "drift", "interrupted"
  before,    \* history: manifests and vendor/ when the command began
  quiet,     \* history: the last sync left the pins as they were, see PinsStood
  issued     \* commands issued

resolverVars == <<registry, input, pc, selected, queue, visiting, next,
                  ws, states, resolution, stack, outcome, result>>
worldVars == <<code, newest, tags>>
filesVars == <<disk, vendor>>
planVars == <<targets, edits, roots, copies, prunes>>
historyVars == <<before, quiet, issued>>
vars == <<resolverVars, worldVars, filesVars, planVars, historyVars, cmd, phase, exit>>

R == INSTANCE PackageResolver WITH Workspaces <- {}

ASSUME PackageSyncAssumption ==
  /\ StdlibIds \subseteq Ids /\ VendorIds \subseteq Ids /\ Ids # {} /\ Packages # {}
  /\ Versions \subseteq Nat \ {0} /\ 1 \in Versions
  /\ Registries \subseteq R!MVS!Registry
  /\ R!Enumerates(IdOrder, Ids) /\ R!Enumerates(PackageOrder, Packages)
  /\ Disks \subseteq [Packages -> Manifest]
  /\ Codes \subseteq Code
  /\ Indexes \subseteq Selection
  /\ TagSets \subseteq PackageVersions
  /\ Overrides \subseteq R!RemoteSelection \ {NoOverrides}
  /\ MaxCommands \in Nat

(* What a build reads from the manifests on disk. *)
OnDisk == [p \in Packages |->
             [links    |-> {q \in Packages : disk[p].pins[q] # Absent},
              direct   |-> disk[p].direct,
              indirect |-> disk[p].indirect]]

Build == INSTANCE FrozenBuild WITH
           manifests <- OnDisk, Workspaces <- {},
           root <- PackageOrder[1], chosen <- NoOverrides, todo <- {}, seen <- {}, status <- "idle"

(* load_workspace: what the commands take from the sources and manifests. *)
Snapshot ==
  [uses |-> code.uses, imports |-> code.imports,
   pins |-> [p \in Packages |-> disk[p].direct], newest |-> newest]

TypeOK ==
  /\ R!TypeOK
  /\ code \in Codes /\ newest \in Indexes /\ tags \in TagSets
  /\ disk \in [Packages -> Manifest]
  /\ vendor \subseteq Root
  /\ cmd \in Commands
  /\ phase \in {"idle", "planning", "resolving", "reporting", "writing"}
  /\ targets \in Seq(Packages)
  /\ edits \in Seq([pkg : Packages, manifest : Manifest])
  /\ roots \subseteq Root /\ copies \subseteq Root /\ prunes \subseteq Root
  /\ exit \in {"none", "running", "ok", "refused", "drift", "interrupted"}
  /\ before \in [disk : [Packages -> Manifest], vendor : SUBSET Root]
  /\ quiet \in BOOLEAN /\ issued \in 0..MaxCommands

Init ==
  /\ code \in Codes /\ newest \in Indexes /\ tags \in TagSets
  /\ disk \in Disks
  /\ vendor = {}
  /\ R!Unused
  /\ ws = Snapshot
  /\ cmd = Check
  /\ phase = "idle"
  /\ targets = <<>> /\ edits = <<>> /\ roots = {} /\ copies = {} /\ prunes = {}
  /\ exit = "none"
  /\ before = [disk |-> disk, vendor |-> vendor]
  /\ quiet = FALSE /\ issued = 0

(* What a command leaves behind of its resolver and its plan when it ends: *)
(* nothing.                                                                *)
Dropped ==
  /\ pc' = "idle" /\ input' = R!NoRequirements /\ selected' = NoOverrides /\ queue' = <<>>
  /\ visiting' = CHOOSE x \in [id : Ids, version : Versions] : TRUE
  /\ next' = 1
  /\ states' = [p \in Packages |-> "none"]
  /\ resolution' = [p \in Packages |-> NoOverrides]
  /\ stack' = <<>> /\ outcome' = "none"
  /\ result' = [pkg |-> PackageOrder[1], direct |-> NoOverrides, selected |-> NoOverrides]
  /\ targets' = <<>> /\ edits' = <<>> /\ roots' = {} /\ copies' = {} /\ prunes' = {}
  /\ UNCHANGED <<registry, ws>>

Ended(how) == phase' = "idle" /\ exit' = how /\ Dropped

(* load_workspace and PackageResolver::new. *)
Begin(c) ==
  /\ phase = "idle"
  /\ issued < MaxCommands
  /\ cmd' = c
  /\ phase' = "planning"
  /\ targets' = c.targets
  /\ exit' = "running"
  /\ ws' = Snapshot
  /\ UNCHANGED <<registry, input, pc, selected, queue, visiting, next,
                 states, resolution, stack, outcome, result, edits, roots, copies, prunes>>
  /\ before' = [disk |-> disk, vendor |-> vendor]
  /\ quiet' = (quiet /\ c = Check)
  /\ issued' = issued + 1
  /\ UNCHANGED <<worldVars, filesVars>>

(* run_resolution, for the next target. *)
Ask ==
  /\ phase = "planning"
  /\ targets # <<>>
  /\ R!Call(Head(targets), cmd.overrides)
  /\ phase' = "resolving"
  /\ UNCHANGED <<worldVars, filesVars, planVars, historyVars, cmd, exit>>

Resolve ==
  /\ phase = "resolving"
  /\ R!ResolverStep
  /\ UNCHANGED <<worldVars, filesVars, planVars, historyVars, cmd, phase, exit>>

(* workspace_package_version: the tag's version, at least the pin so far.  *)
Tagged(q) == IF tags[q] = Absent THEN 1 ELSE tags[q]
TagOnly_Slip(p, q) == Tagged(q)
WorkspacePin(p, q) == R!Larger(Tagged(q), disk[p].pins[q])

(* indirect_dependencies: what was selected and is not a direct id. *)
NothingIndirect_Slip(id) == Absent
IndirectOf(id) == IF result.direct[id] = Absent THEN result.selected[id] ELSE Absent

(* plan_package_manifest *)
Rendered(p) ==
  [pins     |-> [q \in Packages |-> IF q \in ws.uses[p] THEN WorkspacePin(p, q) ELSE Absent],
   direct   |-> result.direct,
   indirect |-> [id \in Ids |-> IndirectOf(id)]]

TakeResult ==
  /\ phase = "resolving"
  /\ outcome = "ok"
  /\ phase' = "planning"
  /\ targets' = Tail(targets)
  /\ LET p == Head(targets) IN
       edits' = IF Rendered(p) = disk[p] THEN edits
                ELSE Append(edits, [pkg |-> p, manifest |-> Rendered(p)])
  /\ roots' = roots \cup {r \in Root : result.selected[r[1]] = r[2]}
  /\ UNCHANGED <<resolverVars, worldVars, filesVars, historyVars, copies, prunes, cmd, exit>>

(* An error in any target leaves run_resolution before anything is written.*)
GiveUp == Ended("refused")

Refuse ==
  /\ phase = "resolving"
  /\ outcome = "error"
  /\ GiveUp
  /\ UNCHANGED <<worldVars, filesVars, historyVars, cmd>>

(* collect_stale_vendor_roots, for a command that prunes. *)
CheckOnly_Slip(c) == c.kind = "check"
Prunes(c) == c.prune

AlwaysWrite_Slip(c) == "writing"
AfterPlan(c) == IF c.kind = "check" THEN "reporting" ELSE "writing"

(* materialize_selected and plan_vendor_package_roots, which does nothing  *)
(* without patterns.                                                       *)
PlanVendor ==
  /\ phase = "planning"
  /\ targets = <<>>
  /\ LET desired == {r \in roots : r[1] \in VendorIds} IN
       /\ copies' = desired \ vendor
       /\ prunes' = IF Prunes(cmd) /\ VendorIds # {} THEN vendor \ desired ELSE {}
  /\ phase' = AfterPlan(cmd)
  /\ UNCHANGED <<resolverVars, worldVars, filesVars, historyVars, targets, edits, roots, cmd, exit>>

MaterializeFails ==
  /\ phase = "planning"
  /\ targets = <<>>
  /\ Ended("refused")
  /\ UNCHANGED <<worldVars, filesVars, historyVars, cmd>>

(* report_sync_drift *)
Report ==
  /\ phase = "reporting"
  /\ Ended(IF edits = <<>> /\ copies = {} /\ prunes = {} THEN "ok" ELSE "drift")
  /\ UNCHANGED <<worldVars, filesVars, historyVars, cmd>>

(* apply_sync_plan: the manifests, then the copies, then the prunes. *)
WriteManifest ==
  /\ phase = "writing"
  /\ edits # <<>>
  /\ disk' = [disk EXCEPT ![Head(edits).pkg] = Head(edits).manifest]
  /\ edits' = Tail(edits)
  /\ UNCHANGED <<resolverVars, worldVars, historyVars, vendor, targets, roots, copies, prunes,
                 cmd, phase, exit>>

CopyRoot(r) ==
  /\ phase = "writing"
  /\ edits = <<>>
  /\ r \in copies
  /\ vendor' = vendor \cup {r}
  /\ copies' = copies \ {r}
  /\ UNCHANGED <<resolverVars, worldVars, historyVars, disk, targets, edits, roots, prunes,
                 cmd, phase, exit>>

PruneRoot(r) ==
  /\ phase = "writing"
  /\ edits = <<>> /\ copies = {}
  /\ r \in prunes
  /\ vendor' = vendor \ {r}
  /\ prunes' = prunes \ {r}
  /\ UNCHANGED <<resolverVars, worldVars, historyVars, disk, targets, edits, roots, copies,
                 cmd, phase, exit>>

(* The command has raised, added and dropped no pin of a remote id.        *)
PinsStood == \A p \in Packages : disk[p].direct = before.disk[p].direct

Finish ==
  /\ phase = "writing"
  /\ edits = <<>> /\ copies = {} /\ prunes = {}
  /\ Ended("ok")
  /\ quiet' = (cmd = WholeSync /\ PinsStood)
  /\ UNCHANGED <<worldVars, filesVars, before, issued, cmd>>

(* A write fails or the process dies: what was written stays, the manifest *)
(* being written (std::fs::write truncates it first) is cut off, and a     *)
(* vendor root being copied exists already.                                *)
Interrupt ==
  /\ phase = "writing"
  /\ \/ /\ edits # <<>>
        /\ disk' \in {disk, [disk EXCEPT ![Head(edits).pkg] = Blank]}
        /\ UNCHANGED vendor
     \/ /\ edits = <<>> /\ copies # {}
        /\ vendor' \in {vendor \cup {r} : r \in copies}
        /\ UNCHANGED disk
     \/ /\ edits = <<>> /\ copies = {} /\ prunes # {}
        /\ UNCHANGED filesVars
  /\ Ended("interrupted")
  /\ quiet' = FALSE
  /\ UNCHANGED <<worldVars, before, issued, cmd>>

(* Between commands sources are edited, newer versions are published and   *)
(* tags are fetched, or missing in a new clone.                            *)
WorldChanges ==
  /\ phase = "idle"
  /\ issued < MaxCommands
  /\ \/ code' \in Codes /\ UNCHANGED <<newest, tags>>
     \/ newest' \in {n \in Indexes : \A id \in Ids : n[id] >= newest[id]} /\ UNCHANGED <<code, tags>>
     \/ tags' \in TagSets /\ UNCHANGED <<code, newest>>
  /\ exit' = "none"
  /\ before' = [disk |-> disk, vendor |-> vendor]
  /\ quiet' = FALSE
  /\ UNCHANGED <<resolverVars, filesVars, planVars, issued, cmd, phase>>

Step ==
  \/ Ask \/ Resolve \/ TakeResult \/ Refuse \/ PlanVendor \/ MaterializeFails \/ Report
  \/ WriteManifest \/ (\E r \in Root : CopyRoot(r) \/ PruneRoot(r)) \/ Finish

Next == (\E c \in Commands : Begin(c)) \/ Step \/ Interrupt \/ WorldChanges

(* A command is sequential code that keeps running. *)
Spec == Init /\ [][Next]_vars /\ WF_vars(Step)
-----------------------------------------------------------------------------
(* After a whole `pcb sync` that succeeded, whatever the manifests were    *)
(* before (torn by an interrupted sync, written by hand), and whenever     *)
(* `pcb sync --check` finds nothing to do, the manifests suffice for a     *)
(* frozen build of every package: none stops at "Resolved closure is       *)
(* missing ...", also across packages that use each other.                 *)
SyncedIsSufficient ==
  phase = "idle" /\ exit = "ok" /\ cmd \in {WholeSync, Check} =>
    \A p \in Packages : Build!Sufficient(p)

(* ... and vendor/ holds exactly the roots of the recorded closures that   *)
(* match a pattern, also after interrupted copies.                         *)
VendorMatchesClosures ==
  phase = "idle" /\ exit = "ok" /\ cmd \in {WholeSync, Check} /\ VendorIds # {} =>
    vendor = {r \in Root : /\ r[1] \in VendorIds
                           /\ \E p \in Packages : Build!RecordedClosure(OnDisk[p])[r[1]] = r[2]}

(* A command that reports an error of the resolution, or only checks, has  *)
(* changed no file, even if other targets had been planned before.         *)
RefusedChangesNothing ==
  exit \in {"refused", "drift"} \/ cmd.kind = "check" =>
    disk = before.disk /\ vendor = before.vendor

(* "sync never lowers it": a pin, of a remote or of a workspace package,   *)
(* that a sync rewrites only rises, also when the local tags lag behind.   *)
PinsOnlyRise ==
  [][(cmd.kind = "sync" /\ exit' # "interrupted") =>
       \A p \in Packages :
         /\ \A id \in Ids : disk'[p].direct[id] # Absent => disk'[p].direct[id] >= disk[p].direct[id]
         /\ \A q \in Packages : disk'[p].pins[q] # Absent => disk'[p].pins[q] >= disk[p].pins[q]]_vars

(* A whole sync that leaves the pins of remote ids as they were has        *)
(* settled: a check finds no drift.  One that raises a pin need not have,  *)
(* not even a second one: the next selection starts higher, visits other   *)
(* manifests on its way, and may raise a pin again or leave orphans behind.*)
QuietSyncSettles == quiet => exit # "drift"
=============================================================================

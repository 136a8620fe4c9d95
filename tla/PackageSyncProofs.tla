--------------------------- MODULE PackageSyncProofs ---------------------------
(***************************************************************************)
(* Proofs about PackageSync, for every registry, workspace and world that  *)
(* changes between commands, and for any number of commands.               *)
(***************************************************************************)
EXTENDS PackageSync, TLAPS

RP == INSTANCE PackageResolverProofs WITH Workspaces <- {}

-----------------------------------------------------------------------------
(* The resolver of the commands is the one PackageResolverProofs is about. *)

LEMMA ResolverFits == RP!ResolverAssumption
<1>1. R!MVS!Registry = RP!MVS!Registry
  BY DEF R!MVS!Registry, RP!MVS!Registry, R!MVS!Manifest, RP!MVS!Manifest, R!MVS!Requirement,
         RP!MVS!Requirement, R!MVS!Absent, RP!MVS!Absent
<1>2. R!RemoteSelection = RP!RemoteSelection
  BY DEF R!RemoteSelection, RP!RemoteSelection, R!Selection, RP!Selection, R!Absent, RP!Absent
<1>3. RP!Enumerates(IdOrder, Ids) /\ RP!Enumerates(PackageOrder, Packages)
  BY PackageSyncAssumption DEF PackageSyncAssumption, R!Enumerates, RP!Enumerates
<1> QED
  BY <1>1, <1>2, <1>3, PackageSyncAssumption DEF PackageSyncAssumption, RP!ResolverAssumption

LEMMA SameTypes ==
  (R!TypeOK <=> RP!TypeOK) /\ ((R!TypeOK)' <=> (RP!TypeOK)')
<1>1. (R!MVS!TypeOK <=> RP!MVS!TypeOK) /\ ((R!MVS!TypeOK)' <=> (RP!MVS!TypeOK)')
  BY DEF R!MVS!TypeOK, RP!MVS!TypeOK, R!MVS!Registry, RP!MVS!Registry, R!MVS!Input, RP!MVS!Input,
         R!MVS!Busy, RP!MVS!Busy, R!MVS!Idle, RP!MVS!Idle, R!MVS!Absent, RP!MVS!Absent,
         R!MVS!Manifest, RP!MVS!Manifest, R!MVS!Requirement, RP!MVS!Requirement
<1>2. /\ R!Workspace = RP!Workspace /\ R!Frame = RP!Frame /\ R!Resolution = RP!Resolution
      /\ R!Selection = RP!Selection
  BY DEF R!Workspace, RP!Workspace, R!Frame, RP!Frame, R!Resolution, RP!Resolution,
         R!Selection, RP!Selection, R!Absent, RP!Absent
<1> QED BY <1>1, <1>2 DEF R!TypeOK, RP!TypeOK

LEMMA SameUnused ==
  (R!Unused <=> RP!Unused) /\ ((R!Unused)' <=> (RP!Unused)')
BY DEF R!Unused, RP!Unused, R!MVS!Init, RP!MVS!Init, R!MVS!Nothing, RP!MVS!Nothing, R!MVS!Absent,
       RP!MVS!Absent, R!NoRequirements, RP!NoRequirements, R!Nothing, RP!Nothing, R!Absent, RP!Absent

LEMMA SameFrames ==
  ASSUME NEW p, NEW o, NEW memo
  PROVE  R!NewFrame(p, o, memo) = RP!NewFrame(p, o, memo)
<1>1. \A S : R!InOrder(S, PackageOrder) = RP!InOrder(S, PackageOrder)
  BY DEF R!InOrder, RP!InOrder
<1> QED BY <1>1 DEF R!NewFrame, RP!NewFrame, R!Nothing, RP!Nothing, R!Absent, RP!Absent

LEMMA SameCall ==
  ASSUME NEW p, NEW o
  PROVE  R!Call(p, o) <=> RP!Call(p, o)
<1>1. R!CallMemoised(p) <=> RP!CallMemoised(p)
  BY DEF R!CallMemoised, RP!CallMemoised, R!DirectOf, RP!DirectOf, R!Nothing, RP!Nothing,
         R!Absent, RP!Absent
<1>2. R!Push(p) <=> RP!Push(p)
  BY SameFrames DEF R!Push, RP!Push, R!Nothing, RP!Nothing, R!Absent, RP!Absent
<1>3. R!Nothing = RP!Nothing /\ R!mvsVars = RP!mvsVars
  BY DEF R!Nothing, RP!Nothing, R!Absent, RP!Absent, R!mvsVars, RP!mvsVars
<1> QED BY <1>1, <1>2, <1>3, SameFrames DEF R!Call, RP!Call, R!mvsVars, RP!mvsVars

LEMMA SameResolverStep == R!ResolverStep <=> RP!ResolverStep
<1> USE DEF R!mvsVars, RP!mvsVars, R!resolverVars, RP!resolverVars, R!Top, RP!Top, R!Popped, RP!Popped,
            R!WithTop, RP!WithTop, R!Nothing, RP!Nothing, R!Absent, RP!Absent, R!Active, RP!Active,
            R!Importing, RP!Importing, R!Selecting, RP!Selecting, R!Unscannable, RP!Unscannable,
            R!DirectOf, RP!DirectOf
<1>1. R!ScanFails <=> RP!ScanFails
  BY DEF R!ScanFails, RP!ScanFails
<1>2. R!ImportFloors <=> RP!ImportFloors
  BY DEF R!ImportFloors, RP!ImportFloors, R!MergeFloors, RP!MergeFloors, R!Larger, RP!Larger
<1>3. R!Recurse <=> RP!Recurse
  BY DEF R!Recurse, RP!Recurse, R!Push, RP!Push, R!NewFrame, RP!NewFrame, R!InOrder, RP!InOrder
<1>4. R!CycleFound <=> RP!CycleFound
  BY DEF R!CycleFound, RP!CycleFound
<1>5. R!StartSelection <=> RP!StartSelection
  BY DEF R!StartSelection, RP!StartSelection, R!MVS!Start, RP!MVS!Start, R!MVS!Idle, RP!MVS!Idle,
         R!MVS!Nothing, RP!MVS!Nothing, R!MVS!Absent, RP!MVS!Absent, R!AsList, RP!AsList,
         R!InOrder, RP!InOrder
<1>6. R!SelectionStep <=> RP!SelectionStep
  BY DEF R!SelectionStep, RP!SelectionStep, R!MVS!Step, RP!MVS!Step, R!MVS!SkipStdlib,
         RP!MVS!SkipStdlib, R!MVS!RaiseFloor, RP!MVS!RaiseFloor, R!MVS!KeepFloor, RP!MVS!KeepFloor,
         R!MVS!FailSpec, RP!MVS!FailSpec, R!MVS!EndSource, RP!MVS!EndSource, R!MVS!Visit,
         RP!MVS!Visit, R!MVS!Finish, RP!MVS!Finish, R!MVS!Merging, RP!MVS!Merging, R!MVS!Source,
         RP!MVS!Source, R!MVS!Seeds, RP!MVS!Seeds, R!MVS!Requires, RP!MVS!Requires,
         R!MVS!RaisesFloor, RP!MVS!RaisesFloor, R!MVS!RaisedTo, RP!MVS!RaisedTo, R!MVS!Enqueued,
         RP!MVS!Enqueued, R!MVS!Absent, RP!MVS!Absent
<1>7. R!Return <=> RP!Return
  BY DEF R!Return, RP!Return, R!Memoised, RP!Memoised, R!FoldDirect, RP!FoldDirect
<1>8. R!SelectionFails <=> RP!SelectionFails
  BY DEF R!SelectionFails, RP!SelectionFails
<1>9. R!Unwind <=> RP!Unwind
  BY DEF R!Unwind, RP!Unwind, R!Forgotten, RP!Forgotten
<1> QED
  BY <1>1, <1>2, <1>3, <1>4, <1>5, <1>6, <1>7, <1>8, <1>9 DEF R!ResolverStep, RP!ResolverStep

LEMMA FreshResolver ==
  (RP!Unused /\ ws \in RP!Workspace => RP!IInv) /\ (RP!Unused /\ ws \in RP!Workspace => RP!IInv)'
<1>1. RP!Unused /\ ws \in RP!Workspace => RP!IInv
  BY ResolverFits, RP!UnusedIsSound
<1> QED BY <1>1, PTL

-----------------------------------------------------------------------------
(* The inductive invariant.                                                *)

Working == phase # "idle"
Plain == cmd.overrides = NoOverrides
Whole == cmd \in {WholeSync, Check}

RunningIsWorking == exit = "running" <=> Working

(* Between commands there is no resolver and no plan.                      *)
IdleHoldsNothing ==
  phase = "idle" => RP!Unused /\ edits = <<>> /\ roots = {} /\ copies = {} /\ prunes = {}

(* A command works on what it loaded when it began.                        *)
ReadsSnapshot ==
  Working => ws = [uses |-> code.uses, imports |-> code.imports,
                   pins |-> [p \in Packages |-> before.disk[p].direct], newest |-> newest]

(* Files change in the last phase only, and not by a check.                *)
Intact == disk = before.disk /\ vendor = before.vendor

WritesLast ==
  /\ phase \in {"planning", "resolving", "reporting"} \/ exit \in {"refused", "drift"}
       \/ cmd.kind = "check" => Intact
  /\ phase = "writing" => cmd.kind # "check"

(* The resolver serves the next target.                                    *)
ServesTarget ==
  phase = "resolving" =>
    /\ targets # <<>>
    /\ \E p \in Packages, o \in RP!RemoteSelection :
         p = Head(targets) /\ o = cmd.overrides /\ RP!Serving(p, o)

(* The manifest that a command without overrides wants for p.              *)
Want(p) ==
  LET direct == RP!FoldDirect(p, NoOverrides, resolution[p]) IN
    [pins     |-> [q \in Packages |->
                     IF q \in ws.uses[p] THEN R!Larger(Tagged(q), before.disk[p].pins[q]) ELSE Absent],
     direct   |-> direct,
     indirect |-> [id \in Ids |-> IF direct[id] = Absent THEN resolution[p][id] ELSE Absent]]

Resolved(p) == states[p] = "resolved"

EditsAreWanted ==
  Working /\ Plain =>
    \A p \in Packages, i \in 1..Len(edits) :
      edits[i].pkg = p => Resolved(p) /\ edits[i].manifest = Want(p)

DiskIsOldOrWanted ==
  Working /\ Plain =>
    \A p \in Packages : disk[p] = before.disk[p] \/ (Resolved(p) /\ disk[p] = Want(p))

RootsOf(p) == {r \in Root : resolution[p][r[1]] = r[2]}

Awaits(p, list) == \E i \in 1..Len(list) : list[i] = p
Edited(p, list) == \E i \in 1..Len(list) : list[i].pkg = p

(* p is planned: what is not on disk yet is among the edits.               *)
Planned(p) ==
  /\ Resolved(p) /\ RootsOf(p) \subseteq roots
  /\ disk[p] = Want(p) \/ Edited(p, edits)

EveryPackage == Working /\ Whole => \A p \in Packages : Awaits(p, targets) \/ Planned(p)

RootsAreSelected ==
  Working /\ Whole => \A r \in roots : \E p \in Packages : Resolved(p) /\ r \in RootsOf(p)

(* vendor/ with the copies and without the prunes is what is desired.      *)
Desired == {r \in roots : r[1] \in VendorIds}

VendorPlanned ==
  phase \in {"reporting", "writing"} =>
    /\ targets = <<>>
    /\ Desired \subseteq vendor \cup copies /\ copies \subseteq Desired
    /\ prunes \cap Desired = {}
    /\ cmd.prune /\ VendorIds # {} => vendor \subseteq Desired \cup prunes

Typed == TypeOK /\ RP!IInv /\ registry \in Registries
Control == RunningIsWorking /\ IdleHoldsNothing /\ ReadsSnapshot /\ WritesLast /\ ServesTarget
Plan == EditsAreWanted /\ DiskIsOldOrWanted /\ EveryPackage /\ RootsAreSelected /\ VendorPlanned
Synced == SyncedIsSufficient /\ VendorMatchesClosures

IInv == Typed /\ Control /\ Plan /\ Synced

-----------------------------------------------------------------------------
(* The operators of the model.                                             *)

LEMMA SameSelection ==
  Selection = RP!Selection /\ NoOverrides = RP!Nothing /\ NoOverrides \in Selection
  /\ NoOverrides \in RP!RemoteSelection
<1>1. Selection = RP!Selection /\ NoOverrides = RP!Nothing
  BY DEF Selection, RP!Selection, Absent, RP!Absent, NoOverrides, RP!Nothing
<1>2. NoOverrides \in RP!RemoteSelection
  BY <1>1, ResolverFits, RP!NothingIsRemote
<1> QED BY <1>1, <1>2 DEF RP!RemoteSelection

LEMMA CommandFacts ==
  ASSUME NEW c \in Commands
  PROVE  /\ c.targets \in Seq(Packages) /\ c.overrides \in RP!RemoteSelection
         /\ c.kind \in {"sync", "check", "add"}
         /\ c.kind \in {"sync", "check"} => c.overrides = NoOverrides
         /\ c \in {WholeSync, Check} =>
              c.overrides = NoOverrides /\ c.prune /\ c.targets = PackageOrder
<1>1. PackageOrder \in Seq(Packages)
  BY PackageSyncAssumption DEF PackageSyncAssumption, R!Enumerates
<1>2. R!RemoteSelection = RP!RemoteSelection
  BY DEF R!RemoteSelection, RP!RemoteSelection, R!Selection, RP!Selection, R!Absent, RP!Absent
<1>3. \A o \in Overrides : o \in RP!RemoteSelection
  BY <1>2, PackageSyncAssumption DEF PackageSyncAssumption
<1>4. Check.overrides = NoOverrides /\ Check.prune /\ Check.targets = PackageOrder
      /\ Check.kind = "check"
  BY DEF Check, WholeSync
<1>5. WholeSync.overrides = NoOverrides /\ WholeSync.prune /\ WholeSync.targets = PackageOrder
      /\ WholeSync.kind = "sync"
  BY DEF WholeSync
<1>6. CASE c = WholeSync
  BY <1>1, <1>5, <1>6, SameSelection
<1>7. CASE c = Check
  BY <1>1, <1>4, <1>7, SameSelection
<1>8. CASE c \notin {WholeSync, Check}
  <2>1. \/ \E p \in Packages :
             c = [kind |-> "sync", targets |-> <<p>>, overrides |-> NoOverrides, prune |-> FALSE]
        \/ \E p \in Packages, o \in Overrides :
             c = [kind |-> "add", targets |-> <<p>>, overrides |-> o, prune |-> FALSE]
    BY <1>8 DEF Commands
  <2>2. c.kind = "sync" => c.overrides = NoOverrides
    BY <2>1
  <2>3. c.overrides \in RP!RemoteSelection
    BY <1>3, <2>1, SameSelection
  <2>4. c.targets \in Seq(Packages) /\ c.kind \in {"sync", "add"}
    BY <2>1
  <2> QED BY <1>8, <2>2, <2>3, <2>4
<1> QED BY <1>6, <1>7, <1>8

LEMMA PinIsVersion ==
  ASSUME tags \in PackageVersions, NEW q \in Packages, NEW v \in Versions \cup {Absent}
  PROVE  R!Larger(Tagged(q), v) \in Versions /\ R!Larger(Tagged(q), v) >= v
         /\ R!Larger(Tagged(q), v) # Absent
<1>1. Versions \subseteq Nat \ {0} /\ 1 \in Versions
  BY PackageSyncAssumption DEF PackageSyncAssumption
<1>2. Tagged(q) \in Versions
  BY <1>1 DEF Tagged, PackageVersions
<1>3. Tagged(q) \in Nat \ {0}
  BY <1>1, <1>2
<1>4. v = 0 \/ v \in Nat \ {0}
  BY <1>1 DEF Absent
<1> QED BY <1>2, <1>3, <1>4 DEF R!Larger, Absent

LEMMA PinsAreVersions ==
  ASSUME tags \in PackageVersions, NEW used \in SUBSET Packages, NEW old \in PackageVersions
  PROVE  [q \in Packages |-> IF q \in used THEN R!Larger(Tagged(q), old[q]) ELSE Absent] \in PackageVersions
<1>1. \A q \in Packages : R!Larger(Tagged(q), old[q]) \in Versions
  BY PinIsVersion DEF PackageVersions
<1> QED BY <1>1 DEF PackageVersions

LEMMA FoldIsSelection ==
  ASSUME NEW p, NEW o, NEW s \in Selection
  PROVE  RP!FoldDirect(p, o, s) \in Selection
BY DEF RP!FoldDirect, Selection, Absent, RP!Absent

LEMMA WantIsManifest ==
  ASSUME tags \in PackageVersions, before.disk \in [Packages -> Manifest], ws \in RP!Workspace,
         resolution \in [Packages -> Selection], NEW p \in Packages
  PROVE  Want(p) \in Manifest
<1> DEFINE direct == RP!FoldDirect(p, NoOverrides, resolution[p])
           pins == [q \in Packages |->
                      IF q \in ws.uses[p] THEN R!Larger(Tagged(q), before.disk[p].pins[q]) ELSE Absent]
           indirect == [id \in Ids |-> IF direct[id] = Absent THEN resolution[p][id] ELSE Absent]
<1>1. resolution[p] \in Selection /\ ws.uses[p] \in SUBSET Packages
  BY DEF RP!Workspace
<1>2. before.disk[p].pins \in PackageVersions
  BY DEF Manifest
<1>3. pins \in PackageVersions
  BY <1>1, <1>2, PinsAreVersions
<1>4. direct \in Selection
  BY <1>1, FoldIsSelection
<1>5. indirect \in Selection
  BY <1>1 DEF Selection
<1>6. Want(p) = [pins |-> pins, direct |-> direct, indirect |-> indirect]
  BY DEF Want
<1> HIDE DEF pins, direct, indirect
<1> QED BY <1>3, <1>4, <1>5, <1>6 DEF Manifest

LEMMA RenderedIsManifest ==
  ASSUME tags \in PackageVersions, disk \in [Packages -> Manifest], ws \in RP!Workspace,
         result \in RP!Resolution, NEW p \in Packages
  PROVE  Rendered(p) \in Manifest
<1> DEFINE pins == [q \in Packages |->
                      IF q \in ws.uses[p] THEN R!Larger(Tagged(q), disk[p].pins[q]) ELSE Absent]
           indirect == [id \in Ids |-> IF result.direct[id] = Absent THEN result.selected[id] ELSE Absent]
<1>1. result.direct \in Selection /\ result.selected \in Selection /\ ws.uses[p] \in SUBSET Packages
  BY SameSelection DEF RP!Workspace, RP!Resolution
<1>2. disk[p].pins \in PackageVersions
  BY DEF Manifest
<1>3. pins \in PackageVersions
  BY <1>1, <1>2, PinsAreVersions
<1>4. indirect \in Selection
  BY <1>1 DEF Selection
<1>5. Rendered(p) = [pins |-> pins, direct |-> result.direct, indirect |-> indirect]
  BY DEF Rendered, WorkspacePin, IndirectOf
<1> HIDE DEF pins, indirect
<1> QED BY <1>1, <1>3, <1>4, <1>5 DEF Manifest

(* What the resolver answers without overrides is rendered as wanted.      *)
LEMMA RenderedIsWanted ==
  ASSUME NEW p \in Packages, RP!Answered(p, NoOverrides), disk = before.disk
  PROVE  Resolved(p) /\ Rendered(p) = Want(p) /\ result.selected = resolution[p]
<1>1. states[p] = "resolved" /\ result.selected = resolution[p]
      /\ result.direct = RP!FoldDirect(p, NoOverrides, resolution[p])
  BY SameSelection DEF RP!Answered
<1> QED BY <1>1 DEF Rendered, WorkspacePin, IndirectOf, Want, Resolved

LEMMA WantKept ==
  ASSUME UNCHANGED <<ws, tags, before>>, NEW p, resolution'[p] = resolution[p]
  PROVE  Want(p)' = Want(p) /\ RootsOf(p)' = RootsOf(p)
BY DEF Want, RootsOf, Tagged, RP!FoldDirect, RP!DirectOf

-----------------------------------------------------------------------------
(* Steps within a command.                                                 *)

LEMMA ResolverUntouched ==
  ASSUME RP!IInv, UNCHANGED resolverVars
  PROVE  RP!IInv'
<1>1. UNCHANGED <<registry, input, pc, selected, queue, visiting, next,
                  ws, states, resolution, stack, outcome, result>>
  BY DEF resolverVars
<1>2. outcome \in {"none", "running", "failing", "ok", "error"} /\ result \in RP!Resolution
  BY DEF RP!IInv, RP!Typed, RP!TypeOK
<1> QED BY <1>1, <1>2, ResolverFits, RP!QuietStep DEF RP!mvsVars

(* What every step keeps that leaves a command at work.                    *)
LEMMA WorkingStep ==
  ASSUME IInv, Working, phase' \in {"planning", "resolving", "reporting", "writing"}, RP!IInv',
         UNCHANGED <<registry, ws, code, newest, tags, before, quiet, issued, cmd, exit>>,
         disk' \in [Packages -> Manifest], vendor' \subseteq Root, targets' \in Seq(Packages),
         edits' \in Seq([pkg : Packages, manifest : Manifest]),
         roots' \subseteq Root, copies' \subseteq Root, prunes' \subseteq Root
  PROVE  Typed' /\ RunningIsWorking' /\ IdleHoldsNothing' /\ ReadsSnapshot' /\ Synced'
<1>1. TypeOK'
  <2>1. (R!TypeOK)'
    BY SameTypes DEF RP!IInv, RP!Typed
  <2> QED BY <2>1 DEF IInv, Typed, TypeOK
<1>2. Typed'
  BY <1>1 DEF IInv, Typed
<1>3. RunningIsWorking' /\ IdleHoldsNothing' /\ ReadsSnapshot'
  BY DEF IInv, Control, RunningIsWorking, IdleHoldsNothing, ReadsSnapshot, Working
<1>4. Synced'
  BY DEF Synced, SyncedIsSufficient, VendorMatchesClosures
<1> QED BY <1>2, <1>3, <1>4

(* Planning on: nothing planned is lost, whatever else is resolved.        *)
LEMMA PlanningStep ==
  ASSUME IInv, phase \in {"planning", "resolving"}, phase' \in {"planning", "resolving"}, RP!IInv',
         UNCHANGED <<registry, ws, code, newest, tags, before, quiet, issued, cmd, exit>>,
         UNCHANGED <<disk, vendor, targets, edits, roots, copies, prunes>>,
         \A p \in Packages : Resolved(p) => Resolved(p)' /\ resolution'[p] = resolution[p],
         ServesTarget'
  PROVE  IInv'
<1>1. Working
  BY DEF Working
<1>2. Typed' /\ RunningIsWorking' /\ IdleHoldsNothing' /\ ReadsSnapshot' /\ Synced'
  BY <1>1, WorkingStep DEF IInv, Typed, TypeOK
<1>3. WritesLast'
  BY DEF IInv, Control, WritesLast, Intact
<1>4. \A p \in Packages : Resolved(p) => Resolved(p)' /\ Want(p)' = Want(p) /\ RootsOf(p)' = RootsOf(p)
  BY WantKept
<1>5. EditsAreWanted' /\ DiskIsOldOrWanted'
  BY <1>1, <1>4 DEF IInv, Plan, EditsAreWanted, DiskIsOldOrWanted, Plain
<1>6. EveryPackage'
  BY <1>1, <1>4 DEF IInv, Plan, EveryPackage, Whole, Awaits, Planned, Edited
<1>7. RootsAreSelected'
  BY <1>1, <1>4 DEF IInv, Plan, RootsAreSelected, Whole
<1>8. VendorPlanned'
  BY DEF VendorPlanned
<1> QED BY <1>2, <1>3, <1>5, <1>6, <1>7, <1>8 DEF IInv, Control, Plan

LEMMA AskStep == ASSUME IInv, Ask PROVE IInv'
<1>1. /\ phase = "planning" /\ targets # <<>> /\ phase' = "resolving"
      /\ R!Call(Head(targets), cmd.overrides)
      /\ UNCHANGED <<code, newest, tags, disk, vendor, targets, edits, roots, copies, prunes,
                     before, quiet, issued, cmd, exit>>
  BY DEF Ask, worldVars, filesVars, planVars, historyVars
<1>2. PICK p \in Packages, o \in RP!RemoteSelection : p = Head(targets) /\ o = cmd.overrides
  BY <1>1, CommandFacts DEF IInv, Typed, TypeOK
<1>3. RP!Call(p, o) /\ RP!IInv
  BY <1>1, <1>2, SameCall DEF IInv, Typed
<1>4. RP!IInv' /\ RP!Serving(p, o)'
  BY <1>3, ResolverFits, RP!CallStep, RP!ServingStarts
<1>5. UNCHANGED <<registry, ws>>
  BY <1>3 DEF RP!Call, RP!mvsVars
<1>6. \A q \in Packages : Resolved(q) => Resolved(q)' /\ resolution'[q] = resolution[q]
  BY <1>3, ResolverFits, RP!MemoKept DEF Resolved
<1>7. ServesTarget'
  BY <1>1, <1>2, <1>4 DEF ServesTarget
<1> QED BY <1>1, <1>4, <1>5, <1>6, <1>7, PlanningStep

LEMMA ResolveStep == ASSUME IInv, Resolve PROVE IInv'
<1>1. /\ phase = "resolving" /\ phase' = "resolving" /\ RP!ResolverStep
      /\ UNCHANGED <<code, newest, tags, disk, vendor, targets, edits, roots, copies, prunes,
                     before, quiet, issued, cmd, exit>>
  BY SameResolverStep DEF Resolve, worldVars, filesVars, planVars, historyVars
<1>2. PICK p \in Packages, o \in RP!RemoteSelection :
        targets # <<>> /\ p = Head(targets) /\ o = cmd.overrides /\ RP!Serving(p, o)
  BY <1>1 DEF IInv, Control, ServesTarget
<1>3. RP!IInv
  BY DEF IInv, Typed
<1>4. RP!IInv' /\ RP!Serving(p, o)'
  BY <1>1, <1>2, <1>3, ResolverFits, RP!ResolverKeeps, RP!ServingKept
<1>5. UNCHANGED <<registry, ws>>
  BY <1>1 DEF RP!ResolverStep, RP!ScanFails, RP!ImportFloors, RP!Recurse, RP!CycleFound,
              RP!StartSelection, RP!SelectionStep, RP!Return, RP!SelectionFails, RP!Unwind,
              RP!mvsVars, RP!resolverVars, RP!MVS!Start, RP!MVS!Step, RP!MVS!SkipStdlib,
              RP!MVS!RaiseFloor, RP!MVS!KeepFloor, RP!MVS!FailSpec, RP!MVS!EndSource,
              RP!MVS!Visit, RP!MVS!Finish
<1>6. \A q \in Packages : Resolved(q) => Resolved(q)' /\ resolution'[q] = resolution[q]
  BY <1>1, <1>3, ResolverFits, RP!MemoKept DEF Resolved
<1>7. ServesTarget'
  BY <1>1, <1>2, <1>4 DEF ServesTarget
<1> QED BY <1>1, <1>4, <1>5, <1>6, <1>7, PlanningStep

(* A queue is its head and its tail.                                       *)
Splits(s, S) ==
  /\ Head(s) \in S /\ Tail(s) \in Seq(S)
  /\ \E k \in 1..Len(s) : s[k] = Head(s)
  /\ \A i \in 1..Len(Tail(s)) : \E k \in 1..Len(s) : s[k] = Tail(s)[i]
  /\ \A k \in 1..Len(s) : s[k] = Head(s) \/ \E i \in 1..Len(Tail(s)) : Tail(s)[i] = s[k]

LEMMA QueueSplits ==
  ASSUME NEW S, NEW s \in Seq(S), s # <<>>
  PROVE  Splits(s, S)
<1>1. /\ Head(s) = s[1] /\ Head(s) \in S /\ Tail(s) \in Seq(S)
      /\ Len(s) \in Nat \ {0} /\ Len(Tail(s)) = Len(s) - 1
      /\ \A i \in 1..Len(s) - 1 : Tail(s)[i] = s[i + 1]
  OBVIOUS
<1>2. ASSUME NEW k \in 1..Len(s), k # 1
      PROVE  \E i \in 1..Len(Tail(s)) : Tail(s)[i] = s[k]
  <2>1. k - 1 \in 1..Len(Tail(s)) /\ (k - 1) + 1 = k
    BY <1>1, <1>2
  <2>2. Tail(s)[k - 1] = s[k]
    BY <1>1, <2>1
  <2> QED BY <2>1, <2>2
<1>3. ASSUME NEW i \in 1..Len(Tail(s)) PROVE \E k \in 1..Len(s) : s[k] = Tail(s)[i]
  <2>1. i + 1 \in 1..Len(s) /\ Tail(s)[i] = s[i + 1]
    BY <1>1
  <2> QED BY <2>1
<1>4. 1 \in 1..Len(s)
  BY <1>1
<1>5. \A k \in 1..Len(s) : s[k] = Head(s) \/ \E i \in 1..Len(Tail(s)) : Tail(s)[i] = s[k]
  BY <1>1, <1>2
<1> QED BY <1>1, <1>3, <1>4, <1>5 DEF Splits

LEMMA TakeResultStep == ASSUME IInv, TakeResult PROVE IInv'
<1>1. /\ phase = "resolving" /\ outcome = "ok" /\ phase' = "planning"
      /\ UNCHANGED resolverVars
      /\ UNCHANGED <<code, newest, tags, disk, vendor, copies, prunes, before, quiet, issued, cmd, exit>>
  BY DEF TakeResult, worldVars, filesVars, historyVars
<1>2. PICK p \in Packages, o \in RP!RemoteSelection :
        /\ targets # <<>> /\ p = Head(targets) /\ o = cmd.overrides /\ RP!Answered(p, o)
  BY <1>1 DEF IInv, Control, ServesTarget, RP!Serving
<1>3. /\ targets' = Tail(targets)
      /\ edits' = IF Rendered(p) = disk[p] THEN edits
                  ELSE Append(edits, [pkg |-> p, manifest |-> Rendered(p)])
      /\ roots' = roots \cup {r \in Root : result.selected[r[1]] = r[2]}
  BY <1>2 DEF TakeResult
<1>4. RP!IInv' /\ RP!IInv /\ UNCHANGED <<registry, ws, states, resolution>>
  BY <1>1, ResolverUntouched DEF IInv, Typed, resolverVars
<1>5. /\ targets \in Seq(Packages) /\ edits \in Seq([pkg : Packages, manifest : Manifest])
      /\ disk \in [Packages -> Manifest] /\ tags \in PackageVersions
  BY PackageSyncAssumption DEF IInv, Typed, TypeOK, PackageSyncAssumption
<1>6. Splits(targets, Packages)
  BY <1>2, <1>5, QueueSplits
<1>7. Rendered(p) \in Manifest
  BY <1>4, <1>5, RenderedIsManifest DEF RP!IInv, RP!Typed, RP!TypeOK
<1> DEFINE e == [pkg |-> p, manifest |-> Rendered(p)]
<1>8. e \in [pkg : Packages, manifest : Manifest] /\ e.pkg = p /\ e.manifest = Rendered(p)
  BY <1>7
<1>9. edits' = IF Rendered(p) = disk[p] THEN edits ELSE Append(edits, e)
  BY <1>3
<1> HIDE DEF e
<1>10. /\ edits' \in Seq([pkg : Packages, manifest : Manifest])
       /\ \A q : Edited(q, edits) => Edited(q, edits')
       /\ Rendered(p) = disk[p] \/ Edited(p, edits')
       /\ \A i \in 1..Len(edits') : edits'[i] = e \/ \E k \in 1..Len(edits) : edits'[i] = edits[k]
  <2>1. CASE Rendered(p) = disk[p]
    BY <1>5, <1>9, <2>1
  <2>2. CASE Rendered(p) # disk[p]
    <3> DEFINE E == [pkg : Packages, manifest : Manifest]
    <3>1. edits \in Seq(E) /\ e \in E /\ edits' = Append(edits, e)
      BY <1>5, <1>8, <1>9, <2>2
    <3> HIDE DEF E
    <3>2. /\ edits' \in Seq(E) /\ Len(edits) \in Nat /\ Len(edits') = Len(edits) + 1
          /\ edits'[Len(edits) + 1] = e
          /\ \A i \in 1..Len(edits) : i \in 1..Len(edits') /\ edits'[i] = edits[i]
          /\ Len(edits) + 1 \in 1..Len(edits')
          /\ \A i \in 1..Len(edits') : i = Len(edits) + 1 \/ i \in 1..Len(edits)
      BY <3>1
    <3>3. Edited(p, edits')
      BY <1>8, <3>2 DEF Edited
    <3>4. \A q : Edited(q, edits) => Edited(q, edits')
      BY <3>2 DEF Edited
    <3> QED BY <3>2, <3>3, <3>4 DEF E
  <2> QED BY <2>1, <2>2
<1>11. Typed' /\ RunningIsWorking' /\ IdleHoldsNothing' /\ ReadsSnapshot' /\ Synced'
  <2>1. targets' \in Seq(Packages)
    BY <1>3, <1>6 DEF Splits
  <2>2. roots' \subseteq Root /\ vendor \subseteq Root /\ copies \subseteq Root /\ prunes \subseteq Root
    BY <1>3 DEF IInv, Typed, TypeOK
  <2> QED BY <1>1, <1>4, <1>5, <1>10, <2>1, <2>2, WorkingStep DEF Working
<1>12. WritesLast' /\ ServesTarget' /\ VendorPlanned'
  BY <1>1 DEF IInv, Control, WritesLast, Intact, ServesTarget, VendorPlanned
<1>13. \A q : Want(q)' = Want(q) /\ RootsOf(q)' = RootsOf(q) /\ Resolved(q)' = Resolved(q)
  BY <1>1, <1>4, WantKept DEF Resolved
<1>14. Plain => Resolved(p) /\ Rendered(p) = Want(p) /\ result.selected = resolution[p]
  <2>1. disk = before.disk
    BY <1>1 DEF IInv, Control, WritesLast, Intact
  <2> QED BY <1>2, <2>1, RenderedIsWanted DEF Plain
<1>15. EditsAreWanted'
  <2> SUFFICES ASSUME Plain, NEW q \in Packages, NEW i \in 1..Len(edits'), edits'[i].pkg = q
               PROVE  Resolved(q) /\ edits'[i].manifest = Want(q)
    BY <1>1, <1>13 DEF EditsAreWanted, Plain
  <2>1. CASE edits'[i] = e
    BY <1>8, <1>14, <2>1
  <2>2. ASSUME NEW k \in 1..Len(edits), edits'[i] = edits[k]
        PROVE  Resolved(q) /\ edits'[i].manifest = Want(q)
    BY <1>1, <2>2 DEF IInv, Plan, EditsAreWanted, Working
  <2> QED BY <1>10, <2>1, <2>2
<1>16. DiskIsOldOrWanted'
  BY <1>1, <1>13 DEF IInv, Plan, DiskIsOldOrWanted, Plain, Working
<1>17. Whole => Plain
  BY CommandFacts DEF IInv, Typed, TypeOK, Whole, Plain
<1>18. EveryPackage'
  <2> SUFFICES ASSUME Whole, NEW q \in Packages
               PROVE  Awaits(q, targets') \/ Planned(q)'
    BY <1>1 DEF EveryPackage, Whole
  <2>1. CASE Planned(q)
    BY <1>1, <1>3, <1>10, <1>13, <2>1 DEF Planned
  <2>2. CASE q = p
    <3>1. RootsOf(p) \subseteq roots'
      BY <1>3, <1>14, <1>17 DEF RootsOf
    <3> QED BY <1>1, <1>10, <1>13, <1>14, <1>17, <2>2, <3>1 DEF Planned
  <2>3. CASE Awaits(q, targets) /\ q # p
    BY <1>2, <1>3, <1>6, <2>3 DEF Awaits, Splits
  <2> QED BY <1>1, <2>1, <2>2, <2>3 DEF IInv, Plan, EveryPackage, Working
<1>19. RootsAreSelected'
  <2> SUFFICES ASSUME Whole, NEW r \in roots'
               PROVE  \E q \in Packages : Resolved(q) /\ r \in RootsOf(q)
    BY <1>1, <1>13 DEF RootsAreSelected, Whole
  <2>1. CASE r \in roots
    BY <1>1, <2>1 DEF IInv, Plan, RootsAreSelected, Working
  <2>2. CASE r \in Root /\ result.selected[r[1]] = r[2]
    BY <1>14, <1>17, <2>2 DEF RootsOf
  <2> QED BY <1>3, <2>1, <2>2
<1> QED BY <1>11, <1>12, <1>15, <1>16, <1>18, <1>19 DEF IInv, Control, Plan

LEMMA PlanVendorStep == ASSUME IInv, PlanVendor PROVE IInv'
<1>1. /\ phase = "planning" /\ targets = <<>> /\ UNCHANGED resolverVars
      /\ phase' = AfterPlan(cmd)
      /\ UNCHANGED <<code, newest, tags, disk, vendor, targets, edits, roots, before, quiet,
                     issued, cmd, exit>>
      /\ copies' = Desired \ vendor
      /\ prunes' = IF cmd.prune /\ VendorIds # {} THEN vendor \ Desired ELSE {}
  BY DEF PlanVendor, worldVars, filesVars, historyVars, Desired, Prunes
<1>2. RP!IInv' /\ UNCHANGED <<registry, ws, states, resolution>>
  BY <1>1, ResolverUntouched DEF IInv, Typed, resolverVars
<1>3. phase' \in {"reporting", "writing"} /\ (phase' = "writing" => cmd.kind # "check")
  BY <1>1 DEF AfterPlan
<1>4. Typed' /\ RunningIsWorking' /\ IdleHoldsNothing' /\ ReadsSnapshot' /\ Synced'
  <2>1. /\ targets \in Seq(Packages) /\ edits \in Seq([pkg : Packages, manifest : Manifest])
        /\ disk \in [Packages -> Manifest] /\ roots \subseteq Root /\ vendor \subseteq Root
    BY DEF IInv, Typed, TypeOK
  <2>2. copies' \subseteq Root /\ prunes' \subseteq Root
    BY <1>1, <2>1 DEF Desired
  <2> QED BY <1>1, <1>2, <1>3, <2>1, <2>2, WorkingStep DEF Working
<1>5. WritesLast' /\ ServesTarget'
  BY <1>1, <1>3 DEF IInv, Control, WritesLast, Intact, ServesTarget
<1>6. \A q : Want(q)' = Want(q) /\ RootsOf(q)' = RootsOf(q) /\ Resolved(q)' = Resolved(q)
  BY <1>1, <1>2, WantKept DEF Resolved
<1>7. EditsAreWanted' /\ DiskIsOldOrWanted'
  BY <1>1, <1>6 DEF IInv, Plan, EditsAreWanted, DiskIsOldOrWanted, Plain, Working
<1>8. EveryPackage' /\ RootsAreSelected'
  BY <1>1, <1>6 DEF IInv, Plan, EveryPackage, RootsAreSelected, Whole, Working, Planned
<1>9. VendorPlanned'
  BY <1>1 DEF VendorPlanned, Desired
<1> QED BY <1>4, <1>5, <1>7, <1>8, <1>9 DEF IInv, Control, Plan

-----------------------------------------------------------------------------
(* Writing.                                                                *)

LEMMA WriteManifestStep == ASSUME IInv, WriteManifest PROVE IInv'
<1> DEFINE h == Head(edits)
<1>1. /\ phase = "writing" /\ phase' = "writing" /\ edits # <<>> /\ edits' = Tail(edits)
      /\ disk' = [disk EXCEPT ![h.pkg] = h.manifest]
      /\ UNCHANGED resolverVars
      /\ UNCHANGED <<code, newest, tags, vendor, targets, roots, copies, prunes, before, quiet,
                     issued, cmd, exit>>
  BY DEF WriteManifest, worldVars, historyVars
<1>2. RP!IInv' /\ UNCHANGED <<registry, ws, states, resolution>>
  BY <1>1, ResolverUntouched DEF IInv, Typed, resolverVars
<1>3. /\ targets \in Seq(Packages) /\ edits \in Seq([pkg : Packages, manifest : Manifest])
      /\ disk \in [Packages -> Manifest]
      /\ roots \subseteq Root /\ copies \subseteq Root /\ prunes \subseteq Root /\ vendor \subseteq Root
  BY DEF IInv, Typed, TypeOK
<1>4. Splits(edits, [pkg : Packages, manifest : Manifest])
  <2> DEFINE E == [pkg : Packages, manifest : Manifest]
  <2>1. edits \in Seq(E) /\ edits # <<>>
    BY <1>1, <1>3
  <2> HIDE DEF E
  <2>2. Splits(edits, E)
    BY <2>1, QueueSplits
  <2> QED BY <2>2 DEF E
<1>5. h \in [pkg : Packages, manifest : Manifest] /\ edits' \in Seq([pkg : Packages, manifest : Manifest])
  BY <1>1, <1>4 DEF Splits
<1> HIDE DEF h
<1>6. /\ h.pkg \in Packages /\ disk' \in [Packages -> Manifest] /\ disk'[h.pkg] = h.manifest
      /\ \A q \in Packages : q # h.pkg => disk'[q] = disk[q]
  BY <1>1, <1>3, <1>5
<1>7. Typed' /\ RunningIsWorking' /\ IdleHoldsNothing' /\ ReadsSnapshot' /\ Synced'
  BY <1>1, <1>2, <1>3, <1>5, <1>6, WorkingStep DEF Working
<1>8. WritesLast' /\ ServesTarget' /\ VendorPlanned'
  BY <1>1 DEF IInv, Control, WritesLast, ServesTarget, Plan, VendorPlanned, Desired, RunningIsWorking,
              Working
<1>9. \A q : Want(q)' = Want(q) /\ RootsOf(q)' = RootsOf(q) /\ Resolved(q)' = Resolved(q)
  BY <1>1, <1>2, WantKept DEF Resolved
<1>10. Plain => \A p \in Packages, i \in 1..Len(edits) :
                  edits[i].pkg = p => Resolved(p) /\ edits[i].manifest = Want(p)
  BY <1>1 DEF IInv, Plan, EditsAreWanted, Working
<1>11. Plain => Resolved(h.pkg) /\ h.manifest = Want(h.pkg)
  <2>1. PICK k \in 1..Len(edits) : edits[k] = h
    BY <1>4 DEF Splits, h
  <2> QED BY <1>6, <1>10, <2>1
<1>12. EditsAreWanted'
  <2> SUFFICES ASSUME Plain, NEW p \in Packages, NEW i \in 1..Len(edits'), edits'[i].pkg = p
               PROVE  Resolved(p) /\ edits'[i].manifest = Want(p)
    BY <1>1, <1>9 DEF EditsAreWanted, Plain
  <2>1. PICK k \in 1..Len(edits) : edits[k] = edits'[i]
    BY <1>1, <1>4 DEF Splits
  <2> QED BY <1>10, <2>1
<1>13. DiskIsOldOrWanted'
  <2> SUFFICES ASSUME Plain, NEW p \in Packages
               PROVE  disk'[p] = before.disk[p] \/ (Resolved(p) /\ disk'[p] = Want(p))
    BY <1>1, <1>9 DEF DiskIsOldOrWanted, Plain
  <2>1. CASE p = h.pkg
    BY <1>6, <1>11, <2>1
  <2>2. CASE p # h.pkg
    BY <1>1, <1>6, <2>2 DEF IInv, Plan, DiskIsOldOrWanted, Working
  <2> QED BY <2>1, <2>2
<1>14. Whole => Plain
  BY CommandFacts DEF IInv, Typed, TypeOK, Whole, Plain
<1>15. EveryPackage'
  <2> SUFFICES ASSUME Whole, NEW p \in Packages
               PROVE  Awaits(p, targets) \/ Planned(p)'
    BY <1>1 DEF EveryPackage, Whole
  <2>1. CASE Planned(p)
    <3>1. Resolved(p)' /\ RootsOf(p)' \subseteq roots'
      BY <1>1, <1>9, <2>1 DEF Planned
    <3>2. disk'[p] = Want(p) \/ Edited(p, edits')
      <4>1. CASE p = h.pkg
        BY <1>6, <1>11, <1>14, <4>1
      <4>2. CASE p # h.pkg /\ disk[p] = Want(p)
        BY <1>6, <4>2
      <4>3. CASE p # h.pkg /\ Edited(p, edits)
        <5>1. PICK k \in 1..Len(edits) : edits[k].pkg = p
          BY <4>3 DEF Edited
        <5>2. edits[k] # Head(edits)
          BY <4>3, <5>1 DEF h
        <5>3. \E i \in 1..Len(Tail(edits)) : Tail(edits)[i] = edits[k]
          BY <1>4, <5>2 DEF Splits
        <5> QED BY <1>1, <5>1, <5>3 DEF Edited
      <4> QED BY <2>1, <4>1, <4>2, <4>3 DEF Planned
    <3> QED BY <1>9, <3>1, <3>2 DEF Planned
  <2> QED BY <1>1, <2>1 DEF IInv, Plan, EveryPackage, Working
<1>16. RootsAreSelected'
  BY <1>1, <1>9 DEF IInv, Plan, RootsAreSelected, Whole, Working
<1> QED BY <1>7, <1>8, <1>12, <1>13, <1>15, <1>16 DEF IInv, Control, Plan

(* The vendor directory is written last.                                   *)
LEMMA VendorStep ==
  ASSUME IInv, phase = "writing", UNCHANGED resolverVars,
         UNCHANGED <<code, newest, tags, disk, targets, edits, roots, before, quiet, issued,
                     cmd, phase, exit>>,
         vendor' \subseteq Root, copies' \subseteq copies, prunes' \subseteq prunes,
         vendor \cup copies \subseteq vendor' \cup copies' \cup prunes,
         vendor' \subseteq (vendor \ prunes) \cup prunes' \cup copies
  PROVE  IInv'
<1>1. RP!IInv' /\ UNCHANGED <<registry, ws, states, resolution>>
  BY ResolverUntouched DEF IInv, Typed, resolverVars
<1>2. /\ targets \in Seq(Packages) /\ edits \in Seq([pkg : Packages, manifest : Manifest])
      /\ disk \in [Packages -> Manifest]
      /\ roots \subseteq Root /\ copies \subseteq Root /\ prunes \subseteq Root
  BY DEF IInv, Typed, TypeOK
<1>3. Typed' /\ RunningIsWorking' /\ IdleHoldsNothing' /\ ReadsSnapshot' /\ Synced'
  BY <1>1, <1>2, WorkingStep DEF Working
<1>4. WritesLast' /\ ServesTarget'
  BY DEF IInv, Control, WritesLast, ServesTarget, RunningIsWorking, Working
<1>5. \A q : Want(q)' = Want(q) /\ RootsOf(q)' = RootsOf(q) /\ Resolved(q)' = Resolved(q)
  BY <1>1, WantKept DEF Resolved
<1>6. EditsAreWanted' /\ DiskIsOldOrWanted'
  BY <1>5 DEF IInv, Plan, EditsAreWanted, DiskIsOldOrWanted, Plain, Working
<1>7. EveryPackage' /\ RootsAreSelected'
  BY <1>5 DEF IInv, Plan, EveryPackage, RootsAreSelected, Whole, Working, Planned
<1>8. VendorPlanned'
  <2>1. /\ targets = <<>>
        /\ Desired \subseteq vendor \cup copies /\ copies \subseteq Desired
        /\ prunes \cap Desired = {}
        /\ cmd.prune /\ VendorIds # {} => vendor \subseteq Desired \cup prunes
    BY DEF IInv, Plan, VendorPlanned
  <2>2. Desired' = Desired
    BY DEF Desired
  <2>3. Desired \subseteq vendor' \cup copies' /\ copies' \subseteq Desired /\ prunes' \cap Desired = {}
    BY <2>1
  <2>4. cmd.prune /\ VendorIds # {} => vendor' \subseteq Desired \cup prunes'
    BY <2>1
  <2> QED BY <2>1, <2>2, <2>3, <2>4 DEF VendorPlanned
<1> QED BY <1>3, <1>4, <1>6, <1>7, <1>8 DEF IInv, Control, Plan

LEMMA CopyRootStep == ASSUME IInv, NEW r \in Root, CopyRoot(r) PROVE IInv'
<1>1. /\ phase = "writing" /\ UNCHANGED resolverVars
      /\ UNCHANGED <<code, newest, tags, disk, targets, edits, roots, prunes, before, quiet, issued,
                     cmd, phase, exit>>
      /\ r \in copies /\ vendor' = vendor \cup {r} /\ copies' = copies \ {r}
  BY DEF CopyRoot, worldVars, historyVars
<1>2. vendor \subseteq Root /\ prunes \cap copies = {}
  BY <1>1 DEF IInv, Typed, TypeOK, Plan, VendorPlanned
<1>3. /\ vendor' \subseteq Root /\ copies' \subseteq copies /\ prunes' \subseteq prunes
      /\ vendor \cup copies \subseteq vendor' \cup copies' \cup prunes
      /\ vendor' \subseteq (vendor \ prunes) \cup prunes' \cup copies
  BY <1>1, <1>2
<1> QED BY <1>1, <1>3, VendorStep

LEMMA PruneRootStep == ASSUME IInv, NEW r \in Root, PruneRoot(r) PROVE IInv'
<1>1. /\ phase = "writing" /\ UNCHANGED resolverVars
      /\ UNCHANGED <<code, newest, tags, disk, targets, edits, roots, copies, before, quiet, issued,
                     cmd, phase, exit>>
      /\ copies = {} /\ r \in prunes /\ vendor' = vendor \ {r} /\ prunes' = prunes \ {r}
  BY DEF PruneRoot, worldVars, historyVars
<1>2. vendor \subseteq Root
  BY DEF IInv, Typed, TypeOK
<1>3. /\ vendor' \subseteq Root /\ copies' \subseteq copies /\ prunes' \subseteq prunes
      /\ vendor \cup copies \subseteq vendor' \cup copies' \cup prunes
      /\ vendor' \subseteq (vendor \ prunes) \cup prunes' \cup copies
  BY <1>1, <1>2
<1> QED BY <1>1, <1>3, VendorStep

-----------------------------------------------------------------------------
(* Between commands.                                                       *)

LEMMA SnapshotIsWorkspace == TypeOK => Snapshot \in RP!Workspace
<1> SUFFICES ASSUME TypeOK PROVE Snapshot \in RP!Workspace
  OBVIOUS
<1>1. code \in Code /\ newest \in Selection /\ disk \in [Packages -> Manifest]
  BY PackageSyncAssumption DEF TypeOK, PackageSyncAssumption
<1>2. [p \in Packages |-> disk[p].direct] \in [Packages -> Selection]
  BY <1>1 DEF Manifest
<1> QED BY <1>1, <1>2, SameSelection DEF Snapshot, Code, RP!Workspace

LEMMA BeginStep == ASSUME IInv, NEW c \in Commands, Begin(c) PROVE IInv'
<1>1. /\ phase = "idle" /\ issued < MaxCommands /\ cmd' = c /\ phase' = "planning"
      /\ targets' = c.targets /\ exit' = "running" /\ ws' = Snapshot
      /\ before' = [disk |-> disk, vendor |-> vendor] /\ issued' = issued + 1
      /\ quiet' \in BOOLEAN
      /\ UNCHANGED <<registry, input, pc, selected, queue, visiting, next,
                     states, resolution, stack, outcome, result, edits, roots, copies, prunes>>
      /\ UNCHANGED <<code, newest, tags, disk, vendor>>
  BY DEF Begin, worldVars, filesVars
<1>2. TypeOK /\ RP!Unused /\ edits = <<>> /\ roots = {} /\ copies = {} /\ prunes = {}
  BY <1>1 DEF IInv, Typed, Control, IdleHoldsNothing
<1>3. RP!IInv'
  <2>1. (RP!Unused)'
    BY <1>1, <1>2 DEF RP!Unused, RP!MVS!Init, RP!MVS!Nothing, RP!MVS!Absent, RP!Nothing, RP!Absent
  <2>2. ws' \in RP!Workspace
    BY <1>1, <1>2, SnapshotIsWorkspace
  <2> QED BY <2>1, <2>2, FreshResolver
<1>4. issued' \in 0..MaxCommands
  <2>1. issued \in Nat /\ MaxCommands \in Nat
    BY <1>2, PackageSyncAssumption DEF TypeOK, PackageSyncAssumption
  <2> QED BY <1>1, <2>1
<1>5. Typed'
  <2>1. (R!TypeOK)'
    BY <1>3, SameTypes DEF RP!IInv, RP!Typed
  <2>2. TypeOK'
    BY <1>1, <1>2, <1>4, <2>1, CommandFacts DEF TypeOK
  <2> QED BY <1>1, <1>3, <1>4, <2>2 DEF IInv, Typed
<1>6. Control'
  BY <1>1 DEF Control, RunningIsWorking, IdleHoldsNothing, ReadsSnapshot, WritesLast, Intact,
              ServesTarget, Snapshot, Working
<1>7. Synced'
  BY <1>1 DEF Synced, SyncedIsSufficient, VendorMatchesClosures
<1>8. EveryPackage'
  <2>1. Whole' => c.targets = PackageOrder
    BY <1>1, CommandFacts DEF Whole
  <2>2. \A p \in Packages : Awaits(p, PackageOrder)
    BY PackageSyncAssumption DEF PackageSyncAssumption, R!Enumerates, Awaits
  <2> QED BY <1>1, <2>1, <2>2 DEF EveryPackage
<1>9. EditsAreWanted' /\ DiskIsOldOrWanted' /\ RootsAreSelected' /\ VendorPlanned'
  BY <1>1, <1>2 DEF EditsAreWanted, DiskIsOldOrWanted, RootsAreSelected, VendorPlanned
<1> QED BY <1>5, <1>6, <1>7, <1>8, <1>9 DEF IInv, Plan

LEMMA WorldChangesStep == ASSUME IInv, WorldChanges PROVE IInv'
<1>1. /\ phase = "idle" /\ phase' = "idle" /\ exit' = "none" /\ quiet' = FALSE
      /\ before' = [disk |-> disk, vendor |-> vendor]
      /\ UNCHANGED resolverVars
      /\ UNCHANGED <<disk, vendor, targets, edits, roots, copies, prunes, issued, cmd>>
  BY DEF WorldChanges, filesVars, planVars
<1>2. code' \in Codes /\ newest' \in Indexes /\ tags' \in TagSets
  BY DEF IInv, Typed, TypeOK, WorldChanges
<1>3. RP!IInv' /\ UNCHANGED registry
  BY <1>1, ResolverUntouched DEF IInv, Typed, resolverVars
<1>4. Typed'
  <2>1. (R!TypeOK)'
    BY <1>3, SameTypes DEF RP!IInv, RP!Typed
  <2>2. TypeOK'
    BY <1>1, <1>2, <2>1 DEF IInv, Typed, TypeOK
  <2> QED BY <1>1, <1>3, <2>2 DEF IInv, Typed
<1>5. Control'
  <2>1. (RP!Unused)'
    BY <1>1 DEF IInv, Control, IdleHoldsNothing, resolverVars, RP!Unused, RP!MVS!Init, RP!MVS!Nothing,
                RP!MVS!Absent, RP!Nothing, RP!Absent
  <2> QED BY <1>1, <2>1 DEF IInv, Control, RunningIsWorking, IdleHoldsNothing, ReadsSnapshot, WritesLast,
                     Intact, ServesTarget, Working
<1>6. Plan' /\ Synced'
  BY <1>1 DEF Plan, EditsAreWanted, DiskIsOldOrWanted, EveryPackage, RootsAreSelected, VendorPlanned,
              Working, Synced, SyncedIsSufficient, VendorMatchesClosures
<1> QED BY <1>4, <1>5, <1>6 DEF IInv

LEMMA StutterStep == ASSUME IInv, UNCHANGED vars PROVE IInv'
<1>1. /\ UNCHANGED resolverVars
      /\ UNCHANGED <<code, newest, tags, disk, vendor, targets, edits, roots, copies, prunes, before,
                     quiet, issued, cmd, phase, exit>>
  BY DEF vars, worldVars, filesVars, planVars, historyVars
<1>2. RP!IInv' /\ UNCHANGED <<registry, input, pc, selected, queue, visiting, next,
                              ws, states, resolution, stack, outcome, result>>
  BY <1>1, ResolverUntouched DEF IInv, Typed, resolverVars
<1>3. Typed'
  <2>1. (R!TypeOK)'
    BY <1>2, SameTypes DEF RP!IInv, RP!Typed
  <2>2. TypeOK'
    BY <1>1, <2>1 DEF IInv, Typed, TypeOK
  <2> QED BY <1>1, <1>2, <2>2 DEF IInv, Typed
<1>4. Control'
  <2>1. RP!Unused => (RP!Unused)'
    BY <1>2 DEF RP!Unused, RP!MVS!Init, RP!MVS!Nothing, RP!MVS!Absent, RP!Nothing, RP!Absent
  <2>2. \A p, o : RP!Serving(p, o) => RP!Serving(p, o)'
    BY <1>2 DEF RP!Serving, RP!Asked, RP!Answered, RP!FoldDirect, RP!DirectOf
  <2>3. ServesTarget'
    BY <1>1, <2>2 DEF IInv, Control, ServesTarget
  <2> QED BY <1>1, <1>2, <2>1, <2>3 DEF IInv, Control, RunningIsWorking, IdleHoldsNothing,
                     ReadsSnapshot, WritesLast, Intact, Working
<1>5. \A q : Want(q)' = Want(q) /\ RootsOf(q)' = RootsOf(q) /\ Resolved(q)' = Resolved(q)
  BY <1>1, <1>2, WantKept DEF Resolved
<1>6. Plan'
  BY <1>1, <1>5 DEF IInv, Plan, EditsAreWanted, DiskIsOldOrWanted, EveryPackage, RootsAreSelected,
       VendorPlanned, Desired, Planned, Plain, Whole, Working
<1>7. Synced'
  <2>1. OnDisk' = OnDisk
    BY <1>1 DEF OnDisk
  <2>2. SyncedIsSufficient'
    <3>1. \A T, p : Build!Covers(T, p)' <=> Build!Covers(T, p)
      BY <1>2, <2>1 DEF Build!Covers, Build!RecordedClosure
    <3>2. \A p : Build!Sufficient(p)' <=> Build!Sufficient(p)
      BY <3>1 DEF Build!Sufficient
    <3> QED BY <1>1, <3>2 DEF IInv, Synced, SyncedIsSufficient
  <2>3. VendorMatchesClosures'
    BY <1>1, <1>2, <2>1 DEF IInv, Synced, VendorMatchesClosures, Build!RecordedClosure
  <2> QED BY <2>2, <2>3 DEF Synced
<1> QED BY <1>3, <1>4, <1>6, <1>7 DEF IInv

(* However a command ends, its resolver and its plan are gone.             *)
LEMMA EndedStep ==
  ASSUME IInv, Working, NEW how \in {"ok", "refused", "drift", "interrupted"}, Ended(how),
         UNCHANGED <<code, newest, tags, before, issued, cmd>>,
         disk' \in [Packages -> Manifest], vendor' \subseteq Root,
         quiet' \in BOOLEAN,
         how \in {"refused", "drift"} \/ cmd.kind = "check" => Intact',
         how = "ok" /\ Whole => Synced'
  PROVE  IInv'
<1>1. /\ phase' = "idle" /\ exit' = how /\ targets' = <<>> /\ edits' = <<>>
      /\ roots' = {} /\ copies' = {} /\ prunes' = {} /\ UNCHANGED <<registry, ws>>
  BY DEF Ended, Dropped
<1>2. (RP!Unused)'
  <2>1. R!NoRequirements = RP!NoRequirements
    BY DEF R!NoRequirements, RP!NoRequirements
  <2> QED BY <2>1 DEF IInv, Typed, Ended, Dropped, RP!Unused, RP!MVS!Init, RP!MVS!Nothing, RP!MVS!Absent, RP!Nothing,
                RP!Absent, NoOverrides, Absent, RP!NoRequirements
<1>3. RP!IInv'
  <2>1. ws' \in RP!Workspace
    BY <1>1 DEF IInv, Typed, RP!IInv, RP!Typed, RP!TypeOK
  <2> QED BY <1>2, <2>1, FreshResolver
<1>4. Typed'
  <2>1. (R!TypeOK)'
    BY <1>3, SameTypes DEF RP!IInv, RP!Typed
  <2>2. TypeOK'
    BY <1>1, <2>1 DEF IInv, Typed, TypeOK
  <2> QED BY <1>1, <1>3, <2>2 DEF IInv, Typed
<1>5. Control'
  <2>1. WritesLast'
    BY <1>1 DEF WritesLast
  <2> QED BY <1>1, <1>2, <2>1 DEF Control, RunningIsWorking, IdleHoldsNothing, ReadsSnapshot,
                     ServesTarget, Working
<1>6. Plan'
  BY <1>1 DEF Plan, EditsAreWanted, DiskIsOldOrWanted, EveryPackage, RootsAreSelected, VendorPlanned,
              Working
<1>7. Synced'
  BY <1>1 DEF Synced, SyncedIsSufficient, VendorMatchesClosures, Whole
<1> QED BY <1>4, <1>5, <1>6, <1>7 DEF IInv

-----------------------------------------------------------------------------
(* What a whole sync leaves.                                               *)

(* What is required of a remote package that was selected is selected.     *)
LEMMA ClosureRecords ==
  ASSUME RP!IInv, NEW p \in Packages, Resolved(p),
         NEW id \in Ids, resolution[p][id] # Absent,
         NEW i \in 1..Len(registry[id][resolution[p][id]].direct)
  PROVE  LET r == registry[id][resolution[p][id]].direct[i] IN
           r.id \in StdlibIds \/ resolution[p][r.id] # Absent
<1> DEFINE v == resolution[p][id]
           d == registry[id][v].direct
           n == registry[id][v].indirect
<1>1. registry \in RP!MVS!Registry /\ resolution \in [Packages -> RP!Selection]
  BY DEF RP!IInv, RP!Typed, RP!TypeOK, RP!MVS!TypeOK
<1>2. v \in Versions
  BY <1>1 DEF RP!Selection, RP!Absent, Absent
<1>3. registry[id][v] \in RP!MVS!Manifest
  BY <1>1, <1>2 DEF RP!MVS!Registry
<1>4. d \in Seq(RP!MVS!Requirement) /\ n \in Seq(RP!MVS!Requirement)
  BY <1>3 DEF RP!MVS!Manifest
<1>5. RP!Closed(resolution[p])
  BY DEF RP!IInv, RP!ResolvedIsClosed, Resolved
<1>6. \A k \in 1..Len(d \o n) : RP!MVS!Meets(resolution[p], (d \o n)[k])
  BY <1>5 DEF RP!Closed, RP!MVS!Requires, RP!Absent, Absent
<1> HIDE DEF d, n
<1>7. i \in 1..Len(d)
  BY DEF d
<1>8. i \in 1..Len(d \o n) /\ (d \o n)[i] = d[i] /\ d[i] \in RP!MVS!Requirement
  BY <1>4, <1>7
<1>9. RP!MVS!Meets(resolution[p], d[i])
  BY <1>6, <1>8
<1>10. d[i].id \in StdlibIds \/ resolution[p][d[i].id] # Absent
  <2>1. d[i].version \in Versions \cup {0} /\ d[i].id \in Ids
    BY <1>8 DEF RP!MVS!Requirement, RP!MVS!Absent
  <2>2. Versions \subseteq Nat \ {0}
    BY PackageSyncAssumption DEF PackageSyncAssumption
  <2>3. d[i].version # 0 => d[i].version \in Nat \ {0}
    BY <2>1, <2>2
  <2>4. d[i].id \in StdlibIds \/ (d[i].version # 0 /\ d[i].version <= resolution[p][d[i].id])
    BY <1>9 DEF RP!MVS!Meets, RP!MVS!Absent
  <2> QED BY <2>3, <2>4 DEF Absent
<1> QED BY <1>10 DEF d

(* The manifests are the resolutions.                                      *)
Recorded(p) ==
  /\ Resolved(p) /\ RootsOf(p) \subseteq roots
  /\ OnDisk[p].links = ws.uses[p]
  /\ Build!RecordedClosure(OnDisk[p]) = resolution[p]
  /\ \A id \in Ids : OnDisk[p].direct[id] # Absent => resolution[p][id] # Absent

LEMMA WantedIsRecorded ==
  ASSUME IInv, Working, Whole, targets = <<>>, edits = <<>>, NEW p \in Packages
  PROVE  Recorded(p)
<1>1. Resolved(p) /\ RootsOf(p) \subseteq roots /\ disk[p] = Want(p)
  <2>1. ~Awaits(p, targets) /\ ~Edited(p, edits)
    BY DEF Awaits, Edited
  <2> QED BY <2>1 DEF IInv, Plan, EveryPackage, Planned
<1> DEFINE direct == RP!FoldDirect(p, NoOverrides, resolution[p])
<1>2. /\ disk[p].pins = [q \in Packages |->
           IF q \in ws.uses[p] THEN R!Larger(Tagged(q), before.disk[p].pins[q]) ELSE Absent]
      /\ disk[p].direct = direct
      /\ disk[p].indirect = [id \in Ids |-> IF direct[id] = Absent THEN resolution[p][id] ELSE Absent]
  BY <1>1 DEF Want
<1>3. \A id \in Ids : direct[id] = Absent \/ direct[id] = resolution[p][id]
  BY DEF RP!FoldDirect, Absent, RP!Absent
<1> HIDE DEF direct
<1>4. /\ tags \in PackageVersions /\ before.disk[p].pins \in PackageVersions
      /\ ws.uses[p] \subseteq Packages
  BY PackageSyncAssumption
     DEF IInv, Typed, TypeOK, PackageSyncAssumption, Manifest, RP!IInv, RP!Typed, RP!TypeOK, RP!Workspace
<1>5. OnDisk[p].links = ws.uses[p]
  <2>1. \A q \in Packages : R!Larger(Tagged(q), before.disk[p].pins[q]) # Absent
    BY <1>4, PinIsVersion DEF PackageVersions
  <2>2. \A q \in Packages : disk[p].pins[q] # Absent <=> q \in ws.uses[p]
    BY <1>2, <2>1
  <2>3. OnDisk[p].links = {q \in Packages : disk[p].pins[q] # Absent}
    BY DEF OnDisk
  <2> QED BY <1>4, <2>2, <2>3
<1>6. OnDisk[p].direct = disk[p].direct /\ OnDisk[p].indirect = disk[p].indirect
  BY DEF OnDisk
<1>7. Build!RecordedClosure(OnDisk[p]) = resolution[p]
  <2>1. resolution[p] \in RP!RemoteSelection
    BY DEF IInv, Typed, RP!IInv, RP!Typed, RP!NoStdlib
  <2>2. resolution[p] = [id \in Ids |-> resolution[p][id]] /\ \A id \in StdlibIds : resolution[p][id] = Absent
    BY <2>1 DEF RP!RemoteSelection, RP!Selection, RP!Absent, Absent
  <2>3. \A id \in Ids : id \notin StdlibIds =>
          IF OnDisk[p].indirect[id] # Build!Absent THEN OnDisk[p].indirect[id] = resolution[p][id]
          ELSE OnDisk[p].direct[id] = resolution[p][id]
    BY <1>2, <1>3, <1>6 DEF Absent, Build!Absent
  <2> QED BY <2>2, <2>3 DEF Build!RecordedClosure, Build!Absent, Absent
<1>8. \A id \in Ids : OnDisk[p].direct[id] # Absent => resolution[p][id] # Absent
  BY <1>2, <1>3, <1>6
<1> QED BY <1>1, <1>5, <1>7, <1>8 DEF Recorded

(* Below p, what p recorded covers everything.                             *)
LEMMA RecordedSuffices ==
  ASSUME RP!IInv, \A q \in Packages : Recorded(q), NEW p \in Packages
  PROVE  Build!Sufficient(p)
<1> DEFINE T == {q \in Packages : RP!Below(resolution[q], resolution[p])}
<1>1. /\ ws.uses \in [Packages -> SUBSET Packages]
      /\ \A q \in Packages : resolution[q] \in RP!Selection
  BY DEF RP!IInv, RP!Typed, RP!TypeOK, RP!Workspace
<1>2. \A q \in Packages, id \in Ids : resolution[q][id] \in Nat
  BY <1>1, ResolverFits, RP!SelectionNat
<1>3. p \in T
  BY <1>2 DEF RP!Below
<1>4. ASSUME NEW q \in T PROVE OnDisk[q].links \subseteq T
  <2> SUFFICES ASSUME NEW r \in ws.uses[q] PROVE r \in T
    BY DEF Recorded
  <2>1. q \in Packages /\ r \in Packages
    BY <1>1
  <2>2. RP!Below(resolution[r], resolution[q]) /\ RP!Below(resolution[q], resolution[p])
    BY <2>1 DEF RP!IInv, RP!ResolvedIsClosed, RP!ServesUses, Recorded, Resolved
  <2>3. RP!Below(resolution[r], resolution[p])
    BY <1>1, <2>1, <2>2, ResolverFits, RP!BelowTransitive
  <2> QED BY <2>1, <2>3
<1>5. ASSUME NEW q \in T, NEW id \in Ids, OnDisk[q].direct[id] # Absent
      PROVE  resolution[p][id] # Absent
  <2>1. q \in Packages /\ resolution[q][id] # Absent /\ resolution[q][id] <= resolution[p][id]
    BY <1>5 DEF Recorded, RP!Below
  <2> QED BY <1>2, <2>1 DEF Absent
<1>6. Build!RecordedClosure(OnDisk[p]) = resolution[p] /\ Resolved(p)
  BY DEF Recorded
<1>7. T \in SUBSET Packages
  OBVIOUS
<1> HIDE DEF T
<1>8. \A id \in Ids : resolution[p][id] # Absent =>
        \A i \in 1..Len(registry[id][resolution[p][id]].direct) :
          LET r == registry[id][resolution[p][id]].direct[i] IN
            r.id \in StdlibIds \/ resolution[p][r.id] # Absent
  BY <1>6, ClosureRecords
<1>9. Build!Covers(T, p)
  BY <1>3, <1>4, <1>5, <1>6, <1>8 DEF Build!Covers, Build!Absent, Absent
<1> QED BY <1>7, <1>9 DEF Build!Sufficient

(* vendor/ holds what the manifests record.                                *)
LEMMA VendorIsDesired ==
  ASSUME IInv, Working, Whole, \A q \in Packages : Recorded(q), vendor = Desired
  PROVE  vendor = {r \in Root : /\ r[1] \in VendorIds
                                /\ \E p \in Packages : Build!RecordedClosure(OnDisk[p])[r[1]] = r[2]}
<1>1. ASSUME NEW r \in vendor
      PROVE  r \in Root /\ r[1] \in VendorIds /\ \E p \in Packages : resolution[p][r[1]] = r[2]
  <2>1. r \in roots /\ r[1] \in VendorIds /\ r \in Root
    BY DEF Desired, IInv, Typed, TypeOK
  <2> QED BY <2>1 DEF IInv, Plan, RootsAreSelected, RootsOf
<1>2. ASSUME NEW r \in Root, r[1] \in VendorIds, NEW p \in Packages, resolution[p][r[1]] = r[2]
      PROVE  r \in vendor
  BY <1>2 DEF Recorded, RootsOf, Desired
<1>3. \A p \in Packages : Build!RecordedClosure(OnDisk[p]) = resolution[p]
  BY DEF Recorded
<1> QED BY <1>1, <1>2, <1>3

(* A whole command that ends well with nothing left to do has synced.      *)
LEMMA EndsSynced ==
  ASSUME IInv, phase \in {"reporting", "writing"}, Whole, edits = <<>>, copies = {}, prunes = {},
         UNCHANGED <<disk, vendor, registry, cmd>>
  PROVE  Synced'
<1>1. targets = <<>> /\ Working
  BY DEF IInv, Plan, VendorPlanned, Working
<1>2. \A q \in Packages : Recorded(q)
  BY <1>1, WantedIsRecorded
<1>3. OnDisk' = OnDisk
  BY DEF OnDisk
<1>4. SyncedIsSufficient'
  <2>1. \A T, p : Build!Covers(T, p)' <=> Build!Covers(T, p)
    BY <1>3 DEF Build!Covers, Build!RecordedClosure
  <2>2. \A p : Build!Sufficient(p)' <=> Build!Sufficient(p)
    BY <2>1 DEF Build!Sufficient
  <2>3. \A p \in Packages : Build!Sufficient(p)
    BY <1>2, RecordedSuffices DEF IInv, Typed
  <2> QED BY <2>2, <2>3 DEF SyncedIsSufficient
<1>5. VendorMatchesClosures'
  <2>1. VendorIds # {} => vendor = Desired
    BY CommandFacts DEF IInv, Typed, TypeOK, Plan, VendorPlanned, Whole
  <2>2. VendorIds # {} =>
          vendor = {r \in Root : /\ r[1] \in VendorIds
                                 /\ \E p \in Packages : Build!RecordedClosure(OnDisk[p])[r[1]] = r[2]}
    BY <1>1, <1>2, <2>1, VendorIsDesired
  <2> QED BY <1>3, <2>2 DEF VendorMatchesClosures, Build!RecordedClosure
<1> QED BY <1>4, <1>5 DEF Synced

-----------------------------------------------------------------------------
(* The ends of a command, and every step.                                  *)

LEMMA EndSteps ==
  ASSUME IInv, Refuse \/ MaterializeFails \/ Report \/ Finish \/ Interrupt
  PROVE  IInv'
<1>1. TypeOK /\ quiet \in BOOLEAN
  BY DEF IInv, Typed, TypeOK
<1>2. disk \in [Packages -> Manifest] /\ vendor \subseteq Root
  BY <1>1 DEF TypeOK
<1>3. phase \in {"planning", "resolving", "reporting"} => Intact
  BY DEF IInv, Control, WritesLast
<1>4. CASE Refuse \/ MaterializeFails
  <2>1. /\ phase \in {"planning", "resolving"} /\ Ended("refused")
        /\ UNCHANGED <<code, newest, tags, disk, vendor, before, quiet, issued, cmd>>
    BY <1>4 DEF Refuse, GiveUp, MaterializeFails, worldVars, filesVars, historyVars
  <2>2. Intact'
    BY <1>3, <2>1 DEF Intact
  <2> QED BY <1>1, <1>2, <2>1, <2>2, EndedStep DEF Working
<1>5. CASE Report
  <2>1. /\ phase = "reporting"
        /\ Ended(IF edits = <<>> /\ copies = {} /\ prunes = {} THEN "ok" ELSE "drift")
        /\ UNCHANGED <<code, newest, tags, disk, vendor, before, quiet, issued, cmd>>
    BY <1>5 DEF Report, worldVars, filesVars, historyVars
  <2>2. Intact'
    BY <1>3, <2>1 DEF Intact
  <2>3. CASE edits = <<>> /\ copies = {} /\ prunes = {}
    <3>1. Ended("ok") /\ registry' = registry
      BY <2>1, <2>3 DEF Ended, Dropped
    <3>2. Whole => Synced'
      BY <2>1, <2>3, <3>1, EndsSynced
    <3> QED BY <1>1, <1>2, <2>1, <2>2, <3>1, <3>2, EndedStep DEF Working
  <2>4. CASE ~(edits = <<>> /\ copies = {} /\ prunes = {})
    <3>1. Ended("drift")
      BY <2>1, <2>4
    <3> QED BY <1>1, <1>2, <2>1, <2>2, <3>1, EndedStep DEF Working
  <2> QED BY <2>3, <2>4
<1>6. CASE Finish
  <2>1. /\ phase = "writing" /\ edits = <<>> /\ copies = {} /\ prunes = {} /\ Ended("ok")
        /\ quiet' \in BOOLEAN
        /\ UNCHANGED <<code, newest, tags, disk, vendor, before, issued, cmd>>
    BY <1>6 DEF Finish, worldVars, filesVars
  <2>2. registry' = registry
    BY <2>1 DEF Ended, Dropped
  <2>3. Whole => Synced'
    BY <2>1, <2>2, EndsSynced
  <2>4. cmd.kind # "check"
    BY <2>1 DEF IInv, Control, WritesLast
  <2> QED BY <1>2, <2>1, <2>3, <2>4, EndedStep DEF Working
<1>7. CASE Interrupt
  <2>1. /\ phase = "writing" /\ Ended("interrupted") /\ quiet' = FALSE
        /\ UNCHANGED <<code, newest, tags, before, issued, cmd>>
    BY <1>7 DEF Interrupt, worldVars
  <2>2. cmd.kind # "check"
    BY <2>1 DEF IInv, Control, WritesLast
  <2>3. disk' \in [Packages -> Manifest]
    <3>1. Blank \in Manifest
      BY DEF Blank, Manifest, PackageVersions, Selection
    <3> QED BY <1>2, <1>7, <3>1 DEF Interrupt, filesVars
  <2>4. vendor' \subseteq Root
    BY <1>1, <1>7 DEF Interrupt, filesVars, TypeOK
  <2> QED BY <1>1, <2>1, <2>2, <2>3, <2>4, EndedStep DEF Working
<1> QED BY <1>4, <1>5, <1>6, <1>7

LEMMA NextKeeps == IInv /\ [Next]_vars => IInv'
<1> SUFFICES ASSUME IInv, [Next]_vars PROVE IInv'
  OBVIOUS
<1>1. CASE Ask
  BY <1>1, AskStep
<1>2. CASE Resolve
  BY <1>2, ResolveStep
<1>3. CASE TakeResult
  BY <1>3, TakeResultStep
<1>4. CASE PlanVendor
  BY <1>4, PlanVendorStep
<1>5. CASE WriteManifest
  BY <1>5, WriteManifestStep
<1>6. ASSUME NEW r \in Root, CopyRoot(r) \/ PruneRoot(r) PROVE IInv'
  BY <1>6, CopyRootStep, PruneRootStep
<1>7. CASE Refuse \/ MaterializeFails \/ Report \/ Finish \/ Interrupt
  BY <1>7, EndSteps
<1>8. ASSUME NEW c \in Commands, Begin(c) PROVE IInv'
  BY <1>8, BeginStep
<1>9. CASE WorldChanges
  BY <1>9, WorldChangesStep
<1>10. CASE UNCHANGED vars
  BY <1>10, StutterStep
<1> QED BY <1>1, <1>2, <1>3, <1>4, <1>5, <1>6, <1>7, <1>8, <1>9, <1>10 DEF Next, Step

LEMMA InitIsSound == Init => IInv
<1> SUFFICES ASSUME Init PROVE IInv
  OBVIOUS
<1>1. /\ code \in Codes /\ newest \in Indexes /\ tags \in TagSets /\ disk \in Disks /\ vendor = {}
      /\ R!Unused /\ ws = Snapshot /\ cmd = Check /\ phase = "idle" /\ exit = "none"
      /\ targets = <<>> /\ edits = <<>> /\ roots = {} /\ copies = {} /\ prunes = {}
      /\ before = [disk |-> disk, vendor |-> vendor] /\ quiet = FALSE /\ issued = 0
  BY DEF Init
<1>2. disk \in [Packages -> Manifest] /\ code \in Code /\ newest \in Selection /\ MaxCommands \in Nat
  BY <1>1, PackageSyncAssumption DEF PackageSyncAssumption
<1>3. Snapshot \in RP!Workspace
  <2>1. [p \in Packages |-> disk[p].direct] \in [Packages -> Selection]
    BY <1>2 DEF Manifest
  <2> QED BY <1>2, <2>1, SameSelection DEF Snapshot, Code, RP!Workspace
<1>4. RP!Unused /\ RP!IInv
  BY <1>1, <1>3, SameUnused, FreshResolver
<1>5. TypeOK
  <2>1. R!TypeOK
    BY <1>4, SameTypes DEF RP!IInv, RP!Typed
  <2>2. cmd \in Commands
    BY <1>1 DEF Commands
  <2>3. quiet \in BOOLEAN
    BY <1>1
  <2>4. issued \in 0..MaxCommands
    BY <1>1, <1>2
  <2> QED BY <1>1, <1>2, <2>1, <2>2, <2>3, <2>4 DEF TypeOK
<1>6. Typed
  BY <1>1, <1>4, <1>5 DEF Typed, R!Unused, R!MVS!Init
<1>7. Control
  BY <1>1, <1>4 DEF Control, RunningIsWorking, IdleHoldsNothing, ReadsSnapshot, WritesLast, Intact,
                    ServesTarget, Working
<1>8. Plan /\ Synced
  BY <1>1 DEF Plan, EditsAreWanted, DiskIsOldOrWanted, EveryPackage, RootsAreSelected, VendorPlanned,
              Working, Synced, SyncedIsSufficient, VendorMatchesClosures
<1> QED BY <1>6, <1>7, <1>8 DEF IInv

(* What is wanted is never below what was on disk.                         *)
Rises(old, new) ==
  /\ \A id \in Ids : new.direct[id] # Absent => new.direct[id] >= old.direct[id]
  /\ \A q \in Packages : new.pins[q] # Absent => new.pins[q] >= old.pins[q]

LEMMA SameRises == ASSUME NEW m \in Manifest PROVE Rises(m, m)
<1>1. Versions \subseteq Nat
  BY PackageSyncAssumption DEF PackageSyncAssumption
<1>2. \A v \in Versions \cup {Absent} : v \in Nat
  BY <1>1 DEF Absent
<1>3. m.direct \in Selection /\ m.pins \in PackageVersions
  BY DEF Manifest
<1> QED BY <1>2, <1>3 DEF Selection, PackageVersions, Rises

LEMMA WantRises ==
  ASSUME IInv, Working, NEW p \in Packages, Resolved(p)
  PROVE  Rises(before.disk[p], Want(p))
<1>1. /\ tags \in PackageVersions /\ before.disk[p] \in Manifest
      /\ ws.newest \in Selection /\ resolution[p] \in Selection
  BY PackageSyncAssumption, SameSelection
     DEF IInv, Typed, TypeOK, PackageSyncAssumption, RP!IInv, RP!Typed, RP!TypeOK, RP!Workspace
<1>2. before.disk[p].pins \in PackageVersions /\ before.disk[p].direct \in Selection
  BY <1>1 DEF Manifest
<1>3. ws.pins[p] = before.disk[p].direct
  BY DEF IInv, Control, ReadsSnapshot
<1>4. ASSUME NEW id \in Ids, Want(p).direct[id] # Absent
      PROVE  Want(p).direct[id] >= before.disk[p].direct[id]
  <2>1. /\ RP!DirectOf(p, RP!Nothing)[id] # Absent
        /\ Want(p).direct[id] = resolution[p][id]
    BY <1>4, SameSelection DEF Want, RP!FoldDirect, RP!Absent, Absent
  <2>2. RP!DirectOf(p, RP!Nothing)[id] <= resolution[p][id]
    BY DEF IInv, Typed, RP!IInv, RP!ResolvedIsClosed, RP!MeetsImports, RP!Below, Resolved
  <2>3. RP!DirectOf(p, RP!Nothing)[id]
          = IF before.disk[p].direct[id] # Absent THEN before.disk[p].direct[id] ELSE ws.newest[id]
    BY <1>3, <2>1 DEF RP!DirectOf, RP!Nothing, RP!Absent, Absent
  <2>4. before.disk[p].direct[id] \in Nat /\ ws.newest[id] \in Nat /\ resolution[p][id] \in Nat
    BY <1>1, <1>2, SameSelection, ResolverFits, RP!SelectionNat
  <2> QED BY <2>1, <2>2, <2>3, <2>4 DEF Absent
<1>5. ASSUME NEW q \in Packages, Want(p).pins[q] # Absent
      PROVE  Want(p).pins[q] >= before.disk[p].pins[q]
  <2>1. Want(p).pins[q] = R!Larger(Tagged(q), before.disk[p].pins[q])
    BY <1>5 DEF Want
  <2>2. before.disk[p].pins[q] \in Versions \cup {Absent}
    BY <1>2 DEF PackageVersions
  <2> QED BY <1>1, <2>1, <2>2, PinIsVersion
<1> QED BY <1>4, <1>5 DEF Rises

LEMMA SyncRises ==
  ASSUME IInv, [Next]_vars, cmd.kind = "sync", exit' # "interrupted", NEW p \in Packages
  PROVE  Rises(disk[p], disk'[p])
<1>1. disk[p] \in Manifest
  BY DEF IInv, Typed, TypeOK
<1>2. CASE disk' = disk
  BY <1>1, <1>2, SameRises
<1>3. CASE WriteManifest
  <2>1. Working /\ disk' = [disk EXCEPT ![Head(edits).pkg] = Head(edits).manifest] /\ edits # <<>>
    BY <1>3 DEF WriteManifest, Working
  <2>2. Plain
    BY CommandFacts DEF IInv, Typed, TypeOK, Plain
  <2>3. /\ edits \in Seq([pkg : Packages, manifest : Manifest])
        /\ disk \in [Packages -> Manifest]
    BY DEF IInv, Typed, TypeOK
  <2>4. CASE p = Head(edits).pkg
    <3>1. Len(edits) # 0 /\ Head(edits) = edits[1] /\ 1 \in 1..Len(edits)
      <4> DEFINE E == [pkg : Packages, manifest : Manifest]
      <4>1. edits \in Seq(E) /\ edits # <<>>
        BY <2>1, <2>3
      <4> HIDE DEF E
      <4> QED BY <4>1
    <3>2. Resolved(p) /\ Head(edits).manifest = Want(p)
      BY <2>1, <2>2, <2>4, <3>1 DEF IInv, Plan, EditsAreWanted
    <3>3. disk'[p] = Want(p)
      BY <2>1, <2>3, <2>4, <3>2
    <3>4. disk[p] = before.disk[p] \/ disk[p] = Want(p)
      BY <2>1, <2>2 DEF IInv, Plan, DiskIsOldOrWanted
    <3> QED BY <1>1, <2>1, <3>2, <3>3, <3>4, WantRises, SameRises
  <2>5. CASE p # Head(edits).pkg
    <3>1. disk'[p] = disk[p]
      BY <2>1, <2>3, <2>5
    <3> QED BY <1>1, <3>1, SameRises
  <2> QED BY <2>4, <2>5
<1>4. CASE Interrupt
  BY <1>4 DEF Interrupt, Ended
<1> QED
  BY <1>2, <1>3, <1>4
     DEF Next, Step, Ask, Resolve, TakeResult, Refuse, PlanVendor, MaterializeFails, Report, CopyRoot,
         PruneRoot, Finish, Begin, WorldChanges, vars, filesVars

-----------------------------------------------------------------------------
(* A quiet sync has settled.  What the manifests record is then the answer *)
(* of the resolver to the manifests themselves, and there is only one.     *)

Recordings == [p \in Packages |-> Build!RecordedClosure(OnDisk[p])]

(* The manifest that the recorded closure of p is rendered as.             *)
Again(p) ==
  LET direct == [id \in Ids |-> IF RP!ImportsOf(Snapshot, p)[id] # Absent
                                THEN Recordings[p][id] ELSE Absent] IN
    [pins     |-> [q \in Packages |->
                     IF q \in code.uses[p] THEN R!Larger(Tagged(q), disk[p].pins[q]) ELSE Absent],
     direct   |-> direct,
     indirect |-> [id \in Ids |-> IF direct[id] = Absent THEN Recordings[p][id] ELSE Absent]]

RecordedRoots == {r \in Root : r[1] \in VendorIds /\ \E p \in Packages : Recordings[p][r[1]] = r[2]}

Settled ==
  /\ RP!Solves(registry, Snapshot, Recordings)
  /\ \A p \in Packages : disk[p] = Again(p)
  /\ VendorIds # {} => vendor = RecordedRoots

QuietIsSettled == quiet => Settled

(* A check of what has settled finds what is recorded, and nothing to do.  *)
FindsRecordings == \A p \in Packages : Resolved(p) => resolution[p] = Recordings[p]

QuietChecks ==
  quiet /\ Working =>
    /\ cmd = Check
    /\ FindsRecordings
    /\ edits = <<>>
    /\ phase = "reporting" => copies = {} /\ prunes = {}

SettleInv == RP!AnswerInv /\ QuietIsSettled /\ QuietChecks /\ QuietSyncSettles

LEMMA FreshAnswers == (RP!Unused => RP!AnswerInv) /\ (RP!Unused => RP!AnswerInv)'
<1>1. RP!Unused => RP!AnswerInv
  BY ResolverFits, RP!UnusedIsAnswered
<1> QED BY <1>1, PTL

LEMMA AnswersHold ==
  ASSUME IInv, IInv', RP!AnswerInv, [Next]_vars
  PROVE  RP!AnswerInv'
<1>1. RP!IInv /\ RP!IInv'
  BY DEF IInv, Typed
<1>2. ASSUME UNCHANGED resolverVars PROVE RP!AnswerInv'
  <2>1. UNCHANGED RP!vars
    BY <1>2 DEF resolverVars, RP!vars, RP!mvsVars, RP!resolverVars
  <2> QED BY <2>1, ResolverFits, RP!AnswersStay
<1>3. CASE Ask
  <2>1. PICK p \in Packages, o \in RP!RemoteSelection : p = Head(targets) /\ o = cmd.overrides
    BY <1>3, CommandFacts DEF Ask, IInv, Typed, TypeOK
  <2>2. RP!Call(p, o)
    BY <1>3, <2>1, SameCall DEF Ask
  <2> QED BY <1>1, <2>2, ResolverFits, RP!AnswersKept
<1>4. CASE Resolve
  <2>1. RP!ResolverStep
    BY <1>4, SameResolverStep DEF Resolve
  <2> QED BY <1>1, <2>1, ResolverFits, RP!AnswersKept
<1>5. ASSUME phase' = "idle" PROVE RP!AnswerInv'
  BY <1>5, FreshAnswers DEF IInv, Control, IdleHoldsNothing
<1>6. ASSUME NEW c \in Commands, Begin(c) PROVE RP!AnswerInv'
  <2>1. RP!Unused
    BY <1>6 DEF Begin, IInv, Control, IdleHoldsNothing
  <2>2. (RP!Unused)'
    BY <1>6, <2>1 DEF Begin, RP!Unused, RP!MVS!Init, RP!MVS!Nothing, RP!MVS!Absent, RP!Nothing, RP!Absent
  <2> QED BY <2>2, FreshAnswers
<1> QED
  BY <1>2, <1>3, <1>4, <1>5, <1>6
     DEF Next, Step, TakeResult, Refuse, GiveUp, PlanVendor, MaterializeFails, Report, WriteManifest,
         CopyRoot, PruneRoot, Finish, Interrupt, WorldChanges, Ended, vars

LEMMA SettledStays ==
  ASSUME UNCHANGED <<registry, code, newest, tags, disk, vendor>>
  PROVE  (Settled' <=> Settled) /\ Recordings' = Recordings
<1>1. OnDisk' = OnDisk /\ Snapshot' = Snapshot
  BY DEF OnDisk, Snapshot
<1>2. Recordings' = Recordings
  BY <1>1 DEF Recordings, Build!RecordedClosure
<1>3. \A p : Again(p)' = Again(p)
  BY <1>1, <1>2 DEF Again, Tagged
<1>4. RecordedRoots' = RecordedRoots
  BY <1>2 DEF RecordedRoots
<1> QED BY <1>1, <1>2, <1>3, <1>4 DEF Settled

(* Where the pins are those the command read, it read what is on disk.     *)
LEMMA SnapshotStands ==
  ASSUME IInv, Working, PinsStood
  PROVE  ws = Snapshot
BY DEF IInv, Control, ReadsSnapshot, PinsStood, Snapshot

(* What is wanted of a recorded closure is what it is rendered as.         *)
LEMMA WantIsAgain ==
  ASSUME IInv, ws = Snapshot, NEW p \in Packages, resolution[p] = Recordings[p],
         \A q \in Packages : q \in code.uses[p] =>
           R!Larger(Tagged(q), before.disk[p].pins[q]) = R!Larger(Tagged(q), disk[p].pins[q])
  PROVE  Want(p) = Again(p)
<1>1. ws.uses = code.uses
  BY DEF Snapshot
<1>2. RP!DirectOf(p, NoOverrides) = RP!ImportsOf(Snapshot, p)
  BY ResolverFits, RP!DirectIsImports, SameSelection
<1>3. RP!FoldDirect(p, NoOverrides, resolution[p])
        = [id \in Ids |-> IF RP!ImportsOf(Snapshot, p)[id] # Absent THEN Recordings[p][id] ELSE Absent]
  BY <1>2 DEF RP!FoldDirect, RP!Absent, Absent
<1> QED BY <1>1, <1>3 DEF Want, Again

LEMMA FinishSettles ==
  ASSUME IInv, RP!AnswerInv, phase = "writing", cmd = WholeSync, PinsStood,
         edits = <<>>, copies = {}, prunes = {}
  PROVE  Settled
<1>1. targets = <<>> /\ Working /\ Whole
  BY DEF IInv, Plan, VendorPlanned, Working, Whole
<1>2. \A p \in Packages : Recorded(p)
  BY <1>1, WantedIsRecorded
<1>3. \A p \in Packages : disk[p] = Want(p)
  BY <1>1 DEF IInv, Plan, EveryPackage, Planned, Awaits, Edited
<1>4. ws = Snapshot
  BY <1>1, SnapshotStands
<1>5. Recordings = resolution
  <2>1. resolution \in [Packages -> RP!Selection]
    BY DEF IInv, Typed, RP!IInv, RP!Typed, RP!TypeOK
  <2> QED BY <1>2, <2>1 DEF Recordings, Recorded
<1>6. RP!Solves(registry, Snapshot, Recordings)
  BY <1>2, <1>4, <1>5 DEF RP!AnswerInv, RP!MemoIsAnswer, RP!Solves, Recorded, Resolved
<1>7. ASSUME NEW p \in Packages PROVE disk[p] = Again(p)
  <2>1. tags \in PackageVersions /\ before.disk[p].pins \in PackageVersions /\ ws.uses = code.uses
    BY <1>4, PackageSyncAssumption DEF IInv, Typed, TypeOK, PackageSyncAssumption, Manifest, Snapshot
  <2>2. ASSUME NEW q \in Packages, q \in code.uses[p]
        PROVE  R!Larger(Tagged(q), before.disk[p].pins[q]) = R!Larger(Tagged(q), disk[p].pins[q])
    <3>1. Want(p).pins = [k \in Packages |->
                           IF k \in ws.uses[p] THEN R!Larger(Tagged(k), before.disk[p].pins[k]) ELSE Absent]
      BY DEF Want
    <3>2. Want(p).pins[q] = R!Larger(Tagged(q), before.disk[p].pins[q])
      BY <2>1, <2>2, <3>1
    <3>3. disk[p].pins[q] = R!Larger(Tagged(q), before.disk[p].pins[q])
      BY <1>3, <3>2
    <3> QED BY <3>3 DEF R!Larger
  <2> QED BY <1>3, <1>4, <1>5, <2>2, WantIsAgain
<1>8. VendorIds # {} => vendor = RecordedRoots
  <2>1. VendorIds # {} => vendor = Desired
    BY CommandFacts DEF IInv, Typed, TypeOK, Plan, VendorPlanned, WholeSync
  <2> QED BY <1>1, <1>2, <2>1, VendorIsDesired DEF RecordedRoots, Recordings
<1> QED BY <1>6, <1>7, <1>8 DEF Settled

(* A quiet check: what it works on is what is on disk.                     *)
LEMMA QuietFacts ==
  ASSUME IInv, SettleInv, quiet, Working
  PROVE  /\ cmd = Check /\ cmd.kind = "check" /\ Plain /\ Whole /\ Intact
         /\ ws = Snapshot /\ Settled /\ FindsRecordings /\ edits = <<>>
         /\ phase # "writing"
         /\ \A p \in Packages : Resolved(p) => Want(p) = disk[p]
<1>1. cmd = Check /\ FindsRecordings /\ edits = <<>> /\ Settled
  BY DEF SettleInv, QuietChecks, QuietIsSettled
<1>2. Whole /\ cmd.kind = "check" /\ Plain
  BY <1>1 DEF Whole, Check, WholeSync, Plain
<1>3. Intact /\ phase # "writing"
  BY <1>2 DEF IInv, Control, WritesLast
<1>4. ws = Snapshot
  BY <1>3, SnapshotStands DEF PinsStood, Intact
<1>5. ASSUME NEW p \in Packages, Resolved(p) PROVE Want(p) = disk[p]
  BY <1>1, <1>3, <1>4, <1>5, WantIsAgain DEF FindsRecordings, Settled, Intact
<1> QED BY <1>1, <1>2, <1>3, <1>4, <1>5

LEMMA RecordingsFound ==
  ASSUME IInv, SettleInv, quiet, Ask \/ Resolve
  PROVE  FindsRecordings'
<1>1. Working /\ UNCHANGED OnDisk
  BY DEF Ask, Resolve, Working, OnDisk, filesVars
<1>2. Recordings' = Recordings
  BY <1>1 DEF Recordings, Build!RecordedClosure
<1>3. PICK m : m = Recordings
  OBVIOUS
<1>4. RP!IInv /\ RP!AnswerInv /\ RP!Solves(registry, ws, m) /\ RP!Agrees(m)
  BY <1>1, <1>3, QuietFacts DEF IInv, Typed, SettleInv, Settled, RP!Agrees, FindsRecordings, Resolved
<1>5. (\E p \in Packages, o \in RP!RemoteSelection : RP!Call(p, o)) \/ RP!ResolverStep
  <2>1. CASE Ask
    <3>1. PICK p \in Packages, o \in RP!RemoteSelection : p = Head(targets) /\ o = cmd.overrides
      BY <2>1, CommandFacts DEF Ask, IInv, Typed, TypeOK
    <3> QED BY <2>1, <3>1, SameCall DEF Ask
  <2>2. CASE Resolve
    BY <2>2, SameResolverStep DEF Resolve
  <2> QED BY <2>1, <2>2
<1>6. RP!Agrees(m)'
  BY <1>4, <1>5, ResolverFits, RP!AgreementKept
<1> QED BY <1>2, <1>3, <1>6 DEF RP!Agrees, FindsRecordings, Resolved

(* Nothing is planned for what is recorded.                                *)
LEMMA NothingToEdit ==
  ASSUME IInv, SettleInv, quiet, TakeResult
  PROVE  edits' = <<>>
<1>1. phase = "resolving" /\ outcome = "ok" /\ Working
  BY DEF TakeResult, Working
<1>2. cmd.overrides = NoOverrides /\ disk = before.disk /\ edits = <<>>
  BY <1>1, QuietFacts DEF Plain, Intact
<1>3. PICK p \in Packages : p = Head(targets) /\ RP!Answered(p, NoOverrides)
  BY <1>1, <1>2 DEF IInv, Control, ServesTarget, RP!Serving
<1>4. Rendered(p) = disk[p]
  BY <1>1, <1>2, <1>3, RenderedIsWanted, QuietFacts
<1> QED BY <1>2, <1>3, <1>4 DEF TakeResult

LEMMA NothingToVendor ==
  ASSUME IInv, SettleInv, quiet, PlanVendor
  PROVE  copies' = {} /\ prunes' = {}
<1>1. phase = "planning" /\ targets = <<>> /\ Working
      /\ copies' = Desired \ vendor
      /\ prunes' = IF Prunes(cmd) /\ VendorIds # {} THEN vendor \ Desired ELSE {}
  BY DEF PlanVendor, Desired, Working
<1>2. ASSUME VendorIds # {} PROVE Desired = vendor
  <2>1. vendor = RecordedRoots /\ Whole /\ FindsRecordings /\ edits = <<>>
    BY <1>1, <1>2, QuietFacts DEF Settled
  <2>2. \A p \in Packages : resolution[p] = Recordings[p] /\ RootsOf(p) \subseteq roots
    BY <1>1, <2>1 DEF IInv, Plan, EveryPackage, Planned, Awaits, FindsRecordings
  <2>3. roots \subseteq Root /\ \A r \in roots : \E p \in Packages : r \in RootsOf(p)
    BY <1>1, <2>1 DEF IInv, Typed, TypeOK, Plan, RootsAreSelected
  <2>4. Desired \subseteq RecordedRoots
    BY <2>2, <2>3 DEF Desired, RecordedRoots, RootsOf
  <2>5. RecordedRoots \subseteq Desired
    BY <2>2 DEF Desired, RecordedRoots, RootsOf
  <2> QED BY <2>1, <2>4, <2>5
<1>3. VendorIds = {} => Desired = {}
  BY DEF Desired
<1> QED BY <1>1, <1>2, <1>3

LEMMA SettleKept ==
  ASSUME IInv, IInv', SettleInv, [Next]_vars
  PROVE  SettleInv'
<1>1. RP!AnswerInv'
  BY AnswersHold DEF SettleInv
<1> USE DEF SettleInv
<1>2. ASSUME quiet', quiet, UNCHANGED <<code, newest, tags, disk, vendor>>, registry' = registry
      PROVE  Settled' /\ Recordings' = Recordings
  BY <1>2, SettledStays DEF QuietIsSettled
<1>3. CASE Ask \/ Resolve
  <2>1. /\ phase' = "resolving" /\ Working
        /\ UNCHANGED <<code, newest, tags, disk, vendor, edits, copies, prunes, quiet, cmd, exit>>
    BY <1>3 DEF Ask, Resolve, Working, worldVars, filesVars, planVars, historyVars
  <2>2. registry' = registry
    <3>1. CASE Ask
      BY <3>1 DEF Ask, R!Call, R!mvsVars
    <3>2. CASE Resolve
      BY <3>2 DEF Resolve, R!ResolverStep, R!ScanFails, R!ImportFloors, R!Recurse, R!CycleFound,
              R!StartSelection, R!SelectionStep, R!Return, R!SelectionFails, R!Unwind,
              R!mvsVars, R!resolverVars, R!MVS!Start, R!MVS!Step, R!MVS!SkipStdlib,
              R!MVS!RaiseFloor, R!MVS!KeepFloor, R!MVS!FailSpec, R!MVS!EndSource,
              R!MVS!Visit, R!MVS!Finish
    <3> QED BY <1>3, <3>1, <3>2
  <2>3. quiet' => Settled' /\ FindsRecordings' /\ cmd' = Check /\ edits' = <<>>
    BY <1>2, <1>3, <2>1, <2>2, RecordingsFound, QuietFacts
  <2> QED BY <1>1, <2>1, <2>3 DEF QuietIsSettled, QuietChecks, QuietSyncSettles
<1>4. ASSUME UNCHANGED <<resolverVars, code, newest, tags, disk, vendor, quiet, cmd, exit>>,
             quiet /\ Working /\ Working' => edits' = <<>> /\ (phase' = "reporting" => copies' = {} /\ prunes' = {}),
             Working' => Working
      PROVE  SettleInv'
  <2>1. UNCHANGED <<registry, states, resolution>>
    BY <1>4 DEF resolverVars
  <2>2. quiet' => Settled' /\ Recordings' = Recordings
    BY <1>2, <1>4, <2>1
  <2>3. QuietChecks'
    BY <1>4, <2>1, <2>2 DEF QuietChecks, FindsRecordings, Resolved
  <2> QED BY <1>1, <1>4, <2>2, <2>3 DEF QuietIsSettled, QuietSyncSettles
<1>5. CASE TakeResult
  BY <1>4, <1>5, NothingToEdit DEF TakeResult, Working, worldVars, filesVars, historyVars
<1>6. CASE PlanVendor
  BY <1>4, <1>6, NothingToVendor, QuietFacts DEF PlanVendor, Working, worldVars, filesVars, historyVars
<1>7. CASE WriteManifest \/ (\E r \in Root : CopyRoot(r) \/ PruneRoot(r))
  <2>1. phase = "writing" /\ UNCHANGED quiet
    BY <1>7 DEF WriteManifest, CopyRoot, PruneRoot, historyVars
  <2>2. ~quiet
    BY <2>1, QuietFacts DEF Working
  <2> QED BY <1>1, <2>1, <2>2 DEF QuietIsSettled, QuietChecks, QuietSyncSettles
<1>8. CASE Refuse \/ MaterializeFails \/ Report
  <2>1. /\ phase' = "idle" /\ registry' = registry /\ Working
        /\ UNCHANGED <<code, newest, tags, disk, vendor, quiet>>
    BY <1>8 DEF Refuse, GiveUp, MaterializeFails, Report, Ended, Dropped, Working, worldVars, filesVars,
                historyVars
  <2>2. QuietIsSettled' /\ QuietChecks'
    BY <1>2, <2>1 DEF QuietIsSettled, QuietChecks, Working
  <2>3. quiet => exit' # "drift"
    <3>1. CASE Report
      BY <2>1, <3>1 DEF Report, Ended, QuietChecks
    <3>2. CASE Refuse \/ MaterializeFails
      BY <3>2 DEF Refuse, GiveUp, MaterializeFails, Ended
    <3> QED BY <1>8, <3>1, <3>2
  <2> QED BY <1>1, <2>1, <2>2, <2>3 DEF QuietSyncSettles
<1>9. CASE Finish
  <2>1. /\ phase' = "idle" /\ exit' = "ok" /\ registry' = registry /\ phase = "writing"
        /\ edits = <<>> /\ copies = {} /\ prunes = {}
        /\ quiet' = (cmd = WholeSync /\ PinsStood)
        /\ UNCHANGED <<code, newest, tags, disk, vendor>>
    BY <1>9 DEF Finish, Ended, Dropped, worldVars, filesVars
  <2>2. quiet' => Settled'
    BY <2>1, FinishSettles, SettledStays
  <2> QED BY <1>1, <2>1, <2>2 DEF QuietIsSettled, QuietChecks, QuietSyncSettles, Working
<1>10. CASE Interrupt \/ WorldChanges
  <2>1. ~quiet'
    BY <1>10 DEF Interrupt, WorldChanges
  <2> QED BY <1>1, <2>1 DEF QuietIsSettled, QuietChecks, QuietSyncSettles
<1>11. ASSUME NEW c \in Commands, Begin(c) PROVE SettleInv'
  <2>1. /\ exit' = "running" /\ cmd' = c /\ quiet' = (quiet /\ c = Check) /\ phase' = "planning"
        /\ phase = "idle" /\ UNCHANGED <<registry, code, newest, tags, disk, vendor, states, edits>>
    BY <1>11 DEF Begin, worldVars, filesVars
  <2>2. edits = <<>> /\ \A p \in Packages : ~Resolved(p)
    BY <2>1 DEF IInv, Control, IdleHoldsNothing, RP!Unused, Resolved
  <2>3. FindsRecordings'
    BY <2>1, <2>2 DEF FindsRecordings, Resolved
  <2> QED BY <1>1, <1>2, <2>1, <2>2, <2>3 DEF QuietIsSettled, QuietChecks, QuietSyncSettles
<1>12. CASE UNCHANGED vars
  BY <1>4, <1>12 DEF vars, worldVars, filesVars, planVars, historyVars, QuietChecks, Working
<1> QED BY <1>3, <1>5, <1>6, <1>7, <1>8, <1>9, <1>10, <1>11, <1>12 DEF Next, Step

-----------------------------------------------------------------------------
(* In every reachable state, with any sources, index and tags that change  *)
(* between commands and any interruption: the resolver keeps its own       *)
(* invariant, a command reads only what it loaded, what is planned is what *)
(* the memoised resolutions say, and files change in the last phase only.  *)
THEOREM SyncInvariant == Spec => []IInv
BY InitIsSound, NextKeeps, PTL DEF Spec

(* Everything a command and its resolver keep has its declared type; what  *)
(* is written is a manifest, also when an interruption cuts it off.        *)
THEOREM SyncTypes == Spec => []TypeOK
<1>1. IInv => TypeOK
  BY DEF IInv, Typed
<1> QED BY <1>1, SyncInvariant, PTL

(* A command that fails while it resolves, and a check, changes no file,   *)
(* whatever had been planned for other targets before.                     *)
THEOREM RefusalsChangeNothing == Spec => []RefusedChangesNothing
<1>1. IInv => RefusedChangesNothing
  BY DEF IInv, Control, WritesLast, Intact, RefusedChangesNothing
<1> QED BY <1>1, SyncInvariant, PTL

(* A whole sync that succeeded, and a check that found nothing to do,      *)
(* leave manifests from which every package can be built frozen.           *)
THEOREM SyncsSuffice == Spec => []SyncedIsSufficient
<1>1. IInv => SyncedIsSufficient
  BY DEF IInv, Synced
<1> QED BY <1>1, SyncInvariant, PTL

(* ... and a vendor directory of exactly the recorded roots that match.    *)
THEOREM VendorIsRecorded == Spec => []VendorMatchesClosures
<1>1. IInv => VendorMatchesClosures
  BY DEF IInv, Synced
<1> QED BY <1>1, SyncInvariant, PTL

(* A sync that is not interrupted lowers no pin that it keeps, of a remote *)
(* or of a workspace package.                                              *)
THEOREM PinsNeverFall == Spec => PinsOnlyRise
<1>1. IInv /\ [Next]_vars =>
        [(cmd.kind = "sync" /\ exit' # "interrupted") =>
           \A p \in Packages :
             /\ \A id \in Ids : disk'[p].direct[id] # Absent => disk'[p].direct[id] >= disk[p].direct[id]
             /\ \A q \in Packages : disk'[p].pins[q] # Absent => disk'[p].pins[q] >= disk[p].pins[q]]_vars
  BY SyncRises DEF Rises
<1> QED BY <1>1, SyncInvariant, PTL DEF Spec, PinsOnlyRise

(* A whole sync that leaves the pins of remote ids as they were has        *)
(* settled: a check right after it, or after other checks, finds no drift. *)
THEOREM QuietSyncsSettle == Spec => []QuietSyncSettles
<1>1. Init => SettleInv
  BY SameUnused, FreshAnswers
     DEF Init, SettleInv, QuietIsSettled, QuietChecks, QuietSyncSettles
<1>2. IInv /\ IInv' /\ SettleInv /\ [Next]_vars => SettleInv'
  BY SettleKept
<1>3. SettleInv => QuietSyncSettles
  BY DEF SettleInv
<1> QED BY <1>1, <1>2, <1>3, SyncInvariant, PTL DEF Spec

=============================================================================

--------------------------- MODULE PackageResolver ---------------------------
(***************************************************************************)
(* PackageResolver (crates/pcb-zen/src/package_resolver/mvs.rs): resolves  *)
(* the packages of one workspace.  resolve_package is a memoised recursion *)
(* over workspace dependencies; at the bottom of every call runs the       *)
(* remote version selection of Mvs.  The recursion is an explicit stack    *)
(* here: one frame per active call of build_package_resolution.            *)
(***************************************************************************)
EXTENDS Naturals, Sequences

CONSTANTS
  Ids, StdlibIds, Versions, Registries,  \* see Mvs
  IdOrder,        \* iteration order of a BTreeMap keyed by dependency id
  Packages,       \* workspace package urls
  PackageOrder,   \* iteration order of a BTreeSet of package urls
  Workspaces,     \* the workspaces to consider
  Overrides       \* the direct overrides (`pcb add`) to consider

Absent == 0

(* A selection of versions: resolved_remote, floors, overrides, pins. *)
Selection == [Ids -> Versions \cup {Absent}]

(* What scanning the .zen files and reading pcb.toml yields per package:   *)
(* the workspace packages it loads from, the remote ids it imports, the    *)
(* versions its manifest states for them (Absent: no entry), and the       *)
(* version the cache index offers for an id without an entry.              *)
Workspace == [uses    : [Packages -> SUBSET Packages],
              imports : [Packages -> SUBSET (Ids \ StdlibIds)],
              pins    : [Packages -> Selection],
              newest  : Selection]

VARIABLES
  registry, input, pc, selected, queue, visiting, next,  \* of Mvs
  ws,           \* the WorkspaceInfo the resolver was created with
  states,       \* package_states: "none", "in_progress", "resolved"
  resolution,   \* resolved_remote of a resolved package
  stack,        \* active calls, the innermost last
  outcome,      \* of the last outermost call: "none", "ok", "error"
  result        \* what the last outermost call returned

mvsVars == <<registry, input, pc, selected, queue, visiting, next>>
resolverVars == <<ws, states, resolution, stack, outcome, result>>
vars == <<mvsVars, resolverVars>>

NoRequirements == [direct |-> <<>>, floors |-> <<>>]

MVS == INSTANCE Mvs WITH Inputs <- {NoRequirements}

Nothing == [id \in Ids |-> Absent]

(* The stdlib comes with the toolchain: the scan skips it, the selection   *)
(* never merges it, and `pcb add` refuses it.                              *)
RemoteSelection == {s \in Selection : \A id \in StdlibIds : s[id] = Absent}

Enumerates(order, S) == order \in Seq(S) /\ \A x \in S : \E i \in 1..Len(order) : order[i] = x

ASSUME ResolverAssumption ==
  /\ StdlibIds \subseteq Ids /\ Ids # {} /\ Packages # {}
  /\ Versions \subseteq Nat \ {0} /\ Versions # {}
  /\ Registries \subseteq MVS!Registry
  /\ Enumerates(IdOrder, Ids) /\ Enumerates(PackageOrder, Packages)
  /\ Workspaces \subseteq Workspace
  /\ Overrides \subseteq RemoteSelection

Frame == [pkg : Packages, todo : Seq(Packages), floors : Selection,
          overrides : Selection, memo : BOOLEAN, running : BOOLEAN]

Resolution == [pkg : Packages, direct : Selection, selected : Selection]

(* The members of a set in the order a BTreeMap or BTreeSet yields them.   *)
InOrder(S, order) ==
  LET upTo[n \in 0..Len(order)] ==
        IF n = 0 THEN <<>>
        ELSE IF order[n] \in S THEN Append(upTo[n - 1], order[n]) ELSE upTo[n - 1]
  IN  upTo[Len(order)]

(* A selection as the list a BTreeMap iteration yields. *)
AsList(selection) ==
  LET ids == InOrder({id \in Ids : selection[id] # Absent}, IdOrder)
  IN  [i \in 1..Len(ids) |-> [id |-> ids[i], version |-> selection[ids[i]]]]

Larger(v, w) == IF v > w THEN v ELSE w

(* The dependency set of the innermost call: what is imported, at the      *)
(* version of the manifest or of the index, with the overrides on top.     *)
DirectOf(p, overrides) ==
  [id \in Ids |->
     IF overrides[id] # Absent THEN overrides[id]
     ELSE IF id \notin ws.imports[p] THEN Absent
     ELSE IF ws.pins[p][id] # Absent THEN ws.pins[p][id] ELSE ws.newest[id]]

(* "No remote package found covering ..." *)
Unscannable(p) ==
  \E id \in ws.imports[p] : ws.pins[p][id] = Absent /\ ws.newest[id] = Absent

TypeOK ==
  /\ MVS!TypeOK
  /\ ws \in Workspace
  /\ states \in [Packages -> {"none", "in_progress", "resolved"}]
  /\ resolution \in [Packages -> Selection]
  /\ stack \in Seq(Frame)
  /\ outcome \in {"none", "running", "failing", "ok", "error"}
  /\ result \in Resolution

(* PackageResolver::new: nothing is resolved. *)
Unused ==
  /\ MVS!Init
  /\ states = [p \in Packages |-> "none"]
  /\ resolution = [p \in Packages |-> Nothing]
  /\ stack = <<>>
  /\ outcome = "none"
  /\ result = [pkg |-> PackageOrder[1], direct |-> Nothing, selected |-> Nothing]

Init == ws \in Workspaces /\ Unused

Top == stack[Len(stack)]
WithTop(f) == [stack EXCEPT ![Len(stack)] = f]
Popped == SubSeq(stack, 1, Len(stack) - 1)

NewFrame(p, overrides, memo) ==
  [pkg |-> p, todo |-> InOrder(ws.uses[p], PackageOrder), floors |-> Nothing,
   overrides |-> overrides, memo |-> memo, running |-> FALSE]

(* resolve_package marks the package before it scans it. *)
Push(p) ==
  /\ stack' = Append(stack, NewFrame(p, Nothing, TRUE))
  /\ states' = [states EXCEPT ![p] = "in_progress"]

(* An outermost call of resolve_package_with_direct_overrides.  A resolved *)
(* package is answered from package_states; overrides by-pass it.          *)
CallMemoised(p) ==
  /\ states[p] = "resolved"
  /\ outcome' = "ok"
  /\ result' = [pkg |-> p, direct |-> [id \in Ids |->
                  IF DirectOf(p, Nothing)[id] # Absent THEN resolution[p][id] ELSE Absent],
                selected |-> resolution[p]]
  /\ UNCHANGED <<states, stack>>

Call(p, overrides) ==
  /\ stack = <<>>
  /\ outcome \notin {"running", "failing"}
  /\ \/ overrides = Nothing /\ CallMemoised(p)
     \/ /\ overrides = Nothing /\ states[p] # "resolved"
        /\ Push(p)
        /\ outcome' = "running"
        /\ UNCHANGED result
     \/ /\ overrides # Nothing
        /\ stack' = <<NewFrame(p, overrides, FALSE)>>
        /\ outcome' = "running"
        /\ UNCHANGED <<states, result>>
  /\ UNCHANGED <<mvsVars, ws, resolution>>

Active == stack # <<>> /\ outcome = "running" /\ ~Top.running

(* scan_package_direct_deps fails before any dependency is looked at. *)
ScanFails ==
  /\ Active
  /\ Unscannable(Top.pkg)
  /\ outcome' = "failing"
  /\ UNCHANGED <<mvsVars, ws, states, resolution, stack, result>>

Importing == Active /\ ~Unscannable(Top.pkg) /\ Top.todo # <<>>

(* import_workspace_floors on a dependency that is resolved: its whole     *)
(* selection becomes floors of the caller.                                 *)
FirstFloor_Slip(f, g) == [id \in Ids |-> IF f[id] # Absent THEN f[id] ELSE g[id]]
MergeFloors(f, g) == [id \in Ids |-> Larger(f[id], g[id])]

ImportFloors ==
  /\ Importing
  /\ LET q == Head(Top.todo) IN
       /\ states[q] = "resolved"
       /\ stack' = WithTop([Top EXCEPT !.todo = Tail(@),
                                       !.floors = MergeFloors(@, resolution[q])])
  /\ UNCHANGED <<mvsVars, ws, states, resolution, outcome, result>>

Recurse ==
  /\ Importing
  /\ states[Head(Top.todo)] = "none"
  /\ Push(Head(Top.todo))
  /\ UNCHANGED <<mvsVars, ws, resolution, outcome, result>>

(* "Detected workspace dependency cycle while resolving ..."  The slip     *)
(* waits for such a dependency.                                            *)
WaitOnCycle_Slip ==
  /\ Importing
  /\ states[Head(Top.todo)] = "in_progress"
  /\ UNCHANGED vars

CycleFound ==
  /\ Importing
  /\ states[Head(Top.todo)] = "in_progress"
  /\ outcome' = "failing"
  /\ UNCHANGED <<mvsVars, ws, states, resolution, stack, result>>

(* run_remote_mvs on the direct dependencies and the imported floors. *)
StartSelection ==
  /\ Active
  /\ ~Unscannable(Top.pkg)
  /\ Top.todo = <<>>
  /\ MVS!Start([direct |-> AsList(DirectOf(Top.pkg, Top.overrides)),
                floors |-> AsList(Top.floors)])
  /\ stack' = WithTop([Top EXCEPT !.running = TRUE])
  /\ UNCHANGED <<ws, states, resolution, outcome, result>>

Selecting == stack # <<>> /\ Top.running /\ outcome = "running"

SelectionStep ==
  /\ Selecting
  /\ MVS!Step
  /\ UNCHANGED resolverVars

(* fold_direct_dependencies: the direct entries at the selected versions. *)
FoldDirect(p, overrides, selection) ==
  [id \in Ids |-> IF DirectOf(p, overrides)[id] # Absent THEN selection[id] ELSE Absent]

(* Only calls without overrides are memoised. *)
Always_Slip(f) == TRUE
Memoised(f) == f.memo

Return ==
  /\ Selecting
  /\ pc = "resolved"
  /\ stack' = Popped
  /\ IF Memoised(Top)
     THEN /\ states' = [states EXCEPT ![Top.pkg] = "resolved"]
          /\ resolution' = [resolution EXCEPT ![Top.pkg] = selected]
     ELSE UNCHANGED <<states, resolution>>
  /\ IF Len(stack) = 1
     THEN /\ outcome' = "ok"
          /\ result' = [pkg |-> Top.pkg,
                        direct |-> FoldDirect(Top.pkg, Top.overrides, selected),
                        selected |-> selected]
     ELSE UNCHANGED <<outcome, result>>
  /\ UNCHANGED <<mvsVars, ws>>

SelectionFails ==
  /\ Selecting
  /\ pc = "failed"
  /\ outcome' = "failing"
  /\ UNCHANGED <<mvsVars, ws, states, resolution, stack, result>>

(* An error leaves one call after the other; resolve_package forgets the   *)
(* package it had marked.                                                  *)
KeepMark_Slip(f) == states
Forgotten(f) == IF f.memo THEN [states EXCEPT ![f.pkg] = "none"] ELSE states

Unwind ==
  /\ outcome = "failing"
  /\ states' = Forgotten(Top)
  /\ stack' = Popped
  /\ outcome' = IF Len(stack) = 1 THEN "error" ELSE "failing"
  /\ UNCHANGED <<mvsVars, ws, resolution, result>>

ResolverStep ==
  \/ ScanFails \/ ImportFloors \/ Recurse \/ CycleFound
  \/ StartSelection \/ SelectionStep \/ Return \/ SelectionFails \/ Unwind

Next == (\E p \in Packages, o \in Overrides : Call(p, o)) \/ ResolverStep

(* Sequential code: a call that was entered keeps running. *)
Spec == Init /\ [][Next]_vars /\ WF_vars(ResolverStep)
-----------------------------------------------------------------------------
MarkedFrames == {i \in 1..Len(stack) : stack[i].memo}

(* The packages marked in progress are exactly those of the active calls,  *)
(* each once: an error leaves no mark behind, so a later call on the same  *)
(* resolver is never refused as a cycle that does not exist.               *)
MarksMatchCalls ==
  /\ {p \in Packages : states[p] = "in_progress"} = {stack[i].pkg : i \in MarkedFrames}
  /\ \A i, j \in MarkedFrames : stack[i].pkg = stack[j].pkg => i = j

(* The packages p uses, directly or not: the least set that holds what p   *)
(* uses and what its members use.                                          *)
UsesReach(p) ==
  {q \in Packages :
     \A S \in SUBSET Packages :
       ws.uses[p] \subseteq S /\ (\A r \in S : ws.uses[r] \subseteq S) => q \in S}

Closed(selection) ==
  \A id \in Ids : selection[id] # Absent =>
    LET requires == MVS!Requires(id, selection[id]) IN
      \A i \in 1..Len(requires) : MVS!Meets(selection, requires[i])

(* One closure serves every workspace package below it: what a package     *)
(* resolved to is closed and dominates the closures of the packages it     *)
(* uses, directly or not, so the graph of `pcb mod why` and the frozen     *)
(* build, which look everything up in the root's closure, miss nothing.    *)
ClosureServesBelow ==
  \A p \in Packages : states[p] = "resolved" =>
    /\ Closed(resolution[p])
    /\ \A q \in UsesReach(p) :
         /\ states[q] = "resolved"
         /\ \A id \in Ids : resolution[q][id] <= resolution[p][id]

(* A memoised resolution never changes. *)
MemoIsStable ==
  [][\A p \in Packages : states[p] = "resolved" =>
       states'[p] = "resolved" /\ resolution'[p] = resolution[p]]_vars

(* Every call returns, also on a cyclic workspace. *)
CallReturns == (outcome \in {"running", "failing"}) ~> (outcome \in {"ok", "error"})
=============================================================================

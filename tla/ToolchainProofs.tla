--------------------------- MODULE ToolchainProofs ---------------------------
(***************************************************************************)
(* Proofs about Toolchain for any number of launchers, versions, lanes,    *)
(* builds, commands and crashes.                                           *)
(***************************************************************************)
EXTENDS Toolchain, FiniteSetTheorems, TLAPS

Quiet == used \cap Unlocked = {}

(* Between the double check and the end of an installation.                *)
Installing == Locking \ {"recheck"}

(* What needs a lock and holds it.                                         *)
Owned == \A p \in Procs : cmd[p] # "repair" /\ pc[p] \in Locking => locked[slot[p]] = p

(* Which command is where.                                                 *)
CommandFits ==
  \A p \in Procs :
    /\ pc[p] # "idle" => cmd[p] \in used
    /\ pc[p] \in {"resolve"} \cup Installing => cmd[p] \in {"run", "install", "repair"}
    /\ pc[p] \in {"check", "wait", "recheck"} => cmd[p] \in {"run", "install"}
    /\ pc[p] = "validate" => cmd[p] = "repair"
    /\ pc[p] \in {"fallback", "exec"} => cmd[p] = "run"
    /\ pc[p] = "erase" => cmd[p] \in {"uninstall", "prune"}
    /\ doomed[p] # {} => pc[p] = "erase"

(* A run of anything but the nightly is after a stable version.            *)
SlotFits ==
  \A p \in Procs :
    /\ cmd[p] = "run" /\ request[p] # "nightly"
    /\ pc[p] \in {"check", "wait", "exec"} \cup Locking
    => slot[p] \in Versions

(* An installation replaces only what cannot be executed.                  *)
OnlyMissing ==
  Quiet => \A p \in Procs : pc[p] \in Installing /\ slot[p] \in Versions => ~HasBinary(slot[p])

(* What a prune is about to remove is not the newest of its lane.          *)
DoomedHaveNewer ==
  Quiet =>
    \A p \in Procs : \A v \in doomed[p] :
      /\ v \in Versions
      /\ \E w \in Versions : Lane[w] = Lane[v] /\ w > v /\ HasBinary(w)

(* What an installation has staged so far, and nothing older.              *)
StagedInOrder ==
  OnlyInstalls =>
    \A p \in Procs :
      /\ pc[p] \in Installing \ {"download"} =>
           \A x \in Parts : staging[slot[p]][x] \in {0, want[p]}
      /\ pc[p] \in Installing \ {"download", "binary"} => staging[slot[p]]["binary"] # 0
      /\ pc[p] \in {"stdlib", "sidecars", "remove", "rename"} => staging[slot[p]]["receipt"] # 0
      /\ pc[p] \in {"sidecars", "remove", "rename"} => staging[slot[p]]["stdlib"] # 0

DirectoriesAreSound == SeenIsComplete /\ BuildsDoNotMix /\ ResolvedCanRun

IInv ==
  /\ TypeOK /\ LocksAreWorkedUnder /\ Owned /\ CommandFits /\ SlotFits
  /\ OnlyMissing /\ DoomedHaveNewer /\ StagedInOrder /\ DirectoriesAreSound

(* Among finitely many versions there is a newest one.                     *)
LEMMA NewestExists ==
  ASSUME NEW vs \in SUBSET Versions, vs # {}
  PROVE  Newest(vs) \in vs /\ \A w \in vs : w <= Newest(vs)
<1>1. Versions \subseteq Nat /\ IsFiniteSet(Versions)
  BY ToolchainAssumption DEF ToolchainAssumption
<1> DEFINE above(v) == {w \in vs : v < w}
           sets == {above(v) : v \in vs}
<1>2. sets # {} /\ sets \subseteq FiniteSubsetsOf(Versions)
  <2>1. \A T \in SUBSET Versions : IsFiniteSet(T)
    BY <1>1, FS_Subset
  <2> QED
    BY <2>1 DEF FiniteSubsetsOf
<1>3. PICK s \in sets : \A t \in sets : <<t, s>> \notin StrictSubsetOrdering(Versions)
  <2> HIDE DEF sets
  <2> QED
    BY <1>2, FS_StrictSubsetOrderingWellFounded, WFMin
<1>4. PICK v \in vs : s = above(v)
  BY <1>3
<1>5. \A w \in vs : w <= v
  <2> SUFFICES ASSUME NEW w \in vs, v < w PROVE FALSE
    BY <1>1
  <2>1. above(w) \subseteq above(v) /\ w \in above(v) /\ w \notin above(w)
    <3>1. \A x \in vs : x \in Nat
      BY <1>1
    <3> QED
      BY <3>1
  <2>2. <<above(w), s>> \in StrictSubsetOrdering(Versions)
    BY <2>1, <1>4 DEF StrictSubsetOrdering
  <2> QED
    BY <2>2, <1>3
<1> QED
  BY <1>5 DEF Newest

USE DEF Nobody, Slots, Lanes, Requests, Commands, Parts, Nothing, Builds, Ended, Staging, Locking,
        Labels, HasBinary, SidecarsPresent, Unlocked, OnlyInstalls, Quiet, Installing

LEMMA Assumptions ==
  /\ "nobody" \notin Procs /\ Versions \subseteq Nat /\ Nightly \in Nat \ Versions
  /\ \A v \in Versions : Lane[v] \notin {"latest", "nightly", "help", "migrate"}
  /\ MaxBuild \in Nat \ {0} /\ MaxCalls \in Nat /\ MaxCrashes \in Nat
BY ToolchainAssumption DEF ToolchainAssumption

LEMMA InitInvariant == Init => IInv
<1> SUFFICES ASSUME Init PROVE IInv
  OBVIOUS
<1> USE Assumptions DEF Init
<1>1. TypeOK
  BY DEF TypeOK
<1>2. DirectoriesAreSound
  BY DEF DirectoriesAreSound, SeenIsComplete, BuildsDoNotMix, ResolvedCanRun
<1> QED
  BY <1>1, <1>2 DEF IInv, LocksAreWorkedUnder, Owned, CommandFits, SlotFits, OnlyMissing,
      DoomedHaveNewer, StagedInOrder

Contents == [Slots -> [Parts -> 0..MaxBuild]]

(* What an update of one part, or of one directory, leaves as it was.      *)
LEMMA DirPartSet ==
  ASSUME dir \in Contents, NEW s \in Slots, NEW x \in Parts, NEW b \in 0..MaxBuild,
         dir' = [dir EXCEPT ![s][x] = b]
  PROVE  /\ dir' \in Contents
         /\ \A t \in Slots, y \in Parts : dir'[t][y] = IF t = s /\ y = x THEN b ELSE dir[t][y]
BY DEF Contents

LEMMA DirPartRemoved ==
  ASSUME dir \in Contents, NEW s \in Slots, NEW x \in Parts, dir' = [dir EXCEPT ![s][x] = 0]
  PROVE  /\ dir' \in Contents
         /\ \A t \in Slots, y \in Parts : dir'[t][y] = IF t = s /\ y = x THEN 0 ELSE dir[t][y]
<1>1. 0 \in 0..MaxBuild
  BY Assumptions
<1> QED
  BY <1>1, DirPartSet

LEMMA StagingPartSet ==
  ASSUME staging \in Contents, NEW s \in Slots, NEW x \in Parts, NEW b \in 0..MaxBuild,
         staging' = [staging EXCEPT ![s][x] = b]
  PROVE  /\ staging' \in Contents
         /\ \A t \in Slots, y \in Parts :
              staging'[t][y] = IF t = s /\ y = x THEN b ELSE staging[t][y]
BY DEF Contents

LEMMA StagingEmptied ==
  ASSUME staging \in Contents, NEW s \in Slots, staging' = [staging EXCEPT ![s] = Nothing]
  PROVE  /\ staging' \in Contents
         /\ \A t \in Slots, y \in Parts : staging'[t][y] = IF t = s THEN 0 ELSE staging[t][y]
<1>1. Nothing \in [Parts -> 0..MaxBuild]
  BY Assumptions
<1>2. staging' \in Contents
  BY <1>1 DEF Contents
<1>3. \A t \in Slots, y \in Parts : staging'[t][y] = IF t = s THEN 0 ELSE staging[t][y]
  BY DEF Contents
<1> QED
  BY <1>2, <1>3

LEMMA DirReplaced ==
  ASSUME dir \in Contents, staging \in Contents, NEW s \in Slots,
         dir' = [dir EXCEPT ![s] = staging[s]]
  PROVE  /\ dir' \in Contents
         /\ \A t \in Slots, y \in Parts : dir'[t][y] = IF t = s THEN staging[t][y] ELSE dir[t][y]
BY DEF Contents

LEMMA Typed ==
  TypeOK => /\ dir \in Contents /\ staging \in Contents
            /\ \A p \in Procs : slot[p] \in Slots /\ want[p] \in 1..MaxBuild
BY Assumptions DEF TypeOK, Contents

LEMMA DoomedStep ==
  ASSUME TypeOK, DoomedHaveNewer, used \subseteq used', doomed' = doomed,
         Quiet => \A v \in Versions : HasBinary(v) => HasBinary(v)'
  PROVE  DoomedHaveNewer'
BY DEF DoomedHaveNewer

USE DEF Goto, remote, cache, disk, self

LEMMA BeginResolvingStep ==
  ASSUME NEW p \in Procs, NEW c \in Commands, NEW r \in Requests, IInv, BeginResolving(p, c, r)
  PROVE  IInv'
<1>1. Local(r) # {} => Newest(Local(r)) \in Versions /\ HasBinary(Newest(Local(r)))
  BY NewestExists DEF Local
<1> USE Assumptions, <1>1 DEF BeginResolving, Begins, LocalFirst, OnlyOfRuns
<1>type. TypeOK'
  BY DEF IInv, TypeOK
<1>locks. LocksAreWorkedUnder' /\ Owned'
  BY DEF IInv, TypeOK, LocksAreWorkedUnder, Owned, CommandFits
<1>commands. CommandFits' /\ SlotFits'
  BY DEF IInv, TypeOK, CommandFits, SlotFits
<1>missing. OnlyMissing'
  BY DEF IInv, TypeOK, Owned, CommandFits, OnlyMissing
<1>doomed. DoomedHaveNewer'
  BY DEF IInv, TypeOK, DoomedHaveNewer
<1>staged. StagedInOrder'
  BY DEF IInv, TypeOK, Owned, CommandFits, StagedInOrder
<1>complete. SeenIsComplete'
  BY DEF IInv, TypeOK, Owned, CommandFits, OnlyMissing, StagedInOrder, DirectoriesAreSound,
      SeenIsComplete
<1>unmixed. BuildsDoNotMix'
  BY DEF IInv, TypeOK, Owned, CommandFits, StagedInOrder, DirectoriesAreSound, BuildsDoNotMix
<1>canrun. ResolvedCanRun'
  BY DEF IInv, TypeOK, Owned, CommandFits, OnlyMissing, StagedInOrder, DirectoriesAreSound,
      ResolvedCanRun
<1> QED
  BY <1>type, <1>locks, <1>commands, <1>missing, <1>doomed, <1>staged, <1>complete, <1>unmixed, <1>canrun
  DEF IInv, DirectoriesAreSound

LEMMA BeginUninstallStep ==
  ASSUME NEW p \in Procs, NEW s \in Slots, IInv, BeginUninstall(p, s) PROVE IInv'
<1> USE Assumptions DEF BeginUninstall, Begins
<1> QED
  BY DEF IInv, TypeOK, LocksAreWorkedUnder, Owned, CommandFits, SlotFits, OnlyMissing,
      DoomedHaveNewer, StagedInOrder, DirectoriesAreSound, SeenIsComplete, BuildsDoNotMix, ResolvedCanRun

LEMMA BeginPruneStep ==
  ASSUME NEW p \in Procs, NEW r \in Lanes \cup {"latest"}, IInv, BeginPrune(p, r) PROVE IInv'
<1> USE Assumptions DEF BeginPrune, Begins, Prunable, Installed
<1> QED
  BY DEF IInv, TypeOK, LocksAreWorkedUnder, Owned, CommandFits, SlotFits, OnlyMissing,
      DoomedHaveNewer, StagedInOrder, DirectoriesAreSound, SeenIsComplete, BuildsDoNotMix, ResolvedCanRun

LEMMA ResolveStep == ASSUME NEW p \in Procs, IInv, Resolve(p) PROVE IInv'
<1> USE Assumptions
<1> DEFINE Failing ==
             /\ pc' = [pc EXCEPT ![p] = IF FallsBack(p) THEN "fallback" ELSE "failed"]
             /\ locked' = Released(p)
             /\ UNCHANGED <<slot, want>>
           Going(v, b) ==
             /\ pc' = [pc EXCEPT ![p] = AfterResolve(p)]
             /\ slot' = [slot EXCEPT ![p] = v] /\ want' = [want EXCEPT ![p] = b]
             /\ request[p] # "nightly" => v \in Versions
             /\ UNCHANGED locked
<1>1. /\ listed' \subseteq Versions /\ recent' \in Builds \cup {0}
      /\ Failing \/ \E v \in Slots, b \in Builds : Going(v, b)
  <2>1. CASE ResolveStable(p)
    <3>1. PICK list \in Answers(p, released, listed, {}) :
            LET fits == {v \in list : Matches(request[p], v)}
            IN  /\ listed' = list
                /\ IF fits = {} THEN Fail(p) /\ UNCHANGED <<slot, want>>
                   ELSE /\ slot' = [slot EXCEPT ![p] = Newest(fits)]
                        /\ want' = [want EXCEPT ![p] = 1]
                        /\ Goto(p, AfterResolve(p))
                        /\ UNCHANGED locked
      BY <2>1 DEF ResolveStable
    <3> DEFINE fits == {v \in list : Matches(request[p], v)}
    <3>2. list \subseteq Versions /\ recent' = recent /\ recent \in Builds \cup {0}
      BY <2>1 DEF Answers, IInv, TypeOK, ResolveStable
    <3>3. CASE fits = {}
      BY <3>1, <3>2, <3>3 DEF Fail
    <3>4. CASE fits # {}
      <4>1. Newest(fits) \in Versions
        <5> HIDE DEF fits
        <5>1. fits \in SUBSET Versions
          BY <3>2 DEF fits
        <5> QED
          BY <5>1, <3>4, NewestExists
      <4>2. Going(Newest(fits), 1)
        BY <3>1, <3>4, <4>1
      <4>3. 1 \in Builds /\ Newest(fits) \in Slots
        BY <4>1
      <4> HIDE DEF fits, Going
      <4> QED
        BY <3>1, <3>2, <4>2, <4>3
    <3> QED
      BY <3>3, <3>4
  <2>2. CASE ResolveNightly(p)
    <3>1. PICK b \in Answers(p, nightly, recent, 0) : Going(Nightly, b) /\ recent' = b
      BY <2>2 DEF ResolveNightly
    <3>2. b \in Builds /\ listed' \subseteq Versions
      BY <2>2 DEF ResolveNightly, Answers, IInv, TypeOK
    <3> HIDE DEF Going
    <3> QED
      BY <3>1, <3>2
  <2> QED
    BY <2>1, <2>2 DEF Resolve
<1>2. /\ pc[p] = "resolve"
      /\ UNCHANGED <<released, nightly, dir, staging, staged, cmd, request, doomed, used, calls, crashes>>
  BY DEF Resolve
<1>3. CASE Failing
  <2> USE <1>1, <1>2, <1>3 DEF Released, FallsBack
  <2> QED
    BY DEF IInv, TypeOK, LocksAreWorkedUnder, Owned, CommandFits, SlotFits, OnlyMissing,
        DoomedHaveNewer, StagedInOrder, DirectoriesAreSound, SeenIsComplete, BuildsDoNotMix, ResolvedCanRun
<1>4. ASSUME NEW v \in Slots, NEW b \in Builds, Going(v, b) PROVE IInv'
  <2> USE <1>1, <1>2, <1>4 DEF AfterResolve
  <2> QED
    BY DEF IInv, TypeOK, LocksAreWorkedUnder, Owned, CommandFits, SlotFits, OnlyMissing,
        DoomedHaveNewer, StagedInOrder, DirectoriesAreSound, SeenIsComplete, BuildsDoNotMix, ResolvedCanRun
<1> QED
  BY <1>1, <1>3, <1>4

LEMMA CheckStep == ASSUME NEW p \in Procs, IInv, Check(p) PROVE IInv'
<1> USE Assumptions DEF Check, Present, Ready
<1> QED
  BY DEF IInv, TypeOK, LocksAreWorkedUnder, Owned, CommandFits, SlotFits, OnlyMissing,
      DoomedHaveNewer, StagedInOrder, DirectoriesAreSound, SeenIsComplete, BuildsDoNotMix, ResolvedCanRun

LEMMA LockStep == ASSUME NEW p \in Procs, IInv, Lock(p) PROVE IInv'
<1> USE Assumptions DEF Lock, LockIsFree
<1> QED
  BY DEF IInv, TypeOK, LocksAreWorkedUnder, Owned, CommandFits, SlotFits, OnlyMissing,
      DoomedHaveNewer, StagedInOrder, DirectoriesAreSound, SeenIsComplete, BuildsDoNotMix, ResolvedCanRun

LEMMA RecheckStep == ASSUME NEW p \in Procs, IInv, Recheck(p) PROVE IInv'
<1> USE Assumptions
<1>1. /\ pc[p] = "recheck"
      /\ UNCHANGED <<released, nightly, listed, recent, staging, staged, cmd, request, slot, want,
                     doomed, used, calls, crashes>>
  BY DEF Recheck
<1>2. /\ locked[slot[p]] = p /\ cmd[p] \in {"run", "install"} /\ slot[p] \in Slots
      /\ want[p] \in 1..MaxBuild /\ dir \in Contents
  BY <1>1, Typed DEF IInv, Owned, CommandFits
<1>3. CASE Present(slot[p], want[p])
  <2>1. PICK b \in 0..MaxBuild :
          /\ dir' = [dir EXCEPT ![slot[p]]["sidecars"] = b]
          /\ b \in {dir[slot[p]]["sidecars"], want[p]}
    <3>1. PICK b \in {dir[slot[p]]["sidecars"], want[p]} :
            dir' = [dir EXCEPT ![slot[p]]["sidecars"] = IF @ # 0 THEN @ ELSE b]
      BY <1>3 DEF Recheck
    <3>2. dir[slot[p]]["sidecars"] \in 0..MaxBuild
      BY <1>2, ZenonT(60) DEF Contents
    <3>3. want[p] \in 0..MaxBuild
      BY <1>2
    <3> QED
      BY <3>1, <3>2, <3>3
  <2>2. /\ dir' \in Contents
        /\ \A t \in Slots, y \in Parts :
             dir'[t][y] = IF t = slot[p] /\ y = "sidecars" THEN b ELSE dir[t][y]
    BY <2>1, <1>2, DirPartSet, ZenonT(60)
  <2>3. /\ pc' = [pc EXCEPT ![p] = IF cmd[p] = "run" THEN "exec" ELSE "done"]
        /\ locked' = [s \in Slots |-> IF locked[s] = p THEN "nobody" ELSE locked[s]]
    BY <1>3 DEF Recheck, Ready, Released
  <2>4. HasBinary(slot[p]) /\ (slot[p] = Nightly => dir[slot[p]]["receipt"] = want[p])
    BY <1>3 DEF Present
  <2>5. b \in {dir[slot[p]]["sidecars"], want[p]}
    BY <2>1
  <2>6. DoomedHaveNewer'
    BY <1>1, <1>2, <2>2, <2>4, DoomedStep DEF IInv
  <2>7. \A s \in Slots : dir'[s]["binary"] = dir[s]["binary"]
    BY <2>2
  <2>type. TypeOK'
    BY <1>1, <2>2, <2>3 DEF IInv, TypeOK, Contents
  <2>locks. LocksAreWorkedUnder' /\ Owned'
    BY <1>1, <1>2, <2>2, <2>3, <2>4, <2>5 DEF IInv, TypeOK, LocksAreWorkedUnder, Owned, CommandFits
  <2>commands. CommandFits' /\ SlotFits'
    BY <1>1, <1>2, <2>2, <2>3, <2>4, <2>5 DEF IInv, TypeOK, CommandFits, SlotFits
  <2>missing. OnlyMissing'
    <3> SUFFICES ASSUME Quiet', NEW q \in Procs, pc'[q] \in Installing, slot'[q] \in Versions
                 PROVE  dir'[slot'[q]]["binary"] = 0
      BY DEF OnlyMissing
    <3>1. Quiet /\ pc[q] \in Installing /\ slot'[q] = slot[q]
      BY <1>1, <2>3 DEF IInv, TypeOK
    <3>2. dir[slot[q]]["binary"] = 0
      BY <3>1 DEF IInv, OnlyMissing
    <3> QED
      BY <3>1, <3>2, <2>7
  <2>doomed. DoomedHaveNewer'
    BY <2>6 DEF IInv, TypeOK, DoomedHaveNewer
  <2>staged. StagedInOrder'
    BY <1>1, <1>2, <2>2, <2>3, <2>4, <2>5 DEF IInv, TypeOK, Owned, CommandFits, StagedInOrder
  <2>complete. SeenIsComplete'
    BY <1>1, <1>2, <2>2, <2>3, <2>4, <2>5
    DEF IInv, TypeOK, Owned, CommandFits, OnlyMissing, StagedInOrder, DirectoriesAreSound,
        SeenIsComplete
  <2>unmixed. BuildsDoNotMix'
    BY <1>1, <1>2, <2>2, <2>3, <2>4, <2>5
    DEF IInv, TypeOK, Owned, CommandFits, StagedInOrder, DirectoriesAreSound, BuildsDoNotMix
  <2>canrun. ResolvedCanRun'
    <3> SUFFICES ASSUME OnlyInstalls', NEW q \in Procs, pc'[q] = "exec", slot'[q] # Nightly
                 PROVE  dir'[slot'[q]]["binary"] # 0
      BY DEF ResolvedCanRun
    <3>1. OnlyInstalls /\ slot'[q] = slot[q] /\ slot[q] \in Slots /\ (q = p \/ pc[q] = "exec")
      BY <1>1, <2>3 DEF IInv, TypeOK
    <3>2. dir[slot[q]]["binary"] # 0
      BY <3>1, <2>4 DEF IInv, DirectoriesAreSound, ResolvedCanRun
    <3> QED
      BY <3>1, <3>2, <2>7
  <2> QED
    BY <2>type, <2>locks, <2>commands, <2>missing, <2>doomed, <2>staged, <2>complete, <2>unmixed, <2>canrun
    DEF IInv, DirectoriesAreSound
<1>4. CASE ~Present(slot[p], want[p])
  <2>1. pc' = [pc EXCEPT ![p] = "download"] /\ UNCHANGED <<dir, locked>>
    BY <1>4 DEF Recheck
  <2>2. slot[p] \in Versions => ~HasBinary(slot[p])
    BY <1>4 DEF Present
  <2>3. OnlyInstalls' = OnlyInstalls /\ Quiet' = Quiet
    BY <1>1, <2>1 DEF OnlyInstalls, Quiet
  <2> USE <1>1, <1>2, <2>1, <2>2, <2>3
  <2>type. TypeOK'
    BY DEF IInv, TypeOK
  <2>locks. LocksAreWorkedUnder' /\ Owned'
    BY DEF IInv, TypeOK, LocksAreWorkedUnder, Owned
  <2>commands. CommandFits' /\ SlotFits'
    BY DEF IInv, TypeOK, CommandFits, SlotFits
  <2>missing. OnlyMissing'
    BY DEF IInv, TypeOK, OnlyMissing
  <2>doomed. DoomedHaveNewer'
    BY DEF IInv, TypeOK, DoomedHaveNewer
  <2>staged. StagedInOrder'
    BY DEF IInv, TypeOK, StagedInOrder
  <2>sound. DirectoriesAreSound'
    BY DEF IInv, TypeOK, DirectoriesAreSound, SeenIsComplete, BuildsDoNotMix, ResolvedCanRun
  <2> QED
    BY <2>type, <2>locks, <2>commands, <2>missing, <2>doomed, <2>staged, <2>sound DEF IInv
<1> QED
  BY <1>3, <1>4

LEMMA ValidateStep == ASSUME NEW p \in Procs, IInv, Validate(p) PROVE IInv'
<1> USE Assumptions DEF Validate
<1> QED
  BY DEF IInv, TypeOK, LocksAreWorkedUnder, Owned, CommandFits, SlotFits, OnlyMissing,
      DoomedHaveNewer, StagedInOrder, DirectoriesAreSound, SeenIsComplete, BuildsDoNotMix, ResolvedCanRun

LEMMA DownloadStep == ASSUME NEW p \in Procs, IInv, Download(p) PROVE IInv'
<1>1. /\ pc[p] = "download" /\ pc' = [pc EXCEPT ![p] = "binary"]
      /\ staging' = [staging EXCEPT ![slot[p]] = Nothing] /\ staged' = staged \cup {slot[p]}
      /\ UNCHANGED <<released, nightly, listed, recent, dir, locked, cmd, request, slot, want,
                     doomed, used, calls, crashes>>
  BY DEF Download, EmptyStaging
<1>2. staging \in Contents /\ slot[p] \in Slots
  BY Typed DEF IInv
<1>3. /\ staging' \in Contents
      /\ \A t \in Slots, y \in Parts : staging'[t][y] = IF t = slot[p] THEN 0 ELSE staging[t][y]
  BY <1>1, <1>2, StagingEmptied
<1>4. \A s \in Slots : s # slot[p] => staging'[s] = staging[s]
  BY <1>1, <1>2 DEF Contents
<1> USE Assumptions
<1>type. TypeOK'
  BY <1>1, <1>2, <1>3, ZenonT(60) DEF IInv, TypeOK, Contents
<1>locks. LocksAreWorkedUnder' /\ Owned'
  BY <1>1, <1>2, <1>3, <1>4 DEF IInv, TypeOK, LocksAreWorkedUnder, Owned, CommandFits
<1>commands. CommandFits' /\ SlotFits'
  BY <1>1, <1>2, <1>3, <1>4 DEF IInv, TypeOK, CommandFits, SlotFits
<1>missing. OnlyMissing'
  BY <1>1, <1>2, <1>3, <1>4 DEF IInv, TypeOK, Owned, CommandFits, OnlyMissing
<1>doomed. DoomedHaveNewer'
  BY <1>1, <1>2, <1>3, <1>4 DEF IInv, TypeOK, DoomedHaveNewer
<1>staged. StagedInOrder'
  BY <1>1, <1>2, <1>3, <1>4 DEF IInv, TypeOK, Owned, CommandFits, StagedInOrder
<1>complete. SeenIsComplete'
  BY <1>1, <1>2, <1>3, <1>4
  DEF IInv, TypeOK, Owned, CommandFits, OnlyMissing, StagedInOrder, DirectoriesAreSound,
      SeenIsComplete
<1>unmixed. BuildsDoNotMix'
  BY <1>1, <1>2, <1>3, <1>4
  DEF IInv, TypeOK, Owned, CommandFits, StagedInOrder, DirectoriesAreSound, BuildsDoNotMix
<1>canrun. ResolvedCanRun'
  BY <1>1, <1>2, <1>3, <1>4
  DEF IInv, TypeOK, Owned, CommandFits, OnlyMissing, StagedInOrder, DirectoriesAreSound,
      ResolvedCanRun
<1> QED
  BY <1>type, <1>locks, <1>commands, <1>missing, <1>doomed, <1>staged, <1>complete, <1>unmixed, <1>canrun
  DEF IInv, DirectoriesAreSound

LEMMA StageStep == ASSUME NEW p \in Procs, IInv, Stage(p) PROVE IInv'
<1>1. pc[p] \in Parts /\ slot[p] \in Slots /\ want[p] \in 0..MaxBuild /\ staging \in Contents
  BY Typed DEF IInv, Stage
<1>2. staging[slot[p]][pc[p]] \in 0..MaxBuild
  BY <1>1 DEF Contents
<1>3. staging' \in Contents
  <2>1. CASE UNCHANGED staging
    BY <1>1, <2>1
  <2>2. CASE ~UNCHANGED staging
    <3>1. PICK b \in {want[p], staging[slot[p]][pc[p]]} :
            staging' = [staging EXCEPT ![slot[p]][pc[p]] = b]
      BY <2>2 DEF Stage
    <3> QED
      BY <3>1, <1>1, <1>2, StagingPartSet
  <2> QED
    BY <2>1, <2>2
<1>4. /\ pc' \in [Procs -> Labels] /\ staged' \subseteq Slots /\ locked' \in [Slots -> Procs \cup {Nobody}]
      /\ UNCHANGED <<released, nightly, listed, recent, dir, cmd, request, slot, want, doomed, used, calls,
                     crashes>>
  <2>1. pc \in [Procs -> Labels] /\ staged \subseteq Slots /\ locked \in [Slots -> Procs \cup {Nobody}]
    BY DEF IInv, TypeOK
  <2>2. pc' \in [Procs -> Labels]
    BY <1>1, <2>1 DEF Stage, After, Fail, FallsBack
  <2>3. staged' \subseteq Slots
    BY <1>1, <2>1 DEF Stage
  <2>4. locked' \in [Slots -> Procs \cup {Nobody}]
    BY <2>1 DEF Stage, Fail, Released
  <2> QED
    BY <2>2, <2>3, <2>4 DEF Stage
<1> USE Assumptions DEF Stage, After, Fail, FallsBack, Released
<1>type. TypeOK'
  <2> HIDE DEF Stage
  <2> QED
    BY <1>3, <1>4 DEF IInv, TypeOK, Contents
<1>locks. LocksAreWorkedUnder' /\ Owned'
  BY <1>3 DEF IInv, TypeOK, LocksAreWorkedUnder, Owned, CommandFits
<1>commands. CommandFits' /\ SlotFits'
  BY <1>3 DEF IInv, TypeOK, CommandFits, SlotFits
<1>missing. OnlyMissing'
  BY <1>3 DEF IInv, TypeOK, Owned, CommandFits, OnlyMissing
<1>doomed. DoomedHaveNewer'
  BY <1>3 DEF IInv, TypeOK, DoomedHaveNewer
<1>staged. StagedInOrder'
  <2> HIDE DEF FallsBack, Requests, Lanes, Stage
  <2>1. CASE ~(slot[p] \in staged \/ pc[p] = "stdlib")
    <3>1. /\ pc'[p] \notin Installing \/ (pc[p] = "sidecars" /\ pc'[p] = "remove")
          /\ UNCHANGED staging /\ \A q \in Procs \ {p} : pc'[q] = pc[q]
      BY <1>1, <1>4, <2>1 DEF Stage, IInv, TypeOK
    <3> QED
      BY <1>4, <2>1, <3>1 DEF IInv, TypeOK, StagedInOrder
  <2>2. CASE slot[p] \in staged \/ pc[p] = "stdlib"
    <3>1. PICK b \in {want[p], staging[slot[p]][pc[p]]} :
            /\ pc[p] # "sidecars" => b = want[p]
            /\ staging' = [staging EXCEPT ![slot[p]][pc[p]] = b]
            /\ pc' = [pc EXCEPT ![p] = After(pc[p])]
      BY <2>2 DEF Stage
    <3>2. \A t \in Slots, x \in Parts :
            staging'[t][x] = IF t = slot[p] /\ x = pc[p] THEN b ELSE staging[t][x]
      <4>1. b \in 0..MaxBuild
        BY <1>1, <1>2
      <4>2. staging' = [staging EXCEPT ![slot[p]][pc[p]] = b]
        BY <3>1
      <4> QED
        BY <1>1, <4>1, <4>2 DEF Contents
    <3>3. pc \in [Procs -> Labels] /\ slot \in [Procs -> Slots] /\ want[p] # 0
      BY DEF IInv, TypeOK
    <3>4. OnlyInstalls =>
            \A q \in Procs \ {p} : pc[q] \in Installing => slot[q] # slot[p]
      BY <1>1, <3>3 DEF IInv, Owned, CommandFits
    <3>5. CASE OnlyInstalls
      <4>1. /\ \A x \in Parts : staging[slot[p]][x] \in {0, want[p]}
            /\ pc[p] # "binary" => staging[slot[p]]["binary"] # 0
            /\ pc[p] \in {"stdlib", "sidecars"} => staging[slot[p]]["receipt"] # 0
            /\ pc[p] = "sidecars" => staging[slot[p]]["stdlib"] # 0
        BY <1>1, <3>5 DEF IInv, StagedInOrder
      <4>2. /\ \A x \in Parts : staging'[slot[p]][x] \in {0, want[p]}
            /\ pc[p] = "sidecars" \/ staging'[slot[p]][pc[p]] # 0
            /\ \A x \in Parts : staging[slot[p]][x] # 0 /\ x # "sidecars" => staging'[slot[p]][x] # 0
        BY <1>1, <3>1, <3>2, <3>3, <4>1
      <4>3. ASSUME NEW q \in Procs, q # p, pc'[q] \in Installing
            PROVE  \A x \in Parts : staging'[slot[q]][x] = staging[slot[q]][x]
        BY <1>4, <3>1, <3>2, <3>3, <3>4, <3>5, <4>3
      <4>4. \A q \in Procs \ {p} : pc'[q] = pc[q]
        BY <3>1, <3>3
      <4>5. pc'[p] = After(pc[p])
        BY <3>1, <3>3
      <4> QED
        BY <1>1, <1>4, <3>3, <3>5, <4>1, <4>2, <4>3, <4>4, <4>5 DEF After, IInv, StagedInOrder
    <3>6. CASE ~OnlyInstalls
      BY <1>4, <3>6 DEF StagedInOrder
    <3> QED
      BY <3>5, <3>6
  <2> QED
    BY <2>1, <2>2
<1>complete. SeenIsComplete'
  BY <1>3 DEF IInv, TypeOK, Owned, CommandFits, OnlyMissing, StagedInOrder, DirectoriesAreSound,
      SeenIsComplete
<1>unmixed. BuildsDoNotMix'
  BY <1>3 DEF IInv, TypeOK, Owned, CommandFits, StagedInOrder, DirectoriesAreSound, BuildsDoNotMix
<1>canrun. ResolvedCanRun'
  BY <1>3 DEF IInv, TypeOK, Owned, CommandFits, OnlyMissing, StagedInOrder, DirectoriesAreSound,
      ResolvedCanRun
<1> QED
  BY <1>type, <1>locks, <1>commands, <1>missing, <1>doomed, <1>staged, <1>complete, <1>unmixed, <1>canrun
  DEF IInv, DirectoriesAreSound

LEMMA RemoveOldStep == ASSUME NEW p \in Procs, IInv, RemoveOld(p) PROVE IInv'
<1> USE Assumptions
<1>1. CASE dir[slot[p]] = Nothing
  <2>1. /\ pc[p] = "remove" /\ pc' = [pc EXCEPT ![p] = "rename"]
        /\ UNCHANGED <<released, nightly, listed, recent, dir, staging, staged, locked, cmd, request,
                       slot, want, doomed, used, calls, crashes>>
    BY <1>1 DEF RemoveOld
  <2> HIDE DEF Requests, Lanes
  <2> QED
    BY <2>1 DEF IInv, TypeOK, LocksAreWorkedUnder, Owned, CommandFits, SlotFits, OnlyMissing,
        DoomedHaveNewer, StagedInOrder, DirectoriesAreSound, SeenIsComplete, BuildsDoNotMix, ResolvedCanRun
<1>2. CASE dir[slot[p]] # Nothing
  <2>1. PICK x \in Parts : dir' = [dir EXCEPT ![slot[p]][x] = 0]
    BY <1>2 DEF RemoveOld
  <2>2. dir \in Contents /\ slot[p] \in Slots /\ 0 \in 0..MaxBuild
    BY Typed DEF IInv
  <2>3. /\ dir' \in Contents
        /\ \A t \in Slots, y \in Parts :
             dir'[t][y] = IF t = slot[p] /\ y = x THEN 0 ELSE dir[t][y]
    BY <2>1, <2>2, DirPartRemoved
  <2>4. /\ pc[p] = "remove"
        /\ UNCHANGED <<released, nightly, listed, recent, staging, staged, locked, pc, cmd, request,
                       slot, want, doomed, used, calls, crashes>>
    BY <1>2 DEF RemoveOld
  <2>5. Quiet => \A v \in Versions : HasBinary(v) => HasBinary(v)'
    <3>1. Quiet /\ slot[p] \in Versions => dir[slot[p]]["binary"] = 0
      BY <2>4 DEF IInv, OnlyMissing
    <3> QED
      BY <2>3, <3>1
  <2>6. DoomedHaveNewer'
    BY <2>4, <2>5, DoomedStep DEF IInv
  <2>type. TypeOK'
    BY <2>3, <2>4 DEF IInv, TypeOK, Contents
  <2>locks. LocksAreWorkedUnder' /\ Owned'
    BY <2>4 DEF IInv, TypeOK, LocksAreWorkedUnder, Owned, CommandFits
  <2>commands. CommandFits' /\ SlotFits'
    BY <2>2, <2>3, <2>4 DEF IInv, TypeOK, CommandFits, SlotFits
  <2>missing. OnlyMissing'
    BY <2>2, <2>3, <2>4, ZenonT(60) DEF IInv, TypeOK, Owned, CommandFits, OnlyMissing
  <2>doomed. DoomedHaveNewer'
    BY <2>6 DEF IInv, TypeOK, DoomedHaveNewer
  <2>staged. StagedInOrder'
    BY <2>2, <2>3, <2>4 DEF IInv, TypeOK, Owned, CommandFits, StagedInOrder
  <2>complete. SeenIsComplete'
    BY <2>2, <2>3, <2>4
    DEF IInv, TypeOK, Owned, CommandFits, OnlyMissing, StagedInOrder, DirectoriesAreSound,
        SeenIsComplete
  <2>unmixed. BuildsDoNotMix'
    BY <2>2, <2>3, <2>4
    DEF IInv, TypeOK, Owned, CommandFits, StagedInOrder, DirectoriesAreSound, BuildsDoNotMix
  <2>canrun. ResolvedCanRun'
    <3> SUFFICES ASSUME OnlyInstalls', NEW q \in Procs, pc'[q] = "exec", slot'[q] # Nightly
                 PROVE  dir'[slot'[q]]["binary"] # 0
      BY DEF ResolvedCanRun
    <3>1. OnlyInstalls /\ pc[q] = "exec" /\ slot'[q] = slot[q] /\ slot[q] \in Versions
      BY <2>4, Typed DEF IInv
    <3>2. HasBinary(slot[q])
      BY <3>1 DEF IInv, DirectoriesAreSound, ResolvedCanRun
    <3> QED
      BY <3>1, <3>2, <2>4, <2>5
  <2> QED
    BY <2>type, <2>locks, <2>commands, <2>missing, <2>doomed, <2>staged, <2>complete, <2>unmixed, <2>canrun
    DEF IInv, DirectoriesAreSound
<1> QED
  BY <1>1, <1>2

LEMMA RenameStep == ASSUME NEW p \in Procs, IInv, Rename(p) PROVE IInv'
<1> USE Assumptions
<1>1. CASE CanRename(slot[p])
  <2>1. /\ dir' = [dir EXCEPT ![slot[p]] = staging[slot[p]]]
        /\ staging' = [staging EXCEPT ![slot[p]] = Nothing]
        /\ staged' = staged \ {slot[p]}
        /\ pc' = [pc EXCEPT ![p] = IF cmd[p] = "run" THEN "exec" ELSE "done"]
        /\ locked' = [s \in Slots |-> IF locked[s] = p THEN "nobody" ELSE locked[s]]
        /\ pc[p] = "rename"
        /\ UNCHANGED <<released, nightly, listed, recent, cmd, request, slot, want,
                       doomed, used, calls, crashes>>
    BY <1>1 DEF Rename, Ready, Released
  <2>2. dir \in Contents /\ staging \in Contents /\ slot[p] \in Slots /\ ~HasBinary(slot[p])
    BY <1>1, Typed DEF IInv, CanRename
  <2>3. /\ dir' \in Contents
        /\ \A t \in Slots, y \in Parts : dir'[t][y] = IF t = slot[p] THEN staging[t][y] ELSE dir[t][y]
    BY <2>1, <2>2, DirReplaced
  <2>4. /\ staging' \in Contents
        /\ \A t \in Slots, y \in Parts : staging'[t][y] = IF t = slot[p] THEN 0 ELSE staging[t][y]
    BY <2>1, <2>2, StagingEmptied
  <2>5. \A s \in Slots : s # slot[p] => staging'[s] = staging[s] /\ dir'[s] = dir[s]
    BY <2>1, <2>2 DEF Contents
  <2>6. /\ staged' \subseteq staged
        /\ pc' = [pc EXCEPT ![p] = IF cmd[p] = "run" THEN "exec" ELSE "done"]
        /\ locked' = [s \in Slots |-> IF locked[s] = p THEN "nobody" ELSE locked[s]]
        /\ pc[p] = "rename"
        /\ UNCHANGED <<released, nightly, listed, recent, cmd, request, slot, want,
                       doomed, used, calls, crashes>>
    BY <2>1
  <2>7. cmd[p] \in used /\ (OnlyInstalls => cmd[p] \in {"run", "install"})
    BY <2>6 DEF IInv, CommandFits
  <2>8. DoomedHaveNewer'
    BY <2>2, <2>3, <2>6, DoomedStep DEF IInv
  <2>9. Quiet => \A q \in Procs : q # p /\ pc[q] \in Locking => slot[q] # slot[p]
    BY <2>6 DEF IInv, Owned, CommandFits
  <2>10. \A q \in Procs : pc'[q] \in Installing => q # p /\ pc[q] = pc'[q]
    BY <2>6 DEF IInv, TypeOK
  <2>11. OnlyInstalls =>
           /\ \A x \in Parts : staging[slot[p]][x] \in {0, want[p]}
           /\ staging[slot[p]]["binary"] # 0
    BY <2>6 DEF IInv, StagedInOrder
  <2>type. TypeOK'
    BY <2>3, <2>4, <2>6 DEF IInv, TypeOK, Contents
  <2>locks. LocksAreWorkedUnder' /\ Owned'
    BY <2>6 DEF IInv, TypeOK, LocksAreWorkedUnder, Owned, CommandFits
  <2>commands. CommandFits' /\ SlotFits'
    BY <2>2, <2>3, <2>6, <2>11 DEF IInv, TypeOK, CommandFits, SlotFits
  <2>missing. OnlyMissing'
    BY <2>2, <2>5, <2>6, <2>9, <2>10 DEF IInv, TypeOK, Owned, CommandFits, OnlyMissing
  <2>doomed. DoomedHaveNewer'
    BY <2>8 DEF IInv, TypeOK, DoomedHaveNewer
  <2>staged. StagedInOrder'
    <3> SUFFICES ASSUME OnlyInstalls', NEW q \in Procs, pc'[q] \in Installing
                 PROVE  q # p /\ pc[q] = pc'[q] /\ OnlyInstalls /\ slot'[q] = slot[q]
                          /\ want'[q] = want[q] /\ staging'[slot[q]] = staging[slot[q]]
      BY DEF IInv, StagedInOrder
    <3>1. q # p /\ pc[q] = pc'[q] /\ OnlyInstalls /\ slot'[q] = slot[q] /\ want'[q] = want[q]
      BY <2>6, <2>10
    <3>2. slot[q] # slot[p] /\ slot[q] \in Slots
      BY <3>1, <2>9, Typed DEF IInv
    <3> QED
      BY <3>1, <3>2, <2>5
  <2>complete. SeenIsComplete'
    BY <2>2, <2>3, <2>6, <2>11
    DEF IInv, TypeOK, Owned, CommandFits, OnlyMissing, StagedInOrder, DirectoriesAreSound,
        SeenIsComplete
  <2>unmixed. BuildsDoNotMix'
    BY <2>2, <2>3, <2>6, <2>11
    DEF IInv, TypeOK, Owned, CommandFits, StagedInOrder, DirectoriesAreSound, BuildsDoNotMix
  <2>canrun. ResolvedCanRun'
    <3> SUFFICES ASSUME OnlyInstalls', NEW q \in Procs, pc'[q] = "exec", slot'[q] # Nightly
                 PROVE  dir'[slot'[q]]["binary"] # 0
      BY DEF ResolvedCanRun
    <3>1. OnlyInstalls /\ slot'[q] = slot[q] /\ slot[q] \in Slots /\ (q = p \/ pc[q] = "exec")
      BY <2>6, Typed DEF IInv, TypeOK
    <3>2. CASE slot[q] = slot[p]
      <4>1. dir'[slot[p]]["binary"] = staging[slot[p]]["binary"]
        BY <2>2, <2>3
      <4> QED
        BY <3>1, <3>2, <4>1, <2>11
    <3>3. CASE slot[q] # slot[p]
      <4>1. dir[slot[q]]["binary"] # 0
        BY <3>1, <3>3 DEF IInv, DirectoriesAreSound, ResolvedCanRun
      <4> QED
        BY <3>1, <3>3, <4>1, <2>3, ZenonT(60)
    <3> QED
      BY <3>2, <3>3
  <2> QED
    BY <2>type, <2>locks, <2>commands, <2>missing, <2>doomed, <2>staged, <2>complete, <2>unmixed, <2>canrun
    DEF IInv, DirectoriesAreSound
<1>2. CASE ~CanRename(slot[p])
  <2>1. /\ pc[p] = "rename"
        /\ pc' = [pc EXCEPT ![p] = IF cmd[p] = "run" /\ request[p] \in {"latest", "nightly", "help"}
                                   THEN "fallback" ELSE "failed"]
        /\ locked' = [s \in Slots |-> IF locked[s] = p THEN "nobody" ELSE locked[s]]
        /\ UNCHANGED <<released, nightly, listed, recent, dir, staging, staged, cmd, request, slot, want,
                       doomed, used, calls, crashes>>
    BY <1>2 DEF Rename, Fail, FallsBack, Released
  <2> QED
    BY <2>1 DEF IInv, TypeOK, LocksAreWorkedUnder, Owned, CommandFits, SlotFits, OnlyMissing,
        DoomedHaveNewer, StagedInOrder, DirectoriesAreSound, SeenIsComplete, BuildsDoNotMix, ResolvedCanRun
<1> QED
  BY <1>1, <1>2

LEMMA StepFailsStep == ASSUME NEW p \in Procs, IInv, StepFails(p) PROVE IInv'
<1> USE Assumptions DEF StepFails, Fail, FallsBack, Released
<1> QED
  BY DEF IInv, TypeOK, LocksAreWorkedUnder, Owned, CommandFits, SlotFits, OnlyMissing,
      DoomedHaveNewer, StagedInOrder, DirectoriesAreSound, SeenIsComplete, BuildsDoNotMix, ResolvedCanRun

LEMMA FallbackStep == ASSUME NEW p \in Procs, IInv, Fallback(p) PROVE IInv'
<1>1. \/ slot' = slot /\ pc' = [pc EXCEPT ![p] = "failed"]
      \/ \E v \in Slots :
           /\ slot' = [slot EXCEPT ![p] = v] /\ pc' = [pc EXCEPT ![p] = "exec"]
           /\ HasBinary(v) /\ (request[p] # "nightly" => v \in Versions)
  <2>1. CASE request[p] = "nightly"
    <3>1. Newest({Nightly}) = Nightly
      BY Assumptions DEF Newest
    <3>2. CASE HasBinary(Nightly) /\ dir[Nightly]["receipt"] # 0
      <4>1. {s \in {Nightly} : HasBinary(s) /\ dir[s]["receipt"] # 0} = {Nightly}
        BY <3>2
      <4> QED
        BY <2>1, <3>1, <3>2, <4>1 DEF Fallback
    <3>3. CASE ~(HasBinary(Nightly) /\ dir[Nightly]["receipt"] # 0)
      <4>1. {s \in {Nightly} : HasBinary(s) /\ dir[s]["receipt"] # 0} = {}
        BY <3>3
      <4> QED
        BY <2>1, <4>1 DEF Fallback
    <3> QED
      BY <3>2, <3>3
  <2>2. CASE request[p] # "nightly"
    <3>1. Local(request[p]) # {} =>
            Newest(Local(request[p])) \in Versions /\ HasBinary(Newest(Local(request[p])))
      BY NewestExists DEF Local
    <3> QED
      BY <2>2, <3>1 DEF Fallback
  <2> QED
    BY <2>1, <2>2
<1>2. /\ pc[p] = "fallback"
      /\ UNCHANGED <<released, nightly, listed, recent, dir, staging, staged, locked, cmd, request,
                     want, doomed, used, calls, crashes>>
  BY DEF Fallback
<1>3. CASE slot' = slot /\ pc' = [pc EXCEPT ![p] = "failed"]
  <2> USE Assumptions, <1>2, <1>3
  <2> QED
    BY DEF IInv, TypeOK, LocksAreWorkedUnder, Owned, CommandFits, SlotFits, OnlyMissing,
        DoomedHaveNewer, StagedInOrder, DirectoriesAreSound, SeenIsComplete, BuildsDoNotMix, ResolvedCanRun
<1>4. ASSUME NEW v \in Slots, slot' = [slot EXCEPT ![p] = v], pc' = [pc EXCEPT ![p] = "exec"],
             HasBinary(v), request[p] # "nightly" => v \in Versions
      PROVE  IInv'
  <2> USE Assumptions, <1>2, <1>4
  <2> QED
    BY DEF IInv, TypeOK, LocksAreWorkedUnder, Owned, CommandFits, SlotFits, OnlyMissing,
        DoomedHaveNewer, StagedInOrder, DirectoriesAreSound, SeenIsComplete, BuildsDoNotMix, ResolvedCanRun
<1> QED
  BY <1>1, <1>3, <1>4

LEMMA ExecStep == ASSUME NEW p \in Procs, IInv, Exec(p) PROVE IInv'
<1> USE Assumptions DEF Exec
<1> QED
  BY DEF IInv, TypeOK, LocksAreWorkedUnder, Owned, CommandFits, SlotFits, OnlyMissing,
      DoomedHaveNewer, StagedInOrder, DirectoriesAreSound, SeenIsComplete, BuildsDoNotMix, ResolvedCanRun

LEMMA EraseStep == ASSUME NEW p \in Procs, IInv, Erase(p) PROVE IInv'
<1> USE Assumptions
<1>1. /\ pc[p] = "erase" /\ cmd[p] \in used /\ cmd[p] \in {"uninstall", "prune"}
      /\ UNCHANGED <<released, nightly, listed, recent, locked, cmd, request, slot, want, used, calls,
                     crashes>>
  BY DEF Erase, IInv, CommandFits
<1>2. dir \in Contents /\ staging \in Contents /\ doomed[p] \subseteq Slots
  BY Typed DEF IInv, TypeOK
<1>3. CASE UNCHANGED dir
  <2>1. staging' \in Contents
    <3>1. CASE UNCHANGED staging
      BY <3>1, <1>2
    <3>2. CASE ~UNCHANGED staging
      <4>1. PICK s \in doomed[p] : staging' = [staging EXCEPT ![s] = Nothing]
        BY <3>2 DEF Erase
      <4> QED
        BY <4>1, <1>2, StagingEmptied
    <3> QED
      BY <3>1, <3>2
  <2>2. /\ pc' = pc \/ (pc' = [pc EXCEPT ![p] = "done"] /\ doomed[p] = {})
        /\ staged' \subseteq staged
        /\ doomed' = doomed \/ \E s \in doomed[p] : doomed' = [doomed EXCEPT ![p] = @ \ {s}]
    <3>1. CASE doomed[p] = {}
      BY <3>1 DEF Erase
    <3>2. CASE doomed[p] # {}
      <4>1. pc' = pc /\ staged' \subseteq staged
        BY <3>2 DEF Erase
      <4>2. doomed' = doomed \/ \E s \in doomed[p] : doomed' = [doomed EXCEPT ![p] = @ \ {s}]
        BY <3>2 DEF Erase
      <4> QED
        BY <4>1, <4>2
    <3> QED
      BY <3>1, <3>2
  <2>3. /\ pc' \in [Procs -> Labels] /\ staged' \subseteq Slots
        /\ doomed' \in [Procs -> SUBSET Slots]
        /\ \A q \in Procs : doomed'[q] \subseteq doomed[q]
    BY <2>2, SMTT(30) DEF IInv, TypeOK
  <2>type. TypeOK'
    BY <1>1, <1>3, <2>1, <2>3 DEF IInv, TypeOK, Contents
  <2>locks. LocksAreWorkedUnder' /\ Owned'
    BY <1>1, <1>3, <2>1, <2>2 DEF IInv, TypeOK, LocksAreWorkedUnder, Owned, CommandFits
  <2>commands. CommandFits' /\ SlotFits'
    BY <1>1, <1>3, <2>1, <2>2 DEF IInv, TypeOK, CommandFits, SlotFits
  <2>missing. OnlyMissing'
    BY <1>1, <1>3, <2>1, <2>2 DEF IInv, TypeOK, Owned, CommandFits, OnlyMissing
  <2>doomed. DoomedHaveNewer'
    <3> SUFFICES ASSUME Quiet', NEW q \in Procs, NEW v \in doomed'[q]
                 PROVE  /\ v \in Versions
                        /\ \E w \in Versions : Lane[w] = Lane[v] /\ w > v /\ dir'[w]["binary"] # 0
      BY DEF DoomedHaveNewer
    <3>1. Quiet /\ v \in doomed[q]
      BY <1>1, <2>3
    <3> QED
      BY <3>1, <1>3 DEF IInv, DoomedHaveNewer
  <2>staged. StagedInOrder'
    BY <1>1, <1>3, <2>1, <2>2 DEF IInv, TypeOK, Owned, CommandFits, StagedInOrder
  <2>complete. SeenIsComplete'
    BY <1>1, <1>3, <2>1, <2>2
    DEF IInv, TypeOK, Owned, CommandFits, OnlyMissing, StagedInOrder, DirectoriesAreSound,
        SeenIsComplete
  <2>unmixed. BuildsDoNotMix'
    BY <1>1, <1>3, <2>1, <2>2
    DEF IInv, TypeOK, Owned, CommandFits, StagedInOrder, DirectoriesAreSound, BuildsDoNotMix
  <2>canrun. ResolvedCanRun'
    BY <1>1, <1>3, <2>1, <2>2
    DEF IInv, TypeOK, Owned, CommandFits, OnlyMissing, StagedInOrder, DirectoriesAreSound,
        ResolvedCanRun
  <2> QED
    BY <2>type, <2>locks, <2>commands, <2>missing, <2>doomed, <2>staged, <2>complete, <2>unmixed, <2>canrun
    DEF IInv, DirectoriesAreSound
<1>4. CASE ~UNCHANGED dir
  <2>1. PICK s \in doomed[p], x \in Parts : dir' = [dir EXCEPT ![s][x] = 0]
    BY <1>4 DEF Erase
  <2>2. s \in Slots /\ 0 \in 0..MaxBuild
    BY <1>2
  <2>3. /\ dir' \in Contents
        /\ \A t \in Slots, y \in Parts : dir'[t][y] = IF t = s /\ y = x THEN 0 ELSE dir[t][y]
    BY <1>2, <2>1, <2>2, DirPartRemoved, ZenonT(60)
  <2>4. UNCHANGED <<staging, staged, pc, doomed>>
    BY <1>4 DEF Erase
  <2>5. DoomedHaveNewer'
    <3> SUFFICES ASSUME Quiet, NEW q \in Procs, NEW v \in doomed[q]
                 PROVE  /\ v \in Versions
                        /\ \E w \in Versions : Lane[w] = Lane[v] /\ w > v /\ HasBinary(w)'
      BY <1>1, <2>4 DEF DoomedHaveNewer
    <3>1. v \in Versions /\ s \in Versions
      BY DEF IInv, DoomedHaveNewer
    <3>2. PICK w \in Versions : Lane[w] = Lane[v] /\ w > v /\ HasBinary(w)
      BY DEF IInv, DoomedHaveNewer
    <3>3. CASE w # s
      BY <2>3, <3>1, <3>2, <3>3
    <3>4. CASE w = s
      <4>1. PICK u \in Versions : Lane[u] = Lane[s] /\ u > s /\ HasBinary(u)
        BY DEF IInv, DoomedHaveNewer
      <4> QED
        BY <2>3, <3>1, <3>2, <3>4, <4>1
    <3> QED
      BY <3>3, <3>4
  <2>type. TypeOK'
    BY <1>1, <2>3, <2>4 DEF IInv, TypeOK, Contents
  <2>locks. LocksAreWorkedUnder' /\ Owned'
    BY <1>1, <1>2, <2>2, <2>3, <2>4 DEF IInv, TypeOK, LocksAreWorkedUnder, Owned, CommandFits
  <2>commands. CommandFits' /\ SlotFits'
    BY <1>1, <1>2, <2>2, <2>3, <2>4 DEF IInv, TypeOK, CommandFits, SlotFits
  <2>missing. OnlyMissing'
    BY <1>1, <1>2, <2>2, <2>3, <2>4, ZenonT(60) DEF IInv, TypeOK, Owned, CommandFits, OnlyMissing
  <2>doomed. DoomedHaveNewer'
    BY <2>5 DEF IInv, TypeOK, DoomedHaveNewer
  <2>staged. StagedInOrder'
    BY <1>1, <1>2, <2>2, <2>3, <2>4 DEF IInv, TypeOK, Owned, CommandFits, StagedInOrder
  <2>complete. SeenIsComplete'
    BY <1>1, <1>2, <2>2, <2>3, <2>4
    DEF IInv, TypeOK, Owned, CommandFits, OnlyMissing, StagedInOrder, DirectoriesAreSound,
        SeenIsComplete
  <2>unmixed. BuildsDoNotMix'
    BY <1>1, <1>2, <2>2, <2>3, <2>4
    DEF IInv, TypeOK, Owned, CommandFits, StagedInOrder, DirectoriesAreSound, BuildsDoNotMix
  <2>canrun. ResolvedCanRun'
    BY <1>1, <1>2, <2>2, <2>3, <2>4
    DEF IInv, TypeOK, Owned, CommandFits, OnlyMissing, StagedInOrder, DirectoriesAreSound,
        ResolvedCanRun
  <2> QED
    BY <2>type, <2>locks, <2>commands, <2>missing, <2>doomed, <2>staged, <2>complete, <2>unmixed, <2>canrun
    DEF IInv, DirectoriesAreSound
<1> QED
  BY <1>3, <1>4

LEMMA EraseFailsStep == ASSUME NEW p \in Procs, IInv, EraseFails(p) PROVE IInv'
<1> USE Assumptions DEF EraseFails
<1> QED
  BY DEF IInv, TypeOK, LocksAreWorkedUnder, Owned, CommandFits, SlotFits, OnlyMissing,
      DoomedHaveNewer, StagedInOrder, DirectoriesAreSound, SeenIsComplete, BuildsDoNotMix, ResolvedCanRun

LEMMA CrashStep == ASSUME NEW p \in Procs, IInv, Crash(p) PROVE IInv'
<1> USE Assumptions DEF Crash, Released
<1> QED
  BY DEF IInv, TypeOK, LocksAreWorkedUnder, Owned, CommandFits, SlotFits, OnlyMissing,
      DoomedHaveNewer, StagedInOrder, DirectoriesAreSound, SeenIsComplete, BuildsDoNotMix, ResolvedCanRun

LEMMA PublishStep == ASSUME IInv, Publish PROVE IInv'
<1>1. /\ released' \subseteq Versions /\ nightly' \in Builds
      /\ UNCHANGED <<listed, recent, dir, staging, staged, locked, pc, cmd, request, slot, want, doomed,
                     used, calls, crashes>>
  BY Assumptions DEF Publish, IInv, TypeOK
<1> QED
  BY <1>1 DEF IInv, TypeOK, LocksAreWorkedUnder, Owned, CommandFits, SlotFits, OnlyMissing,
      DoomedHaveNewer, StagedInOrder, DirectoriesAreSound, SeenIsComplete, BuildsDoNotMix, ResolvedCanRun

LEMMA StutterStep == ASSUME IInv, UNCHANGED vars PROVE IInv'
BY DEF vars, IInv, TypeOK, LocksAreWorkedUnder, Owned, CommandFits, SlotFits, OnlyMissing,
    DoomedHaveNewer, StagedInOrder, DirectoriesAreSound, SeenIsComplete, BuildsDoNotMix, ResolvedCanRun

LEMMA NextInvariant == IInv /\ [Next]_vars => IInv'
<1> SUFFICES ASSUME IInv, [Next]_vars PROVE IInv'
  OBVIOUS
<1>1. ASSUME NEW p \in Procs, Step(p) PROVE IInv'
  BY <1>1, ResolveStep, CheckStep, LockStep, RecheckStep, ValidateStep, DownloadStep, StageStep,
     RemoveOldStep, RenameStep, FallbackStep, ExecStep, EraseStep DEF Step
<1>2. ASSUME NEW p \in Procs, StepFails(p) \/ EraseFails(p) \/ Crash(p) PROVE IInv'
  BY <1>2, StepFailsStep, EraseFailsStep, CrashStep
<1>3. ASSUME NEW p \in Procs, NEW c \in Commands, NEW r \in Requests, BeginResolving(p, c, r)
      PROVE  IInv'
  BY <1>3, BeginResolvingStep
<1>4. ASSUME NEW p \in Procs, NEW s \in Slots, BeginUninstall(p, s) PROVE IInv'
  BY <1>4, BeginUninstallStep
<1>5. ASSUME NEW p \in Procs, NEW r \in Lanes \cup {"latest"}, BeginPrune(p, r) PROVE IInv'
  BY <1>5, BeginPruneStep
<1>6. CASE Publish
  BY <1>6, PublishStep
<1>7. CASE UNCHANGED vars
  BY <1>7, StutterStep
<1> HIDE DEF Commands, Slots, Requests, Lanes
<1> QED
  BY <1>1, <1>2, <1>3, <1>4, <1>5, <1>6, <1>7 DEF Next

(* Locks, directories and what a launcher may rely on between two of its   *)
(* steps, for every family of launchers and versions: a lock is held by a  *)
(* launcher that installs what it locks, and while only runs and installs  *)
(* are at work a visible toolchain is complete, builds of the nightly do   *)
(* not mix, and what a run has resolved is there when it is executed.      *)
THEOREM LaunchersAreSafe ==
  Spec => [](TypeOK /\ LocksAreWorkedUnder /\ SeenIsComplete /\ BuildsDoNotMix /\ ResolvedCanRun)
<1>1. IInv => TypeOK /\ LocksAreWorkedUnder /\ SeenIsComplete /\ BuildsDoNotMix /\ ResolvedCanRun
  BY DEF IInv, DirectoriesAreSound
<1> QED
  BY <1>1, InitInvariant, NextInvariant, PTL DEF Spec

(* Whatever installations of the nightly were killed half-way, and however *)
(* many launchers run and install at once, the directory of the nightly    *)
(* never holds files of two builds (install_nightly).                      *)
THEOREM NightlyIsOfOneBuild == Spec => []BuildsDoNotMix
BY LaunchersAreSafe, PTL

LEMMA UsedGrows == [Next]_vars => used \subseteq used'
<1> SUFFICES ASSUME [Next]_vars PROVE used \subseteq used'
  OBVIOUS
<1>1. ASSUME NEW p \in Procs, Step(p) PROVE UNCHANGED used
  BY <1>1 DEF Step, Resolve, Check, Lock, Recheck, Validate, Download, Stage, RemoveOld, Rename,
      Fallback, Exec, Erase
<1>2. ASSUME NEW p \in Procs, StepFails(p) \/ EraseFails(p) \/ Crash(p) PROVE UNCHANGED used
  BY <1>2 DEF StepFails, EraseFails, Crash
<1>3. ASSUME NEW p \in Procs, NEW c \in Commands, NEW r \in Requests, BeginResolving(p, c, r)
      PROVE  used \subseteq used'
  BY <1>3 DEF BeginResolving, Begins
<1>4. ASSUME NEW p \in Procs, NEW s \in Slots, BeginUninstall(p, s) PROVE used \subseteq used'
  BY <1>4 DEF BeginUninstall, Begins
<1>5. ASSUME NEW p \in Procs, NEW r \in Lanes \cup {"latest"}, BeginPrune(p, r)
      PROVE  used \subseteq used'
  BY <1>5 DEF BeginPrune, Begins
<1>6. Publish \/ UNCHANGED vars => UNCHANGED used
  BY DEF Publish, vars
<1> HIDE DEF Commands, Slots, Requests, Lanes
<1> QED
  BY <1>1, <1>2, <1>3, <1>4, <1>5, <1>6 DEF Next

(* Only an uninstall and a prune make a version disappear, and one that    *)
(* they had marked.                                                        *)
LEMMA OnlyDoomedDisappear ==
  ASSUME IInv, [Next]_vars, Quiet, NEW v \in Versions, HasBinary(v), dir'[v]["binary"] = 0
  PROVE  \E p \in Procs :
           v \in doomed[p] /\ \A w \in Versions \ {v} : dir'[w]["binary"] = dir[w]["binary"]
<1>1. dir \in Contents /\ staging \in Contents /\ \A p \in Procs : slot[p] \in Slots
  BY Typed DEF IInv
<1>2. ASSUME NEW p \in Procs, Recheck(p) PROVE FALSE
  <2>1. CASE Present(slot[p], want[p])
    <3>1. PICK b \in {dir[slot[p]]["sidecars"], want[p]} :
            dir' = [dir EXCEPT ![slot[p]]["sidecars"] = IF @ # 0 THEN @ ELSE b]
      BY <1>2, <2>1 DEF Recheck
    <3>2. dir'[v]["binary"] = dir[v]["binary"]
      BY <1>1, <3>1 DEF Contents
    <3> QED
      BY <3>2
  <2>2. CASE ~Present(slot[p], want[p])
    BY <1>2, <2>2 DEF Recheck
  <2> QED
    BY <2>1, <2>2
<1>3. ASSUME NEW p \in Procs, RemoveOld(p) PROVE FALSE
  <2>1. PICK x \in Parts : dir' = [dir EXCEPT ![slot[p]][x] = 0]
    BY <1>3 DEF RemoveOld
  <2>2. dir'[v]["binary"] = IF v = slot[p] /\ x = "binary" THEN 0 ELSE dir[v]["binary"]
    BY <1>1, <2>1, DirPartRemoved
  <2>3. slot[p] # v
    BY <1>3 DEF RemoveOld, IInv, OnlyMissing
  <2> QED
    BY <2>2, <2>3
<1>4. ASSUME NEW p \in Procs, Rename(p) PROVE FALSE
  <2>1. CASE CanRename(slot[p])
    <3>1. dir' = [dir EXCEPT ![slot[p]] = staging[slot[p]]] /\ slot[p] # v
      BY <1>4, <2>1 DEF Rename, CanRename
    <3> QED
      BY <1>1, <3>1 DEF Contents
  <2>2. CASE ~CanRename(slot[p])
    BY <1>4, <2>2 DEF Rename
  <2> QED
    BY <2>1, <2>2
<1>5. ASSUME NEW p \in Procs, Erase(p)
      PROVE  v \in doomed[p] /\ \A w \in Versions \ {v} : dir'[w]["binary"] = dir[w]["binary"]
  <2>1. dir' # dir
    OBVIOUS
  <2>2. PICK s \in doomed[p], x \in Parts : dir' = [dir EXCEPT ![s][x] = 0]
    BY <1>5, <2>1 DEF Erase
  <2>3. s \in Slots
    BY DEF IInv, TypeOK
  <2>4. \A t \in Slots, y \in Parts : dir'[t][y] = IF t = s /\ y = x THEN 0 ELSE dir[t][y]
    BY <1>1, <2>2, <2>3, DirPartRemoved
  <2>5. v = s
    BY <2>4
  <2> QED
    BY <2>4, <2>5
<1>6. dir' # dir
  OBVIOUS
<1>7. PICK p \in Procs : Recheck(p) \/ RemoveOld(p) \/ Rename(p) \/ Erase(p)
  BY <1>6, ZenonT(60)
  DEF Next, vars, Step, StepFails, EraseFails, Crash, Publish, BeginResolving, BeginUninstall,
      BeginPrune, Begins, Resolve, Check, Lock, Validate, Download, Stage, Fallback, Exec
<1> QED
  BY <1>2, <1>3, <1>4, <1>5, <1>7

(* No interleaving of prunes, runs and installs removes a version from a   *)
(* lane without leaving a newer one.                                       *)
THEOREM PruningIsSafe == Spec => LaneKeepsNewest
<1> DEFINE Kept ==
      used' \cap Unlocked = {} =>
        \A v \in Versions :
          HasBinary(v) /\ ~HasBinary(v)' =>
            \E w \in Versions : Lane[w] = Lane[v] /\ w > v /\ HasBinary(w)'
<1>1. IInv /\ [Next]_vars => [Kept]_vars
  <2> SUFFICES ASSUME IInv, [Next]_vars, used' \cap Unlocked = {},
                      NEW v \in Versions, HasBinary(v), dir'[v]["binary"] = 0
               PROVE  \E w \in Versions : Lane[w] = Lane[v] /\ w > v /\ dir'[w]["binary"] # 0
    OBVIOUS
  <2>1. Quiet
    BY UsedGrows
  <2>2. PICK p \in Procs :
          v \in doomed[p] /\ \A w \in Versions \ {v} : dir'[w]["binary"] = dir[w]["binary"]
    BY <2>1, OnlyDoomedDisappear
  <2>3. PICK w \in Versions : Lane[w] = Lane[v] /\ w > v /\ HasBinary(w)
    BY <2>1, <2>2 DEF IInv, DoomedHaveNewer
  <2>4. w # v
    BY <2>3, Assumptions
  <2> QED
    BY <2>2, <2>3, <2>4
<1> QED
  BY <1>1, InitInvariant, NextInvariant, PTL DEF Spec, LaneKeepsNewest

(* While only runs and installs are at work, a run of the latest toolchain *)
(* or for help fails only without any installed version; nothing is said   *)
(* of `pcb migrate`, which has no fallback.                                *)
THEOREM LatestIsServed == Spec => RunsWhatFits
<1> DEFINE Served ==
      \A p \in Procs :
       /\ used' \subseteq {"run", "install"}
       /\ cmd[p] = "run" /\ request[p] \in {"latest", "help"}
       /\ pc[p] \notin Ended /\ pc'[p] = "failed" /\ crashes' = crashes
       => Local(request[p]) = {}
<1>1. IInv /\ [Next]_vars => [Served]_vars
  <2> SUFFICES ASSUME IInv, [Next]_vars, NEW p \in Procs, used' \subseteq {"run", "install"},
                      cmd[p] = "run", request[p] \in {"latest", "help"},
                      pc[p] \notin Ended, pc'[p] = "failed", crashes' = crashes
               PROVE  Local(request[p]) = {}
    OBVIOUS
  <2>1. OnlyInstalls /\ pc \in [Procs -> Labels] /\ crashes \in Nat
    BY UsedGrows, Assumptions DEF IInv, TypeOK
  <2>2. ASSUME NEW q \in Procs, Exec(q) PROVE FALSE
    <3>1. p = q /\ ~HasBinary(slot[p]) /\ pc[p] = "exec"
      BY <2>1, <2>2 DEF Exec
    <3>2. slot[p] \in Versions
      BY <3>1 DEF IInv, SlotFits
    <3>3. slot[p] # Nightly
      BY <3>2, Assumptions
    <3> QED
      BY <2>1, <3>1, <3>3 DEF IInv, DirectoriesAreSound, ResolvedCanRun
  <2>3. ASSUME NEW q \in Procs, Fallback(q) PROVE Local(request[p]) = {}
    <3>1. p = q /\ Local(request[p]) = {}
      BY <2>1, <2>3 DEF Fallback
    <3> QED
      BY <3>1
  <2>4. ASSUME NEW q \in Procs, Crash(q) PROVE FALSE
    BY <2>1, <2>4 DEF Crash
  <2>5. ASSUME NEW q \in Procs, EraseFails(q) PROVE FALSE
    BY <2>1, <2>5 DEF EraseFails, IInv, CommandFits
  <2>6. ASSUME NEW q \in Procs, Resolve(q) PROVE FALSE
    <3>1. \/ pc' = [pc EXCEPT ![q] = AfterResolve(q)]
          \/ pc' = [pc EXCEPT ![q] = IF FallsBack(q) THEN "fallback" ELSE "failed"]
      BY <2>6 DEF Resolve, ResolveStable, ResolveNightly, Fail
    <3> QED
      BY <3>1, <2>1 DEF AfterResolve, FallsBack
  <2>7. ASSUME NEW q \in Procs, Stage(q) \/ Rename(q) \/ StepFails(q) PROVE FALSE
    BY <2>1, <2>7 DEF Stage, Rename, StepFails, After, Ready, Fail, FallsBack
  <2>8. ASSUME NEW q \in Procs,
               Check(q) \/ Lock(q) \/ Recheck(q) \/ Validate(q) \/ Download(q) \/ RemoveOld(q) \/ Erase(q)
        PROVE  FALSE
    BY <2>1, <2>8 DEF Check, Lock, Recheck, Validate, Download, RemoveOld, Erase, Ready
  <2>9. ASSUME NEW q \in Procs, NEW c \in Commands, NEW r \in Requests, BeginResolving(q, c, r)
        PROVE  FALSE
    BY <2>1, <2>9 DEF BeginResolving, Begins
  <2>10. ASSUME NEW q \in Procs, NEW s \in Slots, BeginUninstall(q, s) PROVE FALSE
    BY <2>1, <2>10 DEF BeginUninstall, Begins
  <2>11. ASSUME NEW q \in Procs, NEW r \in Lanes \cup {"latest"}, BeginPrune(q, r) PROVE FALSE
    BY <2>1, <2>11 DEF BeginPrune, Begins
  <2>12. Publish \/ UNCHANGED vars => FALSE
    BY <2>1 DEF Publish, vars
  <2> HIDE DEF Commands, Slots, Requests, Lanes, Ended
  <2> QED
    BY <2>2, <2>3, <2>4, <2>5, <2>6, <2>7, <2>8, <2>9, <2>10, <2>11, <2>12 DEF Next, Step
<1> QED
  BY <1>1, InitInvariant, NextInvariant, PTL DEF Spec, RunsWhatFits
=============================================================================

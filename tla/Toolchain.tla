------------------------------ MODULE Toolchain ------------------------------
(***************************************************************************)
(* The launcher `pcb` (crates/pcb/src/main.rs): it resolves a requested    *)
(* toolchain, installs it when it is missing and executes its pcbc.  Any   *)
(* number of launchers share ~/.pcb; installing takes a file lock per      *)
(* toolchain, while uninstall, prune and repair take none.                 *)
(***************************************************************************)
EXTENDS Naturals, FiniteSets

CONSTANTS
  Procs,       \* launcher processes
  Versions,    \* stable versions, ordered as numbers
  Lane,        \* lane (major.minor) of a version
  Nightly,     \* the slot of the nightly toolchain
  MaxBuild,    \* bound: builds of the nightly channel
  MaxCalls,    \* bound: commands per process
  MaxCrashes   \* bound: crashes per behaviour

ASSUME ToolchainAssumption ==
  /\ "nobody" \notin Procs
  /\ Versions \subseteq Nat /\ IsFiniteSet(Versions) /\ Nightly \in Nat \ Versions
  /\ DOMAIN Lane = Versions
  /\ {"latest", "nightly", "help", "migrate"} \cap {Lane[v] : v \in Versions} = {}
  /\ MaxBuild \in Nat \ {0} /\ MaxCalls \in Nat /\ MaxCrashes \in Nat

Nobody == "nobody"
Slots == Versions \cup {Nightly}
Lanes == {Lane[v] : v \in Versions}

(* What a command asks for: a lane of the workspace, or a release outside  *)
(* of the lanes.  `pcb help` wants any version, what is installed first;   *)
(* `pcb migrate` wants the current latest and nothing else.                *)
Requests == Lanes \cup {"latest", "nightly", "help", "migrate"}
OnlyOfRuns == {"help", "migrate"}
Commands == {"run", "install", "repair", "uninstall", "prune"}

(* What a toolchain directory consists of; "sidecars" stands for the       *)
(* sidecar binaries or the marker that they were looked for.               *)
Parts == {"binary", "receipt", "stdlib", "sidecars"}
Nothing == [x \in Parts |-> 0]
Builds == 1..MaxBuild

VARIABLES
  released, nightly, \* the complete releases and the build of the nightly channel
  listed, recent,    \* the cached list of releases, the cached nightly build (0: none)
  dir,       \* dir[s][x]: the build part x of toolchain s comes from, 0 if absent
  staging,   \* the same of the directory <triple>.tmp beside it
  staged,    \* slots whose staging directory exists
  locked,    \* holder of install-<slot>.lock
  pc, cmd, request, slot, want, \* per process: position, command, what it wants
  doomed,    \* toolchains an uninstall or a prune still has to remove
  used,      \* commands begun so far
  calls, crashes \* counts of commands per process, and of crashes

vars == <<released, nightly, listed, recent, dir, staging, staged, locked, pc, cmd, request,
          slot, want, doomed, used, calls, crashes>>
remote == <<released, nightly>>
cache == <<listed, recent>>
disk == <<dir, staging, staged>>
self == <<cmd, request, slot, want, doomed, used, calls>>

Ended == {"idle", "done", "failed", "ran"}
Staging == {"binary", "receipt", "stdlib", "sidecars"}
Locking == {"recheck", "download", "remove", "rename"} \cup Staging
Labels == Ended \cup Locking
            \cup {"resolve", "check", "wait", "validate", "fallback", "exec", "erase"}

TypeOK ==
  /\ released \subseteq Versions /\ listed \subseteq Versions
  /\ nightly \in Builds /\ recent \in Builds \cup {0}
  /\ dir \in [Slots -> [Parts -> 0..MaxBuild]]
  /\ staging \in [Slots -> [Parts -> 0..MaxBuild]]
  /\ staged \subseteq Slots
  /\ locked \in [Slots -> Procs \cup {Nobody}]
  /\ pc \in [Procs -> Labels]
  /\ cmd \in [Procs -> Commands]
  /\ request \in [Procs -> Requests]
  /\ slot \in [Procs -> Slots]
  /\ want \in [Procs -> Builds]
  /\ doomed \in [Procs -> SUBSET Slots]
  /\ used \subseteq Commands
  /\ calls \in [Procs -> 0..MaxCalls]
  /\ crashes \in 0..MaxCrashes

Init ==
  /\ released \in SUBSET Versions /\ nightly = 1
  /\ listed = {} /\ recent = 0
  /\ \E there \in SUBSET (released \cup {Nightly}) :
       dir = [s \in Slots |-> IF s \in there THEN [x \in Parts |-> 1] ELSE Nothing]
  /\ staging = [s \in Slots |-> Nothing] /\ staged = {}
  /\ locked = [s \in Slots |-> Nobody]
  /\ pc = [p \in Procs |-> "idle"]
  /\ cmd = [p \in Procs |-> "run"]
  /\ request = [p \in Procs |-> "latest"]
  /\ slot = [p \in Procs |-> Nightly]
  /\ want = [p \in Procs |-> 1]
  /\ doomed = [p \in Procs |-> {}]
  /\ used = {}
  /\ calls = [p \in Procs |-> 0]
  /\ crashes = 0

-----------------------------------------------------------------------------
(* Looking at what is installed, without a lock.                           *)
HasBinary(s) == dir[s]["binary"] # 0
SidecarsPresent(s) == dir[s]["sidecars"] # 0
Matches(r, v) == r \in {"latest", "help", "migrate"} \/ r = Lane[v]
Newest(vs) == CHOOSE v \in vs : \A w \in vs : w <= v

(* installed_toolchains, best_local_toolchain.                             *)
Local(r) == {v \in Versions : HasBinary(v) /\ Matches(r, v)}

(* The test that makes an installation unnecessary: a stable toolchain     *)
(* counts by its binary, the nightly by its receipt.                       *)
Present(s, b) == HasBinary(s) /\ (s = Nightly => dir[s]["receipt"] = b)

Goto(p, label) == pc' = [pc EXCEPT ![p] = label]
Released(p) == [s \in Slots |-> IF locked[s] = p THEN Nobody ELSE locked[s]]

(* should_allow_latest_fallback denies it to `pcb migrate`; resolve_nightly*)
(* has one of its own, and a lane comes here only when nothing fits it.    *)
NightlyOnly_Slip(p) == cmd[p] = "run" /\ request[p] = "nightly"
FallsBack(p) == cmd[p] = "run" /\ request[p] \in {"latest", "nightly", "help"}
(* An error ends the command or sends a run to what is installed; the lock *)
(* is given back before the result is looked at.                           *)
Fail(p) ==
  /\ Goto(p, IF FallsBack(p) THEN "fallback" ELSE "failed")
  /\ locked' = Released(p)

-----------------------------------------------------------------------------
Begins(p, c, r) ==
  /\ pc[p] \in Ended
  /\ calls[p] < MaxCalls
  /\ calls' = [calls EXCEPT ![p] = @ + 1]
  /\ cmd' = [cmd EXCEPT ![p] = c]
  /\ request' = [request EXCEPT ![p] = r]
  /\ used' = used \cup {c}
  /\ UNCHANGED <<remote, cache, disk, locked, want, crashes>>

(* resolve_request: a lane, and a request for help, are served from what   *)
(* is installed if anything fits; install and repair ask the release list. *)
LocalFirst(r) == r \in Lanes \cup {"help"}
BeginResolving(p, c, r) ==
  /\ c \in {"run", "install", "repair"}
  /\ r \in OnlyOfRuns => c = "run"
  /\ Begins(p, c, r)
  /\ IF c = "run" /\ LocalFirst(r) /\ Local(r) # {}
     THEN slot' = [slot EXCEPT ![p] = Newest(Local(r))] /\ Goto(p, "exec")
     ELSE UNCHANGED slot /\ Goto(p, "resolve")
  /\ UNCHANGED doomed

BeginUninstall(p, s) ==
  /\ Begins(p, "uninstall", request[p])
  /\ doomed' = [doomed EXCEPT ![p] = {s}]
  /\ Goto(p, "erase")
  /\ UNCHANGED slot

Installed == {v \in Versions : HasBinary(v)}
KeepOldest_Slip(r) == {v \in Installed : \E w \in Installed : Lane[w] = Lane[v] /\ w < v}
(* prunable_stable_versions: all but the newest of each lane and the one   *)
(* the workspace uses.                                                     *)
Prunable(r) ==
  {v \in Installed :
     /\ \E w \in Installed : Lane[w] = Lane[v] /\ w > v
     /\ Local(r) # {} => v # Newest(Local(r))}

BeginPrune(p, r) ==
  /\ Begins(p, "prune", r)
  /\ doomed' = [doomed EXCEPT ![p] = Prunable(r)]
  /\ Goto(p, "erase")
  /\ UNCHANGED slot

-----------------------------------------------------------------------------
(* resolve_remote_version, fetch_nightly_release: a fresh cache answers    *)
(* unless the command insists; a fetch fills the cache.                    *)
Answers(p, fresh, old, none) == {fresh} \cup (IF cmd[p] = "run" /\ old # none THEN {old} ELSE {})
AfterResolve(p) == IF cmd[p] = "repair" THEN "validate" ELSE "check"

ResolveStable(p) ==
  /\ request[p] # "nightly"
  /\ \E list \in Answers(p, released, listed, {}) :
       LET fits == {v \in list : Matches(request[p], v)}
       IN  /\ listed' = list
           /\ IF fits = {} THEN Fail(p) /\ UNCHANGED <<slot, want>>
              ELSE /\ slot' = [slot EXCEPT ![p] = Newest(fits)]
                   /\ want' = [want EXCEPT ![p] = 1]
                   /\ Goto(p, AfterResolve(p))
                   /\ UNCHANGED locked
  /\ UNCHANGED recent

ResolveNightly(p) ==
  /\ request[p] = "nightly"
  /\ \E b \in Answers(p, nightly, recent, 0) :
       /\ recent' = b
       /\ want' = [want EXCEPT ![p] = b]
       /\ slot' = [slot EXCEPT ![p] = Nightly]
       /\ Goto(p, AfterResolve(p))
  /\ UNCHANGED <<listed, locked>>

Resolve(p) ==
  /\ pc[p] = "resolve"
  /\ ResolveStable(p) \/ ResolveNightly(p)
  /\ UNCHANGED <<remote, disk, cmd, request, doomed, used, calls, crashes>>

(* ensure_installed, ensure_nightly_installed: the test before the lock.   *)
Ready(p) == IF cmd[p] = "run" THEN "exec" ELSE "done"
Check(p) ==
  /\ pc[p] = "check"
  /\ Goto(p, IF Present(slot[p], want[p]) /\ SidecarsPresent(slot[p]) THEN Ready(p) ELSE "wait")
  /\ UNCHANGED <<remote, cache, disk, locked, self, crashes>>

TakeAnyway_Slip(p) == TRUE
LockIsFree(p) == locked[slot[p]] = Nobody

Lock(p) ==
  /\ pc[p] = "wait"
  /\ LockIsFree(p)
  /\ locked' = [locked EXCEPT ![slot[p]] = p]
  /\ Goto(p, "recheck")
  /\ UNCHANGED <<remote, cache, disk, self, crashes>>

(* Under the lock: another process may have installed it meanwhile; then   *)
(* only missing sidecars are added in place, as far as that succeeds.      *)
Recheck(p) ==
  /\ pc[p] = "recheck"
  /\ IF Present(slot[p], want[p])
     THEN /\ \E b \in {dir[slot[p]]["sidecars"], want[p]} :
               dir' = [dir EXCEPT ![slot[p]]["sidecars"] = IF @ # 0 THEN @ ELSE b]
          /\ Goto(p, Ready(p))
          /\ locked' = Released(p)
     ELSE Goto(p, "download") /\ UNCHANGED <<dir, locked>>
  /\ UNCHANGED <<remote, cache, staging, staged, self, crashes>>

(* validate_common_install, the receipt, and the checksum of the binary    *)
(* against it.                                                             *)
Healthy(s, b) ==
  /\ \A x \in Parts : dir[s][x] # 0
  /\ dir[s]["receipt"] = b
  /\ dir[s]["binary"] = dir[s]["receipt"]

(* toolchain_repair installs without the lock.                             *)
Validate(p) ==
  /\ pc[p] = "validate"
  /\ Goto(p, IF Healthy(slot[p], want[p]) THEN "done" ELSE "download")
  /\ UNCHANGED <<remote, cache, disk, locked, self, crashes>>

-----------------------------------------------------------------------------
(* install_toolchain and install_nightly.                                  *)
StaleStaging_Slip(s) == staging[s]
EmptyStaging(s) == Nothing

(* What was downloaded and verified goes to a fresh staging directory.     *)
Download(p) ==
  /\ pc[p] = "download"
  /\ staging' = [staging EXCEPT ![slot[p]] = EmptyStaging(slot[p])]
  /\ staged' = staged \cup {slot[p]}
  /\ Goto(p, "binary")
  /\ UNCHANGED <<remote, cache, dir, locked, self, crashes>>

After(x) == CASE x = "binary" -> "receipt" [] x = "receipt" -> "stdlib"
              [] x = "stdlib" -> "sidecars" [] x = "sidecars" -> "remove"

(* A file cannot be written into a staging directory that is gone; the     *)
(* archive of the standard library creates it.  Missing sidecars do not    *)
(* fail the installation.                                                  *)
Stage(p) ==
  /\ pc[p] \in Staging
  /\ LET s == slot[p]
         writable == s \in staged \/ pc[p] = "stdlib"
     IN  IF writable
         THEN /\ \E b \in {want[p]} \cup (IF pc[p] = "sidecars" THEN {staging[s][pc[p]]} ELSE {}) :
                   staging' = [staging EXCEPT ![s][pc[p]] = b]
              /\ staged' = staged \cup {s}
              /\ Goto(p, After(pc[p]))
              /\ UNCHANGED locked
         ELSE IF pc[p] = "sidecars"
              THEN Goto(p, "remove") /\ UNCHANGED <<staging, staged, locked>>
              ELSE Fail(p) /\ UNCHANGED <<staging, staged>>
  /\ UNCHANGED <<remote, cache, dir, self, crashes>>

(* remove_dir_all deletes file after file, in no particular order.         *)
RemoveOld(p) ==
  /\ pc[p] = "remove"
  /\ LET s == slot[p]
     IN  IF dir[s] = Nothing THEN Goto(p, "rename") /\ UNCHANGED dir
         ELSE /\ \E x \in {y \in Parts : dir[s][y] # 0} : dir' = [dir EXCEPT ![s][x] = 0]
              /\ UNCHANGED pc
  /\ UNCHANGED <<remote, cache, staging, staged, locked, self, crashes>>

CanRename(s) == s \in staged /\ dir[s] = Nothing

Rename(p) ==
  /\ pc[p] = "rename"
  /\ LET s == slot[p]
     IN  IF CanRename(s)
         THEN /\ dir' = [dir EXCEPT ![s] = staging[s]]
              /\ staging' = [staging EXCEPT ![s] = Nothing]
              /\ staged' = staged \ {s}
              /\ Goto(p, Ready(p))
              /\ locked' = Released(p)
         ELSE Fail(p) /\ UNCHANGED disk
  /\ UNCHANGED <<remote, cache, self, crashes>>

(* The network fails, or the file system does.                             *)
StepFails(p) ==
  /\ pc[p] \in {"resolve", "download", "remove", "rename", "binary", "receipt", "stdlib"}
  /\ Fail(p)
  /\ UNCHANGED <<remote, cache, disk, self, crashes>>

Fallback(p) ==
  /\ pc[p] = "fallback"
  /\ LET found == IF request[p] = "nightly"
                  THEN {s \in {Nightly} : HasBinary(s) /\ dir[s]["receipt"] # 0}
                  ELSE Local(request[p])
     IN  IF found = {} THEN Goto(p, "failed") /\ UNCHANGED slot
         ELSE slot' = [slot EXCEPT ![p] = Newest(found)] /\ Goto(p, "exec")
  /\ UNCHANGED <<remote, cache, disk, locked, cmd, request, want, doomed, used, calls, crashes>>

(* exec_toolchain replaces the launcher by pcbc.                           *)
Exec(p) ==
  /\ pc[p] = "exec"
  /\ Goto(p, IF HasBinary(slot[p]) THEN "ran" ELSE "failed")
  /\ UNCHANGED <<remote, cache, disk, locked, self, crashes>>

(* uninstall and prune remove whole version directories, the staging       *)
(* directory in them included, file after file; either may stop half-way.  *)
Erase(p) ==
  /\ pc[p] = "erase"
  /\ IF doomed[p] = {} THEN Goto(p, "done") /\ UNCHANGED <<disk, doomed>>
     ELSE \E s \in doomed[p] :
       /\ IF dir[s] = Nothing /\ s \notin staged
          THEN doomed' = [doomed EXCEPT ![p] = @ \ {s}] /\ UNCHANGED disk
          ELSE /\ \/ /\ \E x \in {y \in Parts : dir[s][y] # 0} : dir' = [dir EXCEPT ![s][x] = 0]
                     /\ UNCHANGED <<staging, staged>>
                  \/ /\ s \in staged
                     /\ staging' = [staging EXCEPT ![s] = Nothing]
                     /\ staged' = staged \ {s}
                     /\ UNCHANGED dir
               /\ UNCHANGED doomed
       /\ UNCHANGED pc
  /\ UNCHANGED <<remote, cache, locked, cmd, request, slot, want, used, calls, crashes>>

EraseFails(p) ==
  /\ pc[p] = "erase"
  /\ doomed' = [doomed EXCEPT ![p] = {}]
  /\ Goto(p, "failed")
  /\ UNCHANGED <<remote, cache, disk, locked, cmd, request, slot, want, used, calls, crashes>>

(* The operating system releases the locks of a killed process.            *)
Crash(p) ==
  /\ pc[p] \notin Ended
  /\ crashes < MaxCrashes
  /\ crashes' = crashes + 1
  /\ Goto(p, "failed")
  /\ locked' = Released(p)
  /\ doomed' = [doomed EXCEPT ![p] = {}]
  /\ UNCHANGED <<remote, cache, disk, cmd, request, slot, want, used, calls>>

(* CI completes a release, or publishes a nightly build.                   *)
Publish ==
  /\ \/ \E v \in Versions \ released : released' = released \cup {v} /\ UNCHANGED nightly
     \/ nightly < MaxBuild /\ nightly' = nightly + 1 /\ UNCHANGED released
  /\ UNCHANGED <<cache, disk, locked, pc, self, crashes>>

Step(p) ==
  \/ Resolve(p) \/ Check(p) \/ Lock(p) \/ Recheck(p) \/ Validate(p)
  \/ Download(p) \/ Stage(p) \/ RemoveOld(p) \/ Rename(p)
  \/ Fallback(p) \/ Exec(p) \/ Erase(p)

Next ==
  \/ \E p \in Procs :
       \/ Step(p) \/ StepFails(p) \/ EraseFails(p) \/ Crash(p)
       \/ \E c \in Commands, r \in Requests : BeginResolving(p, c, r)
       \/ \E s \in Slots : BeginUninstall(p, s)
       \/ \E r \in Lanes \cup {"latest"} : BeginPrune(p, r)
  \/ Publish

Spec == Init /\ [][Next]_vars

-----------------------------------------------------------------------------
OnlyInstalls == used \subseteq {"run", "install"}
Unlocked == {"uninstall", "repair"}

(* A toolchain is built in a staging directory and renamed into place:     *)
(* while only runs and installs are at work, whatever crashes, a stable    *)
(* toolchain whose binary can be seen has its receipt and standard library *)
(* too, so the unlocked test for the binary alone suffices                 *)
(* (ensure_installed, install_toolchain).                                  *)
SeenIsComplete ==
  OnlyInstalls =>
    \A v \in Versions : HasBinary(v) => dir[v]["receipt"] # 0 /\ dir[v]["stdlib"] # 0

(* Builds of the nightly never mix in its directory, although a killed     *)
(* installation leaves its staging directory to the next (install_nightly).*)
BuildsDoNotMix ==
  OnlyInstalls =>
    \A x, y \in Parts :
      dir[Nightly][x] # 0 /\ dir[Nightly][y] # 0 => dir[Nightly][x] = dir[Nightly][y]

(* What a run has resolved is still there when it executes it: between     *)
(* the test and the exec no lock is held (resolve_request, exec_toolchain).*)
ResolvedCanRun ==
  OnlyInstalls =>
    \A p \in Procs : pc[p] = "exec" /\ slot[p] # Nightly => HasBinary(slot[p])

(* Offline or not, while only runs and installs are at work a run of the   *)
(* latest toolchain, or one for help, does not fail once any stable        *)
(* version is installed; `pcb migrate`, which is denied the fallback, may  *)
(* (should_allow_latest_fallback, best_local_toolchain).                   *)
RunsWhatFits ==
  [][\A p \in Procs :
       /\ used' \subseteq {"run", "install"}
       /\ cmd[p] = "run" /\ request[p] \in {"latest", "help"}
       /\ pc[p] \notin Ended /\ pc'[p] = "failed" /\ crashes' = crashes
       => Local(request[p]) = {}]_vars

(* "Pruning preserves the newest patch in each lane, the active version":  *)
(* whatever runs and installs at the same time, as long as nobody          *)
(* uninstalls or repairs, a version goes only while a newer one of its     *)
(* lane stays (toolchain_prune works on a list it made before; RemoveOld). *)
LaneKeepsNewest ==
  [][used' \cap Unlocked = {} =>
       \A v \in Versions :
         HasBinary(v) /\ ~HasBinary(v)' =>
           \E w \in Versions : Lane[w] = Lane[v] /\ w > v /\ HasBinary(w)']_vars

(* A lock is held only by a launcher that is installing what it locks, on  *)
(* every error path and after every crash too, so nobody waits for ever    *)
(* (ensure_installed, ensure_nightly_installed).                           *)
LocksAreWorkedUnder ==
  \A s \in Slots :
    locked[s] # Nobody => pc[locked[s]] \in Locking /\ slot[locked[s]] = s
=============================================================================

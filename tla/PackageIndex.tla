----------------------------- MODULE PackageIndex -----------------------------
(***************************************************************************)
(* The table remote_packages of the SQLite index ~/.pcb/cache, shared by   *)
(* all pcb processes of a user: find_remote_package and                    *)
(* discover_remote_packages in crates/pcb-zen/src/cache_index.rs.  A       *)
(* lookup asks for the directories of a file, the nearest one first, one   *)
(* SELECT each; when none is a package the process lists the tags of its   *)
(* clone of the repository, deletes all rows, inserts the packages one by  *)
(* one and looks again.  Every statement commits on its own.               *)
(***************************************************************************)
EXTENDS Naturals, Sequences

CONSTANTS
  Procs,       \* pcb processes
  Count,       \* paths of one repository, numbered in map order
  Files,       \* files that are imported
  Directories, \* directories of a file, the nearest one first
  Oldest,      \* packages that are tagged from the beginning
  MaxVersion,  \* bound: versions of a package
  MaxCalls,    \* bound: lookups per process
  MaxFaults    \* bound: killed processes and failed statements

Paths == 1..Count

ASSUME PackageIndexAssumption ==
  /\ Count \in Nat /\ Oldest \subseteq Paths
  /\ Files # {} /\ Directories \in [Files -> Seq(Paths)]
  /\ MaxVersion \in Nat \ {0} /\ MaxCalls \in Nat /\ MaxFaults \in Nat

VARIABLES
  tags,     \* newest tagged version of a path on the remote, 0 for none
  clone,    \* the same in the user's clone of the repository
  table,    \* rows of remote_packages: latest version of a path, 0 for no row
  fetched,  \* processes that have fetched the repository
  pc, file, list, version, calls, \* per process; list is what it read from the clone
  step,     \* per process: directory it asks for next, or path it inserts next
  again,    \* processes in the lookup that follows their own refill
  \* what happened, for the properties:
  faults,   \* killed processes and failed statements
  rows,     \* "none" before the first delete, "torn" when a fault has cut an
            \* insert loop short since the last delete, else "whole"
  disturbed \* processes whose lookup or refill met a refill of another process

repo == <<tags, clone, fetched>>
history == <<faults, rows, disturbed>>
vars == <<tags, clone, table, fetched, pc, file, list, version, calls, step, again, faults, rows, disturbed>>

Versions == 0..MaxVersion
Refilling == {"source", "list", "delete", "insert"}
Busy == {"look"} \cup Refilling

TypeOK ==
  /\ tags \in [Paths -> Versions] /\ clone \in [Paths -> Versions] /\ table \in [Paths -> Versions]
  /\ fetched \subseteq Procs /\ again \subseteq Procs /\ disturbed \subseteq Procs
  /\ pc \in [Procs -> Busy \cup {"idle", "found", "missing", "error"}]
  /\ file \in [Procs -> Files] /\ list \in [Procs -> [Paths -> Versions]]
  /\ version \in [Procs -> Versions] /\ calls \in [Procs -> 0..MaxCalls]
  /\ step \in [Procs -> Nat \ {0}]
  /\ faults \in 0..MaxFaults /\ rows \in {"none", "whole", "torn"}

NoTags == [i \in Paths |-> 0]

Init ==
  /\ tags = [i \in Paths |-> IF i \in Oldest THEN 1 ELSE 0]
  /\ clone = NoTags /\ table = NoTags
  /\ pc = [p \in Procs |-> "idle"] /\ file \in [Procs -> Files]
  /\ list = [p \in Procs |-> NoTags] /\ version = [p \in Procs |-> 0]
  /\ calls = [p \in Procs |-> 0] /\ step = [p \in Procs |-> 1]
  /\ fetched = {} /\ again = {} /\ disturbed = {}
  /\ faults = 0 /\ rows = "none"

Goto(p, l) == pc' = [pc EXCEPT ![p] = l]
Inserting == {p \in Procs : pc[p] = "insert"}

(* Nobody is refilling the table, except maybe p, or has left it torn.     *)
Quiet(p) == rows # "torn" /\ Inserting \subseteq {p}
WatchedBy(p) == IF Quiet(p) THEN disturbed \ {p} ELSE disturbed \cup {p}

-----------------------------------------------------------------------------
(* find_remote_package for a file without a dependency in the manifest.    *)
Call(p, f) ==
  /\ pc[p] \notin Busy /\ calls[p] < MaxCalls
  /\ calls' = [calls EXCEPT ![p] = @ + 1]
  /\ file' = [file EXCEPT ![p] = f] /\ step' = [step EXCEPT ![p] = 1]
  /\ again' = again \ {p} /\ disturbed' = WatchedBy(p)
  /\ Goto(p, "look")
  /\ UNCHANGED <<repo, table, list, version, faults, rows>>

Asked(p) == Directories[file[p]]

(* One SELECT of find_remote_package_cached.                               *)
Hit(p) ==
  /\ pc[p] = "look" /\ step[p] <= Len(Asked(p))
  /\ table[Asked(p)[step[p]]] # 0
  /\ version' = [version EXCEPT ![p] = table[Asked(p)[step[p]]]]
  /\ Goto(p, "found")
  /\ UNCHANGED <<repo, table, file, list, calls, step, again, history>>

Miss(p) ==
  /\ pc[p] = "look" /\ step[p] <= Len(Asked(p))
  /\ table[Asked(p)[step[p]]] = 0
  /\ step' = [step EXCEPT ![p] = @ + 1]
  /\ UNCHANGED <<repo, table, pc, file, list, version, calls, again, history>>

(* A slip: a file that nothing covers is looked for again and again.       *)
AlwaysRefill_Slip(p) ==
  /\ pc[p] = "look" /\ step[p] > Len(Asked(p))
  /\ Goto(p, "source")
  /\ UNCHANGED <<repo, table, file, list, version, calls, step, again, history>>

NotCovered(p) ==
  /\ pc[p] = "look" /\ step[p] > Len(Asked(p))
  /\ Goto(p, IF p \in again THEN "missing" ELSE "source")
  /\ UNCHANGED <<repo, table, file, list, version, calls, step, again, history>>

(* ensure_source_repo fetches once per process; its lock makes the fetch   *)
(* one step for the others.                                                *)
Fetch(p) ==
  /\ pc[p] = "source"
  /\ clone' = IF p \in fetched THEN clone ELSE tags
  /\ fetched' = fetched \cup {p}
  /\ Goto(p, "list")
  /\ UNCHANGED <<tags, table, file, list, version, calls, step, again, history>>

FetchFails(p) ==
  /\ pc[p] = "source" /\ p \notin fetched
  /\ Goto(p, "error")
  /\ UNCHANGED <<repo, table, file, list, version, calls, step, again, history>>

List(p) ==
  /\ pc[p] = "list"
  /\ list' = [list EXCEPT ![p] = clone]
  /\ Goto(p, "delete")
  /\ UNCHANGED <<repo, table, file, version, calls, step, again, history>>

-----------------------------------------------------------------------------
(* Packages the process has still to insert.                               *)
(* (A slip starts behind the first path.)                                  *)
SkipFirst_Slip(p) == {i \in Paths : step[p] < i /\ list[p][i] # 0}

Rest(p) == {i \in Paths : step[p] <= i /\ list[p][i] # 0}

(* DELETE FROM remote_packages WHERE repo_url = ?1.                        *)
Delete(p) ==
  /\ pc[p] = "delete"
  /\ table' = NoTags
  /\ step' = [step EXCEPT ![p] = 1]
  /\ rows' = "whole"
  /\ disturbed' = {q \in Procs \ {p} : pc[q] \in Busy \/ q \in disturbed}
                  \cup (IF Inserting = {} THEN {} ELSE {p})
  /\ Goto(p, "insert")
  /\ UNCHANGED <<repo, file, list, version, calls, again, faults>>

(* The packages are inserted in map order; a row that is already there is  *)
(* an error, which ends the refill and the lookup.                         *)
Insert(p, i) ==
  /\ pc[p] = "insert" /\ i \in Rest(p) /\ \A j \in Rest(p) : i <= j
  /\ table[i] = 0
  /\ table' = [table EXCEPT ![i] = list[p][i]]
  /\ step' = [step EXCEPT ![p] = i + 1]
  /\ UNCHANGED <<repo, pc, file, list, version, calls, again, history>>

Collide(p, i) ==
  /\ pc[p] = "insert" /\ i \in Rest(p) /\ \A j \in Rest(p) : i <= j
  /\ table[i] # 0
  /\ Goto(p, "error")
  /\ UNCHANGED <<repo, table, file, list, version, calls, step, again, history>>

(* A slip: the second lookup goes on where the first one ended.            *)
GoOn_Slip(p) ==
  /\ pc[p] = "insert" /\ Rest(p) = {}
  /\ step' = [step EXCEPT ![p] = Len(Asked(p)) + 1]
  /\ again' = again \cup {p} /\ disturbed' = WatchedBy(p)
  /\ Goto(p, "look")
  /\ UNCHANGED <<repo, table, file, list, version, calls, faults, rows>>
LookAgain(p) ==
  /\ pc[p] = "insert" /\ Rest(p) = {}
  /\ step' = [step EXCEPT ![p] = 1]
  /\ again' = again \cup {p} /\ disturbed' = WatchedBy(p)
  /\ Goto(p, "look")
  /\ UNCHANGED <<repo, table, file, list, version, calls, faults, rows>>

-----------------------------------------------------------------------------
(* SQLite refuses a statement, after the busy timeout for example.         *)
StatementFails(p) ==
  /\ pc[p] \in {"delete", "insert"} /\ faults < MaxFaults
  /\ faults' = faults + 1
  /\ rows' = IF pc[p] = "insert" THEN "torn" ELSE rows
  /\ Goto(p, "error")
  /\ UNCHANGED <<repo, table, file, list, version, calls, step, again, disturbed>>

(* The process is killed; the next one with its name is a new process.     *)
Crash(p) ==
  /\ pc[p] \in Busy /\ faults < MaxFaults
  /\ faults' = faults + 1
  /\ rows' = IF pc[p] = "insert" THEN "torn" ELSE rows
  /\ fetched' = fetched \ {p}
  /\ Goto(p, "idle")
  /\ UNCHANGED <<tags, clone, table, file, list, version, calls, step, again, disturbed>>

(* Somebody publishes a version, of a new package maybe.                   *)
Publish(i) ==
  /\ tags[i] < MaxVersion
  /\ tags' = [tags EXCEPT ![i] = @ + 1]
  /\ UNCHANGED <<clone, table, fetched, pc, file, list, version, calls, step, again, history>>

Step(p) ==
  \/ Hit(p) \/ Miss(p) \/ NotCovered(p)
  \/ Fetch(p) \/ FetchFails(p) \/ List(p) \/ Delete(p)
  \/ \E i \in Paths : Insert(p, i) \/ Collide(p, i)
  \/ LookAgain(p)

Next ==
  \/ \E p \in Procs : Step(p) \/ StatementFails(p) \/ Crash(p)
  \/ \E p \in Procs, f \in Files : Call(p, f)
  \/ \E i \in Paths : Publish(i)

Spec == Init /\ [][Next]_vars /\ \A p \in Procs : WF_vars(Step(p))

-----------------------------------------------------------------------------
(* However the refills of several processes overlap, and whichever of them *)
(* abort because a row is already there, the table at rest holds all the   *)
(* packages that were tagged from the beginning, unless a fault cut a      *)
(* refill short: an aborted refill is always covered by the one it met.    *)
TableSettles ==
  rows = "whole" /\ Inserting = {} => \A i \in Oldest : table[i] # 0

(* A lookup that met no refill of another process answers with the nearest *)
(* directory that is a package, as test_remote_packages_lpm expects.       *)
Nearer(p) == IF pc[p] = "missing" THEN 1..Len(Asked(p)) ELSE {n \in 1..Len(Asked(p)) : n < step[p]}
UndisturbedIsNearest ==
  \A p \in Procs \ disturbed :
    pc[p] \in {"found", "missing"} => \A n \in Nearer(p) : Asked(p)[n] \notin Oldest

(* A refill that met no other refill never finds a row in its way.         *)
AloneNeverCollides ==
  \A p \in Procs \ disturbed : pc[p] = "insert" => \A i \in Rest(p) : table[i] = 0

(* An answer is a directory of the file and a version that was tagged.     *)
AnswersAreTagged ==
  \A p \in Procs :
    pc[p] = "found" =>
      /\ step[p] \in 1..Len(Asked(p))
      /\ version[p] \in 1..tags[Asked(p)[step[p]]]

(* A lookup ends, whatever the other processes do to the table.            *)
CallEnds == \A p \in Procs : pc[p] \in Busy ~> pc[p] \notin Busy
=============================================================================

------------------------------- MODULE Publish -------------------------------
(***************************************************************************)
(* `pcb publish` (crates/pcbc/src/publish.rs) and the detection of changed *)
(* packages it relies on (crates/pcb-zen/src/workspace.rs): several clones *)
(* of one workspace publish to one remote.  A publish tags the changed     *)
(* packages wave by wave, re-pins dependents in between, pushes main and   *)
(* then the tags, and rolls the clone back when a step fails.  Modelled    *)
(* without --force and --no-push.                                          *)
(***************************************************************************)
EXTENDS Naturals, Sequences, FiniteSets

CONSTANTS
  Clones,      \* clones of the workspace that publish
  Packages,    \* workspace packages
  Boards,      \* packages released with `pcb publish board.zen --bump`
  Graphs,      \* the dependency relations to consider
  Choices,     \* the bumps, by package, a publish may choose
  Line,        \* major.minor.patch is (major * Line + minor) * Line + patch
  MaxRuns, MaxEdits, MaxCrashes  \* bounds

Bumps == {"patch", "minor", "major"}
Absent == 0
Initial == Line   \* initial_package_version: 0.1.0

ASSUME PublishAssumption ==
  /\ IsFiniteSet(Packages) /\ Boards \subseteq Packages
  /\ Graphs \subseteq [Packages -> SUBSET Packages]
  /\ Choices # {} /\ Choices \subseteq [Packages -> Bumps]
  /\ Line \in Nat \ {0}
  /\ MaxRuns \in Nat /\ MaxEdits \in Nat /\ MaxCrashes \in Nat

VARIABLES
  uses,        \* [dependencies] on workspace packages
  commits,     \* every commit: history (itself included), state of the sources, pins
  main,        \* main of the remote
  remoteTags,  \* tags of the remote
  head, localTags, litter, \* per clone: HEAD, tags, kinds of uncommitted changes
  pc,          \* per clone: step of the command that runs
  plan,        \* bump_map: the bump of every package to publish
  todo,        \* planned packages not tagged yet
  made, initial, unpushed,  \* PublishGuard: tags, initial_commit, has_commits
  exit,        \* how the last command of the clone ended, "none" while one runs
  fetched,     \* history: the clone's tags when the publish was planned
  runs, edits, crashes

remoteVars == <<commits, main, remoteTags>>
cloneVars == <<head, localTags, litter>>
guardVars == <<made, initial, unpushed>>
planVars == <<plan, todo>>
counters == <<runs, edits, crashes>>
vars == <<uses, remoteVars, cloneVars, guardVars, planVars, pc, exit, fetched, counters>>

Version == {v \in Nat : v >= Initial}
Tag == [pkg : Packages, version : Version, commit : Nat \ {0}]
Commit == [history : SUBSET (Nat \ {0}), src : [Packages -> Nat], pins : [Packages -> [Packages -> Nat]]]

(* What `git status` counts as uncommitted: changes of files git tracks,   *)
(* such as manifests, and files it does not know, such as new vendor roots.*)
Changes == {"modified", "untracked"}

Busy == {"fetch", "preflight", "plan", "sync", "tag", "pushmain", "pushtags", "rollback",
         "release", "pushrelease"}

TypeOK ==
  /\ uses \in Graphs
  /\ commits \in Seq(Commit)
  /\ main \in 1..Len(commits)
  /\ remoteTags \subseteq Tag
  /\ head \in [Clones -> 1..Len(commits)]
  /\ localTags \in [Clones -> SUBSET Tag]
  /\ made \in [Clones -> SUBSET Tag]
  /\ fetched \in [Clones -> SUBSET Tag]
  /\ litter \in [Clones -> SUBSET Changes]
  /\ pc \in [Clones -> Busy \cup {"idle"}]
  /\ plan \in [Clones -> [Packages -> Bumps \cup {"none"}]]
  /\ todo \in [Clones -> SUBSET Packages]
  /\ initial \in [Clones -> 1..Len(commits)]
  /\ unpushed \in [Clones -> BOOLEAN]
  /\ exit \in [Clones -> {"none", "ok", "nothing", "refused", "failed", "unclean", "stranded",
                                  "crashed"}]
  /\ runs \in 0..MaxRuns /\ edits \in 0..MaxEdits /\ crashes \in 0..MaxCrashes

NoPlan == [q \in Packages |-> "none"]

(* A workspace whose packages are all published, or none is. *)
Init ==
  /\ uses \in Graphs
  /\ commits = <<[history |-> {1}, src |-> [q \in Packages |-> 0],
                  pins |-> [q \in Packages |-> [d \in Packages |->
                              IF d \in uses[q] THEN Initial ELSE Absent]]]>>
  /\ main = 1
  /\ remoteTags \in {{}, {[pkg |-> q, version |-> Initial, commit |-> 1] : q \in Packages}}
  /\ head = [c \in Clones |-> 1]
  /\ localTags = [c \in Clones |-> {}]
  /\ litter = [c \in Clones |-> {}]
  /\ pc = [c \in Clones |-> "idle"]
  /\ plan = [c \in Clones |-> NoPlan]
  /\ todo = [c \in Clones |-> {}]
  /\ made = [c \in Clones |-> {}]
  /\ initial = [c \in Clones |-> 1]
  /\ unpushed = [c \in Clones |-> FALSE]
  /\ exit = [c \in Clones |-> "none"]
  /\ fetched = [c \in Clones |-> {}]
  /\ runs = 0 /\ edits = 0 /\ crashes = 0

-----------------------------------------------------------------------------
(* Git.                                                                    *)

(* b is a or an ancestor of a. *)
Ancestors(a) == commits[a].history

(* git commit on top of the commit at: every commit knows its history. *)
Committed(at, src, pins) ==
  LET new == Len(commits) + 1 IN
  Append(commits, [history |-> Ancestors(at) \cup {new}, src |-> src, pins |-> pins])

Named(t, u) == t.pkg = u.pkg /\ t.version = u.version

Max0(S) == IF S = {} THEN Absent ELSE CHOOSE v \in S : \A w \in S : w <= v

LatestOf(tags, q) == Max0({t.version : t \in {u \in tags : u.pkg = q}})

(* find_latest_version, over the tags of the clone, merged or not. *)
Latest(c, q) == LatestOf(localTags[c], q)

(* git tag --merged HEAD *)
Merged(c) == {t \in localTags[c] : t.commit \in Ancestors(head[c])}

(* latest_package_tags *)
PackageTags(c) == {t \in Merged(c) : t.version = LatestOf(Merged(c), t.pkg)}

-----------------------------------------------------------------------------
(* What there is to publish.                                               *)

(* dirty_base_ref: the nearest commit that carries the latest tag of some  *)
(* package.  main is linear, so the nearest is the newest.                 *)
DirtyBase(c) == Max0({t.commit : t \in PackageTags(c)})

ContentAt(n, q) == <<commits[n].src[q], commits[n].pins[q]>>

(* discover_dirty_packages: packages without a tag, and those that changed *)
(* since the base.                                                         *)
Dirty(c) ==
  {q \in Packages :
     \/ \A t \in PackageTags(c) : t.pkg # q
     \/ DirtyBase(c) # Absent /\ ContentAt(DirtyBase(c), q) # ContentAt(head[c], q)}

(* expand_dirty_set: with every package all that depend on it. *)
NotExpanded_Slip(S) == S
Expanded(S) ==
  LET Closed(T) == S \subseteq T /\ \A q \in Packages : uses[q] \cap T # {} => q \in T
  IN  {q \in Packages : \A T \in SUBSET Packages : Closed(T) => q \in T}

(* compute_waves_from_deps: the first wave of S, whose members depend on   *)
(* nothing in S, and a cycle, which has no first wave.                     *)
Ready(S) == {q \in S : uses[q] \cap S = {}}

IgnoreCycles_Slip(S) == FALSE
Cyclic(S) == \E T \in SUBSET S : T # {} /\ Ready(T) = {}

Planned(c) == {q \in Packages : plan[c][q] # "none"}

(* compute_next_version: the least multiple of the bump's unit above v; a  *)
(* package without a bump gets a minor one (build_candidates).             *)
Unit(bump) == CASE bump = "patch" -> 1 [] bump = "major" -> Line * Line [] OTHER -> Line
NextVersion(v, bump) ==
  IF v = Absent THEN Initial ELSE (v \div Unit(bump) + 1) * Unit(bump)

(* publish_wave, build_candidates: the tags of the packages of one wave. *)
Candidates(c, wave) ==
  {[pkg |-> q, version |-> NextVersion(Latest(c, q), plan[c][q]), commit |-> head[c]] : q \in wave}

(* The version a workspace package has in memory: its merged tag, raised by *)
(* publish_wave once the package is tagged.                                *)
KnownVersion(c, d) ==
  Max0({Initial} \cup {t.version : t \in {u \in PackageTags(c) \cup made[c] : u.pkg = d}})

(* sync_targets on one wave: every pin of its packages rises to the version *)
(* of the dependency and is never lowered.                                 *)
SyncedPins(c, wave) ==
  LET old == commits[head[c]].pins
  IN  [q \in Packages |-> [d \in Packages |->
        IF q \in wave /\ d \in uses[q] THEN Max0({old[q][d], KnownVersion(c, d)}) ELSE old[q][d]]]

Goto(c, step) == pc' = [pc EXCEPT ![c] = step]

(* The command ends, and its plan and its guard with it. *)
Leave(c, how) ==
  /\ Goto(c, "idle")
  /\ exit' = [exit EXCEPT ![c] = how]
  /\ plan' = [plan EXCEPT ![c] = NoPlan]
  /\ todo' = [todo EXCEPT ![c] = {}]
  /\ made' = [made EXCEPT ![c] = {}]
  /\ initial' = [initial EXCEPT ![c] = 1]
  /\ unpushed' = [unpushed EXCEPT ![c] = FALSE]
  /\ fetched' = [fetched EXCEPT ![c] = IF how = "failed" THEN @ ELSE {}]

-----------------------------------------------------------------------------
(* What happens around a publish.                                          *)

(* A developer pushes a change of q to main from elsewhere. *)
Edit(q) ==
  /\ edits < MaxEdits
  /\ edits' = edits + 1
  /\ commits' = Committed(main, [commits[main].src EXCEPT ![q] = @ + 1], commits[main].pins)
  /\ main' = Len(commits) + 1
  /\ UNCHANGED <<uses, remoteTags, cloneVars, guardVars, planVars, pc, exit, fetched, runs, crashes>>

(* The user brings an idle clone back to the remote's main, before another *)
(* publish.                                                                *)
Update(c) ==
  /\ pc[c] = "idle" /\ runs < MaxRuns
  /\ head' = [head EXCEPT ![c] = main]
  /\ litter' = [litter EXCEPT ![c] = {}]
  /\ UNCHANGED <<uses, remoteVars, localTags, guardVars, planVars, pc, exit, fetched, counters>>

(* The command is killed: no guard runs. *)
Crash(c) ==
  /\ pc[c] # "idle" /\ crashes < MaxCrashes
  /\ crashes' = crashes + 1
  /\ \E left \in SUBSET Changes :
       litter' = [litter EXCEPT ![c] = IF pc[c] = "sync" THEN left ELSE @]
  /\ Leave(c, "crashed")
  /\ UNCHANGED <<uses, remoteVars, head, localTags, runs, edits>>

-----------------------------------------------------------------------------
(* Both kinds of publish: fetch, check, plan.                              *)

(* `pcb publish`, or `pcb publish board.zen --bump` with the board in todo. *)
Begin(c, boards) ==
  /\ pc[c] = "idle" /\ runs < MaxRuns
  /\ runs' = runs + 1
  /\ todo' = [todo EXCEPT ![c] = boards]
  /\ exit' = [exit EXCEPT ![c] = "none"]
  /\ fetched' = [fetched EXCEPT ![c] = {}]
  /\ Goto(c, "fetch")
  /\ UNCHANGED <<uses, remoteVars, cloneVars, guardVars, plan, edits, crashes>>

(* git::fetch_tags: the remote's tags replace the local ones of the same   *)
(* name; local tags the remote does not have stay.                         *)
FetchTags(c) ==
  /\ pc[c] = "fetch"
  /\ localTags' = [localTags EXCEPT ![c] =
       remoteTags \cup {t \in @ : \A u \in remoteTags : ~Named(t, u)}]
  /\ Goto(c, "preflight")
  /\ UNCHANGED <<uses, remoteVars, head, litter, guardVars, planVars, exit, fetched, counters>>

(* preflight_checks, against the main just fetched. *)
Preflight(c) ==
  /\ pc[c] = "preflight"
  /\ IF litter[c] # {} \/ head[c] # main
     THEN Leave(c, "refused")
     ELSE /\ Goto(c, IF todo[c] = {} THEN "plan" ELSE "release")
          /\ UNCHANGED <<planVars, guardVars, exit, fetched>>
  /\ UNCHANGED <<uses, remoteVars, cloneVars, counters>>

(* publish_packages up to the guard.  A build that fails, or an answer no, *)
(* refuses.                                                                *)
Plan(c) ==
  LET changed == Expanded(Dirty(c)) IN
  /\ pc[c] = "plan"
  /\ \/ Leave(c, "refused")
     \/ changed = {} /\ Leave(c, "nothing")
     \/ /\ changed # {} /\ ~Cyclic(changed)
        /\ \E bump \in Choices :
             plan' = [plan EXCEPT ![c] = [q \in Packages |->
                        IF q \in changed THEN bump[q] ELSE "none"]]
        /\ todo' = [todo EXCEPT ![c] = changed]
        /\ initial' = [initial EXCEPT ![c] = head[c]]
        /\ unpushed' = [unpushed EXCEPT ![c] = FALSE]
        /\ fetched' = [fetched EXCEPT ![c] = localTags[c]]
        /\ Goto(c, "tag")
        /\ UNCHANGED <<made, exit>>
  /\ UNCHANGED <<uses, remoteVars, cloneVars, counters>>

-----------------------------------------------------------------------------
(* The waves of a package publish.                                         *)

(* PublishGuard.has_commits when the sync of a wave fails: it is set before *)
(* the sync starts.                                                        *)
SetAfter_Slip(c) == unpushed[c]
UnpushedAfterFailure(c) == TRUE

(* sync_dependency_wave: every wave but the first is re-pinned, and what   *)
(* changed is committed before it is tagged: pins, perhaps vendored files. *)
(* The sync may fail after it has written some of it, and the commit may   *)
(* fail before or after it is made (commit_with_trailers).                 *)
SyncWave(c) ==
  LET pins == SyncedPins(c, Ready(todo[c]))
      Failing == /\ unpushed' = [unpushed EXCEPT ![c] = UnpushedAfterFailure(c)]
                 /\ Goto(c, "rollback")
  IN
  /\ pc[c] = "sync"
  /\ \/ /\ pins = commits[head[c]].pins
        /\ Goto(c, "tag")
        /\ UNCHANGED <<commits, head, litter, unpushed>>
     \/ /\ commits' = Committed(head[c], commits[head[c]].src, pins)
        /\ head' = [head EXCEPT ![c] = Len(commits) + 1]
        /\ \/ Goto(c, "tag") /\ unpushed' = [unpushed EXCEPT ![c] = TRUE]
           \/ Failing
        /\ UNCHANGED litter
     \/ /\ \E left \in SUBSET Changes : litter' = [litter EXCEPT ![c] = left]
        /\ Failing
        /\ UNCHANGED <<commits, head>>
  /\ UNCHANGED <<uses, main, remoteTags, localTags, made, initial, planVars, exit, fetched, counters>>

(* What follows the last wave: main is pushed before the tags, if the      *)
(* waves committed anything.                                               *)
TagsOnly_Slip(c) == "pushtags"
FirstPush(c) == IF unpushed[c] THEN "pushmain" ELSE "pushtags"

(* publish_wave.  Creating a tag may fail after others were created. *)
TagWave(c) ==
  LET wave == Ready(todo[c]) IN
  /\ pc[c] = "tag" /\ wave # {}
  /\ \E new \in SUBSET Candidates(c, wave) :
       /\ localTags' = [localTags EXCEPT ![c] = @ \cup new]
       /\ made' = [made EXCEPT ![c] = @ \cup new]
       /\ IF new = Candidates(c, wave)
          THEN /\ todo' = [todo EXCEPT ![c] = @ \ wave]
               /\ Goto(c, IF todo[c] = wave THEN FirstPush(c) ELSE "sync")
          ELSE Goto(c, "rollback") /\ UNCHANGED todo
  /\ UNCHANGED <<uses, remoteVars, head, litter, initial, unpushed, plan, exit, fetched, counters>>

-----------------------------------------------------------------------------
(* The pushes and the rollback.                                            *)

(* git push main.  It is refused unless it is a fast-forward; the answer   *)
(* to one that was accepted may be lost.                                   *)
PushMain(c) ==
  /\ pc[c] = "pushmain"
  /\ \/ /\ main \in Ancestors(head[c])
        /\ main' = head[c]
        /\ \/ Goto(c, "pushtags") /\ unpushed' = [unpushed EXCEPT ![c] = FALSE]
           \/ Goto(c, "rollback") /\ UNCHANGED unpushed
     \/ Goto(c, "rollback") /\ UNCHANGED <<main, unpushed>>
  /\ UNCHANGED <<uses, commits, remoteTags, cloneVars, made, initial, planVars, exit, fetched, counters>>

(* The tags the remote takes: those whose name it does not have. *)
Force_Slip(tags) == tags
Accepted(tags) == {t \in tags : \A u \in remoteTags : ~Named(t, u)}

(* git push tags: not atomic, each tag is accepted or rejected by itself. *)
PushTags(c) ==
  /\ pc[c] = "pushtags"
  /\ \/ /\ Accepted(made[c]) = made[c]
        /\ remoteTags' = remoteTags \cup made[c]
        /\ Leave(c, "ok")
     \/ /\ \E taken \in SUBSET Accepted(made[c]) : remoteTags' = remoteTags \cup taken
        /\ Goto(c, "rollback")
        /\ UNCHANGED <<planVars, guardVars, exit, fetched>>
  /\ UNCHANGED <<uses, commits, main, cloneVars, counters>>

(* PublishGuard::drop.  Errors of its two git commands are ignored: any of *)
(* the tags may stay, and the reset may not happen.  A reset leaves files  *)
(* alone that git does not track.                                          *)
Rollback(c) ==
  /\ pc[c] = "rollback"
  /\ \E kept \in SUBSET made[c], reset \in BOOLEAN :
       /\ localTags' = [localTags EXCEPT ![c] = @ \ (made[c] \ kept)]
       /\ IF unpushed[c] /\ reset
          THEN /\ head' = [head EXCEPT ![c] = initial[c]]
               /\ litter' = [litter EXCEPT ![c] = @ \ {"modified"}]
          ELSE UNCHANGED <<head, litter>>
       /\ Leave(c, IF kept = {} /\ (unpushed[c] => reset) THEN "failed" ELSE "unclean")
  /\ UNCHANGED <<uses, remoteVars, counters>>

-----------------------------------------------------------------------------
(* publish_board.                                                          *)

(* Build the archive, upload it and tag the board. *)
Release(c) ==
  /\ pc[c] = "release"
  /\ \/ Leave(c, "refused") /\ UNCHANGED localTags
     \/ \E q \in todo[c], bump \in Choices :
          LET t == [pkg |-> q, version |-> NextVersion(Latest(c, q), bump[q]), commit |-> head[c]] IN
          /\ localTags' = [localTags EXCEPT ![c] = @ \cup {t}]
          /\ made' = [made EXCEPT ![c] = {t}]
          /\ Goto(c, "pushrelease")
          /\ UNCHANGED <<planVars, initial, unpushed, exit, fetched>>
  /\ UNCHANGED <<uses, remoteVars, head, litter, counters>>

(* git::push_tag.  No guard: a tag that was not pushed stays in the clone. *)
PushRelease(c) ==
  /\ pc[c] = "pushrelease"
  /\ \/ /\ Accepted(made[c]) = made[c]
        /\ remoteTags' = remoteTags \cup made[c]
        /\ \E how \in {"ok", "stranded"} : Leave(c, how)
     \/ Leave(c, "stranded") /\ UNCHANGED remoteTags
  /\ UNCHANGED <<uses, commits, main, cloneVars, counters>>

Step(c) ==
  \/ FetchTags(c) \/ Preflight(c) \/ Plan(c)
  \/ SyncWave(c) \/ TagWave(c) \/ PushMain(c) \/ PushTags(c) \/ Rollback(c)
  \/ Release(c) \/ PushRelease(c)

Next ==
  \/ \E q \in Packages : Edit(q)
  \/ \E c \in Clones : \/ Step(c) \/ Update(c) \/ Crash(c)
                       \/ Begin(c, {}) \/ \E q \in Boards : Begin(c, {q})

Spec == Init /\ [][Next]_vars /\ \A c \in Clones : WF_vars(Step(c))

-----------------------------------------------------------------------------
(* Properties.                                                             *)

(* A tag of the remote names a commit that is on the remote's main: the    *)
(* tags are pushed only once main holds the commits they name.             *)
TagsAreOnMain == \A t \in remoteTags : t.commit \in Ancestors(main)

(* One version of a package is one commit, whatever two clones publish at  *)
(* the same time: push_tags is never forced, and a collision is rejected.  *)
VersionsAreUnique == \A t, u \in remoteTags : Named(t, u) => t = u

(* A package publish that failed, and whose guard could run its two git    *)
(* commands, leaves the clone as it was when it was planned, except for    *)
(* commits main already has and for new files of a failed sync:            *)
(* PublishGuard knows every tag and that there is something to reset from  *)
(* before the first change, so the tags go, and the manifests of a failed  *)
(* or half-committed sync are those of the commit again.                   *)
RolledBack ==
  \A c \in Clones : pc[c] = "idle" /\ exit[c] = "failed" =>
    /\ localTags[c] = fetched[c]
    /\ "modified" \notin litter[c]
    /\ head[c] \in Ancestors(main)

(* What a publish is about to push is consistent: every package that       *)
(* depends on a package it publishes is published too, by a tag whose      *)
(* commit pins at least the new version of the dependency.                 *)
PinsAreFresh ==
  \A c \in Clones : pc[c] \in {"pushmain", "pushtags"} =>
    \A new \in made[c], q \in Packages : new.pkg \in uses[q] =>
      \E t \in made[c] : t.pkg = q /\ commits[t.commit].pins[q][new.pkg] >= new.version

(* The waves always get on: of the packages still to be tagged some depends *)
(* on none of the others, because a cycle is refused before the first wave; *)
(* otherwise a publish would commit and tag a part and never finish.        *)
WavesAdvance ==
  \A c \in Clones : pc[c] \in {"sync", "tag"} => Ready(todo[c]) # {}

(* docs/pages/packages.mdx:385: a package is published when "its content   *)
(* hash differs from the published tag".  A publish that goes on, or that  *)
(* finds nothing to do, has planned every such package.                    *)
ChangedIsPlanned ==
  [][\A c \in Clones : pc[c] = "plan" /\ pc'[c] # "plan" /\ exit'[c] \notin {"refused", "crashed"} =>
       \A t \in PackageTags(c) :
         ContentAt(t.commit, t.pkg) # ContentAt(head[c], t.pkg) => plan'[c][t.pkg] # "none"]_vars
=============================================================================

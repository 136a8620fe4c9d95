---------------------------- MODULE PublishProofs ----------------------------
(***************************************************************************)
(* The safety properties of Publish, for any number of clones, packages,   *)
(* dependency graphs, edits and kills.  IInv adds to them what they rest   *)
(* on: the histories of commits are closed, the guard of a publish knows   *)
(* what it made and whether main has HEAD, a publish tags a package once,  *)
(* and its plan holds every dependent of what it tags.                     *)
(***************************************************************************)
EXTENDS Publish, FiniteSetTheorems, TLAPS

Guarded == {"tag", "sync", "pushmain", "pushtags"}
Guard == Guarded \cup {"rollback"}

(* Finitely many tags, so that there is a latest one.                      *)
FewTags ==
  /\ IsFiniteSet(remoteTags)
  /\ \A c \in Clones : IsFiniteSet(localTags[c]) /\ IsFiniteSet(made[c])

(* A history is closed: it holds the commit and the histories of the       *)
(* commits in it.                                                          *)
HistoryIsClosed ==
  \A n \in 1..Len(commits) :
    /\ n \in Ancestors(n) /\ Ancestors(n) \subseteq 1..Len(commits)
    /\ \A m \in Ancestors(n) : Ancestors(m) \subseteq Ancestors(n)

(* The guard exists from the plan to the pushes; `unpushed` is decided by  *)
(* the step.                                                               *)
GuardIsClear ==
  \A c \in Clones :
    /\ pc[c] \notin Guard \cup {"pushrelease"} => made[c] = {}
    /\ pc[c] \notin Guard \ {"pushtags"} => ~unpushed[c]
    /\ pc[c] = "pushmain" => unpushed[c]

(* Unless the clone holds unpushed commits, main has its HEAD; and it      *)
(* always has the commit the guard goes back to.                           *)
HeadIsPushed ==
  \A c \in Clones :
    /\ pc[c] \in Guard \cup {"plan", "release", "pushrelease"} /\ ~unpushed[c] => head[c] \in Ancestors(main)
    /\ pc[c] \in Guard => initial[c] \in Ancestors(main)

MadeAreOnHead ==
  \A c \in Clones : pc[c] \in Guarded \cup {"pushrelease"} =>
    \A t \in made[c] : t.commit \in Ancestors(head[c])

PushesAreOnMain == HistoryIsClosed /\ GuardIsClear /\ HeadIsPushed /\ MadeAreOnHead /\ TagsAreOnMain

(* A publish makes one tag per package, and none for what is still to do.  *)
MadeOnce ==
  \A c \in Clones :
    /\ \A t, u \in made[c] : t.pkg = u.pkg => t = u
    /\ pc[c] \in {"tag", "sync"} => \A t \in made[c] : t.pkg \notin todo[c]

(* What the guard deletes is what the publish has added.                   *)
GuardKnowsTags ==
  \A c \in Clones : pc[c] \in Guard =>
    localTags[c] = fetched[c] \cup made[c] /\ fetched[c] \cap made[c] = {}

(* Only a failed sync leaves changes behind, and then the guard resets.    *)
CleanTree ==
  \A c \in Clones :
    /\ pc[c] \in Guarded \cup {"plan"} => litter[c] = {}
    /\ pc[c] = "rollback" /\ ~unpushed[c] => litter[c] = {}

(* Dependents of what is planned are planned; what is planned is either    *)
(* tagged or still to do.                                                  *)
PlanIsClosed ==
  \A c \in Clones :
    /\ pc[c] \in Guarded =>
         /\ todo[c] \subseteq Planned(c)
         /\ \A q \in Packages : uses[q] \cap Planned(c) # {} => q \in Planned(c)
         /\ \A t \in made[c] : t.pkg \in Planned(c)
         /\ \A q \in Planned(c) \ todo[c] : \E t \in made[c] : t.pkg = q
    /\ pc[c] \in {"pushmain", "pushtags"} => todo[c] = {}

(* What is to do has a first wave, and so has every part of it.            *)
NothingIsStuck ==
  \A c \in Clones : pc[c] \in {"tag", "sync"} =>
    todo[c] # {} /\ \A T \in SUBSET todo[c] : T # {} => Ready(T) # {}

(* Tagged packages use nothing that is still to do and pin the new         *)
(* versions of what they use; so do the packages of the wave to be tagged. *)
PinsFollow ==
  \A c \in Clones :
    /\ pc[c] \in {"tag", "sync"} => \A t \in made[c] : uses[t.pkg] \cap todo[c] = {}
    /\ pc[c] \in Guarded =>
         \A t, new \in made[c] : new.pkg \in uses[t.pkg] =>
           commits[t.commit].pins[t.pkg][new.pkg] >= new.version
    /\ pc[c] = "tag" =>
         \A q \in Ready(todo[c]), new \in made[c] : new.pkg \in uses[q] =>
           commits[head[c]].pins[q][new.pkg] >= new.version

IInv ==
  /\ TypeOK /\ FewTags /\ PushesAreOnMain
  /\ MadeOnce /\ VersionsAreUnique
  /\ GuardKnowsTags /\ CleanTree /\ RolledBack
  /\ PlanIsClosed /\ NothingIsStuck /\ PinsFollow

LEMMA Assumptions ==
  /\ Boards \subseteq Packages
  /\ Line \in Nat \ {0}
  /\ Initial \in Nat \ {0}
  /\ MaxRuns \in Nat /\ MaxEdits \in Nat /\ MaxCrashes \in Nat
BY PublishAssumption DEF PublishAssumption, Initial

LEMMA NextVersionRises ==
  ASSUME NEW v \in Version \cup {Absent}, NEW bump
  PROVE  NextVersion(v, bump) \in Version /\ NextVersion(v, bump) > v
<1> USE PublishAssumption DEF PublishAssumption, Initial, Absent, Version
<1>1. CASE v = Absent
  BY <1>1 DEF NextVersion
<1>2. Unit(bump) \in Nat \ {0}
  <2>1. Line * Line \in Nat \ {0}
    OBVIOUS
  <2> QED
    BY <2>1 DEF Unit
<1>3. CASE v # Absent
  <2> DEFINE u == Unit(bump)
             k == v \div u
  <2>1. v \in Nat /\ v >= Line
    BY <1>3
  <2>2. u \in Nat \ {0}
    BY <1>2
  <2> HIDE DEF u
  <2>3. k \in Nat /\ v < (k + 1) * u
    BY <2>1, <2>2
  <2>4. (k + 1) * u \in Nat
    BY <2>2, <2>3
  <2>5. NextVersion(v, bump) = (k + 1) * u
    BY <1>3 DEF NextVersion, u
  <2> HIDE DEF k
  <2> QED
    BY <2>1, <2>3, <2>4, <2>5
<1> QED
  BY <1>1, <1>3

(* Among finitely many versions there is a highest one.                    *)
LEMMA HighestExists ==
  ASSUME NEW S \in SUBSET Nat, IsFiniteSet(S), S # {}
  PROVE  Max0(S) \in S /\ \A v \in S : v <= Max0(S)
<1> DEFINE above(v) == {w \in S : v < w}
           sets == {above(v) : v \in S}
<1>1. sets # {} /\ sets \subseteq FiniteSubsetsOf(S)
  <2>1. \A T \in SUBSET S : IsFiniteSet(T)
    BY FS_Subset
  <2> QED
    BY <2>1 DEF FiniteSubsetsOf
<1>2. PICK s \in sets : \A t \in sets : <<t, s>> \notin StrictSubsetOrdering(S)
  <2> HIDE DEF sets
  <2> QED
    BY <1>1, FS_StrictSubsetOrderingWellFounded, WFMin
<1>3. PICK v \in S : s = above(v)
  BY <1>2
<1>4. \A w \in S : w <= v
  <2> SUFFICES ASSUME NEW w \in S, v < w PROVE FALSE
    OBVIOUS
  <2>1. above(w) \subseteq above(v) /\ w \in above(v) /\ w \notin above(w)
    <3>1. \A x, y, z \in S : (x < y /\ y < z => x < z) /\ ~(x < x)
      OBVIOUS
    <3> QED
      BY <3>1
  <2>2. <<above(w), s>> \in StrictSubsetOrdering(S)
    BY <2>1, <1>3 DEF StrictSubsetOrdering
  <2> QED
    BY <2>2, <1>2
<1> QED
  BY <1>4 DEF Max0

(* The versions of finitely many tags are finitely many.                   *)
LEMMA VersionsAreFinite ==
  ASSUME NEW tags, IsFiniteSet(tags)
  PROVE  IsFiniteSet({t.version : t \in tags})
<1> DEFINE versions == {t.version : t \in tags}
           f == [t \in tags |-> t.version]
<1>1. f \in Surjection(tags, versions)
  BY DEF Surjection
<1> QED
  BY <1>1, FS_Surjection

(* The latest version of q is a version, or Absent, and none is newer.     *)
LEMMA LatestBounds ==
  ASSUME NEW tags \in SUBSET Tag, IsFiniteSet(tags), NEW q
  PROVE  /\ LatestOf(tags, q) \in Version \cup {Absent}
         /\ \A t \in tags : t.pkg = q => t.version <= LatestOf(tags, q)
<1> DEFINE mine == {u \in tags : u.pkg = q}
           versions == {t.version : t \in mine}
<1>1. IsFiniteSet(versions)
  <2>1. IsFiniteSet(mine)
    BY FS_Subset
  <2> QED
    BY <2>1, VersionsAreFinite
<1>2. versions \subseteq Version /\ Version \subseteq Nat
  BY DEF Tag, Version
<1>3. LatestOf(tags, q) = Max0(versions)
  BY DEF LatestOf
<1>4. CASE versions = {}
  <2>1. mine = {}
    BY <1>4
  <2> QED
    BY <1>3, <1>4, <2>1 DEF Max0
<1>5. CASE versions # {}
  <2>1. Max0(versions) \in versions /\ \A v \in versions : v <= Max0(versions)
    <3> HIDE DEF versions
    <3> QED
      BY <1>1, <1>2, <1>5, HighestExists
  <2> QED
    BY <1>2, <1>3, <2>1
<1> QED
  BY <1>4, <1>5

(* A commit changes no other commit and has a closed history.              *)
LEMMA CommitAdds ==
  ASSUME TypeOK, HistoryIsClosed, NEW at \in 1..Len(commits), NEW src \in [Packages -> Nat],
         NEW pins \in [Packages -> [Packages -> Nat]], commits' = Committed(at, src, pins)
  PROVE  /\ commits' \in Seq(Commit) /\ Len(commits') = Len(commits) + 1
         /\ \A n \in 1..Len(commits) : commits'[n] = commits[n]
         /\ commits'[Len(commits) + 1].history = Ancestors(at) \cup {Len(commits) + 1}
         /\ commits'[Len(commits) + 1].pins = pins
         /\ HistoryIsClosed'
<1>0. PICK n0 : n0 = Len(commits) + 1
  OBVIOUS
<1> DEFINE new == [history |-> Ancestors(at) \cup {n0}, src |-> src, pins |-> pins]
<1>1. commits \in Seq(Commit) /\ Len(commits) \in Nat
  BY DEF TypeOK
<1>2. new \in Commit
  <2>1. commits[at] \in Commit
    BY <1>1
  <2>2. Ancestors(at) \subseteq Nat \ {0}
    BY <2>1 DEF Ancestors, Commit
  <2>3. n0 \in Nat \ {0}
    BY <1>0, <1>1
  <2> QED
    BY <2>2, <2>3 DEF Commit
<1>3. commits' = Append(commits, new)
  BY <1>0 DEF Committed
<1> HIDE DEF new
<1>4. commits' \in Seq(Commit) /\ Len(commits') = n0
  BY <1>0, <1>1, <1>2, <1>3
<1>5. \A n \in 1..Len(commits) : commits'[n] = commits[n]
  BY <1>1, <1>2, <1>3
<1>6. commits'[n0] = new
  BY <1>0, <1>1, <1>2, <1>3
<1>7. commits'[n0].history = Ancestors(at) \cup {n0} /\ commits'[n0].pins = pins
  BY <1>6 DEF new
<1>8. HistoryIsClosed'
  <2>1. \A n \in 1..Len(commits) : Ancestors(n)' = Ancestors(n)
    BY <1>5 DEF Ancestors
  <2>2. Ancestors(n0)' = Ancestors(at) \cup {n0}
    BY <1>7 DEF Ancestors
  <2>3. 1..Len(commits') = 1..Len(commits) \cup {n0} /\ n0 \notin 1..Len(commits)
    BY <1>0, <1>1, <1>4
  <2>4. ASSUME NEW n \in 1..Len(commits)
        PROVE  /\ n \in Ancestors(n)' /\ Ancestors(n)' \subseteq 1..Len(commits')
               /\ \A m \in Ancestors(n)' : Ancestors(m)' \subseteq Ancestors(n)'
    BY <2>1, <2>3 DEF HistoryIsClosed
  <2>5. /\ n0 \in Ancestors(n0)' /\ Ancestors(n0)' \subseteq 1..Len(commits')
        /\ \A m \in Ancestors(n0)' : Ancestors(m)' \subseteq Ancestors(n0)'
    BY <2>1, <2>2, <2>3 DEF HistoryIsClosed
  <2> QED
    BY <2>3, <2>4, <2>5 DEF HistoryIsClosed
<1> QED
  BY <1>0, <1>4, <1>5, <1>7, <1>8

LEMMA CandidatesAreTags ==
  ASSUME TypeOK, FewTags, NEW c \in Clones, NEW wave \in SUBSET Packages
  PROVE  /\ Candidates(c, wave) \subseteq Tag /\ IsFiniteSet(Candidates(c, wave))
         /\ \A t \in Candidates(c, wave) : t.pkg \in wave /\ t.commit = head[c] /\ t \notin localTags[c]
         /\ \A t, u \in Candidates(c, wave) : t.pkg = u.pkg => t = u
         /\ \A q \in wave : \E t \in Candidates(c, wave) : t.pkg = q
<1> DEFINE next(q) == NextVersion(Latest(c, q), plan[c][q])
           f == [q \in wave |-> [pkg |-> q, version |-> next(q), commit |-> head[c]]]
<1>1. \A q \in Packages : next(q) \in Version /\ next(q) > Latest(c, q)
  BY LatestBounds, NextVersionRises DEF Latest, TypeOK, FewTags
<1>2. \A q \in Packages, t \in localTags[c] : t.pkg = q => t.version # next(q)
  <2> SUFFICES ASSUME NEW q \in Packages, NEW t \in localTags[c], t.pkg = q PROVE t.version # next(q)
    OBVIOUS
  <2>1. t.version <= Latest(c, q) /\ Latest(c, q) \in Version \cup {Absent}
    BY LatestBounds DEF Latest, TypeOK, FewTags
  <2>2. t.version \in Nat /\ Latest(c, q) \in Nat /\ next(q) \in Nat
    BY <1>1, <2>1 DEF TypeOK, Tag, Version, Absent
  <2> HIDE DEF next
  <2> QED
    BY <1>1, <2>1, <2>2
<1>3. head[c] \in Nat \ {0}
  BY DEF TypeOK
<1>4. IsFiniteSet(Candidates(c, wave))
  <2>1. f \in Surjection(wave, Candidates(c, wave))
    BY DEF Surjection, Candidates
  <2>2. IsFiniteSet(wave)
    BY PublishAssumption, FS_Subset DEF PublishAssumption
  <2> HIDE DEF f
  <2> QED
    BY <2>1, <2>2, FS_Surjection
<1> HIDE DEF next, f
<1>5. Candidates(c, wave) = {[pkg |-> q, version |-> next(q), commit |-> head[c]] : q \in wave}
  BY DEF Candidates, next
<1>6. \A q \in wave : next(q) \in Version
  BY <1>1
<1>7. \A t \in Candidates(c, wave) :
        /\ t.pkg \in wave /\ t.commit = head[c] /\ t.version = next(t.pkg)
        /\ t = [pkg |-> t.pkg, version |-> next(t.pkg), commit |-> head[c]]
  BY <1>5
<1>8. Candidates(c, wave) \subseteq Tag
  BY <1>3, <1>6, <1>7 DEF Tag
<1>9. \A t \in Candidates(c, wave) : t \notin localTags[c]
  BY <1>2, <1>7
<1>10. \A t, u \in Candidates(c, wave) : t.pkg = u.pkg => t = u
  BY <1>7
<1>11. ASSUME NEW q \in wave PROVE \E t \in Candidates(c, wave) : t.pkg = q
  <2>1. [pkg |-> q, version |-> next(q), commit |-> head[c]] \in Candidates(c, wave)
    BY <1>5
  <2>2. [pkg |-> q, version |-> next(q), commit |-> head[c]].pkg = q
    OBVIOUS
  <2> QED
    BY <2>1, <2>2
<1> QED
  BY <1>4, <1>7, <1>8, <1>9, <1>10, <1>11

LEMMA OneCommit ==
  ASSUME NEW x \in Commit PROVE Len(<<x>>) = 1 /\ <<x>> \in Seq(Commit) /\ <<x>>[1] = x
OBVIOUS

LEMMA SyncedPinsRise ==
  ASSUME TypeOK, FewTags, NEW c \in Clones, NEW wave \in SUBSET Packages
  PROVE  /\ SyncedPins(c, wave) \in [Packages -> [Packages -> Nat]]
         /\ \A q \in wave, new \in made[c] : new.pkg \in uses[q] =>
              SyncedPins(c, wave)[q][new.pkg] >= new.version
<1>1. commits[head[c]].pins \in [Packages -> [Packages -> Nat]]
  <2>1. commits[head[c]] \in Commit
    BY DEF TypeOK
  <2> QED
    BY <2>1 DEF Commit
<1>2. ASSUME NEW d \in Packages
      PROVE  /\ KnownVersion(c, d) \in Nat
             /\ \A new \in made[c] : new.pkg = d => KnownVersion(c, d) >= new.version
  <2> DEFINE tags == {u \in PackageTags(c) \cup made[c] : u.pkg = d}
             versions == {t.version : t \in tags}
  <2>1. IsFiniteSet(tags) /\ tags \subseteq Tag
    <3>1. PackageTags(c) \subseteq localTags[c]
      BY DEF PackageTags, Merged
    <3>2. IsFiniteSet(localTags[c] \cup made[c])
      BY FS_Union DEF FewTags
    <3> QED
      BY <3>1, <3>2, FS_Subset DEF TypeOK
  <2>2. IsFiniteSet(versions)
    BY <2>1, VersionsAreFinite
  <2>3. versions \subseteq Nat
    BY <2>1 DEF Tag, Version
  <2>4. KnownVersion(c, d) = Max0({Initial} \cup versions)
    BY DEF KnownVersion
  <2>5. \A new \in made[c] : new.pkg = d => new.version \in versions
    OBVIOUS
  <2> HIDE DEF versions
  <2>6. IsFiniteSet({Initial} \cup versions) /\ {Initial} \cup versions \subseteq Nat
    BY <2>2, <2>3, Assumptions, FS_Singleton, FS_Union
  <2> QED
    BY <2>4, <2>5, <2>6, HighestExists
<1>3. ASSUME NEW q \in Packages, NEW d \in Packages
      PROVE  /\ commits[head[c]].pins[q][d] \in Nat
             /\ Max0({commits[head[c]].pins[q][d], KnownVersion(c, d)}) \in Nat
             /\ Max0({commits[head[c]].pins[q][d], KnownVersion(c, d)}) >= KnownVersion(c, d)
  <2> DEFINE old == commits[head[c]].pins[q][d]
  <2>1. old \in Nat
    BY <1>1
  <2> HIDE DEF old
  <2>2. IsFiniteSet({old, KnownVersion(c, d)}) /\ {old, KnownVersion(c, d)} \subseteq Nat
    <3>1. {old, KnownVersion(c, d)} = {old} \cup {KnownVersion(c, d)}
      OBVIOUS
    <3>2. IsFiniteSet({old}) /\ IsFiniteSet({KnownVersion(c, d)})
      BY FS_Singleton
    <3>3. IsFiniteSet({old} \cup {KnownVersion(c, d)})
      BY <3>2, FS_Union
    <3> QED
      BY <1>2, <2>1, <3>1, <3>3
  <2>3. Max0({old, KnownVersion(c, d)}) \in Nat /\ Max0({old, KnownVersion(c, d)}) >= KnownVersion(c, d)
    BY <2>2, HighestExists
  <2> QED
    BY <2>1, <2>3 DEF old
<1>4. SyncedPins(c, wave) \in [Packages -> [Packages -> Nat]]
  BY <1>3 DEF SyncedPins
<1>5. ASSUME NEW q \in wave, NEW new \in made[c], new.pkg \in uses[q]
      PROVE  SyncedPins(c, wave)[q][new.pkg] >= new.version
  <2>1. new.pkg \in Packages /\ q \in Packages /\ new.version \in Nat
    BY DEF TypeOK, Tag, Version
  <2>2. SyncedPins(c, wave)[q][new.pkg]
          = Max0({commits[head[c]].pins[q][new.pkg], KnownVersion(c, new.pkg)})
    BY <1>5, <2>1 DEF SyncedPins
  <2> QED
    BY <1>2, <1>3, <2>1, <2>2
<1> QED
  BY <1>4, <1>5

LEMMA InitInvariant == Init => IInv
<1> SUFFICES ASSUME Init PROVE IInv
  OBVIOUS
<1> USE Assumptions DEF Init
<1> DEFINE pins == [q \in Packages |-> [d \in Packages |-> IF d \in uses[q] THEN Initial ELSE Absent]]
           first == [history |-> {1}, src |-> [q \in Packages |-> 0], pins |-> pins]
           tags == {[pkg |-> q, version |-> Initial, commit |-> 1] : q \in Packages}
<1>1. first \in Commit /\ commits = <<first>>
  <2>1. pins \in [Packages -> [Packages -> Nat]]
    BY DEF Absent
  <2> QED
    BY <2>1 DEF Commit
<1>2. Len(commits) = 1 /\ commits \in Seq(Commit) /\ Ancestors(1) = {1}
  <2> HIDE DEF first
  <2>1. Len(commits) = 1 /\ commits \in Seq(Commit) /\ commits[1] = first
    BY <1>1, OneCommit, Zenon
  <2> QED
    BY <2>1 DEF Ancestors, first
<1>3. tags \subseteq Tag /\ IsFiniteSet(tags)
  <2>1. tags \subseteq Tag
    BY DEF Tag, Version
  <2> DEFINE f == [q \in Packages |-> [pkg |-> q, version |-> Initial, commit |-> 1]]
  <2>2. f \in Surjection(Packages, tags)
    BY DEF Surjection
  <2> HIDE DEF f, tags
  <2> QED
    BY <2>1, <2>2, PublishAssumption, FS_Surjection DEF PublishAssumption
<1>4. remoteTags \in {{}, tags}
  OBVIOUS
<1>5. TypeOK
  <2> HIDE DEF tags, first
  <2>1. commits \in Seq(Commit) /\ 1..Len(commits) = {1}
    BY <1>2
  <2>2. remoteTags \subseteq Tag
    BY <1>3, <1>4
  <2> QED
    BY <2>1, <2>2 DEF TypeOK, NoPlan
<1>6. FewTags
  <2> HIDE DEF tags
  <2> QED
    BY <1>3, <1>4, FS_EmptySet DEF FewTags
<1>7. HistoryIsClosed
  BY <1>2 DEF HistoryIsClosed
<1>8. GuardIsClear /\ HeadIsPushed /\ MadeAreOnHead
  BY DEF GuardIsClear, HeadIsPushed, MadeAreOnHead, Guard, Guarded
<1>9. TagsAreOnMain /\ VersionsAreUnique
  <2>1. \A t \in tags : t.commit = 1 /\ t = [pkg |-> t.pkg, version |-> Initial, commit |-> 1]
    OBVIOUS
  <2>2. TagsAreOnMain
    BY <1>2, <2>1 DEF TagsAreOnMain
  <2>3. VersionsAreUnique
    BY <2>1 DEF VersionsAreUnique, Named
  <2> QED
    BY <2>2, <2>3
<1>10. MadeOnce /\ GuardKnowsTags /\ CleanTree /\ RolledBack /\ PlanIsClosed /\ NothingIsStuck /\ PinsFollow
  BY DEF MadeOnce, GuardKnowsTags, CleanTree, RolledBack, PlanIsClosed, NothingIsStuck, PinsFollow, Guard, Guarded
<1> QED
  BY <1>5, <1>6, <1>7, <1>8, <1>9, <1>10 DEF IInv, PushesAreOnMain

Exits == {"ok", "nothing", "refused", "failed", "unclean", "stranded", "crashed"}

LEMMA LeaveTypes ==
  ASSUME TypeOK, FewTags, NEW c \in Clones, NEW how \in Exits, Leave(c, how)
  PROVE  /\ pc' \in [Clones -> Busy \cup {"idle"}]
         /\ exit' \in [Clones -> {"none"} \cup Exits]
         /\ plan' \in [Clones -> [Packages -> Bumps \cup {"none"}]]
         /\ todo' \in [Clones -> SUBSET Packages]
         /\ initial' \in [Clones -> 1..Len(commits)]
         /\ unpushed' \in [Clones -> BOOLEAN]
         /\ made' \in [Clones -> SUBSET Tag] /\ fetched' \in [Clones -> SUBSET Tag]
         /\ \A d \in Clones : IsFiniteSet(made'[d])
<1>1. 1 \in 1..Len(commits)
  BY DEF TypeOK
<1>2. \A d \in Clones : IsFiniteSet(made'[d])
  BY FS_EmptySet DEF Leave, TypeOK, FewTags
<1> QED
  BY <1>1, <1>2 DEF Leave, Goto, TypeOK, NoPlan, Exits

LEMMA TypeStep ==
  ASSUME TypeOK, FewTags, HistoryIsClosed, Next PROVE TypeOK' /\ FewTags'
<1> DEFINE Goal == TypeOK' /\ FewTags'
<1> USE Assumptions
<1>1. ASSUME NEW q \in Packages, Edit(q) PROVE Goal
  <2>1. commits[main] \in Commit
    BY DEF TypeOK
  <2>2. /\ [commits[main].src EXCEPT ![q] = @ + 1] \in [Packages -> Nat]
        /\ commits[main].pins \in [Packages -> [Packages -> Nat]]
    BY <2>1 DEF Commit
  <2>3. commits' \in Seq(Commit) /\ Len(commits') = Len(commits) + 1
    BY <1>1, <2>2, CommitAdds DEF Edit, TypeOK
  <2>6. Len(commits) \in Nat /\ main' = Len(commits) + 1
    BY <1>1 DEF Edit, TypeOK
  <2>4. main' \in 1..Len(commits') /\ 1..Len(commits) \subseteq 1..Len(commits')
    BY <2>3, <2>6
  <2>7. UNCHANGED <<uses, remoteTags, cloneVars, guardVars, planVars, pc, exit, fetched, runs, crashes>>
        /\ edits' \in 0..MaxEdits
    BY <1>1 DEF Edit, TypeOK
  <2>5. head' \in [Clones -> 1..Len(commits')] /\ initial' \in [Clones -> 1..Len(commits')]
    BY <2>4, <2>7 DEF TypeOK, cloneVars, guardVars
  <2> QED
    BY <2>3, <2>4, <2>5, <2>7 DEF TypeOK, FewTags, cloneVars, guardVars, planVars
<1>2. ASSUME NEW c \in Clones, Update(c) PROVE Goal
  BY <1>2 DEF Update, TypeOK, FewTags, remoteVars, guardVars, planVars, counters
<1>3. ASSUME NEW c \in Clones, Crash(c) PROVE Goal
  <2>1. Leave(c, "crashed") /\ "crashed" \in Exits
    BY <1>3 DEF Crash, Exits
  <2>2. crashes' \in 0..MaxCrashes
    BY <1>3 DEF Crash, TypeOK
  <2> QED
    BY <1>3, <2>1, <2>2, LeaveTypes DEF Crash, TypeOK, FewTags, remoteVars, Exits
<1>4. ASSUME NEW c \in Clones, NEW boards \in SUBSET Boards, Begin(c, boards) PROVE Goal
  <2>1. runs' \in 0..MaxRuns
    BY <1>4 DEF Begin, TypeOK
  <2>2. boards \subseteq Packages
    OBVIOUS
  <2> QED
    BY <1>4, <2>1, <2>2 DEF Begin, TypeOK, FewTags, Goto, Busy, remoteVars, cloneVars, guardVars
<1>5. ASSUME NEW c \in Clones, FetchTags(c) PROVE Goal
  <2> DEFINE kept == {t \in localTags[c] : \A u \in remoteTags : ~Named(t, u)}
  <2>1. IsFiniteSet(remoteTags \cup kept)
    <3>1. IsFiniteSet(kept)
      BY FS_Subset DEF FewTags
    <3> QED
      BY <3>1, FS_Union DEF FewTags
  <2>2. remoteTags \cup kept \subseteq Tag
    BY DEF TypeOK
  <2>3. \A d \in Clones : localTags'[d] = IF d = c THEN remoteTags \cup kept ELSE localTags[d]
    BY <1>5 DEF FetchTags, TypeOK
  <2> QED
    BY <1>5, <2>1, <2>2, <2>3
    DEF FetchTags, TypeOK, FewTags, Goto, Busy, remoteVars, guardVars, planVars, counters
<1>6. ASSUME NEW c \in Clones, Preflight(c) PROVE Goal
  <2>1. CASE Leave(c, "refused")
    BY <1>6, <2>1, LeaveTypes DEF Preflight, TypeOK, FewTags, remoteVars, cloneVars, counters, Exits
  <2>2. CASE ~Leave(c, "refused")
    BY <1>6, <2>2
    DEF Preflight, TypeOK, FewTags, Goto, Busy, remoteVars, cloneVars, guardVars, planVars, counters
  <2> QED
    BY <2>1, <2>2
<1>7. ASSUME NEW c \in Clones, Plan(c) PROVE Goal
  <2> DEFINE changed == Expanded(Dirty(c))
  <2>1. ASSUME NEW how \in Exits, Leave(c, how) PROVE Goal
    <3>1. UNCHANGED <<uses, remoteVars, cloneVars, counters>>
      BY <1>7 DEF Plan
    <3>2. FewTags'
      BY <2>1, <3>1, LeaveTypes DEF FewTags, remoteVars, cloneVars
    <3> QED
      BY <2>1, <3>1, <3>2, LeaveTypes DEF TypeOK, remoteVars, cloneVars, counters, Exits
  <2>2. CASE Leave(c, "refused") \/ Leave(c, "nothing")
    BY <2>1, <2>2 DEF Exits
  <2>3. CASE ~(Leave(c, "refused") \/ Leave(c, "nothing"))
    <3>1. PICK bump \in Choices :
            plan' = [plan EXCEPT ![c] = [q \in Packages |-> IF q \in changed THEN bump[q] ELSE "none"]]
      BY <1>7, <2>3 DEF Plan
    <3>2. bump \in [Packages -> Bumps] /\ changed \subseteq Packages
      BY PublishAssumption DEF PublishAssumption, Expanded
    <3>3. plan' \in [Clones -> [Packages -> Bumps \cup {"none"}]]
      BY <3>1, <3>2 DEF TypeOK
    <3>4. /\ todo' = [todo EXCEPT ![c] = changed] /\ initial' = [initial EXCEPT ![c] = head[c]]
          /\ unpushed' = [unpushed EXCEPT ![c] = FALSE]
          /\ fetched' = [fetched EXCEPT ![c] = localTags[c]]
          /\ pc' = [pc EXCEPT ![c] = "tag"]
          /\ UNCHANGED <<made, exit, uses, remoteVars, cloneVars, counters>>
      BY <1>7, <2>3 DEF Plan, Goto
    <3> HIDE DEF changed
    <3> QED
      BY <3>2, <3>3, <3>4 DEF TypeOK, FewTags, Busy, remoteVars, cloneVars, counters
  <2> QED
    BY <2>2, <2>3
<1>8. ASSUME NEW c \in Clones, SyncWave(c) PROVE Goal
  <2> DEFINE pins == SyncedPins(c, Ready(todo[c]))
  <2>0. UNCHANGED <<uses, main, remoteTags, localTags, made, initial, planVars, exit, fetched, counters>>
    BY <1>8 DEF SyncWave
  <2>1. CASE Goto(c, "tag") /\ UNCHANGED <<commits, head, litter, unpushed>>
    BY <2>0, <2>1 DEF TypeOK, FewTags, Goto, Busy, planVars, counters
  <2>2. CASE /\ unpushed' = [unpushed EXCEPT ![c] = UnpushedAfterFailure(c)]
             /\ \E left \in SUBSET Changes : litter' = [litter EXCEPT ![c] = left]
             /\ Goto(c, "rollback")
             /\ UNCHANGED <<commits, head>>
    BY <2>0, <2>2 DEF TypeOK, FewTags, Goto, Busy, planVars, counters, UnpushedAfterFailure
  <2>3. CASE /\ commits' = Committed(head[c], commits[head[c]].src, pins)
             /\ head' = [head EXCEPT ![c] = Len(commits) + 1]
             /\ \E then \in {"tag", "rollback"} : Goto(c, then)
             /\ unpushed' = [unpushed EXCEPT ![c] = TRUE]
             /\ UNCHANGED litter
    <3>1. /\ commits' = Committed(head[c], commits[head[c]].src, pins)
          /\ head' = [head EXCEPT ![c] = Len(commits) + 1]
          /\ unpushed' = [unpushed EXCEPT ![c] = TRUE]
          /\ \E then \in {"tag", "rollback"} : pc' = [pc EXCEPT ![c] = then]
          /\ UNCHANGED <<litter, uses, main, remoteTags, localTags, made, initial, planVars, exit, fetched,
                         counters>>
      BY <2>0, <2>3 DEF Goto
    <3>2. commits[head[c]] \in Commit /\ head[c] \in 1..Len(commits)
      BY DEF TypeOK
    <3>3. pins \in [Packages -> [Packages -> Nat]] /\ commits[head[c]].src \in [Packages -> Nat]
      <4>1. Ready(todo[c]) \in SUBSET Packages
        BY DEF Ready, TypeOK
      <4> QED
        BY <3>2, <4>1, SyncedPinsRise DEF Commit
    <3>4. commits' \in Seq(Commit) /\ Len(commits') = Len(commits) + 1
      BY <3>1, <3>2, <3>3, CommitAdds
    <3>5. 1..Len(commits) \subseteq 1..Len(commits') /\ Len(commits) + 1 \in 1..Len(commits')
      BY <3>4 DEF TypeOK
    <3>6. head' \in [Clones -> 1..Len(commits')] /\ initial' \in [Clones -> 1..Len(commits')]
          /\ main' \in 1..Len(commits')
      BY <3>1, <3>5 DEF TypeOK
    <3> HIDE DEF pins
    <3> QED
      BY <3>1, <3>4, <3>6 DEF TypeOK, FewTags, Busy, planVars, counters
  <2> QED
    BY <1>8, <2>1, <2>2, <2>3 DEF SyncWave, UnpushedAfterFailure
<1>9. ASSUME NEW c \in Clones, TagWave(c) PROVE Goal
  <2>1. Ready(todo[c]) \subseteq Packages
    BY DEF Ready, TypeOK
  <2>2. PICK new \in SUBSET Candidates(c, Ready(todo[c])) :
          /\ localTags' = [localTags EXCEPT ![c] = @ \cup new]
          /\ made' = [made EXCEPT ![c] = @ \cup new]
          /\ IF new = Candidates(c, Ready(todo[c]))
             THEN /\ todo' = [todo EXCEPT ![c] = @ \ Ready(todo[c])]
                  /\ Goto(c, IF todo[c] = Ready(todo[c]) THEN FirstPush(c) ELSE "sync")
             ELSE Goto(c, "rollback") /\ UNCHANGED todo
    BY <1>9 DEF TagWave
  <2>3. new \subseteq Tag /\ IsFiniteSet(new)
    BY <2>1, CandidatesAreTags, FS_Subset
  <2>4. IsFiniteSet(localTags[c] \cup new) /\ IsFiniteSet(made[c] \cup new)
    BY <2>3, FS_Union DEF FewTags
  <2>5. todo' \in [Clones -> SUBSET Packages] /\ pc' \in [Clones -> Busy \cup {"idle"}]
    <3>1. /\ todo' = [todo EXCEPT ![c] = @ \ Ready(todo[c])] \/ todo' = todo
          /\ \E step \in {"pushmain", "pushtags", "sync", "rollback"} : pc' = [pc EXCEPT ![c] = step]
      <4>1. \/ todo' = [todo EXCEPT ![c] = @ \ Ready(todo[c])] /\ Goto(c, "sync")
            \/ todo' = [todo EXCEPT ![c] = @ \ Ready(todo[c])] /\ Goto(c, FirstPush(c))
            \/ todo' = todo /\ Goto(c, "rollback")
        BY <2>2
      <4>2. FirstPush(c) \in {"pushmain", "pushtags"}
        BY DEF FirstPush
      <4> QED
        BY <4>1, <4>2 DEF Goto
    <3>2. todo \in [Clones -> SUBSET Packages] /\ todo[c] \ Ready(todo[c]) \in SUBSET Packages
      BY DEF TypeOK
    <3>3. todo' \in [Clones -> SUBSET Packages]
      BY <3>1, <3>2
    <3>4. pc' \in [Clones -> Busy \cup {"idle"}]
      BY <3>1 DEF TypeOK, Busy
    <3> QED
      BY <3>3, <3>4
  <2>6. \A d \in Clones :
          /\ localTags'[d] = IF d = c THEN localTags[d] \cup new ELSE localTags[d]
          /\ made'[d] = IF d = c THEN made[d] \cup new ELSE made[d]
    <3>1. localTags' = [localTags EXCEPT ![c] = @ \cup new] /\ made' = [made EXCEPT ![c] = @ \cup new]
      BY <2>2
    <3> QED
      BY <3>1 DEF TypeOK
  <2>9. localTags' \in [Clones -> SUBSET Tag] /\ made' \in [Clones -> SUBSET Tag]
    BY <2>2, <2>3 DEF TypeOK
  <2>7. UNCHANGED <<uses, remoteVars, head, litter, initial, unpushed, plan, exit, fetched, counters>>
    BY <1>9 DEF TagWave
  <2>8. FewTags'
    BY <2>3, <2>4, <2>6, <2>7 DEF FewTags, remoteVars
  <2> QED
    BY <2>5, <2>7, <2>8, <2>9 DEF TypeOK, remoteVars, counters
<1>10. ASSUME NEW c \in Clones, PushMain(c) PROVE Goal
  <2>1. UNCHANGED <<uses, commits, remoteTags, cloneVars, made, initial, planVars, exit, fetched, counters>>
    BY <1>10 DEF PushMain
  <2>2. /\ main' \in {main, head[c]}
        /\ unpushed' = unpushed \/ unpushed' = [unpushed EXCEPT ![c] = FALSE]
        /\ \E step \in {"pushtags", "rollback"} : pc' = [pc EXCEPT ![c] = step]
    BY <1>10 DEF PushMain, Goto
  <2>3. main' \in 1..Len(commits)
    <3>1. head[c] \in 1..Len(commits) /\ main \in 1..Len(commits)
      BY DEF TypeOK
    <3> QED
      BY <2>2, <3>1
  <2>4. unpushed' \in [Clones -> BOOLEAN]
    BY <2>2, ZenonT(60) DEF TypeOK
  <2>5. pc' \in [Clones -> Busy \cup {"idle"}]
    BY <2>2, SMTT(30) DEF TypeOK, Busy
  <2> QED
    BY <2>1, <2>3, <2>4, <2>5 DEF TypeOK, FewTags, cloneVars, planVars, counters
<1>11. ASSUME NEW c \in Clones, PushTags(c) PROVE Goal
  <2>1. PICK taken \in SUBSET made[c] : remoteTags' = remoteTags \cup taken
    BY <1>11 DEF PushTags, Accepted
  <2>2. remoteTags' \subseteq Tag /\ IsFiniteSet(remoteTags')
    BY <2>1, FS_Subset, FS_Union DEF TypeOK, FewTags
  <2>3. CASE Leave(c, "ok")
    BY <1>11, <2>2, <2>3, LeaveTypes DEF PushTags, TypeOK, FewTags, cloneVars, counters, Exits
  <2>4. CASE ~Leave(c, "ok")
    BY <1>11, <2>2, <2>4
    DEF PushTags, TypeOK, FewTags, Goto, Busy, cloneVars, planVars, guardVars, counters
  <2> QED
    BY <2>3, <2>4
<1>12. ASSUME NEW c \in Clones, Rollback(c) PROVE Goal
  <2>1. PICK how \in {"failed", "unclean"} : Leave(c, how)
    BY <1>12 DEF Rollback
  <2>2. localTags' \in [Clones -> SUBSET Tag] /\ \A d \in Clones : IsFiniteSet(localTags'[d])
    <3>1. PICK gone : localTags' = [localTags EXCEPT ![c] = @ \ gone]
      BY <1>12 DEF Rollback
    <3>2. localTags[c] \ gone \subseteq localTags[c]
      OBVIOUS
    <3>3. IsFiniteSet(localTags[c] \ gone)
      BY <3>2, FS_Subset DEF FewTags
    <3> QED
      BY <3>1, <3>2, <3>3 DEF TypeOK, FewTags
  <2>3. head' \in [Clones -> 1..Len(commits)] /\ litter' \in [Clones -> SUBSET Changes]
    <3>1. /\ head' = head \/ head' = [head EXCEPT ![c] = initial[c]]
          /\ litter' = litter \/ litter' = [litter EXCEPT ![c] = @ \ {"modified"}]
      BY <1>12 DEF Rollback
    <3>2. litter[c] \ {"modified"} \in SUBSET Changes /\ initial[c] \in 1..Len(commits)
      BY DEF TypeOK
    <3>3. head' \in [Clones -> 1..Len(commits)]
      BY <3>1, <3>2 DEF TypeOK
    <3>4. litter' \in [Clones -> SUBSET Changes]
      BY <3>1, <3>2 DEF TypeOK
    <3> QED
      BY <3>3, <3>4
  <2> QED
    BY <1>12, <2>1, <2>2, <2>3, LeaveTypes DEF Rollback, TypeOK, FewTags, remoteVars, counters, Exits
<1>13. ASSUME NEW c \in Clones, Release(c) PROVE Goal
  <2>1. CASE Leave(c, "refused") /\ UNCHANGED localTags
    BY <1>13, <2>1, LeaveTypes DEF Release, TypeOK, FewTags, remoteVars, counters, Exits
  <2>2. CASE ~(Leave(c, "refused") /\ UNCHANGED localTags)
    <3>1. PICK q \in todo[c], bump \in Choices :
            LET t == [pkg |-> q, version |-> NextVersion(Latest(c, q), bump[q]), commit |-> head[c]] IN
            /\ localTags' = [localTags EXCEPT ![c] = @ \cup {t}]
            /\ made' = [made EXCEPT ![c] = {t}]
      BY <1>13, <2>2 DEF Release
    <3> DEFINE t == [pkg |-> q, version |-> NextVersion(Latest(c, q), bump[q]), commit |-> head[c]]
    <3>2. t \in Tag
      <4>1. NextVersion(Latest(c, q), bump[q]) \in Version
        BY LatestBounds, NextVersionRises DEF Latest, TypeOK, FewTags
      <4> QED
        BY <4>1 DEF TypeOK, Tag
    <3>3. localTags' = [localTags EXCEPT ![c] = @ \cup {t}] /\ made' = [made EXCEPT ![c] = {t}]
      BY <3>1
    <3> HIDE DEF t
    <3>4. IsFiniteSet({t}) /\ IsFiniteSet(localTags[c] \cup {t})
      BY FS_Singleton, FS_AddElement DEF FewTags
    <3>5. /\ localTags' \in [Clones -> SUBSET Tag] /\ made' \in [Clones -> SUBSET Tag]
          /\ \A d \in Clones : IsFiniteSet(localTags'[d]) /\ IsFiniteSet(made'[d])
      BY <3>2, <3>3, <3>4 DEF TypeOK, FewTags
    <3> QED
      BY <1>13, <2>2, <3>5 DEF Release, TypeOK, FewTags, Goto, Busy, remoteVars, planVars, counters
  <2> QED
    BY <2>1, <2>2
<1>14. ASSUME NEW c \in Clones, PushRelease(c) PROVE Goal
  <2>1. PICK taken \in SUBSET made[c] : remoteTags' = remoteTags \cup taken
    <3>1. remoteTags' = remoteTags \cup made[c] \/ remoteTags' = remoteTags \cup {}
      BY <1>14 DEF PushRelease
    <3> QED
      BY <3>1
  <2>2. remoteTags' \subseteq Tag /\ IsFiniteSet(remoteTags')
    BY <2>1, FS_Subset, FS_Union DEF TypeOK, FewTags
  <2>3. PICK how \in Exits : Leave(c, how)
    BY <1>14 DEF PushRelease, Exits
  <2> QED
    BY <1>14, <2>2, <2>3, LeaveTypes DEF PushRelease, TypeOK, FewTags, cloneVars, counters, Exits
<1> HIDE DEF Goal
<1>15. ASSUME NEW q \in Boards PROVE {q} \in SUBSET Boards /\ {} \in SUBSET Boards
  OBVIOUS
<1>16. {} \in SUBSET Boards
  OBVIOUS
<1>17. Goal
  BY <1>1, <1>2, <1>3, <1>4, <1>5, <1>6, <1>7, <1>8, <1>9, <1>10, <1>11, <1>12, <1>13, <1>14, <1>15, <1>16
  DEF Next, Step
<1> QED
  BY <1>17 DEF Goal

(* Commits stay as they are, and main only gains commits.                  *)
LEMMA HistoryStep ==
  ASSUME TypeOK, FewTags, HistoryIsClosed, Next
  PROVE  /\ HistoryIsClosed'
         /\ \A n \in 1..Len(commits) : Ancestors(n)' = Ancestors(n) /\ commits'[n] = commits[n]
         /\ Ancestors(main) \subseteq Ancestors(main)'
<1> DEFINE Kept == \A n \in 1..Len(commits) : Ancestors(n)' = Ancestors(n) /\ commits'[n] = commits[n]
           Goal == HistoryIsClosed' /\ Kept /\ Ancestors(main) \subseteq Ancestors(main)'
<1>0. main \in 1..Len(commits) /\ \A c \in Clones : head[c] \in 1..Len(commits)
  BY DEF TypeOK
<1>1. ASSUME NEW q \in Packages, Edit(q) PROVE Goal
  <2>1. commits[main] \in Commit
    BY <1>0 DEF TypeOK
  <2>2. /\ [commits[main].src EXCEPT ![q] = @ + 1] \in [Packages -> Nat]
        /\ commits[main].pins \in [Packages -> [Packages -> Nat]]
    BY <2>1 DEF Commit
  <2>3. /\ HistoryIsClosed' /\ \A n \in 1..Len(commits) : commits'[n] = commits[n]
        /\ commits'[Len(commits) + 1].history = Ancestors(main) \cup {Len(commits) + 1}
    BY <1>0, <1>1, <2>2, CommitAdds DEF Edit
  <2>4. Kept
    BY <2>3 DEF Ancestors
  <2>5. Ancestors(main)' = Ancestors(main) \cup {Len(commits) + 1}
    BY <1>1, <2>3 DEF Edit, Ancestors
  <2> QED
    BY <2>3, <2>4, <2>5
<1>2. ASSUME NEW c \in Clones, SyncWave(c) PROVE Goal
  <2>1. UNCHANGED main
    BY <1>2 DEF SyncWave
  <2>2. CASE UNCHANGED commits
    BY <2>1, <2>2 DEF HistoryIsClosed, Ancestors
  <2>3. CASE ~UNCHANGED commits
    <3>1. commits' = Committed(head[c], commits[head[c]].src, SyncedPins(c, Ready(todo[c])))
      BY <1>2, <2>3 DEF SyncWave
    <3>2. Ready(todo[c]) \in SUBSET Packages /\ commits[head[c]] \in Commit
      BY <1>0 DEF Ready, TypeOK
    <3>3. /\ SyncedPins(c, Ready(todo[c])) \in [Packages -> [Packages -> Nat]]
          /\ commits[head[c]].src \in [Packages -> Nat]
      BY <3>2, SyncedPinsRise DEF Commit
    <3>4. HistoryIsClosed' /\ \A n \in 1..Len(commits) : commits'[n] = commits[n]
      BY <1>0, <3>1, <3>3, CommitAdds
    <3>5. Kept
      BY <3>4 DEF Ancestors
    <3> QED
      BY <1>0, <2>1, <3>4, <3>5
  <2> QED
    BY <2>2, <2>3
<1>3. ASSUME NEW c \in Clones, PushMain(c) PROVE Goal
  <2>0. UNCHANGED commits
    BY <1>3 DEF PushMain
  <2>1. UNCHANGED commits /\ (main' = main \/ (main' = head[c] /\ main \in Ancestors(head[c])))
    BY <1>3, <2>0 DEF PushMain
  <2>2. HistoryIsClosed' /\ Kept
    BY <2>1 DEF HistoryIsClosed, Ancestors
  <2>3. main \in Ancestors(head[c]) => Ancestors(main) \subseteq Ancestors(head[c])
    BY <1>0 DEF HistoryIsClosed
  <2>4. \A n \in 1..Len(commits) : main' = n => Ancestors(main)' = Ancestors(n)
    BY <2>1 DEF Ancestors
  <2> QED
    BY <1>0, <2>1, <2>2, <2>3, <2>4
<1>4. ASSUME UNCHANGED <<commits, main>> PROVE Goal
  BY <1>4 DEF HistoryIsClosed, Ancestors
<1>5. \/ \E q \in Packages : Edit(q)
      \/ \E c \in Clones : SyncWave(c) \/ PushMain(c)
      \/ UNCHANGED <<commits, main>>
  <2>1. ASSUME NEW c \in Clones, Update(c) \/ Crash(c) \/ \E bs \in {{}} \cup {{q} : q \in Boards} : Begin(c, bs)
        PROVE  UNCHANGED <<commits, main>>
    BY <2>1 DEF Update, Crash, Begin, remoteVars
  <2>2. ASSUME NEW c \in Clones, FetchTags(c) \/ Preflight(c) \/ Plan(c) \/ TagWave(c) \/ PushTags(c)
        PROVE  UNCHANGED <<commits, main>>
    BY <2>2 DEF FetchTags, Preflight, Plan, TagWave, PushTags, remoteVars
  <2>3. ASSUME NEW c \in Clones, Rollback(c) \/ Release(c) \/ PushRelease(c)
        PROVE  UNCHANGED <<commits, main>>
    BY <2>3 DEF Rollback, Release, PushRelease, remoteVars
  <2> QED
    BY <2>1, <2>2, <2>3 DEF Next, Step
<1> HIDE DEF Goal
<1>6. Goal
  BY <1>1, <1>2, <1>3, <1>4, <1>5
<1> QED
  BY <1>6 DEF Goal

LEMMA GuardStep ==
  ASSUME TypeOK, GuardIsClear, Next PROVE GuardIsClear'
<1> USE DEF GuardIsClear, Guard, Guarded, TypeOK, Goto
<1>1. ASSUME NEW c \in Clones, NEW how, Leave(c, how) PROVE GuardIsClear'
  BY <1>1 DEF Leave
<1>2. ASSUME UNCHANGED <<pc, guardVars>> PROVE GuardIsClear'
  BY <1>2 DEF guardVars
<1>3. ASSUME NEW c \in Clones, NEW bs, Begin(c, bs) PROVE GuardIsClear'
  BY <1>3 DEF Begin, guardVars
<1>4. ASSUME NEW c \in Clones, FetchTags(c) PROVE GuardIsClear'
  BY <1>4 DEF FetchTags, guardVars
<1>5. ASSUME NEW c \in Clones, Preflight(c) PROVE GuardIsClear'
  BY <1>1, <1>5 DEF Preflight, guardVars
<1>6. ASSUME NEW c \in Clones, Plan(c) PROVE GuardIsClear'
  <2>1. CASE Leave(c, "refused") \/ Leave(c, "nothing")
    BY <1>1, <2>1
  <2>2. CASE /\ pc' = [pc EXCEPT ![c] = "tag"] /\ unpushed' = [unpushed EXCEPT ![c] = FALSE]
             /\ UNCHANGED made
    BY <2>2
  <2> QED
    BY <1>6, <2>1, <2>2 DEF Plan
<1>7. ASSUME NEW c \in Clones, SyncWave(c) PROVE GuardIsClear'
  <2>1. UNCHANGED made /\ pc[c] = "sync"
    BY <1>7 DEF SyncWave
  <2>2. \/ pc' = [pc EXCEPT ![c] = "tag"] /\ (UNCHANGED unpushed \/ unpushed' = [unpushed EXCEPT ![c] = TRUE])
        \/ pc' = [pc EXCEPT ![c] = "rollback"] /\ unpushed' = [unpushed EXCEPT ![c] = TRUE]
    BY <1>7 DEF SyncWave, UnpushedAfterFailure
  <2> QED
    BY <2>1, <2>2, ZenonT(60)
<1>8. ASSUME NEW c \in Clones, TagWave(c) PROVE GuardIsClear'
  <2>1. pc[c] = "tag" /\ UNCHANGED unpushed
    BY <1>8 DEF TagWave
  <2>2. \E new : made' = [made EXCEPT ![c] = @ \cup new]
    BY <1>8 DEF TagWave
  <2>3. \/ pc' = [pc EXCEPT ![c] = "sync"] \/ pc' = [pc EXCEPT ![c] = "rollback"]
        \/ pc' = [pc EXCEPT ![c] = IF unpushed[c] THEN "pushmain" ELSE "pushtags"]
    BY <1>8 DEF TagWave, FirstPush
  <2> QED
    BY <2>1, <2>2, <2>3
<1>9. ASSUME NEW c \in Clones, PushMain(c) PROVE GuardIsClear'
  <2>1. pc[c] = "pushmain" /\ UNCHANGED made
    BY <1>9 DEF PushMain
  <2>2. \/ pc' = [pc EXCEPT ![c] = "pushtags"] /\ unpushed' = [unpushed EXCEPT ![c] = FALSE]
        \/ pc' = [pc EXCEPT ![c] = "rollback"] /\ UNCHANGED unpushed
    BY <1>9 DEF PushMain
  <2> QED
    BY <2>1, <2>2
<1>10. ASSUME NEW c \in Clones, PushTags(c) PROVE GuardIsClear'
  <2>1. CASE pc[c] = "pushtags" /\ pc' = [pc EXCEPT ![c] = "rollback"] /\ UNCHANGED guardVars
    BY <2>1 DEF guardVars
  <2> QED
    BY <1>1, <1>10, <2>1 DEF PushTags
<1>11. ASSUME NEW c \in Clones, Rollback(c) \/ Crash(c) \/ PushRelease(c) PROVE GuardIsClear'
  BY <1>1, <1>11 DEF Rollback, Crash, PushRelease
<1>12. ASSUME NEW c \in Clones, Release(c) PROVE GuardIsClear'
  <2>1. CASE Leave(c, "refused")
    BY <1>1, <2>1
  <2>2. CASE /\ pc[c] = "release" /\ pc' = [pc EXCEPT ![c] = "pushrelease"]
             /\ \E new : made' = [made EXCEPT ![c] = new]
             /\ UNCHANGED unpushed
    BY <2>2
  <2> QED
    BY <1>12, <2>1, <2>2 DEF Release
<1>13. ASSUME NEW q \in Packages, Edit(q) PROVE GuardIsClear'
  BY <1>2, <1>13 DEF Edit
<1>14. ASSUME NEW c \in Clones, Update(c) PROVE GuardIsClear'
  BY <1>2, <1>14 DEF Update
<1> QED
  BY <1>3, <1>4, <1>5, <1>6, <1>7, <1>8, <1>9, <1>10, <1>11, <1>12, <1>13, <1>14, Zenon DEF Next, Step

(* HeadIsPushed and MadeAreOnHead for one clone.                           *)
HeadFits(c) ==
  /\ pc[c] \in Guard \cup {"plan", "release", "pushrelease"} /\ ~unpushed[c] => head[c] \in Ancestors(main)
  /\ pc[c] \in Guard => initial[c] \in Ancestors(main)
  /\ pc[c] \in Guarded \cup {"pushrelease"} => \A t \in made[c] : t.commit \in Ancestors(head[c])

LEMMA HeadStep ==
  ASSUME TypeOK, FewTags, PushesAreOnMain, Next PROVE HeadIsPushed' /\ MadeAreOnHead'
<1> DEFINE Goal == \A d \in Clones : HeadFits(d)'
<1>a. \A d \in Clones : HeadFits(d)
  BY DEF PushesAreOnMain, HeadFits, HeadIsPushed, MadeAreOnHead
<1>b. /\ \A n \in 1..Len(commits) : commits'[n].history = commits[n].history
      /\ commits[main].history \subseteq commits'[main'].history
  BY HistoryStep DEF PushesAreOnMain, Ancestors
<1>c. /\ main \in 1..Len(commits) /\ \A d \in Clones : head[d] \in 1..Len(commits)
      /\ \A n \in 1..Len(commits) : n \in commits[n].history
      /\ GuardIsClear
  BY DEF TypeOK, PushesAreOnMain, HistoryIsClosed, Ancestors
<1>d. ASSUME NEW d \in Clones, pc'[d] = pc[d], unpushed'[d] = unpushed[d], head'[d] = head[d],
             initial'[d] = initial[d], made'[d] = made[d]
      PROVE  HeadFits(d)'
  BY <1>a, <1>b, <1>c, <1>d DEF HeadFits, Ancestors
<1> USE DEF TypeOK, Goto, Guard, Guarded
<1>1. ASSUME NEW c \in Clones, NEW how, Leave(c, how), \A d \in Clones \ {c} : head'[d] = head[d] PROVE Goal
  <2>1. HeadFits(c)'
    BY <1>1 DEF Leave, HeadFits
  <2>2. ASSUME NEW d \in Clones, d # c PROVE HeadFits(d)'
    <3>1. pc'[d] = pc[d] /\ unpushed'[d] = unpushed[d] /\ head'[d] = head[d] /\ initial'[d] = initial[d]
          /\ made'[d] = made[d]
      BY <1>1, <2>2 DEF Leave
    <3> QED
      BY <1>d, <3>1
  <2> QED
    BY <2>1, <2>2
<1>2. ASSUME UNCHANGED <<pc, guardVars, head>> PROVE Goal
  BY <1>d, <1>2 DEF guardVars
<1>3. ASSUME NEW c \in Clones, UNCHANGED <<guardVars, head>>, pc'[c] \in {"fetch", "preflight"},
             \A d \in Clones \ {c} : pc'[d] = pc[d]
      PROVE  Goal
  <2>1. HeadFits(c)'
    BY <1>3 DEF HeadFits
  <2> QED
    BY <1>d, <1>3, <2>1 DEF guardVars
<1>4. ASSUME NEW c \in Clones, Begin(c, {}) \/ \E q \in Boards : Begin(c, {q}) PROVE Goal
  BY <1>3, <1>4 DEF Begin, cloneVars
<1>5. ASSUME NEW c \in Clones, FetchTags(c) PROVE Goal
  BY <1>3, <1>5 DEF FetchTags
<1>6. ASSUME NEW c \in Clones, Preflight(c) PROVE Goal
  <2>1. CASE Leave(c, "refused")
    BY <1>1, <1>6, <2>1 DEF Preflight, cloneVars
  <2>2. CASE ~Leave(c, "refused")
    <3>1. /\ head[c] = main /\ UNCHANGED <<guardVars, head, main, commits>>
          /\ pc' = [pc EXCEPT ![c] = IF todo[c] = {} THEN "plan" ELSE "release"]
      BY <1>6, <2>2 DEF Preflight, cloneVars, remoteVars
    <3>2. HeadFits(c)'
      BY <1>c, <3>1 DEF HeadFits, Ancestors, guardVars
    <3> QED
      BY <1>d, <3>1, <3>2 DEF guardVars
  <2> QED
    BY <2>1, <2>2
<1>7. ASSUME NEW c \in Clones, Plan(c) PROVE Goal
  <2>1. UNCHANGED <<head, main, commits>> /\ pc[c] = "plan"
    BY <1>7 DEF Plan, cloneVars, remoteVars
  <2>2. CASE Leave(c, "refused") \/ Leave(c, "nothing")
    BY <1>1, <2>1, <2>2
  <2>3. CASE ~(Leave(c, "refused") \/ Leave(c, "nothing"))
    <3>1. /\ pc' = [pc EXCEPT ![c] = "tag"] /\ initial' = [initial EXCEPT ![c] = head[c]]
          /\ unpushed' = [unpushed EXCEPT ![c] = FALSE] /\ UNCHANGED made
      BY <1>7, <2>3 DEF Plan
    <3>2. head[c] \in Ancestors(main) /\ made[c] = {}
      BY <1>a, <1>c, <2>1 DEF HeadFits, GuardIsClear
    <3>3. HeadFits(c)'
      BY <2>1, <3>1, <3>2 DEF HeadFits, Ancestors
    <3> QED
      BY <1>d, <2>1, <3>1, <3>3
  <2> QED
    BY <2>2, <2>3
<1>8. ASSUME NEW c \in Clones, SyncWave(c) PROVE Goal
  <2>1. UNCHANGED <<main, made, initial>> /\ pc[c] = "sync"
    BY <1>8 DEF SyncWave
  <2>2. \A d \in Clones \ {c} : pc'[d] = pc[d] /\ unpushed'[d] = unpushed[d] /\ head'[d] = head[d]
    BY <1>8 DEF SyncWave
  <2>3. CASE UNCHANGED <<head, commits>>
    <3>1. (unpushed'[c] = unpushed[c] \/ unpushed'[c]) /\ pc'[c] \in {"tag", "rollback"}
      BY <1>8, <2>3 DEF SyncWave, UnpushedAfterFailure
    <3>2. HeadFits(c)'
      BY <1>a, <2>1, <2>3, <3>1 DEF HeadFits, Ancestors
    <3> QED
      BY <1>d, <2>1, <2>2, <3>2
  <2>4. CASE ~UNCHANGED <<head, commits>>
    <3>1. /\ commits' = Committed(head[c], commits[head[c]].src, SyncedPins(c, Ready(todo[c])))
          /\ head'[c] = Len(commits) + 1 /\ unpushed'[c] /\ pc'[c] \in {"tag", "rollback"}
      BY <1>8, <2>4 DEF SyncWave, UnpushedAfterFailure
    <3>2. commits[head[c]].history \subseteq commits'[head'[c]].history
      <4>1. Ready(todo[c]) \in SUBSET Packages /\ commits[head[c]] \in Commit
        BY DEF Ready
      <4>2. SyncedPins(c, Ready(todo[c])) \in [Packages -> [Packages -> Nat]]
            /\ commits[head[c]].src \in [Packages -> Nat]
        BY <4>1, SyncedPinsRise DEF Commit
      <4>3. HistoryIsClosed /\ head[c] \in 1..Len(commits)
        BY <1>c DEF PushesAreOnMain
      <4>4. commits'[Len(commits) + 1].history = Ancestors(head[c]) \cup {Len(commits) + 1}
        BY <3>1, <4>2, <4>3, CommitAdds
      <4> QED
        BY <3>1, <4>4 DEF Ancestors
    <3>3. HeadFits(c)'
      BY <1>a, <1>b, <2>1, <3>1, <3>2 DEF HeadFits, Ancestors
    <3> QED
      BY <1>d, <2>1, <2>2, <3>3
  <2> QED
    BY <2>3, <2>4
<1>9. ASSUME NEW c \in Clones, TagWave(c) PROVE Goal
  <2>1. UNCHANGED <<head, main, commits, initial, unpushed>> /\ pc[c] = "tag"
    BY <1>9 DEF TagWave, remoteVars
  <2>2. pc'[c] \in {"sync", "rollback", "pushmain", "pushtags"} /\ \A d \in Clones \ {c} : pc'[d] = pc[d]
    BY <1>9 DEF TagWave, FirstPush
  <2>3. PICK new \in SUBSET Candidates(c, Ready(todo[c])) : made' = [made EXCEPT ![c] = @ \cup new]
    BY <1>9 DEF TagWave
  <2>4. \A t \in new : t.commit = head[c]
    BY DEF Candidates
  <2>5. made'[c] = made[c] \cup new /\ \A d \in Clones \ {c} : made'[d] = made[d]
    BY <2>3
  <2>6. HeadFits(c)'
    BY <1>a, <1>c, <2>1, <2>2, <2>4, <2>5 DEF HeadFits, Ancestors
  <2> QED
    BY <1>d, <2>1, <2>2, <2>5, <2>6
<1>10. ASSUME NEW c \in Clones, PushMain(c) PROVE Goal
  <2>1. UNCHANGED <<head, commits, initial, made>> /\ pc[c] = "pushmain" /\ unpushed[c]
    BY <1>10, <1>c DEF PushMain, cloneVars, GuardIsClear
  <2>2. \A d \in Clones \ {c} : pc'[d] = pc[d] /\ unpushed'[d] = unpushed[d]
    BY <1>10 DEF PushMain
  <2>3. \/ pc'[c] = "pushtags" /\ main' = head[c]
        \/ pc'[c] = "rollback" /\ unpushed'[c] = unpushed[c]
    BY <1>10 DEF PushMain
  <2>4. HeadFits(c)'
    BY <1>a, <1>b, <1>c, <2>1, <2>3 DEF HeadFits, Ancestors
  <2> QED
    BY <1>d, <2>1, <2>2, <2>4
<1>11. ASSUME NEW c \in Clones, PushTags(c) PROVE Goal
  <2>1. UNCHANGED <<head, commits, main>> /\ pc[c] = "pushtags"
    BY <1>11 DEF PushTags, cloneVars
  <2>2. CASE Leave(c, "ok")
    BY <1>1, <2>1, <2>2
  <2>3. CASE ~Leave(c, "ok")
    <3>1. pc' = [pc EXCEPT ![c] = "rollback"] /\ UNCHANGED guardVars
      BY <1>11, <2>3 DEF PushTags
    <3>2. HeadFits(c)'
      BY <1>a, <2>1, <3>1 DEF HeadFits, Ancestors, guardVars
    <3> QED
      BY <1>d, <2>1, <3>1, <3>2 DEF guardVars
  <2> QED
    BY <2>2, <2>3
<1>12. ASSUME NEW c \in Clones, Rollback(c) \/ Crash(c) \/ PushRelease(c) PROVE Goal
  <2>1. \A d \in Clones \ {c} : head'[d] = head[d]
    BY <1>12 DEF Rollback, Crash, PushRelease, cloneVars
  <2> QED
    BY <1>1, <1>12, <2>1 DEF Rollback, Crash, PushRelease
<1>13. ASSUME NEW c \in Clones, Release(c) PROVE Goal
  <2>1. UNCHANGED <<head, main, commits>> /\ pc[c] = "release"
    BY <1>13 DEF Release, remoteVars
  <2>2. CASE Leave(c, "refused")
    BY <1>1, <2>1, <2>2
  <2>3. CASE ~Leave(c, "refused")
    <3>1. /\ pc' = [pc EXCEPT ![c] = "pushrelease"] /\ UNCHANGED <<initial, unpushed>>
          /\ \E t : t.commit = head[c] /\ made' = [made EXCEPT ![c] = {t}]
      BY <1>13, <2>3 DEF Release
    <3>2. HeadFits(c)'
      BY <1>a, <1>c, <2>1, <3>1 DEF HeadFits, Ancestors
    <3> QED
      BY <1>d, <2>1, <3>1, <3>2
  <2> QED
    BY <2>2, <2>3
<1>14. ASSUME NEW q \in Packages, Edit(q) PROVE Goal
  BY <1>2, <1>14 DEF Edit, cloneVars
<1>15. ASSUME NEW c \in Clones, Update(c) PROVE Goal
  <2>1. pc[c] = "idle" /\ UNCHANGED <<pc, guardVars>> /\ \A d \in Clones \ {c} : head'[d] = head[d]
    BY <1>15 DEF Update
  <2>2. HeadFits(c)'
    BY <2>1 DEF HeadFits
  <2> QED
    BY <1>d, <2>1, <2>2 DEF guardVars
<1> HIDE DEF Goal
<1>16. Goal
  BY <1>4, <1>5, <1>6, <1>7, <1>8, <1>9, <1>10, <1>11, <1>12, <1>13, <1>14, <1>15, Zenon DEF Next, Step
<1> QED
  BY <1>16 DEF Goal, HeadFits, HeadIsPushed, MadeAreOnHead

LEMMA RemoteStep ==
  ASSUME TypeOK, FewTags, PushesAreOnMain, MadeOnce, VersionsAreUnique, Next
  PROVE  TagsAreOnMain' /\ VersionsAreUnique'
<1>1. \/ UNCHANGED remoteTags
      \/ \E c \in Clones : \E new \in SUBSET made[c] :
           /\ remoteTags' = remoteTags \cup new /\ pc[c] \in {"pushtags", "pushrelease"}
           /\ \A t \in new, u \in remoteTags : ~Named(t, u)
  <2>1. ASSUME NEW c \in Clones, PushTags(c)
        PROVE  \E new \in SUBSET made[c] :
                 /\ remoteTags' = remoteTags \cup new /\ pc[c] \in {"pushtags", "pushrelease"}
                 /\ \A t \in new, u \in remoteTags : ~Named(t, u)
    <3>1. PICK new \in SUBSET Accepted(made[c]) : remoteTags' = remoteTags \cup new
      BY <2>1 DEF PushTags
    <3>2. new \in SUBSET made[c] /\ \A t \in new, u \in remoteTags : ~Named(t, u)
      BY DEF Accepted
    <3> QED
      BY <2>1, <3>1, <3>2 DEF PushTags
  <2>2. ASSUME NEW c \in Clones, PushRelease(c), remoteTags' # remoteTags
        PROVE  \E new \in SUBSET made[c] :
                 /\ remoteTags' = remoteTags \cup new /\ pc[c] \in {"pushtags", "pushrelease"}
                 /\ \A t \in new, u \in remoteTags : ~Named(t, u)
    <3>1. Accepted(made[c]) = made[c] /\ remoteTags' = remoteTags \cup made[c] /\ pc[c] = "pushrelease"
      BY <2>2 DEF PushRelease
    <3>2. \A t \in made[c], u \in remoteTags : ~Named(t, u)
      BY <3>1 DEF Accepted
    <3> QED
      BY <3>1, <3>2
  <2>3. ASSUME NEW c \in Clones, FetchTags(c) \/ Preflight(c) \/ Plan(c) \/ SyncWave(c) \/ TagWave(c) \/ PushMain(c)
        PROVE  UNCHANGED remoteTags
    BY <2>3 DEF FetchTags, Preflight, Plan, SyncWave, TagWave, PushMain, remoteVars
  <2>4. ASSUME NEW c \in Clones, Rollback(c) \/ Release(c) \/ Update(c) \/ Crash(c) PROVE UNCHANGED remoteTags
    BY <2>4 DEF Rollback, Release, Update, Crash, remoteVars
  <2>5. ASSUME NEW c \in Clones, NEW bs, Begin(c, bs) PROVE UNCHANGED remoteTags
    BY <2>5 DEF Begin, remoteVars
  <2>6. ASSUME NEW q \in Packages, Edit(q) PROVE UNCHANGED remoteTags
    BY <2>6 DEF Edit
  <2> QED
    BY <2>1, <2>2, <2>3, <2>4, <2>5, <2>6 DEF Next, Step
<1>2. /\ \A n \in 1..Len(commits) : n \in Ancestors(n) /\ \A m \in Ancestors(n) : Ancestors(m) \subseteq Ancestors(n)
      /\ Ancestors(main) \subseteq Ancestors(main)' /\ main \in 1..Len(commits)
  BY HistoryStep DEF PushesAreOnMain, HistoryIsClosed, TypeOK
<1>3. ASSUME NEW c \in Clones, pc[c] \in {"pushtags", "pushrelease"}, NEW t \in made[c]
      PROVE  t.commit \in Ancestors(main)
  <2>1. head[c] \in Ancestors(main) /\ t.commit \in Ancestors(head[c])
    BY <1>3 DEF PushesAreOnMain, HeadIsPushed, MadeAreOnHead, GuardIsClear, Guard, Guarded
  <2> QED
    BY <1>2, <2>1
<1>4. \A t \in remoteTags : t.commit \in Ancestors(main)
  BY DEF PushesAreOnMain, TagsAreOnMain
<1>5. TagsAreOnMain'
  <2>1. \A t \in remoteTags' : t.commit \in Ancestors(main)
    BY <1>1, <1>3, <1>4
  <2> QED
    BY <1>2, <2>1 DEF TagsAreOnMain
<1>6. VersionsAreUnique'
  <2>1. \A c \in Clones : \A t, u \in made[c] : Named(t, u) => t = u
    BY DEF MadeOnce, Named
  <2> QED
    BY <1>1, <2>1 DEF VersionsAreUnique, Named
<1> QED
  BY <1>5, <1>6

LEMMA MadeStep ==
  ASSUME TypeOK, FewTags, GuardIsClear, MadeOnce, Next PROVE MadeOnce'
<1> USE DEF MadeOnce, TypeOK, Goto
<1>1. ASSUME NEW c \in Clones, NEW how, Leave(c, how) PROVE MadeOnce'
  BY <1>1 DEF Leave
<1>2. ASSUME NEW c \in Clones, UNCHANGED <<made, todo>>, \A d \in Clones : pc'[d] \in {"tag", "sync"} => pc[d] \in {"tag", "sync"}
      PROVE  MadeOnce'
  BY <1>2
<1>3. ASSUME NEW c \in Clones, Begin(c, {}) \/ \E q \in Boards : Begin(c, {q}) PROVE MadeOnce'
  <2>1. UNCHANGED made /\ pc'[c] = "fetch" /\ \A d \in Clones \ {c} : pc'[d] = pc[d] /\ todo'[d] = todo[d]
    BY <1>3 DEF Begin, guardVars
  <2> QED
    BY <2>1
<1>4. ASSUME NEW c \in Clones, FetchTags(c) \/ Update(c) \/ \E q \in Packages : Edit(q) PROVE MadeOnce'
  BY <1>2, <1>4 DEF FetchTags, Update, Edit, guardVars, planVars
<1>5. ASSUME NEW c \in Clones, Preflight(c) PROVE MadeOnce'
  BY <1>1, <1>2, <1>5 DEF Preflight, guardVars, planVars
<1>6. ASSUME NEW c \in Clones, Plan(c) PROVE MadeOnce'
  <2>1. CASE Leave(c, "refused") \/ Leave(c, "nothing")
    BY <1>1, <2>1
  <2>2. CASE ~(Leave(c, "refused") \/ Leave(c, "nothing"))
    <3>1. UNCHANGED made /\ made[c] = {}
      BY <1>6, <2>2 DEF Plan, GuardIsClear, Guard, Guarded
    <3>2. \A d \in Clones \ {c} : pc'[d] = pc[d] /\ todo'[d] = todo[d]
      BY <1>6, <2>2 DEF Plan
    <3> QED
      BY <3>1, <3>2
  <2> QED
    BY <2>1, <2>2
<1>7. ASSUME NEW c \in Clones, SyncWave(c) \/ PushMain(c) PROVE MadeOnce'
  <2>1. UNCHANGED <<made, todo>>
    BY <1>7 DEF SyncWave, PushMain, planVars
  <2>2. \A d \in Clones : pc'[d] \in {"tag", "sync"} => pc[d] \in {"tag", "sync"}
    BY <1>7 DEF SyncWave, PushMain
  <2> QED
    BY <1>2, <2>1, <2>2
<1>8. ASSUME NEW c \in Clones, TagWave(c) PROVE MadeOnce'
  <2>1. PICK new \in SUBSET Candidates(c, Ready(todo[c])) :
          /\ made' = [made EXCEPT ![c] = @ \cup new]
          /\ \/ todo' = [todo EXCEPT ![c] = @ \ Ready(todo[c])]
             \/ pc' = [pc EXCEPT ![c] = "rollback"]
    BY <1>8 DEF TagWave
  <2>2. pc[c] = "tag" /\ \A d \in Clones \ {c} : pc'[d] = pc[d] /\ todo'[d] = todo[d] /\ made'[d] = made[d]
    BY <1>8 DEF TagWave, FirstPush
  <2>3. Ready(todo[c]) \in SUBSET Packages /\ Ready(todo[c]) \subseteq todo[c]
    BY DEF Ready
  <2>4. /\ \A t \in new : t.pkg \in Ready(todo[c])
        /\ \A t, u \in new : t.pkg = u.pkg => t = u
    <3>1. /\ \A t \in Candidates(c, Ready(todo[c])) : t.pkg \in Ready(todo[c])
          /\ \A t, u \in Candidates(c, Ready(todo[c])) : t.pkg = u.pkg => t = u
      BY <2>3, CandidatesAreTags
    <3> QED
      BY <3>1
  <2>5. made'[c] = made[c] \cup new /\ \A t \in made[c] : t.pkg \notin todo[c]
    BY <2>1, <2>2
  <2>6. \A t, u \in made'[c] : t.pkg = u.pkg => t = u
    BY <2>3, <2>4, <2>5
  <2>7. pc'[c] \in {"tag", "sync"} => \A t \in made'[c] : t.pkg \notin todo'[c]
    BY <2>1, <2>4, <2>5
  <2> QED
    BY <2>2, <2>6, <2>7
<1>9. ASSUME NEW c \in Clones, PushTags(c) PROVE MadeOnce'
  <2>1. CASE Leave(c, "ok")
    BY <1>1, <2>1
  <2>2. CASE ~Leave(c, "ok")
    BY <1>2, <1>9, <2>2 DEF PushTags, guardVars, planVars
  <2> QED
    BY <2>1, <2>2
<1>10. ASSUME NEW c \in Clones, Rollback(c) \/ Crash(c) \/ PushRelease(c) PROVE MadeOnce'
  BY <1>1, <1>10 DEF Rollback, Crash, PushRelease
<1>11. ASSUME NEW c \in Clones, Release(c) PROVE MadeOnce'
  <2>1. CASE Leave(c, "refused")
    BY <1>1, <2>1
  <2>2. CASE ~Leave(c, "refused")
    <3>1. /\ pc' = [pc EXCEPT ![c] = "pushrelease"] /\ UNCHANGED todo
          /\ \E t : made' = [made EXCEPT ![c] = {t}]
      BY <1>11, <2>2 DEF Release, planVars
    <3> QED
      BY <3>1
  <2> QED
    BY <2>1, <2>2
<1>12. ASSUME NEW q \in Packages, Edit(q) PROVE MadeOnce'
  BY <1>12 DEF Edit, guardVars, planVars
<1> QED
  BY <1>3, <1>4, <1>5, <1>6, <1>7, <1>8, <1>9, <1>10, <1>11, <1>12, Zenon DEF Next, Step

(* GuardKnowsTags, CleanTree and RolledBack for one clone.                 *)
GuardFits(c) ==
  /\ pc[c] \in Guard => localTags[c] = fetched[c] \cup made[c] /\ fetched[c] \cap made[c] = {}
  /\ pc[c] \in Guarded \cup {"plan"} => litter[c] = {}
  /\ pc[c] = "rollback" /\ ~unpushed[c] => litter[c] = {}
  /\ pc[c] = "idle" /\ exit[c] = "failed" =>
       localTags[c] = fetched[c] /\ "modified" \notin litter[c] /\ head[c] \in Ancestors(main)

LEMMA RollbackStep ==
  ASSUME TypeOK, FewTags, PushesAreOnMain, GuardKnowsTags, CleanTree, RolledBack, Next
  PROVE  GuardKnowsTags' /\ CleanTree' /\ RolledBack'
<1> DEFINE Goal == \A d \in Clones : GuardFits(d)'
<1>a. \A d \in Clones : GuardFits(d)
  BY DEF GuardFits, GuardKnowsTags, CleanTree, RolledBack
<1>b. Ancestors(main) \subseteq Ancestors(main)' /\ main \in Ancestors(main)
  BY HistoryStep DEF PushesAreOnMain, HistoryIsClosed, TypeOK
<1>c. GuardIsClear /\ HeadIsPushed
  BY DEF PushesAreOnMain
<1>d. ASSUME NEW d \in Clones, pc'[d] = pc[d], localTags'[d] = localTags[d], fetched'[d] = fetched[d],
             made'[d] = made[d], litter'[d] = litter[d], unpushed'[d] = unpushed[d],
             exit'[d] = exit[d], head'[d] = head[d]
      PROVE  GuardFits(d)'
  BY <1>a, <1>b, <1>d DEF GuardFits
<1> USE DEF TypeOK, Goto, Guard, Guarded
<1>1. ASSUME NEW c \in Clones, NEW how, Leave(c, how), how # "failed", UNCHANGED <<localTags, head>>,
             \A d \in Clones \ {c} : litter'[d] = litter[d]
      PROVE  Goal
  <2>1. GuardFits(c)'
    BY <1>1 DEF Leave, GuardFits
  <2>2. ASSUME NEW d \in Clones, d # c
        PROVE  /\ pc'[d] = pc[d] /\ fetched'[d] = fetched[d] /\ made'[d] = made[d]
               /\ unpushed'[d] = unpushed[d] /\ exit'[d] = exit[d]
    BY <1>1, <2>2 DEF Leave
  <2> QED
    BY <1>d, <1>1, <2>1, <2>2
<1>2. ASSUME NEW q \in Packages, Edit(q) PROVE Goal
  BY <1>d, <1>2 DEF Edit, cloneVars, guardVars
<1>3. ASSUME NEW c \in Clones, Begin(c, {}) \/ \E q \in Boards : Begin(c, {q}) PROVE Goal
  <2>1. UNCHANGED <<cloneVars, guardVars>> /\ pc'[c] = "fetch"
        /\ \A d \in Clones \ {c} : pc'[d] = pc[d] /\ exit'[d] = exit[d] /\ fetched'[d] = fetched[d]
    BY <1>3 DEF Begin
  <2>2. GuardFits(c)'
    BY <2>1 DEF GuardFits
  <2> QED
    BY <1>d, <2>1, <2>2 DEF cloneVars, guardVars
<1>4. ASSUME NEW c \in Clones, FetchTags(c) PROVE Goal
  <2>1. UNCHANGED <<head, litter, guardVars, exit, fetched>> /\ pc'[c] = "preflight"
        /\ \A d \in Clones \ {c} : pc'[d] = pc[d] /\ localTags'[d] = localTags[d]
    BY <1>4 DEF FetchTags
  <2>2. GuardFits(c)'
    BY <2>1 DEF GuardFits
  <2> QED
    BY <1>d, <2>1, <2>2 DEF guardVars
<1>5. ASSUME NEW c \in Clones, Preflight(c) PROVE Goal
  <2>1. UNCHANGED cloneVars
    BY <1>5 DEF Preflight
  <2>2. CASE Leave(c, "refused")
    BY <1>1, <2>1, <2>2 DEF cloneVars
  <2>3. CASE ~Leave(c, "refused")
    <3>1. litter[c] = {} /\ UNCHANGED <<guardVars, exit, fetched>> /\ pc'[c] \in {"plan", "release"}
          /\ \A d \in Clones \ {c} : pc'[d] = pc[d]
      BY <1>5, <2>3 DEF Preflight
    <3>2. GuardFits(c)'
      BY <2>1, <3>1 DEF GuardFits, cloneVars
    <3> QED
      BY <1>d, <2>1, <3>1, <3>2 DEF cloneVars, guardVars
  <2> QED
    BY <2>2, <2>3
<1>6. ASSUME NEW c \in Clones, Plan(c) PROVE Goal
  <2>1. UNCHANGED cloneVars /\ pc[c] = "plan"
    BY <1>6 DEF Plan
  <2>2. CASE Leave(c, "refused") \/ Leave(c, "nothing")
    BY <1>1, <2>1, <2>2 DEF cloneVars
  <2>3. CASE ~(Leave(c, "refused") \/ Leave(c, "nothing"))
    <3>1. /\ pc' = [pc EXCEPT ![c] = "tag"] /\ unpushed' = [unpushed EXCEPT ![c] = FALSE]
          /\ fetched' = [fetched EXCEPT ![c] = localTags[c]] /\ UNCHANGED <<made, exit>>
      BY <1>6, <2>3 DEF Plan
    <3>2. made[c] = {} /\ litter[c] = {}
      BY <1>a, <1>c, <2>1 DEF GuardIsClear, GuardFits
    <3>3. GuardFits(c)'
      BY <2>1, <3>1, <3>2 DEF GuardFits, cloneVars
    <3> QED
      BY <1>d, <2>1, <3>1, <3>3 DEF cloneVars
  <2> QED
    BY <2>2, <2>3
<1>7. ASSUME NEW c \in Clones, SyncWave(c) PROVE Goal
  <2>1. UNCHANGED <<localTags, made, exit, fetched>> /\ pc[c] = "sync"
    BY <1>7 DEF SyncWave
  <2>2. \A d \in Clones \ {c} : /\ pc'[d] = pc[d] /\ unpushed'[d] = unpushed[d] /\ head'[d] = head[d]
                              /\ litter'[d] = litter[d]
    BY <1>7 DEF SyncWave
  <2>3. \/ pc' = [pc EXCEPT ![c] = "tag"] /\ UNCHANGED litter
        \/ pc' = [pc EXCEPT ![c] = "rollback"] /\ unpushed' = [unpushed EXCEPT ![c] = TRUE]
    BY <1>7 DEF SyncWave, UnpushedAfterFailure
  <2>4. GuardFits(c)'
    BY <1>a, <2>1, <2>3 DEF GuardFits
  <2> QED
    BY <1>d, <2>1, <2>2, <2>4
<1>8. ASSUME NEW c \in Clones, TagWave(c) PROVE Goal
  <2>1. UNCHANGED <<head, litter, unpushed, exit, fetched>> /\ pc[c] = "tag"
    BY <1>8 DEF TagWave
  <2>2. pc'[c] \in {"sync", "rollback", "pushmain", "pushtags"} /\ \A d \in Clones \ {c} : pc'[d] = pc[d]
    BY <1>8 DEF TagWave, FirstPush
  <2>3. PICK new \in SUBSET Candidates(c, Ready(todo[c])) :
          /\ localTags' = [localTags EXCEPT ![c] = @ \cup new]
          /\ made' = [made EXCEPT ![c] = @ \cup new]
    BY <1>8 DEF TagWave
  <2>4. \A t \in new : t \notin localTags[c]
    <3>1. Ready(todo[c]) \in SUBSET Packages
      BY DEF Ready
    <3>2. \A t \in Candidates(c, Ready(todo[c])) : t \notin localTags[c]
      BY <3>1, CandidatesAreTags
    <3> QED
      BY <3>2
  <2>5. /\ localTags'[c] = localTags[c] \cup new /\ made'[c] = made[c] \cup new
        /\ \A d \in Clones \ {c} : localTags'[d] = localTags[d] /\ made'[d] = made[d]
    BY <2>3
  <2>6. GuardFits(c)'
    BY <1>a, <2>1, <2>2, <2>4, <2>5 DEF GuardFits
  <2> QED
    BY <1>d, <2>1, <2>2, <2>5, <2>6
<1>9. ASSUME NEW c \in Clones, PushMain(c) PROVE Goal
  <2>1. UNCHANGED <<cloneVars, made, exit, fetched>> /\ pc[c] = "pushmain"
        /\ pc'[c] \in {"pushtags", "rollback"}
        /\ \A d \in Clones \ {c} : pc'[d] = pc[d] /\ unpushed'[d] = unpushed[d]
    BY <1>9 DEF PushMain
  <2>2. GuardFits(c)'
    BY <1>a, <2>1 DEF GuardFits, cloneVars
  <2> QED
    BY <1>d, <2>1, <2>2 DEF cloneVars
<1>10. ASSUME NEW c \in Clones, PushTags(c) PROVE Goal
  <2>1. UNCHANGED cloneVars /\ pc[c] = "pushtags"
    BY <1>10 DEF PushTags
  <2>2. CASE Leave(c, "ok")
    BY <1>1, <2>1, <2>2 DEF cloneVars
  <2>3. CASE ~Leave(c, "ok")
    <3>1. pc' = [pc EXCEPT ![c] = "rollback"] /\ UNCHANGED <<guardVars, exit, fetched>>
      BY <1>10, <2>3 DEF PushTags
    <3>2. GuardFits(c)'
      BY <1>a, <2>1, <3>1 DEF GuardFits, cloneVars, guardVars
    <3> QED
      BY <1>d, <2>1, <3>1, <3>2 DEF cloneVars, guardVars
  <2> QED
    BY <2>2, <2>3
<1>11. ASSUME NEW c \in Clones, Rollback(c) PROVE Goal
  <2>1. PICK kept \in SUBSET made[c], reset \in BOOLEAN :
          /\ localTags' = [localTags EXCEPT ![c] = @ \ (made[c] \ kept)]
          /\ IF unpushed[c] /\ reset
             THEN /\ head' = [head EXCEPT ![c] = initial[c]]
                  /\ litter' = [litter EXCEPT ![c] = @ \ {"modified"}]
             ELSE UNCHANGED <<head, litter>>
          /\ Leave(c, IF kept = {} /\ (unpushed[c] => reset) THEN "failed" ELSE "unclean")
    BY <1>11 DEF Rollback
  <2>2. /\ pc[c] = "rollback" /\ pc' = [pc EXCEPT ![c] = "idle"]
        /\ made' = [made EXCEPT ![c] = {}] /\ unpushed' = [unpushed EXCEPT ![c] = FALSE]
        /\ \A d \in Clones \ {c} : /\ fetched'[d] = fetched[d] /\ exit'[d] = exit[d]
                                  /\ localTags'[d] = localTags[d]
                                  /\ head'[d] = head[d] /\ litter'[d] = litter[d]
    BY <1>11, <2>1 DEF Rollback, Leave
  <2>3. ASSUME kept = {} /\ (unpushed[c] => reset) PROVE GuardFits(c)'
    <3>1. /\ exit'[c] = "failed" /\ fetched'[c] = fetched[c]
          /\ localTags'[c] = localTags[c] \ made[c]
      BY <2>1, <2>3 DEF Leave
    <3>2. /\ head'[c] = IF unpushed[c] THEN initial[c] ELSE head[c]
          /\ litter'[c] = IF unpushed[c] THEN litter[c] \ {"modified"} ELSE litter[c]
      BY <2>1, <2>3
    <3>3. head'[c] \in Ancestors(main) /\ "modified" \notin litter'[c]
      BY <1>a, <1>c, <2>2, <3>2 DEF HeadIsPushed, GuardFits
    <3>4. localTags'[c] = fetched[c]
      BY <1>a, <2>2, <3>1 DEF GuardFits
    <3> QED
      BY <1>b, <2>2, <3>1, <3>3, <3>4 DEF GuardFits
  <2>4. ASSUME ~(kept = {} /\ (unpushed[c] => reset)) PROVE GuardFits(c)'
    <3>1. exit'[c] = "unclean"
      BY <2>1, <2>4 DEF Leave
    <3> QED
      BY <2>2, <3>1 DEF GuardFits
  <2>5. GuardFits(c)'
    BY <2>3, <2>4
  <2> QED
    BY <1>d, <2>2, <2>5
<1>12. ASSUME NEW c \in Clones, Release(c) PROVE Goal
  <2>1. UNCHANGED <<head, litter>>
    BY <1>12 DEF Release
  <2>2. CASE Leave(c, "refused") /\ UNCHANGED localTags
    BY <1>1, <2>1, <2>2
  <2>3. CASE ~(Leave(c, "refused") /\ UNCHANGED localTags)
    <3>1. /\ pc' = [pc EXCEPT ![c] = "pushrelease"] /\ UNCHANGED <<unpushed, exit, fetched>>
          /\ \A d \in Clones \ {c} : localTags'[d] = localTags[d] /\ made'[d] = made[d]
      BY <1>12, <2>3 DEF Release
    <3>2. GuardFits(c)'
      BY <3>1 DEF GuardFits
    <3> QED
      BY <1>d, <2>1, <3>1, <3>2
  <2> QED
    BY <2>2, <2>3
<1>13. ASSUME NEW c \in Clones, PushRelease(c) PROVE Goal
  <2>1. UNCHANGED cloneVars /\ (Leave(c, "ok") \/ Leave(c, "stranded"))
    BY <1>13 DEF PushRelease
  <2> QED
    BY <1>1, <2>1 DEF cloneVars
<1>14. ASSUME NEW c \in Clones, Crash(c) PROVE Goal
  BY <1>1, <1>14 DEF Crash
<1>15. ASSUME NEW c \in Clones, Update(c) PROVE Goal
  <2>1. /\ pc[c] = "idle" /\ head'[c] = main /\ litter'[c] = {}
        /\ UNCHANGED <<pc, localTags, guardVars, exit, fetched>>
        /\ \A d \in Clones \ {c} : head'[d] = head[d] /\ litter'[d] = litter[d]
    BY <1>15 DEF Update
  <2>2. GuardFits(c)'
    BY <1>a, <1>b, <2>1 DEF GuardFits
  <2> QED
    BY <1>d, <2>1, <2>2 DEF guardVars
<1> HIDE DEF Goal
<1>16. Goal
  BY <1>2, <1>3, <1>4, <1>5, <1>6, <1>7, <1>8, <1>9, <1>10, <1>11, <1>12, <1>13, <1>14, <1>15, Zenon DEF Next, Step
<1> QED
  BY <1>16 DEF Goal, GuardFits, GuardKnowsTags, CleanTree, RolledBack

LEMMA ExpandedIsClosed ==
  ASSUME NEW S, NEW q \in Packages, uses[q] \cap Expanded(S) # {} PROVE q \in Expanded(S)
<1>1. PICK x \in uses[q] : x \in Expanded(S)
  OBVIOUS
<1> QED
  BY <1>1 DEF Expanded

LEMMA UsesAreFixed == ASSUME Next PROVE UNCHANGED uses
<1>1. ASSUME NEW c \in Clones, Step(c) PROVE UNCHANGED uses
  BY <1>1 DEF Step, FetchTags, Preflight, Plan, SyncWave, TagWave, PushMain, PushTags, Rollback, Release,
              PushRelease
<1>2. ASSUME NEW c \in Clones, NEW bs, Begin(c, bs) PROVE UNCHANGED uses
  BY <1>2 DEF Begin
<1> QED
  BY <1>1, <1>2 DEF Next, Edit, Update, Crash

(* PlanIsClosed, NothingIsStuck and PinsFollow for one clone.              *)
Covered(c) ==
  /\ todo[c] \subseteq Planned(c)
  /\ \A q \in Packages : uses[q] \cap Planned(c) # {} => q \in Planned(c)
  /\ \A t \in made[c] : t.pkg \in Planned(c)
  /\ \A q \in Planned(c) \ todo[c] : \E t \in made[c] : t.pkg = q

Pinned(c) ==
  \A t, new \in made[c] : new.pkg \in uses[t.pkg] =>
    commits[t.commit].pins[t.pkg][new.pkg] >= new.version

Moving(c) ==
  /\ todo[c] # {} /\ \A T \in SUBSET todo[c] : T # {} => Ready(T) # {}
  /\ \A t \in made[c] : uses[t.pkg] \cap todo[c] = {}

WavePinned(c) ==
  \A q \in Ready(todo[c]), new \in made[c] : new.pkg \in uses[q] =>
    commits[head[c]].pins[q][new.pkg] >= new.version

WaveFits(c) ==
  /\ pc[c] \in Guarded => Covered(c) /\ Pinned(c)
  /\ pc[c] \in {"pushmain", "pushtags"} => todo[c] = {}
  /\ pc[c] \in {"tag", "sync"} => Moving(c)
  /\ pc[c] = "tag" => WavePinned(c)

LEMMA WaveStep ==
  ASSUME TypeOK, FewTags, PushesAreOnMain, PlanIsClosed, NothingIsStuck, PinsFollow, Next
  PROVE  PlanIsClosed' /\ NothingIsStuck' /\ PinsFollow'
<1> DEFINE Goal == \A d \in Clones : WaveFits(d)'
<1>a. \A d \in Clones : WaveFits(d)
  BY DEF WaveFits, Covered, Pinned, Moving, WavePinned, PlanIsClosed, NothingIsStuck, PinsFollow, Guarded
<1>b. /\ UNCHANGED uses
      /\ \A n \in 1..Len(commits) : commits'[n] = commits[n]
      /\ \A d \in Clones : head[d] \in 1..Len(commits)
  BY UsesAreFixed, HistoryStep DEF PushesAreOnMain, TypeOK
<1>c. \A d \in Clones : pc[d] \in Guarded => \A t \in made[d] : t.commit \in 1..Len(commits)
  BY <1>b DEF PushesAreOnMain, MadeAreOnHead, HistoryIsClosed, Guarded
<1>d. ASSUME NEW d \in Clones, pc'[d] = pc[d], todo'[d] = todo[d], plan'[d] = plan[d], made'[d] = made[d],
             head'[d] = head[d]
      PROVE  WaveFits(d)'
  <2>1. Planned(d)' = Planned(d) /\ \A S : Ready(S)' = Ready(S)
    BY <1>b, <1>d DEF Planned, Ready
  <2>2. Ready(todo[d])' = Ready(todo[d])
    BY <1>b, <1>d DEF Ready
  <2>3. \A t \in made[d] : pc[d] \in Guarded => commits'[t.commit] = commits[t.commit]
    BY <1>b, <1>c
  <2>4. commits'[head[d]] = commits[head[d]]
    BY <1>b
  <2> QED
    <3>1. /\ uses' = uses /\ pc'[d] = pc[d] /\ todo'[d] = todo[d] /\ made'[d] = made[d] /\ head'[d] = head[d]
          /\ WaveFits(d)
      BY <1>a, <1>b, <1>d
    <3>2. Covered(d)' = Covered(d)
      BY <2>1, <3>1 DEF Covered
    <3>3. pc[d] \in Guarded /\ Pinned(d) => Pinned(d)'
      BY <2>3, <3>1 DEF Pinned
    <3>4. Moving(d) => Moving(d)'
      BY <2>1, <3>1 DEF Moving
    <3>5. WavePinned(d) => WavePinned(d)'
      BY <2>2, <2>4, <3>1 DEF WavePinned
    <3> QED
      BY <3>1, <3>2, <3>3, <3>4, <3>5 DEF WaveFits
<1>e. ASSUME NEW d \in Clones, pc'[d] \notin Guarded PROVE WaveFits(d)'
  BY <1>e DEF WaveFits, Guarded
<1> USE DEF TypeOK, Goto
<1>1. ASSUME NEW c \in Clones, NEW how, Leave(c, how), \A d \in Clones \ {c} : head'[d] = head[d] PROVE Goal
  <2>1. pc'[c] = "idle" /\ \A d \in Clones \ {c} : /\ pc'[d] = pc[d] /\ todo'[d] = todo[d] /\ plan'[d] = plan[d]
                                                 /\ made'[d] = made[d]
    BY <1>1 DEF Leave
  <2> QED
    BY <1>d, <1>e, <1>1, <2>1 DEF Guarded
<1>2. ASSUME NEW q \in Packages, Edit(q) PROVE Goal
  BY <1>d, <1>2 DEF Edit, cloneVars, guardVars, planVars
<1>3. ASSUME NEW c \in Clones, Begin(c, {}) \/ \E q \in Boards : Begin(c, {q}) PROVE Goal
  <2>1. UNCHANGED <<head, made, plan>> /\ pc'[c] = "fetch"
        /\ \A d \in Clones \ {c} : pc'[d] = pc[d] /\ todo'[d] = todo[d]
    BY <1>3 DEF Begin, cloneVars, guardVars
  <2> QED
    BY <1>d, <1>e, <2>1 DEF Guarded
<1>4. ASSUME NEW c \in Clones, FetchTags(c) PROVE Goal
  <2>1. UNCHANGED <<head, made, plan, todo>> /\ pc'[c] = "preflight" /\ \A d \in Clones \ {c} : pc'[d] = pc[d]
    BY <1>4 DEF FetchTags, guardVars, planVars
  <2> QED
    BY <1>d, <1>e, <2>1 DEF Guarded
<1>5. ASSUME NEW c \in Clones, Preflight(c) PROVE Goal
  <2>1. CASE Leave(c, "refused")
    BY <1>1, <1>5, <2>1 DEF Preflight, cloneVars
  <2>2. CASE ~Leave(c, "refused")
    <3>1. UNCHANGED <<head, made, plan, todo>> /\ pc'[c] \in {"plan", "release"}
          /\ \A d \in Clones \ {c} : pc'[d] = pc[d]
      BY <1>5, <2>2 DEF Preflight, cloneVars, guardVars, planVars
    <3> QED
      BY <1>d, <1>e, <3>1 DEF Guarded
  <2> QED
    BY <2>1, <2>2
<1>6. ASSUME NEW c \in Clones, Plan(c) PROVE Goal
  <2> DEFINE changed == Expanded(Dirty(c))
  <2>1. UNCHANGED head /\ pc[c] = "plan"
    BY <1>6 DEF Plan, cloneVars
  <2>2. CASE Leave(c, "refused") \/ Leave(c, "nothing")
    BY <1>1, <2>1, <2>2
  <2>3. CASE ~(Leave(c, "refused") \/ Leave(c, "nothing"))
    <3>1. /\ changed # {} /\ ~Cyclic(changed) /\ UNCHANGED made
          /\ todo' = [todo EXCEPT ![c] = changed] /\ pc' = [pc EXCEPT ![c] = "tag"]
      BY <1>6, <2>3 DEF Plan
    <3>2. PICK bump \in Choices :
            plan' = [plan EXCEPT ![c] = [q \in Packages |-> IF q \in changed THEN bump[q] ELSE "none"]]
      BY <1>6, <2>3 DEF Plan
    <3>3. \A q \in Packages : bump[q] \in {"patch", "minor", "major"}
      BY PublishAssumption DEF PublishAssumption, Bumps
    <3>4. changed \subseteq Packages /\ \A q \in Packages : uses[q] \cap changed # {} => q \in changed
      BY ExpandedIsClosed DEF Expanded
    <3>5. \A T \in SUBSET changed : T # {} => Ready(T) # {}
      BY <3>1 DEF Cyclic
    <3>6. made[c] = {}
      BY <2>1 DEF PushesAreOnMain, GuardIsClear, Guard, Guarded
    <3> HIDE DEF changed
    <3>7. Planned(c)' = changed
      BY <3>2, <3>3, <3>4 DEF Planned
    <3>8. \A T : Ready(T)' = Ready(T)
      BY <1>b DEF Ready
    <3>9. WaveFits(c)'
      BY <1>b, <3>1, <3>4, <3>5, <3>6, <3>7, <3>8 DEF WaveFits, Covered, Pinned, Moving, WavePinned
    <3>10. \A d \in Clones \ {c} : pc'[d] = pc[d] /\ todo'[d] = todo[d] /\ plan'[d] = plan[d]
      BY <3>1, <3>2
    <3> QED
      BY <1>d, <2>1, <3>1, <3>9, <3>10
  <2> QED
    BY <2>2, <2>3
<1>7. ASSUME NEW c \in Clones, SyncWave(c) PROVE Goal
  <2> DEFINE wave == Ready(todo[c])
  <2>1. UNCHANGED <<made, plan, todo>> /\ pc[c] = "sync"
    BY <1>7 DEF SyncWave, planVars
  <2>2. \A d \in Clones \ {c} : pc'[d] = pc[d] /\ head'[d] = head[d]
    BY <1>7 DEF SyncWave
  <2>3. CASE pc'[c] = "tag" /\ commits'[head'[c]].pins = SyncedPins(c, wave)
    <3>1. wave \in SUBSET Packages
      BY DEF Ready
    <3>2. \A q \in wave, new \in made[c] : new.pkg \in uses[q] =>
            commits'[head'[c]].pins[q][new.pkg] >= new.version
      BY <2>3, <3>1, SyncedPinsRise
    <3>3. Planned(c)' = Planned(c) /\ Ready(todo[c])' = wave /\ \A S : Ready(S)' = Ready(S)
      BY <1>b, <2>1 DEF Planned, Ready
    <3>4. \A t \in made[c] : commits'[t.commit] = commits[t.commit]
      BY <1>b, <1>c, <2>1 DEF Guarded
    <3> HIDE DEF wave
    <3>5. /\ todo[c] \subseteq Planned(c)
          /\ \A q \in Packages : uses[q] \cap Planned(c) # {} => q \in Planned(c)
          /\ \A t \in made[c] : t.pkg \in Planned(c)
          /\ \A q \in Planned(c) \ todo[c] : \E t \in made[c] : t.pkg = q
          /\ todo[c] # {} /\ \A T \in SUBSET todo[c] : T # {} => Ready(T) # {}
          /\ \A t \in made[c] : uses[t.pkg] \cap todo[c] = {}
      BY <1>a, <2>1 DEF WaveFits, Covered, Pinned, Moving, Guarded
    <3>6. \A t, new \in made[c] : new.pkg \in uses[t.pkg] =>
            commits[t.commit].pins[t.pkg][new.pkg] >= new.version
      BY <1>a, <2>1 DEF WaveFits, Covered, Pinned, Moving, Guarded
    <3>7. \A t, new \in made[c] : new.pkg \in uses[t.pkg] =>
            commits'[t.commit].pins[t.pkg][new.pkg] >= new.version
      BY <3>4, <3>6, Zenon
    <3>8. uses' = uses /\ made'[c] = made[c] /\ todo'[c] = todo[c] /\ pc'[c] = "tag"
      BY <1>b, <2>1, <2>3
    <3>9. Covered(c)'
      BY <3>3, <3>5, <3>8 DEF Covered
    <3>10. Pinned(c)'
      BY <3>7, <3>8 DEF Pinned
    <3>11. Moving(c)'
      BY <3>3, <3>5, <3>8 DEF Moving
    <3>12. WavePinned(c)'
      BY <3>2, <3>3, <3>8 DEF WavePinned
    <3>13. WaveFits(c)'
      BY <3>8, <3>9, <3>10, <3>11, <3>12 DEF WaveFits
    <3> QED
      BY <1>d, <2>1, <2>2, <3>13
  <2>4. CASE pc'[c] = "rollback"
    BY <1>d, <1>e, <2>1, <2>2, <2>4 DEF Guarded
  <2>5. ASSUME pc'[c] # "rollback" PROVE pc'[c] = "tag" /\ commits'[head'[c]].pins = SyncedPins(c, wave)
    <3>1. CASE /\ SyncedPins(c, wave) = commits[head[c]].pins /\ pc' = [pc EXCEPT ![c] = "tag"]
               /\ UNCHANGED <<commits, head>>
      BY <3>1
    <3>2. CASE /\ commits' = Committed(head[c], commits[head[c]].src, SyncedPins(c, wave))
               /\ head' = [head EXCEPT ![c] = Len(commits) + 1] /\ pc' = [pc EXCEPT ![c] = "tag"]
      <4>1. wave \in SUBSET Packages /\ commits[head[c]] \in Commit
        BY DEF Ready
      <4>2. SyncedPins(c, wave) \in [Packages -> [Packages -> Nat]] /\ commits[head[c]].src \in [Packages -> Nat]
        BY <4>1, SyncedPinsRise DEF Commit
      <4>3. HistoryIsClosed /\ head[c] \in 1..Len(commits)
        BY <1>b DEF PushesAreOnMain
      <4> HIDE DEF wave
      <4>4. commits'[Len(commits) + 1].pins = SyncedPins(c, wave)
        <5> DEFINE src == commits[head[c]].src
                   pins == SyncedPins(c, wave)
        <5>1. commits' = Committed(head[c], src, pins)
          BY <3>2
        <5> HIDE DEF src, pins
        <5>2. src \in [Packages -> Nat] /\ pins \in [Packages -> [Packages -> Nat]]
          BY <4>2 DEF src, pins
        <5>3. commits'[Len(commits) + 1].pins = pins
          <6>1. TypeOK /\ HistoryIsClosed
            BY <4>3
          <6> HIDE DEF TypeOK
          <6> QED
            BY <4>3, <5>1, <5>2, <6>1, CommitAdds, ZenonT(60)
        <5> QED
          BY <5>3 DEF pins
      <4>5. head'[c] = Len(commits) + 1 /\ pc'[c] = "tag"
        BY <3>2
      <4> QED
        BY <4>4, <4>5
    <3> QED
      BY <1>7, <2>5, <3>1, <3>2 DEF SyncWave
  <2> QED
    BY <2>3, <2>4, <2>5
<1>8. ASSUME NEW c \in Clones, TagWave(c) PROVE Goal
  <2> DEFINE wave == Ready(todo[c])
             made0 == Candidates(c, wave)
  <2>1. UNCHANGED <<head, plan, commits>> /\ pc[c] = "tag" /\ wave # {}
    BY <1>8 DEF TagWave, remoteVars
  <2>2. \A d \in Clones \ {c} : pc'[d] = pc[d] /\ todo'[d] = todo[d] /\ made'[d] = made[d]
    BY <1>8 DEF TagWave
  <2>3. CASE pc'[c] = "rollback"
    BY <1>d, <1>e, <2>1, <2>2, <2>3 DEF Guarded
  <2>4. CASE pc'[c] # "rollback"
    <3>1. /\ made' = [made EXCEPT ![c] = @ \cup made0] /\ todo' = [todo EXCEPT ![c] = @ \ wave]
          /\ pc' = [pc EXCEPT ![c] = IF todo[c] = wave THEN FirstPush(c) ELSE "sync"]
      <4> HIDE DEF wave, made0
      <4>1. PICK new \in SUBSET made0 :
              /\ made' = [made EXCEPT ![c] = @ \cup new]
              /\ IF new = made0
                 THEN /\ todo' = [todo EXCEPT ![c] = @ \ wave]
                      /\ pc' = [pc EXCEPT ![c] = IF todo[c] = wave THEN FirstPush(c) ELSE "sync"]
                 ELSE pc' = [pc EXCEPT ![c] = "rollback"]
        BY <1>8 DEF TagWave, wave, made0
      <4>2. new = made0
        BY <2>4, <4>1
      <4> QED
        BY <4>1, <4>2
    <3>2. /\ wave \in SUBSET Packages /\ wave \subseteq todo[c]
          /\ \A q \in wave : uses[q] \cap todo[c] = {}
      BY DEF Ready
    <3>3. /\ \A t \in made0 : t.pkg \in wave /\ t.commit = head[c]
          /\ \A q \in wave : \E t \in made0 : t.pkg = q
      <4> HIDE DEF wave
      <4> QED
        BY <3>2, CandidatesAreTags
    <3>4. Planned(c)' = Planned(c) /\ \A S : Ready(S)' = Ready(S)
      BY <1>b, <2>1 DEF Planned, Ready
    <3>5. \A q \in wave, new \in made[c] : new.pkg \in uses[q] =>
            commits[head[c]].pins[q][new.pkg] >= new.version
      BY <1>a, <2>1 DEF WaveFits, WavePinned
    <3> HIDE DEF wave, made0
    <3>6. made'[c] = made[c] \cup made0 /\ todo'[c] = todo[c] \ wave
      BY <3>1
    <3>7. pc'[c] \in {"pushmain", "pushtags"} => todo'[c] = {}
      BY <3>1, <3>6 DEF FirstPush
    <3>8. pc'[c] \in {"tag", "sync"} => pc'[c] = "sync" /\ todo'[c] # {}
      BY <3>1, <3>2, <3>6 DEF FirstPush
    <3>9. /\ todo[c] \subseteq Planned(c)
          /\ \A q \in Packages : uses[q] \cap Planned(c) # {} => q \in Planned(c)
          /\ \A t \in made[c] : t.pkg \in Planned(c)
          /\ \A q \in Planned(c) \ todo[c] : \E t \in made[c] : t.pkg = q
          /\ \A t, new \in made[c] : new.pkg \in uses[t.pkg] =>
               commits[t.commit].pins[t.pkg][new.pkg] >= new.version
          /\ \A t \in made[c] : uses[t.pkg] \cap todo[c] = {}
          /\ \A T \in SUBSET todo[c] : T # {} => Ready(T) # {}
      BY <1>a, <2>1 DEF WaveFits, Covered, Pinned, Moving, Guarded
    <3>10. \A q \in Planned(c) \ todo'[c] : \E t \in made'[c] : t.pkg = q
      BY <3>3, <3>6, <3>9
    <3>11. \A t, new \in made'[c] : new.pkg \in uses[t.pkg] =>
             commits[t.commit].pins[t.pkg][new.pkg] >= new.version
      <4> SUFFICES ASSUME NEW t \in made'[c], NEW new \in made'[c], new.pkg \in uses[t.pkg]
                   PROVE  commits[t.commit].pins[t.pkg][new.pkg] >= new.version
        OBVIOUS
      <4>1. new \in made[c]
        BY <3>2, <3>3, <3>6, <3>9
      <4> QED
        BY <3>3, <3>5, <3>6, <3>9, <4>1
    <3>12. \A t \in made'[c] : uses[t.pkg] \cap todo'[c] = {}
      BY <3>2, <3>3, <3>6, <3>9
    <3>13. \A t \in made'[c] : t.pkg \in Planned(c)
      BY <3>2, <3>3, <3>6, <3>9
    <3>14. uses' = uses /\ commits' = commits
      BY <1>b, <2>1
    <3>15. todo'[c] \subseteq Planned(c) /\ \A T \in SUBSET todo'[c] : T # {} => Ready(T) # {}
      BY <3>6, <3>9
    <3>16. Covered(c)'
      BY <3>4, <3>9, <3>10, <3>13, <3>14, <3>15 DEF Covered
    <3>17. Pinned(c)'
      BY <3>11, <3>14 DEF Pinned
    <3>18. pc'[c] \in {"tag", "sync"} => Moving(c)' /\ pc'[c] # "tag"
      BY <3>4, <3>8, <3>12, <3>14, <3>15 DEF Moving
    <3>19. WaveFits(c)'
      BY <3>7, <3>16, <3>17, <3>18 DEF WaveFits
    <3> QED
      BY <1>d, <2>1, <2>2, <3>19
  <2> QED
    BY <2>3, <2>4
<1>9. ASSUME NEW c \in Clones, PushMain(c) PROVE Goal
  <2>1. UNCHANGED <<head, commits, made, plan, todo>> /\ pc[c] = "pushmain"
        /\ pc'[c] \in {"pushtags", "rollback"} /\ \A d \in Clones \ {c} : pc'[d] = pc[d]
    BY <1>9 DEF PushMain, cloneVars, planVars
  <2>2. Planned(c)' = Planned(c)
    BY <2>1 DEF Planned
  <2>3. WaveFits(c)'
    BY <1>a, <1>b, <2>1, <2>2 DEF WaveFits, Covered, Pinned, Guarded
  <2> QED
    BY <1>d, <2>1, <2>3
<1>10. ASSUME NEW c \in Clones, PushTags(c) PROVE Goal
  <2>1. UNCHANGED head
    BY <1>10 DEF PushTags, cloneVars
  <2>2. CASE Leave(c, "ok")
    BY <1>1, <2>1, <2>2
  <2>3. CASE ~Leave(c, "ok")
    <3>1. UNCHANGED <<made, plan, todo>> /\ pc'[c] = "rollback" /\ \A d \in Clones \ {c} : pc'[d] = pc[d]
      BY <1>10, <2>3 DEF PushTags, planVars, guardVars
    <3> QED
      BY <1>d, <1>e, <2>1, <3>1 DEF Guarded
  <2> QED
    BY <2>2, <2>3
<1>11. ASSUME NEW c \in Clones, Rollback(c) \/ Crash(c) \/ PushRelease(c) PROVE Goal
  <2>1. \A d \in Clones \ {c} : head'[d] = head[d]
    BY <1>11 DEF Rollback, Crash, PushRelease, cloneVars
  <2> QED
    BY <1>1, <1>11, <2>1 DEF Rollback, Crash, PushRelease
<1>12. ASSUME NEW c \in Clones, Release(c) PROVE Goal
  <2>1. UNCHANGED head
    BY <1>12 DEF Release
  <2>2. CASE Leave(c, "refused")
    BY <1>1, <2>1, <2>2
  <2>3. CASE ~Leave(c, "refused")
    <3>1. UNCHANGED <<plan, todo>> /\ pc'[c] = "pushrelease"
          /\ \A d \in Clones \ {c} : pc'[d] = pc[d] /\ made'[d] = made[d]
      BY <1>12, <2>3 DEF Release, planVars
    <3> QED
      BY <1>d, <1>e, <2>1, <3>1 DEF Guarded
  <2> QED
    BY <2>2, <2>3
<1>13. ASSUME NEW c \in Clones, Update(c) PROVE Goal
  <2>1. pc'[c] = "idle" /\ UNCHANGED <<pc, made, plan, todo>> /\ \A d \in Clones \ {c} : head'[d] = head[d]
    BY <1>13 DEF Update, guardVars, planVars
  <2> QED
    BY <1>d, <1>e, <2>1 DEF Guarded
<1> HIDE DEF Goal
<1>14. Goal
  BY <1>2, <1>3, <1>4, <1>5, <1>6, <1>7, <1>8, <1>9, <1>10, <1>11, <1>12, <1>13, Zenon DEF Next, Step
<1> QED
  BY <1>14 DEF Goal, WaveFits, Covered, Pinned, Moving, WavePinned, PlanIsClosed, NothingIsStuck, PinsFollow, Guarded

LEMMA NextInvariant == ASSUME IInv, [Next]_vars PROVE IInv'
<1>1. CASE Next
  <2>1. TypeOK' /\ FewTags'
    BY <1>1, TypeStep DEF IInv, PushesAreOnMain
  <2>2. HistoryIsClosed' /\ GuardIsClear'
    BY <1>1, HistoryStep, GuardStep DEF IInv, PushesAreOnMain
  <2>3. HeadIsPushed' /\ MadeAreOnHead'
    BY <1>1, HeadStep DEF IInv
  <2>4. TagsAreOnMain' /\ VersionsAreUnique'
    BY <1>1, RemoteStep DEF IInv
  <2>5. MadeOnce'
    BY <1>1, MadeStep DEF IInv, PushesAreOnMain
  <2>6. GuardKnowsTags' /\ CleanTree' /\ RolledBack'
    BY <1>1, RollbackStep DEF IInv
  <2>7. PlanIsClosed' /\ NothingIsStuck' /\ PinsFollow'
    BY <1>1, WaveStep DEF IInv
  <2> QED
    BY <2>1, <2>2, <2>3, <2>4, <2>5, <2>6, <2>7 DEF IInv, PushesAreOnMain
<1>2. CASE UNCHANGED vars
  <2>1. /\ UNCHANGED <<uses, commits, main, remoteTags, head, localTags, litter, pc, plan, todo>>
        /\ UNCHANGED <<made, initial, unpushed, exit, fetched, runs, edits, crashes>>
    BY <1>2 DEF vars, remoteVars, cloneVars, guardVars, planVars, counters
  <2>2. TypeOK' /\ FewTags'
    BY <2>1 DEF IInv, TypeOK, FewTags
  <2>3. \A n : Ancestors(n)' = Ancestors(n)
    BY <2>1 DEF Ancestors
  <2>4. HistoryIsClosed'
    BY <2>1, <2>3 DEF IInv, PushesAreOnMain, HistoryIsClosed
  <2>5. GuardIsClear' /\ HeadIsPushed'
    BY <2>1, <2>3 DEF IInv, PushesAreOnMain, GuardIsClear, HeadIsPushed
  <2>6. MadeAreOnHead' /\ TagsAreOnMain'
    BY <2>1, <2>3 DEF IInv, PushesAreOnMain, MadeAreOnHead, TagsAreOnMain
  <2>7. MadeOnce' /\ VersionsAreUnique'
    BY <2>1 DEF IInv, MadeOnce, VersionsAreUnique
  <2>8. GuardKnowsTags' /\ CleanTree' /\ RolledBack'
    BY <2>1, <2>3 DEF IInv, GuardKnowsTags, CleanTree, RolledBack
  <2>9. \A c : Planned(c)' = Planned(c) /\ Ready(todo[c])' = Ready(todo[c])
    BY <2>1 DEF Planned, Ready
  <2>10. \A S : Ready(S)' = Ready(S)
    BY <2>1 DEF Ready
  <2>11. PlanIsClosed' /\ NothingIsStuck'
    BY <2>1, <2>9, <2>10 DEF IInv, PlanIsClosed, NothingIsStuck
  <2>12. PinsFollow'
    BY <2>1, <2>9 DEF IInv, PinsFollow
  <2> QED
    BY <2>2, <2>4, <2>5, <2>6, <2>7, <2>8, <2>11, <2>12 DEF IInv, PushesAreOnMain
<1> QED
  BY <1>1, <1>2

LEMMA Invariance == Spec => []IInv
BY InitInvariant, NextInvariant, PTL DEF Spec

(* What is at the remote is sound, for any number of clones, edits and     *)
(* kills: every tag names a commit of main.                                *)
THEOREM RemoteIsSound == Spec => [](TypeOK /\ TagsAreOnMain)
<1>1. IInv => TypeOK /\ TagsAreOnMain
  BY DEF IInv, PushesAreOnMain
<1> QED
  BY <1>1, Invariance, PTL

(* A version names one commit for ever, however many clones publish it at  *)
(* the same time.                                                          *)
THEOREM VersionsNameOneCommit == Spec => []VersionsAreUnique
<1>1. IInv => VersionsAreUnique
  BY DEF IInv
<1> QED
  BY <1>1, Invariance, PTL

(* A failed package publish whose rollback could run its git commands      *)
(* leaves the clone with its tags, its manifests and a HEAD that main has. *)
THEOREM FailuresAreRolledBack == Spec => []RolledBack
<1>1. IInv => RolledBack
  BY DEF IInv
<1> QED
  BY <1>1, Invariance, PTL

(* What is pushed pins the versions it was published with, over dependency *)
(* graphs of any size and shape.                                           *)
THEOREM PushedPinsAreFresh == Spec => []PinsAreFresh
<1>1. ASSUME IInv PROVE PinsAreFresh
  <2> SUFFICES ASSUME NEW c \in Clones, pc[c] \in {"pushmain", "pushtags"},
                      NEW new \in made[c], NEW q \in Packages, new.pkg \in uses[q]
               PROVE  \E t \in made[c] : t.pkg = q /\ commits[t.commit].pins[q][new.pkg] >= new.version
    BY DEF PinsAreFresh
  <2>1. todo[c] = {} /\ q \in Planned(c)
    BY <1>1 DEF IInv, PlanIsClosed, Guarded
  <2>2. PICK t \in made[c] : t.pkg = q
    BY <1>1, <2>1 DEF IInv, PlanIsClosed, Guarded
  <2> QED
    BY <1>1, <2>2 DEF IInv, PinsFollow, Guarded
<1> QED
  BY <1>1, Invariance, PTL

(* The waves of a publish never get stuck.                                 *)
THEOREM WavesNeverStick == Spec => []WavesAdvance
<1>1. ASSUME IInv PROVE WavesAdvance
  BY <1>1 DEF IInv, NothingIsStuck, WavesAdvance
<1> QED
  BY <1>1, Invariance, PTL
=============================================================================

------------------------------ MODULE BuildProofs ------------------------------
(***************************************************************************)
(* Proofs about what a frozen build rests on: the closures recorded in the *)
(* manifests (FrozenBuild), for every registry, every set of manifests and *)
(* every order of the queue; and the package entries of the cache          *)
(* (PackageCache), for any number of processes, entries, files and         *)
(* crashes.  The two share no state.                                       *)
(***************************************************************************)
EXTENDS FrozenBuild, PackageCache, TLAPS

-----------------------------------------------------------------------------
(* FrozenBuild.                                                            *)

LEMMA ClosureType ==
  ASSUME TypeOK, NEW p \in Packages
  PROVE  RecordedClosure(manifests[p]) \in Selection
<1>1. manifests[p] \in WorkspaceManifest
  BY DEF TypeOK
<1>2. manifests[p].direct \in Selection /\ manifests[p].indirect \in Selection
  BY <1>1 DEF WorkspaceManifest
<1> QED BY <1>2 DEF RecordedClosure, Selection, Absent

LEMMA ManifestType ==
  ASSUME TypeOK, NEW id \in Ids, NEW v \in Versions
  PROVE  registry[id][v].direct \in Seq(Requirement)
<1>1. registry \in Registry
  BY DEF TypeOK
<1>2. registry[id][v] \in [loads : BOOLEAN, direct : Seq(Requirement), indirect : Seq(Requirement)]
  BY <1>1 DEF Registry
<1> QED BY <1>2

(* The children of a node that passes the lookup are well typed. *)
LEMMA ChildrenType ==
  ASSUME TypeOK, NEW node \in Node, \A id \in DirectIds(node) : Recorded(id)
  PROVE  Children(node) \subseteq Node
<1>1. \A id \in DirectIds(node) : id \in Ids /\ chosen[id] \in Versions
  <2>1. chosen \in Selection
    BY DEF TypeOK
  <2>2. DirectIds(node) \subseteq Ids
    <3>1. CASE node.kind = "workspace"
      BY <3>1 DEF DirectIds
    <3>2. CASE node.kind # "workspace"
      <4>1. node.id \in Ids /\ node.version \in Versions
        BY <3>2 DEF Node
      <4>2. registry[node.id][node.version].direct \in Seq(Requirement)
        BY <4>1, ManifestType
      <4>3. \A r \in Requirement : r.id \in Ids
        BY DEF Requirement
      <4> DEFINE d == registry[node.id][node.version].direct
      <4>4. \A i \in 1..Len(d) : d[i].id \in Ids
        <5> HIDE DEF d
        <5>1. d \in Seq(Requirement)
          BY <4>2 DEF d
        <5> QED BY <5>1, <4>3
      <4> QED BY <3>2, <4>4 DEF DirectIds
    <3> QED BY <3>1, <3>2
  <2> QED BY <2>1, <2>2 DEF Recorded, Selection
<1>2. node.kind = "workspace" => manifests[node.pkg].links \subseteq Packages
  <2> SUFFICES ASSUME node.kind = "workspace" PROVE manifests[node.pkg].links \subseteq Packages
    OBVIOUS
  <2>1. node.pkg \in Packages
    BY DEF Node
  <2>2. manifests[node.pkg] \in WorkspaceManifest
    BY <2>1 DEF TypeOK
  <2> QED BY <2>2 DEF WorkspaceManifest
<1>3. \A id \in DirectIds(node) : ChosenNode(id) \in Node
  BY <1>1 DEF ChosenNode, RemoteNode, Node
<1>4. node.kind = "workspace" => \A p \in manifests[node.pkg].links : WorkspaceNode(p) \in Node
  BY <1>2 DEF WorkspaceNode, Node
<1> QED BY <1>3, <1>4 DEF Children

LEMMA TypeStep ==
  ASSUME FrozenBuildAssumption, TypeOK, [Next]_vars
  PROVE  TypeOK'
<1>1. ASSUME NEW p \in Packages, Start(p) PROVE TypeOK'
  <2>1. chosen' \in Selection
    BY <1>1, ClosureType DEF Start, ClosureOf
  <2>2. todo' \subseteq Node
    BY <1>1 DEF Start, WorkspaceNode, Node
  <2> QED BY <1>1, <2>1, <2>2 DEF Start, TypeOK
<1>2. ASSUME NEW node \in todo, ResolveNode(node) PROVE TypeOK'
  <2>1. node \in Node
    BY DEF TypeOK
  <2>2. Children(node) \subseteq Node
    BY <1>2, <2>1, ChildrenType DEF ResolveNode
  <2> QED BY <1>2, <2>1, <2>2 DEF ResolveNode, TypeOK, Queued, Marked
<1>3. ASSUME NEW node \in todo, SkipSeen(node) \/ NodeMissing(node) \/ NodeFails(node) PROVE TypeOK'
  BY <1>3 DEF SkipSeen, NodeMissing, NodeFails, TypeOK
<1>4. CASE Finish
  BY <1>4 DEF Finish, TypeOK
<1>5. CASE UNCHANGED vars
  BY <1>5 DEF vars, TypeOK
<1> QED BY <1>1, <1>2, <1>3, <1>4, <1>5 DEF Next, Step

-----------------------------------------------------------------------------
(* A covered queue misses nothing: the lookups of its nodes succeed and    *)
(* their children are covered again.                                       *)

CoveredNode(T, node) ==
  IF node.kind = "workspace" THEN node.pkg \in T
  ELSE chosen[node.id] # Absent /\ node.version = chosen[node.id]

LEMMA CoveredLookup ==
  ASSUME TypeOK, ChosenIsRecorded, status # "idle",
         NEW T \in SUBSET Packages, Covers(T, root),
         NEW node \in Node, CoveredNode(T, node), NEW id \in DirectIds(node)
  PROVE  id \in Ids /\ chosen[id] # Absent
<1> DEFINE closure == RecordedClosure(manifests[root])
<1>1. chosen = closure
  BY DEF ChosenIsRecorded
<1>2. CASE node.kind = "workspace"
  <2>1. node.pkg \in T
    BY <1>2 DEF CoveredNode
  <2>2. id \in Ids \ StdlibIds /\ manifests[node.pkg].direct[id] # Absent
    BY <1>2 DEF DirectIds
  <2> QED BY <1>1, <2>1, <2>2 DEF Covers
<1>3. CASE node.kind # "workspace"
  <2>1. node.id \in Ids /\ node.version \in Versions
    BY <1>3 DEF Node
  <2>2. chosen[node.id] # Absent /\ node.version = chosen[node.id]
    BY <1>3 DEF CoveredNode
  <2>3. registry[node.id][node.version].direct \in Seq(Requirement)
    BY <2>1, ManifestType
  <2>4. PICK i \in 1..Len(registry[node.id][node.version].direct) :
          id = registry[node.id][node.version].direct[i].id
    BY <1>3 DEF DirectIds
  <2>5. id \notin StdlibIds
    BY DEF DirectIds
  <2>6. \A j \in 1..Len(registry[node.id][chosen[node.id]].direct) :
          \/ registry[node.id][chosen[node.id]].direct[j].id \in StdlibIds
          \/ chosen[registry[node.id][chosen[node.id]].direct[j].id] # Absent
    BY <1>1, <2>1, <2>2 DEF Covers
  <2>7. chosen[id] # Absent
    BY <2>2, <2>4, <2>5, <2>6
  <2>8. registry[node.id][node.version].direct[i] \in Requirement
    BY <2>3, <2>4
  <2>9. id \in Ids
    BY <2>4, <2>8 DEF Requirement
  <2> QED BY <2>7, <2>9
<1> QED BY <1>2, <1>3

LEMMA CoveredChildren ==
  ASSUME TypeOK, ChosenIsRecorded, status # "idle",
         NEW T \in SUBSET Packages, Covers(T, root),
         NEW node \in Node, CoveredNode(T, node), NEW child \in Children(node)
  PROVE  CoveredNode(T, child)
<1>1. CASE child \in {ChosenNode(id) : id \in DirectIds(node)}
  <2>1. PICK id \in DirectIds(node) : child = ChosenNode(id)
    BY <1>1
  <2>2. id \in Ids /\ chosen[id] # Absent
    BY CoveredLookup
  <2>3. child.kind = "remote" /\ child.id = id /\ child.version = chosen[id]
    BY <2>1 DEF ChosenNode, RemoteNode
  <2> QED BY <2>2, <2>3 DEF CoveredNode
<1>2. CASE /\ node.kind = "workspace"
           /\ child \in {WorkspaceNode(p) : p \in manifests[node.pkg].links}
  <2>1. PICK p \in manifests[node.pkg].links : child = WorkspaceNode(p)
    BY <1>2
  <2>2. child.kind = "workspace" /\ child.pkg = p
    BY <2>1 DEF WorkspaceNode
  <2>3. node.pkg \in T
    BY <1>2 DEF CoveredNode
  <2>4. p \in T
    BY <2>1, <2>3 DEF Covers
  <2> QED BY <2>2, <2>4 DEF CoveredNode
<1> QED BY <1>1, <1>2 DEF Children

LEMMA CoveredStep ==
  ASSUME FrozenBuildAssumption, TypeOK, ChosenIsRecorded, QueueIsCovered,
         SufficientNeverMisses, [Next]_vars
  PROVE  (ChosenIsRecorded /\ QueueIsCovered /\ SufficientNeverMisses)'
<1>1. ASSUME NEW p \in Packages, Start(p)
      PROVE  (ChosenIsRecorded /\ QueueIsCovered /\ SufficientNeverMisses)'
  <2>1. ChosenIsRecorded'
    BY <1>1 DEF Start, ChosenIsRecorded, ClosureOf, RecordedClosure
  <2>2. QueueIsCovered'
    <3>1. /\ todo' = {WorkspaceNode(p)} /\ root' = p
      BY <1>1 DEF Start
    <3>2. ASSUME NEW T \in SUBSET Packages, Covers(T, root)' PROVE p \in T
      BY <3>1, <3>2 DEF Covers
    <3>3. \A node \in todo' : node.kind = "workspace" /\ node.pkg = p
      BY <3>1 DEF WorkspaceNode
    <3> QED
      BY <3>2, <3>3 DEF QueueIsCovered
  <2>3. SufficientNeverMisses'
    BY <1>1 DEF Start, SufficientNeverMisses
  <2> QED BY <2>1, <2>2, <2>3
<1>2. ASSUME UNCHANGED <<registry, manifests, root, chosen>>, status # "idle"
      PROVE  /\ ChosenIsRecorded'
             /\ \A T \in SUBSET Packages : Covers(T, root)' = Covers(T, root)
             /\ Sufficient(root)' = Sufficient(root)
             /\ \A T, node : CoveredNode(T, node)' = CoveredNode(T, node)
  <2>1. RecordedClosure(manifests[root])' = RecordedClosure(manifests[root])
    BY <1>2 DEF RecordedClosure
  <2>2. \A T \in SUBSET Packages : Covers(T, root)' = Covers(T, root)
    BY <1>2, <2>1 DEF Covers
  <2>3. Sufficient(root)' = Sufficient(root)
    BY <2>2 DEF Sufficient
  <2>4. \A T, node : CoveredNode(T, node)' = CoveredNode(T, node)
    BY <1>2 DEF CoveredNode
  <2> QED BY <1>2, <2>1, <2>2, <2>3, <2>4 DEF ChosenIsRecorded
<1>3. ASSUME NEW node \in todo, ResolveNode(node)
      PROVE  (ChosenIsRecorded /\ QueueIsCovered /\ SufficientNeverMisses)'
  <2>1. /\ UNCHANGED <<registry, manifests, root, chosen>> /\ status' = status
        /\ status = "building" /\ todo' = (todo \ {node}) \cup Children(node)
    BY <1>3 DEF ResolveNode, Queued
  <2>2. QueueIsCovered'
    <3> SUFFICES ASSUME NEW T \in SUBSET Packages, Covers(T, root), NEW n \in todo'
                 PROVE  CoveredNode(T, n)
      BY <1>2, <2>1 DEF QueueIsCovered, CoveredNode
    <3>1. \A m \in todo : CoveredNode(T, m)
      BY <2>1 DEF QueueIsCovered, CoveredNode
    <3>2. node \in Node
      BY DEF TypeOK
    <3>3. CASE n \in Children(node)
      BY <2>1, <3>1, <3>2, <3>3, CoveredChildren
    <3> QED BY <2>1, <3>1, <3>3
  <2>3. SufficientNeverMisses'
    BY <1>2, <2>1 DEF SufficientNeverMisses
  <2> QED BY <1>2, <2>1, <2>2, <2>3
<1>4. ASSUME NEW node \in todo, NodeMissing(node)
      PROVE  (ChosenIsRecorded /\ QueueIsCovered /\ SufficientNeverMisses)'
  <2>1. /\ UNCHANGED <<registry, manifests, root, chosen, todo>> /\ status' = "missing"
        /\ status = "building" /\ \E id \in DirectIds(node) : chosen[id] = Absent
    BY <1>4 DEF NodeMissing, Recorded
  <2>2. ~Sufficient(root)
    <3> SUFFICES ASSUME NEW T \in SUBSET Packages, Covers(T, root) PROVE FALSE
      BY DEF Sufficient
    <3>1. CoveredNode(T, node) /\ node \in Node
      BY <2>1 DEF QueueIsCovered, CoveredNode, TypeOK
    <3> QED BY <2>1, <3>1, CoveredLookup
  <2>3. QueueIsCovered'
    BY <1>2, <2>1 DEF QueueIsCovered, CoveredNode
  <2> QED BY <1>2, <2>1, <2>2, <2>3 DEF SufficientNeverMisses
<1>5. ASSUME (\E node \in todo : SkipSeen(node) \/ NodeFails(node)) \/ Finish
      PROVE  (ChosenIsRecorded /\ QueueIsCovered /\ SufficientNeverMisses)'
  <2>1. /\ UNCHANGED <<registry, manifests, root, chosen>> /\ todo' \subseteq todo
        /\ status = "building" /\ status' # "missing"
    BY <1>5 DEF SkipSeen, NodeFails, Finish
  <2>2. QueueIsCovered'
    BY <1>2, <2>1 DEF QueueIsCovered, CoveredNode
  <2> QED BY <1>2, <2>1, <2>2 DEF SufficientNeverMisses
<1>6. CASE UNCHANGED vars
  <2>1. UNCHANGED <<registry, manifests, root, chosen, todo, status>>
    BY <1>6 DEF vars
  <2>2. CASE status = "idle"
    BY <2>1, <2>2 DEF ChosenIsRecorded, QueueIsCovered, SufficientNeverMisses
  <2>3. CASE status # "idle"
    <3>1. QueueIsCovered'
      BY <1>2, <2>1, <2>3 DEF QueueIsCovered, CoveredNode
    <3> QED BY <1>2, <2>1, <2>3, <3>1 DEF SufficientNeverMisses
  <2> QED BY <2>2, <2>3
<1> QED BY <1>1, <1>3, <1>4, <1>5, <1>6 DEF Next, Step

-----------------------------------------------------------------------------
(* In every reachable state of a build the queue holds only packages that  *)
(* a covering set holds and versions the closure records.                  *)
THEOREM BuildInvariant ==
  Spec => [](TypeOK /\ ChosenIsRecorded /\ QueueIsCovered /\ SufficientNeverMisses)
<1>1. Init => TypeOK /\ ChosenIsRecorded /\ QueueIsCovered /\ SufficientNeverMisses
  BY FrozenBuildAssumption
     DEF Init, TypeOK, FrozenBuildAssumption, ChosenIsRecorded, QueueIsCovered,
         SufficientNeverMisses, Selection
<1>2. TypeOK /\ ChosenIsRecorded /\ QueueIsCovered /\ SufficientNeverMisses /\ [Next]_vars
        => (TypeOK /\ ChosenIsRecorded /\ QueueIsCovered /\ SufficientNeverMisses)'
  BY FrozenBuildAssumption, TypeStep, CoveredStep
<1> QED BY <1>1, <1>2, PTL DEF Spec

(* From manifests whose recorded closure covers the packages and versions  *)
(* below the root, no build stops with "Resolved closure is missing ...".  *)
THEOREM SufficientManifestsBuild == Spec => []SufficientNeverMisses
BY BuildInvariant, PTL

-----------------------------------------------------------------------------
(* Nothing a build resolved is forgotten: what a resolved node refers to   *)
(* is resolved or queued, with the closure it was looked up in.  A failed  *)
(* build keeps the fact, so that a later Start alone resets it.            *)
NothingForgotten ==
  status # "idle" => \A node \in seen : Children(node) \subseteq seen \cup todo

LEMMA ForgottenStep ==
  ASSUME NothingForgotten, BuiltIsComplete, [Next]_vars
  PROVE  (NothingForgotten /\ BuiltIsComplete)'
<1>1. ASSUME NEW p \in Packages, Start(p) PROVE (NothingForgotten /\ BuiltIsComplete)'
  BY <1>1 DEF Start, NothingForgotten, BuiltIsComplete
<1>2. ASSUME UNCHANGED <<registry, manifests, chosen>>
      PROVE  \A node : Children(node)' = Children(node)
  <2>1. \A node : DirectIds(node)' = DirectIds(node)
    BY <1>2 DEF DirectIds
  <2> QED BY <1>2, <2>1 DEF Children, ChosenNode
<1>3. ASSUME NEW node \in todo, ResolveNode(node)
      PROVE  (NothingForgotten /\ BuiltIsComplete)'
  <2>1. /\ UNCHANGED <<registry, manifests, chosen>> /\ status' = "building"
        /\ status = "building" /\ seen' = seen \cup {node}
        /\ todo' = (todo \ {node}) \cup Children(node)
    BY <1>3 DEF ResolveNode, Queued, Marked
  <2>2. ASSUME NEW n \in seen' PROVE Children(n) \subseteq seen' \cup todo'
    <3>1. CASE n = node
      BY <2>1, <3>1
    <3>2. CASE n \in seen
      BY <2>1, <3>2 DEF NothingForgotten
    <3> QED BY <2>1, <3>1, <3>2
  <2> QED BY <1>2, <2>1, <2>2 DEF NothingForgotten, BuiltIsComplete
<1>4. ASSUME NEW node \in todo, SkipSeen(node)
      PROVE  (NothingForgotten /\ BuiltIsComplete)'
  <2>1. /\ UNCHANGED <<registry, manifests, chosen, seen>> /\ status' = "building"
        /\ status = "building" /\ node \in seen /\ todo' = todo \ {node}
    BY <1>4 DEF SkipSeen
  <2> QED BY <1>2, <2>1 DEF NothingForgotten, BuiltIsComplete
<1>5. ASSUME NEW node \in todo, NodeMissing(node) \/ NodeFails(node)
      PROVE  (NothingForgotten /\ BuiltIsComplete)'
  <2>1. /\ UNCHANGED <<registry, manifests, chosen, seen, todo>> /\ status = "building"
        /\ status' # "built"
    BY <1>5 DEF NodeMissing, NodeFails
  <2> QED BY <1>2, <2>1 DEF NothingForgotten, BuiltIsComplete
<1>6. CASE Finish
  <2>1. /\ UNCHANGED <<registry, manifests, chosen, seen, todo>> /\ status = "building"
        /\ todo = {}
    BY <1>6 DEF Finish
  <2> QED BY <1>2, <2>1 DEF NothingForgotten, BuiltIsComplete
<1>7. CASE UNCHANGED vars
  <2>1. UNCHANGED <<registry, manifests, chosen, seen, todo, status>>
    BY <1>7 DEF vars
  <2> QED BY <1>2, <2>1 DEF NothingForgotten, BuiltIsComplete
<1> QED BY <1>1, <1>3, <1>4, <1>5, <1>6, <1>7 DEF Next, Step

(* A build that finishes has resolved every package and version its nodes  *)
(* depend on, in whatever order the queue was read and whatever builds,    *)
(* failed or finished, came before it in the same process.                 *)
THEOREM FinishedBuildsAreComplete == Spec => []BuiltIsComplete
<1>1. Init => NothingForgotten /\ BuiltIsComplete
  BY DEF Init, NothingForgotten, BuiltIsComplete
<1>2. NothingForgotten /\ BuiltIsComplete /\ [Next]_vars => (NothingForgotten /\ BuiltIsComplete)'
  BY ForgottenStep
<1> QED BY <1>1, <1>2, PTL DEF Spec

-----------------------------------------------------------------------------
(* PackageCache.                                                           *)

CacheInv == CacheTypeOK /\ Inv /\ IndexedIsComplete

(* The state predicates are visible in every step below; each step adds    *)
(* the action it is about.                                                 *)
USE PackageCacheAssumption
DEF Nobody, Busy, Fetching, HasMarker, Complete, CacheInv, CacheTypeOK, Inv, HoldersMatch,
    CleanSawNoMarker, HashedIsThere, IndexedIsComplete

LEMMA CacheInitInvariant == CacheInit => CacheInv
BY DEF CacheInit

(* The index row of an entry whose tag carries hashes is written with the  *)
(* hash of all files, and nothing is removed below a marker.               *)
LEMMA RecordKeepsCache == ASSUME NEW p \in Procs, CacheInv, Record(p) PROVE CacheInv'
<1> USE DEF Record, Goto, Own, RecordedHash
<1>1. /\ pc[p] = "record" /\ indexed' = [indexed EXCEPT ![entry[p]] = hashed[p]]
      /\ pc' = [pc EXCEPT ![p] = "ok"]
      /\ UNCHANGED <<unpacked, tagged, locked, srcLocked, hashed, fetched, entry, calls, crashes>>
  OBVIOUS
<1>2. CacheTypeOK'
  BY <1>1
<1>3. Inv'
  BY <1>1
<1>4. ASSUME NEW e \in tagged', indexed'[e] # 0 PROVE indexed'[e] = Files /\ unpacked'[e] = Files
  <2>1. CASE e = entry[p]
    <3>1. hashed[p] = Files /\ hashed[p] <= unpacked[e] /\ unpacked[e] \in 0..Files
      BY <1>1, <2>1
    <3> QED
      BY <1>1, <2>1, <3>1
  <2>2. CASE e # entry[p]
    BY <1>1, <1>4, <2>2
  <2> QED
    BY <2>1, <2>2
<1> QED
  BY <1>2, <1>3, <1>4

LEMMA CacheNextInvariant == CacheInv /\ [CacheNext]_cacheVars => CacheInv'
<1> SUFFICES ASSUME CacheInv, [CacheNext]_cacheVars PROVE CacheInv'
  OBVIOUS
<1> USE DEF Goto, Own, shared, Released, AlreadyThere, HashesMatch
<1>0. CASE UNCHANGED cacheVars
  BY <1>0 DEF cacheVars
<1>1. ASSUME NEW p \in Procs, NEW e \in Entries, Call(p, e) PROVE CacheInv'
  BY <1>1 DEF Call
<1>2. ASSUME NEW p \in Procs, Probe(p) \/ CheckIndex(p) \/ FastPath(p) PROVE CacheInv'
  BY <1>2 DEF Probe, CheckIndex, FastPath
<1>3. ASSUME NEW p \in Procs, Lock(p) PROVE CacheInv'
  BY <1>3 DEF Lock
<1>4. ASSUME NEW p \in Procs, DoubleCheck(p) PROVE CacheInv'
  BY <1>4 DEF DoubleCheck
<1>5. ASSUME NEW p \in Procs, Clean(p) PROVE CacheInv'
  BY <1>5 DEF Clean
<1>6. ASSUME NEW p \in Procs, Source(p) \/ LockSource(p) \/ Fetch(p) PROVE CacheInv'
  BY <1>6 DEF Source, LockSource, Fetch
<1>7. ASSUME NEW p \in Procs, Unpack(p) PROVE CacheInv'
  BY <1>7 DEF Unpack
<1>8. ASSUME NEW p \in Procs, Unpacked(p) PROVE CacheInv'
  BY <1>8 DEF Unpacked
<1>9. ASSUME NEW p \in Procs, FetchFails(p) PROVE CacheInv'
  BY <1>9 DEF FetchFails
<1>10. ASSUME NEW p \in Procs, Hash(p) \/ Verify(p) PROVE CacheInv'
  BY <1>10 DEF Hash, Verify
<1>11. ASSUME NEW p \in Procs, Record(p) PROVE CacheInv'
  BY <1>11, RecordKeepsCache
<1>12. ASSUME NEW p \in Procs, Crash(p) PROVE CacheInv'
  BY <1>12 DEF Crash
<1> QED
  BY <1>0, <1>1, <1>2, <1>3, <1>4, <1>5, <1>6, <1>7, <1>8, <1>9, <1>10, <1>11, <1>12 DEF
     CacheNext, CacheStep

(* Types, the lock discipline and what a process may rely on between two   *)
(* of its steps hold in every reachable state of the cache.                *)
THEOREM CacheInvariant == CacheSpec => [](CacheTypeOK /\ Inv)
<1>1. CacheInv => CacheTypeOK /\ Inv
  OBVIOUS
<1> QED
  BY <1>1, CacheInitInvariant, CacheNextInvariant, PTL DEF CacheSpec

(* The index never records an unfinished entry whose tag carries hashes,   *)
(* whatever crashes and failures the fetching processes suffer.            *)
THEOREM IndexIsTrustworthy == CacheSpec => []IndexedIsComplete
<1>1. CacheInv => IndexedIsComplete
  OBVIOUS
<1> QED
  BY <1>1, CacheInitInvariant, CacheNextInvariant, PTL DEF CacheSpec

(* Nothing is removed from an entry that has its marker: the clean-up that *)
(* precedes a fetch only ever meets an entry without one.                  *)
THEOREM EntriesAreKept == CacheSpec => MarkedIsKept
<1> DEFINE Kept == \A e \in Entries : HasMarker(e) => unpacked'[e] >= unpacked[e]
<1>1. CacheInv /\ [CacheNext]_cacheVars => [Kept]_cacheVars
  <2> SUFFICES ASSUME CacheInv, CacheNext PROVE Kept
    BY DEF cacheVars
  <2>1. ASSUME NEW p \in Procs, Clean(p) PROVE Kept
    BY <2>1 DEF Clean
  <2>2. ASSUME NEW p \in Procs, Unpack(p) PROVE Kept
    BY <2>2 DEF Unpack
  <2>3. CASE UNCHANGED unpacked
    BY <2>3
  <2>4. \/ \E p \in Procs : Clean(p) \/ Unpack(p)
        \/ UNCHANGED unpacked
    BY DEF CacheNext, CacheStep, Call, Probe, CheckIndex, FastPath, Lock, DoubleCheck, Source,
       LockSource, Fetch,
           Unpacked, FetchFails, Hash, Verify, Record, Crash, shared
  <2> QED
    BY <2>1, <2>2, <2>3, <2>4
<1> QED
  BY <1>1, CacheInitInvariant, CacheNextInvariant, PTL DEF CacheSpec, MarkedIsKept
=============================================================================

-------------------------- MODULE PackageIndexProofs --------------------------
(***************************************************************************)
(* Proofs about PackageIndex for any number of processes, paths, lookups,  *)
(* versions and faults.                                                    *)
(***************************************************************************)
EXTENDS PackageIndex, TLAPS

Rows == {i \in Paths : table[i] # 0}

(* What is read or stored was tagged, and holds what was always tagged.    *)
HasOldest(l) == \A i \in Oldest : l[i] # 0
AtMost(l) == \A i \in Paths : l[i] <= tags[i]
Copies ==
  /\ HasOldest(tags) /\ AtMost(clone) /\ AtMost(table)
  /\ fetched # {} => HasOldest(clone)
  /\ \A p \in Procs : AtMost(list[p])
  /\ \A p \in Procs : pc[p] = "list" => HasOldest(clone)
  /\ \A p \in Procs : pc[p] \in {"delete", "insert"} => HasOldest(list[p])

(* Before the first delete there is nothing in the table.                  *)
EmptyAtFirst == rows = "none" => Rows = {} /\ Inserting = {} /\ again = {}

(* A package without a row will be reached by an inserting process that is *)
(* already past the rows in front of it, so that none of them stops it.    *)
Missing == {i \in Oldest : table[i] = 0}
Covered ==
  rows = "whole" =>
    \A i \in Missing, j \in {0} \cup Rows :
      j < i => \E q \in Inserting : j < step[q] /\ step[q] <= i

(* Who was not disturbed is alone with the table.                          *)
AloneWhileLooking ==
  \A p \in Procs \ disturbed : pc[p] = "look" => Inserting = {} /\ rows # "torn"
AloneWhileInserting ==
  \A p \in Procs \ disturbed : pc[p] = "insert" => Inserting = {p}
PassedAreNoPackages ==
  \A p \in Procs \ disturbed :
    pc[p] = "look" /\ rows # "none" =>
      \A n \in 1..Len(Asked(p)) : n < step[p] => Asked(p)[n] \notin Oldest

IInv ==
  /\ TypeOK /\ Copies /\ EmptyAtFirst /\ Covered
  /\ AloneWhileLooking /\ AloneWhileInserting /\ PassedAreNoPackages
  /\ AloneNeverCollides /\ UndisturbedIsNearest /\ AnswersAreTagged

(* The directories, which few steps are about, are kept out of the rest.   *)
LEMMA Bounds == /\ Count \in Nat /\ Oldest \subseteq Paths
                /\ MaxVersion \in Nat \ {0} /\ MaxCalls \in Nat /\ MaxFaults \in Nat
BY PackageIndexAssumption DEF PackageIndexAssumption

USE Bounds DEF Versions, Busy, Refilling, Goto, repo, history

LEMMA DirectoriesArePaths ==
  ASSUME TypeOK, NEW p \in Procs
  PROVE  /\ Len(Asked(p)) \in Nat
         /\ \A n \in 1..Len(Asked(p)) : Asked(p)[n] \in Paths
<1>1. Asked(p) \in Seq(Paths)
  BY PackageIndexAssumption DEF PackageIndexAssumption, TypeOK, Asked
<1> QED
  BY <1>1

(* At rest nothing can be missing.                                         *)
LEMMA CoveredSettles == IInv => TableSettles
<1> SUFFICES ASSUME IInv, rows = "whole", Inserting = {}, NEW i \in Oldest, table[i] = 0
             PROVE FALSE
  BY DEF TableSettles
<1>1. i \in Missing /\ 0 < i /\ 0 \in {0} \cup Rows
  BY DEF Missing, Paths
<1> QED
  BY <1>1 DEF IInv, Covered

LEMMA InitInvariant == Init => IInv
<1> SUFFICES ASSUME Init PROVE IInv
  OBVIOUS
<1> USE DEF Init, NoTags
<1>1. TypeOK
  BY DEF TypeOK
<1>2. Copies
  BY DEF Copies, HasOldest, AtMost
<1>3. EmptyAtFirst /\ Covered
  BY DEF EmptyAtFirst, Covered, Rows, Inserting
<1>4. AloneWhileLooking /\ AloneWhileInserting /\ PassedAreNoPackages
  BY DEF AloneWhileLooking, AloneWhileInserting, PassedAreNoPackages
<1>5. AloneNeverCollides /\ UndisturbedIsNearest /\ AnswersAreTagged
  BY DEF AloneNeverCollides, UndisturbedIsNearest, AnswersAreTagged
<1> QED
  BY <1>1, <1>2, <1>3, <1>4, <1>5 DEF IInv

(* Every action keeps the types and the copies honest.                     *)
LEMMA TypesAreKept == ASSUME IInv, Next PROVE TypeOK'
<1> USE DEF IInv, TypeOK
<1>1. ASSUME NEW p \in Procs, NEW f \in Files, Call(p, f) PROVE TypeOK'
  BY <1>1 DEF Call, WatchedBy
<1>2. ASSUME NEW p \in Procs, Hit(p) PROVE TypeOK'
  <2>1. step[p] \in 1..Len(Asked(p))
    BY <1>2, DirectoriesArePaths DEF Hit
  <2>2. Asked(p)[step[p]] \in Paths
    BY <2>1, DirectoriesArePaths
  <2>3. table[Asked(p)[step[p]]] \in Versions
    BY <2>2
  <2> QED
    BY <1>2, <2>3 DEF Hit
<1>3. ASSUME NEW p \in Procs, Miss(p) \/ NotCovered(p) PROVE TypeOK'
  <2>1. step[p] + 1 \in Nat \ {0}
    OBVIOUS
  <2> QED
    BY <1>3, <2>1, ZenonT(60) DEF Miss, NotCovered
<1>4. ASSUME NEW p \in Procs, Fetch(p) \/ FetchFails(p) \/ List(p) PROVE TypeOK'
  BY <1>4, ZenonT(60) DEF Fetch, FetchFails, List
<1>5. ASSUME NEW p \in Procs, Delete(p) PROVE TypeOK'
  BY <1>5 DEF Delete, NoTags
<1>6. ASSUME NEW p \in Procs, NEW i \in Paths, Insert(p, i) \/ Collide(p, i) PROVE TypeOK'
  <2>1. list[p][i] \in Versions /\ i + 1 \in Nat \ {0}
    BY DEF Paths
  <2>2. CASE Insert(p, i)
    BY <2>1, <2>2 DEF Insert
  <2>3. CASE Collide(p, i)
    BY <2>3 DEF Collide
  <2> QED
    BY <1>6, <2>2, <2>3
<1>7. ASSUME NEW p \in Procs, LookAgain(p) PROVE TypeOK'
  BY <1>7 DEF LookAgain, WatchedBy
<1>8. ASSUME NEW p \in Procs, StatementFails(p) \/ Crash(p) PROVE TypeOK'
  BY <1>8 DEF StatementFails, Crash
<1>9. ASSUME NEW i \in Paths, Publish(i) PROVE TypeOK'
  BY <1>9 DEF Publish
<1> QED
  BY <1>1, <1>2, <1>3, <1>4, <1>5, <1>6, <1>7, <1>8, <1>9 DEF Next, Step

LEMMA CopiesAreKept == ASSUME IInv, Next PROVE Copies'
<1> USE DEF IInv, TypeOK, Copies, HasOldest, AtMost
<1>1. ASSUME NEW p \in Procs, NEW f \in Files, Call(p, f) PROVE Copies'
  BY <1>1 DEF Call
<1>2. ASSUME NEW p \in Procs, Hit(p) \/ Miss(p) \/ NotCovered(p) PROVE Copies'
  BY <1>2 DEF Hit, Miss, NotCovered
<1>3. ASSUME NEW p \in Procs, Fetch(p) PROVE Copies'
  BY <1>3 DEF Fetch
<1>4. ASSUME NEW p \in Procs, FetchFails(p) \/ List(p) PROVE Copies'
  BY <1>4 DEF FetchFails, List
<1>5. ASSUME NEW p \in Procs, Delete(p) PROVE Copies'
  BY <1>5 DEF Delete, NoTags
<1>6. ASSUME NEW p \in Procs, NEW i \in Paths, Insert(p, i) \/ Collide(p, i) PROVE Copies'
  BY <1>6 DEF Insert, Collide
<1>7. ASSUME NEW p \in Procs, LookAgain(p) \/ StatementFails(p) \/ Crash(p) PROVE Copies'
  BY <1>7 DEF LookAgain, StatementFails, Crash
<1>8. ASSUME NEW i \in Paths, Publish(i) PROVE Copies'
  BY <1>8 DEF Publish
<1> QED
  BY <1>1, <1>2, <1>3, <1>4, <1>5, <1>6, <1>7, <1>8 DEF Next, Step

(* The steps that leave the table and the inserting processes alone.       *)
LEMMA CoverIsKeptElsewhere ==
  ASSUME IInv, UNCHANGED table,
         (rows' = rows /\ Inserting' = Inserting) \/ rows' = "torn",
         \A q \in Inserting : step'[q] = step[q]
  PROVE  Covered'
BY DEF IInv, Covered, Missing, Rows

(* An insert adds a row and moves its process past it; a collision takes   *)
(* away a process that stands at a row, where another one must be ahead.   *)
LEMMA CoverIsKeptByInsert ==
  ASSUME IInv, NEW p \in Procs, NEW k \in Paths, Insert(p, k) PROVE Covered'
<1> SUFFICES ASSUME rows = "whole", NEW i \in Missing', NEW j \in ({0} \cup Rows)', j < i
             PROVE \E q \in Inserting' : j < step'[q] /\ step'[q] <= i
  BY DEF Covered, Insert, history
<1> USE DEF IInv, TypeOK, Insert
<1>1. /\ i \in Missing /\ i # k /\ Inserting' = Inserting /\ p \in Inserting
      /\ step'[p] = k + 1 /\ \A q \in Inserting : q # p => step'[q] = step[q]
  BY DEF Missing, Inserting, Rest, Paths
<1>2. j \in {0} \cup Rows \/ j = k
  BY DEF Rows
<1>3. ASSUME step[p] <= i PROVE k + 1 <= i
  <2>1. i \in Rest(p)
    BY <1>1, <1>3 DEF Rest, Copies, HasOldest, Missing
  <2> QED
    BY <2>1, <1>1 DEF Paths
<1>4. step[p] <= k
  BY DEF Rest
<1>5. CASE j = k
  <2>1. k < i /\ k \in Nat /\ i \in Nat /\ step[p] \in Nat
    BY <1>1, <1>5 DEF Missing, Paths, Inserting
  <2>2. k + 1 <= i
    BY <2>1, <1>3, <1>4
  <2> QED
    BY <2>1, <2>2, <1>1, <1>5
<1>6. CASE j # k
  <2>1. PICK q \in Inserting : j < step[q] /\ step[q] <= i
    BY <1>1, <1>2, <1>6 DEF Covered
  <2>2. CASE q = p
    BY <2>1, <2>2, <1>1, <1>3, <1>4 DEF Paths
  <2>3. CASE q # p
    BY <2>1, <2>3, <1>1
  <2> QED
    BY <2>2, <2>3
<1> QED
  BY <1>5, <1>6

LEMMA CoverIsKeptByCollide ==
  ASSUME IInv, NEW p \in Procs, NEW k \in Paths, Collide(p, k) PROVE Covered'
<1> SUFFICES ASSUME rows = "whole", NEW i \in Missing, NEW j \in {0} \cup Rows, j < i
             PROVE \E q \in Inserting' : j < step[q] /\ step[q] <= i
  BY DEF Covered, Collide, history, Missing, Rows
<1> USE DEF IInv, TypeOK, Collide
<1>1. /\ Inserting' = Inserting \ {p} /\ k \in Rows /\ k # i /\ step[p] <= k
  BY DEF Inserting, Rows, Rest, Missing
<1>2. PICK q \in Inserting : j < step[q] /\ step[q] <= i
  BY DEF Covered
<1>3. CASE q # p
  BY <1>1, <1>2, <1>3
<1>4. CASE q = p
  <2>1. i \in Rest(p)
    BY <1>2, <1>4 DEF Rest, Copies, HasOldest, Missing, Inserting
  <2>2. k < i
    BY <2>1, <1>1 DEF Rows, Paths
  <2>3. PICK r \in Inserting : k < step[r] /\ step[r] <= i
    BY <2>2, <1>1 DEF Covered
  <2> QED
    <3>1. /\ j \in Nat /\ k \in Nat /\ step[p] \in Nat /\ step[r] \in Nat
      BY DEF Rows, Paths, Inserting
    <3>2. j < step[r] /\ r # p
      BY <3>1, <2>3, <1>1, <1>2, <1>4
    <3> QED
      BY <3>2, <2>3, <1>1
<1> QED
  BY <1>3, <1>4

LEMMA CoverIsKept == ASSUME IInv, Next PROVE Covered' /\ EmptyAtFirst'
<1> USE DEF IInv, TypeOK, EmptyAtFirst, Rows, Inserting
<1>1. ASSUME NEW p \in Procs, NEW f \in Files, Call(p, f) PROVE Covered' /\ EmptyAtFirst'
  <2>1. Inserting' = Inserting /\ \A q \in Inserting : step'[q] = step[q]
    BY <1>1 DEF Call
  <2> QED
    BY <1>1, <2>1, CoverIsKeptElsewhere DEF Call
<1>2. ASSUME NEW p \in Procs, Hit(p) \/ Miss(p) \/ NotCovered(p) \/ Fetch(p) \/ FetchFails(p) \/ List(p)
      PROVE Covered' /\ EmptyAtFirst'
  <2>1. UNCHANGED table /\ rows' = rows
    BY <1>2 DEF Hit, Miss, NotCovered, Fetch, FetchFails, List
  <2>2. Inserting' = Inserting /\ \A q \in Inserting : step'[q] = step[q]
    BY <1>2 DEF Hit, Miss, NotCovered, Fetch, FetchFails, List
  <2>3. rows' = "none" => again' = again
    BY <1>2 DEF Hit, Miss, NotCovered, Fetch, FetchFails, List
  <2>4. EmptyAtFirst'
    BY <2>1, <2>2, <2>3
  <2>5. Covered'
    BY <2>1, <2>2, CoverIsKeptElsewhere
  <2> QED
    BY <2>4, <2>5
<1>3. ASSUME NEW p \in Procs, Delete(p) PROVE Covered' /\ EmptyAtFirst'
  <2>1. Rows' = {} /\ p \in Inserting' /\ step'[p] = 1
    BY <1>3 DEF Delete, NoTags
  <2> QED
    <3>1. rows' = "whole"
      BY <1>3 DEF Delete
    <3>2. \A i \in Oldest : 0 < 1 /\ 1 <= i
      BY DEF Paths
    <3> QED
      BY <2>1, <3>1, <3>2 DEF Covered, Missing
<1>4. ASSUME NEW p \in Procs, NEW i \in Paths, Insert(p, i) PROVE Covered' /\ EmptyAtFirst'
  BY <1>4, CoverIsKeptByInsert DEF Insert
<1>5. ASSUME NEW p \in Procs, NEW i \in Paths, Collide(p, i) PROVE Covered' /\ EmptyAtFirst'
  BY <1>5, CoverIsKeptByCollide DEF Collide
<1>6. ASSUME NEW p \in Procs, LookAgain(p) PROVE Covered' /\ EmptyAtFirst'
  <2>1. rows # "none" /\ UNCHANGED <<table, rows>> /\ Inserting' = Inserting \ {p}
    BY <1>6 DEF LookAgain
  <2>2. \A i \in Missing : ~(step[p] <= i)
    BY <1>6 DEF LookAgain, Rest, Copies, HasOldest, Missing
  <2>3. \A q \in Inserting : q # p => step'[q] = step[q]
    BY <1>6 DEF LookAgain
  <2>4. Covered'
    BY <2>1, <2>2, <2>3 DEF Covered, Missing
  <2> QED
    BY <2>1, <2>4
<1>7. ASSUME NEW p \in Procs, StatementFails(p) \/ Crash(p) PROVE Covered' /\ EmptyAtFirst'
  <2>1. /\ UNCHANGED <<table, step, again>>
        /\ (rows' = rows /\ Inserting' = Inserting) \/ rows' = "torn"
        /\ Inserting' \subseteq Inserting
    BY <1>7 DEF StatementFails, Crash
  <2> QED
    BY <2>1, CoverIsKeptElsewhere
<1>8. ASSUME NEW i \in Paths, Publish(i) PROVE Covered' /\ EmptyAtFirst'
  <2>1. Inserting' = Inserting
    BY <1>8 DEF Publish
  <2> QED
    BY <1>8, <2>1, CoverIsKeptElsewhere DEF Publish
<1> QED
  BY <1>1, <1>2, <1>3, <1>4, <1>5, <1>6, <1>7, <1>8 DEF Next, Step

(* Who was not disturbed.                                                  *)
LEMMA LonersAreKept ==
  ASSUME IInv, Next PROVE AloneWhileLooking' /\ AloneWhileInserting' /\ AloneNeverCollides'
<1> USE DEF IInv, TypeOK, Inserting, AloneWhileLooking, AloneWhileInserting, AloneNeverCollides, Rest
<1> DEFINE Goal == AloneWhileLooking' /\ AloneWhileInserting' /\ AloneNeverCollides'
<1>1. ASSUME NEW p \in Procs, NEW f \in Files, Call(p, f) PROVE Goal
  BY <1>1 DEF Call, WatchedBy, Quiet
<1>2. ASSUME NEW p \in Procs, Hit(p) \/ Miss(p) \/ NotCovered(p) PROVE Goal
  <2>1. CASE Hit(p)
    BY <2>1 DEF Hit
  <2>2. CASE Miss(p)
    BY <2>2 DEF Miss
  <2>3. CASE NotCovered(p)
    BY <2>3 DEF NotCovered
  <2> QED
    BY <1>2, <2>1, <2>2, <2>3
<1>3. ASSUME NEW p \in Procs, Fetch(p) \/ FetchFails(p) \/ List(p) PROVE Goal
  BY <1>3, ZenonT(60) DEF Fetch, FetchFails, List
<1>4. ASSUME NEW p \in Procs, Delete(p) PROVE Goal
  BY <1>4 DEF Delete, NoTags
<1>5. ASSUME NEW p \in Procs, NEW i \in Paths, Insert(p, i) PROVE Goal
  <2>1. /\ Inserting' = Inserting /\ UNCHANGED <<pc, disturbed, rows, list>>
        /\ table' = [table EXCEPT ![i] = list[p][i]] /\ step' = [step EXCEPT ![p] = i + 1]
    BY <1>5 DEF Insert
  <2>2. AloneWhileLooking' /\ AloneWhileInserting'
    BY <2>1
  <2>3. ASSUME NEW q \in Procs \ disturbed, pc[q] = "insert", NEW k \in Paths, step'[q] <= k, list[q][k] # 0
        PROVE  table'[k] = 0
    <3>1. q = p
      BY <2>3, <1>5 DEF Insert
    <3>2. k \in Nat /\ i \in Nat /\ step[p] \in Nat /\ step[p] <= i /\ i + 1 <= k
      BY <2>1, <2>3, <3>1, <1>5 DEF Insert, Paths
    <3>3. k # i /\ step[p] <= k
      BY <3>2
    <3> QED
      BY <2>1, <2>3, <3>1, <3>3
  <2> QED
    BY <2>1, <2>2, <2>3
<1>6. ASSUME NEW p \in Procs, NEW i \in Paths, Collide(p, i) PROVE Goal
  BY <1>6 DEF Collide
<1>7. ASSUME NEW p \in Procs, LookAgain(p) PROVE Goal
  BY <1>7 DEF LookAgain, WatchedBy, Quiet
<1>8. ASSUME NEW p \in Procs, StatementFails(p) \/ Crash(p) PROVE Goal
  BY <1>8, ZenonT(60) DEF StatementFails, Crash
<1>9. ASSUME NEW i \in Paths, Publish(i) PROVE Goal
  BY <1>9 DEF Publish
<1> QED
  BY <1>1, <1>2, <1>3, <1>4, <1>5, <1>6, <1>7, <1>8, <1>9 DEF Next, Step

(* An undisturbed lookup reads a settled table.                            *)
LEMMA AnswersAreKept ==
  ASSUME IInv, Next PROVE PassedAreNoPackages' /\ UndisturbedIsNearest' /\ AnswersAreTagged'
<1> USE DEF IInv, TypeOK, PassedAreNoPackages, UndisturbedIsNearest, AnswersAreTagged, Asked, Nearer
<1> DEFINE Goal == PassedAreNoPackages' /\ UndisturbedIsNearest' /\ AnswersAreTagged'
<1>0. \A p \in Procs : Len(Asked(p)) \in Nat /\ \A n \in 1..Len(Asked(p)) : Asked(p)[n] \in Paths
  BY DirectoriesArePaths
<1>1. ASSUME NEW p \in Procs, NEW f \in Files, Call(p, f) PROVE Goal
  BY <1>1, SMTT(30) DEF Call, WatchedBy
<1>2. ASSUME NEW p \in Procs, Hit(p) PROVE Goal
  <2>1. rows # "none"
    BY <1>0, <1>2 DEF Hit, EmptyAtFirst, Rows
  <2>2. version'[p] \in 1..tags[Asked(p)[step[p]]]
    BY <1>0, <1>2 DEF Hit, Copies, AtMost
  <2> QED
    <3>1. step' = step /\ file' = file /\ disturbed' = disturbed /\ tags' = tags /\ rows' = rows
      BY <1>2 DEF Hit
    <3>2. pc' = [pc EXCEPT ![p] = "found"] /\ \A q \in Procs : q # p => version'[q] = version[q]
      BY <1>2 DEF Hit
    <3>3. PassedAreNoPackages'
      BY <3>1, <3>2
    <3>4. UndisturbedIsNearest'
      BY <1>0, <1>2, <2>1, <3>1, <3>2 DEF Hit
    <3>5. AnswersAreTagged'
      BY <1>0, <1>2, <2>2, <3>1, <3>2 DEF Hit
    <3> QED
      BY <3>3, <3>4, <3>5
<1>3. ASSUME NEW p \in Procs, Miss(p) PROVE Goal
  <2>1. ASSUME p \notin disturbed, rows # "none" PROVE Asked(p)[step[p]] \notin Oldest
    BY <1>3, <2>1, CoveredSettles DEF Miss, AloneWhileLooking, TableSettles
  <2> QED
    <3>1. /\ file' = file /\ disturbed' = disturbed /\ tags' = tags /\ rows' = rows /\ pc' = pc
          /\ version' = version /\ step'[p] = step[p] + 1 /\ \A q \in Procs : q # p => step'[q] = step[q]
      BY <1>3 DEF Miss
    <3>2. PassedAreNoPackages'
      BY <1>0, <1>3, <2>1, <3>1 DEF Miss
    <3>3. UndisturbedIsNearest' /\ AnswersAreTagged'
      BY <1>3, <3>1 DEF Miss
    <3> QED
      BY <3>2, <3>3
<1>4. ASSUME NEW p \in Procs, NotCovered(p) PROVE Goal
  <2>1. p \in again => rows # "none"
    BY DEF EmptyAtFirst
  <2> QED
    BY <1>0, <1>4, <2>1 DEF NotCovered
<1>5. ASSUME NEW p \in Procs, Fetch(p) \/ FetchFails(p) \/ List(p) PROVE Goal
  BY <1>5, ZenonT(60) DEF Fetch, FetchFails, List
<1>6. ASSUME NEW p \in Procs, Delete(p) PROVE Goal
  BY <1>6 DEF Delete
<1>7. ASSUME NEW p \in Procs, NEW i \in Paths, Insert(p, i) \/ Collide(p, i) PROVE Goal
  BY <1>7, ZenonT(60) DEF Insert, Collide
<1>8. ASSUME NEW p \in Procs, LookAgain(p) PROVE Goal
  <2>1. /\ step' = [step EXCEPT ![p] = 1] /\ pc' = [pc EXCEPT ![p] = "look"]
        /\ UNCHANGED <<tags, file, version, rows>>
        /\ \A q \in Procs \ disturbed' : q # p => q \in Procs \ disturbed
    BY <1>8 DEF LookAgain, WatchedBy
  <2>2. PassedAreNoPackages'
    BY <1>0, <2>1
  <2>3. UndisturbedIsNearest'
    BY <1>0, <2>1
  <2>4. AnswersAreTagged'
    BY <1>0, <2>1
  <2> QED
    BY <2>2, <2>3, <2>4
<1>9. ASSUME NEW p \in Procs, StatementFails(p) \/ Crash(p) PROVE Goal
  BY <1>9 DEF StatementFails, Crash, EmptyAtFirst, Inserting
<1>10. ASSUME NEW i \in Paths, Publish(i) PROVE Goal
  <2>1. \A k \in Paths : tags[k] <= tags'[k]
    BY <1>10 DEF Publish
  <2> QED
    <3>1. /\ UNCHANGED <<file, disturbed, rows, pc, version, step>>
      BY <1>10 DEF Publish
    <3>2. PassedAreNoPackages' /\ UndisturbedIsNearest'
      BY <3>1
    <3>3. ASSUME NEW q \in Procs, pc[q] = "found" PROVE version[q] \in 1..tags'[Asked(q)[step[q]]]
      <4>1. Asked(q)[step[q]] \in Paths /\ version[q] \in 1..tags[Asked(q)[step[q]]]
        BY <1>0, <3>3
      <4>2. tags' \in [Paths -> Versions]
        BY <1>10 DEF Publish
      <4> QED
        <5>1. tags[Asked(q)[step[q]]] \in Nat /\ tags'[Asked(q)[step[q]]] \in Nat
          BY <4>1, <4>2
        <5>2. tags[Asked(q)[step[q]]] <= tags'[Asked(q)[step[q]]]
          BY <2>1, <4>1
        <5> QED
          BY <4>1, <5>1, <5>2
    <3>4. AnswersAreTagged'
      BY <3>1, <3>3
    <3> QED
      BY <3>2, <3>4
<1> QED
  BY <1>1, <1>2, <1>3, <1>4, <1>5, <1>6, <1>7, <1>8, <1>9, <1>10 DEF Next, Step

LEMMA InvariantIsKept == IInv /\ [Next]_vars => IInv'
<1> SUFFICES ASSUME IInv, [Next]_vars PROVE IInv'
  OBVIOUS
<1>1. CASE Next
  BY <1>1, TypesAreKept, CopiesAreKept, CoverIsKept, LonersAreKept, AnswersAreKept DEF IInv
<1>2. CASE UNCHANGED vars
  BY <1>2 DEF vars, IInv, TypeOK, Copies, HasOldest, AtMost, EmptyAtFirst, Covered, Missing, Rows, Inserting,
     AloneWhileLooking, AloneWhileInserting, PassedAreNoPackages, AloneNeverCollides, UndisturbedIsNearest,
     AnswersAreTagged, Nearer, Asked, Rest
<1> QED
  BY <1>1, <1>2

(* For any number of overlapping refills: the table at rest holds every    *)
(* package that was always tagged, unless a fault cut a refill short.      *)
THEOREM RefillsSettle == Spec => []TableSettles
<1>1. Spec => []IInv
  BY InitInvariant, InvariantIsKept, PTL DEF Spec
<1> QED
  BY <1>1, CoveredSettles, PTL

(* An undisturbed lookup answers with the nearest package, an undisturbed  *)
(* refill meets no row, and every answer was tagged.                       *)
THEOREM LookupsAreRight == Spec => [](UndisturbedIsNearest /\ AloneNeverCollides /\ AnswersAreTagged)
<1>1. IInv => UndisturbedIsNearest /\ AloneNeverCollides /\ AnswersAreTagged
  BY DEF IInv
<1> QED
  BY <1>1, InitInvariant, InvariantIsKept, PTL DEF Spec

(* The types hold of every reachable state.                                *)
THEOREM IndexTypes == Spec => []TypeOK
<1>1. IInv => TypeOK
  BY DEF IInv
<1> QED
  BY <1>1, InitInvariant, InvariantIsKept, PTL DEF Spec
=============================================================================

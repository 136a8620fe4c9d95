------------------------- MODULE PackageResolverProofs -------------------------
(***************************************************************************)
(* Proofs about PackageResolver, for every registry, every workspace graph *)
(* (cycles included) and every sequence of calls on one resolver.          *)
(***************************************************************************)
EXTENDS PackageResolver, WellFoundedInduction, TLAPS

(* Induction over Nat as the existence of a smallest counterexample.       *)
LEMMA SmallestExists ==
  ASSUME NEW S \in SUBSET Nat, S # {}
  PROVE  \E n \in S : \A m \in S : n <= m
<1> DEFINE less == {ss \in Nat \X Nat : ss[1] < ss[2]}
<1>1. IsWellFoundedOn(less, Nat)
  BY NatLessThanWellFounded DEF OpToRel
<1>2. \E n \in S : \A m \in S : ~(<<m, n>> \in less)
  <2> HIDE DEF less
  <2> QED BY <1>1, WFMin
<1>3. PICK n \in S : \A m \in S : ~(<<m, n>> \in less)
  BY <1>2
<1>4. ASSUME NEW m \in S PROVE n <= m
  <2>1. m \in Nat /\ n \in Nat
    OBVIOUS
  <2>2. m < n => <<m, n>> \in less
    BY <2>1
  <2> QED BY <1>3, <2>1, <2>2
<1> QED BY <1>4

(* The recursion of InOrder defines a function ...                         *)
Kept(S, order, f, n) ==
  IF n = 0 THEN <<>> ELSE IF order[n] \in S THEN Append(f[n - 1], order[n]) ELSE f[n - 1]

LEMMA KeptExists ==
  ASSUME NEW S, NEW order, NEW N \in Nat
  PROVE  \E f : f = [n \in 0..N |-> Kept(S, order, f, n)]
<1> DEFINE bad == {k \in Nat : ~\E f : f = [n \in 0..k |-> Kept(S, order, f, n)]}
<1> SUFFICES ASSUME bad # {} PROVE FALSE
  OBVIOUS
<1>1. PICK k \in bad : \A m \in bad : k <= m
  <2>1. bad \in SUBSET Nat
    OBVIOUS
  <2> HIDE DEF bad
  <2> QED BY <2>1, SmallestExists
<1>2. CASE k = 0
  <2> DEFINE f == [n \in 0..0 |-> <<>>]
  <2>1. f = [n \in 0..0 |-> Kept(S, order, f, n)]
    BY DEF Kept
  <2> QED BY <1>2, <2>1
<1>3. CASE k # 0
  <2>1. k - 1 \in Nat /\ ~(k <= k - 1)
    BY <1>3
  <2>2. k - 1 \notin bad
    BY <1>1, <2>1
  <2>3. PICK g : g = [n \in 0..(k - 1) |-> Kept(S, order, g, n)]
    BY <2>1, <2>2
  <2> DEFINE f == [n \in 0..k |-> IF n = k THEN Kept(S, order, g, k) ELSE g[n]]
  <2>4. \A n \in 0..(k - 1) : f[n] = g[n]
    BY <2>1
  <2>5. f[k] = Kept(S, order, f, k)
    BY <2>1, <2>4 DEF Kept
  <2>6. ASSUME NEW n \in 0..(k - 1) PROVE f[n] = Kept(S, order, f, n)
    <3>1. g[n] = Kept(S, order, g, n)
      BY <2>3
    <3>2. n # 0 => n - 1 \in 0..(k - 1)
      OBVIOUS
    <3> QED BY <2>4, <3>1, <3>2 DEF Kept
  <2>7. f = [n \in 0..k |-> Kept(S, order, f, n)]
    <3>1. f = [n \in 0..k |-> f[n]]
      OBVIOUS
    <3>2. \A n \in 0..k : n = k \/ n \in 0..(k - 1)
      BY <2>1
    <3> HIDE DEF f
    <3>3. \A n \in 0..k : f[n] = Kept(S, order, f, n)
      BY <2>5, <2>6, <3>2
    <3> QED BY <3>1, <3>3
  <2> HIDE DEF f
  <2> QED BY <2>7
<1> QED BY <1>2, <1>3

(* ... whose value lists the members of the set that the order lists.      *)
Lists(list, S, T) ==
  /\ list \in Seq(T)
  /\ \A k \in 1..Len(list) : list[k] \in S
  /\ \A x \in T : x \in S => \E k \in 1..Len(list) : list[k] = x

LEMMA InOrderLists ==
  ASSUME NEW S, NEW T, NEW order, Enumerates(order, T)
  PROVE  Lists(InOrder(S, order), S, T)
<1>0. order \in Seq(T) /\ \A x \in T : \E i \in 1..Len(order) : order[i] = x
  BY DEF Enumerates
<1> DEFINE N == Len(order)
           f == CHOOSE g : g = [n \in 0..N |-> Kept(S, order, g, n)]
<1>1. N \in Nat /\ \A i \in 1..N : order[i] \in T
  BY <1>0
<1>2. f = [n \in 0..N |-> Kept(S, order, f, n)]
  <2>1. \E g : g = [n \in 0..N |-> Kept(S, order, g, n)]
    BY <1>1, KeptExists
  <2> QED BY <2>1
<1>3. InOrder(S, order) = f[N]
  BY DEF InOrder, Kept
<1> HIDE DEF f
<1> DEFINE good(n) == /\ f[n] \in Seq(T) /\ \A k \in 1..Len(f[n]) : f[n][k] \in S
                      /\ \A i \in 1..n : order[i] \in S => \E k \in 1..Len(f[n]) : f[n][k] = order[i]
           bad == {n \in Nat : n <= N /\ ~good(n)}
<1>4. ASSUME bad # {} PROVE FALSE
  <2>1. PICK n \in bad : \A m \in bad : n <= m
    <3>1. bad \in SUBSET Nat
      OBVIOUS
    <3> HIDE DEF bad
    <3> QED BY <1>4, <3>1, SmallestExists
  <2>2. n \in 0..N /\ ~good(n)
    BY <1>1, <2>1
  <2>3. CASE n = 0
    <3>1. f[n] = <<>>
      BY <1>2, <2>2, <2>3 DEF Kept
    <3> QED BY <2>2, <2>3, <3>1
  <2>4. CASE n # 0
    <3>1. n - 1 \in 0..N /\ ~(n <= n - 1) /\ n \in 1..N
      BY <2>2, <2>4, <1>1
    <3>2. good(n - 1)
      BY <2>1, <3>1
    <3>3. f[n] = IF order[n] \in S THEN Append(f[n - 1], order[n]) ELSE f[n - 1]
      BY <1>2, <2>2, <2>4 DEF Kept
    <3> DEFINE prev == f[n - 1]
    <3>4. prev \in Seq(T) /\ \A k \in 1..Len(prev) : prev[k] \in S
      BY <3>2
    <3>5. \A i \in 1..(n - 1) : order[i] \in S => \E k \in 1..Len(prev) : prev[k] = order[i]
      BY <3>2
    <3> HIDE DEF prev
    <3>6. CASE order[n] \in S
      <4>1. f[n] = Append(prev, order[n]) /\ order[n] \in T
        BY <1>1, <3>1, <3>3, <3>6 DEF prev
      <4>2. /\ f[n] \in Seq(T) /\ Len(f[n]) = Len(prev) + 1
            /\ \A k \in 1..Len(prev) : f[n][k] = prev[k]
            /\ f[n][Len(prev) + 1] = order[n]
        BY <3>4, <4>1
      <4>3. Len(prev) \in Nat
        BY <3>4
      <4>4. ASSUME NEW i \in 1..n, order[i] \in S
            PROVE  \E k \in 1..Len(f[n]) : f[n][k] = order[i]
        <5>1. CASE i = n
          BY <4>2, <4>3, <5>1
        <5>2. CASE i # n
          <6>1. i \in 1..(n - 1)
            BY <5>2, <3>1
          <6>2. PICK k \in 1..Len(prev) : prev[k] = order[i]
            BY <3>5, <4>4, <6>1
          <6> QED BY <4>2, <4>3, <6>2
        <5> QED BY <5>1, <5>2
      <4>5. \A k \in 1..Len(f[n]) : f[n][k] \in S
        BY <3>4, <3>6, <4>2, <4>3
      <4> QED BY <2>2, <4>2, <4>4, <4>5
    <3>7. CASE order[n] \notin S
      <4>1. f[n] = prev
        BY <3>3, <3>7 DEF prev
      <4>2. ASSUME NEW i \in 1..n, order[i] \in S PROVE i \in 1..(n - 1)
        BY <4>2, <3>1, <3>7
      <4> QED BY <2>2, <3>4, <3>5, <4>1, <4>2
    <3> QED BY <3>6, <3>7
  <2> QED BY <2>3, <2>4
<1>5. good(N)
  <2>1. N \notin bad
    BY <1>4
  <2> QED BY <1>1, <2>1
<1> HIDE DEF N
<1>6. ASSUME NEW x \in T, x \in S PROVE \E k \in 1..Len(f[N]) : f[N][k] = x
  <2>1. PICK i \in 1..N : order[i] = x
    BY <1>0 DEF N
  <2> QED BY <1>5, <1>6, <2>1
<1>7. Lists(f[N], S, T)
  BY <1>5, <1>6 DEF Lists
<1> QED BY <1>3, <1>7 DEF N

-----------------------------------------------------------------------------

MP == INSTANCE MvsProofs WITH Inputs <- MVS!Input

(* The lemmas of MvsProofs speak of the selection with any input; what     *)
(* they say of MP holds of MVS, which differs in its inputs only.          *)
LEMMA SameSelection ==
  /\ MP!TypeOK = MVS!TypeOK /\ (MP!TypeOK)' = (MVS!TypeOK)'
  /\ MP!Inv = MVS!Inv /\ (MP!Inv)' = (MVS!Inv)'
<1>1. MP!TypeOK = MVS!TypeOK /\ (MP!TypeOK)' = (MVS!TypeOK)'
  BY DEF MVS!TypeOK, MP!TypeOK, MVS!Registry, MP!Registry, MVS!Input, MP!Input, MVS!Busy, MP!Busy,
         MVS!Idle, MP!Idle, MVS!Absent, MP!Absent, MVS!Manifest, MP!Manifest, MVS!Requirement,
         MP!Requirement
<1>2. MP!Inv = MVS!Inv /\ (MP!Inv)' = (MVS!Inv)'
  BY DEF MVS!Inv, MP!Inv, MVS!Pending, MP!Pending, MVS!SeedsPending, MP!SeedsPending,
         MVS!QueuedSelected, MP!QueuedSelected, MVS!BeingVisited, MP!BeingVisited, MVS!Closed,
         MP!Closed, MVS!InQueue, MP!InQueue, MVS!Selected, MP!Selected, MVS!Absent, MP!Absent,
         MVS!Seeds, MP!Seeds, MVS!Satisfied, MP!Satisfied, MVS!Meets, MP!Meets, MVS!Requires,
         MP!Requires, MVS!Busy, MP!Busy, MVS!Idle, MP!Idle
<1> QED BY <1>1, <1>2

LEMMA SelectionAssumption == MP!MvsAssumption
<1>1. MP!Input = MVS!Input
  BY DEF MP!Input, MVS!Input, MP!Absent, MVS!Absent
<1>2. [direct |-> <<>>, floors |-> <<>>] \in MVS!Input
  BY DEF MVS!Input
<1>3. MP!Registry = MVS!Registry
  BY DEF MP!Registry, MVS!Registry, MP!Manifest, MVS!Manifest, MP!Requirement, MVS!Requirement,
         MP!Absent, MVS!Absent
<1> QED
  BY <1>1, <1>2, <1>3, ResolverAssumption DEF MP!MvsAssumption, ResolverAssumption

LEMMA SameStep == MP!Step = MVS!Step
BY DEF MVS!Step, MP!Step, MVS!SkipStdlib, MP!SkipStdlib, MVS!RaiseFloor, MP!RaiseFloor,
       MVS!KeepFloor, MP!KeepFloor, MVS!FailSpec, MP!FailSpec, MVS!EndSource, MP!EndSource,
       MVS!Visit, MP!Visit, MVS!Finish, MP!Finish, MVS!Merging, MP!Merging, MVS!Source,
       MP!Source, MVS!Seeds, MP!Seeds, MVS!Requires, MP!Requires, MVS!RaisesFloor,
       MP!RaisesFloor, MVS!RaisedTo, MP!RaisedTo, MVS!Enqueued, MP!Enqueued, MVS!Absent, MP!Absent

LEMMA SelectionKeeps ==
  ASSUME MVS!TypeOK, MVS!Inv, MVS!Step
  PROVE  (MVS!TypeOK /\ MVS!Inv)'
<1>1. MP!Step = MVS!Step
  BY SameStep
<1>2. MP!TypeOK /\ MP!Inv /\ MP!QueuedSelected /\ [MP!Next]_MP!vars
  BY <1>1, SameSelection DEF MP!Next, MP!Inv
<1>3. MP!TypeOK' /\ MP!Inv'
  BY <1>2, SelectionAssumption, MP!TypeStep, MP!InvStep
<1> QED BY <1>3, SameSelection

LEMMA SelectionStarts ==
  ASSUME MVS!TypeOK, MVS!Inv, NEW in \in MVS!Input, MVS!Start(in)
  PROVE  (MVS!TypeOK /\ MVS!Inv)'
<1>1. MP!Start(in) = MVS!Start(in)
  BY DEF MVS!Start, MP!Start, MVS!Idle, MP!Idle, MVS!Nothing, MP!Nothing, MVS!Absent, MP!Absent
<1>2. MP!TypeOK /\ MP!Inv /\ MP!QueuedSelected /\ [MP!Next]_MP!vars
  BY <1>1, SameSelection DEF MP!Next, MP!Inv
<1>3. MP!TypeOK' /\ MP!Inv'
  BY <1>2, SelectionAssumption, MP!TypeStep, MP!InvStep
<1> QED BY <1>3, SameSelection

LEMMA SelectionBegins == MVS!Init => MVS!TypeOK /\ MVS!Inv
<1> SUFFICES ASSUME MVS!Init PROVE MVS!TypeOK /\ MVS!Inv
  OBVIOUS
<1>1. (CHOOSE x \in [id : Ids, version : Versions] : TRUE) \in [id : Ids, version : Versions]
  <2>1. PICK i \in Ids, v \in Versions : TRUE
    BY ResolverAssumption DEF ResolverAssumption
  <2>2. [id |-> i, version |-> v] \in [id : Ids, version : Versions]
    OBVIOUS
  <2> QED BY <2>2
<1>2. input = NoRequirements /\ NoRequirements \in MVS!Input
  BY DEF MVS!Init, NoRequirements, MVS!Input
<1>3. MVS!TypeOK
  BY <1>1, <1>2, ResolverAssumption
     DEF MVS!Init, MVS!TypeOK, ResolverAssumption, MVS!Nothing, MVS!Idle
<1>4. MVS!Inv
  BY DEF MVS!Init, MVS!Inv, MVS!Pending, MVS!SeedsPending, MVS!QueuedSelected, MVS!Busy
<1> QED BY <1>3, <1>4

(* What a finished selection promises the resolver.                        *)
LEMMA SelectionEnds ==
  ASSUME MVS!TypeOK, MVS!Inv, pc = "resolved"
  PROVE  /\ Closed(selected)
         /\ \A i \in 1..Len(input.direct) : MVS!Meets(selected, input.direct[i])
         /\ \A i \in 1..Len(input.floors) : MVS!Meets(selected, input.floors[i])
<1>1. \A id \in MVS!Selected : MVS!Closed(id)
  BY DEF MVS!Inv, MVS!Pending, MVS!QueuedSelected, MVS!InQueue, MVS!BeingVisited, MVS!Busy
<1>2. Closed(selected)
  BY <1>1 DEF Closed, MVS!Closed, MVS!Selected, MVS!Satisfied, Absent, MVS!Absent
<1>3. \A i \in 1..Len(MVS!Seeds) : MVS!Meets(selected, MVS!Seeds[i])
  BY DEF MVS!Inv, MVS!SeedsPending, MVS!Satisfied, MVS!Busy
<1> DEFINE d == input.direct
           fl == input.floors
<1>4. d \in Seq([id : Ids \ StdlibIds, version : Versions \cup {0}])
  BY DEF MVS!TypeOK, MVS!Input, MVS!Absent
<1>5. fl \in Seq([id : Ids \ StdlibIds, version : Versions])
  BY DEF MVS!TypeOK, MVS!Input
<1>6. MVS!Seeds = d \o fl
  BY DEF MVS!Seeds
<1> HIDE DEF d, fl
<1>7. ASSUME NEW i \in 1..Len(d) PROVE MVS!Meets(selected, d[i])
  <2>1. i \in 1..Len(d \o fl) /\ (d \o fl)[i] = d[i]
    BY <1>4, <1>5
  <2> QED BY <1>3, <1>6, <2>1
<1>8. ASSUME NEW i \in 1..Len(fl) PROVE MVS!Meets(selected, fl[i])
  <2>1. Len(d) + i \in 1..Len(d \o fl) /\ (d \o fl)[Len(d) + i] = fl[i]
    BY <1>4, <1>5
  <2> QED BY <1>3, <1>6, <2>1
<1> QED BY <1>2, <1>7, <1>8 DEF d, fl

LEMMA SelectionIsRemote ==
  ASSUME MVS!TypeOK, MVS!Inv, selected \in RemoteSelection, MVS!Step
  PROVE  selected' \in RemoteSelection
<1>1. CASE MVS!RaiseFloor
  <2>1. PICK id, v : id \notin StdlibIds /\ selected' = [selected EXCEPT ![id] = v]
    BY <1>1 DEF MVS!RaiseFloor
  <2>2. \A j \in StdlibIds : selected'[j] = Absent
    BY <2>1, ResolverAssumption DEF RemoteSelection, Selection, ResolverAssumption
  <2>3. selected' \in Selection
    BY SelectionKeeps DEF MVS!TypeOK, Selection, Absent, MVS!Absent
  <2> QED BY <2>2, <2>3 DEF RemoteSelection
<1>2. CASE ~MVS!RaiseFloor
  BY <1>2 DEF MVS!Step, MVS!SkipStdlib, MVS!KeepFloor, MVS!FailSpec, MVS!EndSource, MVS!Visit,
              MVS!Finish
<1> QED BY <1>1, <1>2

-----------------------------------------------------------------------------
(* The inductive invariant.                                                *)

(* The stdlib never enters a selection.                                    *)
NoStdlib ==
  /\ selected \in RemoteSelection
  /\ resolution \in [Packages -> RemoteSelection]
  /\ \A i \in 1..Len(stack) :
       stack[i].floors \in RemoteSelection /\ stack[i].overrides \in RemoteSelection

(* Calls are active exactly while an outermost call has not returned.      *)
CallsRun == stack # <<>> <=> outcome \in {"running", "failing"}

(* Only the innermost call selects, after all its imports.                 *)
RunningIsLast ==
  \A i \in 1..Len(stack) : stack[i].running => i = Len(stack) /\ stack[i].todo = <<>>

InputOf(f) == [direct |-> AsList(DirectOf(f.pkg, f.overrides)), floors |-> AsList(f.floors)]

InputIsTops == stack # <<>> /\ Top.running => input = InputOf(Top)

Below(s, t) == \A id \in Ids : s[id] <= t[id]

(* What a package uses is still to be imported or is below the floors.     *)
Handled(q, f, memo, memoised) ==
  \/ \E k \in 1..Len(f.todo) : f.todo[k] = q
  \/ memo[q] = "resolved" /\ Below(memoised[q], f.floors)

UsesAreHandled ==
  \A i \in 1..Len(stack) : \A q \in ws.uses[stack[i].pkg] : Handled(q, stack[i], states, resolution)

(* Calls with overrides are not memoised.                                  *)
MemoIsPlain == \A i \in 1..Len(stack) : stack[i].memo => stack[i].overrides = Nothing

ServesUses(p) == \A q \in ws.uses[p] : states[q] = "resolved" /\ Below(resolution[q], resolution[p])

MeetsImports(p) == Below(DirectOf(p, Nothing), resolution[p])

ResolvedIsClosed ==
  \A p \in Packages : states[p] = "resolved" =>
    Closed(resolution[p]) /\ ServesUses(p) /\ MeetsImports(p)

Typed == TypeOK /\ MVS!Inv /\ NoStdlib
Flow == RunningIsLast /\ InputIsTops /\ UsesAreHandled /\ MemoIsPlain

IInv == Typed /\ CallsRun /\ MarksMatchCalls /\ Flow /\ ResolvedIsClosed

-----------------------------------------------------------------------------
(* The operators of the model.                                             *)

LEMMA SelectionNat == ASSUME NEW s \in Selection, NEW id \in Ids PROVE s[id] \in Nat
<1>1. s[id] \in Versions \cup {0}
  BY DEF Selection, Absent
<1>2. CASE s[id] = 0
  BY <1>2
<1>3. CASE s[id] \in Versions
  BY <1>3, ResolverAssumption DEF ResolverAssumption
<1> QED BY <1>1, <1>2, <1>3

LEMMA AsListHolds ==
  ASSUME NEW s \in RemoteSelection
  PROVE  /\ AsList(s) \in Seq([id : Ids \ StdlibIds, version : Versions])
         /\ \A id \in Ids : s[id] # Absent =>
              \E i \in 1..Len(AsList(s)) : AsList(s)[i] = [id |-> id, version |-> s[id]]
<1> DEFINE present == {id \in Ids : s[id] # Absent}
<1>1. PICK ids : ids = InOrder(present, IdOrder) /\ Lists(ids, present, Ids)
  <2>1. Enumerates(IdOrder, Ids)
    BY ResolverAssumption DEF ResolverAssumption
  <2> HIDE DEF present
  <2> QED BY <2>1, InOrderLists
<1>2. \A id \in present : id \in Ids \ StdlibIds /\ s[id] \in Versions
  BY DEF RemoteSelection, Selection
<1>3. AsList(s) = [i \in 1..Len(ids) |-> [id |-> ids[i], version |-> s[ids[i]]]]
  BY <1>1 DEF AsList
<1>4. ids \in Seq(Ids) /\ Len(ids) \in Nat /\ \A i \in 1..Len(ids) : ids[i] \in present
  <2> HIDE DEF present
  <2> QED BY <1>1 DEF Lists
<1>5. AsList(s) \in Seq([id : Ids \ StdlibIds, version : Versions]) /\ Len(AsList(s)) = Len(ids)
  <2>1. \A i \in 1..Len(ids) :
          [id |-> ids[i], version |-> s[ids[i]]] \in [id : Ids \ StdlibIds, version : Versions]
    BY <1>2, <1>4
  <2> HIDE DEF present
  <2> QED BY <1>3, <1>4, <2>1
<1>6. ASSUME NEW id \in Ids, s[id] # Absent
      PROVE  \E i \in 1..Len(AsList(s)) : AsList(s)[i] = [id |-> id, version |-> s[id]]
  <2>1. PICK k \in 1..Len(ids) : ids[k] = id
    BY <1>1, <1>6 DEF Lists
  <2> QED BY <1>3, <1>5, <2>1
<1> QED BY <1>5, <1>6

LEMMA DirectOfIsRemote ==
  ASSUME ws \in Workspace, NEW p \in Packages, NEW o \in RemoteSelection
  PROVE  DirectOf(p, o) \in RemoteSelection
<1>1. /\ ws.imports[p] \in SUBSET (Ids \ StdlibIds)
      /\ ws.pins[p] \in Selection /\ ws.newest \in Selection
  BY DEF Workspace
<1>2. DirectOf(p, o) \in Selection
  BY <1>1 DEF DirectOf, RemoteSelection, Selection
<1>3. \A id \in StdlibIds : id \in Ids /\ o[id] = Absent /\ id \notin ws.imports[p]
  BY <1>1, ResolverAssumption DEF RemoteSelection, ResolverAssumption
<1>4. \A id \in StdlibIds : DirectOf(p, o)[id] = Absent
  BY <1>3 DEF DirectOf
<1> QED BY <1>2, <1>4 DEF RemoteSelection

LEMMA NothingIsRemote == Nothing \in RemoteSelection
BY ResolverAssumption DEF Nothing, RemoteSelection, Selection, ResolverAssumption

LEMMA MergedFloors ==
  ASSUME NEW f \in RemoteSelection, NEW g \in RemoteSelection
  PROVE  /\ MergeFloors(f, g) \in RemoteSelection
         /\ Below(f, MergeFloors(f, g)) /\ Below(g, MergeFloors(f, g))
<1>1. f \in Selection /\ g \in Selection
  BY DEF RemoteSelection
<1>2. \A id \in Ids : f[id] \in Nat /\ g[id] \in Nat
  BY <1>1, SelectionNat
<1>3. \A id \in Ids : MergeFloors(f, g)[id] = IF f[id] > g[id] THEN f[id] ELSE g[id]
  BY DEF MergeFloors, Larger
<1>4. MergeFloors(f, g) \in Selection
  BY <1>1 DEF MergeFloors, Larger, Selection
<1>5. \A id \in StdlibIds : MergeFloors(f, g)[id] = Absent
  <2>1. \A id \in StdlibIds : id \in Ids /\ f[id] = Absent /\ g[id] = Absent
    BY ResolverAssumption DEF RemoteSelection, ResolverAssumption
  <2> QED BY <1>3, <2>1
<1>6. Below(f, MergeFloors(f, g)) /\ Below(g, MergeFloors(f, g))
  BY <1>2, <1>3 DEF Below
<1> QED BY <1>4, <1>5, <1>6 DEF RemoteSelection

LEMMA BelowTransitive ==
  ASSUME NEW r \in Selection, NEW s \in Selection, NEW t \in Selection, Below(r, s), Below(s, t)
  PROVE  Below(r, t)
<1> SUFFICES ASSUME NEW id \in Ids PROVE r[id] <= t[id]
  BY DEF Below
<1>1. r[id] \in Nat /\ s[id] \in Nat /\ t[id] \in Nat
  BY SelectionNat
<1>2. r[id] <= s[id] /\ s[id] <= t[id]
  BY DEF Below
<1> QED BY <1>1, <1>2

LEMMA NewFrameHandles ==
  ASSUME ws \in Workspace, NEW p \in Packages, NEW o \in RemoteSelection, NEW memo \in BOOLEAN
  PROVE  \E f \in Frame :
           /\ f = NewFrame(p, o, memo) /\ f.pkg = p /\ f.memo = memo /\ ~f.running
           /\ f.floors \in RemoteSelection /\ f.overrides = o
           /\ \A q \in ws.uses[p] : \E k \in 1..Len(f.todo) : f.todo[k] = q
<1>1. PICK list : list = InOrder(ws.uses[p], PackageOrder) /\ Lists(list, ws.uses[p], Packages)
  <2>1. Enumerates(PackageOrder, Packages)
    BY ResolverAssumption DEF ResolverAssumption
  <2> QED BY <2>1, InOrderLists
<1>2. ws.uses[p] \in SUBSET Packages
  BY DEF Workspace
<1>3. list \in Seq(Packages) /\ \A q \in ws.uses[p] : \E k \in 1..Len(list) : list[k] = q
  BY <1>1, <1>2 DEF Lists
<1> DEFINE f == [pkg |-> p, todo |-> list, floors |-> Nothing, overrides |-> o,
                 memo |-> memo, running |-> FALSE]
<1>4. f = NewFrame(p, o, memo)
  BY <1>1 DEF NewFrame
<1>5. Nothing \in Selection /\ o \in Selection
  BY NothingIsRemote DEF RemoteSelection
<1>6. f \in Frame
  BY <1>3, <1>5 DEF Frame
<1>7. f.pkg = p /\ f.todo = list /\ f.memo = memo /\ ~f.running /\ f.floors = Nothing /\ f.overrides = o
  OBVIOUS
<1> HIDE DEF f
<1> QED BY <1>3, <1>4, <1>6, <1>7, NothingIsRemote

-----------------------------------------------------------------------------
(* The stack.                                                              *)

LEMMA TopIsFrame ==
  ASSUME stack \in Seq(Frame), stack # <<>>
  PROVE  Len(stack) \in Nat \ {0} /\ Top \in Frame
BY DEF Top

LEMMA TopReplaced ==
  ASSUME stack \in Seq(Frame), stack # <<>>, NEW f \in Frame, stack' = WithTop(f)
  PROVE  /\ stack' \in Seq(Frame) /\ Len(stack') = Len(stack) /\ stack' # <<>> /\ Top' = f
         /\ stack'[Len(stack)] = f
         /\ \A i \in 1..Len(stack) : i # Len(stack) => stack'[i] = stack[i]
<1>1. Len(stack) \in Nat \ {0}
  BY TopIsFrame
<1>2. /\ stack' \in Seq(Frame) /\ Len(stack') = Len(stack)
      /\ stack'[Len(stack)] = f
      /\ \A i \in 1..Len(stack) : i # Len(stack) => stack'[i] = stack[i]
  BY <1>1 DEF WithTop
<1> QED BY <1>1, <1>2 DEF Top

LEMMA TopPopped ==
  ASSUME stack \in Seq(Frame), stack # <<>>, stack' = Popped
  PROVE  /\ stack' \in Seq(Frame) /\ Len(stack') = Len(stack) - 1
         /\ stack' # <<>> <=> Len(stack) # 1
         /\ \A i \in 1..Len(stack') : i \in 1..Len(stack) /\ i # Len(stack) /\ stack'[i] = stack[i]
         /\ \A i \in 1..Len(stack) : i # Len(stack) => i \in 1..Len(stack')
<1>1. Len(stack) \in Nat \ {0}
  BY TopIsFrame
<1> DEFINE n == Len(stack) - 1
<1>2. n \in Nat /\ n <= Len(stack) /\ \A i \in 1..n : i \in 1..Len(stack) /\ stack[i] \in Frame
  BY <1>1
<1>3. stack' = [i \in 1..n |-> stack[i]]
  BY <1>1 DEF Popped
<1>4. /\ stack' \in Seq(Frame) /\ Len(stack') = n
      /\ \A i \in 1..Len(stack') : stack'[i] = stack[i]
  <2> HIDE DEF n
  <2> QED BY <1>2, <1>3
<1> QED BY <1>1, <1>4

LEMMA FramePushed ==
  ASSUME stack \in Seq(Frame), NEW f \in Frame, stack' = Append(stack, f)
  PROVE  /\ stack' \in Seq(Frame) /\ Len(stack) \in Nat /\ Len(stack') = Len(stack) + 1
         /\ stack' # <<>> /\ Top' = f /\ stack'[Len(stack) + 1] = f
         /\ \A i \in 1..Len(stack) : stack'[i] = stack[i]
BY DEF Top

(* The marks, package by package.                                          *)
Marked(p, calls) == \E i \in 1..Len(calls) : calls[i].memo /\ calls[i].pkg = p

MarkedOnce(calls) ==
  \A i, j \in 1..Len(calls) :
    calls[i].memo /\ calls[j].memo /\ calls[i].pkg = calls[j].pkg => i = j

MarksFit(memo, calls) ==
  /\ \A p \in Packages : memo[p] = "in_progress" <=> Marked(p, calls)
  /\ MarkedOnce(calls)

LEMMA MarksPointwise ==
  ASSUME NEW calls \in Seq(Frame), NEW memo
  PROVE  LET frames == {i \in 1..Len(calls) : calls[i].memo} IN
           /\ {p \in Packages : memo[p] = "in_progress"} = {calls[i].pkg : i \in frames}
           /\ \A i, j \in frames : calls[i].pkg = calls[j].pkg => i = j
         <=> MarksFit(memo, calls)
<1> DEFINE frames == {i \in 1..Len(calls) : calls[i].memo}
<1>1. \A i \in 1..Len(calls) : calls[i].pkg \in Packages
  <2>1. \A i \in 1..Len(calls) : calls[i] \in Frame
    OBVIOUS
  <2> QED BY <2>1 DEF Frame
<1>2. {calls[i].pkg : i \in frames} = {p \in Packages : Marked(p, calls)}
  BY <1>1, ZenonT(60) DEF Marked
<1>3. {p \in Packages : memo[p] = "in_progress"} = {p \in Packages : Marked(p, calls)} <=>
        \A p \in Packages : memo[p] = "in_progress" <=> Marked(p, calls)
  OBVIOUS
<1>4. (\A i, j \in frames : calls[i].pkg = calls[j].pkg => i = j) <=> MarkedOnce(calls)
  BY ZenonT(60) DEF MarkedOnce
<1> HIDE DEF frames
<1>5. /\ {p \in Packages : memo[p] = "in_progress"} = {calls[i].pkg : i \in frames}
      /\ \A i, j \in frames : calls[i].pkg = calls[j].pkg => i = j
      <=> MarksFit(memo, calls)
  BY <1>2, <1>3, <1>4 DEF MarksFit
<1> QED BY <1>5 DEF frames

LEMMA MarksAreFit ==
  /\ stack \in Seq(Frame) => (MarksMatchCalls <=> MarksFit(states, stack))
  /\ stack' \in Seq(Frame) => (MarksMatchCalls' <=> MarksFit(states', stack'))
BY MarksPointwise DEF MarksMatchCalls, MarkedFrames

-----------------------------------------------------------------------------
(* Steps that leave the selection, the memo and the stack alone.           *)

LEMMA SelectionUnchanged ==
  ASSUME UNCHANGED mvsVars, MVS!TypeOK, MVS!Inv
  PROVE  (MVS!TypeOK /\ MVS!Inv)'
<1>1. UNCHANGED <<registry, input, pc, selected, queue, visiting, next>>
  BY DEF mvsVars
<1>2. (MVS!TypeOK)'
  BY <1>1 DEF MVS!TypeOK
<1>3. MP!TypeOK /\ MP!Inv /\ MP!QueuedSelected /\ [MP!Next]_MP!vars
  BY <1>1, SameSelection DEF MP!vars, MP!Inv
<1>4. MP!Inv'
  BY <1>3, SelectionAssumption, MP!InvStep
<1> QED BY <1>2, <1>4, SameSelection

LEMMA ClosedKept ==
  ASSUME registry' = registry, NEW s
  PROVE  Closed(s)' = Closed(s)
BY DEF Closed, MVS!Requires, MVS!Meets

LEMMA ClosedStays ==
  ASSUME registry' = registry, NEW q
  PROVE  Closed(resolution'[q]) <=> Closed(resolution[q])'
BY DEF Closed, MVS!Requires, MVS!Meets

LEMMA ImportsKept ==
  ASSUME UNCHANGED <<ws, resolution>>, NEW p
  PROVE  MeetsImports(p)' = MeetsImports(p)
BY DEF MeetsImports, DirectOf, Below

LEMMA QuietStep ==
  ASSUME IInv, UNCHANGED <<mvsVars, ws, states, resolution, stack>>,
         outcome' \in {"none", "running", "failing", "ok", "error"}, result' \in Resolution,
         outcome' \in {"running", "failing"} <=> outcome \in {"running", "failing"}
  PROVE  IInv'
<1>1. UNCHANGED <<registry, input, selected>>
  BY DEF mvsVars
<1>2. Typed'
  <2>1. MVS!TypeOK' /\ MVS!Inv'
    BY SelectionUnchanged DEF IInv, Typed, TypeOK
  <2>2. TypeOK'
    BY <2>1 DEF IInv, Typed, TypeOK
  <2>3. NoStdlib'
    BY <1>1 DEF IInv, Typed, NoStdlib
  <2> QED BY <2>1, <2>2, <2>3 DEF Typed
<1>3. CallsRun'
  BY DEF IInv, CallsRun
<1>4. MarksMatchCalls'
  BY DEF IInv, MarksMatchCalls, MarkedFrames
<1>5. Flow'
  <2>1. RunningIsLast'
    BY DEF IInv, Flow, RunningIsLast
  <2>2. InputIsTops'
    BY <1>1 DEF IInv, Flow, InputIsTops, InputOf, Top, DirectOf
  <2>3. UsesAreHandled'
    BY DEF IInv, Flow, UsesAreHandled, Handled
  <2>4. MemoIsPlain'
    BY DEF IInv, Flow, MemoIsPlain
  <2> QED BY <2>1, <2>2, <2>3, <2>4 DEF Flow
<1>6. ResolvedIsClosed'
  BY <1>1, ClosedKept, ImportsKept DEF IInv, ResolvedIsClosed, ServesUses
<1> QED BY <1>2, <1>3, <1>4, <1>5, <1>6 DEF IInv

-----------------------------------------------------------------------------
(* A call: one more frame, and a mark unless overrides by-pass the memo.   *)

LEMMA PushStep ==
  ASSUME IInv, NEW p \in Packages, NEW o \in RemoteSelection, NEW memo \in BOOLEAN,
         stack' = Append(stack, NewFrame(p, o, memo)),
         stack # <<>> => ~Top.running,
         memo => states[p] = "none" /\ states' = [states EXCEPT ![p] = "in_progress"],
         memo => o = Nothing,
         ~memo => states' = states,
         UNCHANGED <<mvsVars, ws, resolution>>, outcome' = "running", result' \in Resolution
  PROVE  IInv'
<1>1. UNCHANGED <<registry, input, selected>>
  BY DEF mvsVars
<1>2. stack \in Seq(Frame) /\ ws \in Workspace /\ states \in [Packages -> {"none", "in_progress", "resolved"}]
  BY DEF IInv, Typed, TypeOK
<1>3. PICK f \in Frame :
        /\ f = NewFrame(p, o, memo) /\ f.pkg = p /\ f.memo = memo /\ ~f.running
        /\ f.floors \in RemoteSelection /\ f.overrides = o
        /\ \A q \in ws.uses[p] : \E k \in 1..Len(f.todo) : f.todo[k] = q
  BY <1>2, NewFrameHandles
<1> DEFINE n == Len(stack) + 1
<1>4. /\ stack' \in Seq(Frame) /\ Len(stack) \in Nat /\ Len(stack') = n
      /\ stack' # <<>> /\ Top' = f /\ stack'[n] = f
      /\ \A i \in 1..Len(stack) : stack'[i] = stack[i]
  BY <1>2, <1>3, FramePushed
<1>5. \A i \in 1..Len(stack') : i = n \/ i \in 1..Len(stack)
  BY <1>4
<1>6. n \in 1..Len(stack')
  BY <1>4
<1> HIDE DEF n
<1>7. states' \in [Packages -> {"none", "in_progress", "resolved"}]
  <2>1. CASE memo
    BY <1>2, <2>1
  <2>2. CASE ~memo
    BY <1>2, <2>2
  <2> QED BY <2>1, <2>2
<1>8. \A q \in Packages : (states'[q] = "resolved") = (states[q] = "resolved")
  <2>1. CASE memo
    BY <1>2, <2>1
  <2>2. CASE ~memo
    BY <1>2, <2>2
  <2> QED BY <2>1, <2>2
<1>9. Typed'
  <2>1. MVS!TypeOK' /\ MVS!Inv'
    BY SelectionUnchanged DEF IInv, Typed, TypeOK
  <2>2. TypeOK'
    BY <2>1, <1>4, <1>7 DEF IInv, Typed, TypeOK
  <2>3. NoStdlib'
    BY <1>1, <1>3, <1>4, <1>5 DEF IInv, Typed, NoStdlib
  <2> QED BY <2>1, <2>2, <2>3 DEF Typed
<1>10. CallsRun'
  BY <1>4 DEF CallsRun
<1>11. MarksMatchCalls'
  <2>1. MarksFit(states, stack)
    BY <1>2, MarksAreFit DEF IInv
  <2>2. ASSUME NEW q PROVE Marked(q, stack') <=> Marked(q, stack) \/ (memo /\ q = p)
    <3>1. ASSUME Marked(q, stack') PROVE Marked(q, stack) \/ (memo /\ q = p)
      <4>1. PICK i \in 1..Len(stack') : stack'[i].memo /\ stack'[i].pkg = q
        BY <3>1 DEF Marked
      <4>2. CASE i = n
        BY <1>3, <1>4, <4>1, <4>2
      <4>3. CASE i \in 1..Len(stack)
        BY <1>4, <4>1, <4>3 DEF Marked
      <4> QED BY <1>5, <4>2, <4>3
    <3>2. ASSUME Marked(q, stack) PROVE Marked(q, stack')
      <4>1. PICK i \in 1..Len(stack) : stack[i].memo /\ stack[i].pkg = q
        BY <3>2 DEF Marked
      <4>2. i \in 1..Len(stack')
        BY <1>4 DEF n
      <4> QED BY <1>4, <4>1, <4>2 DEF Marked
    <3>3. ASSUME memo, q = p PROVE Marked(q, stack')
      BY <1>3, <1>4, <1>6, <3>3 DEF Marked
    <3> QED BY <3>1, <3>2, <3>3
  <2>3. \A q \in Packages : states'[q] = "in_progress" <=> Marked(q, stack')
    <3>1. \A q \in Packages : states[q] = "in_progress" <=> Marked(q, stack)
      BY <2>1 DEF MarksFit
    <3>2. CASE memo
      <4>1. \A q \in Packages : states'[q] = "in_progress" <=> q = p \/ states[q] = "in_progress"
        BY <1>2, <3>2
      <4> QED BY <2>2, <3>1, <3>2, <4>1
    <3>3. CASE ~memo
      BY <2>2, <3>1, <3>3
    <3> QED BY <3>2, <3>3
  <2>4. ASSUME NEW i \in 1..Len(stack'), NEW j \in 1..Len(stack'),
               stack'[i].memo, stack'[j].memo, stack'[i].pkg = stack'[j].pkg
        PROVE  i = j
    <3>1. ASSUME NEW k \in 1..Len(stack), stack[k].memo, memo PROVE stack[k].pkg # p
      <4>1. states[p] # "in_progress"
        BY <3>1
      <4>2. ~Marked(p, stack)
        BY <2>1, <4>1 DEF MarksFit
      <4> QED BY <3>1, <4>2 DEF Marked
    <3>2. CASE i = n /\ j = n
      BY <3>2
    <3>3. CASE i = n /\ j \in 1..Len(stack)
      BY <1>3, <1>4, <2>4, <3>1, <3>3
    <3>4. CASE i \in 1..Len(stack) /\ j = n
      BY <1>3, <1>4, <2>4, <3>1, <3>4
    <3>5. CASE i \in 1..Len(stack) /\ j \in 1..Len(stack)
      BY <1>4, <2>1, <2>4, <3>5 DEF MarksFit, MarkedOnce
    <3> QED BY <1>5, <3>2, <3>3, <3>4, <3>5
  <2>5. MarksFit(states', stack')
    BY <2>3, <2>4 DEF MarksFit, MarkedOnce
  <2> QED BY <1>4, <2>5, MarksAreFit
<1>12. Flow'
  <2>1. RunningIsLast'
    <3> SUFFICES ASSUME NEW i \in 1..Len(stack'), stack'[i].running PROVE FALSE
      BY DEF RunningIsLast
    <3>1. i \in 1..Len(stack) /\ stack[i].running
      BY <1>3, <1>4, <1>5
    <3>2. i = Len(stack)
      BY <3>1 DEF IInv, Flow, RunningIsLast
    <3>3. stack # <<>> /\ Top.running
      BY <3>1, <3>2 DEF Top
    <3> QED BY <3>3
  <2>2. InputIsTops'
    BY <1>3, <1>4 DEF InputIsTops
  <2>3. UsesAreHandled'
    <3> SUFFICES ASSUME NEW i \in 1..Len(stack'), NEW q \in ws.uses[stack'[i].pkg]
                 PROVE  Handled(q, stack'[i], states', resolution)
      BY DEF UsesAreHandled
    <3>1. CASE i = n
      BY <1>3, <1>4, <3>1 DEF Handled
    <3>2. CASE i \in 1..Len(stack)
      <4>1. Handled(q, stack[i], states, resolution) /\ stack'[i] = stack[i]
        BY <1>4, <3>2 DEF IInv, Flow, UsesAreHandled
      <4>2. stack[i] \in Frame /\ q \in ws.uses[stack[i].pkg]
        BY <1>2, <3>2, <4>1
      <4>3. q \in Packages
        BY <1>2, <4>2 DEF Workspace, Frame
      <4> QED BY <1>8, <4>1, <4>3 DEF Handled
    <3> QED BY <1>5, <3>1, <3>2
  <2>4. MemoIsPlain'
    <3> SUFFICES ASSUME NEW i \in 1..Len(stack'), stack'[i].memo
                 PROVE  stack'[i].overrides = Nothing
      BY DEF MemoIsPlain
    <3>1. CASE i = n
      BY <1>3, <1>4, <3>1
    <3>2. CASE i \in 1..Len(stack)
      BY <1>4, <3>2 DEF IInv, Flow, MemoIsPlain
    <3> QED BY <1>5, <3>1, <3>2
  <2> QED BY <2>1, <2>2, <2>3, <2>4 DEF Flow
<1>13. ResolvedIsClosed'
  <2> SUFFICES ASSUME NEW q \in Packages, states'[q] = "resolved"
               PROVE  Closed(resolution[q]) /\ ServesUses(q)' /\ MeetsImports(q)
    BY <1>1, ClosedKept, ImportsKept DEF ResolvedIsClosed
  <2>1. Closed(resolution[q]) /\ ServesUses(q) /\ MeetsImports(q)
    BY <1>8 DEF IInv, ResolvedIsClosed
  <2>2. ws.uses[q] \subseteq Packages
    BY <1>2 DEF Workspace
  <2> QED BY <1>8, <2>1, <2>2 DEF ServesUses
<1> QED BY <1>9, <1>10, <1>11, <1>12, <1>13 DEF IInv

LEMMA CallStep ==
  ASSUME IInv, NEW p \in Packages, NEW o \in RemoteSelection, Call(p, o)
  PROVE  IInv'
<1>1. /\ stack = <<>> /\ outcome \notin {"running", "failing"}
      /\ UNCHANGED <<mvsVars, ws, resolution>>
  BY DEF Call
<1>2. stack \in Seq(Frame) /\ result \in Resolution /\ ws \in Workspace
      /\ states \in [Packages -> {"none", "in_progress", "resolved"}]
      /\ resolution \in [Packages -> Selection]
  BY DEF IInv, Typed, TypeOK
<1>3. CASE CallMemoised(p)
  <2>1. /\ outcome' = "ok" /\ UNCHANGED <<states, stack>>
        /\ result' = [pkg |-> p, direct |-> [id \in Ids |->
                        IF DirectOf(p, Nothing)[id] # Absent THEN resolution[p][id] ELSE Absent],
                      selected |-> resolution[p]]
    BY <1>3 DEF CallMemoised
  <2>2. resolution[p] \in Selection
    BY <1>2
  <2>3. [id \in Ids |-> IF DirectOf(p, Nothing)[id] # Absent THEN resolution[p][id] ELSE Absent]
          \in Selection
    BY <2>2 DEF Selection
  <2>4. result' \in Resolution
    BY <2>1, <2>2, <2>3 DEF Resolution
  <2> QED BY <1>1, <2>1, <2>4, QuietStep
<1>4. CASE o = Nothing /\ states[p] # "resolved" /\ Push(p) /\ outcome' = "running" /\ UNCHANGED result
  <2>1. states[p] = "none"
    <3>1. MarksFit(states, stack)
      BY <1>2, MarksAreFit DEF IInv
    <3>2. ~Marked(p, stack)
      BY <1>1 DEF Marked
    <3>3. states[p] # "in_progress"
      BY <3>1, <3>2 DEF MarksFit
    <3> QED BY <1>2, <1>4, <3>3
  <2>2. /\ stack' = Append(stack, NewFrame(p, Nothing, TRUE))
        /\ states' = [states EXCEPT ![p] = "in_progress"]
    BY <1>4 DEF Push
  <2> QED BY <1>1, <1>2, <1>4, <2>1, <2>2, PushStep, NothingIsRemote
<1>5. CASE o # Nothing /\ stack' = <<NewFrame(p, o, FALSE)>> /\ outcome' = "running"
           /\ UNCHANGED <<states, result>>
  <2>1. stack' = Append(stack, NewFrame(p, o, FALSE))
    BY <1>1, <1>5
  <2> QED BY <1>1, <1>2, <1>5, <2>1, PushStep
<1> QED BY <1>3, <1>4, <1>5 DEF Call

LEMMA RecurseStep ==
  ASSUME IInv, Recurse
  PROVE  IInv'
<1>1. /\ stack # <<>> /\ ~Top.running /\ outcome = "running" /\ Top.todo # <<>>
      /\ states[Head(Top.todo)] = "none"
      /\ UNCHANGED <<mvsVars, ws, resolution, outcome, result>>
  BY DEF Recurse, Importing, Active
<1>2. stack \in Seq(Frame) /\ result \in Resolution
  BY DEF IInv, Typed, TypeOK
<1>3. Head(Top.todo) \in Packages
  <2>1. Top \in Frame
    BY <1>1, <1>2, TopIsFrame
  <2>2. Top.todo \in Seq(Packages)
    BY <2>1 DEF Frame
  <2> QED BY <1>1, <2>2
<1>4. /\ stack' = Append(stack, NewFrame(Head(Top.todo), Nothing, TRUE))
      /\ states' = [states EXCEPT ![Head(Top.todo)] = "in_progress"]
  BY DEF Recurse, Push
<1> QED BY <1>1, <1>2, <1>3, <1>4, PushStep, NothingIsRemote

-----------------------------------------------------------------------------
(* The innermost call goes on: its frame is replaced.                      *)

LEMMA ReplaceStep ==
  ASSUME IInv, stack # <<>>, NEW f \in Frame, stack' = WithTop(f),
         f.pkg = Top.pkg, f.memo = Top.memo, f.overrides = Top.overrides,
         f.floors \in RemoteSelection,
         f.running => f.todo = <<>> /\ input' = InputOf(f),
         \A q \in ws.uses[f.pkg] : Handled(q, f, states, resolution),
         (MVS!TypeOK /\ MVS!Inv)', registry' = registry, selected' \in RemoteSelection,
         UNCHANGED <<ws, states, resolution, outcome, result>>
  PROVE  IInv'
<1>1. stack \in Seq(Frame)
  BY DEF IInv, Typed, TypeOK
<1> DEFINE n == Len(stack)
<1>2. /\ stack' \in Seq(Frame) /\ Len(stack') = n /\ stack' # <<>> /\ Top' = f
      /\ stack'[n] = f
      /\ \A i \in 1..n : i # n => stack'[i] = stack[i]
  BY <1>1, TopReplaced
<1>3. n \in Nat \ {0} /\ stack[n] = Top /\ n \in 1..n
  BY <1>1, TopIsFrame DEF Top
<1>4. \A i \in 1..n : stack'[i].pkg = stack[i].pkg /\ stack'[i].memo = stack[i].memo
  BY <1>2, <1>3
<1> HIDE DEF n
<1>5. Typed'
  <2>1. TypeOK'
    BY <1>2 DEF IInv, Typed, TypeOK
  <2>2. NoStdlib'
    <3>1. \A i \in 1..n : stack'[i].floors \in RemoteSelection /\ stack'[i].overrides \in RemoteSelection
      BY <1>2, <1>3 DEF IInv, Typed, NoStdlib, n
    <3> QED BY <1>2, <3>1 DEF IInv, Typed, NoStdlib
  <2> QED BY <2>1, <2>2 DEF Typed
<1>6. CallsRun'
  BY <1>2 DEF IInv, CallsRun
<1>7. MarksMatchCalls'
  <2>1. MarksFit(states, stack)
    BY <1>1, MarksAreFit DEF IInv
  <2>2. \A q : Marked(q, stack') <=> Marked(q, stack)
    BY <1>2, <1>4 DEF Marked, n
  <2>3. MarkedOnce(stack')
    BY <1>2, <1>4, <2>1 DEF MarksFit, MarkedOnce, n
  <2> QED BY <1>2, <2>1, <2>2, <2>3, MarksAreFit DEF MarksFit
<1>8. Flow'
  <2>1. RunningIsLast'
    <3> SUFFICES ASSUME NEW i \in 1..n, stack'[i].running PROVE i = n /\ stack'[i].todo = <<>>
      BY <1>2 DEF RunningIsLast
    <3>1. CASE i = n
      BY <1>2, <3>1
    <3>2. CASE i # n
      BY <1>2, <3>2 DEF IInv, Flow, RunningIsLast, n
    <3> QED BY <3>1, <3>2
  <2>2. InputIsTops'
    <3>1. ws' = ws
      OBVIOUS
    <3> QED BY <1>2, <3>1 DEF InputIsTops, InputOf, DirectOf
  <2>3. UsesAreHandled'
    <3> SUFFICES ASSUME NEW i \in 1..n, NEW q \in ws.uses[stack'[i].pkg]
                 PROVE  Handled(q, stack'[i], states, resolution)
      BY <1>2 DEF UsesAreHandled
    <3>1. CASE i = n
      BY <1>2, <3>1
    <3>2. CASE i # n
      BY <1>2, <3>2 DEF IInv, Flow, UsesAreHandled, n
    <3> QED BY <3>1, <3>2
  <2>4. MemoIsPlain'
    <3> SUFFICES ASSUME NEW i \in 1..n, stack'[i].memo PROVE stack'[i].overrides = Nothing
      BY <1>2 DEF MemoIsPlain
    <3>1. stack'[i].overrides = stack[i].overrides /\ stack[i].memo
      BY <1>2, <1>3, <1>4
    <3> QED BY <3>1 DEF IInv, Flow, MemoIsPlain, n
  <2> QED BY <2>1, <2>2, <2>3, <2>4 DEF Flow
<1>9. ResolvedIsClosed'
  BY ClosedKept, ImportsKept DEF IInv, ResolvedIsClosed, ServesUses
<1> QED BY <1>5, <1>6, <1>7, <1>8, <1>9 DEF IInv

(* What holds of the innermost frame.                                      *)
LEMMA TopFacts ==
  ASSUME IInv, stack # <<>>
  PROVE  /\ Top \in Frame /\ Top.pkg \in Packages
         /\ Top.floors \in RemoteSelection /\ Top.overrides \in RemoteSelection
         /\ Top.running => Top.todo = <<>> /\ input = InputOf(Top)
         /\ Top.memo => Top.overrides = Nothing
         /\ \A q \in ws.uses[Top.pkg] : q \in Packages /\ Handled(q, Top, states, resolution)
<1>1. stack \in Seq(Frame) /\ ws \in Workspace
  BY DEF IInv, Typed, TypeOK
<1>2. Len(stack) \in 1..Len(stack) /\ Top = stack[Len(stack)] /\ Top \in Frame
  BY <1>1, TopIsFrame DEF Top
<1>3. Top.pkg \in Packages
  BY <1>2 DEF Frame
<1>4. Top.floors \in RemoteSelection /\ Top.overrides \in RemoteSelection
  BY <1>2 DEF IInv, Typed, NoStdlib
<1>5. Top.running => Top.todo = <<>> /\ input = InputOf(Top)
  BY <1>2 DEF IInv, Flow, RunningIsLast, InputIsTops
<1>8. Top.memo => Top.overrides = Nothing
  BY <1>2 DEF IInv, Flow, MemoIsPlain
<1>6. \A q \in ws.uses[Top.pkg] : Handled(q, Top, states, resolution)
  BY <1>2 DEF IInv, Flow, UsesAreHandled
<1>7. ws.uses[Top.pkg] \subseteq Packages
  BY <1>1, <1>3 DEF Workspace
<1> QED BY <1>2, <1>3, <1>4, <1>5, <1>6, <1>7, <1>8

LEMMA ImportFloorsStep ==
  ASSUME IInv, ImportFloors
  PROVE  IInv'
<1> DEFINE q == Head(Top.todo)
           f == [Top EXCEPT !.todo = Tail(@), !.floors = MergeFloors(@, resolution[q])]
<1>1. /\ stack # <<>> /\ ~Top.running /\ Top.todo # <<>> /\ states[q] = "resolved"
      /\ stack' = WithTop(f)
      /\ UNCHANGED <<mvsVars, ws, states, resolution, outcome, result>>
  BY DEF ImportFloors, Importing, Active
<1>2. Top \in Frame /\ Top.floors \in RemoteSelection
      /\ \A r \in ws.uses[Top.pkg] : r \in Packages /\ Handled(r, Top, states, resolution)
  BY <1>1, TopFacts
<1>3. Top.todo \in Seq(Packages) /\ Top.floors \in Selection
  BY <1>2 DEF Frame
<1>4. /\ q \in Packages /\ Tail(Top.todo) \in Seq(Packages)
      /\ \A k \in 1..Len(Top.todo) : Top.todo[k] = q \/ \E j \in 1..Len(Tail(Top.todo)) : Tail(Top.todo)[j] = Top.todo[k]
  <2> DEFINE s == Top.todo
  <2>1. s \in Seq(Packages) /\ s # <<>>
    BY <1>1, <1>3
  <2> HIDE DEF s
  <2>2. /\ Head(s) = s[1] /\ Head(s) \in Packages /\ Tail(s) \in Seq(Packages)
        /\ Len(s) \in Nat \ {0} /\ Len(Tail(s)) = Len(s) - 1
        /\ \A j \in 1..Len(s) - 1 : Tail(s)[j] = s[j + 1]
    BY <2>1
  <2>3. ASSUME NEW k \in 1..Len(s), k # 1
        PROVE  \E j \in 1..Len(Tail(s)) : Tail(s)[j] = s[k]
    <3>1. k - 1 \in 1..Len(s) - 1 /\ (k - 1) + 1 = k
      BY <2>2, <2>3
    <3>2. Tail(s)[k - 1] = s[k]
      BY <2>2, <3>1
    <3> QED BY <2>2, <3>1, <3>2
  <2>4. \A k \in 1..Len(s) : s[k] = Head(s) \/ \E j \in 1..Len(Tail(s)) : Tail(s)[j] = s[k]
    BY <2>2, <2>3
  <2> QED BY <2>2, <2>4 DEF s
<1>5. resolution[q] \in RemoteSelection /\ resolution \in [Packages -> RemoteSelection]
  BY <1>4 DEF IInv, Typed, NoStdlib
<1> DEFINE g == MergeFloors(Top.floors, resolution[q])
<1>6. /\ g \in RemoteSelection
      /\ Below(Top.floors, g) /\ Below(resolution[q], g)
  BY <1>2, <1>5, MergedFloors
<1>7. /\ f.pkg = Top.pkg /\ f.memo = Top.memo /\ f.overrides = Top.overrides
      /\ f.running = Top.running /\ f.todo = Tail(Top.todo) /\ f.floors = g
  BY <1>2 DEF Frame
<1>8. f \in Frame
  <2>1. g \in Selection
    BY <1>6 DEF RemoteSelection
  <2> HIDE DEF g
  <2>2. f = [Top EXCEPT !.todo = Tail(Top.todo), !.floors = g]
    BY DEF g
  <2> QED BY <1>2, <1>4, <2>1, <2>2 DEF Frame
<1> HIDE DEF f, g, q
<1>9. ASSUME NEW r \in ws.uses[f.pkg] PROVE Handled(r, f, states, resolution)
  <2>1. r \in Packages /\ Handled(r, Top, states, resolution)
    BY <1>2, <1>7
  <2>2. CASE \E k \in 1..Len(Top.todo) : Top.todo[k] = r
    <3>1. CASE r = q
      BY <1>1, <1>6, <1>7, <3>1 DEF Handled
    <3>2. CASE r # q
      <4>1. \E j \in 1..Len(Tail(Top.todo)) : Tail(Top.todo)[j] = r
        BY <1>4, <2>2, <3>2
      <4> QED BY <1>7, <4>1 DEF Handled
    <3> QED BY <3>1, <3>2
  <2>3. CASE states[r] = "resolved" /\ Below(resolution[r], Top.floors)
    <3>1. resolution[r] \in Selection /\ Top.floors \in Selection /\ g \in Selection
      BY <1>2, <1>5, <1>6, <2>1 DEF RemoteSelection
    <3>2. Below(resolution[r], g)
      BY <1>6, <2>3, <3>1, BelowTransitive
    <3> QED BY <1>7, <2>3, <3>2 DEF Handled
  <2> QED BY <2>1, <2>2, <2>3 DEF Handled
<1>10. (MVS!TypeOK /\ MVS!Inv)' /\ registry' = registry /\ selected' \in RemoteSelection
  <2>1. UNCHANGED <<registry, selected>>
    BY <1>1 DEF mvsVars
  <2> QED BY <1>1, <2>1, SelectionUnchanged DEF IInv, Typed, TypeOK, NoStdlib
<1>11. ~f.running
  BY <1>1, <1>7
<1> QED BY <1>1, <1>6, <1>7, <1>8, <1>9, <1>10, <1>11, ReplaceStep

LEMMA StartSelectionStep ==
  ASSUME IInv, StartSelection
  PROVE  IInv'
<1> DEFINE f == [Top EXCEPT !.running = TRUE]
           in == [direct |-> AsList(DirectOf(Top.pkg, Top.overrides)), floors |-> AsList(Top.floors)]
<1>1. /\ stack # <<>> /\ Top.todo = <<>> /\ MVS!Start(in) /\ stack' = WithTop(f)
      /\ UNCHANGED <<ws, states, resolution, outcome, result>>
  BY DEF StartSelection, Active
<1>2. /\ Top \in Frame /\ Top.pkg \in Packages
      /\ Top.floors \in RemoteSelection /\ Top.overrides \in RemoteSelection
      /\ \A q \in ws.uses[Top.pkg] : Handled(q, Top, states, resolution)
  BY <1>1, TopFacts
<1>3. in \in MVS!Input
  <2>1. ws \in Workspace
    BY DEF IInv, Typed, TypeOK
  <2>2. DirectOf(Top.pkg, Top.overrides) \in RemoteSelection
    BY <1>2, <2>1, DirectOfIsRemote
  <2>3. /\ AsList(DirectOf(Top.pkg, Top.overrides)) \in Seq([id : Ids \ StdlibIds, version : Versions])
        /\ AsList(Top.floors) \in Seq([id : Ids \ StdlibIds, version : Versions])
    BY <1>2, <2>2, AsListHolds
  <2> DEFINE l == AsList(DirectOf(Top.pkg, Top.overrides))
  <2> DEFINE S == [id : Ids \ StdlibIds, version : Versions]
             T == [id : Ids \ StdlibIds, version : Versions \cup {0}]
  <2>4. l \in Seq(T)
    <3>1. S \subseteq T /\ l \in Seq(S)
      BY <2>3
    <3> HIDE DEF l, S, T
    <3>2. Len(l) \in Nat /\ l = [i \in 1..Len(l) |-> l[i]] /\ \A i \in 1..Len(l) : l[i] \in T
      BY <3>1
    <3> QED BY <3>2
  <2> QED BY <2>3, <2>4 DEF MVS!Input, MVS!Absent
<1>4. (MVS!TypeOK /\ MVS!Inv)'
  BY <1>1, <1>3, SelectionStarts DEF IInv, Typed, TypeOK
<1>5. registry' = registry /\ input' = in /\ selected' \in RemoteSelection
  <2>1. registry' = registry /\ input' = in /\ selected' = Nothing
    BY <1>1 DEF MVS!Start, MVS!Nothing, Nothing, Absent, MVS!Absent
  <2> QED BY <2>1, NothingIsRemote
<1>6. /\ f \in Frame /\ f.pkg = Top.pkg /\ f.memo = Top.memo /\ f.overrides = Top.overrides
      /\ f.floors = Top.floors /\ f.todo = Top.todo
  BY <1>2 DEF Frame
<1>7. in = InputOf(f)
  BY <1>6 DEF InputOf
<1> HIDE DEF f, in
<1>8. \A q \in ws.uses[f.pkg] : Handled(q, f, states, resolution)
  BY <1>2, <1>6 DEF Handled
<1> QED BY <1>1, <1>2, <1>4, <1>5, <1>6, <1>7, <1>8, ReplaceStep

LEMMA SelectionStepStep ==
  ASSUME IInv, SelectionStep
  PROVE  IInv'
<1>1. MVS!Step /\ UNCHANGED <<ws, states, resolution, stack, outcome, result>>
  BY DEF SelectionStep, resolverVars
<1>2. (MVS!TypeOK /\ MVS!Inv)' /\ selected' \in RemoteSelection
  BY <1>1, SelectionKeeps, SelectionIsRemote DEF IInv, Typed, TypeOK, NoStdlib
<1>3. UNCHANGED <<registry, input>>
  BY <1>1 DEF MVS!Step, MVS!SkipStdlib, MVS!RaiseFloor, MVS!KeepFloor, MVS!FailSpec,
              MVS!EndSource, MVS!Visit, MVS!Finish
<1>4. Typed'
  BY <1>1, <1>2 DEF IInv, Typed, TypeOK, NoStdlib
<1>5. CallsRun'
  BY <1>1 DEF IInv, CallsRun
<1>6. MarksMatchCalls'
  BY <1>1 DEF IInv, MarksMatchCalls, MarkedFrames
<1>7. Flow'
  <2>1. RunningIsLast'
    BY <1>1 DEF IInv, Flow, RunningIsLast
  <2>2. InputIsTops'
    BY <1>1, <1>3 DEF IInv, Flow, InputIsTops, InputOf, Top, DirectOf
  <2>3. UsesAreHandled'
    BY <1>1 DEF IInv, Flow, UsesAreHandled
  <2>4. MemoIsPlain'
    BY <1>1 DEF IInv, Flow, MemoIsPlain
  <2> QED BY <2>1, <2>2, <2>3, <2>4 DEF Flow
<1>8. ResolvedIsClosed'
  BY <1>1, <1>3, ClosedKept, ImportsKept DEF IInv, ResolvedIsClosed, ServesUses
<1> QED BY <1>4, <1>5, <1>6, <1>7, <1>8 DEF IInv

-----------------------------------------------------------------------------
(* The innermost call returns or fails: its frame goes, and its mark with  *)
(* it; what was resolved stays.                                            *)

LEMMA PopStep ==
  ASSUME IInv, stack # <<>>, stack' = Popped, UNCHANGED <<mvsVars, ws>>, result' \in Resolution,
         states' \in [Packages -> {"none", "in_progress", "resolved"}],
         resolution' \in [Packages -> RemoteSelection],
         \A q \in Packages : states'[q] = "in_progress" <=>
           states[q] = "in_progress" /\ ~(Top.memo /\ q = Top.pkg),
         \A q \in Packages : states[q] = "resolved" =>
           states'[q] = "resolved" /\ resolution'[q] = resolution[q],
         \A q \in Packages : states'[q] = "resolved" /\ states[q] # "resolved" =>
           /\ Closed(resolution'[q])
           /\ \A r \in ws.uses[q] : states[r] = "resolved" /\ Below(resolution[r], resolution'[q])
           /\ Below(DirectOf(q, Nothing), resolution'[q]),
         outcome' \in {"none", "running", "failing", "ok", "error"},
         outcome' \in {"running", "failing"} <=> Len(stack) # 1
  PROVE  IInv'
<1>1. UNCHANGED <<registry, input, selected>>
  BY DEF mvsVars
<1>2. stack \in Seq(Frame) /\ ws \in Workspace
  BY DEF IInv, Typed, TypeOK
<1> DEFINE n == Len(stack)
           m == Len(stack')
<1>3. /\ stack' \in Seq(Frame) /\ m = n - 1
      /\ stack' # <<>> <=> n # 1
      /\ \A i \in 1..m : i \in 1..n /\ i # n /\ stack'[i] = stack[i]
      /\ \A i \in 1..n : i # n => i \in 1..m
  BY <1>2, TopPopped
<1>4. n \in 1..n /\ stack[n] = Top
  BY <1>2, TopIsFrame DEF Top
<1> HIDE DEF n, m
<1>5. Typed'
  <2>1. MVS!TypeOK' /\ MVS!Inv'
    BY SelectionUnchanged DEF IInv, Typed, TypeOK
  <2>2. resolution' \in [Packages -> Selection]
    BY DEF RemoteSelection
  <2>3. TypeOK'
    BY <2>1, <2>2, <1>3 DEF IInv, Typed, TypeOK
  <2>4. NoStdlib'
    BY <1>1, <1>3 DEF IInv, Typed, NoStdlib, n, m
  <2> QED BY <2>1, <2>3, <2>4 DEF Typed
<1>6. CallsRun'
  BY <1>3 DEF CallsRun, n
<1>7. MarksMatchCalls'
  <2>1. MarksFit(states, stack)
    BY <1>2, MarksAreFit DEF IInv
  <2>2. MarkedOnce(stack')
    <3> SUFFICES ASSUME NEW i \in 1..m, NEW j \in 1..m, stack'[i].memo, stack'[j].memo,
                        stack'[i].pkg = stack'[j].pkg
                 PROVE  i = j
      BY DEF MarkedOnce, m
    <3>1. i \in 1..n /\ j \in 1..n /\ stack'[i] = stack[i] /\ stack'[j] = stack[j]
      BY <1>3
    <3> QED BY <2>1, <3>1 DEF MarksFit, MarkedOnce, n
  <2>3. ASSUME NEW q PROVE Marked(q, stack') <=> Marked(q, stack) /\ ~(Top.memo /\ q = Top.pkg)
    <3>1. ASSUME Marked(q, stack') PROVE Marked(q, stack) /\ ~(Top.memo /\ q = Top.pkg)
      <4>1. PICK i \in 1..m : stack'[i].memo /\ stack'[i].pkg = q
        BY <3>1 DEF Marked, m
      <4>2. i \in 1..n /\ i # n /\ stack[i].memo /\ stack[i].pkg = q
        BY <1>3, <4>1
      <4>3. ~(Top.memo /\ q = Top.pkg)
        BY <1>4, <2>1, <4>2 DEF MarksFit, MarkedOnce, n
      <4> QED BY <4>2, <4>3 DEF Marked, n
    <3>2. ASSUME Marked(q, stack), ~(Top.memo /\ q = Top.pkg) PROVE Marked(q, stack')
      <4>1. PICK i \in 1..n : stack[i].memo /\ stack[i].pkg = q
        BY <3>2 DEF Marked, n
      <4>2. i # n
        BY <1>4, <3>2, <4>1
      <4>3. i \in 1..m /\ stack'[i] = stack[i]
        BY <1>3, <4>2
      <4> QED BY <4>1, <4>3 DEF Marked, m
    <3> QED BY <3>1, <3>2
  <2>4. \A q \in Packages : states[q] = "in_progress" <=> Marked(q, stack)
    BY <2>1 DEF MarksFit
  <2>5. MarksFit(states', stack')
    BY <2>2, <2>3, <2>4 DEF MarksFit
  <2> QED BY <1>3, <2>5, MarksAreFit
<1>8. Flow'
  <2>1. \A i \in 1..m : ~stack'[i].running
    BY <1>3 DEF IInv, Flow, RunningIsLast, n
  <2>2. RunningIsLast'
    BY <2>1 DEF RunningIsLast, m
  <2>3. InputIsTops'
    <3> SUFFICES ASSUME stack' # <<>> PROVE ~Top'.running
      BY DEF InputIsTops
    <3>1. m \in 1..m
      BY <1>3 DEF m
    <3> QED BY <2>1, <3>1 DEF Top, m
  <2>4. UsesAreHandled'
    <3> SUFFICES ASSUME NEW i \in 1..m, NEW q \in ws.uses[stack'[i].pkg]
                 PROVE  Handled(q, stack'[i], states', resolution')
      BY DEF UsesAreHandled, m
    <3>0. i \in 1..n /\ stack'[i] = stack[i]
      BY <1>3
    <3>1. i \in 1..n /\ stack'[i] = stack[i] /\ stack[i] \in Frame
      BY <1>2, <3>0 DEF n
    <3>2. Handled(q, stack[i], states, resolution)
      BY <3>1 DEF IInv, Flow, UsesAreHandled, n
    <3>3. q \in Packages
      BY <1>2, <3>1 DEF Workspace, Frame
    <3>4. states[q] = "resolved" => states'[q] = "resolved" /\ resolution'[q] = resolution[q]
      BY <3>3
    <3> QED BY <3>1, <3>2, <3>4 DEF Handled
  <2>5. MemoIsPlain'
    <3> SUFFICES ASSUME NEW i \in 1..m, stack'[i].memo PROVE stack'[i].overrides = Nothing
      BY DEF MemoIsPlain, m
    <3>1. i \in 1..n /\ stack'[i] = stack[i]
      BY <1>3
    <3> QED BY <3>1 DEF IInv, Flow, MemoIsPlain, n
  <2> QED BY <2>2, <2>3, <2>4, <2>5 DEF Flow
<1>9. ResolvedIsClosed'
  <2> SUFFICES ASSUME NEW q \in Packages, states'[q] = "resolved"
               PROVE  /\ Closed(resolution'[q]) /\ ServesUses(q)'
                      /\ Below(DirectOf(q, Nothing), resolution'[q])
    <3>1. \A q \in Packages : Closed(resolution'[q]) <=> Closed(resolution[q])'
      BY <1>1, ClosedStays
    <3>2. \A q \in Packages : MeetsImports(q)' <=> Below(DirectOf(q, Nothing), resolution'[q])
      BY DEF MeetsImports, DirectOf, Below
    <3> QED BY <3>1, <3>2 DEF ResolvedIsClosed
  <2>1. ws.uses[q] \subseteq Packages
    BY <1>2 DEF Workspace
  <2>2. CASE states[q] = "resolved"
    <3>1. Closed(resolution[q]) /\ resolution'[q] = resolution[q]
          /\ \A r \in ws.uses[q] : states[r] = "resolved" /\ Below(resolution[r], resolution[q])
      BY <2>2 DEF IInv, ResolvedIsClosed, ServesUses
    <3>2. Below(DirectOf(q, Nothing), resolution'[q])
      BY <2>2 DEF IInv, ResolvedIsClosed, MeetsImports
    <3> QED BY <2>1, <3>1, <3>2 DEF ServesUses
  <2>3. CASE states[q] # "resolved"
    <3>1. Closed(resolution'[q]) /\ Below(DirectOf(q, Nothing), resolution'[q])
          /\ \A r \in ws.uses[q] : states[r] = "resolved" /\ Below(resolution[r], resolution'[q])
      BY <2>3
    <3> QED BY <2>1, <3>1 DEF ServesUses
  <2> QED BY <2>2, <2>3
<1> QED BY <1>5, <1>6, <1>7, <1>8, <1>9 DEF IInv

(* A marked top is in progress, so its result replaces no other.           *)
LEMMA TopIsInProgress ==
  ASSUME IInv, stack # <<>>, Top.memo
  PROVE  states[Top.pkg] = "in_progress"
<1>1. stack \in Seq(Frame)
  BY DEF IInv, Typed, TypeOK
<1>2. Len(stack) \in 1..Len(stack) /\ Top = stack[Len(stack)] /\ Top \in Frame
  BY <1>1, TopIsFrame DEF Top
<1>3. Marked(Top.pkg, stack) /\ Top.pkg \in Packages
  BY <1>2 DEF Marked, Frame
<1>4. MarksFit(states, stack)
  BY <1>1, MarksAreFit DEF IInv
<1> QED BY <1>3, <1>4 DEF MarksFit

(* A selection that meets the list of another dominates it.                *)
LEMMA MetListIsBelow ==
  ASSUME NEW s \in RemoteSelection, selected \in RemoteSelection,
         \A i \in 1..Len(AsList(s)) : MVS!Meets(selected, AsList(s)[i])
  PROVE  Below(s, selected)
<1>1. s \in Selection /\ selected \in Selection
  BY DEF RemoteSelection
<1> SUFFICES ASSUME NEW id \in Ids PROVE s[id] <= selected[id]
  BY DEF Below
<1>2. s[id] \in Nat /\ selected[id] \in Nat
  BY <1>1, SelectionNat
<1>3. CASE s[id] = Absent
  BY <1>2, <1>3 DEF Absent
<1>4. CASE s[id] # Absent
  <2>1. id \notin StdlibIds
    BY <1>4 DEF RemoteSelection
  <2>2. PICK i \in 1..Len(AsList(s)) : AsList(s)[i] = [id |-> id, version |-> s[id]]
    BY <1>4, AsListHolds
  <2>3. MVS!Meets(selected, [id |-> id, version |-> s[id]])
    BY <2>2
  <2> QED BY <2>1, <2>3 DEF MVS!Meets
<1> QED BY <1>3, <1>4

(* The selection of a finished call dominates its imports and its floors.  *)
LEMMA SelectionMeetsInput ==
  ASSUME IInv, stack # <<>>, Top.running, pc = "resolved"
  PROVE  Below(Top.floors, selected) /\ Below(DirectOf(Top.pkg, Top.overrides), selected)
<1>1. /\ Top.floors \in RemoteSelection /\ input = InputOf(Top)
      /\ Top.overrides \in RemoteSelection /\ Top.pkg \in Packages
  BY TopFacts
<1>2. ws \in Workspace /\ selected \in RemoteSelection
  BY DEF IInv, Typed, TypeOK, NoStdlib
<1> DEFINE direct == DirectOf(Top.pkg, Top.overrides)
<1>3. direct \in RemoteSelection
  BY <1>1, <1>2, DirectOfIsRemote
<1>4. input.direct = AsList(direct) /\ input.floors = AsList(Top.floors)
  BY <1>1 DEF InputOf
<1>5. /\ \A i \in 1..Len(input.direct) : MVS!Meets(selected, input.direct[i])
      /\ \A i \in 1..Len(input.floors) : MVS!Meets(selected, input.floors[i])
  BY SelectionEnds DEF IInv, Typed, TypeOK
<1> HIDE DEF direct
<1>6. Below(direct, selected)
  BY <1>2, <1>3, <1>4, <1>5, MetListIsBelow
<1>7. Below(Top.floors, selected)
  BY <1>1, <1>2, <1>4, <1>5, MetListIsBelow
<1> QED BY <1>6, <1>7 DEF direct

LEMMA ReturnStep ==
  ASSUME IInv, Return
  PROVE  IInv'
<1>1. /\ stack # <<>> /\ Top.running /\ outcome = "running" /\ pc = "resolved"
      /\ stack' = Popped /\ UNCHANGED <<mvsVars, ws>>
  BY DEF Return, Selecting
<1>2. /\ states \in [Packages -> {"none", "in_progress", "resolved"}]
      /\ resolution \in [Packages -> RemoteSelection] /\ selected \in RemoteSelection
      /\ result \in Resolution /\ ws \in Workspace
  BY DEF IInv, Typed, TypeOK, NoStdlib
<1>3. /\ Top.pkg \in Packages /\ Top.floors \in RemoteSelection /\ Top.todo = <<>>
      /\ Top.memo => Top.overrides = Nothing
      /\ \A q \in ws.uses[Top.pkg] : q \in Packages /\ Handled(q, Top, states, resolution)
  BY <1>1, TopFacts
<1>4. /\ outcome' \in {"none", "running", "failing", "ok", "error"}
      /\ outcome' \in {"running", "failing"} <=> Len(stack) # 1
  BY <1>1 DEF Return
<1>5. result' \in Resolution
  <2>1. FoldDirect(Top.pkg, Top.overrides, selected) \in Selection /\ selected \in Selection
    BY <1>2 DEF FoldDirect, Selection, RemoteSelection
  <2> QED BY <1>2, <1>3, <2>1 DEF Return, Resolution
<1>6. CASE ~Top.memo
  <2>1. UNCHANGED <<states, resolution>>
    BY <1>6 DEF Return, Memoised
  <2> QED BY <1>1, <1>2, <1>4, <1>5, <1>6, <2>1, PopStep
<1>7. CASE Top.memo
  <2>1. /\ states' = [states EXCEPT ![Top.pkg] = "resolved"]
        /\ resolution' = [resolution EXCEPT ![Top.pkg] = selected]
    BY <1>7 DEF Return, Memoised
  <2>2. states[Top.pkg] = "in_progress"
    BY <1>1, <1>7, TopIsInProgress
  <2> DEFINE p == Top.pkg
  <2>3. Closed(selected)
    BY <1>1, SelectionEnds DEF IInv, Typed, TypeOK
  <2>4. Below(DirectOf(p, Nothing), selected)
    BY <1>1, <1>3, <1>7, SelectionMeetsInput
  <2>5. ASSUME NEW r \in ws.uses[p] PROVE states[r] = "resolved" /\ Below(resolution[r], selected)
    <3>1. r \in Packages /\ Handled(r, Top, states, resolution)
      BY <1>3
    <3>2. states[r] = "resolved" /\ Below(resolution[r], Top.floors)
      BY <1>3, <3>1 DEF Handled
    <3>3. Below(Top.floors, selected)
      BY <1>1, SelectionMeetsInput
    <3>4. resolution[r] \in Selection /\ Top.floors \in Selection /\ selected \in Selection
      BY <1>2, <1>3, <3>1 DEF RemoteSelection
    <3> QED BY <3>2, <3>3, <3>4, BelowTransitive
  <2> HIDE DEF p
  <2>6. p \in Packages /\ states[p] = "in_progress" /\ p = Top.pkg
        /\ states' = [states EXCEPT ![p] = "resolved"]
        /\ resolution' = [resolution EXCEPT ![p] = selected]
    BY <1>3, <2>1, <2>2 DEF p
  <2>7. /\ states' \in [Packages -> {"none", "in_progress", "resolved"}]
        /\ resolution' \in [Packages -> RemoteSelection]
        /\ \A q \in Packages : states'[q] = IF q = p THEN "resolved" ELSE states[q]
        /\ \A q \in Packages : resolution'[q] = IF q = p THEN selected ELSE resolution[q]
    BY <1>2, <2>6
  <2>8. /\ \A q \in Packages : states'[q] = "in_progress" <=>
             states[q] = "in_progress" /\ ~(Top.memo /\ q = Top.pkg)
        /\ \A q \in Packages : states[q] = "resolved" =>
             states'[q] = "resolved" /\ resolution'[q] = resolution[q]
    BY <1>7, <2>6, <2>7
  <2>9. \A q \in Packages : states'[q] = "resolved" /\ states[q] # "resolved" =>
          /\ Closed(resolution'[q])
          /\ \A r \in ws.uses[q] : states[r] = "resolved" /\ Below(resolution[r], resolution'[q])
          /\ Below(DirectOf(q, Nothing), resolution'[q])
    <3>1. \A q \in Packages : states'[q] = "resolved" /\ states[q] # "resolved" =>
            q = p /\ resolution'[q] = selected
      BY <2>7
    <3> QED BY <2>3, <2>5, <2>4, <3>1
  <2> QED BY <1>1, <1>4, <1>5, <2>7, <2>8, <2>9, PopStep
<1> QED BY <1>6, <1>7

LEMMA UnwindStep ==
  ASSUME IInv, Unwind
  PROVE  IInv'
<1>1. /\ stack # <<>> /\ stack' = Popped /\ UNCHANGED <<mvsVars, ws, resolution, result>>
      /\ states' = IF Top.memo THEN [states EXCEPT ![Top.pkg] = "none"] ELSE states
      /\ outcome' \in {"none", "running", "failing", "ok", "error"}
      /\ outcome' \in {"running", "failing"} <=> Len(stack) # 1
  BY DEF Unwind, Forgotten, IInv, CallsRun
<1>2. /\ states \in [Packages -> {"none", "in_progress", "resolved"}]
      /\ resolution \in [Packages -> RemoteSelection] /\ result \in Resolution
  BY DEF IInv, Typed, TypeOK, NoStdlib
<1>3. Top.pkg \in Packages /\ (Top.memo => states[Top.pkg] = "in_progress")
  BY <1>1, TopFacts, TopIsInProgress
<1>4. /\ states' \in [Packages -> {"none", "in_progress", "resolved"}]
      /\ \A q \in Packages : states'[q] = "in_progress" <=>
           states[q] = "in_progress" /\ ~(Top.memo /\ q = Top.pkg)
      /\ \A q \in Packages : states'[q] = "resolved" <=> states[q] = "resolved"
  <2>1. CASE Top.memo
    BY <1>1, <1>2, <1>3, <2>1
  <2>2. CASE ~Top.memo
    BY <1>1, <1>2, <2>2
  <2> QED BY <2>1, <2>2
<1> QED BY <1>1, <1>2, <1>4, PopStep

-----------------------------------------------------------------------------
LEMMA ResolverKeeps ==
  ASSUME IInv, ResolverStep
  PROVE  IInv'
<1>1. CASE ScanFails \/ CycleFound \/ SelectionFails
  <2>1. /\ stack # <<>> /\ outcome = "running" /\ outcome' = "failing"
        /\ UNCHANGED <<mvsVars, ws, states, resolution, stack, result>>
    BY <1>1 DEF ScanFails, CycleFound, SelectionFails, Active, Importing, Selecting
  <2>2. result \in Resolution
    BY DEF IInv, Typed, TypeOK
  <2> QED BY <2>1, <2>2, QuietStep
<1> QED
  BY <1>1, ImportFloorsStep, RecurseStep, StartSelectionStep, SelectionStepStep, ReturnStep,
     UnwindStep DEF ResolverStep

LEMMA UnusedIsSound == ASSUME ws \in Workspace, Unused PROVE IInv
<1>1. MVS!TypeOK /\ MVS!Inv
  BY SelectionBegins DEF Unused
<1>2. Nothing \in RemoteSelection /\ Nothing \in Selection
  BY NothingIsRemote DEF RemoteSelection
<1>3. stack = <<>> /\ states = [p \in Packages |-> "none"] /\ outcome = "none"
      /\ resolution = [p \in Packages |-> Nothing] /\ selected = Nothing
  BY DEF Unused, MVS!Init, MVS!Nothing, Nothing, MVS!Absent, Absent
<1>4. PackageOrder[1] \in Packages
  <2>1. PackageOrder \in Seq(Packages) /\ \E x \in Packages : \E i \in 1..Len(PackageOrder) : PackageOrder[i] = x
    BY ResolverAssumption DEF ResolverAssumption, Enumerates
  <2> QED BY <2>1
<1>5. result \in Resolution
  BY <1>2, <1>4 DEF Unused, Resolution
<1>6. Typed
  <2>1. TypeOK
    BY <1>1, <1>2, <1>3, <1>5 DEF TypeOK
  <2>2. NoStdlib
    BY <1>2, <1>3 DEF NoStdlib
  <2> QED BY <1>1, <2>1, <2>2 DEF Typed
<1>7. CallsRun /\ Flow /\ ResolvedIsClosed
  BY <1>3 DEF CallsRun, Flow, RunningIsLast, InputIsTops, UsesAreHandled, ResolvedIsClosed,
              MemoIsPlain
<1>8. MarksMatchCalls
  <2>1. stack \in Seq(Frame)
    BY <1>3
  <2>2. MarksFit(states, stack)
    BY <1>3 DEF MarksFit, Marked, MarkedOnce
  <2> QED BY <2>1, <2>2, MarksAreFit
<1> QED BY <1>6, <1>7, <1>8 DEF IInv

LEMMA NextKeeps == IInv /\ [Next]_vars => IInv'
<1> SUFFICES ASSUME IInv, [Next]_vars PROVE IInv'
  OBVIOUS
<1>1. ASSUME NEW p \in Packages, NEW o \in Overrides, Call(p, o) PROVE IInv'
  BY <1>1, CallStep, ResolverAssumption DEF ResolverAssumption
<1>2. CASE UNCHANGED vars
  BY <1>2, QuietStep DEF vars, resolverVars, IInv, Typed, TypeOK
<1> QED BY <1>1, <1>2, ResolverKeeps DEF Next

(* A package's closure serves whatever it uses, directly or not: what is   *)
(* resolved below p contains what p uses and what its members use.         *)
LEMMA ClosureServes == IInv => ClosureServesBelow
<1> SUFFICES ASSUME IInv, NEW p \in Packages, states[p] = "resolved"
             PROVE  /\ Closed(resolution[p])
                    /\ \A q \in UsesReach(p) : states[q] = "resolved" /\ Below(resolution[q], resolution[p])
  BY DEF ClosureServesBelow, Below
<1> DEFINE S == {q \in Packages : states[q] = "resolved" /\ Below(resolution[q], resolution[p])}
<1>1. ws \in Workspace /\ resolution \in [Packages -> Selection]
  BY DEF IInv, Typed, TypeOK
<1>2. \A r \in Packages : ws.uses[r] \subseteq Packages
  BY <1>1 DEF Workspace
<1>3. ws.uses[p] \subseteq S
  BY <1>2 DEF IInv, ResolvedIsClosed, ServesUses
<1>4. ASSUME NEW r \in S, NEW q \in ws.uses[r] PROVE q \in S
  <2>1. r \in Packages /\ q \in Packages
    BY <1>2
  <2>2. states[q] = "resolved" /\ Below(resolution[q], resolution[r]) /\ Below(resolution[r], resolution[p])
    BY DEF IInv, ResolvedIsClosed, ServesUses
  <2>3. resolution[q] \in Selection /\ resolution[r] \in Selection /\ resolution[p] \in Selection
    BY <1>1, <2>1
  <2>4. Below(resolution[q], resolution[p])
    BY <2>2, <2>3, BelowTransitive
  <2> QED BY <2>1, <2>2, <2>4
<1>5. \A q \in UsesReach(p) : q \in S
  <2>1. S \in SUBSET Packages
    OBVIOUS
  <2> HIDE DEF S
  <2> QED BY <1>3, <1>4, <2>1 DEF UsesReach
<1>6. Closed(resolution[p])
  BY DEF IInv, ResolvedIsClosed
<1> QED BY <1>5, <1>6

(* A package that is resolved is neither scanned nor resolved again.       *)
LEMMA MemoKept ==
  ASSUME IInv, NEW p \in Packages, states[p] = "resolved",
         (\E q, o : Call(q, o)) \/ ResolverStep \/ UNCHANGED vars
  PROVE  states'[p] = "resolved" /\ resolution'[p] = resolution[p]
<1>1. /\ states \in [Packages -> {"none", "in_progress", "resolved"}]
      /\ resolution \in [Packages -> Selection]
  BY DEF IInv, Typed, TypeOK
<1>2. CASE UNCHANGED <<states, resolution>>
  BY <1>2
<1>3. ASSUME NEW q, Push(q), states[q] # "resolved", UNCHANGED resolution
      PROVE  states'[p] = "resolved" /\ resolution'[p] = resolution[p]
  BY <1>1, <1>3 DEF Push
<1>4. CASE Return
  <2>1. stack # <<>>
    BY <1>4 DEF Return, Selecting
  <2>2. Top.memo => Top.pkg # p
    BY <2>1, TopIsInProgress
  <2> QED BY <1>1, <1>4, <2>2 DEF Return, Memoised
<1>5. CASE Unwind
  <2>1. stack # <<>>
    BY <1>5 DEF Unwind, IInv, CallsRun
  <2>2. Top.memo => Top.pkg # p
    BY <2>1, TopIsInProgress
  <2> QED BY <1>1, <1>5, <2>2 DEF Unwind, Forgotten
<1>6. ASSUME NEW q, NEW o, Call(q, o)
      PROVE  states'[p] = "resolved" /\ resolution'[p] = resolution[p]
  BY <1>2, <1>3, <1>6 DEF Call, CallMemoised
<1>7. CASE Recurse
  BY <1>3, <1>7 DEF Recurse
<1>8. CASE ScanFails \/ ImportFloors \/ CycleFound \/ StartSelection \/ SelectionStep \/ SelectionFails
           \/ UNCHANGED vars
  BY <1>2, <1>8 DEF ScanFails, ImportFloors, CycleFound, StartSelection, SelectionStep,
     SelectionFails, vars, resolverVars
<1> QED BY <1>4, <1>5, <1>6, <1>7, <1>8 DEF ResolverStep

-----------------------------------------------------------------------------
(* What the caller of the outermost call (p, o) learns.                    *)

Asked(p, o) ==
  stack # <<>> => stack[1].pkg = p /\ stack[1].overrides = o /\ (stack[1].memo <=> o = Nothing)

Answered(p, o) ==
  /\ result.pkg = p /\ result.direct = FoldDirect(p, o, result.selected)
  /\ o = Nothing => states[p] = "resolved" /\ result.selected = resolution[p]

Serving(p, o) == Asked(p, o) /\ (outcome = "ok" => Answered(p, o))

LEMMA ServingStarts ==
  ASSUME IInv, NEW p \in Packages, NEW o \in RemoteSelection, Call(p, o)
  PROVE  Serving(p, o)'
<1>1. stack = <<>> /\ UNCHANGED <<ws, resolution>>
  BY DEF Call
<1>2. CASE o = Nothing /\ CallMemoised(p)
  <2>1. Answered(p, o)'
    BY <1>1, <1>2 DEF CallMemoised, Answered, FoldDirect, DirectOf
  <2>2. Asked(p, o)'
    BY <1>1, <1>2 DEF CallMemoised, Asked
  <2> QED BY <2>1, <2>2 DEF Serving
<1>3. CASE o = Nothing /\ Push(p) /\ outcome' = "running"
  <2>1. stack' = <<NewFrame(p, o, TRUE)>>
    BY <1>1, <1>3 DEF Push
  <2> QED BY <1>3, <2>1 DEF NewFrame, Serving, Asked
<1>4. CASE o # Nothing /\ stack' = <<NewFrame(p, o, FALSE)>> /\ outcome' = "running"
  BY <1>4 DEF NewFrame, Serving, Asked
<1> QED BY <1>2, <1>3, <1>4 DEF Call

LEMMA ServingKept ==
  ASSUME IInv, NEW p \in Packages, NEW o \in RemoteSelection, Serving(p, o), ResolverStep
  PROVE  Serving(p, o)'
<1>1. stack # <<>> /\ outcome \in {"running", "failing"}
  BY DEF ResolverStep, ScanFails, ImportFloors, Recurse, CycleFound, StartSelection, SelectionStep,
         Return, SelectionFails, Unwind, Importing, Active, Selecting, IInv, CallsRun
<1>2. stack \in Seq(Frame)
  BY DEF IInv, Typed, TypeOK
<1>3. Len(stack) \in Nat \ {0} /\ Top \in Frame /\ 1 \in 1..Len(stack)
  BY <1>1, <1>2, TopIsFrame
<1>4. stack[1].pkg = p /\ stack[1].overrides = o /\ (stack[1].memo <=> o = Nothing)
  BY <1>1 DEF Serving, Asked
<1>5. CASE UNCHANGED stack /\ outcome' # "ok"
  BY <1>4, <1>5 DEF Serving, Asked
<1>6. ASSUME NEW f \in Frame, stack' = WithTop(f), UNCHANGED outcome,
             f.pkg = Top.pkg, f.memo = Top.memo, f.overrides = Top.overrides
      PROVE  Serving(p, o)'
  <2>1. stack'[1].pkg = p /\ stack'[1].overrides = o /\ (stack'[1].memo <=> o = Nothing)
    <3>1. CASE Len(stack) = 1
      BY <1>1, <1>2, <1>4, <1>6, <3>1, TopReplaced DEF Top
    <3>2. CASE Len(stack) # 1
      BY <1>1, <1>2, <1>3, <1>4, <1>6, <3>2, TopReplaced
    <3> QED BY <3>1, <3>2
  <2> QED BY <1>1, <1>6, <2>1 DEF Serving, Asked
<1>7. CASE ImportFloors
  <2> DEFINE f == [Top EXCEPT !.todo = Tail(@), !.floors = MergeFloors(@, resolution[Head(Top.todo)])]
  <2>1. stack' = WithTop(f) /\ UNCHANGED <<outcome, resolution>> /\ Top.todo # <<>>
    BY <1>7 DEF ImportFloors, Importing
  <2>2. f.pkg = Top.pkg /\ f.memo = Top.memo /\ f.overrides = Top.overrides
    BY <1>3 DEF Frame
  <2>3. f \in Frame
    <3>1. Top.todo \in Seq(Packages) /\ Top.floors \in RemoteSelection
      BY <1>1, <1>3, TopFacts DEF Frame
    <3>2. Tail(Top.todo) \in Seq(Packages) /\ Head(Top.todo) \in Packages
      BY <2>1, <3>1
    <3>3. MergeFloors(Top.floors, resolution[Head(Top.todo)]) \in Selection
      BY <3>1, <3>2, MergedFloors DEF IInv, Typed, NoStdlib, RemoteSelection
    <3> DEFINE t == Tail(Top.todo)
               g == MergeFloors(Top.floors, resolution[Head(Top.todo)])
    <3>4. f = [Top EXCEPT !.todo = t, !.floors = g] /\ t \in Seq(Packages) /\ g \in Selection
      BY <3>2, <3>3
    <3> HIDE DEF t, g, f
    <3> QED BY <1>3, <3>4 DEF Frame
  <2> HIDE DEF f
  <2> QED BY <1>6, <2>1, <2>2, <2>3
<1>8. CASE StartSelection
  <2> DEFINE f == [Top EXCEPT !.running = TRUE]
  <2>1. stack' = WithTop(f) /\ UNCHANGED outcome
    BY <1>8 DEF StartSelection
  <2>2. f \in Frame /\ f.pkg = Top.pkg /\ f.memo = Top.memo /\ f.overrides = Top.overrides
    BY <1>3 DEF Frame
  <2> HIDE DEF f
  <2> QED BY <1>6, <2>1, <2>2
<1>9. CASE Recurse
  <2>1. \E f : stack' = Append(stack, f)
    BY <1>9 DEF Recurse, Push
  <2>2. stack'[1] = stack[1] /\ UNCHANGED outcome
    BY <1>2, <1>3, <1>9, <2>1 DEF Recurse
  <2> QED BY <1>1, <1>4, <2>2 DEF Serving, Asked
<1>10. CASE stack' = Popped /\ Len(stack) # 1 /\ outcome' # "ok"
  <2>1. 1 \in 1..Len(stack') /\ stack'[1] = stack[1]
    BY <1>1, <1>2, <1>3, <1>10, TopPopped
  <2> QED BY <1>4, <1>10, <2>1 DEF Serving, Asked
<1>11. CASE Unwind
  <2>1. stack' = Popped /\ outcome' # "ok"
    BY <1>11 DEF Unwind
  <2>2. CASE Len(stack) = 1
    <3>1. stack' = <<>>
      BY <1>1, <1>2, <2>1, <2>2, TopPopped
    <3> QED BY <2>1, <3>1 DEF Serving, Asked
  <2> QED BY <1>10, <2>1, <2>2
<1>12. CASE Return
  <2>1. stack' = Popped /\ UNCHANGED ws
    BY <1>12 DEF Return
  <2>2. CASE Len(stack) = 1
    <3>1. stack' = <<>> /\ Top = stack[1]
      BY <1>1, <1>2, <2>1, <2>2, TopPopped DEF Top
    <3>2. result' = [pkg |-> p, direct |-> FoldDirect(p, o, selected), selected |-> selected]
      BY <1>4, <1>12, <2>2, <3>1 DEF Return
    <3>3. o = Nothing => states'[p] = "resolved" /\ resolution'[p] = selected
      BY <1>4, <1>12, <3>1 DEF Return, Memoised, IInv, Typed, TypeOK
    <3>4. FoldDirect(p, o, selected) = FoldDirect(p, o, selected)'
      BY <1>12, <2>1 DEF FoldDirect, DirectOf, Return, mvsVars
    <3>5. selected' = selected
      BY <1>12 DEF Return, mvsVars
    <3> QED BY <3>1, <3>2, <3>3, <3>4, <3>5 DEF Serving, Asked, Answered
  <2>3. CASE Len(stack) # 1
    <3>1. outcome' # "ok"
      BY <1>1, <1>12, <2>3 DEF Return
    <3> QED BY <1>10, <2>1, <2>3, <3>1
  <2> QED BY <2>2, <2>3
<1>13. CASE ScanFails \/ CycleFound \/ SelectionFails \/ SelectionStep
  BY <1>1, <1>5, <1>13 DEF ScanFails, CycleFound, SelectionFails, SelectionStep, resolverVars
<1> QED BY <1>7, <1>8, <1>9, <1>11, <1>12, <1>13 DEF ResolverStep

-----------------------------------------------------------------------------
(* What a package resolves to is determined: by the registry, by what the  *)
(* workspace says of it, and by what the packages it uses resolved to.     *)

ImportsOf(w, p) ==
  [id \in Ids |-> IF id \notin w.imports[p] THEN Absent
                  ELSE IF w.pins[p][id] # Absent THEN w.pins[p][id] ELSE w.newest[id]]

(* floors is the least selection above those of the packages in S.         *)
IsJoin(floors, S, memoised) ==
  \A id \in Ids : /\ \A q \in S : memoised[q][id] <= floors[id]
                  /\ floors[id] = Absent \/ \E q \in S : memoised[q][id] = floors[id]

(* The selection with this input ends with s.                              *)
EndsWith(reg, in, s) ==
  \E c \in MP!Trace(reg, in, MP!FirstView) : c.pc = "resolved" /\ c.selected = s

Answers(reg, w, p, memoised, s) ==
  \E floors \in RemoteSelection :
    /\ IsJoin(floors, w.uses[p], memoised)
    /\ EndsWith(reg, [direct |-> AsList(ImportsOf(w, p)), floors |-> AsList(floors)], s)

(* A resolution of all packages that any resolver must find.               *)
Solves(reg, w, memoised) == \A p \in Packages : Answers(reg, w, p, memoised, memoised[p])

(* A frame asks for what its package uses, and its floors come from there. *)
Sound(f, memo, memoised) ==
  /\ \A k \in 1..Len(f.todo) : f.todo[k] \in ws.uses[f.pkg]
  /\ \A id \in Ids : f.floors[id] = Absent \/
       \E q \in ws.uses[f.pkg] : memo[q] = "resolved" /\ memoised[q][id] = f.floors[id]

FramesAreSound == \A i \in 1..Len(stack) : Sound(stack[i], states, resolution)

MemoIsAnswer ==
  \A p \in Packages : states[p] = "resolved" => Answers(registry, ws, p, resolution, resolution[p])

AnswerInv == MP!Traced /\ FramesAreSound /\ MemoIsAnswer

Agrees(memoised) == \A p \in Packages : states[p] = "resolved" => resolution[p] = memoised[p]

FullMemoSolves == (\A p \in Packages : states[p] = "resolved") => Solves(registry, ws, resolution)
OneResolution == \A m \in [Packages -> RemoteSelection] : Solves(registry, ws, m) => Agrees(m)

LEMMA JoinIsUnique ==
  ASSUME NEW f \in RemoteSelection, NEW g \in RemoteSelection, NEW S, NEW m1, NEW m2,
         \A q \in S : m1[q] = m2[q], IsJoin(f, S, m1), IsJoin(g, S, m2)
  PROVE  f = g
<1>1. f \in Selection /\ g \in Selection
  BY DEF RemoteSelection
<1>2. ASSUME NEW id \in Ids PROVE f[id] = g[id]
  <2>1. f[id] \in Nat /\ g[id] \in Nat
    BY <1>1, SelectionNat
  <2>2. f[id] <= g[id]
    BY <2>1 DEF IsJoin, Absent
  <2>3. g[id] <= f[id]
    BY <2>1 DEF IsJoin, Absent
  <2> QED BY <2>1, <2>2, <2>3
<1> QED BY <1>1, <1>2 DEF Selection

LEMMA EndsOnce ==
  ASSUME NEW reg, NEW in, NEW s, NEW t, EndsWith(reg, in, s), EndsWith(reg, in, t)
  PROVE  s = t
<1>1. PICK c \in MP!Trace(reg, in, MP!FirstView) : c.pc = "resolved" /\ c.selected = s
  BY DEF EndsWith
<1>2. PICK d \in MP!Trace(reg, in, MP!FirstView) : d.pc = "resolved" /\ d.selected = t
  BY DEF EndsWith
<1>3. MP!FirstView \in MP!Config
  BY SelectionAssumption, MP!FirstIsConfig
<1>4. MP!Final(c) /\ MP!Final(d)
  BY <1>1, <1>2 DEF MP!Final
<1>5. c = d
  BY <1>3, <1>4, SelectionAssumption, MP!TracesEndOnce
<1> QED BY <1>1, <1>2, <1>5

LEMMA AnswerIsUnique ==
  ASSUME NEW reg, NEW w, NEW p, NEW m1, NEW m2, NEW s, NEW t,
         \A q \in w.uses[p] : m1[q] = m2[q],
         Answers(reg, w, p, m1, s), Answers(reg, w, p, m2, t)
  PROVE  s = t
<1>1. PICK f \in RemoteSelection :
        /\ IsJoin(f, w.uses[p], m1)
        /\ EndsWith(reg, [direct |-> AsList(ImportsOf(w, p)), floors |-> AsList(f)], s)
  BY DEF Answers
<1>2. PICK g \in RemoteSelection :
        /\ IsJoin(g, w.uses[p], m2)
        /\ EndsWith(reg, [direct |-> AsList(ImportsOf(w, p)), floors |-> AsList(g)], t)
  BY DEF Answers
<1>3. f = g
  BY <1>1, <1>2, JoinIsUnique
<1> QED BY <1>1, <1>2, <1>3, EndsOnce

LEMMA AnswersSame ==
  ASSUME NEW reg, NEW w, NEW p, NEW m1, NEW m2, NEW s,
         \A q \in w.uses[p] : m1[q] = m2[q], Answers(reg, w, p, m1, s)
  PROVE  Answers(reg, w, p, m2, s)
<1>1. \A floors : IsJoin(floors, w.uses[p], m1) => IsJoin(floors, w.uses[p], m2)
  BY DEF IsJoin
<1> QED BY <1>1 DEF Answers

LEMMA DirectIsImports ==
  ASSUME NEW p
  PROVE  DirectOf(p, Nothing) = ImportsOf(ws, p)
BY DEF DirectOf, ImportsOf, Nothing

(* The call that ends has found what its package resolves to.              *)
LEMMA TopAnswers ==
  ASSUME IInv, AnswerInv, stack # <<>>, Top.running, Top.memo, pc = "resolved"
  PROVE  /\ Answers(registry, ws, Top.pkg, resolution, selected)
         /\ \A q \in ws.uses[Top.pkg] : q \in Packages /\ states[q] = "resolved"
<1>1. /\ Top \in Frame /\ Top.pkg \in Packages /\ Top.floors \in RemoteSelection
      /\ Top.todo = <<>> /\ input = InputOf(Top) /\ Top.overrides = Nothing
      /\ \A q \in ws.uses[Top.pkg] : q \in Packages /\ Handled(q, Top, states, resolution)
  BY TopFacts
<1>2. \A q \in ws.uses[Top.pkg] :
        q \in Packages /\ states[q] = "resolved" /\ Below(resolution[q], Top.floors)
  BY <1>1 DEF Handled
<1>3. Sound(Top, states, resolution)
  <2>1. Len(stack) \in 1..Len(stack) /\ Top = stack[Len(stack)]
    BY TopIsFrame DEF Top, IInv, Typed, TypeOK
  <2> QED BY <2>1 DEF AnswerInv, FramesAreSound
<1>4. IsJoin(Top.floors, ws.uses[Top.pkg], resolution)
  BY <1>2, <1>3 DEF IsJoin, Below, Sound
<1>5. input = [direct |-> AsList(ImportsOf(ws, Top.pkg)), floors |-> AsList(Top.floors)]
  BY <1>1, DirectIsImports DEF InputOf
<1>6. MP!View \in MP!Trace(registry, input, MP!FirstView) /\ MP!View.pc = "resolved"
      /\ MP!View.selected = selected
  BY DEF AnswerInv, MP!Traced, MP!View, MP!At
<1>7. EndsWith(registry, input, selected)
  BY <1>6 DEF EndsWith
<1> QED BY <1>1, <1>2, <1>4, <1>5, <1>7 DEF Answers

LEMMA SoundStays ==
  ASSUME ws \in Workspace, NEW f \in Frame, Sound(f, states, resolution), ws' = ws,
         \A q \in Packages : states[q] = "resolved" =>
           states'[q] = "resolved" /\ resolution'[q] = resolution[q]
  PROVE  Sound(f, states', resolution')
<1>1. ws.uses[f.pkg] \subseteq Packages
  BY DEF Workspace, Frame
<1> QED BY <1>1 DEF Sound

LEMMA FramesStep ==
  ASSUME IInv, FramesAreSound, ws' = ws,
         \A q \in Packages : states[q] = "resolved" =>
           states'[q] = "resolved" /\ resolution'[q] = resolution[q],
         \A i \in 1..Len(stack') :
           (\E j \in 1..Len(stack) : stack'[i] = stack[j]) \/ Sound(stack'[i], states', resolution')
  PROVE  FramesAreSound'
<1> SUFFICES ASSUME NEW i \in 1..Len(stack') PROVE Sound(stack'[i], states', resolution')
  BY DEF FramesAreSound, Sound
<1>1. CASE \E j \in 1..Len(stack) : stack'[i] = stack[j]
  <2>1. PICK j \in 1..Len(stack) : stack'[i] = stack[j]
    BY <1>1
  <2>2. stack[j] \in Frame /\ ws \in Workspace
    BY DEF IInv, Typed, TypeOK
  <2> QED BY <2>1, <2>2, SoundStays DEF FramesAreSound
<1> QED BY <1>1

LEMMA PushedIsSound ==
  ASSUME ws \in Workspace, NEW p \in Packages, NEW o, NEW memo, NEW m1, NEW m2
  PROVE  Sound(NewFrame(p, o, memo), m1, m2)
<1>1. PICK list : list = InOrder(ws.uses[p], PackageOrder) /\ Lists(list, ws.uses[p], Packages)
  <2>1. Enumerates(PackageOrder, Packages)
    BY ResolverAssumption DEF ResolverAssumption
  <2> QED BY <2>1, InOrderLists
<1>2. \A k \in 1..Len(list) : list[k] \in ws.uses[p]
  BY <1>1 DEF Lists
<1>3. NewFrame(p, o, memo).todo = list /\ NewFrame(p, o, memo).pkg = p
      /\ NewFrame(p, o, memo).floors = Nothing
  BY <1>1 DEF NewFrame
<1> QED BY <1>2, <1>3 DEF Sound, Nothing

(* The frames stay sound: one is pushed, replaced or popped.               *)
LEMMA FramesKept ==
  ASSUME IInv, FramesAreSound,
         (\E p \in Packages, o \in RemoteSelection : Call(p, o)) \/ ResolverStep
  PROVE  FramesAreSound'
<1>1. stack \in Seq(Frame) /\ ws \in Workspace /\ Len(stack) \in Nat
  BY DEF IInv, Typed, TypeOK
<1>2. ws' = ws
  BY DEF Call, ResolverStep, ScanFails, ImportFloors, Recurse, CycleFound, StartSelection,
         SelectionStep, Return, SelectionFails, Unwind, resolverVars
<1>3. \A q \in Packages : states[q] = "resolved" =>
        states'[q] = "resolved" /\ resolution'[q] = resolution[q]
  BY MemoKept
<1>4. ASSUME stack' = stack PROVE FramesAreSound'
  BY <1>2, <1>3, <1>4, FramesStep
<1>5. ASSUME NEW p \in Packages, NEW o \in RemoteSelection, NEW memo \in BOOLEAN,
             stack' = Append(stack, NewFrame(p, o, memo))
      PROVE  FramesAreSound'
  <2>1. NewFrame(p, o, memo) \in Frame
    BY <1>1, NewFrameHandles
  <2>2. /\ Len(stack') = Len(stack) + 1 /\ stack'[Len(stack) + 1] = NewFrame(p, o, memo)
        /\ \A i \in 1..Len(stack) : stack'[i] = stack[i]
    BY <1>1, <1>5, <2>1, FramePushed
  <2>3. \A i \in 1..Len(stack') : i \in 1..Len(stack) \/ i = Len(stack) + 1
    BY <1>1, <2>2
  <2> QED BY <1>1, <1>2, <1>3, <2>2, <2>3, PushedIsSound, FramesStep
<1>6. ASSUME NEW f \in Frame, stack # <<>>, stack' = WithTop(f), Sound(f, states', resolution')
      PROVE  FramesAreSound'
  <2>1. /\ Len(stack') = Len(stack) /\ stack'[Len(stack)] = f
        /\ \A i \in 1..Len(stack) : i # Len(stack) => stack'[i] = stack[i]
    BY <1>1, <1>6, TopReplaced
  <2> QED BY <1>2, <1>3, <1>6, <2>1, FramesStep
<1>7. ASSUME stack # <<>>, stack' = Popped PROVE FramesAreSound'
  <2>1. \A i \in 1..Len(stack') : i \in 1..Len(stack) /\ stack'[i] = stack[i]
    BY <1>1, <1>7, TopPopped
  <2> QED BY <1>2, <1>3, <2>1, FramesStep
<1>8. ASSUME NEW p \in Packages, NEW o \in RemoteSelection, Call(p, o) PROVE FramesAreSound'
  <2>1. stack = <<>>
    BY <1>8 DEF Call
  <2>2. CASE stack' = <<NewFrame(p, o, FALSE)>>
    <3>1. stack' = Append(stack, NewFrame(p, o, FALSE))
      BY <2>1, <2>2
    <3> QED BY <1>5, <3>1
  <2> QED BY <1>4, <1>5, <1>8, <2>2, NothingIsRemote DEF Call, CallMemoised, Push
<1>9. CASE Recurse
  <2>1. stack # <<>> /\ Top.todo # <<>> /\ stack' = Append(stack, NewFrame(Head(Top.todo), Nothing, TRUE))
    BY <1>9 DEF Recurse, Push, Importing, Active
  <2>2. Head(Top.todo) \in Packages
    BY <1>1, <2>1, TopIsFrame DEF Frame
  <2> QED BY <1>5, <2>1, <2>2, NothingIsRemote
<1>10. CASE ImportFloors
  <2> DEFINE q == Head(Top.todo)
             t == Tail(Top.todo)
             g == MergeFloors(Top.floors, resolution[q])
             f == [Top EXCEPT !.todo = t, !.floors = g]
  <2>1. stack # <<>> /\ Top.todo # <<>> /\ states[q] = "resolved" /\ stack' = WithTop(f)
        /\ UNCHANGED <<states, resolution>>
    BY <1>10 DEF ImportFloors, Importing, Active
  <2>2. Top \in Frame /\ Sound(Top, states, resolution) /\ Top.floors \in RemoteSelection
    <3>1. Len(stack) \in 1..Len(stack) /\ Top = stack[Len(stack)]
      BY <1>1, <2>1, TopIsFrame DEF Top
    <3> QED BY <1>1, <2>1, <3>1, TopFacts DEF FramesAreSound
  <2>3. /\ q \in Packages /\ q \in ws.uses[Top.pkg] /\ t \in Seq(Packages)
        /\ \A k \in 1..Len(t) : t[k] \in ws.uses[Top.pkg]
    <3> DEFINE s == Top.todo
    <3>1. s \in Seq(Packages) /\ s # <<>> /\ \A k \in 1..Len(s) : s[k] \in ws.uses[Top.pkg]
      BY <2>1, <2>2 DEF Sound, Frame
    <3> HIDE DEF s
    <3>2. /\ Head(s) = s[1] /\ Head(s) \in Packages /\ Tail(s) \in Seq(Packages)
          /\ Len(s) \in Nat \ {0} /\ Len(Tail(s)) = Len(s) - 1
          /\ \A j \in 1..Len(s) - 1 : Tail(s)[j] = s[j + 1]
      BY <3>1
    <3>3. \A j \in 1..Len(s) - 1 : j + 1 \in 1..Len(s)
      BY <3>2
    <3> QED BY <3>1, <3>2, <3>3 DEF s
  <2>4. g \in Selection
    BY <2>2, <2>3, MergedFloors DEF IInv, Typed, NoStdlib, RemoteSelection
  <2>5. \A id \in Ids : g[id] = Top.floors[id] \/ g[id] = resolution[q][id]
    BY DEF MergeFloors, Larger
  <2> HIDE DEF q, t, g
  <2>6. f \in Frame /\ f.pkg = Top.pkg /\ f.todo = t /\ f.floors = g
    BY <2>2, <2>3, <2>4 DEF Frame
  <2> HIDE DEF f
  <2>7. Sound(f, states', resolution')
    BY <2>1, <2>2, <2>3, <2>5, <2>6 DEF Sound
  <2> QED BY <1>6, <2>1, <2>6, <2>7
<1>11. CASE StartSelection
  <2> DEFINE f == [Top EXCEPT !.running = TRUE]
  <2>1. stack # <<>> /\ stack' = WithTop(f) /\ UNCHANGED <<states, resolution>>
    BY <1>11 DEF StartSelection, Active
  <2>2. Top \in Frame /\ Sound(Top, states, resolution)
    <3>1. Len(stack) \in 1..Len(stack) /\ Top = stack[Len(stack)]
      BY <1>1, <2>1, TopIsFrame DEF Top
    <3> QED BY <1>1, <3>1 DEF FramesAreSound
  <2>3. f \in Frame /\ f.pkg = Top.pkg /\ f.todo = Top.todo /\ f.floors = Top.floors
    BY <2>2 DEF Frame
  <2> HIDE DEF f
  <2>4. Sound(f, states', resolution')
    BY <2>1, <2>2, <2>3 DEF Sound
  <2> QED BY <1>6, <2>1, <2>3, <2>4
<1>12. CASE Return \/ Unwind
  BY <1>7, <1>12 DEF Return, Selecting, Unwind, IInv, CallsRun
<1>13. CASE ScanFails \/ CycleFound \/ SelectionFails \/ SelectionStep
  BY <1>4, <1>13 DEF ScanFails, CycleFound, SelectionFails, SelectionStep, resolverVars
<1> QED BY <1>8, <1>9, <1>10, <1>11, <1>12, <1>13 DEF ResolverStep

LEMMA TracedKept ==
  ASSUME IInv, IInv', AnswerInv,
         (\E p \in Packages, o \in RemoteSelection : Call(p, o)) \/ ResolverStep
  PROVE  MP!Traced'
<1>1. MP!TypeOK /\ MP!TypeOK'
  BY SameSelection DEF IInv, Typed, TypeOK
<1>2. ASSUME UNCHANGED mvsVars PROVE MP!Traced'
  <2>1. UNCHANGED <<registry, input, pc, selected, queue, visiting, next>>
    BY <1>2 DEF mvsVars
  <2> QED BY <2>1 DEF AnswerInv, MP!Traced, MP!View
<1>3. ASSUME NEW in, MVS!Start(in) PROVE MP!Traced'
  <2>1. MP!Start(in)
    BY <1>3 DEF MVS!Start, MP!Start, MVS!Idle, MP!Idle, MVS!Nothing, MP!Nothing, MVS!Absent, MP!Absent
  <2> QED BY <2>1, SelectionAssumption, MP!TracedStart
<1>4. CASE SelectionStep
  <2>1. MP!Step
    BY <1>4, SameStep DEF SelectionStep
  <2> QED BY <1>1, <2>1, SelectionAssumption, MP!TracedStep DEF AnswerInv
<1>5. CASE StartSelection
  BY <1>3, <1>5 DEF StartSelection
<1> QED BY <1>2, <1>4, <1>5
        DEF Call, ResolverStep, ScanFails, ImportFloors, Recurse, CycleFound, Return, SelectionFails,
            Unwind

(* A step changes the memo by the answer of the call that ends, if any.    *)
LEMMA MemoSteps ==
  ASSUME IInv, AnswerInv, NEW p \in Packages, states'[p] = "resolved", states[p] # "resolved",
         (\E q \in Packages, o \in RemoteSelection : Call(q, o)) \/ ResolverStep
  PROVE  /\ Answers(registry, ws, p, resolution, resolution'[p])
         /\ \A q \in ws.uses[p] : q \in Packages /\ states[q] = "resolved"
<1>1. states \in [Packages -> {"none", "in_progress", "resolved"}]
      /\ resolution \in [Packages -> Selection]
  BY DEF IInv, Typed, TypeOK
<1>2. CASE Return
  <2>1. stack # <<>> /\ Top.running /\ pc = "resolved"
    BY <1>2 DEF Return, Selecting
  <2>2. Top.memo /\ p = Top.pkg /\ resolution'[p] = selected
    BY <1>1, <1>2 DEF Return, Memoised
  <2> QED BY <2>1, <2>2, TopAnswers
<1> QED BY <1>1, <1>2 DEF Call, CallMemoised, Push, ResolverStep, ScanFails, ImportFloors, Recurse,
          CycleFound, StartSelection, SelectionStep, SelectionFails, Unwind, Forgotten, resolverVars

LEMMA SameWorkspace ==
  ASSUME (\E p \in Packages, o \in RemoteSelection : Call(p, o)) \/ ResolverStep
  PROVE  UNCHANGED <<registry, ws>>
BY DEF Call, ResolverStep, ScanFails, ImportFloors, Recurse, CycleFound, StartSelection, SelectionStep,
       Return, SelectionFails, Unwind, resolverVars, mvsVars, MVS!Start, MVS!Step, MVS!SkipStdlib,
       MVS!RaiseFloor, MVS!KeepFloor, MVS!FailSpec, MVS!EndSource, MVS!Visit, MVS!Finish

LEMMA AnswersKept ==
  ASSUME IInv, IInv', AnswerInv,
         (\E p \in Packages, o \in RemoteSelection : Call(p, o)) \/ ResolverStep
  PROVE  AnswerInv'
<1>1. UNCHANGED <<registry, ws>>
  BY SameWorkspace
<1>2. \A q \in Packages : states[q] = "resolved" =>
        states'[q] = "resolved" /\ resolution'[q] = resolution[q]
  BY MemoKept
<1>3. ASSUME NEW p \in Packages, states'[p] = "resolved"
      PROVE  Answers(registry, ws, p, resolution', resolution'[p])
  <2>1. /\ Answers(registry, ws, p, resolution, resolution'[p])
        /\ \A q \in ws.uses[p] : q \in Packages /\ states[q] = "resolved"
    <3>1. CASE states[p] = "resolved"
      <4>1. \A q \in ws.uses[p] : q \in Packages /\ states[q] = "resolved"
        BY <3>1 DEF IInv, ResolvedIsClosed, ServesUses, Typed, TypeOK, Workspace
      <4> QED BY <1>2, <3>1, <4>1 DEF AnswerInv, MemoIsAnswer
    <3>2. CASE states[p] # "resolved"
      BY <1>3, <3>2, MemoSteps
    <3> QED BY <3>1, <3>2
  <2>2. \A q \in ws.uses[p] : resolution[q] = resolution'[q]
    BY <1>2, <2>1
  <2> QED BY <2>1, <2>2, AnswersSame
<1>4. MemoIsAnswer'
  BY <1>1, <1>3 DEF MemoIsAnswer
<1> QED BY <1>4, FramesKept, TracedKept DEF AnswerInv

(* A resolver finds the one resolution there is.                           *)
LEMMA AgreementKept ==
  ASSUME IInv, AnswerInv, NEW memoised, Solves(registry, ws, memoised), Agrees(memoised),
         (\E p \in Packages, o \in RemoteSelection : Call(p, o)) \/ ResolverStep
  PROVE  Agrees(memoised)'
<1> SUFFICES ASSUME NEW p \in Packages, states'[p] = "resolved" PROVE resolution'[p] = memoised[p]
  BY DEF Agrees
<1>1. CASE states[p] = "resolved"
  BY <1>1, MemoKept DEF Agrees
<1>2. CASE states[p] # "resolved"
  <2>1. /\ Answers(registry, ws, p, resolution, resolution'[p])
        /\ \A q \in ws.uses[p] : q \in Packages /\ states[q] = "resolved"
    BY <1>2, MemoSteps
  <2>2. \A q \in ws.uses[p] : resolution[q] = memoised[q]
    BY <2>1 DEF Agrees
  <2>3. Answers(registry, ws, p, memoised, memoised[p])
    BY DEF Solves
  <2> QED BY <2>1, <2>2, <2>3, AnswerIsUnique
<1> QED BY <1>1, <1>2

LEMMA AnswersStay == ASSUME AnswerInv, UNCHANGED vars PROVE AnswerInv'
<1>1. UNCHANGED <<registry, input, pc, selected, queue, visiting, next, ws, states, resolution, stack>>
  BY DEF vars, mvsVars, resolverVars
<1>2. MP!Traced' /\ MemoIsAnswer'
  BY <1>1 DEF AnswerInv, MP!Traced, MP!View, MemoIsAnswer
<1>3. FramesAreSound'
  BY <1>1 DEF AnswerInv, FramesAreSound, Sound
<1> QED BY <1>2, <1>3 DEF AnswerInv

LEMMA UnusedIsAnswered == ASSUME Unused PROVE AnswerInv
<1>1. pc = "idle" /\ stack = <<>> /\ states = [p \in Packages |-> "none"]
  BY DEF Unused, MVS!Init
<1> QED BY <1>1 DEF AnswerInv, MP!Traced, FramesAreSound, MemoIsAnswer

-----------------------------------------------------------------------------
(* In every reachable state of a resolver, whatever calls were made and    *)
(* however they ended: its state is well typed, the selection loop keeps   *)
(* its invariant, floors that wait for the loop cover what was imported,   *)
(* and every memoised resolution is closed.                                *)
THEOREM ResolverInvariant == Spec => []IInv
<1>1. Init => IInv
  BY UnusedIsSound, ResolverAssumption DEF Init, ResolverAssumption
<1> QED BY <1>1, NextKeeps, PTL DEF Spec

(* Everything the resolver keeps has the type it is declared with.         *)
THEOREM ResolverTypes == Spec => []TypeOK
<1>1. IInv => TypeOK
  BY DEF IInv, Typed
<1> QED BY <1>1, ResolverInvariant, PTL

(* However calls fail (a scan, a cycle, a selection), the packages marked  *)
(* in progress are those of the active calls, each once: no later call is  *)
(* refused for a cycle that does not exist.                                *)
THEOREM MarksAreForgotten == Spec => []MarksMatchCalls
<1>1. IInv => MarksMatchCalls
  BY DEF IInv
<1> QED BY <1>1, ResolverInvariant, PTL

(* Over workspaces and registries of any size: what a package resolved to  *)
(* is closed and dominates what every package below it resolved to.        *)
THEOREM ClosuresServeBelow == Spec => []ClosureServesBelow
BY ClosureServes, ResolverInvariant, PTL

(* No call changes or drops a memoised resolution.                         *)
THEOREM MemoisedStays == Spec => MemoIsStable
<1>1. IInv /\ [Next]_vars =>
        [\A p \in Packages : states[p] = "resolved" =>
           states'[p] = "resolved" /\ resolution'[p] = resolution[p]]_vars
  BY MemoKept DEF Next
<1> QED BY <1>1, ResolverInvariant, PTL DEF Spec, MemoIsStable

(* What the resolver answers does not depend on the calls that were made,  *)
(* on their order or their failures: a memo that is full is a resolution   *)
(* in which every package answers to those it uses, and every closure that *)
(* is memoised is the one such a resolution gives.                         *)
THEOREM ResolutionIsDetermined ==
  Spec => [](FullMemoSolves /\ OneResolution)
<1>1. Init => AnswerInv /\ OneResolution
  <2> SUFFICES ASSUME Init PROVE AnswerInv /\ OneResolution
    OBVIOUS
  <2>1. Unused
    BY DEF Init
  <2>2. \A p \in Packages : states[p] # "resolved"
    BY <2>1 DEF Unused
  <2> QED BY <2>1, <2>2, UnusedIsAnswered DEF OneResolution, Agrees
<1>2. IInv /\ IInv' /\ AnswerInv /\ OneResolution /\ [Next]_vars => AnswerInv' /\ OneResolution'
  <2> SUFFICES ASSUME IInv, IInv', AnswerInv, OneResolution, [Next]_vars PROVE AnswerInv' /\ OneResolution'
    OBVIOUS
  <2>1. CASE UNCHANGED vars
    <3>1. UNCHANGED <<registry, ws, states, resolution>>
      BY <2>1 DEF vars, mvsVars, resolverVars
    <3>2. OneResolution'
      BY <3>1 DEF OneResolution, Agrees
    <3> QED BY <2>1, <3>2, AnswersStay
  <2>2. CASE Next
    <3>1. (\E p \in Packages, o \in RemoteSelection : Call(p, o)) \/ ResolverStep
      BY <2>2, ResolverAssumption DEF Next, ResolverAssumption
    <3>2. UNCHANGED <<registry, ws>>
      BY <3>1, SameWorkspace
    <3>3. ASSUME NEW m \in [Packages -> RemoteSelection], Solves(registry, ws, m) PROVE Agrees(m)'
      <4>1. Agrees(m)
        BY <3>3 DEF OneResolution
      <4> QED BY <3>1, <3>3, <4>1, AgreementKept
    <3> QED BY <3>1, <3>2, <3>3, AnswersKept DEF OneResolution
  <2> QED BY <2>1, <2>2
<1>3. Spec => [](AnswerInv /\ OneResolution)
  BY <1>1, <1>2, ResolverInvariant, PTL DEF Spec
<1>4. AnswerInv => FullMemoSolves
  BY DEF AnswerInv, MemoIsAnswer, Solves, FullMemoSolves
<1> QED BY <1>3, <1>4, PTL

=============================================================================

-------------------------- MODULE MCPackageResolver --------------------------
(* Three workspace packages with every use relation between them, over a   *)
(* registry in which raises, orphans and failures happen.                  *)
EXTENDS PackageResolver, TLC

CONSTANTS a, b, c, std, P, Q, R

Req(id, v) == [id |-> id, version |-> v]
Hydrated(direct, indirect) == [loads |-> TRUE, direct |-> direct, indirect |-> indirect]
Loads(direct) == Hydrated(direct, <<>>)
Broken == [loads |-> FALSE, direct |-> <<>>, indirect |-> <<>>]

MCIds == {a, b, c, std}
MCIdOrder == <<a, b, c, std>>
MCStdlib == {std}
MCVersions == 1..2
MCPackages == {P, Q, R}
MCPackageOrder == <<P, Q, R>>

Leaf == <<Loads(<<>>), Loads(<<>>)>>

(* b@1 raises a; a@1 needs c@1 and a@2 does not; a@2 of the second         *)
(* registry cannot be loaded.                                              *)
MCRegistries ==
  {[id \in MCIds |-> CASE id = a -> <<Loads(<<Req(std, 1), Req(c, 1)>>), m>>
                       [] id = b -> <<Hydrated(<<>>, <<Req(a, 2)>>), Loads(<<Req(c, 2)>>)>>
                       [] OTHER  -> Leaf] : m \in {Loads(<<>>), Broken}}

(* A package does not import itself (the scan refuses it). *)
Uses == {u \in [MCPackages -> SUBSET MCPackages] : \A p \in MCPackages : p \notin u[p]}

None == [id \in MCIds |-> 0]

MCOverrides == {None, [None EXCEPT ![a] = 2]}

MCWorkspaces ==
  {[uses    |-> u,
    imports |-> (P :> {a, b} @@ Q :> {b} @@ R :> {c}),
    pins    |-> (P :> [None EXCEPT ![a] = 1] @@ Q :> [None EXCEPT ![b] = 1] @@ R :> None),
    newest  |-> [None EXCEPT ![b] = 1, ![c] = n]] :
      u \in Uses, n \in {0, 2}}
=============================================================================

--------------------------- MODULE MCPackageSync ---------------------------
(* Two packages of which the board P may use the module Q, over three      *)
(* remote ids in which raises leave orphans behind.                        *)
EXTENDS PackageSync, TLC

CONSTANTS a, b, c, P, Q

Req(id, v) == [id |-> id, version |-> v]
Loads(direct) == [loads |-> TRUE, direct |-> direct, indirect |-> <<>>]
Broken == [loads |-> FALSE, direct |-> <<>>, indirect |-> <<>>]

MCIds == {a, b, c}
MCIdOrder == <<a, b, c>>
MCVersions == 1..2
MCPackages == {P, Q}
MCPackageOrder == <<P, Q>>

(* a@1 needs c@1, a@2 does not; b@1 raises a, and b@2 may not load. *)
MCRegistries ==
  {[id \in MCIds |-> CASE id = a -> <<Loads(<<Req(c, 1)>>), Loads(<<>>)>>
                       [] id = b -> <<Loads(<<Req(a, 2)>>), m>>
                       [] OTHER  -> <<Loads(<<>>), Loads(<<>>)>>] :
     m \in {Loads(<<Req(c, 2)>>), Broken}}

MCCodes ==
  {[uses |-> (P :> {Q} @@ Q :> {}),  imports |-> (P :> {a} @@ Q :> {b})],
   [uses |-> (P :> {} @@ Q :> {}),   imports |-> (P :> {a, b} @@ Q :> {c})],
   [uses |-> (P :> {Q} @@ Q :> {P}), imports |-> (P :> {a} @@ Q :> {})]}

Pick(va, vb) == [id \in MCIds |-> IF id = a THEN va ELSE IF id = b THEN vb ELSE 0]

NoPackages == [p \in MCPackages |-> 0]

MCDisks ==
  {[p \in MCPackages |-> Blank],
   (P :> [Blank EXCEPT !.direct = Pick(1, 0)]
      @@ Q :> [Blank EXCEPT !.direct = Pick(0, 1), !.pins = [NoPackages EXCEPT ![P] = 2]]),
   (P :> [Blank EXCEPT !.direct = Pick(1, 1), !.pins = [NoPackages EXCEPT ![Q] = 2]] @@ Q :> Blank)}

MCIndexes == {[id \in MCIds |-> 1], [id \in MCIds |-> 2]}
MCTagSets == {NoPackages, [p \in MCPackages |-> 2]}
MCOverrides == {Pick(0, 2)}
MCVendorIds == {a, c}
=============================================================================

--------------------------- MODULE MCFrozenBuild ---------------------------
(* Two linked packages and three remote ids that may require each other;   *)
(* some manifests record too little, some versions do not load.            *)
EXTENDS FrozenBuild, TLC

CONSTANTS a, b, std, P, Q

Req(id, v) == [id |-> id, version |-> v]
Hydrated(direct, indirect) == [loads |-> TRUE, direct |-> direct, indirect |-> indirect]
Broken == [loads |-> FALSE, direct |-> <<>>, indirect |-> <<>>]

MCIds == {a, b, std}
MCStdlib == {std}
MCVersions == 1..2
MCPackages == {P, Q}

ManifestsOn(other) ==
  {Hydrated(<<>>, <<>>), Hydrated(<<Req(other, 1)>>, <<>>),
   Hydrated(<<Req(std, 1)>>, <<Req(other, 2)>>), Hydrated(<<Req(other, Absent)>>, <<>>), Broken}

MCRegistries ==
  {(a :> ma @@ b :> mb @@ std :> [v \in MCVersions |-> Hydrated(<<>>, <<>>)]) :
     ma \in [MCVersions -> ManifestsOn(b)], mb \in [MCVersions -> {Hydrated(<<>>, <<>>), Hydrated(<<Req(a, 1)>>, <<>>)}]}

Some(va, vb) == [id \in MCIds |-> IF id = a THEN va ELSE IF id = b THEN vb ELSE Absent]

MCWorkspaces ==
  {(P :> [links |-> lp, direct |-> Some(d, 0), indirect |-> Some(0, i)]
    @@ Q :> [links |-> lq, direct |-> Some(0, e), indirect |-> Some(f, 0)]) :
     lp \in {{}, {Q}}, lq \in {{}, {P}}, d \in 0..2, i \in 0..2, e \in 0..1, f \in 0..2}
=============================================================================

------------------------------- MODULE MCMvs -------------------------------
(* Three packages and the stdlib, two versions of each.  `a` and `b` may   *)
(* require each other and `c`; a manifest may fail to load or hold a spec  *)
(* that cannot be resolved.                                                *)
EXTENDS Mvs

CONSTANTS a, b, c, std

R(id, v) == [id |-> id, version |-> v]
Hydrated(direct, indirect) == [loads |-> TRUE, direct |-> direct, indirect |-> indirect]
Loads(direct) == Hydrated(direct, <<>>)
Broken == [loads |-> FALSE, direct |-> <<>>, indirect |-> <<>>]

MCIds == {a, b, c, std}
MCStdlib == {std}
MCVersions == 1..2

ManifestsOfA ==
  {Loads(<<>>), Loads(<<R(b, 1), R(c, 1)>>), Loads(<<R(b, 2)>>),
   Hydrated(<<R(std, 1)>>, <<R(c, 2)>>), Loads(<<R(b, Absent), R(c, 1)>>), Broken}
ManifestsOfB ==
  {Loads(<<>>), Loads(<<R(a, 1)>>), Hydrated(<<R(a, 2)>>, <<R(c, 1)>>),
   Loads(<<R(c, 2), R(a, 2)>>), Loads(<<R(std, Absent), R(a, 1)>>)}

Leaf == [v \in MCVersions |-> Loads(<<>>)]

MCRegistries ==
  {[id \in MCIds |-> IF id = a THEN ma ELSE IF id = b THEN mb ELSE Leaf] :
     ma \in [MCVersions -> ManifestsOfA], mb \in [MCVersions -> ManifestsOfB]}

MCInputs ==
  {[direct |-> <<R(a, 1)>>,          floors |-> <<>>],
   [direct |-> <<R(a, 2), R(b, 1)>>, floors |-> <<>>],
   [direct |-> <<R(b, 1)>>,          floors |-> <<R(a, 1), R(c, 1)>>],
   [direct |-> <<R(c, 1), R(a, Absent)>>, floors |-> <<>>]}
=============================================================================

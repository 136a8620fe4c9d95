--------------------------- MODULE SelectionContract ---------------------------
(***************************************************************************)
(* What a remote version selection promises the package resolver, in one   *)
(* step and without a worklist: some selection that is closed and grounded *)
(* in what was asked for, or an error that has a cause.  Mvs implements it.*)
(***************************************************************************)
EXTENDS Naturals, Sequences

CONSTANTS Ids, StdlibIds, Versions, Registries, Inputs  \* see Mvs

Absent == 0

VARIABLES
  registry, input,  \* of Mvs
  status,           \* "idle", "running", "ok", "error"
  answer            \* what the last call returned, if it is "ok"

vars == <<registry, input, status, answer>>

Selection == [Ids -> Versions \cup {Absent}]
Nothing == [id \in Ids |-> Absent]

Of(list) == {list[i] : i \in 1..Len(list)}

Asked == Of(input.direct) \cup Of(input.floors)

(* What the manifest of a request <<id, version>> requires.                *)
Requirements(x) ==
  LET manifest == registry[x[1]][x[2]] IN
    {r \in Of(manifest.direct) \cup Of(manifest.indirect) : r.id \notin StdlibIds}

Holds(S, required) == \A r \in required : r.version # Absent => <<r.id, r.version>> \in S

(* The least set of requests that holds what was asked for and what its    *)
(* members require.                                                        *)
Reached ==
  {x \in Ids \X Versions :
     \A S \in SUBSET (Ids \X Versions) :
       Holds(S, Asked) /\ (\A y \in S : Holds(S, Requirements(y))) => x \in S}

Meets(selection, required) ==
  \A r \in required : r.version # Absent /\ r.version <= selection[r.id]

Promised(selection) ==
  /\ Meets(selection, Asked)
  /\ \A id \in Ids : selection[id] # Absent =>
       /\ <<id, selection[id]>> \in Reached
       /\ Meets(selection, Requirements(<<id, selection[id]>>))

(* Something that was asked for or is required names no version, or a      *)
(* manifest on the way does not load.                                      *)
Unresolvable(required) == \E r \in required : r.version = Absent
Defective ==
  \/ Unresolvable(Asked)
  \/ \E x \in Reached : ~registry[x[1]][x[2]].loads \/ Unresolvable(Requirements(x))

Init ==
  /\ registry \in Registries
  /\ input \in Inputs
  /\ status = "idle"
  /\ answer = Nothing

Call(in) ==
  /\ status # "running"
  /\ status' = "running"
  /\ input' = in
  /\ answer' = Nothing
  /\ UNCHANGED registry

Answer ==
  /\ status = "running"
  /\ status' = "ok"
  /\ answer' \in Selection /\ Promised(answer')
  /\ UNCHANGED <<registry, input>>

Fail ==
  /\ status = "running"
  /\ Defective
  /\ status' = "error"
  /\ UNCHANGED <<registry, input, answer>>

Next == (\E in \in Inputs : Call(in)) \/ Answer \/ Fail

Spec == Init /\ [][Next]_vars
=============================================================================

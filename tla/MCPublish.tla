------------------------------ MODULE MCPublish ------------------------------
EXTENDS Publish, TLC

CONSTANTS c1, c2, lib, mod, top

(* top depends on mod, mod on lib; or lib and mod depend on each other. *)
Chain == [q \in Packages |-> CASE q = lib -> {} [] q = mod -> {lib} [] OTHER -> {mod} \cap Packages]
Loop == [q \in Packages |-> CASE q = lib -> {mod} [] q = mod -> {lib} [] OTHER -> {}]
MCGraphs == {Chain, Loop}

(* A different bump for every package. *)
MCChoices == {[q \in Packages |-> CASE q = lib -> "major" [] q = mod -> "minor" [] OTHER -> "patch"]}

Symmetry == Permutations(Clones)
=============================================================================

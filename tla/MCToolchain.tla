----------------------------- MODULE MCToolchain -----------------------------
(* Two launchers, two patches of one lane, two builds of the nightly.      *)
EXTENDS Toolchain, TLC

Symmetry == Permutations(Procs)
MCLane == [v \in Versions |-> "lane"]
=============================================================================

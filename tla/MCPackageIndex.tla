---------------------------- MODULE MCPackageIndex ----------------------------
(* Two processes; a file below a package in a package, and one in a new    *)
(* package: "a" = 1, "a/b" = 2, "c" = 3.                                   *)
EXTENDS PackageIndex

MCFiles == {"a/b/x.zen", "c/y.zen"}
MCDirectories == [f \in MCFiles |-> IF f = "c/y.zen" THEN <<3>> ELSE <<2, 1>>]
=============================================================================

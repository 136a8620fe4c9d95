--------------------------- MODULE MCPackageCache ---------------------------
(* Archives of three files of which pcb.toml is the second.                *)
EXTENDS PackageCache

-----------------------------------------------------------------------------
(* resolve.rs, populate_cache: "Only one process fetches; others wait for  *)
(* the lock and then see the completed result."                            *)
SeesCompletedResult ==
  [][\A p \in Procs :
       pc[p] \in {"fast", "double"} /\ pc'[p] = "hash" => Complete(entry[p])]_cacheVars
=============================================================================

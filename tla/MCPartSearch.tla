---------------------------- MODULE MCPartSearch ----------------------------
(* A mode of two registries, the KiCad symbols and the online search; the  *)
(* registry indexes are there at the start and the KiCad index is not.     *)
EXTENDS PartSearch

MCModes == <<"modules", "kicad", "web">>
MCIndexOf == [m \in {"modules", "kicad", "web"} |->
                CASE m = "modules" -> "registry" [] m = "kicad" -> "kicad" [] m = "web" -> Online]
MCStartup == <<"registry", "kicad">>
MCFiles == [i \in {"registry", "kicad"} |-> IF i = "registry" THEN 2 ELSE 1]
MCStarts == {{"registry"}}
=============================================================================

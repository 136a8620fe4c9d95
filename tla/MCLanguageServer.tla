-------------------------- MODULE MCLanguageServer --------------------------
(* Three documents in a row: a board that loads or instantiates a module,  *)
(* which may load a library, which may load the board back.  A function of *)
(* the module may fail under the board that calls it.                      *)
EXTENDS LanguageServer

CONSTANTS board, module, library

Plain(is) == [loads |-> {}, mods |-> {}, needs |-> FALSE, is |-> is]
Loads(d) == [Plain("ok") EXCEPT !.loads = {d}]
Instantiates(d) == [Plain("ok") EXCEPT !.mods = {d}]
Packaged == [Plain("lint") EXCEPT !.needs = TRUE]

MCDocs == {board, module, library}
MCFits ==
  [d \in MCDocs |->
     CASE d = board -> {Loads(module), Instantiates(module)}
       [] d = module -> {Plain("lint"), Plain("broken"), Plain("raises"), Loads(library)}
       [] d = library -> {Packaged, Loads(board)}]
MCText == UNION {MCFits[d] : d \in MCDocs}
=============================================================================

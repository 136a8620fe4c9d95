---------------------------- MODULE LanguageServer ----------------------------
(***************************************************************************)
(* The language server behind `pcbc lsp`: Backend in crates/pcb-starlark-  *)
(* lsp/src/server.rs, its context in crates/pcb-zen/src/lsp/mod.rs and the *)
(* evaluation session in crates/pcb-zen-core/src/lang/eval.rs.  A client   *)
(* opens, edits, saves and closes documents; the server handles its        *)
(* messages one by one and publishes what evaluating the documents shows.  *)
(***************************************************************************)
EXTENDS Naturals, Sequences, FiniteSets

CONSTANTS
  Docs,       \* .zen files of one workspace
  Text,       \* contents a file may have, see TextShape
  Fits,       \* Fits[d]: the contents of Text that d may get
  Manifests,  \* states of pcb.toml, a subset of ManifestStates
  MaxActions  \* bound: actions of the client and of other programs

Absent == [is |-> "absent"]     \* no such file
Closed == [is |-> "closed"]     \* no editor buffer, or no overlay in the server
Unparsed == [is |-> "unparsed"] \* no AST
Unresolved == "unresolved"

(* What evaluation tells apart of a file: the files it load()s, those it   *)
(* instantiates with Module(), whether it needs a package that pcb.toml    *)
(* must declare, and its own quality: the functions of one that "raises"   *)
(* fail when a file that loads it calls them.                              *)
TextShape == [loads : SUBSET Docs, mods : SUBSET Docs, needs : BOOLEAN,
              is : {"ok", "lint", "broken", "raises"}]
ManifestStates == {"declares", "lacks", "invalid"}

ASSUME LanguageServerAssumption ==
  /\ IsFiniteSet(Docs)
  /\ Text \subseteq TextShape /\ Fits \in [Docs -> SUBSET Text]
  /\ Manifests \subseteq ManifestStates
  /\ MaxActions \in Nat

VARIABLES
  disk, manifest, \* files of the workspace and its pcb.toml
  buffer,     \* the client's documents
  inbox,      \* messages under way to the server, oldest first
  pending,    \* a message taken from the channel and not handled yet
  overlay,    \* open_files: contents of the open documents
  parsed,     \* last_valid_parse: text of the AST kept for a document
  modDeps,    \* module_deps of the evaluation session
  resolved,   \* resolution_cache: the manifest state it was computed from
  published,  \* published_diagnostics_by_origin
  shown,      \* what the client shows at a document
  actions     \* actions of the environment so far

client == <<disk, manifest, buffer, actions>>
channel == <<inbox, pending>>
server == <<overlay, parsed, modDeps, resolved, published, shown>>
vars == <<client, channel, server>>

Kinds == {"error", "lint"}
Diagnostic == [at : Docs, is : Kinds]
Message ==
  [is : {"open", "change"}, doc : Docs, text : Text]
    \cup [is : {"save", "close"}, doc : Docs] \cup [is : {"watched"}]

TypeOK ==
  /\ disk \in [Docs -> Text \cup {Absent}]
  /\ manifest \in Manifests
  /\ buffer \in [Docs -> Text \cup {Closed}]
  /\ inbox \in Seq(Message)
  /\ pending \in Seq(Message) /\ Len(pending) <= 1
  /\ overlay \in [Docs -> Text \cup {Closed}]
  /\ parsed \in [Docs -> Text \cup {Unparsed}]
  /\ modDeps \in [Docs -> SUBSET Docs]
  /\ resolved \in ManifestStates \cup {Unresolved}
  /\ published \in [Docs -> SUBSET Diagnostic]
  /\ shown \in [Docs -> SUBSET Kinds]
  /\ actions \in 0..MaxActions

-----------------------------------------------------------------------------
(* Evaluation.  view[d] is what the overlay file provider reads: the       *)
(* overlay, else the disk.  The load cache is cleared before each.         *)
View(over) == [d \in Docs |-> IF over[d] # Closed THEN over[d] ELSE disk[d]]

Uses(text) == IF text = Absent THEN {} ELSE text.loads \cup text.mods

(* The documents reached from docs along next, in any number of steps.     *)
Closure(next, docs) ==
  LET within[n \in 0..Cardinality(Docs)] ==
        IF n = 0 THEN docs
        ELSE LET fewer == within[n - 1] IN fewer \cup UNION {next[d] : d \in fewer}
  IN  within[Cardinality(Docs)]

UsedBy(view) == [d \in Docs |-> Uses(view[d])]
Reached(view, d) == Closure(UsedBy(view), {d})

(* The loaded files whose functions fail when they are called.             *)
Raising(view, d) == {u \in view[d].loads : view[u] # Absent /\ view[u].is = "raises"}

(* A file starts to run: a cyclic load is refused.                         *)
Runs(view, res, u) ==
  /\ view[u] # Absent
  /\ view[u].is # "broken"
  /\ view[u].needs => res = "declares"
  /\ u \notin Closure(UsedBy(view), Uses(view[u]))

(* The error of a file that is used becomes an error of its user.          *)
Evaluates(view, res, d) ==
  \A u \in Reached(view, d) : Runs(view, res, u) /\ Raising(view, u) = {}

(* Where the error of d is: d, for an error of its own or of the files it  *)
(* uses (resolve_and_eval_module wraps those); the place of the span, in a *)
(* loaded file, when a function of that file fails that d calls.           *)
ErrorAt(view, res, d) ==
  IF /\ Runs(view, res, d) /\ \A u \in Uses(view[d]) : Evaluates(view, res, u)
     /\ Raising(view, d) # {}
  THEN CHOOSE u \in Raising(view, d) : TRUE
  ELSE d

(* Style lints of an instantiated module keep its path, see                *)
(* process_pending_child; those of a loaded file are dropped.              *)
Linted(view, d) ==
  {u \in Closure([v \in Docs |-> IF view[v] = Absent THEN {} ELSE view[v].mods], {d}) :
     view[u].is = "lint"}

Diagnosed(view, res, d) ==
  IF Evaluates(view, res, d)
  THEN [at : Linted(view, d), is : {"lint"}]
  ELSE {[at |-> ErrorAt(view, res, d), is |-> "error"]}

(* resolution_for: a cached resolution is used as it is; a failed one is   *)
(* empty and is not cached.                                                *)
Resolution(cache) == IF cache # Unresolved THEN cache ELSE manifest
Cached(cache) == IF Resolution(cache) = "invalid" THEN Unresolved ELSE Resolution(cache)

-----------------------------------------------------------------------------
(* Publishing.                                                             *)
Merged(byOrigin, t) == {g.is : g \in {x \in UNION {byOrigin[o] : o \in Docs} : x.at = t}}

AffectedTargets_Slip(origin, old, new) == {origin} \cup {x.at : x \in new}
AffectedTargets(origin, old, new) == {origin} \cup {x.at : x \in old \cup new}

(* publish_grouped_diagnostics and clear_grouped_diagnostics: the new      *)
(* groups of an origin replace the old ones, and every target of either    *)
(* is sent again, merged over all origins.                                 *)
Publish(new) ==
  LET affected == UNION {AffectedTargets(o, published[o], new[o]) :
                           o \in {x \in Docs : new[x] # published[x]}}
  IN  /\ published' = new
      /\ shown' = [t \in Docs |-> IF t \in affected THEN Merged(new, t) ELSE shown[t]]

-----------------------------------------------------------------------------
(* Validation.                                                             *)
Open(over) == {d \in Docs : over[d] # Closed}
Tracked(over) == Open(over) \cup {d \in Docs : parsed[d] # Unparsed}

KeepAst_Slip(old, text) == IF old = Unparsed THEN text ELSE old
KeptAst(old, text) == text

(* get_ast_or_load_from_disk and has_module_dependency: an AST that is     *)
(* there is used even if the text has changed since.                       *)
DependsOn(view, res, u) ==
  IF parsed[u] # Unparsed THEN parsed[u].loads \cup modDeps[u]
  ELSE IF Evaluates(view, res, u) THEN Uses(view[u]) ELSE modDeps[u]

DirectOnly_Slip(over, res, d) ==
  {u \in Tracked(over) : d \in DependsOn(View(over), res, u)}
(* propagate_change: breadth first over the tracked documents.             *)
Dependents(over, res, d) ==
  LET importers == [c \in Docs |-> {u \in Tracked(over) : c \in DependsOn(View(over), res, u)}]
  IN  Closure(importers, {d})

(* validate_and_collect and quick_validate of every document of docs; of   *)
(* the documents of probed only the dependency edges are refreshed.        *)
ValidateAll(over, res, docs, probed) ==
  LET view == View(over)
      ok == {d \in docs \cup probed : Evaluates(view, res, d)}
  IN  /\ parsed' = [d \in Docs |-> IF d \in docs \cap ok THEN KeptAst(parsed[d], view[d]) ELSE parsed[d]]
      /\ modDeps' = [d \in Docs |-> IF d \in ok THEN view[d].mods ELSE modDeps[d]]
      /\ Publish([d \in Docs |-> IF d \in docs THEN Diagnosed(view, res, d) ELSE published[d]])

(* did_open and did_change, and then validate.                             *)
HandleText(m) ==
  LET over == [overlay EXCEPT ![m.doc] = m.text]
      res == Resolution(resolved)
  IN  /\ m.is \in {"open", "change"}
      /\ overlay' = over
      /\ resolved' = Cached(resolved)
      /\ ValidateAll(over, res, {m.doc} \cup Dependents(over, res, m.doc),
                     {u \in Tracked(over) : parsed[u] = Unparsed})

(* maybe_invalidate_on_saved_source, maybe_invalidate_resolution_cache.    *)
Invalidated(cache) == Unresolved

Swept(d) == Tracked(overlay)

(* did_save: the overlay holds the text, since only open documents are     *)
(* saved.  A full sweep follows the propagation.                           *)
HandleSave(m) ==
  /\ m.is = "save"
  /\ resolved' = Cached(Invalidated(resolved))
  /\ ValidateAll(overlay, Resolution(Invalidated(resolved)), {m.doc} \cup Swept(m.doc), {})
  /\ UNCHANGED overlay

(* did_change_watched_files for the manifest.                              *)
HandleWatched(m) ==
  /\ m.is = "watched"
  /\ resolved' = IF Tracked(overlay) = {} THEN Unresolved ELSE Cached(Invalidated(resolved))
  /\ ValidateAll(overlay, Resolution(Invalidated(resolved)), Tracked(overlay), {})
  /\ UNCHANGED overlay

WithoutOrigin(d) == [published EXCEPT ![d] = {}]

(* did_close; the dependency edges of the session stay.                    *)
HandleClose(m) ==
  /\ m.is = "close"
  /\ overlay' = [overlay EXCEPT ![m.doc] = Closed]
  /\ parsed' = [parsed EXCEPT ![m.doc] = Unparsed]
  /\ Publish(WithoutOrigin(m.doc))
  /\ UNCHANGED <<modDeps, resolved>>

Handled(m) == HandleText(m) \/ HandleSave(m) \/ HandleWatched(m) \/ HandleClose(m)

-----------------------------------------------------------------------------
(* A session in which some documents have been opened, as they are on      *)
(* disk, and nothing else has happened; none of them in particular.        *)
Init ==
  /\ disk \in {f \in [Docs -> Text] : \A d \in Docs : f[d] \in Fits[d]}
  /\ manifest \in Manifests
  /\ \E opened \in SUBSET Docs :
       buffer = [d \in Docs |-> IF d \in opened THEN disk[d] ELSE Closed]
  /\ inbox = <<>> /\ pending = <<>>
  /\ overlay = buffer
  /\ LET ok == {d \in Open(buffer) : Evaluates(disk, manifest, d)}
     IN  /\ parsed = [d \in Docs |-> IF d \in ok THEN disk[d] ELSE Unparsed]
         /\ modDeps = [d \in Docs |-> IF d \in ok THEN disk[d].mods ELSE {}]
  /\ resolved = IF Open(buffer) = {} THEN Unresolved ELSE Cached(Unresolved)
  /\ published = [d \in Docs |-> IF d \in Open(buffer) THEN Diagnosed(disk, manifest, d) ELSE {}]
  /\ shown = [t \in Docs |-> Merged(published, t)]
  /\ actions = 0

-----------------------------------------------------------------------------
(* main_loop and coalesce_did_change.                                      *)
SameDocument(m, n) == n.is = "change" /\ n.doc = m.doc

(* Length of the run of changes of m's document at the front of queue.     *)
RunLength(m, queue) ==
  CHOOSE k \in 0..Len(queue) :
    /\ \A i \in 1..k : SameDocument(m, queue[i])
    /\ k < Len(queue) => ~SameDocument(m, queue[k + 1])

DropOther_Slip(other) == <<>>
(* The message that ends the run of changes waits its turn.                *)
SetAside(other) == other

(* The messages that have arrived when a change is handled are a prefix of *)
(* those under way; the newest text of the run is the one handled.         *)
Coalesce(m, queue) ==
  \E arrived \in 0..Len(queue) :
    LET here == SubSeq(queue, 1, arrived)
        k == RunLength(m, here)
        other == IF k = arrived THEN <<>> ELSE <<queue[k + 1]>>
    IN  /\ Handled(IF k = 0 THEN m ELSE queue[k])
        /\ pending' = SetAside(other)
        /\ inbox' = SubSeq(queue, k + 1 + Len(other), Len(queue))

Serve ==
  /\ pending \o inbox # <<>>
  /\ LET m == Head(pending \o inbox)
         queue == IF pending = <<>> THEN Tail(inbox) ELSE inbox
     IN  IF m.is = "change" THEN Coalesce(m, queue)
         ELSE Handled(m) /\ pending' = <<>> /\ inbox' = queue
  /\ UNCHANGED client

-----------------------------------------------------------------------------
(* The client, and programs that write files without telling the server.   *)
Acts(m) ==
  /\ actions < MaxActions
  /\ actions' = actions + 1
  /\ inbox' = inbox \o m
  /\ UNCHANGED <<pending, server>>

OpenDocument(d) ==
  /\ buffer[d] = Closed /\ disk[d] # Absent
  /\ buffer' = [buffer EXCEPT ![d] = disk[d]]
  /\ Acts(<<[is |-> "open", doc |-> d, text |-> disk[d]]>>)
  /\ UNCHANGED <<disk, manifest>>

EditDocument(d, t) ==
  /\ buffer[d] \notin {Closed, t}
  /\ buffer' = [buffer EXCEPT ![d] = t]
  /\ Acts(<<[is |-> "change", doc |-> d, text |-> t]>>)
  /\ UNCHANGED <<disk, manifest>>

SaveDocument(d) ==
  /\ buffer[d] # Closed
  /\ disk' = [disk EXCEPT ![d] = buffer[d]]
  /\ Acts(<<[is |-> "save", doc |-> d]>>)
  /\ UNCHANGED <<buffer, manifest>>

CloseDocument(d) ==
  /\ buffer[d] # Closed
  /\ buffer' = [buffer EXCEPT ![d] = Closed]
  /\ Acts(<<[is |-> "close", doc |-> d]>>)
  /\ UNCHANGED <<disk, manifest>>

(* Only manifests and symbol libraries are watched.                        *)
WriteFile(d, t) ==
  /\ disk[d] # t
  /\ disk' = [disk EXCEPT ![d] = t]
  /\ Acts(<<>>)
  /\ UNCHANGED <<buffer, manifest>>

WriteManifest(m) ==
  /\ manifest # m
  /\ manifest' = m
  /\ Acts(<<[is |-> "watched"]>>)
  /\ UNCHANGED <<disk, buffer>>

ClientActs(d) ==
  \/ OpenDocument(d)
  \/ SaveDocument(d)
  \/ CloseDocument(d)
  \/ \E t \in Fits[d] : EditDocument(d, t)
  \/ \E t \in Fits[d] \cup {Absent} : WriteFile(d, t)

Next ==
  \/ Serve
  \/ \E d \in Docs : ClientActs(d)
  \/ \E m \in Manifests : WriteManifest(m)

(* Without fairness: nothing is said of a server that stops.               *)
Spec == Init /\ [][Next]_vars

-----------------------------------------------------------------------------
(* Every other step is an action of the client. *)
Served == actions' = actions

Fresh(d) == published[d] = Diagnosed(View(overlay), manifest, d)

(* Changes that follow each other are merged and one message is set aside: *)
(* once everything is handled the server has exactly the client's open     *)
(* buffers (main_loop, coalesce_did_change).                               *)
NothingLost == pending \o inbox = <<>> => overlay = buffer

(* Diagnostics of several origins meet at a target and origins come and    *)
(* go; the client shows at every document exactly what the last evaluation *)
(* of some open document put there (publish_grouped_diagnostics, did_close).*)
ShownIsOwed ==
  \A t \in Docs :
    shown[t] = {g.is : g \in {x \in UNION {published[o] : o \in Open(overlay)} : x.at = t}}

(* Hover, definitions and the propagation read the cached AST: a document  *)
(* whose evaluation put no error anywhere, be it at the document or at a   *)
(* file it loads, has the AST and the module dependencies of the text on   *)
(* the screen (validate_and_collect, quick_validate).                      *)
CleanDocsAreParsed ==
  \A d \in Open(overlay) :
    (\A x \in published[d] : x.is # "error") =>
      parsed[d] = overlay[d] /\ modDeps[d] = overlay[d].mods

(* A document's dependencies are known when its AST and module edges are   *)
(* those of its text.                                                      *)
Known(d) == parsed[d] = overlay[d] /\ modDeps[d] = overlay[d].mods
KnownLoaders(d) ==
  Closure([c \in Docs |-> {u \in Open(overlay) : Known(u) /\ c \in Uses(overlay[u])}], {d})

(* What the handling of a message refreshes.  An edit: every document that *)
(* depends on the edited one through any number of open documents whose    *)
(* dependencies are known (propagate_change).  A save, "the explicit       *)
(* refresh now signal", and a change of the manifest: every open document, *)
(* whatever was cached (did_save, did_change_watched_files).               *)
RefreshesWhatItOwes ==
  [][LET m == Head(pending \o inbox)
     IN  Served =>
           IF m.is \in {"save", "watched"} THEN \A d \in Open(overlay) : Fresh(d)'
           ELSE \A d \in Docs : overlay'[d] \notin {overlay[d], Closed} =>
                  \A u \in KnownLoaders(d) :
                    published'[u] = Diagnosed(View(overlay)', Resolution(resolved), u)]_vars
=============================================================================

# Verification of pcb's package system and tools

`pcb` compiles circuit boards written in Zener (`.zen` files). Most of the repository is a
compiler and a set of file format tools: deterministic transformations of one input. The parts whose
correctness depends on order, on other processes or threads and on failures are the *package
system* (how dependencies are found, selected, recorded in `pcb.toml`, vendored, cached, built from,
and published), the *launcher* that installs and runs toolchains, and two interactive programs that
keep state between events: the *language server* and the *part search*. The TLA+ modules here model
those parts, TLC checks them on small instances, and TLAPS proves their safety properties for every
size of them.

## Inventory

| Component | Source | State | Operations | Hard because |
|---|---|---|---|---|
| Remote version selection | `pcb-zen/src/package_resolver/mvs.rs` (`run_remote_mvs`) | `selected`, worklist | seed, merge a floor, visit a manifest | a raise makes an earlier visit stale; manifests require each other |
| Package resolver | `mvs.rs` (`resolve_package`) | memo with in-progress marks | resolve with or without overrides | recursion, cycles, errors that unwind through marks |
| Frozen build | `package_resolver/resolve.rs`, `pcb-zen-core/src/resolution.rs` | queue of nodes, recorded closure | resolve a node, look ids up | relies on what an earlier sync wrote |
| Sync, check, add | `pcbc/src/mod/` | manifests, `vendor/` | plan, report, write | several files, no transaction, world changes in between |
| Package cache | `pcb-zen/src/resolve.rs`, `cache_index.rs`, `git.rs` | directories, index rows, two lock files | probe, lock, clean, fetch, unpack, hash, record | several processes, crashes, a marker file written in the middle |
| Publish | `pcbc/src/publish.rs`, `pcb-zen/src/workspace.rs` | clone (HEAD, tags), remote (main, tags), guard | fetch, preflight, plan, sync and tag waves, push, roll back | concurrent publishers, non-atomic pushes, kills |
| Package index discovery | `cache_index.rs` | table `remote_packages` | look up, refill | refill is not a transaction |
| Toolchain launcher | `pcb/src/main.rs` | installed toolchains, staging directories, locks, release cache | run, install, repair, uninstall, prune, self-update | some commands lock and some do not; several steps on directories |
| Language server | `pcb-starlark-lsp/src/server.rs`, `pcb-zen/src/lsp/mod.rs`, `pcb-zen-core/src/lang/eval.rs` | overlays, cached parses and edges, cached resolution, published diagnostics | open, change, save, close, watched files | caches and derived diagnostics of many documents; messages are merged and set aside |
| Part search | `pcb-diode-api/src/registry/tui/`, `registry/download.rs`, `kicad_symbols/download.rs` | text, mode, results, cursor; index files | type, select, change mode, update; search, fetch, replace an index | four kinds of threads over lossy channels; files replaced under open connections |
| Layout sync | `pcb-layout/src/` | the board file | apply moves, repair net names, Python sync | several passes over one file |
| Compiler, IPC-2581, Gerber, importers, ... | remaining crates | none that outlives a call | transformations | data, not control |

How they interact: a sync creates one resolver, asks it for every target package, and each answer
contains one remote selection. What it writes into the manifests is all a build reads. Resolver and
build load remote manifests through the package cache. A sync asks the package index which package
holds a file that a source imports. The launcher decides which `pcbc` runs all of this. The language
server evaluates documents against the same resolution a build uses and caches it. A publish syncs
the manifests between its waves, and the tags it pushes are what the next clone's sync and the
cache's fetches see.

What makes each correct: a selection must be closed, grounded in requests and must end; the resolver
must give one closure that serves everything below a package, without false or missed cycles; a
build from what a sync wrote must find everything; a sync must write nothing when it refuses and
repair what an interrupted one left; a cache entry that is recorded must be complete and must stay;
a publish must never leave a tag without its commit, two commits for a version, or a clone half
rolled back, and must publish whatever changed; a refilled index must hold every package, and a
lookup must end with the nearest one; a toolchain that can be seen must be whole, of one build, and
the newest of its lane must survive a prune; what the editor shows must be what the documents on the
screen evaluate to, and nothing an editor sends may get lost; hits and details must belong to the
text and the cursor on the screen and to the index file as it is.

## Modules

**Mvs** is one call of `run_remote_mvs`. A dependency id is a module path with its compatibility
lane, so versions of an id are totally ordered and are positive integers. The registry is constant
during a run because a published version is immutable. `Start` begins with seeds and floors; each of
`SkipStdlib`, `RaiseFloor`, `KeepFloor` and `FailSpec` is one call of `enqueue_floor_version`;
`Visit` pops the worklist and loads the manifest of the version selected *now*. Requirements come in
iteration order. A version `Absent` in a requirement stands for a spec `resolve_spec` cannot
resolve, a manifest that does not load for any failure of the loader.

**SelectionContract** says what such a call promises its caller, in one step and without a worklist:
an answer that meets every requirement of what it selects and selects only what the requests lead
to, or an error if something on the way names no version or does not load. It does not say which
closed selection it is. `Mvs` implements it (`FulfilsContract`: idle, seeding to merging, resolved
and failed are the contract's idle, running, ok and error). The contract states no fairness; that a
call ends is `Terminates`.

**PackageResolver** is `PackageResolver` around it: it INSTANCEs `Mvs` and adds the memo
(`package_states`), the recursion as an explicit stack of frames, imported floors, overrides, and
errors that unwind frame by frame. `Call` is the public entry; a memoised hit returns at once.
What a package imports is an input, and an import of a workspace package names one the workspace
lists; the error "not a workspace package" of `workspace_package_version` therefore has no step.

**FrozenBuild** is `FrozenResolutionBuilder`: `RecordedClosure` reads one manifest, and the node
queue is a set, because the order decides nothing but which error comes first (the model allows
every order). Assumed: workspace manifests name exact versions; path dependencies and forks are
left out.

**PackageSync** composes the two: it INSTANCEs `PackageResolver` for planning and `FrozenBuild` for
what a build of the written manifests would need. A command takes a snapshot, plans target by
target, then reports, refuses, or writes manifests, vendor copies and prunes one at a time.
`Interrupt` ends a command during the writes, possibly with the manifest in hand cut off (modelled
as empty) or a vendor root half copied. `WorldChanges` edits sources, publishes newer versions and
changes the visible tags between commands. Adding a package on another lane of a path already used,
and remote packages that require a workspace member, are abstracted away. Copies are applied in an
arbitrary order. `quiet` is a history variable: the last command but for checks was a whole sync
that left the pins of remote packages as it found them.

**PackageCache** is `ensure_package_manifest_in_cache` and `populate_cache` run by several
processes, with the lock of the entry and, inside it, the lock of the source repository. The archive
is unpacked in place, file by file; the marker `pcb.toml` is one of those files. Hashing a directory
is one step over whatever is there then; `ensure_source_repo`'s clone or fetch is one step that may
fail. A crash releases the locks and leaves the files.

**Publish** has a remote (main, tags), clones (HEAD, tags, uncommitted changes) and one command at
most per clone: `pcb publish` over all changed packages, or the release of one board. A commit is
its history, the state of every package's sources, and the pins of every manifest. `FetchTags`,
`Preflight`, `Plan` lead to the waves (`SyncWave`, `TagWave`), `PushMain`, `PushTags` and
`Rollback`; `Release` and `PushRelease` are the board's. Every push may be refused, lost on the way,
accepted with a lost answer and, for tags, accepted in part. What a clone has uncommitted
(`litter`) is of two kinds, changes of tracked files and files git does not know, such as the vendor
roots a failing sync has copied: `Rollback` resets the first and leaves the second, as `git reset
--hard` does, and `Preflight` refuses both. Each git command of the guard may fail unnoticed; such a
run ends as `unclean`. `Crash` kills a command without running
its guard; `Edit` pushes other people's changes; `Update` brings an idle clone back to the remote's
main. `--force`, `--no-push` and the inference of bumps are left out: the bump is any choice of
patch, minor and major.

**PackageIndex** is `find_remote_package` by several processes over one SQLite table. Directories
are numbered along one path; a file asks them from the nearest to the farthest. A refill lists the
tags of the source repository, deletes all rows and inserts one per package, every statement on its
own. A statement may be refused (SQLite's busy timeout), a process killed, and the remote gains
tags. The fetch with its lock is one step. `disturbed` and `rows` are history variables: who has
seen a table that somebody else was refilling, and whether a refill was cut off.

**Toolchain** is the launcher: several processes that run, install, repair, uninstall or prune.
A slot is a stable version or the nightly; its directory has four parts (binary, receipt, standard
library, sidecars), each with the build it comes from. An installation is `Check`, `Lock`,
`Recheck`, `Download`, one `Stage` per part, `RemoveOld`, `Rename`, each of which may fail or be cut
off by a kill; uninstall and prune take a directory away part by part and without a lock; repair
installs without a lock, as in the code. Releases appear at any time; the cached list may be older.
What a run asks for is a lane, the latest release, the nightly, or what the two commands outside of
a workspace ask for: `pcb help` takes what is installed first, and `pcb migrate` wants the current
latest and is denied the fallback to an older one (`FallsBack`, `should_allow_latest_fallback`).
Self-update, sibling and local toolchains and requests for an exact version are left out.

**LanguageServer** is the server's loop with one client. A text is a record of what it loads,
which modules it instantiates, whether it needs a package dependency, and whether it is broken,
merely linted, or defines a function that fails when a file that loads it calls it. The error of an
evaluation is put where its span is (`ErrorAt`): at the document, or in the loaded file whose
function failed. `Serve` handles one message: open and change validate the document and, along the
cached edges, its dependents; save and a change of the manifest drop the cached resolution and sweep
all tracked documents; close drops the overlay, the parse and the diagnostics of that origin.
`Coalesce` is `coalesce_did_change`: a run of changes of one document is merged, and the first
message of another kind is set aside for the next round. Diagnostics are kept by origin and shown by
target. The server's lazy mode is the one `pcbc` uses (`crates/pcbc/src/lsp.rs:9`).

**PartSearch** is `pcb search`: the interface loop (input, debounce, sending, polling), the search
worker, the detail worker, the update threads, and downloads that outlive their update. Queues from
which a worker keeps only the newest element are that element. An answer carries the text, the mode
and the version of the index it was found in, which the program does not keep, so that the
properties can compare them. The search worker opens an index, notices by the file's time that it
was replaced, or downloads a missing one. An index of the registry scope has one file per registry
(`Files`), and the version of an index counts the replacements of its files. Update threads replace
them one by one under one lock; the first failed file ends an update, and the downloads it leaves
behind (`strays`) go on without the lock. Opening and downloading may fail; most failures are told
to the interface, but of the first KiCad download some are not (`FetchFails`). `doubtful` is a
history variable: the indexes one of whose updates has failed half-way, that could not be opened or
downloaded without a word, or whose first opening an update may have raced. The scopes
`--registry-index` selects and the replacement of an index by another program are left out. Assumed:
a text is sent before the next key arrives (the debounce is 5 ms).

The `MC...` modules hold the families of registries, workspaces and graphs TLC enumerates, and the
statements quoted from documents that turn out not to hold. Operators named `..._Slip` are what a
plausible mistake in the definition below them would look like; the model does not use them. They
exist so that each property can be shown to notice its mistake.

## Runs

| Run | Shows |
|---|---|
| `mvs` | over a family of registries with mutual requirements, late raises, broken manifests and bad specs, a selection ends, is closed (`ClosureComplete`), selects nothing that was not asked for (`Grounded`), fails only for a cause, and so implements its contract (`FulfilsContract`) |
| `resolver` | over all use relations of three packages, cyclic ones included, marks match active calls also after errors, the closure of a resolved package serves all packages below, the memo is stable, calls return |
| `frozen` | sufficient manifests never miss a dependency, whatever the queue order and the cycles; a finished build is complete; builds end |
| `sync` | a completed whole sync, or a check without drift, leaves manifests that suffice and exactly the right vendor roots, even after interruptions; refusals and checks change nothing; pins never fall; a sync that leaves the pins as they were has settled: a check finds no drift |
| `cache` | marked entries are never deleted or shrunk, indexed entries with hashed tags are complete, calls return in spite of nested locks and crashes |
| `publish` | two concurrent clones of a chain of three packages or of a cyclic workspace: remote tags are on main, a version is one commit, a failed publish whose guard could work is rolled back but for files git does not track, what is pushed pins the versions it was published with, and the waves never get stuck |
| `index` | two processes look up and refill at the same time: a table no kill has torn settles on all packages (`TableSettles`), an undisturbed lookup finds the nearest package, and lookups end |
| `toolchain` | two launchers: while only runs and installs are at work, a stable toolchain that can be seen is complete and a nightly is of one build, a run of the latest toolchain or for help fails only if none is installed; a prune keeps the newest patch of each lane |
| `lsp` | no message is lost in the merging; what is shown is exactly what the last evaluation of each open document put there, at itself or at a file it loads; a document whose evaluation put no error anywhere is parsed as it is; an edit refreshes all open documents that depend on it along known edges, a save or a manifest change refreshes all |
| `search` | with updates and openings that may fail, hits fit the text and mode on the screen, hits that stay are those of the index as it is unless it is doubtful, details belong to the cursor, and the last text is answered unless the KiCad index is doubtful |

Two more runs check a sentence of a comment or of the documentation, and TLC refutes it:

* `cache_reader`: a sentence above `populate_cache`. The marker is written by the unpacking itself
  and not last, so the fast path can accept an unfinished entry. `IndexedIsComplete` shows what
  still protects tags that carry hashes.
* `publish_changed`: one base commit is used for all packages, so a change to one package is hidden
  by a later tag of another, such as a board release in between.

Other sentences the models do not bear out, without a run of their own:

* `docs/pages/packages.mdx:120-121` describes a third step that traces the closure again and drops
  superseded versions; `run_remote_mvs` returns its selection unfiltered.
* `crates/pcbc/tests/sync.rs:718`: "A second sync must leave the hydrated manifest byte-for-byte
  identical." If the first raised a version whose predecessor alone required some id, the second
  drops that id. With more ids it may go on: the second starts from the raised pins, visits other
  manifests on its way, and may itself raise a pin or keep an orphan (six ids suffice for a drift
  after two syncs). What does hold is `QuietSyncSettles`, for a sync that changed no pin of a remote
  package; and since pins only rise (`PinsOnlyRise`), among finitely many versions syncs end up
  quiet.
* `resolve.rs:512`: after a crash "waiters retry"; a waiter accepts an entry whose marker was
  unpacked before the crash.
* `git.rs:704`: the fetch is said to prune deleted tags; `git fetch --prune-tags --tags` without
  `--prune` prunes none, and the tags of a killed publish stay and count as published.
* `docs/pages/spec.mdx:113`: "`pcb` selects the newest patch in a semver lane, installing it if
  needed"; a run takes the newest *installed* patch and asks for others only if there is none.
* `server.rs:1462`: "Re-validate all open documents that (transitively) depend on `changed`"; a
  document whose imports changed while it was broken is found by its old edges.

### Bounds

Two versions per id and three ids (plus the stdlib) are the least in which an id is raised after its
visit, a superseded version leaves an orphan, and two ids require each other. Two or three workspace
packages give chains, diamonds and cycles. `sync` runs three commands: one to write a state, one to
be interrupted or to run on a changed world, one to recover. `cache` has two entries of one source
repository, so that both locks are contended, archives of three files with the marker in the middle,
two calls per process and one crash. `publish` has two runs (a failure and its retry, or two
clones at the same time), one edit, one kill, and one choice of bumps, a different one for each
package; three packages in a chain make the waves commit twice. The clones are interchangeable.
Versions are three numbers packed as `(major * Line + minor) * Line + patch`.

`index` has three directories on one path and two files with different sets of them, two calls per
process and one fault: enough for two overlapping refills, a lookup in between, and a torn table.
`toolchain` has two patches of one lane and two builds of the nightly, one command per launcher and
one kill; with two launchers that is a locked installation against any other command at every step.
`lsp` has three documents of which the third may load the first, and three actions of the client on
top of any of the initial sessions, in which some documents are already open and parsed: a change
merged with another one across a save is three messages. `search` has two indexes, the registry one
of two files, an online mode and two texts. Actions of the user and failures share one bound of two
(`MaxEvents`): two keys, a forced update that fails half-way, or a change of mode with a failed
download. An update nobody asked for finds at most one newer file (`OneNewer`).

Deadlock is checked for `mvs`, `resolver`, `frozen` and `search`, where a caller can always call
again and the interface redraws for ever. It is
off where a bound on commands, calls or runs lets the system come to rest. What replaces it there
are the liveness properties; `publish` has the invariant `WavesAdvance` instead, since with one
clone per process its only loop is the one over the waves.

### Fairness

Every specification has weak fairness of its program steps and of nothing else: no call, command,
edit or crash has to happen. That is what sequential code gives: a function that was entered keeps
running. In `cache` and `publish` it is per process, which is the operating system's scheduling. A
process that waits for a file lock is enabled only while the lock is free. With weak fairness it
could starve against processes that come back for ever; the bound on calls excludes that here, and
the kernel's lock queue does in the program.

In `index` fairness is per process; nobody waits there except for the lock inside the fetch step. In
`search` it is per thread: the interface, the detail worker, the search worker and the update
threads together; nothing makes the user act, and nothing has to fail. `lsp` and `toolchain` state no
liveness and no fairness: their properties are about every single step.

## Proofs

TLAPS checks these for every value of the constants that satisfies the named assumptions.

* **MvsProofs**. `ClosureComplete` is not inductive: in the middle of a run the selection is not
  closed. What is inductive is that the debt is known: every selected id is closed, or queued, or
  being visited with only the requirements from `next` on unmet (`Pending`); the seeds merged so far
  are met (`SeedsPending`); and the queue holds selected ids only (`QueuedSelected`, which also
  shows that the loop's `continue` is dead). `RaiseFloor` is the interesting case: raising an id
  breaks the closure of that id only, and that id is what it queues; for all others a raised
  selection satisfies more. From this follow `SelectionIsClosed`, `SeedsAreMet` and
  `SelectionOnlyRises`. `SelectionIsGrounded` uses a second invariant: every set of requests that is
  closed under requirements holds everything selected so far and the manifest being merged.
  `SelectionImplementsContract` is the refinement: the final step of a run is an `Answer` or a
  `Fail` of `SelectionContract`, every other one a stutter. `ClosedSetsAgree` relates the contract's
  closed sets of requests with those of `Mvs`; `AnswersArePromised` turns the two invariants into
  what an answer promises, and `FailuresHaveCauses` shows that the requirement a run fails on is
  reached by what was asked for. The last section defines the sequence of views of a run as the
  least set that `After` leads through (`Trace`) and shows that a run is determined by its arguments
  (`TracesEndOnce`). The syncs need this.
* **PackageResolverProofs** uses `MvsProofs` by INSTANCE. The proofs are about a recursion that was
  made a stack: `RunningIsLast` (only the top frame runs a selection), `InputIsTops` (it runs on the
  input of that frame), `UsesAreHandled` (each workspace package that a frame uses is still to be
  imported, or is resolved and below the frame's floors), `MemoIsPlain` (a frame with overrides
  writes no memo), `MarksMatchCalls`, and `ResolvedIsClosed` (a memoised closure serves the packages
  it uses and meets the imports). `MarksAreForgotten` and `MemoisedStays` follow, and
  `ClosuresServeBelow`: the packages that the closure serves are closed under use, and `UsesReach`
  is the least such set, so no induction over the graph is needed. The order in which `InOrder`
  lists a set comes from a recursive function; its existence is shown by a smallest counterexample
  (`SmallestExists`), not by induction over data. `ResolutionIsDetermined` says that answers depend
  on the registry and the workspace only, not on the calls that were made: a full memo solves the
  workspace, and any assignment in which every package answers to those it uses (`Solves`) agrees
  with the memo. Its invariant is `AnswerInv`.
* **PackageSyncProofs** uses `PackageResolverProofs` by INSTANCE and proves the assumption of that
  module from its own. The invariant follows a command from its snapshot to its last write:
  `ReadsSnapshot` and `WritesLast` (files change in the last phase only, and not by a check),
  `EditsAreWanted` and `DiskIsOldOrWanted` (what is or will be written is `Want`, the manifest the
  resolution of the package calls for), `EveryPackage` (of a whole sync no package is forgotten),
  `RootsAreSelected` and `VendorPlanned`. `SyncsSuffice` then takes the recorded closures as the
  witness of sufficiency, and `VendorIsRecorded`, `RefusalsChangeNothing` and `PinsNeverFall`
  follow. `QuietSyncsSettle` needs more: after a quiet sync what the manifests record solves the
  workspace (`Settled`), so by `AnswerInv` a check resolves every package to what is recorded
  (`FindsRecordings`) and finds nothing to edit, copy or prune.
* **BuildProofs** holds two independent parts. For `FrozenBuild`, `SufficientNeverMisses` follows
  from the fact that, for every set of packages that witnesses sufficiency, the queue holds only
  packages of that set and remote versions the recorded closure chose (`CoveredNode`);
  `BuiltIsComplete` follows from `NothingForgotten`: what a resolved node refers to is resolved or
  queued. For `PackageCache`, `HoldersMatch` is mutual exclusion per entry; `CleanSawNoMarker` says
  that the only process that deletes an entry looked for the marker while it held the lock;
  `HashedIsThere` carries what was hashed and verified to the moment it is recorded.
  `IndexIsTrustworthy` and `EntriesAreKept` follow, for any number of processes and crashes.
* **ToolchainProofs**. The invariant says who works in a slot: `LocksAreWorkedUnder` (a launcher in
  a locked step holds the lock of its slot), `Owned` and `StagedInOrder` (the staging directory has
  the parts up to the step its owner has reached, all of one build), `DirectoriesAreSound` (an
  installed directory is complete or gone), `OnlyMissing` (an installation
  replaces only what cannot be executed: a stable binary is missing while nobody uninstalls or
  repairs) and `DoomedHaveNewer` for prunes.
  `LaunchersAreSafe`, `NightlyIsOfOneBuild`, `PruningIsSafe` and `LatestIsServed` follow, for any
  number of launchers; the last one does not speak of `pcb migrate`.
* **PackageIndexProofs**. `TableSettles` is not inductive; `Covered` is: every package without a row
  has, for each row before it, a process in the middle of its inserts between the two. A delete
  makes that process, an insert moves past one row only, and a collision happens only behind another
  process. `AloneWhileLooking` and `AloneWhileInserting` carry `UndisturbedIsNearest`.
* **PublishProofs**. `TagsAreOnMain` and `VersionsAreUnique` rest on what the guard of a publish
  knows: unless it holds unpushed commits, main has its HEAD (`HeadIsPushed`), its tags name commits
  in the history of its HEAD (`MadeAreOnHead`), and main is pushed before them; histories are closed
  (`HistoryIsClosed`), so a main that was pushed keeps what it had. `RolledBack` follows from
  `GuardKnowsTags` (the tags of the clone are those it fetched and those the guard made, and no tag
  is both, because a candidate is newer than every local tag) and `CleanTree` (a publish that has
  not failed has nothing uncommitted, and a guard that will not reset has nothing to reset).
  `FailuresAreRolledBack` speaks of the guards that could. `PinsAreFresh` follows from
  `PlanIsClosed` (the dependents of a planned package are planned, and a planned package is tagged
  or still to do) and `PinsFollow` (the commit of a tag pins the new versions it uses, since what a
  wave depends on was tagged before the wave was synced). Waves come from `NothingIsStuck`: a set
  without cycles has a first wave, and so has every part of it. `PublishAssumption` makes `Packages`
  finite, so that there is a latest tag; nothing bounds the number of clones, and the bounds on
  runs, edits and kills are any numbers. `Expanded` and `Cyclic` are taken by their definitions over
  all sets of packages: no induction over the graph is needed.

* **InteractiveProofs** holds two independent parts. In `LanguageServer` messages wait in the inbox
  or are set aside, so the invariant speaks of both as one queue (`Queue`): a client's buffer is
  what the last message about it in the queue leaves, or, without one, the server's overlay
  (`Accounts`), and a save is about a document that is open when its turn comes (`SavesOpen`).
  `ServeTakes` shows that each round takes a run from the front of that queue, however it was
  merged, and from this `NoMessageIsLost`. `ShownIsMerged` and `OnlyOpen` carry
  `DiagnosticsAreOwed`; `CleanTextsAreParsed` is inductive with them; it asks for no error anywhere
  in what the document's evaluation published, since an error in a loaded file leaves the document
  clean with the parse of an earlier text. `Closure` is a recursive function over the number of
  steps: `ClosureRises` and `ClosureStays` show that on a finite set of documents it is closed under
  loading, which gives `RefreshesAreMade` for graphs with cycles. In `PartSearch` the numbers that
  queries and answers carry are enough: `NumbersFit` (a message with the current number has the
  current mode and text) gives `HitsFit`, `AwaitedIsSelected` gives `DetailsAreSelected`.
  `HitsAreCurrent` is the longest argument, about files as well as messages: `IndexesRise` (an open
  connection is no newer than the files, and no older than the time kept for it unless the index is
  doubtful) and `OpeningIsAlone` (while the KiCad index is fetched no thread updates it; what races
  the first opening of the registry, or is left behind by an update, makes it doubtful); then
  `MessagesInOrder`, `HitsInTime` (the hits of the last query are of the index as it is, or the
  notice of an update is waiting or due) and `LastIsComing` (the last query is queued, at work,
  answered or shown, unless it was dropped with a doubtful index). `FilesAreTold` is what every step
  of the worker and the threads does for it.

The theorems assume what the modules' named assumptions say: documents, published packages and
stable versions are finite sets, `IdOrder` and `PackageOrder` list every element, versions are
natural numbers, and inputs have the right type. Nothing bounds the number of processes, commands,
messages, crashes or inputs; where a bound is a constant it is any number.

Model-checked only: the liveness properties (`Terminates` of `mvs`, `CallReturns` of `resolver` and
of `cache`, `BuildEnds`, `CallEnds`, `LastQueryAnswered`), because the prover does not handle
fairness and ENABLED; and what the `violation` runs show. All other properties of the runs are proved
as well. Types are proved and not part of a run; neither are `SeedsSatisfied`,
`OnlyRises`, `ResolvedCanRun`, `AloneNeverCollides` and `AnswersAreTagged`.

## Known hazards without a property

* A vendor copy or a clone that is interrupted leaves a directory that later runs take for whole.
* `std::fs::write` may leave a truncated manifest; the model turns it into an empty one.
* A sync of one package does not update the manifests of the packages that use it; two syncs at the
  same time are not excluded by a lock.
* A remote manifest with a branch or rev dependency passes a sync and fails a build.
* A lookup during another process's refill may take a shorter package path for the nearest one; a
  refill cut off by a kill makes that permanent, since a hit never refills; a hit also never
  refreshes the version of a package.
* The standard library is replaced under a lock its readers do not take.
* `git push` of several tags is not atomic: a dependent may be published while the tag of its
  dependency was refused; a board release is uploaded before its tag is pushed.
* `uninstall`, `prune` and `repair` take no lock: a directory may go between its resolution and its
  execution, and a repair shares the staging directory of a locked installation. An uninstall that
  fails half-way leaves a toolchain that counts as installed.
* The guard of a publish ignores the errors of its git commands: tags may stay that no remote has,
  and a reset may not happen. Vendor roots that a failing sync has copied always stay, and the next
  preflight refuses to work until they are removed by hand.
* Closing a document with unsaved changes does not refresh the documents that load it. A document
  that calls a failing function of a loaded file shows no error of its own, and completion works on
  the parse of its last good text.
* In the part search, hits for an earlier text may appear at an input that is empty by now; a forced
  update that is skipped for a newer query is never made; a registry index that was missing is
  opened before its time is read, so a forced update in between stays unnoticed; and one download
  state serves all indexes. A first download of the KiCad index that fails in the client, the
  directory or the writing is not told: the state stays at downloading and nothing is sent any more,
  also in modes whose index is there. An update that fails after it has replaced a file of another
  registry queries nothing again, so hits of the old file stay on the screen. In the online mode a
  text that is cleared and typed again within the debounce is not sent again.

## Not modelled

The evaluator, importers, exporters and format crates transform data and keep no state across calls;
what the models need of them, the imports of a file and whether it evaluates, is an input. Layout
synchronisation rewrites one board file in several passes; its rules are about geometry and names
inside the file, most of them run in Python inside KiCad, and it has no module. The service behind
`pcb-diode-api` and git itself are outside the repository; git appears by its effects. The contents
of a vendored root are not modelled, nor are content hashes as numbers: a hash is the files it
covers. Completion, hover and the debug adapter only read what the language server keeps.

## Plan

1. Done: the modules, runs and proofs above.
2. Layout: the passes of a sync over moved modules, renamed nets and placed footprints, with an
   abstract specification "the board's entities are the netlist's".
3. Exact and non-exact specs, to relate what a sync accepts with what a build accepts.
4. Contracts for the other components, as `SelectionContract` is one for a selection: the resolver as
   a function of the workspace (`AnswerInv` holds its core), the cache as a set of complete entries,
   the language server as one evaluation per message.

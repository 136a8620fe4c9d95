----------------------------- MODULE PartSearch -----------------------------
(***************************************************************************)
(* The interactive part search of crates/pcb-diode-api/src/registry: the   *)
(* user interface thread (tui/app.rs), the search and the detail worker    *)
(* and the threads that update the local indexes (tui/search.rs,           *)
(* download.rs).  They share the index files and talk over channels.       *)
(***************************************************************************)
EXTENDS Naturals, Sequences

CONSTANTS
  Modes,       \* search modes in the order in which they are cycled through
  IndexOf,     \* the local index of a mode, or Online
  Startup,     \* the local indexes in the order the worker opens them
  Files,       \* files of an index: one for each registry of the scope
  Starts,      \* sets of indexes that may be there at the start
  Texts,       \* what may be typed, Empty among it
  Empty,
  MaxEvents    \* bound: actions of the user and failures, and with them updates

Online == "online"
Indexes == {Startup[i] : i \in 1..Len(Startup)}
ModeSet == {Modes[i] : i \in 1..Len(Modes)}

ASSUME PartSearchAssumption ==
  /\ Modes \in Seq(ModeSet) /\ Modes # <<>> /\ Startup \in Seq(Indexes)
  /\ DOMAIN IndexOf = ModeSet /\ \A m \in ModeSet : IndexOf[m] \in Indexes \cup {Online}
  /\ Indexes \subseteq {"registry", "kicad"}
  /\ Files \in [Indexes -> Nat \ {0}] /\ ("kicad" \in Indexes => Files["kicad"] = 1)
  /\ Starts \subseteq SUBSET Indexes
  /\ Empty \in Texts
  /\ MaxEvents \in Nat

None == [is |-> "none"]
Query == [is : {"query"}, id : Nat, text : Texts, mode : ModeSet, force : BOOLEAN]
(* The hits of a query, two of them unless the text is empty; beside the   *)
(* number the program keeps, what they were found with.                    *)
Results == [is : {"results"}, id : Nat, text : Texts, mode : ModeSet, force : BOOLEAN,
            version : Nat \ {0}]
Places == {0, 1}
(* What identifies an item: the index, its modes included, numbers items.  *)
Key == [is : {"key"}, mode : ModeSet, text : Texts, at : Places]
News == [of : Indexes, done : BOOLEAN, ok : BOOLEAN, update : BOOLEAN]
(* An update: how many downloads of files run, and whether one is done.    *)
Update == [of : Indexes, force : BOOLEAN, left : Nat, changed : BOOLEAN]

VARIABLES
  phase, mode, text, touched, \* the loop of the interface, mode and input, a change this round
  lastQuery, counter, download, \* last_query, query_counter, download_state
  results, answered, selected,  \* results, last_results_id, list_state
  pendingDetail, detail,  \* pending_detail_for, the item whose details are shown
  query, answer, news,   \* channels of the search worker, see below
  request, responses,    \* channels of the detail worker
  worker, job, boot, stamp, \* search worker: position, query, indexes still to open, mtime
  clients, seen,     \* the version each open index has, the mtime kept for it (0: none)
  updates, holder,  \* update threads, the one that has index_update_lock
  strays,           \* downloads of registry files that outlive their update
  index,            \* versions of the indexes, see Replaced (0: a file is absent)
  doubtful,         \* history: indexes one of whose updates or openings has gone wrong
  events            \* actions of the user and failures so far

ui == <<phase, mode, text, touched, lastQuery, counter, download, results, answered, selected,
        pendingDetail, detail>>
searcher == <<worker, job, boot, stamp, clients, seen>>
threads == <<updates, holder, strays>>
files == <<index, doubtful>>
searchVars == <<ui, query, answer, news, request, responses, searcher, threads, files, events>>

SearchTypeOK ==
  /\ phase \in {"new", "input", "news"}
  /\ mode \in ModeSet /\ text \in Texts /\ touched \in {"no", "just", "due"}
  /\ lastQuery \in Texts /\ counter \in Nat
  /\ download \in {"done", "downloading", "updating", "failed"}
  /\ results \in Results \cup {None} /\ answered \in 0..counter /\ selected \in Places
  /\ pendingDetail \in Key \cup {None} /\ detail \in Key \cup {None}
  /\ query \in Query \cup {None} /\ answer \in Results \cup {None}
  /\ news \in Seq(News)
  /\ request \in Key \cup {None} /\ responses \subseteq Key
  /\ worker \in {"start", "idle", "open", "fetch", "stat", "search"}
  /\ job \in Query \cup {None} /\ boot \in Seq(Indexes)
  /\ stamp \in Nat /\ clients \in [Indexes -> Nat] /\ seen \in [Indexes -> Nat]
  /\ updates \subseteq Update /\ holder \in Update \cup {None} /\ strays \in Nat
  /\ index \in [Indexes -> Nat] /\ doubtful \subseteq Indexes
  /\ events \in 0..MaxEvents

IsLocal(m) == IndexOf[m] # Online

-----------------------------------------------------------------------------
(* The channels.  A worker drains its queue and keeps the newest query, so *)
(* the queue is its newest element; only the newest answer can still have  *)
(* the number of the last query, so the same holds for the answers.        *)
(* Responses of the detail worker are told apart by their keys.            *)
Ask(force) ==
  /\ counter' = counter + 1
  /\ query' = [is |-> "query", id |-> counter + 1, text |-> text, mode |-> mode, force |-> force]

OldNumber_Slip(t) ==
  /\ counter' = counter + 1
  /\ query' = [is |-> "query", id |-> counter, text |-> t, mode |-> mode, force |-> FALSE]
(* maybe_send_local_query: a new text gets a new number.                   *)
AskText(t) ==
  /\ counter' = counter + 1
  /\ query' = [is |-> "query", id |-> counter + 1, text |-> t, mode |-> mode, force |-> FALSE]

-----------------------------------------------------------------------------
(* The interface.                                                          *)
ItemKey(m, r, at) == [is |-> "key", mode |-> m, text |-> r.text, at |-> at]
HasItems(r) == r # None /\ r.text # Empty

(* enqueue_detail_request for the item at place at of r: nothing is asked  *)
(* twice, and nothing is shown without an item.                            *)
EnqueueDetail(r, at) ==
  IF ~IsLocal(mode) THEN UNCHANGED <<pendingDetail, detail, request>>
  ELSE IF ~HasItems(r) THEN pendingDetail' = None /\ detail' = None /\ UNCHANGED request
  ELSE IF pendingDetail = ItemKey(mode, r, at) THEN UNCHANGED <<pendingDetail, detail, request>>
  ELSE /\ pendingDetail' = ItemKey(mode, r, at)
       /\ request' = ItemKey(mode, r, at)
       /\ UNCHANGED detail

(* start_local_mode_if_needed for mode m: a missing index is asked for     *)
(* with a query that cannot be answered yet.                               *)
StartMode(m, last) ==
  IF IsLocal(m) /\ index[IndexOf[m]] = 0
  THEN /\ download' = "downloading"
       /\ lastQuery' = text
       /\ counter' = counter + 1
       /\ query' = [is |-> "query", id |-> counter + 1, text |-> text, mode |-> m, force |-> FALSE]
  ELSE download' = "done" /\ lastQuery' = last /\ UNCHANGED <<counter, query>>

New ==
  /\ phase = "new" /\ phase' = "input"
  /\ StartMode(mode, lastQuery)
  /\ UNCHANGED <<mode, text, touched, results, answered, selected, pendingDetail, detail, answer,
                 news, request, responses, searcher, threads, files, events>>

Event == events < MaxEvents /\ events' = events + 1

(* The text is sent before the next key is pressed: the debounce is 5 ms.  *)
UserActs ==
  /\ phase = "input" /\ touched = "no"
  /\ Event
  /\ UNCHANGED <<phase, answered, answer, news, responses, searcher, threads, files>>

(* on_input_change.                                                        *)
Type(t) ==
  /\ UserActs
  /\ t # text /\ text' = t /\ touched' = "just"
  /\ IF t = Empty /\ IsLocal(mode)
     THEN /\ results' = None /\ selected' = 0
          /\ EnqueueDetail(None, 0)
     ELSE UNCHANGED <<results, selected, pendingDetail, detail, request>>
  /\ UNCHANGED <<mode, lastQuery, counter, download, query>>

(* scroll_up, scroll_down, select_first, select_last.                      *)
Select(at) ==
  /\ UserActs
  /\ IsLocal(mode) /\ HasItems(results)
  /\ selected' = at
  /\ EnqueueDetail(results, at)
  /\ UNCHANGED <<mode, text, touched, lastQuery, counter, download, results, query>>

NextMode ==
  LET here == CHOOSE i \in 1..Len(Modes) : Modes[i] = mode
  IN  Modes[IF here = Len(Modes) THEN 1 ELSE here + 1]

(* The results and the details of the mode that is left are dropped.       *)
ClearResults == results' = None /\ selected' = 0 /\ pendingDetail' = None /\ detail' = None

CycleMode ==
  /\ UserActs
  /\ Len(Modes) > 1
  /\ mode' = NextMode
  /\ ClearResults
  /\ StartMode(NextMode, Empty)
  /\ UNCHANGED <<text, touched, request>>

(* The command UpdateRegistryIndex.                                        *)
ForceUpdate ==
  /\ UserActs
  /\ IndexOf[mode] = "registry"
  /\ Ask(TRUE)
  /\ UNCHANGED <<mode, text, touched, lastQuery, download, results, selected, pendingDetail, detail,
                 request>>

MaySend == IsLocal(mode) /\ download \in {"done", "updating"} /\ text # lastQuery

Send ==
  /\ phase = "input" /\ phase' = "news"
  /\ touched' = "no"
  /\ IF MaySend
     THEN lastQuery' = text /\ AskText(text)
     ELSE UNCHANGED <<lastQuery, counter, query>>
  /\ UNCHANGED <<mode, text, download, results, answered, selected, pendingDetail, detail, answer,
                 news, request, responses, searcher, threads, files, events>>

(* The debounce of a change may last for one round.                        *)
SendLater ==
  /\ phase = "input" /\ phase' = "news"
  /\ touched = "just" /\ touched' = "due"
  /\ UNCHANGED <<mode, text, lastQuery, counter, download, results, answered, selected,
                 pendingDetail, detail, query, answer, news, request, responses, searcher, threads,
                 files, events>>

(* An updated index is asked for the text on the screen again.             *)
Requery == lastQuery' = text /\ Ask(FALSE)

(* poll_download: one state for all indexes.                               *)
Shown(n) ==
  IF ~n.done THEN IF n.update THEN "updating" ELSE "downloading"
  ELSE IF n.ok \/ n.update THEN "done" ELSE "failed"

PollNews ==
  /\ phase = "news" /\ news # <<>>
  /\ LET n == Head(news)
     IN  /\ download' = Shown(n)
         /\ IF n.done /\ n.ok
            THEN IF n.update THEN Requery
                 ELSE lastQuery' = Empty /\ UNCHANGED <<counter, query>>
            ELSE UNCHANGED <<lastQuery, counter, query>>
  /\ news' = Tail(news)
  /\ UNCHANGED <<phase, mode, text, touched, results, answered, selected, pendingDetail, detail,
                 answer, request, responses, searcher, threads, files, events>>

AnyAnswer_Slip(r) == r # None
IsAnswer(r) == r # None /\ r.id = counter

AnyResponse_Slip(keys, awaited) == keys
Wanted(keys, awaited) == keys \cap {awaited}

(* poll_results and poll_detail_responses: only the answer to the last     *)
(* query counts, and only the response for the item that is awaited then.  *)
Poll ==
  /\ phase = "news" /\ news = <<>>
  /\ phase' = "input"
  /\ answer' = None /\ responses' = {}
  /\ LET new == IsAnswer(answer)
         now == IF new THEN answer ELSE results
         asks == new /\ IsLocal(mode) /\ HasItems(now)
         drops == new /\ IsLocal(mode) /\ ~HasItems(now)
         awaited == IF asks THEN ItemKey(mode, now, 0) ELSE IF drops THEN None ELSE pendingDetail
         here == Wanted(responses, awaited)
     IN  /\ results' = now
         /\ answered' = IF new THEN answer.id ELSE answered
         /\ selected' = IF new THEN 0 ELSE selected
         /\ request' = IF asks /\ awaited # pendingDetail THEN awaited ELSE request
         /\ IF here # {} THEN pendingDetail' = None /\ detail' \in here
            ELSE pendingDetail' = awaited /\ detail' = IF drops THEN None ELSE detail
  /\ UNCHANGED <<mode, text, touched, lastQuery, counter, download, query, news, searcher,
                 threads, files, events>>

(* The detail worker answers the newest request.                           *)
Detail ==
  /\ request # None
  /\ responses' = responses \cup {request}
  /\ request' = None
  /\ UNCHANGED <<ui, query, answer, news, searcher, threads, files, events>>

-----------------------------------------------------------------------------
(* The search worker.                                                      *)
Tells(i, done, ok, update) == <<[of |-> i, done |-> done, ok |-> ok, update |-> update]>>
Thread(i, force) == [of |-> i, force |-> force, left |-> 0, changed |-> FALSE]

Current == IF job = None THEN Head(boot) ELSE IndexOf[job.mode]
(* An index opened while the worker starts is checked for updates, and so  *)
(* is the KiCad index whenever it is opened first.                         *)
Checked(i) == IF job = None \/ i = "kicad" THEN {Thread(i, FALSE)} ELSE {}
AfterOpening ==
  IF job = None THEN boot' = Tail(boot) /\ worker' = "start"
  ELSE UNCHANGED boot /\ worker' = "search"
GivesUp ==
  IF job = None THEN boot' = Tail(boot) /\ worker' = "start" /\ UNCHANGED job
  ELSE job' = None /\ worker' = "idle" /\ UNCHANGED boot

(* The first opening of the registry ends before its time is read, so an   *)
(* update may replace it unnoticed in between.                             *)
BeginFetch(i) ==
  /\ worker' = "fetch"
  /\ news' = news \o Tells(i, FALSE, FALSE, FALSE)
  /\ doubtful' = IF i = "registry" THEN doubtful \cup {i} ELSE doubtful

(* What is told when an index cannot be opened; of the KiCad index nothing *)
(* is while the worker starts.                                             *)
OpenFailed(i) == IF i = "kicad" /\ job = None THEN <<>> ELSE Tells(i, TRUE, FALSE, FALSE)

Start ==
  /\ worker = "start"
  /\ IF boot = <<>>
     THEN worker' = "idle" /\ UNCHANGED <<clients, seen, boot, updates, news, doubtful, events>>
     ELSE LET i == Head(boot)
          IN  \/ /\ index[i] = 0
                 /\ BeginFetch(i)
                 /\ UNCHANGED <<boot, clients, seen, updates, events>>
              \/ /\ index[i] # 0
                 /\ clients' = [clients EXCEPT ![i] = index[i]]
                 /\ seen' = [seen EXCEPT ![i] = index[i]]
                 /\ updates' = updates \cup {Thread(i, FALSE)}
                 /\ boot' = Tail(boot)
                 /\ UNCHANGED <<worker, news, doubtful, events>>
              \/ /\ index[i] # 0 /\ Event
                 /\ news' = news \o OpenFailed(i)
                 /\ doubtful' = doubtful \cup {i}
                 /\ boot' = Tail(boot)
                 /\ UNCHANGED <<worker, clients, seen, updates>>
  /\ UNCHANGED <<ui, query, answer, request, responses, job, stamp, holder, strays, index>>

Take ==
  /\ worker = "idle" /\ query # None
  /\ query' = None
  /\ IF IsLocal(query.mode)
     THEN worker' = "open" /\ job' = query /\ stamp' = index[IndexOf[query.mode]]
     ELSE UNCHANGED <<worker, job, stamp>>
  /\ UNCHANGED <<ui, answer, news, request, responses, boot, clients, seen, threads, files, events>>

(* kicad_ready: the KiCad index was opened once.                           *)
Ready(i) == i # "kicad" \/ clients[i] # 0

IgnoreMtime_Slip(i) == clients[i] = 0 /\ stamp # 0
(* The modification time was read before the file is opened, so a file     *)
(* that is replaced in between is opened again for the next query.         *)
MustReopen(i) == stamp # seen[i] /\ stamp # 0

(* When it cannot be opened again the old connection stays.                *)
OpenIndex ==
  /\ worker = "open" /\ Ready(Current)
  /\ stamp' = 0
  /\ LET i == Current
     IN  \E failed \in BOOLEAN :
           LET reopened == MustReopen(i) /\ ~failed
           IN  /\ IF failed THEN MustReopen(i) /\ Event ELSE UNCHANGED events
               /\ clients' = [clients EXCEPT ![i] = IF reopened THEN index[i] ELSE @]
               /\ seen' = [seen EXCEPT ![i] = IF reopened THEN stamp ELSE @]
               /\ updates' = IF job.force THEN updates \cup {Thread(i, TRUE)} ELSE updates
               /\ IF clients'[i] = 0 THEN BeginFetch(i)
                  ELSE /\ worker' = "search"
                       /\ doubtful' = IF failed THEN doubtful \cup {i} ELSE doubtful
                       /\ UNCHANGED news
  /\ UNCHANGED <<ui, query, answer, request, responses, job, boot, holder, strays, index>>

(* The KiCad index is opened for the first time.                           *)
OpenKicad ==
  /\ worker = "open" /\ ~Ready(Current)
  /\ stamp' = 0
  /\ LET i == Current
     IN  \/ /\ index[i] = 0
            /\ BeginFetch(i)
            /\ UNCHANGED <<clients, boot, job>>
         \/ /\ index[i] # 0
            /\ clients' = [clients EXCEPT ![i] = index[i]]
            /\ worker' = "stat"
            /\ UNCHANGED <<boot, job, news, doubtful>>
         \/ /\ index[i] # 0
            /\ news' = news \o OpenFailed(i)
            /\ doubtful' = doubtful \cup {i}
            /\ GivesUp
            /\ UNCHANGED clients
  /\ UNCHANGED <<ui, query, answer, request, responses, seen, threads, index, events>>

Reported(i, ok) == Tells(i, TRUE, ok, FALSE)

(* The worker downloads an index itself, without index_update_lock; the    *)
(* files of registries that are there may stay.  Then it opens the index.  *)
Fetch ==
  /\ worker = "fetch"
  /\ LET i == Current
     IN  \E v \in ({index[i]} \ {0}) \cup {index[i] + 1} :
           /\ index' = [index EXCEPT ![i] = v]
           /\ \/ /\ clients' = [clients EXCEPT ![i] = v]
                 /\ news' = news \o Reported(i, TRUE)
                 /\ worker' = "stat"
                 /\ UNCHANGED <<boot, job, doubtful, events>>
              \/ /\ Event
                 /\ news' = news \o Reported(i, TRUE) \o OpenFailed(i)
                 /\ doubtful' = doubtful \cup {i}
                 /\ GivesUp
                 /\ UNCHANGED clients
  /\ UNCHANGED <<ui, query, answer, request, responses, stamp, seen, threads>>

(* The first file of a registry that fails ends it; the other downloads go *)
(* on.  Of the KiCad index most failures are told, but some are not: that  *)
(* of the client, of the directory, of the writing, and a missing token,   *)
(* which is noticed when the file is in place.                             *)
FetchFails ==
  /\ worker = "fetch" /\ Event
  /\ LET i == Current
     IN  \/ /\ \E v \in {index[i], IF index[i] = 0 THEN 0 ELSE index[i] + 1} :
                 index' = [index EXCEPT ![i] = v]
            /\ i = "kicad" => UNCHANGED index
            /\ \E others \in 0..(Files[i] - 1) : strays' = strays + others
            /\ news' = news \o Reported(i, FALSE)
            /\ UNCHANGED doubtful
         \/ /\ i = "kicad"
            /\ \E v \in {0, 1} : index' = [index EXCEPT ![i] = v]
            /\ doubtful' = doubtful \cup {i}
            /\ UNCHANGED <<strays, news>>
  /\ GivesUp
  /\ UNCHANGED <<ui, query, answer, request, responses, stamp, clients, seen, updates, holder>>

Stat ==
  /\ worker = "stat"
  /\ seen' = [seen EXCEPT ![Current] = index[Current]]
  /\ updates' = updates \cup Checked(Current)
  /\ AfterOpening
  /\ UNCHANGED <<ui, query, answer, news, request, responses, job, stamp, clients, holder, strays,
                 files, events>>

Search ==
  /\ worker = "search" /\ worker' = "idle"
  /\ answer' = [is |-> "results", id |-> job.id, text |-> job.text, mode |-> job.mode,
                force |-> job.force, version |-> clients[Current]]
  /\ job' = None
  /\ UNCHANGED <<ui, query, news, request, responses, boot, stamp, clients, seen, threads, files,
                 events>>

-----------------------------------------------------------------------------
(* The update threads work one at a time under index_update_lock.  A check *)
(* that nobody asked for may find nothing to do, or no server.             *)
UpdateBegins(u) ==
  /\ holder = None /\ u \in updates
  /\ updates' = updates \ {u}
  /\ \/ /\ holder' = [u EXCEPT !.left = Files[u.of]]
        /\ news' = IF u.force \/ u.of = "kicad"
                   THEN news \o Tells(u.of, FALSE, FALSE, TRUE) ELSE news
     \/ ~u.force /\ UNCHANGED <<holder, news>>
  /\ UNCHANGED <<ui, query, answer, request, responses, searcher, strays, files, events>>

(* The version of an index counts the replacements of its files.           *)
Replaced(i, last) == IF index[i] = 0 /\ ~last THEN {0, 1} ELSE {index[i] + 1}

(* Bound: a check that nobody asked for finds one file that is newer.      *)
OneNewer(u) == u.force \/ ~u.changed

(* One download of an update ends; a registry file may be up to date, or   *)
(* its download may fail unnoticed, unless the update is forced.           *)
FileEnds ==
  /\ holder # None /\ holder.left # 0
  /\ \/ /\ OneNewer(holder)
        /\ \E v \in Replaced(holder.of, holder.left = 1) : index' = [index EXCEPT ![holder.of] = v]
        /\ holder' = [holder EXCEPT !.left = @ - 1, !.changed = TRUE]
     \/ /\ ~holder.force /\ holder.of = "registry"
        /\ holder' = [holder EXCEPT !.left = @ - 1]
        /\ UNCHANGED index
  /\ UNCHANGED <<ui, query, answer, news, request, responses, searcher, updates, strays, doubtful,
                 events>>

UpdateEnds ==
  /\ holder # None /\ holder.left = 0
  /\ holder' = None
  /\ news' = IF holder.changed THEN news \o Tells(holder.of, TRUE, TRUE, TRUE) ELSE news
  /\ UNCHANGED <<ui, query, answer, request, responses, searcher, updates, strays, files, events>>

(* The first file that fails ends the update: files replaced before or     *)
(* after are not told of.  (Of a registry the failure is told twice.)      *)
UpdateFails ==
  /\ holder # None /\ holder.left # 0 /\ Event
  /\ holder' = None
  /\ strays' = strays + (holder.left - 1)
  /\ news' = news \o Tells(holder.of, TRUE, FALSE, TRUE)
  /\ doubtful' = IF holder.changed \/ holder.left > 1 THEN doubtful \cup {holder.of} ELSE doubtful
  /\ UNCHANGED <<ui, query, answer, request, responses, searcher, updates, index>>

(* A download that its update has left behind ends, without the lock.      *)
StrayEnds ==
  /\ strays > 0 /\ strays' = strays - 1
  /\ \E v \in {index["registry"]} \cup Replaced("registry", FALSE) :
       index' = [index EXCEPT !["registry"] = v]
  /\ UNCHANGED <<ui, query, answer, news, request, responses, searcher, updates, holder, doubtful,
                 events>>

-----------------------------------------------------------------------------
SearchInit ==
  /\ phase = "new" /\ mode = Modes[1] /\ text = Empty /\ touched = "no"
  /\ lastQuery = Empty /\ counter = 0 /\ download = "done"
  /\ results = None /\ answered = 0 /\ selected = 0
  /\ pendingDetail = None /\ detail = None
  /\ query = None /\ answer = None /\ news = <<>> /\ request = None /\ responses = {}
  /\ worker = "start" /\ job = None /\ boot = Startup /\ stamp = 0
  /\ clients = [i \in Indexes |-> 0] /\ seen = [i \in Indexes |-> 0]
  /\ updates = {} /\ holder = None /\ strays = 0
  /\ \E there \in Starts : index = [i \in Indexes |-> IF i \in there THEN 1 ELSE 0]
  /\ doubtful = {} /\ events = 0

User == (\E t \in Texts : Type(t)) \/ (\E at \in Places : Select(at)) \/ CycleMode \/ ForceUpdate
Interface == New \/ Send \/ SendLater \/ PollNews \/ Poll
SearchWorker == Start \/ Take \/ OpenIndex \/ OpenKicad \/ Fetch \/ FetchFails \/ Stat \/ Search
UpdateThreads ==
  (\E u \in updates : UpdateBegins(u)) \/ FileEnds \/ UpdateEnds \/ UpdateFails \/ StrayEnds

SearchNext == User \/ Interface \/ Detail \/ SearchWorker \/ UpdateThreads

(* The interface redraws for ever; the operating system runs the threads.  *)
SearchSpec ==
  /\ SearchInit /\ [][SearchNext]_searchVars
  /\ WF_searchVars(Interface) /\ WF_searchVars(Detail)
  /\ WF_searchVars(SearchWorker) /\ WF_searchVars(UpdateThreads)

-----------------------------------------------------------------------------
Settled ==
  /\ query = None /\ answer = None /\ news = <<>> /\ worker = "idle"
  /\ updates = {} /\ holder = None
  /\ IsLocal(mode) /\ text # Empty /\ download = "done" /\ ~MaySend

(* Answers are matched by their numbers alone (poll_results): hits that    *)
(* appear while the text on the screen has been sent are hits for that     *)
(* text in the mode on the screen, however many changes of text and mode   *)
(* are on their way.  A forced update is no new text, so its answer may be *)
(* one for an earlier text; and so may be what appears at an empty input.  *)
HitsFitTheScreen ==
  [][LET r == results'
     IN  r # results /\ HasItems(r) /\ ~r.force /\ IsLocal(mode) /\ text # Empty /\ text = lastQuery
           => r.mode = mode /\ r.text = text]_searchVars

(* Hits that stay come from the index as it is now, although its files are *)
(* replaced one by one under the open connection (registry_index_mtimes,   *)
(* the update branch of poll_download).  Excepted is an index one of whose *)
(* updates has failed half-way, since then files are replaced untold and   *)
(* nothing queries again; one that could not be opened; and a registry     *)
(* whose first opening may race a forced update.                           *)
ResultsAreCurrent ==
  Settled /\ HasItems(results) /\ IndexOf[mode] \notin doubtful =>
    results.version = index[IndexOf[mode]]

(* When no detail is awaited, what is shown is the item under the cursor   *)
(* and nothing if there is none: responses of items scrolled over or of    *)
(* results replaced meanwhile are not shown (poll_detail_responses).       *)
DetailsFollowSelection ==
  IsLocal(mode) /\ pendingDetail = None =>
    detail = IF HasItems(results) THEN ItemKey(mode, results, selected) ELSE None

(* The last query is answered in the end, however many were skipped and    *)
(* whatever is downloaded meanwhile, unless a failed download is on the    *)
(* screen or there is no index: the worker drops queries, the interface    *)
(* drops answers, and nothing is sent during a download.  Excepted are     *)
(* runs with a doubtful KiCad index: after its download has failed untold  *)
(* the interface waits for the end of it and sends nothing more.           *)
LastQueryAnswered ==
  <>[](IsLocal(mode) /\ text # Empty /\ download # "failed" /\ index[IndexOf[mode]] # 0
       /\ "kicad" \notin doubtful => answered = counter)
=============================================================================

----------------------------- MODULE PackageCache -----------------------------
(***************************************************************************)
(* The package cache ~/.pcb/cache shared by all pcb processes of a user:   *)
(* ensure_package_manifest_in_cache and populate_cache in crates/pcb-zen/  *)
(* src/resolve.rs, ensure_source_repo in cache_index.rs.  An entry is one  *)
(* {url}/{version} directory; it counts as complete when its marker file   *)
(* pcb.toml exists.                                                        *)
(***************************************************************************)
EXTENDS Naturals

CONSTANTS
  Procs,       \* pcb processes
  Entries,     \* package versions, all of one source repository
  Files,       \* number of files in the archive of an entry
  Marker,      \* position of pcb.toml in the order git archive writes them
  MaxCalls,    \* bound: calls per process
  MaxCrashes,  \* bound: crashes per behaviour
  MayFail      \* whether git or the unpacking may fail

ASSUME PackageCacheAssumption ==
  /\ Procs # {} /\ Entries # {} /\ "nobody" \notin Procs
  /\ Files \in Nat /\ Marker \in 1..Files
  /\ MaxCalls \in Nat /\ MaxCrashes \in Nat /\ MayFail \in BOOLEAN

Nobody == "nobody"

VARIABLES
  unpacked,  \* files of an entry that exist; 0 also when it has no directory
  indexed,   \* row of the index: files the recorded hash covers, 0 for no row
  tagged,    \* entries whose tag annotation carries hashes
  locked,    \* holder of <entry>.lock
  srcLocked, \* holder of <source repository>.lock
  pc, entry, hashed,  \* per process: position, entry it wants, files it hashed
  fetched,   \* processes that have fetched the source repository
  calls,     \* calls of a process
  crashes    \* crashes so far

cacheVars ==
  <<unpacked, indexed, tagged, locked, srcLocked, pc, entry, hashed, fetched, calls, crashes>>
shared == <<unpacked, indexed, tagged, locked, srcLocked>>

Fetching == {"double", "clean", "source", "waitsrc", "fetch", "unpack"}
Busy == {"probe", "check", "fast", "wait", "hash", "verify", "record"} \cup Fetching

CacheTypeOK ==
  /\ unpacked \in [Entries -> 0..Files]
  /\ indexed \in [Entries -> 0..Files]
  /\ tagged \subseteq Entries
  /\ locked \in [Entries -> Procs \cup {Nobody}]
  /\ srcLocked \in Procs \cup {Nobody}
  /\ pc \in [Procs -> Busy \cup {"idle", "ok", "failed"}]
  /\ entry \in [Procs -> Entries]
  /\ hashed \in [Procs -> 0..Files]
  /\ fetched \subseteq Procs
  /\ calls \in [Procs -> 0..MaxCalls]
  /\ crashes \in 0..MaxCrashes

CacheInit ==
  /\ unpacked = [e \in Entries |-> 0]
  /\ indexed = [e \in Entries |-> 0]
  /\ tagged \in SUBSET Entries
  /\ locked = [e \in Entries |-> Nobody]
  /\ srcLocked = Nobody
  /\ pc = [p \in Procs |-> "idle"]
  /\ entry \in [Procs -> Entries]
  /\ hashed = [p \in Procs |-> 0]
  /\ fetched = {}
  /\ calls = [p \in Procs |-> 0]
  /\ crashes = 0

HasMarker(e) == unpacked[e] >= Marker
Complete(e) == unpacked[e] = Files

Goto(p, label) == pc' = [pc EXCEPT ![p] = label]
Own == <<entry, calls, crashes>>

(* ensure_remote_package_materialized probes for the marker first; the     *)
(* manifest loader goes straight to ensure_package_manifest_in_cache.      *)
Call(p, e) ==
  /\ pc[p] \notin Busy
  /\ calls[p] < MaxCalls
  /\ pc' \in {[pc EXCEPT ![p] = l] : l \in {"probe", "check"}}
  /\ entry' = [entry EXCEPT ![p] = e]
  /\ calls' = [calls EXCEPT ![p] = @ + 1]
  /\ UNCHANGED <<shared, hashed, fetched, crashes>>

Probe(p) ==
  /\ pc[p] = "probe"
  /\ Goto(p, IF HasMarker(entry[p]) THEN "ok" ELSE "check")
  /\ UNCHANGED <<shared, hashed, fetched, Own>>

CheckIndex(p) ==
  /\ pc[p] = "check"
  /\ Goto(p, IF indexed[entry[p]] # 0 /\ HasMarker(entry[p]) THEN "ok" ELSE "fast")
  /\ UNCHANGED <<shared, hashed, fetched, Own>>

(* populate_cache: "Fast path: already complete". *)
FastPath(p) ==
  /\ pc[p] = "fast"
  /\ Goto(p, IF HasMarker(entry[p]) THEN "hash" ELSE "wait")
  /\ UNCHANGED <<shared, hashed, fetched, Own>>

Lock(p) ==
  /\ pc[p] = "wait"
  /\ locked[entry[p]] = Nobody
  /\ locked' = [locked EXCEPT ![entry[p]] = p]
  /\ Goto(p, "double")
  /\ UNCHANGED <<unpacked, indexed, tagged, srcLocked, hashed, fetched, Own>>

LeakLock_Slip(p) == locked
Released(p) == [e \in Entries |-> IF locked[e] = p THEN Nobody ELSE locked[e]]

NoDoubleCheck_Slip(p) == FALSE
AlreadyThere(p) == HasMarker(entry[p])

(* "Double-check after acquiring lock". *)
DoubleCheck(p) ==
  /\ pc[p] = "double"
  /\ IF AlreadyThere(p)
     THEN Goto(p, "hash") /\ locked' = Released(p)
     ELSE Goto(p, "clean") /\ UNCHANGED locked
  /\ UNCHANGED <<unpacked, indexed, tagged, srcLocked, hashed, fetched, Own>>

(* "Clean up any incomplete cache before fetching". *)
Clean(p) ==
  /\ pc[p] = "clean"
  /\ unpacked' = [unpacked EXCEPT ![entry[p]] = 0]
  /\ Goto(p, "source")
  /\ UNCHANGED <<indexed, tagged, locked, srcLocked, hashed, fetched, Own>>

(* ensure_source_repo: once per process, under a second lock. *)
Source(p) ==
  /\ pc[p] = "source"
  /\ Goto(p, IF p \in fetched THEN "unpack" ELSE "waitsrc")
  /\ UNCHANGED <<shared, hashed, fetched, Own>>

LockSource(p) ==
  /\ pc[p] = "waitsrc"
  /\ srcLocked = Nobody
  /\ srcLocked' = p
  /\ Goto(p, "fetch")
  /\ UNCHANGED <<unpacked, indexed, tagged, locked, hashed, fetched, Own>>

(* git clone or git fetch, or the fetch of a pinned commit. *)
Fetch(p) ==
  /\ pc[p] = "fetch"
  /\ srcLocked' = Nobody
  /\ fetched' = fetched \cup {p}
  /\ Goto(p, "unpack")
  /\ UNCHANGED <<unpacked, indexed, tagged, locked, hashed, Own>>

(* archive_to_dir unpacks the archive in place, file by file. *)
Unpack(p) ==
  /\ pc[p] = "unpack"
  /\ unpacked[entry[p]] < Files
  /\ unpacked' = [unpacked EXCEPT ![entry[p]] = @ + 1]
  /\ UNCHANGED <<indexed, tagged, locked, srcLocked, pc, hashed, fetched, Own>>

Unpacked(p) ==
  /\ pc[p] = "unpack"
  /\ Complete(entry[p])
  /\ locked' = Released(p)
  /\ Goto(p, "hash")
  /\ UNCHANGED <<unpacked, indexed, tagged, srcLocked, hashed, fetched, Own>>

(* git or the unpacking fails: the error returns through populate_cache.   *)
FetchFails(p) ==
  /\ MayFail
  /\ pc[p] \in {"fetch", "unpack"}
  /\ locked' = Released(p)
  /\ srcLocked' = IF srcLocked = p THEN Nobody ELSE srcLocked
  /\ Goto(p, "failed")
  /\ UNCHANGED <<unpacked, indexed, tagged, hashed, fetched, Own>>

(* compute_content_hash_from_dir reads whatever is there now. *)
Hash(p) ==
  /\ pc[p] = "hash"
  /\ hashed' = [hashed EXCEPT ![p] = unpacked[entry[p]]]
  /\ Goto(p, "verify")
  /\ UNCHANGED <<shared, fetched, Own>>

(* verify_tag_hashes: tags without hashes, and commits, are accepted. *)
Unverified_Slip(p) == TRUE
HashesMatch(p) == entry[p] \in tagged => hashed[p] = Files

Verify(p) ==
  /\ pc[p] = "verify"
  /\ Goto(p, IF HashesMatch(p) THEN "record" ELSE "failed")
  /\ UNCHANGED <<shared, hashed, fetched, Own>>

RecordedHash(p) == hashed[p]

(* CacheIndex::set_package *)
Record(p) ==
  /\ pc[p] = "record"
  /\ indexed' = [indexed EXCEPT ![entry[p]] = RecordedHash(p)]
  /\ Goto(p, "ok")
  /\ UNCHANGED <<unpacked, tagged, locked, srcLocked, hashed, fetched, Own>>

(* A process dies: the OS releases its locks, its files stay. *)
Crash(p) ==
  /\ pc[p] \in Busy
  /\ crashes < MaxCrashes
  /\ crashes' = crashes + 1
  /\ locked' = Released(p)
  /\ srcLocked' = IF srcLocked = p THEN Nobody ELSE srcLocked
  /\ fetched' = fetched \ {p}
  /\ Goto(p, "idle")
  /\ UNCHANGED <<unpacked, indexed, tagged, entry, hashed, calls>>

CacheStep(p) ==
  \/ Probe(p) \/ CheckIndex(p) \/ FastPath(p) \/ Lock(p) \/ DoubleCheck(p) \/ Clean(p)
  \/ Source(p) \/ LockSource(p) \/ Fetch(p) \/ Unpack(p) \/ Unpacked(p) \/ FetchFails(p)
  \/ Hash(p) \/ Verify(p) \/ Record(p)

CacheNext == \E p \in Procs : (\E e \in Entries : Call(p, e)) \/ CacheStep(p) \/ Crash(p)

(* The OS schedules every process; a process that waits for a lock is      *)
(* woken when it is free.                                                  *)
CacheSpec == CacheInit /\ [][CacheNext]_cacheVars /\ \A p \in Procs : WF_cacheVars(CacheStep(p))
-----------------------------------------------------------------------------
(* What is unpacked under a marker is never taken away again, so a reader  *)
(* that found the marker keeps finding its files ("immutable cache entry").*)
MarkedIsKept ==
  [][\A e \in Entries : HasMarker(e) => unpacked'[e] >= unpacked[e]]_cacheVars

(* When tags carry hashes, an interrupted or unfinished entry is never     *)
(* recorded in the index: an indexed entry is complete, and stays so.      *)
IndexedIsComplete ==
  \A e \in tagged : indexed[e] # 0 => indexed[e] = Files /\ Complete(e)

(* Every call returns although the two locks nest and processes crash      *)
(* while they hold them.                                                   *)
CallReturns == \A p \in Procs : (pc[p] \in Busy) ~> (pc[p] \notin Busy)

(* The inductive strengthening: a lock is held exactly by the process that *)
(* is between acquiring and releasing it, and only that process changes    *)
(* the entry, after it saw no marker.                                      *)
HoldersMatch ==
  /\ \A p \in Procs : pc[p] \in Fetching => locked[entry[p]] = p
  /\ \A e \in Entries : locked[e] # Nobody => entry[locked[e]] = e /\ pc[locked[e]] \in Fetching

CleanSawNoMarker == \A p \in Procs : pc[p] = "clean" => ~HasMarker(entry[p])

HashedIsThere ==
  \A p \in Procs :
    /\ pc[p] \in {"hash", "verify", "record"} => HasMarker(entry[p])
    /\ pc[p] \in {"verify", "record"} => Marker <= hashed[p] /\ hashed[p] <= unpacked[entry[p]]
    /\ pc[p] = "record" /\ entry[p] \in tagged => hashed[p] = Files

Inv == HoldersMatch /\ CleanSawNoMarker /\ HashedIsThere
=============================================================================

---------------------------- MODULE PreviewReload ----------------------------
(***************************************************************************)
(* Live reload in preview mode (internal/preview/watch.go): a goroutine    *)
(* turns fsnotify events into a debounced reload, which swaps a newly      *)
(* loaded set of manifests into the SwappableReader the HTTP server reads, *)
(* and then drops the cached basic-auth entries                            *)
(* (internal/dashboard/auth.go), which requests fill again.                *)
(*                                                                         *)
(* time.AfterFunc runs each reload in a goroutine of its own and           *)
(* Timer.Stop does not wait for one already running, so a reload slower    *)
(* than the debounce interval overlaps the next one.                       *)
(*                                                                         *)
(* Recursive is set, a directory is never removed, and adding a watch does *)
(* not fail.                                                               *)
(***************************************************************************)
EXTENDS Naturals, Sequences, FiniteSets

CONSTANTS
  Dirs,       \* directories that may exist
  Root,       \* the one given with -f
  Parent,     \* Parent[d], for every other directory
  SlowLoads,  \* may a reload take longer than the debounce interval?
  DeepTrees,  \* may a directory get subdirectories before the watcher knows of it?
  Clients,    \* HTTP requests that read the htpasswd Secret concurrently
  MaxEdits    \* bound on what users do to the files

\* The manifest in a directory: its version, and whether it parses and selects
\* a Dashboard.  Version 0 is what was there at first.
Manifest == [version : 0 .. MaxEdits, ok : BOOLEAN]
NoManifest == [version |-> 0, ok |-> TRUE]
Snapshot == [Dirs -> Manifest]

ASSUME PreviewAssumption ==
  /\ Root \in Dirs
  /\ IsFiniteSet(Dirs)
  /\ Parent \in [Dirs \ {Root} -> Dirs]
  /\ SlowLoads \in BOOLEAN
  /\ DeepTrees \in BOOLEAN
  /\ MaxEdits \in Nat

VARIABLES
  exists,    \* directories on disk
  files,     \* the manifest in each directory
  watched,   \* directories registered with fsnotify
  events,    \* watcher.Events
  timer,     \* is the debounce timer armed?
  reloads,   \* reload calls under way
  loaded,    \* has the first Load been done?
  reader,    \* what the SwappableReader serves
  lookup,    \* lookup[c]: {} or the snapshot whose Secret c read and will cache
  authCache, \* {} or the snapshot whose htpasswd entries are cached
  edits,
  \* History, never read by the code:
  missed     \* what is on disk changed before it was watched, and no reload came since

disk  == <<exists, files, edits>>
auth  == <<lookup, authCache>>
watch == <<watched, events, timer>>
vars  == <<exists, files, watched, events, timer, reloads, loaded, reader, lookup,
           authCache, edits, missed>>

Started == watched # {}

Loadable(s) == \A d \in Dirs : s[d].ok

-----------------------------------------------------------------------------
(* The file system. *)

Notify(dir, op, d) ==
  events' = IF dir \in watched THEN Append(events, [op |-> op, dir |-> d]) ELSE events

\* A manifest is written, replaced or broken; an editor may touch it as well.
Save(d, ok) ==
  /\ edits < MaxEdits
  /\ d \in exists
  /\ files' = [files EXCEPT ![d] = [version |-> edits + 1, ok |-> ok]]
  /\ edits' = edits + 1
  /\ Notify(d, "write", d)
  /\ UNCHANGED <<exists, watched, timer, reloads, reader, auth, loaded, missed>>

Touch(d) ==
  /\ edits < MaxEdits
  /\ d \in exists
  /\ edits' = edits + 1
  /\ Notify(d, "chmod", d)
  /\ UNCHANGED <<exists, files, watched, timer, reloads, reader, auth, loaded, missed>>

MakeDir(d) ==
  /\ edits < MaxEdits
  /\ d \notin exists /\ Parent[d] \in exists
  /\ DeepTrees \/ ~Started \/ Parent[d] \in watched
  /\ exists' = exists \cup {d}
  /\ edits' = edits + 1
  /\ Notify(Parent[d], "mkdir", d)
  /\ UNCHANGED <<files, watched, timer, reloads, reader, auth, loaded, missed>>

-----------------------------------------------------------------------------
(* runPreview, Watch and runWatchLoop. *)

\* The first Load, without which the program ends.
FirstLoad ==
  /\ ~loaded /\ Loadable(files)
  /\ loaded' = TRUE
  /\ reader' = files
  /\ UNCHANGED <<disk, watch, reloads, auth, missed>>

\* Mutant: the directories below the one given are not registered.
StartFlat ==
  /\ loaded /\ ~Started
  /\ watched' = {Root}
  /\ missed' = (reader # files)
  /\ UNCHANGED <<disk, events, timer, reloads, loaded, reader, auth>>

\* watchDirs, and the start of runWatchLoop: what changed since the first Load
\* has fired no event.
StartWatch ==
  /\ loaded /\ ~Started
  /\ watched' = exists
  /\ missed' = (reader # files)
  /\ UNCHANGED <<disk, events, timer, reloads, loaded, reader, auth>>

\* A new directory is watched and reloaded; a write re-arms the timer; a chmod
\* is ignored.
HandleEvent ==
  /\ events # <<>>
  /\ LET e == Head(events) IN
       /\ watched' = IF e.op = "mkdir" THEN watched \cup {e.dir} ELSE watched
       /\ timer' = (timer \/ e.op # "chmod")
  /\ events' = Tail(events)
  /\ UNCHANGED <<disk, reloads, reader, auth, loaded, missed>>

\* The timer starts a reload in a new goroutine.
TimerFires ==
  /\ timer
  /\ SlowLoads \/ reloads = {}
  /\ timer' = FALSE
  /\ \E id \in 0 .. MaxEdits :
       /\ \A r \in reloads : r.id # id
       /\ \A i \in 0 .. MaxEdits : i < id => \E r \in reloads : r.id = i
       /\ reloads' = reloads \cup {[id |-> id, at |-> "load", snap |-> files]}
  /\ UNCHANGED <<disk, watched, events, reader, auth, loaded, missed>>

\* Mutant: a load that failed is swapped in all the same.
LoadUnchecked(r) ==
  /\ r.at = "load"
  /\ reloads' = (reloads \ {r}) \cup {[r EXCEPT !.at = "store", !.snap = files]}
  /\ UNCHANGED <<disk, watch, reader, auth, loaded, missed>>

\* Load(cfg) reads every file; an error ends the reload and keeps the reader.
Load(r) ==
  /\ r.at = "load"
  /\ reloads' = (reloads \ {r}) \cup
       (IF Loadable(files) THEN {[r EXCEPT !.at = "store", !.snap = files]} ELSE {})
  /\ UNCHANGED <<disk, watch, reader, auth, loaded, missed>>

\* reader.Store(result.Reader).
StoreReader(r) ==
  /\ r.at = "store"
  /\ reader' = r.snap
  /\ missed' = FALSE
  /\ reloads' = (reloads \ {r}) \cup {[r EXCEPT !.at = "invalidate"]}
  /\ UNCHANGED <<disk, watch, auth, loaded>>

\* InvalidateAuthCache.
Invalidate(r) ==
  /\ r.at = "invalidate"
  /\ authCache' = {}
  /\ reloads' = reloads \ {r}
  /\ UNCHANGED <<disk, watch, reader, lookup, loaded, missed>>

-----------------------------------------------------------------------------
(* loadBasicAuth. *)

\* No entry that is still valid is cached: the Secret is read ...
ReadSecret(c) ==
  /\ Started
  /\ lookup[c] = {} /\ authCache = {}
  /\ lookup' = [lookup EXCEPT ![c] = {reader}]
  /\ UNCHANGED <<disk, watch, reloads, reader, authCache, loaded, missed>>

\* ... and cached, over whatever happened while the lock was not held.
CacheSecret(c) ==
  /\ lookup[c] # {}
  /\ authCache' = lookup[c]
  /\ lookup' = [lookup EXCEPT ![c] = {}]
  /\ UNCHANGED <<disk, watch, reloads, reader, loaded, missed>>

\* Mutant: an entry only expires while somebody is about to renew it.
NeverExpire ==
  /\ authCache # {} /\ \E c \in Clients : lookup[c] # {}
  /\ authCache' = {}
  /\ UNCHANGED <<disk, watch, reloads, reader, lookup, loaded, missed>>

\* basicAuthCacheTTL passes.
Expire ==
  /\ authCache # {}
  /\ authCache' = {}
  /\ UNCHANGED <<disk, watch, reloads, reader, lookup, loaded, missed>>

-----------------------------------------------------------------------------
Init ==
  /\ exists = {Root}
  /\ files = [d \in Dirs |-> NoManifest]
  /\ watched = {}
  /\ events = <<>>
  /\ timer = FALSE
  /\ reloads = {}
  /\ loaded = FALSE /\ missed = FALSE
  /\ reader = files
  /\ lookup = [c \in Clients |-> {}]
  /\ authCache = {}
  /\ edits = 0

WatchLoop == HandleEvent \/ TimerFires
Reload(r) == Load(r) \/ StoreReader(r) \/ Invalidate(r)
Requests == Expire \/ \E c \in Clients : ReadSecret(c) \/ CacheSecret(c)

Next ==
  \/ \E d \in Dirs, ok \in BOOLEAN : Save(d, ok)
  \/ \E d \in Dirs : Touch(d)
  \/ \E d \in Dirs \ {Root} : MakeDir(d)
  \/ FirstLoad \/ StartWatch
  \/ WatchLoop
  \/ \E r \in reloads : Reload(r)
  \/ Requests

Spec == Init /\ [][Next]_vars

\* The program starts, the watch loop runs, a started reload comes to its end, a request caches
\* what it read and an entry expires.  Nobody has to edit or to send requests.
Fairness ==
  /\ WF_vars(FirstLoad) /\ WF_vars(StartWatch)
  /\ WF_vars(WatchLoop)
  /\ WF_vars(\E r \in reloads : Reload(r))
  /\ \A c \in Clients : WF_vars(CacheSecret(c))
  /\ WF_vars(Expire)

FairSpec == Spec /\ Fairness

-----------------------------------------------------------------------------
(* Properties. *)

TypeOK ==
  /\ exists \subseteq Dirs /\ watched \subseteq Dirs
  /\ files \in Snapshot /\ reader \in Snapshot
  /\ events \in Seq([op : {"write", "chmod", "mkdir"}, dir : Dirs])
  /\ timer \in BOOLEAN
  /\ reloads \subseteq [id : 0 .. MaxEdits, at : {"load", "store", "invalidate"}, snap : Snapshot]
  /\ lookup \in [Clients -> SUBSET Snapshot]
  /\ authCache \subseteq Snapshot /\ Cardinality(authCache) <= 1
  /\ edits \in 0 .. MaxEdits
  /\ loaded \in BOOLEAN /\ missed \in BOOLEAN

\* Watch's promise for a reload that fails: a set of manifests that does not
\* load is never served, also when the file is broken while a reload runs.
\* (The state being well typed is checked along with it.)
ServesLastGood == TypeOK /\ Loadable(reader)

\* Watch's promise: once the manifests are left in a good state the reader comes
\* to serve what is on disk, and goes on to.  No change may be missed and no older
\* load may overwrite a newer one.  Only what was saved between runPreview's Load
\* and its Watch is not shown, and that until the next change reloads it all.
Settles == <>[](Loadable(files) /\ ~missed => reader = files)

\* Credentials from before an edit are not enforced for ever: once the manifests
\* stay as they are the cache holds what is on disk or nothing, also when a
\* slow request cached the old Secret after the reload's invalidation.
AuthSettles == <>[](Loadable(files) /\ ~missed => authCache \subseteq {files})
=============================================================================

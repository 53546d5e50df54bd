------------------------ MODULE PreviewReloadProofs ------------------------
(***************************************************************************)
(* Preview's live reload never serves manifests that do not load: for any  *)
(* tree of directories, any number of edits and concurrent requests, and   *)
(* also when slow reloads overlap (SlowLoads) or directories appear faster *)
(* than they are watched (DeepTrees).                                      *)
(*                                                                         *)
(* The invariant follows a snapshot from Load to the reader: a reload that *)
(* is about to store has a snapshot that loaded, whatever happens to the   *)
(* files afterwards.                                                       *)
(***************************************************************************)
EXTENDS PreviewReload, FiniteSetTheorems, TLAPS

\* At most one snapshot: what a request has read, or what is cached.
AtMostOne(S) == S = {} \/ \E s : S = {s}

ReloadInv ==
  /\ ServesLastGood
  /\ \A r \in reloads : r.at = "store" => Loadable(r.snap)
  /\ AtMostOne(authCache)
  /\ \A c \in Clients : AtMostOne(lookup[c])

LEMMA SmallSets == ASSUME NEW S, AtMostOne(S) PROVE Cardinality(S) <= 1
<1>1. CASE S = {}
  BY <1>1, FS_EmptySet
<1>2. ASSUME NEW s, S = {s} PROVE Cardinality(S) <= 1
  BY <1>2, FS_Singleton
<1> QED  BY <1>1, <1>2 DEF AtMostOne

LEMMA InitReload == Init => ReloadInv
<1> SUFFICES ASSUME Init PROVE ReloadInv  OBVIOUS
<1>1. files \in Snapshot /\ Loadable(files)
  BY PreviewAssumption DEF Init, Snapshot, Manifest, NoManifest, Loadable
<1>2. Cardinality(authCache) <= 1
  BY FS_EmptySet DEF Init
<1>3. \A S : <<>> \in Seq(S)
  OBVIOUS
<1>4. events \in Seq([op : {"write", "chmod", "mkdir"}, dir : Dirs])
  BY <1>3 DEF Init
<1>5. lookup \in [Clients -> SUBSET Snapshot]
  BY DEF Init
<1>6. exists \subseteq Dirs /\ edits \in 0 .. MaxEdits
  BY PreviewAssumption DEF Init
<1>7. TypeOK
  BY <1>1, <1>2, <1>4, <1>5, <1>6 DEF Init, TypeOK
<1> QED  BY <1>1, <1>7 DEF Init, ReloadInv, ServesLastGood, AtMostOne

\* A file event, if the directory is watched, is well formed.
LEMMA NotifyTypes ==
  ASSUME TypeOK, NEW dir, NEW op \in {"write", "chmod", "mkdir"}, NEW d \in Dirs,
         Notify(dir, op, d)
  PROVE  events' \in Seq([op : {"write", "chmod", "mkdir"}, dir : Dirs])
<1> DEFINE Event == [op : {"write", "chmod", "mkdir"}, dir : Dirs]
<1>1. [op |-> op, dir |-> d] \in Event /\ events \in Seq(Event)
  BY DEF TypeOK
<1> HIDE DEF Event
<1>2. events' = events \/ events' = Append(events, [op |-> op, dir |-> d])
  BY DEF Notify
<1>3. events' \in Seq(Event)
  BY <1>1, <1>2
<1> QED  BY <1>3 DEF Event

LEMMA DiskReload ==
  ASSUME ReloadInv, NEW d \in Dirs,
         (\E ok \in BOOLEAN : Save(d, ok)) \/ Touch(d) \/ (d # Root /\ MakeDir(d))
  PROVE  ReloadInv'
<1>t. TypeOK
  BY DEF ReloadInv, ServesLastGood
<1>1. UNCHANGED <<watched, timer, reloads, loaded, reader, lookup, authCache, missed>>
  BY DEF Save, Touch, MakeDir, auth
<1>2. edits' \in 0 .. MaxEdits
  BY <1>t, PreviewAssumption DEF Save, Touch, MakeDir, TypeOK
<1>3. exists' \subseteq Dirs
  BY <1>t DEF Save, Touch, MakeDir, TypeOK
<1>4. files' \in Snapshot
  <2>1. CASE files' = files
    BY <1>t, <2>1 DEF TypeOK
  <2>2. ASSUME NEW ok \in BOOLEAN, Save(d, ok) PROVE files' \in Snapshot
    <3>1. [version |-> edits + 1, ok |-> ok] \in Manifest
      BY <1>t, <2>2, PreviewAssumption DEF Save, TypeOK, Manifest
    <3> QED  BY <1>t, <2>2, <3>1 DEF Save, TypeOK, Snapshot
  <2> QED  BY <2>1, <2>2 DEF Touch, MakeDir
<1>5. events' \in Seq([op : {"write", "chmod", "mkdir"}, dir : Dirs])
  BY <1>t, NotifyTypes DEF Save, Touch, MakeDir
<1>6. TypeOK'
  BY <1>t, <1>1, <1>2, <1>3, <1>4, <1>5 DEF TypeOK
<1> QED  BY <1>1, <1>6 DEF ReloadInv, ServesLastGood

\* The first Load, the watch and its loop.
LEMMA WatchReload ==
  ASSUME ReloadInv, FirstLoad \/ StartWatch \/ WatchLoop PROVE ReloadInv'
<1>t. TypeOK
  BY DEF ReloadInv, ServesLastGood
<1>1. CASE FirstLoad
  <2>1. TypeOK'
    BY <1>1, <1>t DEF FirstLoad, TypeOK, disk, watch, auth
  <2> QED  BY <1>1, <2>1 DEF FirstLoad, ReloadInv, ServesLastGood, disk, watch, auth
<1>2. CASE StartWatch
  <2>1. TypeOK'
    BY <1>2, <1>t DEF StartWatch, TypeOK, disk, auth
  <2> QED  BY <1>2, <2>1 DEF StartWatch, ReloadInv, ServesLastGood, disk, auth
<1>3. CASE HandleEvent
  <2>1. /\ Head(events) \in [op : {"write", "chmod", "mkdir"}, dir : Dirs]
        /\ Tail(events) \in Seq([op : {"write", "chmod", "mkdir"}, dir : Dirs])
    <3>1. \A S : \A q \in Seq(S) : q # <<>> => Head(q) \in S /\ Tail(q) \in Seq(S)
      OBVIOUS
    <3> QED  BY <1>3, <1>t, <3>1 DEF HandleEvent, TypeOK
  <2>2. timer' \in BOOLEAN /\ watched' \subseteq Dirs
    BY <1>3, <1>t, <2>1 DEF HandleEvent, TypeOK
  <2>3. TypeOK'
    BY <1>3, <1>t, <2>1, <2>2 DEF HandleEvent, TypeOK, disk, auth
  <2> QED  BY <1>3, <2>3 DEF HandleEvent, ReloadInv, ServesLastGood, disk, auth
<1>4. CASE TimerFires
  <2>1. PICK id \in 0 .. MaxEdits :
          reloads' = reloads \cup {[id |-> id, at |-> "load", snap |-> files]}
    BY <1>4 DEF TimerFires
  <2>2. [id |-> id, at |-> "load", snap |-> files]
          \in [id : 0 .. MaxEdits, at : {"load", "store", "invalidate"}, snap : Snapshot]
    BY <1>t DEF TypeOK
  <2>3. TypeOK'
    BY <1>4, <1>t, <2>1, <2>2 DEF TimerFires, TypeOK, disk, auth
  <2> QED  BY <1>4, <2>1, <2>3 DEF TimerFires, ReloadInv, ServesLastGood, disk, auth
<1> QED  BY <1>1, <1>2, <1>3, <1>4 DEF WatchLoop

\* A reload keeps the snapshot it has loaded until it has stored it.
LEMMA StepReload ==
  ASSUME ReloadInv, NEW r \in reloads, Reload(r) PROVE ReloadInv'
<1>t. /\ TypeOK
      /\ r \in [id : 0 .. MaxEdits, at : {"load", "store", "invalidate"}, snap : Snapshot]
  BY DEF ReloadInv, ServesLastGood, TypeOK
<1>1. CASE Load(r)
  <2> DEFINE n == [r EXCEPT !.at = "store", !.snap = files]
  <2>1. /\ n \in [id : 0 .. MaxEdits, at : {"load", "store", "invalidate"}, snap : Snapshot]
        /\ n.snap = files
    BY <1>t DEF TypeOK
  <2>2. reloads' \subseteq reloads \cup {n} /\ (n \in reloads' => n \in reloads \/ Loadable(files))
    BY <1>1 DEF Load
  <2> HIDE DEF n
  <2>3. TypeOK'
    BY <1>1, <1>t, <2>1, <2>2 DEF Load, TypeOK, disk, watch, auth
  <2> QED
    BY <1>1, <2>1, <2>2, <2>3 DEF Load, ReloadInv, ServesLastGood, disk, watch, auth
<1>2. CASE StoreReader(r)
  <2> DEFINE n == [r EXCEPT !.at = "invalidate"]
  <2>1. /\ n \in [id : 0 .. MaxEdits, at : {"load", "store", "invalidate"}, snap : Snapshot]
        /\ n.at = "invalidate"
    BY <1>t
  <2>2. reloads' = (reloads \ {r}) \cup {n}
    BY <1>2 DEF StoreReader
  <2> HIDE DEF n
  <2>3. TypeOK'
    BY <1>2, <1>t, <2>1, <2>2 DEF StoreReader, TypeOK, disk, watch, auth
  <2> QED
    BY <1>2, <2>1, <2>2, <2>3 DEF StoreReader, ReloadInv, ServesLastGood, disk, watch, auth
<1>3. CASE Invalidate(r)
  <2>1. TypeOK'
    BY <1>3, <1>t, FS_EmptySet DEF Invalidate, TypeOK, disk, watch
  <2> QED
    BY <1>3, <2>1 DEF Invalidate, ReloadInv, ServesLastGood, AtMostOne, disk, watch
<1> QED  BY <1>1, <1>2, <1>3 DEF Reload

\* Requests read and cache one snapshot's Secret at a time.
LEMMA RequestsReload == ASSUME ReloadInv, Requests PROVE ReloadInv'
<1>t. TypeOK
  BY DEF ReloadInv, ServesLastGood
<1>1. CASE Expire
  <2>1. TypeOK'
    BY <1>1, <1>t, FS_EmptySet DEF Expire, TypeOK, disk, watch
  <2> QED  BY <1>1, <2>1 DEF Expire, ReloadInv, ServesLastGood, AtMostOne, disk, watch
<1>2. ASSUME NEW c \in Clients, ReadSecret(c) PROVE ReloadInv'
  <2>1. TypeOK'
    BY <1>2, <1>t DEF ReadSecret, TypeOK, disk, watch
  <2>2. \A e \in Clients : AtMostOne(lookup'[e])
    BY <1>2, <1>t DEF ReadSecret, ReloadInv, TypeOK, AtMostOne
  <2> QED  BY <1>2, <2>1, <2>2 DEF ReadSecret, ReloadInv, ServesLastGood, disk, watch
<1>3. ASSUME NEW c \in Clients, CacheSecret(c) PROVE ReloadInv'
  <2>1. AtMostOne(authCache')
    BY <1>3 DEF CacheSecret, ReloadInv
  <2>2. Cardinality(authCache') <= 1
    BY <2>1, SmallSets
  <2>3. TypeOK'
    BY <1>3, <1>t, <2>2 DEF CacheSecret, TypeOK, disk, watch
  <2>4. \A e \in Clients : AtMostOne(lookup'[e])
    BY <1>3, <1>t DEF CacheSecret, ReloadInv, TypeOK, AtMostOne
  <2> QED  BY <1>3, <2>1, <2>3, <2>4 DEF CacheSecret, ReloadInv, ServesLastGood, disk, watch
<1> QED  BY <1>1, <1>2, <1>3 DEF Requests

\* Watch's promise for a reload that fails, for every tree, every number of
\* edits and overlapping reloads: what the SwappableReader serves has loaded.
THEOREM AlwaysServesLastGood == Spec => []ServesLastGood
<1>1. ReloadInv /\ [Next]_vars => ReloadInv'
  <2> SUFFICES ASSUME ReloadInv, [Next]_vars PROVE ReloadInv'  OBVIOUS
  <2>1. CASE UNCHANGED vars
    BY <2>1 DEF vars, ReloadInv, ServesLastGood, TypeOK
  <2> QED  BY <2>1, DiskReload, WatchReload, StepReload, RequestsReload DEF Next
<1>2. ReloadInv => ServesLastGood
  BY DEF ReloadInv
<1> QED  BY <1>1, <1>2, InitReload, PTL DEF Spec
=============================================================================

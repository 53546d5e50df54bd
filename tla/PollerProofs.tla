---------------------------- MODULE PollerProofs ----------------------------
(***************************************************************************)
(* A widget or header item that is skipped always has a card: for every    *)
(* set of configurations, any number of slots and any intervals.           *)
(*                                                                         *)
(* pollInfoWidget returns without a card when duePoll says no, so a poll   *)
(* time must never outlive or precede the card for good.  The invariant    *)
(* CardInv is inductive: a poll time without a card belongs to a goroutine *)
(* that is polling, no second goroutine has its key, and none is running   *)
(* when EndCycle prunes cards and poll times with one keep set.            *)
(***************************************************************************)
EXTENDS Poller, FiniteSetTheorems, TLAPS

LEMMA InitCard == Init => CardInv
  BY DEF Init, CardInv, TaskKeys, OneWriter, Started, Phases, TrackedHasCard,
         SkippedHasCard

\* Steps that start and end no goroutine, and leave every card where it is.
LEMMA OutsideKeeps ==
  ASSUME CardInv, Edit \/ Elapse \/ Begin \/ ListFails \/ UNCHANGED vars
  PROVE  CardInv'
<1>1. /\ tasks' = tasks /\ store' = store /\ DOMAIN age' = DOMAIN age
      /\ phase' = phase \/ (phase \in {"idle", "services"}
                            /\ phase' \in {"idle", "services"})
  BY DEF Edit, Elapse, Begin, ListFails, Return, vars, cycleVars, histVars
<1>2. TaskKeys' /\ OneWriter'
  BY <1>1 DEF CardInv, TaskKeys, OneWriter
<1>3. Started'
  BY <1>1 DEF CardInv, Started, Phases
<1>4. TrackedHasCard' /\ SkippedHasCard'
  BY <1>1 DEF CardInv, TrackedHasCard, SkippedHasCard
<1> QED  BY <1>2, <1>3, <1>4 DEF CardInv

\* Starting queued goroutines changes neither cards nor poll times.
LEMMA StartKeeps ==
  ASSUME CardInv, tasks \subseteq tasks', store' = store, age' = age,
         \A t \in tasks' \ tasks : t.st = "queued"
  PROVE  TrackedHasCard' /\ SkippedHasCard'
  BY DEF CardInv, TrackedHasCard, SkippedHasCard

LEMMA ListServicesKeeps == ASSUME CardInv, ListServices PROVE CardInv'
<1>1. tasks = {} /\ phase' = "discovery" /\ store' = store /\ age' = age
  BY DEF ListServices, CardInv, Started
<1>2. \A t \in tasks' : \E i \in DOMAIN cfg.services :
         t = Task("entry", EntryKey(i), cfg.services[i], NoResult)
  BY <1>1 DEF ListServices
<1>3. \A t \in tasks' : t.kind = "entry" /\ t.st = "queued"
                        /\ t.key = EntryKey(t.key[2])
  BY <1>2 DEF Task, EntryKey
<1>4. TaskKeys'
  BY <1>3 DEF TaskKeys, Polling
<1>5. \A t, u \in tasks' : t.key = u.key => t = u
  BY <1>2 DEF Task, EntryKey
<1>6. OneWriter'
  BY <1>3, <1>5 DEF OneWriter
<1>7. Started'
  BY <1>1, <1>3 DEF Started, Phases
<1>8. TrackedHasCard' /\ SkippedHasCard'
  BY <1>1, <1>3, StartKeeps
<1> QED  BY <1>4, <1>6, <1>7, <1>8 DEF CardInv

LEMMA DiscoverKeeps ==
  ASSUME CardInv, NEW listed, Discover(listed)
  PROVE  CardInv'
<1>1. /\ phase = "discovery" /\ phase' = "headers"
      /\ store' = store /\ age' = age /\ tasks \subseteq tasks'
  BY DEF Discover
<1>2. \A t \in tasks' \ tasks : t.kind = "found" /\ t.st = "queued"
  BY DEF Discover, Task
<1>3. \A t \in tasks : t.kind \in {"entry", "widget"}
  BY <1>1 DEF CardInv, Started
<1>4. TaskKeys'
  BY <1>1, <1>2 DEF CardInv, TaskKeys, Polling
<1>5. OneWriter'
  BY <1>1, <1>2 DEF CardInv, OneWriter
<1>6. Started'
  BY <1>1, <1>2, <1>3 DEF Started, Phases
<1>7. TrackedHasCard' /\ SkippedHasCard'
  BY <1>1, <1>2, StartKeeps
<1> QED  BY <1>4, <1>5, <1>6, <1>7 DEF CardInv

LEMMA ListHeadersKeeps ==
  ASSUME CardInv, NEW ok \in BOOLEAN, ListHeaders(ok)
  PROVE  CardInv'
<1> DEFINE hs == IF ok THEN cfg.headers ELSE <<>>
<1>1. /\ phase = "headers" /\ phase' = "wait"
      /\ store' = store /\ age' = age /\ tasks \subseteq tasks'
  BY DEF ListHeaders
<1>2. \A t \in tasks' \ tasks : \E i \in DOMAIN hs :
         t = Task("header", HeaderKey(i), hs[i], NoResult)
  BY DEF ListHeaders
<1> HIDE DEF hs
<1>3. \A t \in tasks' \ tasks : t.kind = "header" /\ t.st = "queued"
                                /\ t.key[1] = "header"
  BY <1>2 DEF Task, HeaderKey
<1>4. \A t, u \in tasks' \ tasks : t.key = u.key => t = u
  BY <1>2 DEF Task, HeaderKey
<1>5. TaskKeys'
  BY <1>1, <1>3 DEF CardInv, TaskKeys, Polling
<1>6. \A t \in tasks : t.kind # "found" => t.key[1] \in {"entry", "svc"}
  BY <1>1 DEF CardInv, TaskKeys, Started, EntryKey, Polling
<1>7. OneWriter'
  <2>1. ASSUME NEW t \in tasks', NEW u \in tasks', t.kind # "found",
               u.kind # "found", t.key = u.key
        PROVE  t = u
    BY <2>1, <1>1, <1>3, <1>4, <1>6 DEF CardInv, OneWriter
  <2>2. ASSUME NEW t \in tasks', NEW u \in tasks', t.kind = "entry",
               u.kind = "widget"
        PROVE  t.key[2] # u.key[2]
    BY <2>2, <1>1, <1>3 DEF CardInv, OneWriter
  <2> QED  BY <2>1, <2>2 DEF OneWriter
<1>8. Started'
  BY <1>1 DEF Started, Phases
<1>9. TrackedHasCard' /\ SkippedHasCard'
  BY <1>1, <1>3, StartKeeps
<1> QED  BY <1>5, <1>7, <1>8, <1>9 DEF CardInv

\* Taking a slot: a skipped goroutine's poll time is not its own, since none
\* other than it has its key, so the time comes with a card.
LEMMA AcquireKeeps ==
  ASSUME CardInv, NEW t \in tasks, Acquire(t)
  PROVE  CardInv'
<1>1. PICK st \in {"running", "due", "skip"} :
        /\ tasks' = WithState(t, st)
        /\ st \in {"due", "skip"} => t.kind \in Polling
        /\ st = "skip" => t.key \in DOMAIN age /\ age' = age
        /\ st = "running" => age' = age
        /\ st = "due" => DOMAIN age' \in {DOMAIN age, DOMAIN age \cup {t.key}}
  BY DEF Acquire, DuePoll, RecordPoll, Put, Polling
<1>2. t.st = "queued" /\ phase' = phase /\ store' = store
  BY DEF Acquire
<1> DEFINE n == [kind |-> t.kind, key |-> t.key, item |-> t.item, m |-> t.m,
                 st |-> st]
<1>3. /\ tasks' = (tasks \ {t}) \cup {n}
      /\ n.kind = t.kind /\ n.key = t.key /\ n.st = st
  BY <1>1 DEF WithState
<1> HIDE DEF n
<1>4. TaskKeys'
  BY <1>1, <1>3 DEF CardInv, TaskKeys
<1>5. OneWriter'
  BY <1>3 DEF CardInv, OneWriter
<1>6. Started'
  BY <1>2, <1>3 DEF CardInv, Started
<1>7. \A u \in tasks : u.st = "due" => u \in tasks'
  BY <1>2, <1>3
<1>8. TrackedHasCard'
  <2> SUFFICES ASSUME NEW k \in DOMAIN age'
               PROVE  \/ k \in DOMAIN store
                      \/ \E u \in tasks' : u.key = k /\ u.st = "due"
    BY <1>2 DEF TrackedHasCard
  <2>1. CASE k \in DOMAIN age
    BY <2>1, <1>7 DEF CardInv, TrackedHasCard
  <2>2. CASE k \notin DOMAIN age
    BY <2>2, <1>1, <1>3
  <2> QED  BY <2>1, <2>2
<1>9. SkippedHasCard'
  <2>1. st = "skip" => t.key \in DOMAIN store
    <3> SUFFICES ASSUME st = "skip", t.key \notin DOMAIN store PROVE FALSE
      OBVIOUS
    <3>1. PICK u \in tasks : u.key = t.key /\ u.st = "due"
      BY <1>1 DEF CardInv, TrackedHasCard
    <3>2. u.kind \in Polling /\ t.kind \in Polling
      BY <3>1, <1>1 DEF CardInv, TaskKeys
    <3>3. u = t
      BY <3>1, <3>2 DEF CardInv, OneWriter, Polling
    <3> QED  BY <3>1, <3>3, <1>2
  <2> QED  BY <2>1, <1>2, <1>3 DEF CardInv, SkippedHasCard
<1> QED  BY <1>4, <1>5, <1>6, <1>8, <1>9 DEF CardInv

\* The entry's goroutine ends and those of its widgets start, under keys that
\* no other has: none of this entry's widgets was running before.
LEMMA RunEntryKeeps ==
  ASSUME CardInv, NEW t \in tasks, RunEntry(t)
  PROVE  CardInv'
<1> DEFINE i == t.key[2]
<1>1. /\ t.kind = "entry" /\ t.st = "running"
      /\ phase' = phase /\ age' = age
      /\ DOMAIN store \subseteq DOMAIN store'
  BY DEF RunEntry, Put
<1>2. PICK started :
        /\ tasks' = (tasks \ {t}) \cup started
        /\ \A u \in started : \E w, x, y :
              u = Task("widget", WidgetKey(i, w), x, y)
        /\ \A u, v \in started : u.key = v.key => u = v
  <2>1. PICK r \in Monitor(t.item, dash.allow) :
          Done(t, {Task("widget", WidgetKey(i, w),
                        [name |-> t.item.name, hide |-> t.item.hide,
                         widget |-> t.item.widgets[w]], r.m) :
                     w \in DOMAIN t.item.widgets})
    BY DEF RunEntry
  <2> DEFINE T(w) == Task("widget", WidgetKey(i, w),
                          [name |-> t.item.name, hide |-> t.item.hide,
                           widget |-> t.item.widgets[w]], r.m)
  <2> DEFINE S == {T(w) : w \in DOMAIN t.item.widgets}
  <2>2. tasks' = (tasks \ {t}) \cup S
    BY <2>1 DEF Done
  <2>3. \A w, x : T(w).key = T(x).key => w = x
    BY DEF Task, WidgetKey
  <2>4. \A u, v \in S : u.key = v.key => u = v
    BY <2>3
  <2>5. \A u \in S : \E w, x, y : u = Task("widget", WidgetKey(i, w), x, y)
    OBVIOUS
  <2> QED  BY <2>2, <2>4, <2>5
<1> HIDE DEF i
<1>3. \A u \in started : /\ u.kind = "widget" /\ u.st = "queued"
                         /\ u.key[1] = "svc" /\ u.key[2] = i
  BY <1>2 DEF Task, WidgetKey
<1>4. TaskKeys'
  BY <1>2, <1>3 DEF CardInv, TaskKeys, Polling
<1>5. \A u \in tasks, v \in started :
         u.kind # "found" /\ u.key = v.key => FALSE
  <2> SUFFICES ASSUME NEW u \in tasks, NEW v \in started, u.kind # "found",
                      u.key = v.key
               PROVE  FALSE
    OBVIOUS
  <2>1. u.key[1] = "svc" /\ u.key[2] = i
    BY <1>3
  <2>2. u.kind = "widget"
    BY <2>1 DEF CardInv, TaskKeys, EntryKey, Polling
  <2> QED  BY <2>1, <2>2, <1>1 DEF CardInv, OneWriter, i
<1>6. \A u \in tasks \ {t} : u.kind = "entry" => u.key[2] # i
  <2> SUFFICES ASSUME NEW u \in tasks, u.kind = "entry", u.key[2] = i
               PROVE  u = t
    OBVIOUS
  <2>1. u.key = EntryKey(i) /\ t.key = EntryKey(i)
    BY <1>1 DEF CardInv, TaskKeys, i
  <2> QED  BY <2>1, <1>1 DEF CardInv, OneWriter
<1>7. OneWriter'
  <2>1. ASSUME NEW u \in tasks', NEW v \in tasks', u.kind # "found",
               v.kind # "found", u.key = v.key
        PROVE  u = v
    BY <2>1, <1>2, <1>5 DEF CardInv, OneWriter
  <2>2. ASSUME NEW u \in tasks', NEW v \in tasks', u.kind = "entry",
               v.kind = "widget"
        PROVE  u.key[2] # v.key[2]
    BY <2>2, <1>2, <1>3, <1>6 DEF CardInv, OneWriter
  <2> QED  BY <2>1, <2>2 DEF OneWriter
<1>8. Started'
  BY <1>1, <1>2, <1>3 DEF CardInv, Started
<1>9. TrackedHasCard'
  BY <1>1, <1>2 DEF CardInv, TrackedHasCard
<1>10. SkippedHasCard'
  BY <1>1, <1>2, <1>3 DEF CardInv, SkippedHasCard
<1> QED  BY <1>4, <1>7, <1>8, <1>9, <1>10 DEF CardInv

\* A goroutine that ends after writing its card, if it was polling one.
LEMMA WriteKeeps ==
  ASSUME CardInv, NEW t \in tasks,
         PollWidget(t) \/ MergeMonitorIntoStoredCard(t) \/ PollInfoWidget(t)
           \/ SkipInfoWidget(t) \/ PollDiscoveredService(t)
  PROVE  CardInv'
<1>1. /\ tasks' = tasks \ {t} /\ phase' = phase /\ age' = age
      /\ DOMAIN store \subseteq DOMAIN store'
      /\ t.st = "due" => t.key \in DOMAIN store'
  <2>1. CASE PollWidget(t)
    BY <2>1 DEF PollWidget, Done, Put, cycleVars
  <2>2. CASE MergeMonitorIntoStoredCard(t)
    BY <2>2 DEF MergeMonitorIntoStoredCard, Done, Put
  <2>3. CASE PollInfoWidget(t)
    BY <2>3 DEF PollInfoWidget, Done, Put
  <2>4. CASE SkipInfoWidget(t)
    BY <2>4 DEF SkipInfoWidget, Done
  <2>5. CASE PollDiscoveredService(t)
    BY <2>5 DEF PollDiscoveredService, Done, Put
  <2> QED  BY <2>1, <2>2, <2>3, <2>4, <2>5
<1>2. TaskKeys' /\ OneWriter'
  BY <1>1 DEF CardInv, TaskKeys, OneWriter
<1>3. Started'
  BY <1>1 DEF CardInv, Started
<1>4. TrackedHasCard'
  BY <1>1 DEF CardInv, TrackedHasCard
<1>5. SkippedHasCard'
  BY <1>1 DEF CardInv, SkippedHasCard
<1> QED  BY <1>2, <1>3, <1>4, <1>5 DEF CardInv

LEMMA EndCycleKeeps == ASSUME CardInv, EndCycle PROVE CardInv'
<1>1. tasks = {} /\ tasks' = {} /\ phase' = "idle"
  BY DEF EndCycle, Return
<1>2. DOMAIN store' = DOMAIN store \cap keep /\ DOMAIN age' = DOMAIN age \cap keep
  BY DEF EndCycle, Prune, PruneWidgetLastPolled, Only
<1>3. DOMAIN age \subseteq DOMAIN store
  BY <1>1 DEF CardInv, TrackedHasCard
<1>4. TaskKeys' /\ OneWriter' /\ SkippedHasCard'
  BY <1>1 DEF TaskKeys, OneWriter, SkippedHasCard
<1>5. Started'
  BY <1>1 DEF Started, Phases
<1>6. TrackedHasCard'
  BY <1>2, <1>3 DEF TrackedHasCard
<1> QED  BY <1>4, <1>5, <1>6 DEF CardInv

\* The invariant behind SkippedHasCard holds in every reachable state.
THEOREM CardsInductive == Spec => []CardInv
<1>1. ASSUME CardInv, [Next]_vars PROVE CardInv'
  <2>1. CASE Edit \/ Elapse \/ Begin \/ ListFails \/ UNCHANGED vars
    BY <1>1, <2>1, OutsideKeeps
  <2>2. CASE ListServices
    BY <1>1, <2>2, ListServicesKeeps
  <2>3. CASE \E listed \in Listings : Discover(listed)
    BY <1>1, <2>3, DiscoverKeeps
  <2>4. CASE \E ok \in BOOLEAN : ListHeaders(ok)
    BY <1>1, <2>4, ListHeadersKeeps
  <2>5. CASE \E t \in tasks : Run(t)
    BY <1>1, <2>5, AcquireKeeps, RunEntryKeeps, WriteKeeps DEF Run
  <2>6. CASE EndCycle
    BY <1>1, <2>6, EndCycleKeeps
  <2> QED  BY <1>1, <2>1, <2>2, <2>3, <2>4, <2>5, <2>6 DEF Next
<1> QED  BY <1>1, InitCard, PTL DEF Spec

\* pollInfoWidget's early return and mergeMonitorIntoStoredCard always find the
\* card that duePoll's answer promises them.
THEOREM SkippedAlwaysHasCard == Spec => []SkippedHasCard
<1>1. CardInv => SkippedHasCard
  BY DEF CardInv
<1> QED  BY <1>1, CardsInductive, PTL
-----------------------------------------------------------------------------
(***************************************************************************)
(* What a cycle has done so far, the invariant behind the properties of a  *)
(* finished one.                                                           *)
(***************************************************************************)
InCycle == phase # "idle"

ProbedKeys == UNION {EntryKeys(i) : i \in DOMAIN probe}

\* The listings of a cycle come in order, and are of configurations.
ListedInOrder ==
    /\ cfg \in Configs
    /\ DOMAIN seen = {"services", "headers", "found", "routes", "listed"}
    /\ \A i \in DOMAIN seen.services : seen.services[i].widgets \in Seq(Widget)
    /\ \A d \in seen.found : d.source \in Sources
    /\ InCycle => ~complete
    /\ phase = "services" => seen = Nothing /\ probe = <<>>
    /\ phase = "discovery" => seen.found = {}
    /\ phase \in {"discovery", "headers"} => seen.headers = <<>>

\* An entry is listed, then probed by its own goroutine, once.
EntriesInv ==
    InCycle =>
      /\ DOMAIN probe \subseteq DOMAIN seen.services
      /\ \A t \in tasks : t.kind = "entry" =>
           /\ t.key[2] \in DOMAIN seen.services \ DOMAIN probe
           /\ t.item = seen.services[t.key[2]]
      /\ \A i \in DOMAIN seen.services \ DOMAIN probe :
           \E t \in tasks : t.kind = "entry" /\ t.key = EntryKey(i)

\* The cards of a probed entry show its probe, or a goroutine that carries the
\* result has yet to write them.
WidgetsInv ==
    InCycle =>
      /\ \A t \in tasks : t.kind = "widget" =>
           t.key[2] \in DOMAIN probe /\ t.m = probe[t.key[2]].m
      /\ \A i \in DOMAIN probe : \A k \in EntryKeys(i) :
           \/ k \in DOMAIN store /\ store[k].m = probe[i].m
           \/ \E t \in tasks : t.kind = "widget" /\ t.key = k

\* Header items and discovered routes have a card or a goroutine.
OthersInv ==
    InCycle =>
      /\ \A t \in tasks : t.kind = "found" =>
           t.item \in seen.found /\ t.key = FoundKey(t.item)
      /\ \A i \in DOMAIN seen.headers :
           \/ HeaderKey(i) \in DOMAIN store
           \/ \E t \in tasks : t.kind = "header" /\ t.key = HeaderKey(i)
      /\ \A d \in seen.found :
           \/ FoundKey(d) \in DOMAIN store
           \/ \E t \in tasks : t.kind = "found" /\ t.item = d

\* The keys marked so far are those of what was probed and listed so far.
KeepInv ==
    InCycle =>
      keep = ProbedKeys
             \cup {HeaderKey(i) : i \in DOMAIN seen.headers}
             \cup {FoundKey(d) : d \in seen.found}

\* Every card of an entry shows the entry's last probe.
AllFresh ==
    \A i \in DOMAIN seen.services : \A k \in DOMAIN store :
      k[1] = "svc" /\ k[2] = i => store[k].m = probe[i].m

\* The prunes leave what the cycle marked.
EndedInv ==
    Ended => /\ DOMAIN store = ShownKeys
             /\ AllFresh
             /\ caCache \subseteq caUsed

CycleInv == /\ ListedInOrder /\ EntriesInv /\ WidgetsInv /\ OthersInv
            /\ KeepInv /\ EndedInv

LEMMA NoWidgets ==
  ASSUME NEW s \in Seq(Widget)
  PROVE  DOMAIN s = {} <=> s = <<>>
<1>1. Len(s) \in Nat /\ DOMAIN s = 1..Len(s)
  OBVIOUS
<1>2. s = <<>> <=> Len(s) = 0
  OBVIOUS
<1>3. Len(s) # 0 => 1 \in DOMAIN s
  BY <1>1
<1>4. Len(s) = 0 => DOMAIN s = {}
  BY <1>1
<1> QED  BY <1>2, <1>3, <1>4

\* Keys tell what kind of item they belong to, and which entry.
LEMMA KeyParts ==
  /\ \A i, w : WidgetKey(i, w)[1] = "svc" /\ WidgetKey(i, w)[2] = i
  /\ \A i : MonitorKey(i)[1] = "svc" /\ MonitorKey(i)[2] = i
  /\ \A i : HeaderKey(i)[1] = "header"
  /\ \A d : /\ FoundKey(d)[1] = d.source /\ FoundKey(d)[2] = d.namespace
            /\ FoundKey(d)[3] = d.id
  BY DEF WidgetKey, MonitorKey, HeaderKey, FoundKey

LEMMA EntryKeyParts ==
  ASSUME NEW i, NEW k \in EntryKeys(i)
  PROVE  k[1] = "svc" /\ k[2] = i
<1>1. k = MonitorKey(i) \/ \E w : k = WidgetKey(i, w)
  BY DEF EntryKeys
<1> QED  BY <1>1, KeyParts

\* Which keys entries have depends on the listing of services and the probes.
LEMMA SameKeys ==
  ASSUME probe' = probe, seen'.services = seen.services
  PROVE  (\A i : EntryKeys(i)' = EntryKeys(i)) /\ ProbedKeys' = ProbedKeys
<1>1. \A i : EntryKeys(i)' = EntryKeys(i)
  BY DEF EntryKeys
<1>2. \A k : k \in ProbedKeys' <=> \E i \in DOMAIN probe : k \in EntryKeys(i)'
  BY DEF ProbedKeys
<1>3. \A k : k \in ProbedKeys <=> \E i \in DOMAIN probe : k \in EntryKeys(i)
  BY DEF ProbedKeys
<1>4. \A k : k \in ProbedKeys' <=> k \in ProbedKeys
  BY <1>1, <1>2, <1>3
<1>5. ProbedKeys' = ProbedKeys
  BY <1>4
<1> QED  BY <1>1, <1>5

LEMMA InitCycle == Init => CycleInv
<1> SUFFICES ASSUME Init PROVE CycleInv
  OBVIOUS
<1> USE DEF Init, Nothing, InCycle
<1>1. ListedInOrder
  BY DEF ListedInOrder
<1>2. EntriesInv /\ WidgetsInv /\ OthersInv /\ KeepInv
  BY DEF EntriesInv, WidgetsInv, OthersInv, KeepInv, ProbedKeys
<1>3. EndedInv
  BY DEF EndedInv, Ended
<1> QED  BY <1>1, <1>2, <1>3 DEF CycleInv

\* Edits and time change nothing that a cycle has read.
LEMMA QuietCycle ==
  ASSUME CycleInv, Edit \/ Elapse \/ UNCHANGED vars
  PROVE  CycleInv'
<1>1. /\ phase' = phase /\ keep' = keep /\ tasks' = tasks /\ store' = store
      /\ seen' = seen /\ probe' = probe /\ complete' = complete
      /\ caUsed' = caUsed /\ caCache' = caCache /\ cfg' \in Configs
  BY DEF Edit, Elapse, vars, cycleVars, histVars, CycleInv, ListedInOrder
<1> USE <1>1 DEF CycleInv
<1>2. ListedInOrder'
  BY DEF ListedInOrder, InCycle
<1>3. EntriesInv'
  BY DEF EntriesInv, InCycle
<1>4. WidgetsInv'
  BY SameKeys DEF WidgetsInv, InCycle
<1>5. OthersInv'
  BY DEF OthersInv, InCycle
<1>6. KeepInv'
  BY SameKeys DEF KeepInv, InCycle
<1>7. EndedInv'
  BY SameKeys DEF EndedInv, Ended, ShownKeys, AllFresh
<1> QED  BY <1>2, <1>3, <1>4, <1>5, <1>6, <1>7

LEMMA BeginCycle ==
  ASSUME CardInv, CycleInv, Begin \/ ListFails
  PROVE  CycleInv'
<1>1. /\ tasks = {} /\ tasks' = {} /\ cfg' \in Configs /\ ~complete'
  BY DEF Begin, ListFails, CardInv, Started, CycleInv, ListedInOrder, InCycle, histVars
<1>2. /\ seen' = Nothing /\ probe' = <<>>
      /\ phase' \in {"idle", "services"} /\ (phase' = "services" => keep' = {})
  BY DEF Begin, ListFails, Return, CycleInv, ListedInOrder, histVars, cycleVars
<1> USE <1>1, <1>2 DEF Nothing, InCycle
<1>3. ListedInOrder'
  BY DEF ListedInOrder
<1>4. EntriesInv' /\ WidgetsInv' /\ OthersInv' /\ KeepInv'
  BY DEF EntriesInv, WidgetsInv, OthersInv, KeepInv, ProbedKeys
<1>5. EndedInv'
  BY DEF EndedInv, Ended
<1> QED  BY <1>3, <1>4, <1>5 DEF CycleInv

LEMMA ListServicesCycle ==
  ASSUME CardInv, CycleInv, ListServices
  PROVE  CycleInv'
<1>1. /\ phase = "services" /\ phase' = "discovery" /\ tasks = {} /\ probe' = <<>>
      /\ ~complete' /\ cfg' = cfg /\ cfg \in Configs /\ keep' = keep
  BY DEF ListServices, CardInv, Started, CycleInv, ListedInOrder, InCycle, cycleVars
<1>2. /\ DOMAIN seen' = {"services", "headers", "found", "routes", "listed"}
      /\ seen'.services = cfg.services /\ seen'.headers = <<>> /\ seen'.found = {}
  BY <1>1 DEF ListServices, CycleInv, ListedInOrder, Nothing
<1>3. keep = {}
  BY <1>1 DEF CycleInv, ListedInOrder, KeepInv, ProbedKeys, InCycle, Nothing
<1>4. ListedInOrder'
  BY <1>1, <1>2, PollerAssumption DEF ListedInOrder, ConfigOK, IsEntry, InCycle
<1>5. \A t \in tasks' : \E i \in DOMAIN cfg.services :
         t = Task("entry", EntryKey(i), cfg.services[i], NoResult)
  BY <1>1 DEF ListServices
<1>6. \A i \in DOMAIN cfg.services :
         Task("entry", EntryKey(i), cfg.services[i], NoResult) \in tasks'
  BY <1>1 DEF ListServices
<1>7. EntriesInv'
  <2>1. \A t \in tasks' : /\ t.key[2] \in DOMAIN cfg.services
                          /\ t.item = cfg.services[t.key[2]]
    BY <1>5 DEF Task, EntryKey
  <2>2. \A i \in DOMAIN cfg.services :
           \E t \in tasks' : t.kind = "entry" /\ t.key = EntryKey(i)
    BY <1>6 DEF Task
  <2> QED  BY <2>1, <2>2, <1>1, <1>2 DEF EntriesInv
<1>8. \A t \in tasks' : t.kind = "entry"
  BY <1>5 DEF Task
<1>9. WidgetsInv' /\ OthersInv'
  BY <1>1, <1>2, <1>8 DEF WidgetsInv, OthersInv
<1>10. KeepInv'
  BY <1>1, <1>2, <1>3 DEF KeepInv, ProbedKeys
<1>11. EndedInv'
  BY <1>1 DEF EndedInv, Ended
<1> QED  BY <1>4, <1>7, <1>9, <1>10, <1>11 DEF CycleInv

\* What discovery finds comes from a source that is turned on.
LEMMA FoundSource ==
  ASSUME NEW listed, NEW d \in Found(listed)
  PROVE  d.source \in Sources
<1>1. PICK s \in ActiveSources :
        d \in discoverServices(s, cfg.routes, {n \in Searched : <<s, n>> \in listed},
                               dash.discovery)
  BY DEF Found
<1>2. PICK o, ann : o.source = s /\ d = discoveredService(o, ann)
  BY <1>1 DEF discoverServices
<1> QED  BY <1>2 DEF discoveredService, ActiveSources

LEMMA DiscoverCycle ==
  ASSUME CardInv, CycleInv, NEW listed, Discover(listed)
  PROVE  CycleInv'
<1>1. /\ phase = "discovery" /\ phase' = "headers" /\ probe' = probe /\ store' = store
      /\ ~complete' /\ cfg' = cfg /\ cfg \in Configs /\ tasks \subseteq tasks'
  BY DEF Discover, CycleInv, ListedInOrder, InCycle
<1>2. /\ DOMAIN seen' = {"services", "headers", "found", "routes", "listed"}
      /\ seen'.services = seen.services /\ seen'.headers = <<>>
      /\ seen.headers = <<>> /\ seen.found = {} /\ seen'.found = Found(listed)
  BY <1>1 DEF Discover, CycleInv, ListedInOrder
<1>3. ListedInOrder'
  BY <1>1, <1>2, FoundSource DEF ListedInOrder, CycleInv, InCycle
<1>4. /\ \A t \in tasks' \ tasks : \E d \in Found(listed) :
            t = Task("found", FoundKey(d), d, NoResult)
      /\ \A d \in Found(listed) : Task("found", FoundKey(d), d, NoResult) \in tasks'
  BY DEF Discover
<1>5. \A t \in tasks' \ tasks : /\ t.kind = "found" /\ t.item \in seen'.found
                                /\ t.key = FoundKey(t.item)
  BY <1>2, <1>4 DEF Task
<1>6. \A d \in seen'.found : \E t \in tasks' : t.kind = "found" /\ t.item = d
  <2> SUFFICES ASSUME NEW d \in Found(listed)
               PROVE  \E t \in tasks' : t.kind = "found" /\ t.item = d
    BY <1>2
  <2>1. /\ Task("found", FoundKey(d), d, NoResult).kind = "found"
        /\ Task("found", FoundKey(d), d, NoResult).item = d
    BY DEF Task
  <2> QED  BY <2>1, <1>4
<1>7. \A t \in tasks : t.kind \in {"entry", "widget"}
  BY <1>1 DEF CardInv, Started
<1>8. EntriesInv'
  BY <1>1, <1>2, <1>5 DEF CycleInv, EntriesInv, InCycle
<1>9. WidgetsInv'
  BY <1>1, <1>2, <1>5, SameKeys DEF CycleInv, WidgetsInv, InCycle
<1>10. OthersInv'
  BY <1>1, <1>2, <1>5, <1>6, <1>7 DEF OthersInv
<1>11. KeepInv'
  <2>1. keep' = keep \cup {FoundKey(d) : d \in Found(listed)}
    BY DEF Discover
  <2>2. keep = ProbedKeys
    <3>1. /\ {HeaderKey(i) : i \in DOMAIN seen.headers} = {}
          /\ {FoundKey(d) : d \in seen.found} = {}
      BY <1>2
    <3> QED  BY <3>1, <1>1 DEF CycleInv, KeepInv, InCycle
  <2>3. ProbedKeys' = ProbedKeys
    BY <1>1, <1>2, SameKeys
  <2> QED  BY <2>1, <2>2, <2>3, <1>1, <1>2 DEF KeepInv
<1>12. EndedInv'
  BY <1>1 DEF EndedInv, Ended
<1> QED  BY <1>3, <1>8, <1>9, <1>10, <1>11, <1>12 DEF CycleInv

LEMMA ListHeadersCycle ==
  ASSUME CardInv, CycleInv, NEW ok \in BOOLEAN, ListHeaders(ok)
  PROVE  CycleInv'
<1> DEFINE hs == IF ok THEN cfg.headers ELSE <<>>
<1>1. /\ phase = "headers" /\ phase' = "wait" /\ probe' = probe /\ store' = store
      /\ ~complete' /\ cfg' = cfg /\ cfg \in Configs /\ tasks \subseteq tasks'
  BY DEF ListHeaders, CycleInv, ListedInOrder, InCycle
<1>2. /\ DOMAIN seen' = {"services", "headers", "found", "routes", "listed"}
      /\ seen'.services = seen.services /\ seen'.headers = hs
      /\ seen.headers = <<>> /\ seen'.found = seen.found
  BY <1>1 DEF ListHeaders, CycleInv, ListedInOrder
<1>3. /\ \A t \in tasks' \ tasks : \E i \in DOMAIN hs :
            t = Task("header", HeaderKey(i), hs[i], NoResult)
      /\ \A i \in DOMAIN hs : Task("header", HeaderKey(i), hs[i], NoResult) \in tasks'
      /\ keep' = keep \cup {HeaderKey(i) : i \in DOMAIN hs}
  BY DEF ListHeaders
<1> HIDE DEF hs
<1>4. ListedInOrder'
  BY <1>1, <1>2 DEF ListedInOrder, CycleInv, InCycle
<1>5. \A t \in tasks' \ tasks : t.kind = "header"
  BY <1>3 DEF Task
<1>6. \A i \in DOMAIN hs : \E t \in tasks' : t.kind = "header" /\ t.key = HeaderKey(i)
  BY <1>3 DEF Task
<1>8. EntriesInv'
  BY <1>1, <1>2, <1>5 DEF CycleInv, EntriesInv, InCycle
<1>9. WidgetsInv'
  BY <1>1, <1>2, <1>5, SameKeys DEF CycleInv, WidgetsInv, InCycle
<1>10. OthersInv'
  BY <1>1, <1>2, <1>5, <1>6 DEF CycleInv, OthersInv, InCycle
<1>11. KeepInv'
  <2>1. keep = ProbedKeys \cup {FoundKey(d) : d \in seen.found}
    BY <1>1, <1>2 DEF CycleInv, KeepInv, InCycle
  <2>2. ProbedKeys' = ProbedKeys
    BY <1>1, <1>2, SameKeys
  <2> QED  BY <2>1, <2>2, <1>1, <1>2, <1>3 DEF KeepInv
<1>12. EndedInv'
  BY <1>1 DEF EndedInv, Ended
<1> QED  BY <1>4, <1>8, <1>9, <1>10, <1>11, <1>12 DEF CycleInv

\* Taking a slot changes only the goroutine's own state.
LEMMA AcquireCycle ==
  ASSUME CardInv, CycleInv, NEW t \in tasks, Acquire(t)
  PROVE  CycleInv'
<1>1. PICK st : tasks' = WithState(t, st)
  BY DEF Acquire
<1>2. /\ phase' = phase /\ keep' = keep /\ store' = store /\ seen' = seen
      /\ probe' = probe /\ complete' = complete /\ cfg' = cfg
  BY DEF Acquire, cycleVars, histVars
<1> DEFINE n == [kind |-> t.kind, key |-> t.key, item |-> t.item, m |-> t.m,
                 st |-> st]
<1>3. /\ tasks' = (tasks \ {t}) \cup {n}
      /\ n.kind = t.kind /\ n.key = t.key /\ n.item = t.item /\ n.m = t.m
  BY <1>1 DEF WithState
<1> HIDE DEF n
<1>4. phase # "idle"
  BY DEF CardInv, Started
<1>5. ListedInOrder'
  BY <1>2 DEF CycleInv, ListedInOrder, InCycle
<1>6. EntriesInv'
  BY <1>2, <1>3 DEF CycleInv, EntriesInv, InCycle
<1>7. WidgetsInv'
  BY <1>2, <1>3, SameKeys DEF CycleInv, WidgetsInv, InCycle
<1>8. OthersInv'
  <2>1. \A u \in tasks' : u.kind = "found" =>
          u.item \in seen.found /\ u.key = FoundKey(u.item)
    BY <1>3, <1>4 DEF CycleInv, OthersInv, InCycle
  <2>2. \A i \in DOMAIN seen.headers :
          \/ HeaderKey(i) \in DOMAIN store
          \/ \E u \in tasks' : u.kind = "header" /\ u.key = HeaderKey(i)
    BY <1>3, <1>4 DEF CycleInv, OthersInv, InCycle
  <2>3. \A d \in seen.found :
          \/ FoundKey(d) \in DOMAIN store
          \/ \E u \in tasks' : u.kind = "found" /\ u.item = d
    BY <1>3, <1>4 DEF CycleInv, OthersInv, InCycle
  <2> QED  BY <2>1, <2>2, <2>3, <1>2 DEF OthersInv
<1>9. KeepInv'
  BY <1>2, SameKeys DEF CycleInv, KeepInv, InCycle
<1>10. EndedInv'
  BY <1>2, <1>4 DEF EndedInv, Ended
<1> QED  BY <1>5, <1>6, <1>7, <1>8, <1>9, <1>10 DEF CycleInv

\* The entry's probe is recorded, its keys are marked, and each of its widgets
\* gets a goroutine that carries the result; without widgets the card is written
\* at once.  Cards of other entries stay as they are.
LEMMA RunEntryCycle ==
  ASSUME CardInv, CycleInv, NEW t \in tasks, RunEntry(t)
  PROVE  CycleInv'
<1> DEFINE i == t.key[2]
<1> DEFINE e == t.item
<1>1. PICK r \in Monitor(t.item, dash.allow) :
        LET ws == DOMAIN e.widgets
            alone == ws = {} /\ (r.m.status # "" \/ r.m.pods # "")
        IN  /\ probe' = Put(probe, i, r)
            /\ keep' = keep \cup {WidgetKey(i, w) : w \in ws}
                            \cup (IF alone THEN {MonitorKey(i)} ELSE {})
            /\ store' = IF alone THEN Put(store, MonitorKey(i), EntryCard(e, r.m))
                                 ELSE store
            /\ tasks' = (tasks \ {t})
                 \cup {Task("widget", WidgetKey(i, w),
                            [name |-> e.name, hide |-> e.hide,
                             widget |-> e.widgets[w]], r.m) : w \in ws}
  BY DEF RunEntry, Done
<1>2. /\ t.kind = "entry" /\ t.st = "running"
      /\ phase' = phase /\ complete' = complete /\ seen' = seen /\ cfg' = cfg
  BY DEF RunEntry
<1>3. InCycle
  BY DEF CardInv, Started, InCycle
<1>4. /\ i \in DOMAIN seen.services \ DOMAIN probe /\ e = seen.services[i]
      /\ t.key = EntryKey(i)
  BY <1>2, <1>3 DEF CycleInv, EntriesInv, CardInv, TaskKeys
<1> DEFINE T(w) == Task("widget", WidgetKey(i, w),
                        [name |-> e.name, hide |-> e.hide,
                         widget |-> e.widgets[w]], r.m)
<1> DEFINE S == {T(w) : w \in DOMAIN e.widgets}
<1>5. tasks' = (tasks \ {t}) \cup S
  BY <1>1
<1>6. /\ \A u \in S : /\ u.kind = "widget" /\ u.key[2] = i /\ u.m = r.m
      /\ \A w \in DOMAIN e.widgets :
           \E u \in S : u.kind = "widget" /\ u.key = WidgetKey(i, w)
  <2>1. \A w : T(w).kind = "widget" /\ T(w).key = WidgetKey(i, w) /\ T(w).m = r.m
    BY DEF Task
  <2>2. \A w : WidgetKey(i, w)[2] = i
    BY DEF WidgetKey
  <2> QED  BY <2>1, <2>2
<1>7. /\ DOMAIN probe' = DOMAIN probe \cup {i} /\ probe'[i] = r
      /\ \A j \in DOMAIN probe : j # i /\ probe'[j] = probe[j]
  BY <1>1, <1>4 DEF Put
<1>8. e.widgets \in Seq(Widget)
  BY <1>4 DEF CycleInv, ListedInOrder
<1>9. EntryKeys(i)' = {WidgetKey(i, w) : w \in DOMAIN e.widgets}
          \cup (IF DOMAIN e.widgets = {} /\ (r.m.status # "" \/ r.m.pods # "")
                  THEN {MonitorKey(i)} ELSE {})
  <2>1. DOMAIN e.widgets = {} <=> e.widgets = <<>>
    BY <1>8, NoWidgets
  <2> QED  BY <2>1, <1>2, <1>4, <1>7 DEF EntryKeys
<1>10. \A j \in DOMAIN probe : EntryKeys(j)' = EntryKeys(j)
  BY <1>2, <1>7 DEF EntryKeys
<1>12. \A j \in DOMAIN probe : \A k \in EntryKeys(j) : k[1] = "svc" /\ k[2] = j
  BY EntryKeyParts
<1>13. /\ DOMAIN store \subseteq DOMAIN store'
       /\ \A k \in DOMAIN store : k # MonitorKey(i) => store'[k] = store[k]
  BY <1>1 DEF Put
<1> HIDE DEF S, T, i, e
<1>14. ListedInOrder'
  BY <1>2, <1>3 DEF CycleInv, ListedInOrder, InCycle, CardInv, Started
<1>15. EntriesInv'
  <2>1. \A u \in tasks' : u.kind = "entry" => u \in tasks /\ u # t
    BY <1>5, <1>6
  <2>2. \A u \in tasks : u.kind = "entry" /\ u # t => u.key[2] # i
    <3> SUFFICES ASSUME NEW u \in tasks, u.kind = "entry", u.key[2] = i
                 PROVE  u = t
      OBVIOUS
    <3>1. u.key = EntryKey(i)
      BY DEF CardInv, TaskKeys
    <3> QED  BY <3>1, <1>2, <1>4 DEF CardInv, OneWriter
  <2>3. \A u \in tasks' : u.kind = "entry" =>
          /\ u.key[2] \in DOMAIN seen.services \ DOMAIN probe'
          /\ u.item = seen.services[u.key[2]]
    BY <2>1, <2>2, <1>3, <1>7 DEF CycleInv, EntriesInv
  <2>4. ASSUME NEW j \in DOMAIN seen.services \ DOMAIN probe'
        PROVE  \E u \in tasks' : u.kind = "entry" /\ u.key = EntryKey(j)
    <3>1. PICK u \in tasks : u.kind = "entry" /\ u.key = EntryKey(j)
      BY <1>3, <1>7 DEF CycleInv, EntriesInv
    <3>2. u # t
      BY <3>1, <1>4, <1>7 DEF EntryKey
    <3> QED  BY <3>1, <3>2, <1>5
  <2>5. DOMAIN probe' \subseteq DOMAIN seen.services
    BY <1>3, <1>4, <1>7 DEF CycleInv, EntriesInv
  <2> QED  BY <2>3, <2>4, <2>5, <1>2 DEF EntriesInv
<1>16. WidgetsInv'
  <2>1. \A u \in tasks' : u.kind = "widget" =>
          u.key[2] \in DOMAIN probe' /\ u.m = probe'[u.key[2]].m
    BY <1>3, <1>5, <1>6, <1>7 DEF CycleInv, WidgetsInv
  <2>2. ASSUME NEW j \in DOMAIN probe, NEW k \in EntryKeys(j)
        PROVE  \/ k \in DOMAIN store' /\ store'[k].m = probe'[j].m
               \/ \E u \in tasks' : u.kind = "widget" /\ u.key = k
    <3>1. CASE k \in DOMAIN store /\ store[k].m = probe[j].m
      <4>1. k # MonitorKey(i)
        BY <1>7, <1>12, KeyParts
      <4> QED  BY <3>1, <4>1, <1>7, <1>13
    <3>2. CASE \E u \in tasks : u.kind = "widget" /\ u.key = k
      BY <3>2, <1>2, <1>5
    <3> QED  BY <3>1, <3>2, <1>3 DEF CycleInv, WidgetsInv
  <2>3. ASSUME NEW k \in EntryKeys(i)'
        PROVE  \/ k \in DOMAIN store' /\ store'[k].m = probe'[i].m
               \/ \E u \in tasks' : u.kind = "widget" /\ u.key = k
    <3>1. CASE \E w \in DOMAIN e.widgets : k = WidgetKey(i, w)
      BY <3>1, <1>5, <1>6
    <3>2. CASE /\ DOMAIN e.widgets = {} /\ (r.m.status # "" \/ r.m.pods # "")
               /\ k = MonitorKey(i)
      <4>1. store' = Put(store, MonitorKey(i), EntryCard(e, r.m))
        BY <3>2, <1>1 DEF i, e
      <4>2. EntryCard(e, r.m).m = r.m
        BY DEF EntryCard, Card
      <4>3. k \in DOMAIN store' /\ store'[k] = EntryCard(e, r.m)
        BY <4>1, <3>2 DEF Put
      <4> QED  BY <4>2, <4>3, <1>7
    <3> QED  BY <3>1, <3>2, <1>9
  <2> QED  BY <2>1, <2>2, <2>3, <1>7, <1>10 DEF WidgetsInv
<1>17. OthersInv'
  BY <1>2, <1>3, <1>5, <1>6, <1>13 DEF CycleInv, OthersInv
<1>18. KeepInv'
  <2>1. keep' = keep \cup EntryKeys(i)'
    BY <1>1, <1>9 DEF i, e
  <2>2. \A k : k \in ProbedKeys' <=> \E j \in DOMAIN probe' : k \in EntryKeys(j)'
    BY DEF ProbedKeys
  <2>3. \A k : k \in ProbedKeys <=> \E j \in DOMAIN probe : k \in EntryKeys(j)
    BY DEF ProbedKeys
  <2>4. \A k : k \in ProbedKeys' <=> k \in ProbedKeys \cup EntryKeys(i)'
    BY <2>2, <2>3, <1>7, <1>10
  <2>5. ProbedKeys' = ProbedKeys \cup EntryKeys(i)'
    BY <2>4
  <2> HIDE DEF ProbedKeys
  <2> QED  BY <2>1, <2>5, <1>2, <1>3 DEF CycleInv, KeepInv
<1>19. EndedInv'
  BY <1>2, <1>3 DEF EndedInv, Ended, InCycle
<1> QED  BY <1>14, <1>15, <1>16, <1>17, <1>18, <1>19 DEF CycleInv

\* A goroutine that ends writes at most the card of its own key, and a widget's
\* card takes over the monitor result that its goroutine carries.
LEMMA WriteCycle ==
  ASSUME CardInv, CycleInv, NEW t \in tasks,
         PollWidget(t) \/ MergeMonitorIntoStoredCard(t) \/ PollInfoWidget(t)
           \/ SkipInfoWidget(t) \/ PollDiscoveredService(t)
  PROVE  CycleInv'
<1>1. /\ tasks' = tasks \ {t} /\ phase' = phase /\ keep' = keep /\ cfg' = cfg
      /\ seen' = seen /\ probe' = probe /\ complete' = complete
  <2>1. CASE PollWidget(t)
    BY <2>1 DEF PollWidget, Done, cycleVars
  <2>2. CASE MergeMonitorIntoStoredCard(t)
    BY <2>2 DEF MergeMonitorIntoStoredCard, Done, cycleVars, histVars
  <2>3. CASE PollInfoWidget(t)
    BY <2>3 DEF PollInfoWidget, Done, cycleVars
  <2>4. CASE SkipInfoWidget(t)
    BY <2>4 DEF SkipInfoWidget, Done, cycleVars, histVars
  <2>5. CASE PollDiscoveredService(t)
    BY <2>5 DEF PollDiscoveredService, Done, histVars
  <2> QED  BY <2>1, <2>2, <2>3, <2>4, <2>5
<1>2. /\ DOMAIN store \subseteq DOMAIN store' /\ t.key \in DOMAIN store'
      /\ \A k \in DOMAIN store : k # t.key => store'[k] = store[k]
      /\ t.kind \in {"widget", "header", "found"}
      /\ t.kind = "widget" => store'[t.key].m = t.m
  <2>1. CASE PollWidget(t)
    <3>1. PICK ok \in BOOLEAN :
            store' = Put(store, t.key, Filled(EntryCard(t.item, t.m), t.item.name,
                                              ok, t.item.hide))
      BY <2>1 DEF PollWidget
    <3>2. Filled(EntryCard(t.item, t.m), t.item.name, ok, t.item.hide).m = t.m
      BY DEF Filled, EntryCard, Card
    <3> HIDE DEF Filled
    <3> QED  BY <2>1, <3>1, <3>2 DEF PollWidget, Put
  <2>2. CASE MergeMonitorIntoStoredCard(t)
    <3>1. store' = Put(store, t.key, MergedCard(t)) /\ t.kind = "widget" /\ t.st = "skip"
      BY <2>2 DEF MergeMonitorIntoStoredCard
    <3>2. t.key \in DOMAIN store
      BY <3>1 DEF CardInv, SkippedHasCard
    <3>3. MergedCard(t).m = t.m
      BY <3>2 DEF MergedCard
    <3> QED  BY <3>1, <3>3 DEF Put
  <2>3. CASE PollInfoWidget(t)
    BY <2>3 DEF PollInfoWidget, Put
  <2>4. CASE SkipInfoWidget(t)
    BY <2>4 DEF SkipInfoWidget, CardInv, SkippedHasCard
  <2>5. CASE PollDiscoveredService(t)
    BY <2>5 DEF PollDiscoveredService, Put
  <2> QED  BY <2>1, <2>2, <2>3, <2>4, <2>5
<1>3. InCycle
  BY DEF CardInv, Started, InCycle
<1>4. ListedInOrder'
  BY <1>1 DEF CycleInv, ListedInOrder, InCycle
<1>5. EntriesInv'
  BY <1>1, <1>2, <1>3 DEF CycleInv, EntriesInv
<1>6. WidgetsInv'
  <2>1. ASSUME NEW i \in DOMAIN probe, NEW k \in EntryKeys(i)
        PROVE  \/ k \in DOMAIN store' /\ store'[k].m = probe[i].m
               \/ \E u \in tasks' : u.kind = "widget" /\ u.key = k
    <3>1. k[1] = "svc" /\ k[2] = i
      BY EntryKeyParts
    <3>2. CASE t.kind = "widget" /\ t.key = k
      <4>1. t.m = probe[i].m
        BY <3>1, <3>2, <1>3 DEF CycleInv, WidgetsInv
      <4> QED  BY <4>1, <3>2, <1>2
    <3>3. CASE k # t.key
      BY <3>3, <1>1, <1>2, <1>3 DEF CycleInv, WidgetsInv
    <3>4. CASE t.kind # "widget" /\ t.key = k
      <4>1. t.key[1] # "svc"
        BY <3>4, <1>2, <1>3, KeyParts
           DEF CardInv, TaskKeys, CycleInv, OthersInv, ListedInOrder, Sources
      <4> QED  BY <4>1, <3>1, <3>4
    <3> QED  BY <3>2, <3>3, <3>4
  <2>2. \A u \in tasks' : u.kind = "widget" =>
           u.key[2] \in DOMAIN probe /\ u.m = probe[u.key[2]].m
    BY <1>1, <1>3 DEF CycleInv, WidgetsInv
  <2>3. \A i : EntryKeys(i)' = EntryKeys(i)
    BY <1>1, SameKeys
  <2> QED  BY <2>1, <2>2, <2>3, <1>1 DEF WidgetsInv
<1>7. OthersInv'
  <2>1. \A u \in tasks' : u.kind = "found" =>
          u.item \in seen.found /\ u.key = FoundKey(u.item)
    BY <1>1, <1>3 DEF CycleInv, OthersInv
  <2>2. \A i \in DOMAIN seen.headers :
          \/ HeaderKey(i) \in DOMAIN store'
          \/ \E u \in tasks' : u.kind = "header" /\ u.key = HeaderKey(i)
    BY <1>1, <1>2, <1>3 DEF CycleInv, OthersInv
  <2>3. \A d \in seen.found :
          \/ FoundKey(d) \in DOMAIN store'
          \/ \E u \in tasks' : u.kind = "found" /\ u.item = d
    BY <1>1, <1>2, <1>3 DEF CycleInv, OthersInv
  <2> QED  BY <2>1, <2>2, <2>3, <1>1 DEF OthersInv
<1>8. KeepInv'
  BY <1>1, SameKeys DEF CycleInv, KeepInv, InCycle
<1>9. EndedInv'
  BY <1>1, <1>3 DEF EndedInv, Ended, InCycle
<1> QED  BY <1>4, <1>5, <1>6, <1>7, <1>8, <1>9 DEF CycleInv

\* No goroutine is left: every entry is probed and every marked key has its
\* card, so that pruning to the marked keys leaves just those.
LEMMA EndCycleCycle == ASSUME CardInv, CycleInv, EndCycle PROVE CycleInv'
<1>1. /\ phase = "wait" /\ phase' = "idle" /\ tasks = {} /\ cfg' = cfg
      /\ seen' = seen /\ probe' = probe /\ store' = Only(store, keep)
      /\ caCache' = caCache \cap caUsed /\ caUsed' = caUsed
  BY DEF EndCycle, Return, Prune, PruneCAClientCache
<1>2. ListedInOrder'
  BY <1>1 DEF CycleInv, ListedInOrder, InCycle
<1>3. EntriesInv' /\ WidgetsInv' /\ OthersInv' /\ KeepInv'
  BY <1>1 DEF EntriesInv, WidgetsInv, OthersInv, KeepInv, InCycle
<1>4. DOMAIN probe = DOMAIN seen.services
  BY <1>1 DEF CycleInv, EntriesInv, InCycle
<1>5. keep = ShownKeys
  <2>1. ShownKeys = ProbedKeys \cup {HeaderKey(i) : i \in DOMAIN seen.headers}
                               \cup {FoundKey(d) : d \in seen.found}
    <3>1. ProbedKeys = UNION {EntryKeys(i) : i \in DOMAIN seen.services}
      BY <1>4 DEF ProbedKeys
    <3> QED  BY <3>1 DEF ShownKeys
  <2> QED  BY <2>1, <1>1 DEF CycleInv, KeepInv, InCycle
<1>6. \A i \in DOMAIN probe : \A k \in EntryKeys(i) :
        k \in DOMAIN store /\ store[k].m = probe[i].m
  BY <1>1 DEF CycleInv, WidgetsInv, InCycle
<1>7. keep \subseteq DOMAIN store
  <2>1. ProbedKeys \subseteq DOMAIN store
    BY <1>6 DEF ProbedKeys
  <2>2. {HeaderKey(i) : i \in DOMAIN seen.headers} \subseteq DOMAIN store
    BY <1>1 DEF CycleInv, OthersInv, InCycle
  <2>3. {FoundKey(d) : d \in seen.found} \subseteq DOMAIN store
    BY <1>1 DEF CycleInv, OthersInv, InCycle
  <2> QED  BY <2>1, <2>2, <2>3, <1>1 DEF CycleInv, KeepInv, InCycle
<1>8. DOMAIN store' = keep /\ \A k \in keep : store'[k] = store[k]
  BY <1>1, <1>7 DEF Only
<1>9. ASSUME NEW i \in DOMAIN seen.services, NEW k \in keep, k[1] = "svc", k[2] = i
      PROVE  store[k].m = probe[i].m
  <2>1. k \in ProbedKeys
    <3>1. \A j \in DOMAIN seen.headers : k # HeaderKey(j)
      BY <1>9, KeyParts
    <3>2. \A d \in seen.found : k # FoundKey(d)
      BY <1>9, KeyParts DEF CycleInv, ListedInOrder, Sources
    <3> QED  BY <3>1, <3>2, <1>1 DEF CycleInv, KeepInv, InCycle
  <2>2. PICK j \in DOMAIN probe : k \in EntryKeys(j)
    BY <2>1 DEF ProbedKeys
  <2>3. j = i
    BY <2>2, <1>9, EntryKeyParts
  <2> QED  BY <2>2, <2>3, <1>6
<1>10. EndedInv'
  <2>1. ShownKeys' = ShownKeys
    BY <1>1 DEF ShownKeys, EntryKeys
  <2>2. AllFresh'
    BY <1>1, <1>8, <1>9 DEF AllFresh
  <2> QED  BY <2>1, <2>2, <1>1, <1>5, <1>8 DEF EndedInv
<1> QED  BY <1>2, <1>3, <1>10 DEF CycleInv

\* What a cycle has marked, written and still to write fit together in every
\* reachable state (pollOnce and the goroutines it starts).
THEOREM CyclesInductive == Spec => [](CardInv /\ CycleInv)
<1>1. ASSUME CardInv, CycleInv, [Next]_vars PROVE CycleInv'
  <2>1. CASE Edit \/ Elapse \/ UNCHANGED vars
    BY <1>1, <2>1, QuietCycle
  <2>2. CASE Begin \/ ListFails
    BY <1>1, <2>2, BeginCycle
  <2>3. CASE ListServices
    BY <1>1, <2>3, ListServicesCycle
  <2>4. CASE \E listed \in Listings : Discover(listed)
    BY <1>1, <2>4, DiscoverCycle
  <2>5. CASE \E ok \in BOOLEAN : ListHeaders(ok)
    BY <1>1, <2>5, ListHeadersCycle
  <2>6. CASE \E t \in tasks : Run(t)
    BY <1>1, <2>6, AcquireCycle, RunEntryCycle, WriteCycle DEF Run
  <2>7. CASE EndCycle
    BY <1>1, <2>7, EndCycleCycle
  <2> QED  BY <1>1, <2>1, <2>2, <2>3, <2>4, <2>5, <2>6, <2>7 DEF Next
<1> QED  BY <1>1, InitCycle, CardsInductive, PTL DEF Spec

\* After every finished cycle the Store holds a card for exactly what the cycle
\* listed, whatever was edited meanwhile and however many listings failed
\* (Store.Prune with the keys marked by pollOnce and pollServiceEntry).
THEOREM AlwaysShownExactly == Spec => []ShownExactly
<1>1. CycleInv => ShownExactly
  BY DEF CycleInv, EndedInv, ShownExactly
<1> QED  BY <1>1, CyclesInductive, PTL

\* After every finished cycle each card of an entry shows the monitor result of
\* that cycle, its widget polled or not (mergeMonitorIntoStoredCard).
THEOREM StatusAlwaysFresh == Spec => []FreshStatus
<1>1. CycleInv => FreshStatus
  BY KeyParts DEF CycleInv, EndedInv, FreshStatus, AllFresh
<1> QED  BY <1>1, CyclesInductive, PTL

\* Between cycles no client is cached for a CA bundle that the last finished
\* cycle did not read (pruneCAClientCache).
THEOREM CACacheAlwaysBounded == Spec => []CACacheBounded
<1>1. CycleInv => CACacheBounded
  BY DEF CycleInv, EndedInv, CACacheBounded
<1> QED  BY <1>1, CyclesInductive, PTL
-----------------------------------------------------------------------------
(***************************************************************************)
(* The monitorUp gauge.  Series are set by goroutines as they probe, and   *)
(* deleted only by comparing this cycle's labels with those of the last    *)
(* one that ended: SeriesInv says why that finds every stale series.       *)
(***************************************************************************)
Measured(d) == d.monitor /\ d.href # <<>> /\ ~mode.SampleData

SeriesInv ==
    /\ labels \subseteq DOMAIN exported
    /\ DOMAIN exported \subseteq prevLabels \cup labels
    /\ ~InCycle => DOMAIN exported \subseteq prevLabels
    /\ phase = "services" => labels = {}

NamesDistinct ==
    \A i, j \in DOMAIN seen.services :
      seen.services[i].name = seen.services[j].name => i = j

\* The labels of a cycle are those of its probes so far, with their values.
LabelsInv ==
    /\ \A i \in DOMAIN probe : \A s \in probe[i].sources :
         /\ Label(seen.services[i], s) \in labels
         /\ exported[Label(seen.services[i], s)] = Gauge(probe[i].m, s)
    /\ \A d \in seen.found : Measured(d) =>
         \/ FoundLabel(d) \in labels
         \/ \E t \in tasks : t.kind = "found" /\ t.item = d
    /\ \A l \in labels :
         \/ \E i \in DOMAIN probe : \E s \in probe[i].sources :
              l = Label(seen.services[i], s)
         \/ \E d \in seen.found : Measured(d) /\ l = FoundLabel(d)

MetricsInv == /\ SeriesInv /\ NamesDistinct
              /\ InCycle => LabelsInv
              /\ MetricsFollowProbes

\* The entries of a ServiceCard have names of their own.  Entries that share
\* one share a series too, whose value is that of the last probe to end.
UniqueNames ==
    \A c \in Configs : \A i, j \in DOMAIN c.services :
      c.services[i].name = c.services[j].name => i = j

LEMMA LabelParts ==
  /\ \A e, s : /\ Label(e, s)[1] = "entry" /\ Label(e, s)[2] = e.name
               /\ Label(e, s)[3] = s
  /\ \A d : FoundLabel(d)[1] = d.source
  BY DEF Label, FoundLabel

LEMMA InitMetrics == Init => MetricsInv
<1> SUFFICES ASSUME Init PROVE MetricsInv
  OBVIOUS
<1>1. SeriesInv /\ NamesDistinct
  BY DEF Init, SeriesInv, NamesDistinct, Nothing, InCycle
<1>2. MetricsFollowProbes
  BY DEF Init, MetricsFollowProbes, Ended
<1> QED  BY <1>1, <1>2 DEF MetricsInv, Init, InCycle

\* Steps that leave the gauge alone, and keep the goroutines of routes.
LEMMA QuietMetrics ==
  ASSUME MetricsInv, mode' = mode, phase' = phase, complete' = complete,
         seen' = seen, probe' = probe, labels' = labels, exported' = exported,
         prevLabels' = prevLabels,
         \A t \in tasks : t.kind = "found" =>
           \E u \in tasks' : u.kind = "found" /\ u.item = t.item
  PROVE  MetricsInv'
<1>1. SeriesInv' /\ NamesDistinct'
  BY DEF MetricsInv, SeriesInv, NamesDistinct, InCycle
<1>2. (InCycle => LabelsInv)'
  BY DEF MetricsInv, LabelsInv, InCycle, Measured
<1>3. MetricsFollowProbes'
  BY DEF MetricsInv, MetricsFollowProbes, Ended
<1> QED  BY <1>1, <1>2, <1>3 DEF MetricsInv

LEMMA EditMetrics ==
  ASSUME MetricsInv, Edit \/ Elapse \/ UNCHANGED vars
  PROVE  MetricsInv'
<1>1. /\ mode' = mode /\ phase' = phase /\ complete' = complete /\ seen' = seen
      /\ probe' = probe /\ labels' = labels /\ exported' = exported
      /\ prevLabels' = prevLabels /\ tasks' = tasks
  BY DEF Edit, Elapse, vars, cycleVars, histVars
<1> QED  BY <1>1, QuietMetrics

LEMMA AcquireMetrics ==
  ASSUME MetricsInv, NEW t \in tasks, Acquire(t)
  PROVE  MetricsInv'
<1>1. /\ mode' = mode /\ phase' = phase /\ complete' = complete /\ seen' = seen
      /\ probe' = probe /\ labels' = labels /\ exported' = exported
      /\ prevLabels' = prevLabels
  BY DEF Acquire, cycleVars, histVars
<1>2. PICK st : tasks' = WithState(t, st)
  BY DEF Acquire
<1> DEFINE n == [kind |-> t.kind, key |-> t.key, item |-> t.item, m |-> t.m,
                 st |-> st]
<1>3. tasks' = (tasks \ {t}) \cup {n} /\ n.kind = t.kind /\ n.item = t.item
  BY <1>2 DEF WithState
<1> HIDE DEF n
<1>4. \A u \in tasks : u.kind = "found" =>
        \E v \in tasks' : v.kind = "found" /\ v.item = u.item
  BY <1>3
<1> QED  BY <1>1, <1>4, QuietMetrics

LEMMA BeginMetrics ==
  ASSUME CardInv, CycleInv, MetricsInv, Begin \/ ListFails
  PROVE  MetricsInv'
<1>1. /\ seen' = Nothing /\ probe' = <<>> /\ ~complete' /\ labels' = {}
      /\ phase' \in {"idle", "services"} /\ exported' = exported
      /\ prevLabels' = prevLabels
  BY DEF Begin, ListFails, Return, CycleInv, ListedInOrder, InCycle, histVars,
         cycleVars, MetricsInv, SeriesInv
<1>2. DOMAIN exported \subseteq prevLabels
  BY DEF Begin, ListFails, InCycle, MetricsInv, SeriesInv
<1>3. SeriesInv' /\ NamesDistinct'
  BY <1>1, <1>2 DEF SeriesInv, NamesDistinct, Nothing
<1>4. (InCycle => LabelsInv)'
  BY <1>1 DEF LabelsInv, Nothing
<1>5. MetricsFollowProbes'
  BY <1>1 DEF MetricsFollowProbes, Ended
<1> QED  BY <1>3, <1>4, <1>5 DEF MetricsInv

LEMMA ListMetrics ==
  ASSUME UniqueNames, CycleInv, MetricsInv,
         ListServices \/ (\E listed : Discover(listed))
           \/ (\E ok \in BOOLEAN : ListHeaders(ok))
  PROVE  MetricsInv'
<1>1. /\ InCycle /\ InCycle' /\ ~complete' /\ phase' # "services"
      /\ mode' = mode /\ probe' = probe /\ labels' = labels /\ exported' = exported
      /\ prevLabels' = prevLabels /\ tasks \subseteq tasks'
  <2>1. CASE ListServices
    <3>1. tasks \subseteq tasks'
      BY <2>1 DEF ListServices
    <3> QED  BY <2>1, <3>1 DEF ListServices, CycleInv, ListedInOrder, InCycle, cycleVars
  <2>2. CASE \E listed : Discover(listed)
    <3>1. PICK listed : Discover(listed)
      BY <2>2
    <3> QED  BY <3>1 DEF Discover, CycleInv, ListedInOrder, InCycle
  <2>3. CASE \E ok \in BOOLEAN : ListHeaders(ok)
    BY <2>3 DEF ListHeaders, CycleInv, ListedInOrder, InCycle
  <2> QED  BY <2>1, <2>2, <2>3
<1>2. SeriesInv'
  BY <1>1 DEF MetricsInv, SeriesInv
<1>3. MetricsFollowProbes'
  BY <1>1 DEF MetricsFollowProbes, Ended
<1>4. CASE ListServices
  <2>1. /\ probe = <<>> /\ seen.found = {} /\ labels = {}
        /\ seen'.services = cfg.services /\ seen'.found = {} /\ cfg \in Configs
    BY <1>4 DEF ListServices, CycleInv, ListedInOrder, Nothing, MetricsInv, SeriesInv
  <2>2. NamesDistinct'
    BY <2>1 DEF NamesDistinct, UniqueNames
  <2>3. LabelsInv'
    BY <2>1, <1>1 DEF LabelsInv
  <2> QED  BY <2>2, <2>3, <1>2, <1>3 DEF MetricsInv
<1>5. CASE \E listed : Discover(listed)
  <2>1. PICK listed : Discover(listed)
    BY <1>5
  <2>2. /\ seen'.services = seen.services /\ seen.found = {}
        /\ seen'.found = Found(listed)
        /\ \A d \in Found(listed) : Task("found", FoundKey(d), d, NoResult) \in tasks'
    BY <2>1 DEF Discover, CycleInv, ListedInOrder
  <2>3. \A d : /\ Task("found", FoundKey(d), d, NoResult).kind = "found"
               /\ Task("found", FoundKey(d), d, NoResult).item = d
    BY DEF Task
  <2>4. NamesDistinct'
    BY <2>2 DEF MetricsInv, NamesDistinct
  <2>5. LabelsInv'
    BY <2>2, <2>3, <1>1 DEF MetricsInv, LabelsInv
  <2> QED  BY <2>4, <2>5, <1>2, <1>3 DEF MetricsInv
<1>6. CASE \E ok \in BOOLEAN : ListHeaders(ok)
  <2>1. seen'.services = seen.services /\ seen'.found = seen.found
    BY <1>6 DEF ListHeaders, CycleInv, ListedInOrder
  <2>2. NamesDistinct'
    BY <2>1 DEF MetricsInv, NamesDistinct
  <2>3. LabelsInv'
    BY <2>1, <1>1 DEF MetricsInv, LabelsInv, Measured
  <2> QED  BY <2>2, <2>3, <1>2, <1>3 DEF MetricsInv
<1> QED  BY <1>4, <1>5, <1>6

\* A probe sets the series of its own entry, whose name no other entry has.
LEMMA RunEntryMetrics ==
  ASSUME CardInv, CycleInv, MetricsInv, NEW t \in tasks, RunEntry(t)
  PROVE  MetricsInv'
<1> DEFINE i == t.key[2]
<1> DEFINE e == t.item
<1>1. PICK r, started :
        /\ labels' = labels \cup {Label(e, s) : s \in r.sources}
        /\ exported' = SetAll(exported, [l \in {Label(e, s) : s \in r.sources} |->
                                           Gauge(r.m, l[3])])
        /\ probe' = Put(probe, i, r)
        /\ tasks' = (tasks \ {t}) \cup started
  BY DEF RunEntry, Done
<1>2. /\ t.kind = "entry" /\ phase' = phase /\ complete' = complete
      /\ seen' = seen /\ prevLabels' = prevLabels /\ mode' = mode
  BY DEF RunEntry
<1>3. InCycle /\ ~complete /\ phase # "services"
  BY DEF CardInv, Started, InCycle, CycleInv, ListedInOrder
<1>4. i \in DOMAIN seen.services \ DOMAIN probe /\ e = seen.services[i]
  BY <1>2, <1>3 DEF CycleInv, EntriesInv
<1>5. DOMAIN probe \subseteq DOMAIN seen.services
  BY <1>3 DEF CycleInv, EntriesInv
<1>6. /\ DOMAIN probe' = DOMAIN probe \cup {i} /\ probe'[i] = r
      /\ \A j \in DOMAIN probe : j # i /\ probe'[j] = probe[j]
  BY <1>1, <1>4 DEF Put
<1> DEFINE R == {Label(e, s) : s \in r.sources}
<1>7. /\ labels' = labels \cup R /\ DOMAIN exported' = DOMAIN exported \cup R
      /\ \A l \in DOMAIN exported \ R : exported'[l] = exported[l]
      /\ \A l \in R : exported'[l] = Gauge(r.m, l[3])
  BY <1>1 DEF SetAll
<1>8. /\ \A s \in r.sources : Label(e, s) \in R
      /\ \A l \in R : \E s \in r.sources : l = Label(e, s)
  OBVIOUS
<1> HIDE DEF R, i, e
<1>9. SeriesInv'
  BY <1>2, <1>3, <1>7 DEF MetricsInv, SeriesInv, InCycle
<1>10. NamesDistinct'
  BY <1>2 DEF MetricsInv, NamesDistinct
<1>11. LabelsInv'
  <2>1. ASSUME NEW j \in DOMAIN probe, NEW s \in probe[j].sources
        PROVE  /\ Label(seen.services[j], s) \in labels'
               /\ exported'[Label(seen.services[j], s)] = Gauge(probe[j].m, s)
    <3>1. /\ Label(seen.services[j], s) \in labels
          /\ exported[Label(seen.services[j], s)] = Gauge(probe[j].m, s)
      BY <1>3 DEF MetricsInv, LabelsInv
    <3>2. Label(seen.services[j], s) \notin R
      <4>1. seen.services[j].name # seen.services[i].name
        BY <1>4, <1>5, <1>6 DEF MetricsInv, NamesDistinct
      <4> QED  BY <4>1, <1>4, <1>8, LabelParts
    <3>3. Label(seen.services[j], s) \in DOMAIN exported
      BY <3>1 DEF MetricsInv, SeriesInv
    <3> QED  BY <3>1, <3>2, <3>3, <1>7
  <2>2. ASSUME NEW s \in r.sources
        PROVE  /\ Label(seen.services[i], s) \in labels'
               /\ exported'[Label(seen.services[i], s)] = Gauge(r.m, s)
    BY <1>4, <1>7, <1>8, LabelParts
  <2>3. \A j \in DOMAIN probe' : \A s \in probe'[j].sources :
          /\ Label(seen.services[j], s) \in labels'
          /\ exported'[Label(seen.services[j], s)] = Gauge(probe'[j].m, s)
    BY <2>1, <2>2, <1>6
  <2>4. \A d \in seen.found : Measured(d) =>
          \/ FoundLabel(d) \in labels'
          \/ \E u \in tasks' : u.kind = "found" /\ u.item = d
    BY <1>1, <1>2, <1>3, <1>7 DEF MetricsInv, LabelsInv
  <2>5. ASSUME NEW l \in labels
        PROVE  \/ \E j \in DOMAIN probe' : \E s \in probe'[j].sources :
                    l = Label(seen.services[j], s)
               \/ \E d \in seen.found : Measured(d) /\ l = FoundLabel(d)
    BY <1>3, <1>6 DEF MetricsInv, LabelsInv
  <2>6. ASSUME NEW l \in R
        PROVE  \E j \in DOMAIN probe' : \E s \in probe'[j].sources :
                 l = Label(seen.services[j], s)
    BY <1>4, <1>6, <1>8
  <2>7. \A d : Measured(d)' <=> Measured(d)
    BY <1>2 DEF Measured
  <2> QED  BY <2>3, <2>4, <2>5, <2>6, <2>7, <1>2, <1>7 DEF LabelsInv
<1>12. MetricsFollowProbes'
  BY <1>2, <1>3 DEF MetricsFollowProbes, Ended, InCycle
<1> QED  BY <1>9, <1>10, <1>11, <1>12 DEF MetricsInv

LEMMA WriteMetrics ==
  ASSUME CardInv, CycleInv, MetricsInv, NEW t \in tasks,
         PollWidget(t) \/ MergeMonitorIntoStoredCard(t) \/ PollInfoWidget(t)
           \/ SkipInfoWidget(t)
  PROVE  MetricsInv'
<1>1. /\ mode' = mode /\ phase' = phase /\ complete' = complete /\ seen' = seen
      /\ probe' = probe /\ labels' = labels /\ exported' = exported
      /\ prevLabels' = prevLabels /\ tasks' = tasks \ {t} /\ t.kind # "found"
  <2>1. CASE PollWidget(t)
    BY <2>1 DEF PollWidget, Done, cycleVars
  <2>2. CASE MergeMonitorIntoStoredCard(t)
    BY <2>2 DEF MergeMonitorIntoStoredCard, Done, cycleVars, histVars
  <2>3. CASE PollInfoWidget(t)
    BY <2>3 DEF PollInfoWidget, Done, cycleVars
  <2>4. CASE SkipInfoWidget(t)
    BY <2>4 DEF SkipInfoWidget, Done, cycleVars, histVars
  <2> QED  BY <2>1, <2>2, <2>3, <2>4
<1> QED  BY <1>1, QuietMetrics

LEMMA FoundMetrics ==
  ASSUME CardInv, CycleInv, MetricsInv, NEW t \in tasks, PollDiscoveredService(t)
  PROVE  MetricsInv'
<1> DEFINE d == t.item
<1>1. PICK R, V :
        /\ R = {} \/ (R = {FoundLabel(d)} /\ Measured(d))
        /\ Measured(d) => R = {FoundLabel(d)}
        /\ DOMAIN V = R
        /\ labels' = labels \cup R
        /\ exported' = SetAll(exported, V)
  <2>1. PICK s \in IF ~d.monitor \/ d.href = <<>> THEN {""}
                   ELSE IF mode.SampleData THEN {"Up"} ELSE {"Up", "Down"} :
          LET R == IF s # "" /\ ~mode.SampleData THEN {FoundLabel(d)} ELSE {}
          IN  /\ labels' = labels \cup R
              /\ exported' = SetAll(exported, [l \in R |-> s = "Up"])
    BY DEF PollDiscoveredService
  <2> DEFINE R == IF s # "" /\ ~mode.SampleData THEN {FoundLabel(d)} ELSE {}
  <2> DEFINE V == [l \in R |-> s = "Up"]
  <2>2. s # "" <=> d.monitor /\ d.href # <<>>
    BY <2>1
  <2>3. /\ R = {} \/ (R = {FoundLabel(d)} /\ Measured(d))
        /\ Measured(d) => R = {FoundLabel(d)}
    <3>1. CASE s # "" /\ ~mode.SampleData
      <4>1. Measured(d)
        BY <3>1, <2>2 DEF Measured
      <4> QED  BY <4>1, <3>1
    <3>2. CASE ~(s # "" /\ ~mode.SampleData)
      <4>1. ~Measured(d)
        BY <3>2, <2>2 DEF Measured
      <4>2. R = {}
        BY <3>2, Zenon
      <4> HIDE DEF R
      <4> QED  BY <4>1, <4>2
    <3> QED  BY <3>1, <3>2
  <2> QED  BY <2>1, <2>3
<1>2. /\ t.kind = "found" /\ tasks' = tasks \ {t} /\ mode' = mode /\ seen' = seen
      /\ phase' = phase /\ complete' = complete /\ probe' = probe
      /\ prevLabels' = prevLabels
  BY DEF PollDiscoveredService, Done, histVars
<1>3. InCycle /\ ~complete /\ phase # "services"
  BY DEF CardInv, Started, InCycle, CycleInv, ListedInOrder
<1>4. d \in seen.found /\ d.source \in Sources
  BY <1>2, <1>3 DEF CycleInv, OthersInv, ListedInOrder
<1>5. /\ DOMAIN exported' = DOMAIN exported \cup R
      /\ \A l \in DOMAIN exported \ R : exported'[l] = exported[l]
  BY <1>1 DEF SetAll
<1> HIDE DEF d
<1>6. SeriesInv'
  BY <1>1, <1>2, <1>3, <1>5 DEF MetricsInv, SeriesInv, InCycle
<1>7. NamesDistinct'
  BY <1>2 DEF MetricsInv, NamesDistinct
<1>8. LabelsInv'
  <2>1. \A c : Measured(c)' <=> Measured(c)
    BY <1>2 DEF Measured
  <2>2. ASSUME NEW i \in DOMAIN probe, NEW s \in probe[i].sources
        PROVE  /\ Label(seen.services[i], s) \in labels'
               /\ exported'[Label(seen.services[i], s)] = Gauge(probe[i].m, s)
    <3>1. /\ Label(seen.services[i], s) \in labels
          /\ exported[Label(seen.services[i], s)] = Gauge(probe[i].m, s)
      BY <1>3 DEF MetricsInv, LabelsInv
    <3>2. Label(seen.services[i], s) \notin R
      BY <1>1, <1>4, LabelParts DEF Sources
    <3>3. Label(seen.services[i], s) \in DOMAIN exported
      BY <3>1 DEF MetricsInv, SeriesInv
    <3> QED  BY <3>1, <3>2, <3>3, <1>1, <1>5
  <2>3. ASSUME NEW c \in seen.found, Measured(c)
        PROVE  \/ FoundLabel(c) \in labels'
               \/ \E u \in tasks' : u.kind = "found" /\ u.item = c
    <3>1. CASE c = d
      BY <3>1, <2>3, <1>1
    <3>2. CASE c # d
      BY <3>2, <2>3, <1>1, <1>2, <1>3 DEF MetricsInv, LabelsInv, d
    <3> QED  BY <3>1, <3>2
  <2>4. ASSUME NEW l \in labels'
        PROVE  \/ \E i \in DOMAIN probe : \E s \in probe[i].sources :
                    l = Label(seen.services[i], s)
               \/ \E c \in seen.found : Measured(c) /\ l = FoundLabel(c)
    <3>1. CASE l \in labels
      BY <3>1, <1>3 DEF MetricsInv, LabelsInv
    <3>2. CASE l \in R
      BY <3>2, <1>1, <1>4
    <3> QED  BY <3>1, <3>2, <1>1
  <2> QED  BY <2>1, <2>2, <2>3, <2>4, <1>2 DEF LabelsInv
<1>9. MetricsFollowProbes'
  BY <1>2, <1>3 DEF MetricsFollowProbes, Ended, InCycle
<1> QED  BY <1>6, <1>7, <1>8, <1>9 DEF MetricsInv

\* Every entry and route is probed, and what was exported before is either a
\* label of this cycle or one of the last.
LEMMA EndCycleMetrics ==
  ASSUME CardInv, CycleInv, MetricsInv, EndCycle
  PROVE  MetricsInv'
<1>1. /\ phase = "wait" /\ phase' = "idle" /\ tasks = {} /\ mode' = mode
      /\ seen' = seen /\ probe' = probe /\ labels' = labels /\ prevLabels' = labels
      /\ exported' = Only(exported, DOMAIN exported \ (prevLabels \ labels))
  BY DEF EndCycle, Return, PruneMonitorMetrics, cycleVars
<1>2. InCycle
  BY <1>1 DEF InCycle
<1>3. DOMAIN exported' = labels /\ \A l \in labels : exported'[l] = exported[l]
  <2>1. DOMAIN exported \ (prevLabels \ labels) = labels
    BY DEF MetricsInv, SeriesInv
  <2> QED  BY <2>1, <1>1 DEF Only, MetricsInv, SeriesInv
<1>4. SeriesInv' /\ NamesDistinct'
  BY <1>1, <1>3 DEF MetricsInv, SeriesInv, NamesDistinct, InCycle
<1>5. DOMAIN probe = DOMAIN seen.services
  BY <1>1, <1>2 DEF CycleInv, EntriesInv
<1>6. MetricsFollowProbes'
  <2> DEFINE Ls == UNION {{Label(seen.services[i], s) : s \in probe[i].sources} :
                             i \in DOMAIN seen.services}
  <2> DEFINE Ds == {f \in seen.found : f.monitor /\ f.href # <<>> /\ ~mode.SampleData}
  <2> DEFINE Fs == {FoundLabel(d) : d \in Ds}
  <2>1. \A l : l \in Ls <=> \E i \in DOMAIN probe : \E s \in probe[i].sources :
                              l = Label(seen.services[i], s)
    BY <1>5
  <2>2. \A l : l \in Fs <=> \E d \in seen.found : Measured(d) /\ l = FoundLabel(d)
    BY DEF Measured
  <2> HIDE DEF Ls, Fs
  <2>3. \A l \in labels : l \in Ls \cup Fs
    BY <2>1, <2>2, <1>2 DEF MetricsInv, LabelsInv
  <2>4. \A l \in Ls : l \in labels
    BY <2>1, <1>2 DEF MetricsInv, LabelsInv
  <2>5. \A l \in Fs : l \in labels
    BY <2>2, <1>1, <1>2 DEF MetricsInv, LabelsInv
  <2>6. labels = Ls \cup Fs
    BY <2>3, <2>4, <2>5
  <2>7. \A i \in DOMAIN seen.services : \A s \in probe[i].sources :
           exported'[Label(seen.services[i], s)] = Gauge(probe[i].m, s)
    BY <1>2, <1>3, <1>5 DEF MetricsInv, LabelsInv
  <2> QED  BY <2>6, <2>7, <1>1, <1>3 DEF MetricsFollowProbes, Ls, Fs
<1> QED  BY <1>1, <1>4, <1>6 DEF MetricsInv, InCycle

\* After every finished cycle the monitorUp gauge has one series for each source
\* the cycle probed, with that probe's value, and no other (recordMonitor,
\* pruneMonitorMetrics), as long as entries have names of their own.
THEOREM MetricsAlwaysFollowProbes ==
  ASSUME UniqueNames
  PROVE  Spec => []MetricsFollowProbes
<1>1. ASSUME CardInv, CycleInv, MetricsInv, [Next]_vars PROVE MetricsInv'
  <2>1. CASE Edit \/ Elapse \/ UNCHANGED vars
    BY <1>1, <2>1, EditMetrics
  <2>2. CASE Begin \/ ListFails
    BY <1>1, <2>2, BeginMetrics
  <2>3. CASE ListServices \/ (\E listed \in Listings : Discover(listed))
               \/ (\E ok \in BOOLEAN : ListHeaders(ok))
    BY <1>1, <2>3, ListMetrics
  <2>4. CASE \E t \in tasks : Run(t)
    BY <1>1, <2>4, AcquireMetrics, RunEntryMetrics, WriteMetrics, FoundMetrics
       DEF Run
  <2>5. CASE EndCycle
    BY <1>1, <2>5, EndCycleMetrics
  <2> QED  BY <1>1, <2>1, <2>2, <2>3, <2>4, <2>5 DEF Next
<1>2. Spec => []MetricsInv
  BY <1>1, InitMetrics, CyclesInductive, PTL DEF Spec
<1>3. MetricsInv => MetricsFollowProbes
  BY DEF MetricsInv
<1> QED  BY <1>2, <1>3, PTL
-----------------------------------------------------------------------------
(***************************************************************************)
(* Discovered routes.                                                      *)
(***************************************************************************)
FoundIn(routes, listed) ==
    UNION {discoverServices(s, routes, {n \in Searched : <<s, n>> \in listed},
                            dash.discovery) : s \in ActiveSources}

\* The card that pollDiscoveredService writes for d.
FoundCard(d) ==
    /\ FoundKey(d) \in DOMAIN store
    /\ store[FoundKey(d)].name = d.name
    /\ store[FoundKey(d)].m.status # "" <=> d.monitor /\ d.href # <<>>

SameRoute(o, p) ==
    o.source = p.source /\ o.namespace = p.namespace /\ o.name = p.name

RoutesInv ==
    /\ \A o \in seen.routes : o.source \in Sources
    /\ \A o, p \in seen.routes : SameRoute(o, p) => o = p
    /\ phase \in {"headers", "wait"} \/ Ended =>
         seen.found = FoundIn(seen.routes, seen.listed)
    /\ InCycle => \A d \in seen.found :
         FoundCard(d) \/ \E t \in tasks : t.kind = "found" /\ t.item = d
    /\ Ended => \A d \in seen.found : FoundCard(d)

\* No two objects of one kind and namespace have one name, as Kubernetes ensures.
UniqueRoutes ==
    \A c \in Configs : \A o, p \in c.routes : SameRoute(o, p) => o = p

\* What is found, and from which object and annotations.
Yields(o, ann, listed) ==
    /\ o.source \in ActiveSources /\ o.namespace \in Searched
    /\ <<o.source, Own>> \in listed /\ <<o.source, o.namespace>> \in listed
    /\ ann \in discoveryAnnotations(o.annotations, dash.discovery)

LEMMA FoundMember ==
  ASSUME NEW routes, NEW listed
  PROVE  \A d : d \in FoundIn(routes, listed) <=>
           \E o \in routes : \E ann :
             Yields(o, ann, listed) /\ d = discoveredService(o, ann)
<1> DEFINE L(s) == {n \in Searched : <<s, n>> \in listed}
<1> DEFINE D(s) == discoverServices(s, routes, L(s), dash.discovery)
<1>1. ASSUME NEW s, NEW d
      PROVE  d \in D(s) <=>
               \E o \in routes : \E ann :
                 /\ o.source = s /\ o.namespace \in Searched
                 /\ <<s, Own>> \in listed /\ <<s, o.namespace>> \in listed
                 /\ ann \in discoveryAnnotations(o.annotations, dash.discovery)
                 /\ d = discoveredService(o, ann)
  <2>1. Own \in L(s) <=> <<s, Own>> \in listed
    BY DEF Searched
  <2>2. L(s) \cap ({Own} \cup extraDiscoveryNamespaces(dash.discovery)) = L(s)
    BY DEF Searched
  <2>3. \A n : n \in L(s) <=> n \in Searched /\ <<s, n>> \in listed
    OBVIOUS
  <2> HIDE DEF L
  <2> DEFINE A(o) == discoveryAnnotations(o.annotations, dash.discovery)
  <2> DEFINE O == {o \in routes : o.source = s /\ o.namespace \in L(s)}
  <2>4. D(s) = IF Own \notin L(s) THEN {}
               ELSE UNION {{discoveredService(o, ann) : ann \in A(o)} : o \in O}
    BY <2>2 DEF discoverServices
  <2>5. d \in UNION {{discoveredService(o, ann) : ann \in A(o)} : o \in O} <=>
          \E o \in O : \E ann \in A(o) : d = discoveredService(o, ann)
    OBVIOUS
  <2>6. \A o : o \in O <=> /\ o \in routes /\ o.source = s /\ o.namespace \in Searched
                           /\ <<s, o.namespace>> \in listed
    BY <2>3
  <2> HIDE DEF A, O, D
  <2>7. d \in D(s) <=> /\ <<s, Own>> \in listed
                       /\ \E o \in O : \E ann \in A(o) : d = discoveredService(o, ann)
    BY <2>1, <2>4, <2>5
  <2> QED  BY <2>6, <2>7 DEF A
<1>2. \A d : d \in FoundIn(routes, listed) <=> \E s \in ActiveSources : d \in D(s)
  BY DEF FoundIn
<1> HIDE DEF D, L
<1> SUFFICES ASSUME NEW d
             PROVE  d \in FoundIn(routes, listed) <=>
                      \E o \in routes : \E ann :
                        Yields(o, ann, listed) /\ d = discoveredService(o, ann)
  OBVIOUS
<1>3. ASSUME d \in FoundIn(routes, listed)
      PROVE  \E o \in routes : \E ann :
               Yields(o, ann, listed) /\ d = discoveredService(o, ann)
  <2>1. PICK s \in ActiveSources : d \in D(s)
    BY <1>2, <1>3
  <2>2. PICK o \in routes : \E ann :
          /\ o.source = s /\ o.namespace \in Searched
          /\ <<s, Own>> \in listed /\ <<s, o.namespace>> \in listed
          /\ ann \in discoveryAnnotations(o.annotations, dash.discovery)
          /\ d = discoveredService(o, ann)
    BY <2>1, <1>1
  <2> QED  BY <2>2 DEF Yields
<1>4. ASSUME NEW o \in routes, NEW ann, Yields(o, ann, listed),
             d = discoveredService(o, ann)
      PROVE  d \in FoundIn(routes, listed)
  <2>1. d \in D(o.source)
    BY <1>1, <1>4 DEF Yields
  <2> QED  BY <2>1, <1>2, <1>4 DEF Yields
<1> QED  BY <1>3, <1>4

LEMMA OneConvention ==
  ASSUME NEW annotations, NEW spec, NEW a \in discoveryAnnotations(annotations, spec),
         NEW b \in discoveryAnnotations(annotations, spec)
  PROVE  a = b
  BY DEF discoveryAnnotations

\* No two of the found share a key, since no two routes do.
LEMMA FoundDistinct ==
  ASSUME RoutesInv, phase \in {"headers", "wait"} \/ Ended, NEW c \in seen.found,
         NEW d \in seen.found, FoundKey(c) = FoundKey(d)
  PROVE  c = d
<1>1. PICK o \in seen.routes : \E ann :
        Yields(o, ann, seen.listed) /\ c = discoveredService(o, ann)
  BY FoundMember DEF RoutesInv
<1>2. PICK a : Yields(o, a, seen.listed) /\ c = discoveredService(o, a)
  BY <1>1
<1>3. PICK p \in seen.routes : \E ann :
        Yields(p, ann, seen.listed) /\ d = discoveredService(p, ann)
  BY FoundMember DEF RoutesInv
<1>4. PICK b : Yields(p, b, seen.listed) /\ d = discoveredService(p, b)
  BY <1>3
<1>5. /\ c.source = o.source /\ c.namespace = o.namespace /\ c.id = o.name
      /\ d.source = p.source /\ d.namespace = p.namespace /\ d.id = p.name
  BY <1>2, <1>4 DEF discoveredService
<1>6. c.source = d.source /\ c.namespace = d.namespace /\ c.id = d.id
  BY KeyParts
<1>7. SameRoute(o, p)
  BY <1>5, <1>6 DEF SameRoute
<1>8. o = p
  BY <1>7 DEF RoutesInv
<1>9. a = b
  BY <1>2, <1>4, <1>8, OneConvention DEF Yields
<1> QED  BY <1>2, <1>4, <1>8, <1>9

LEMMA InitRoutes == Init => RoutesInv
<1> SUFFICES ASSUME Init PROVE RoutesInv
  OBVIOUS
<1>1. seen.routes = {} /\ seen.found = {} /\ phase = "idle" /\ ~complete
  BY DEF Init, Nothing
<1> QED  BY <1>1 DEF RoutesInv, Ended

\* Steps that keep the listing, the cards of routes and their goroutines.
LEMMA QuietRoutes ==
  ASSUME CycleInv, RoutesInv, mode' = mode, phase' = phase, complete' = complete,
         seen' = seen, dash' = dash,
         \A d \in seen.found : FoundCard(d) => FoundCard(d)',
         \A t \in tasks : t.kind = "found" =>
           \E u \in tasks' : u.kind = "found" /\ u.item = t.item
  PROVE  RoutesInv'
<1>1. \A r, l : FoundIn(r, l)' = FoundIn(r, l)
  BY DEF FoundIn, ActiveSources, Searched
<1> QED  BY <1>1 DEF RoutesInv, Ended, InCycle, SameRoute

\* A write under a key of another kind leaves the cards of routes alone.
LEMMA OtherWrite ==
  ASSUME CycleInv, NEW k, k[1] \notin Sources, DOMAIN store \subseteq DOMAIN store',
         \A x \in DOMAIN store : x # k => store'[x] = store[x]
  PROVE  \A d \in seen.found : FoundCard(d) => FoundCard(d)'
<1> SUFFICES ASSUME NEW d \in seen.found, FoundCard(d) PROVE FoundCard(d)'
  OBVIOUS
<1>1. FoundKey(d) # k
  BY KeyParts DEF CycleInv, ListedInOrder
<1>2. FoundKey(d) \in DOMAIN store' /\ store'[FoundKey(d)] = store[FoundKey(d)]
  BY <1>1 DEF FoundCard
<1> QED  BY <1>2 DEF FoundCard

LEMMA EditRoutes ==
  ASSUME CycleInv, RoutesInv, Edit \/ Elapse \/ UNCHANGED vars
  PROVE  RoutesInv'
<1>1. /\ mode' = mode /\ phase' = phase /\ complete' = complete /\ seen' = seen
      /\ dash' = dash /\ store' = store /\ tasks' = tasks
  BY DEF Edit, Elapse, vars, cycleVars, histVars
<1>2. \A d : FoundCard(d) => FoundCard(d)'
  BY <1>1 DEF FoundCard
<1> QED  BY <1>1, <1>2, QuietRoutes

LEMMA RunRoutes ==
  ASSUME CardInv, CycleInv, RoutesInv, NEW t \in tasks,
         Acquire(t) \/ RunEntry(t) \/ PollWidget(t) \/ MergeMonitorIntoStoredCard(t)
           \/ PollInfoWidget(t) \/ SkipInfoWidget(t)
  PROVE  RoutesInv'
<1>1. /\ mode' = mode /\ phase' = phase /\ complete' = complete /\ seen' = seen
      /\ dash' = dash
  BY DEF Acquire, RunEntry, PollWidget, MergeMonitorIntoStoredCard, PollInfoWidget,
         SkipInfoWidget, cycleVars, histVars
<1>2. \A u \in tasks : u.kind = "found" =>
        \E v \in tasks' : v.kind = "found" /\ v.item = u.item
  <2>1. CASE Acquire(t)
    <3>1. PICK st : tasks' = WithState(t, st)
      BY <2>1 DEF Acquire
    <3> DEFINE n == [kind |-> t.kind, key |-> t.key, item |-> t.item, m |-> t.m,
                     st |-> st]
    <3>2. tasks' = (tasks \ {t}) \cup {n} /\ n.kind = t.kind /\ n.item = t.item
      BY <3>1 DEF WithState
    <3> HIDE DEF n
    <3> QED  BY <3>2
  <2>2. CASE ~Acquire(t)
    <3>1. t.kind # "found" /\ tasks \ {t} \subseteq tasks'
      BY <2>2 DEF RunEntry, PollWidget, MergeMonitorIntoStoredCard, PollInfoWidget,
                  SkipInfoWidget, Done
    <3> QED  BY <3>1
  <2> QED  BY <2>1, <2>2
<1>3. \E k : /\ k[1] \notin Sources /\ DOMAIN store \subseteq DOMAIN store'
             /\ \A x \in DOMAIN store : x # k => store'[x] = store[x]
  <2>1. CASE Acquire(t) \/ SkipInfoWidget(t)
    <3>1. store' = store
      BY <2>1 DEF Acquire, SkipInfoWidget
    <3>2. HeaderKey(1)[1] \notin Sources
      BY KeyParts DEF Sources
    <3> QED  BY <3>1, <3>2
  <2>2. CASE RunEntry(t)
    <3>1. store' = store \/ \E c : store' = Put(store, MonitorKey(t.key[2]), c)
      BY <2>2 DEF RunEntry
    <3>2. MonitorKey(t.key[2])[1] \notin Sources
      BY KeyParts DEF Sources
    <3> QED  BY <3>1, <3>2 DEF Put
  <2>3. CASE PollWidget(t) \/ MergeMonitorIntoStoredCard(t) \/ PollInfoWidget(t)
    <3>1. t.kind \in {"widget", "header"} /\ \E c : store' = Put(store, t.key, c)
      BY <2>3 DEF PollWidget, MergeMonitorIntoStoredCard, PollInfoWidget
    <3>2. t.key[1] \notin Sources
      BY <3>1 DEF CardInv, TaskKeys, Sources
    <3> QED  BY <3>1, <3>2 DEF Put
  <2> QED  BY <2>1, <2>2, <2>3
<1>4. \A d \in seen.found : FoundCard(d) => FoundCard(d)'
  BY <1>3, OtherWrite
<1> QED  BY <1>1, <1>2, <1>4, QuietRoutes

LEMMA BeginRoutes ==
  ASSUME CycleInv, RoutesInv, Begin \/ ListFails \/ ListServices
  PROVE  RoutesInv'
<1>1. /\ seen'.found = {} /\ seen'.routes = {} /\ ~complete'
      /\ phase' \notin {"headers", "wait"}
  BY DEF Begin, ListFails, ListServices, Return, CycleInv, ListedInOrder, InCycle,
         histVars, Nothing
<1> QED  BY <1>1 DEF RoutesInv, Ended

LEMMA DiscoverRoutes ==
  ASSUME UniqueRoutes, CycleInv, RoutesInv, NEW listed, Discover(listed)
  PROVE  RoutesInv'
<1>1. /\ seen'.found = Found(listed) /\ seen'.routes = cfg.routes
      /\ seen'.listed = listed /\ cfg \in Configs /\ ~complete' /\ InCycle
  BY DEF Discover, CycleInv, ListedInOrder, InCycle
<1>2. mode' = mode /\ dash' = dash
  BY DEF Discover
<1>3. FoundIn(cfg.routes, listed)' = Found(listed)
  BY <1>2 DEF FoundIn, Found, ActiveSources, Searched, Discover
<1>4. \A d \in Found(listed) : \E t \in tasks' : t.kind = "found" /\ t.item = d
  <2>1. \A d \in Found(listed) : Task("found", FoundKey(d), d, NoResult) \in tasks'
    BY DEF Discover
  <2>2. \A d : /\ Task("found", FoundKey(d), d, NoResult).kind = "found"
               /\ Task("found", FoundKey(d), d, NoResult).item = d
    BY DEF Task
  <2> QED  BY <2>1, <2>2
<1>5. /\ \A o \in cfg.routes : o.source \in Sources
      /\ \A o, p \in cfg.routes : SameRoute(o, p) => o = p
  BY <1>1, PollerAssumption DEF UniqueRoutes, ConfigOK
<1>6. cfg' = cfg
  BY DEF Discover
<1> QED  BY <1>1, <1>3, <1>4, <1>5, <1>6 DEF RoutesInv, Ended

LEMMA ListHeadersRoutes ==
  ASSUME CycleInv, RoutesInv, NEW ok \in BOOLEAN, ListHeaders(ok)
  PROVE  RoutesInv'
<1>1. /\ seen'.found = seen.found /\ seen'.routes = seen.routes
      /\ seen'.listed = seen.listed /\ ~complete' /\ phase = "headers"
      /\ mode' = mode /\ dash' = dash /\ store' = store /\ tasks \subseteq tasks'
  BY DEF ListHeaders, CycleInv, ListedInOrder, InCycle
<1>2. \A r, l : FoundIn(r, l)' = FoundIn(r, l)
  BY <1>1 DEF FoundIn, ActiveSources, Searched
<1>3. \A d : FoundCard(d)' <=> FoundCard(d)
  BY <1>1 DEF FoundCard
<1> QED  BY <1>1, <1>2, <1>3 DEF RoutesInv, Ended, InCycle

\* The route's card says what its annotations say.  Only this route has its key.
LEMMA FoundRoutes ==
  ASSUME CardInv, CycleInv, RoutesInv, NEW t \in tasks, PollDiscoveredService(t)
  PROVE  RoutesInv'
<1> DEFINE d == t.item
<1>1. PICK s : /\ s # "" <=> d.monitor /\ d.href # <<>>
               /\ store' = Put(store, t.key, [Card(d.name) EXCEPT !.m.status = s])
  <2>1. PICK s \in IF ~d.monitor \/ d.href = <<>> THEN {""}
                   ELSE IF mode.SampleData THEN {"Up"} ELSE {"Up", "Down"} :
          store' = Put(store, t.key, [Card(d.name) EXCEPT !.m.status = s])
    BY DEF PollDiscoveredService
  <2>2. s # "" <=> d.monitor /\ d.href # <<>>
    BY <2>1
  <2> QED  BY <2>1, <2>2
<1>2. /\ t.kind = "found" /\ tasks' = tasks \ {t} /\ mode' = mode /\ seen' = seen
      /\ phase' = phase /\ complete' = complete /\ dash' = dash
  BY DEF PollDiscoveredService, Done, histVars
<1>3. InCycle /\ phase \in {"headers", "wait"} /\ ~complete
  BY <1>2 DEF CardInv, Started, InCycle, Phases, CycleInv, ListedInOrder
<1>4. d \in seen.found /\ t.key = FoundKey(d)
  BY <1>2, <1>3 DEF CycleInv, OthersInv
<1> DEFINE C == [Card(d.name) EXCEPT !.m.status = s]
<1>5. C.name = d.name /\ C.m.status = s
  BY DEF Card, NoResult
<1>6. /\ t.key \in DOMAIN store' /\ store'[t.key] = C
      /\ \A k \in DOMAIN store : k \in DOMAIN store' /\ (k # t.key => store'[k] = store[k])
  BY <1>1 DEF Put
<1> HIDE DEF C
<1>7. FoundCard(d)'
  BY <1>1, <1>4, <1>5, <1>6 DEF FoundCard
<1> HIDE DEF d
<1>8. ASSUME NEW c \in seen.found
      PROVE  FoundCard(c)' \/ \E u \in tasks' : u.kind = "found" /\ u.item = c
  <2>1. CASE c = d
    BY <2>1, <1>7
  <2>2. CASE c # d
    <3>1. FoundKey(c) # t.key
      BY <2>2, <1>3, <1>4, FoundDistinct
    <3>2. FoundCard(c) => FoundCard(c)'
      BY <3>1, <1>6 DEF FoundCard
    <3> QED  BY <2>2, <3>2, <1>2, <1>3 DEF RoutesInv, d
  <2> QED  BY <2>1, <2>2
<1>9. \A r, l : FoundIn(r, l)' = FoundIn(r, l)
  BY <1>2 DEF FoundIn, ActiveSources, Searched
<1> QED  BY <1>2, <1>3, <1>8, <1>9 DEF RoutesInv, Ended, InCycle, SameRoute

LEMMA EndCycleRoutes ==
  ASSUME CycleInv, RoutesInv, EndCycle
  PROVE  RoutesInv'
<1>1. /\ phase = "wait" /\ phase' = "idle" /\ tasks = {} /\ mode' = mode
      /\ seen' = seen /\ dash' = dash /\ store' = Only(store, keep)
  BY DEF EndCycle, Return, Prune, cycleVars
<1>2. ASSUME NEW d \in seen.found PROVE FoundCard(d)'
  <2>1. FoundCard(d)
    BY <1>1 DEF RoutesInv, InCycle
  <2>2. FoundKey(d) \in keep
    BY <1>1 DEF CycleInv, KeepInv, InCycle
  <2>3. FoundKey(d) \in DOMAIN store' /\ store'[FoundKey(d)] = store[FoundKey(d)]
    BY <2>1, <2>2, <1>1 DEF FoundCard, Only
  <2> QED  BY <2>1, <2>3 DEF FoundCard
<1>3. \A r, l : FoundIn(r, l)' = FoundIn(r, l)
  BY <1>1 DEF FoundIn, ActiveSources, Searched
<1> QED  BY <1>1, <1>2, <1>3 DEF RoutesInv, InCycle, SameRoute

\* The convention that opts a route in, and the one that was used.
OptedIn(o, spec, p) ==
    /\ p \in DOMAIN o.annotations /\ o.annotations[p].enabled = "true"
    /\ p = Prefix(spec) \/ (spec.homepageCompat /\ p = Homepage)

LEMMA Convention ==
  ASSUME NEW o, NEW spec
  PROVE  /\ \A ann \in discoveryAnnotations(o.annotations, spec) :
              \E p \in {Prefix(spec), Homepage} :
                /\ OptedIn(o, spec, p) /\ ann = o.annotations[p]
                /\ p # Prefix(spec) => ~OptedIn(o, spec, Prefix(spec))
         /\ (\E p \in {Prefix(spec), Homepage} : OptedIn(o, spec, p)) =>
              \E ann : ann \in discoveryAnnotations(o.annotations, spec)
<1> DEFINE OptsIn(p) == OptedIn(o, spec, p)
<1> DEFINE native == stripAnnotationPrefix(o.annotations, Prefix(spec))
<1> DEFINE compat == stripAnnotationPrefix(o.annotations, Homepage)
<1>1. \A p : LET a == stripAnnotationPrefix(o.annotations, p)
             IN  a.enabled = "true" <=> /\ p \in DOMAIN o.annotations
                                        /\ o.annotations[p].enabled = "true"
  BY DEF stripAnnotationPrefix, NoAnnotations
<1>2. \A p \in DOMAIN o.annotations :
         stripAnnotationPrefix(o.annotations, p) = o.annotations[p]
  BY DEF stripAnnotationPrefix
<1>3. CASE native.enabled = "true"
  <2>1. OptsIn(Prefix(spec)) /\ native = o.annotations[Prefix(spec)]
    BY <1>1, <1>2, <1>3 DEF OptedIn
  <2>2. discoveryAnnotations(o.annotations, spec) = {native}
    BY <1>3 DEF discoveryAnnotations
  <2> QED  BY <2>1, <2>2
<1>4. CASE native.enabled # "true" /\ spec.homepageCompat /\ compat.enabled = "true"
  <2>1. ~OptsIn(Prefix(spec)) /\ OptsIn(Homepage) /\ compat = o.annotations[Homepage]
    BY <1>1, <1>2, <1>4 DEF OptedIn
  <2>2. discoveryAnnotations(o.annotations, spec) = {compat}
    BY <1>4 DEF discoveryAnnotations
  <2> QED  BY <2>1, <2>2
<1>5. CASE native.enabled # "true" /\ ~(spec.homepageCompat /\ compat.enabled = "true")
  <2>1. ~OptsIn(Prefix(spec))
    BY <1>1, <1>5 DEF OptedIn
  <2>2. ~OptsIn(Homepage)
    BY <2>1, <1>1, <1>5 DEF OptedIn
  <2>3. discoveryAnnotations(o.annotations, spec) = {}
    BY <1>5 DEF discoveryAnnotations
  <2> QED  BY <2>1, <2>2, <2>3
<1> QED  BY <1>3, <1>4, <1>5

\* A namespace that cannot be listed takes its own discovered cards off the page
\* and no others: after every finished cycle each route that opts in, in a
\* namespace that could be listed, has a card with title and status from the one
\* annotation convention that opts it in (discoverServices, discoveryAnnotations,
\* pollDiscoveredService).
THEOREM DiscoveryAlwaysDegrades ==
  ASSUME UniqueRoutes
  PROVE  Spec => []DiscoveryDegrades
<1>1. ASSUME CardInv, CycleInv, RoutesInv, [Next]_vars PROVE RoutesInv'
  <2>1. CASE Edit \/ Elapse \/ UNCHANGED vars
    BY <1>1, <2>1, EditRoutes
  <2>2. CASE Begin \/ ListFails \/ ListServices
    BY <1>1, <2>2, BeginRoutes
  <2>3. CASE \E listed \in Listings : Discover(listed)
    BY <1>1, <2>3, DiscoverRoutes
  <2>4. CASE \E ok \in BOOLEAN : ListHeaders(ok)
    BY <1>1, <2>4, ListHeadersRoutes
  <2>5. CASE \E t \in tasks : Run(t)
    BY <1>1, <2>5, RunRoutes, FoundRoutes DEF Run
  <2>6. CASE EndCycle
    BY <1>1, <2>6, EndCycleRoutes
  <2> QED  BY <1>1, <2>1, <2>2, <2>3, <2>4, <2>5, <2>6 DEF Next
<1>2. Spec => [](CycleInv /\ RoutesInv)
  BY <1>1, InitRoutes, CyclesInductive, PTL DEF Spec
<1>3. CycleInv /\ RoutesInv => DiscoveryDegrades
  <2> SUFFICES ASSUME CycleInv, RoutesInv, Ended, NEW o \in seen.routes
      PROVE
      LET spec  == dash.discovery
          key   == <<o.source, o.namespace, o.name>>
          OptsIn(p) == OptedIn(o, spec, p)
          Says(p, field) == o.annotations[p][field]
          Expected == /\ o.source \in ActiveSources
                      /\ {<<o.source, Own>>, <<o.source, o.namespace>>} \subseteq seen.listed
                      /\ o.namespace \in {Own} \cup spec.namespaces
                      /\ \E p \in {Prefix(spec), Homepage} : OptsIn(p)
          Probed(p) == /\ "true" \in {Says(p, "monitor"), Says(p, "ping")}
                       /\ Says(p, "href") # <<>> \/ o.hosts # <<>>
      IN  /\ Expected => key \in DOMAIN store
          /\ key \in DOMAIN store => \E p \in {Prefix(spec), Homepage} :
               /\ OptsIn(p)
               /\ p # Prefix(spec) => ~OptsIn(Prefix(spec))
               /\ store[key].name = IF Says(p, "name") = "" THEN o.name ELSE Says(p, "name")
               /\ (store[key].m.status # "") <=> Probed(p)
    BY Zenon DEF DiscoveryDegrades, OptedIn
  <2> DEFINE spec == dash.discovery
             key  == <<o.source, o.namespace, o.name>>
             OptsIn(p) == OptedIn(o, spec, p)
             Says(p, field) == o.annotations[p][field]
             Expected == /\ o.source \in ActiveSources
                         /\ {<<o.source, Own>>, <<o.source, o.namespace>>}
                              \subseteq seen.listed
                         /\ o.namespace \in {Own} \cup spec.namespaces
                         /\ \E p \in {Prefix(spec), Homepage} : OptsIn(p)
             Probed(p) == /\ "true" \in {Says(p, "monitor"), Says(p, "ping")}
                          /\ Says(p, "href") # <<>> \/ o.hosts # <<>>
  <2>1. /\ seen.found = FoundIn(seen.routes, seen.listed)
        /\ \A d \in seen.found : FoundCard(d)
        /\ o.source \in Sources
    BY DEF RoutesInv
  <2>2. \A ann : FoundKey(discoveredService(o, ann)) = key
    BY DEF FoundKey, discoveredService
  <2>3. ASSUME Expected PROVE key \in DOMAIN store
    <3>1. PICK ann : ann \in discoveryAnnotations(o.annotations, spec)
      BY <2>3, Convention
    <3>2. o.namespace \in Searched
      BY <2>3 DEF Searched, extraDiscoveryNamespaces
    <3>3. Yields(o, ann, seen.listed)
      BY <2>3, <3>1, <3>2 DEF Yields
    <3>4. discoveredService(o, ann) \in seen.found
      BY <2>1, <3>3, FoundMember
    <3> QED  BY <2>1, <2>2, <3>4 DEF FoundCard
  <2>4. ASSUME key \in DOMAIN store
        PROVE  \E p \in {Prefix(spec), Homepage} :
                 /\ OptsIn(p)
                 /\ p # Prefix(spec) => ~OptsIn(Prefix(spec))
                 /\ store[key].name = IF Says(p, "name") = "" THEN o.name
                                                              ELSE Says(p, "name")
                 /\ (store[key].m.status # "") <=> Probed(p)
    <3>1. PICK d \in seen.found : key = FoundKey(d)
      <4>1. key \in ShownKeys
        BY <2>4 DEF CycleInv, EndedInv
      <4>2. \A i \in DOMAIN seen.services : key \notin EntryKeys(i)
        BY <2>1, EntryKeyParts DEF Sources
      <4>3. \A i : key # HeaderKey(i)
        BY <2>1, KeyParts DEF Sources
      <4> HIDE DEF key
      <4> QED  BY <4>1, <4>2, <4>3 DEF ShownKeys
    <3>2. PICK q \in seen.routes : \E ann :
            Yields(q, ann, seen.listed) /\ d = discoveredService(q, ann)
      BY <2>1, FoundMember
    <3>3. PICK ann : Yields(q, ann, seen.listed) /\ d = discoveredService(q, ann)
      BY <3>2
    <3>4. FoundKey(d) = <<q.source, q.namespace, q.name>>
      BY <3>3 DEF FoundKey, discoveredService
    <3>5. q = o
      <4>1. SameRoute(q, o)
        BY <3>1, <3>4 DEF SameRoute
      <4> QED  BY <4>1 DEF RoutesInv
    <3>6. ann \in discoveryAnnotations(o.annotations, spec)
      BY <3>3, <3>5 DEF Yields
    <3>7. PICK p \in {Prefix(spec), Homepage} :
            /\ OptsIn(p) /\ ann = o.annotations[p]
            /\ p # Prefix(spec) => ~OptsIn(Prefix(spec))
      BY <3>6, Convention
    <3>8. d = discoveredService(o, ann)
      BY <3>3, <3>5
    <3>9. /\ store[key].name = d.name
          /\ store[key].m.status # "" <=> d.monitor /\ d.href # <<>>
      BY <2>1, <3>1 DEF FoundCard
    <3>10. d.name = IF ann.name = "" THEN o.name ELSE ann.name
      BY <3>8 DEF discoveredService
    <3>11. d.monitor <=> "true" \in {ann.monitor, ann.ping}
      BY <3>8 DEF discoveredService, discoveryMonitorEnabled
    <3>12. d.href # <<>> <=> ann.href # <<>> \/ o.hosts # <<>>
      BY <2>1, <3>8 DEF discoveredService, ingressHref, httpRouteHref, Sources
    <3> HIDE DEF key
    <3> QED  BY <3>7, <3>9, <3>10, <3>11, <3>12
  <2> QED  BY <2>3, <2>4
<1> QED  BY <1>2, <1>3, PTL
-----------------------------------------------------------------------------
(***************************************************************************)
(* Types, and the semaphore: as many tokens as goroutines past it.         *)
(***************************************************************************)
Running == {t \in tasks : t.st # "queued"}

\* Routes have one goroutine each, like everything else (OneWriter).
OneFinder ==
    \A t, u \in tasks : t.kind = "found" /\ u.kind = "found" /\ t.item = u.item => t = u

SlotsInv == /\ IsFiniteSet(Running) /\ sem = Cardinality(Running)
            /\ sem \in 0..MaxConcurrent
            /\ OneFinder

TaskOK(t) == /\ t.kind \in {"entry", "widget", "header", "found"}
             /\ t.st \in {"queued", "running", "due", "skip"}
             /\ t.m \in Results

ValuesInv ==
    /\ mode \in Modes /\ cfg \in Configs /\ phase \in Phases
    /\ dash.discovery.sources \subseteq Sources /\ dash.allow \in BOOLEAN
    /\ \A i \in DOMAIN seen.services : IsEntry(seen.services[i])
    /\ \A t \in tasks : TaskOK(t)
    /\ \A k \in DOMAIN store : store[k].m \in Results
    /\ \A k \in DOMAIN age : age[k] \in 0..MaxAge
    /\ \A l \in DOMAIN exported : exported[l] \in BOOLEAN
    /\ caUsed \subseteq CAs /\ caCache \subseteq CAs
    /\ ticker \in 0..Interval /\ tick \in BOOLEAN /\ complete \in BOOLEAN

LEMMA StartSlots ==
  ASSUME SlotsInv, sem' = sem, tasks \subseteq tasks',
         \A t \in tasks' \ tasks : t.st = "queued", OneFinder'
  PROVE  SlotsInv'
<1>1. Running' = Running
  BY DEF Running
<1> QED  BY <1>1 DEF SlotsInv

LEMMA AcquireSlots ==
  ASSUME CardInv, SlotsInv, NEW t \in tasks, Acquire(t)
  PROVE  SlotsInv'
<1>1. PICK st \in {"running", "due", "skip"} : tasks' = WithState(t, st)
  BY DEF Acquire
<1> DEFINE n == [kind |-> t.kind, key |-> t.key, item |-> t.item, m |-> t.m,
                 st |-> st]
<1>2. /\ tasks' = (tasks \ {t}) \cup {n} /\ n.st = st
      /\ n.kind = t.kind /\ n.key = t.key /\ n.item = t.item
  BY <1>1 DEF WithState
<1> HIDE DEF n
<1>3. t.st = "queued" /\ sem < MaxConcurrent /\ sem' = sem + 1
  BY DEF Acquire
<1>4. n \notin tasks
  <2> SUFFICES ASSUME n \in tasks PROVE FALSE
    OBVIOUS
  <2>1. n = t
    BY <1>2 DEF CardInv, OneWriter, SlotsInv, OneFinder
  <2> QED  BY <2>1, <1>1, <1>2, <1>3
<1>5. Running' = Running \cup {n} /\ n \notin Running
  BY <1>1, <1>2, <1>3, <1>4 DEF Running
<1>6. IsFiniteSet(Running') /\ Cardinality(Running') = Cardinality(Running) + 1
  BY <1>5, FS_AddElement DEF SlotsInv
<1>7. OneFinder'
  BY <1>2 DEF SlotsInv, OneFinder
<1>8. sem' \in 0..MaxConcurrent
  BY <1>3, PollerAssumption DEF SlotsInv
<1> QED  BY <1>3, <1>6, <1>7, <1>8 DEF SlotsInv

LEMMA DoneSlots ==
  ASSUME SlotsInv, NEW t \in tasks, t.st # "queued", NEW started, Done(t, started),
         \A u \in started : u.st = "queued" /\ u.kind # "found"
  PROVE  SlotsInv'
<1>1. tasks' = (tasks \ {t}) \cup started /\ sem' = sem - 1
  BY DEF Done
<1>2. Running' = Running \ {t} /\ t \in Running
  BY <1>1 DEF Running
<1>3. IsFiniteSet(Running') /\ Cardinality(Running') = Cardinality(Running) - 1
  BY <1>2, FS_RemoveElement DEF SlotsInv
<1>4. Cardinality(Running') \in Nat
  BY <1>3, FS_CardinalityType
<1>5. OneFinder'
  BY <1>1 DEF SlotsInv, OneFinder
<1>6. sem' \in 0..MaxConcurrent
  BY <1>1, <1>3, <1>4, PollerAssumption DEF SlotsInv
<1> QED  BY <1>1, <1>3, <1>5, <1>6 DEF SlotsInv

\* However many goroutines a cycle starts, the tokens in the semaphore are those
\* past it, at most MaxConcurrent: no path of a goroutine keeps its token.
LEMMA SlotsStep ==
  ASSUME CardInv, CycleInv, SlotsInv, [Next]_vars
  PROVE  SlotsInv'
<1>1. CASE Edit \/ Elapse \/ Begin \/ ListFails \/ UNCHANGED vars
  <2>1. tasks' = tasks /\ sem' = sem
    BY <1>1 DEF Edit, Elapse, Begin, ListFails, vars
  <2>2. OneFinder'
    BY <2>1 DEF SlotsInv, OneFinder
  <2> QED  BY <2>1, <2>2, StartSlots
<1>2. CASE ListServices
  <2>1. sem' = sem /\ tasks \subseteq tasks' /\ tasks = {}
    BY <1>2 DEF ListServices, CardInv, Started
  <2>2. \A t \in tasks' : \E i \in DOMAIN cfg.services :
           t = Task("entry", EntryKey(i), cfg.services[i], NoResult)
    BY <1>2, <2>1 DEF ListServices
  <2>3. \A t \in tasks' : t.st = "queued" /\ t.kind = "entry"
    BY <2>2 DEF Task
  <2> QED  BY <2>1, <2>3, StartSlots DEF OneFinder
<1>3. CASE \E listed \in Listings : Discover(listed)
  <2>1. PICK listed : Discover(listed)
    BY <1>3
  <2>2. sem' = sem /\ tasks \subseteq tasks' /\ phase = "discovery"
    BY <2>1 DEF Discover
  <2>3. \A t \in tasks' \ tasks : \E d \in Found(listed) :
           t = Task("found", FoundKey(d), d, NoResult)
    BY <2>1 DEF Discover
  <2>4. \A t \in tasks' \ tasks : /\ t.st = "queued"
                                  /\ t = Task("found", FoundKey(t.item), t.item, NoResult)
    BY <2>3 DEF Task
  <2>5. \A t \in tasks : t.kind # "found"
    BY <2>2 DEF CardInv, Started
  <2> QED  BY <2>2, <2>4, <2>5, StartSlots DEF OneFinder
<1>4. CASE \E ok \in BOOLEAN : ListHeaders(ok)
  <2>1. PICK ok \in BOOLEAN : ListHeaders(ok)
    BY <1>4
  <2> DEFINE hs == IF ok THEN cfg.headers ELSE <<>>
  <2>2. sem' = sem /\ tasks \subseteq tasks'
    BY <2>1 DEF ListHeaders
  <2>3. \A t \in tasks' \ tasks : \E i \in DOMAIN hs :
           t = Task("header", HeaderKey(i), hs[i], NoResult)
    BY <2>1 DEF ListHeaders
  <2> HIDE DEF hs
  <2>4. \A t \in tasks' \ tasks : t.st = "queued" /\ t.kind = "header"
    BY <2>3 DEF Task
  <2>5. OneFinder'
    BY <2>2, <2>4 DEF OneFinder, SlotsInv
  <2> QED  BY <2>2, <2>4, <2>5, StartSlots
<1>5. CASE \E t \in tasks : Run(t)
  <2>1. PICK t \in tasks : Run(t)
    BY <1>5
  <2>2. CASE Acquire(t)
    BY <2>2, AcquireSlots
  <2>3. CASE RunEntry(t)
    <3>1. t.st # "queued"
      BY <2>3 DEF RunEntry
    <3>2. PICK r \in Monitor(t.item, dash.allow) :
            Done(t, {Task("widget", WidgetKey(t.key[2], w),
                          [name |-> t.item.name, hide |-> t.item.hide,
                           widget |-> t.item.widgets[w]], r.m) :
                       w \in DOMAIN t.item.widgets})
      BY <2>3 DEF RunEntry
    <3> DEFINE S == {Task("widget", WidgetKey(t.key[2], w),
                          [name |-> t.item.name, hide |-> t.item.hide,
                           widget |-> t.item.widgets[w]], r.m) :
                       w \in DOMAIN t.item.widgets}
    <3>3. \A u \in S : u.st = "queued" /\ u.kind # "found"
      BY DEF Task
    <3>4. Done(t, S)
      BY <3>2
    <3> HIDE DEF S
    <3> QED  BY <3>1, <3>3, <3>4, DoneSlots
  <2>4. CASE PollWidget(t) \/ MergeMonitorIntoStoredCard(t) \/ PollInfoWidget(t)
               \/ SkipInfoWidget(t) \/ PollDiscoveredService(t)
    <3>1. t.st # "queued" /\ Done(t, {})
      BY <2>4 DEF PollWidget, MergeMonitorIntoStoredCard, PollInfoWidget,
                  SkipInfoWidget, PollDiscoveredService
    <3> QED  BY <3>1, DoneSlots
  <2> QED  BY <2>1, <2>2, <2>3, <2>4 DEF Run
<1>6. CASE EndCycle
  <2>1. tasks' = tasks /\ sem' = sem
    BY <1>6 DEF EndCycle
  <2>2. OneFinder'
    BY <2>1 DEF SlotsInv, OneFinder
  <2> QED  BY <2>1, <2>2, StartSlots
<1> QED  BY <1>1, <1>2, <1>3, <1>4, <1>5, <1>6 DEF Next

\* A probe returns a result, whatever the entry and the mode.
LEMMA MonitorResults ==
  ASSUME NEW e, IsEntry(e), NEW allow \in BOOLEAN, mode \in Modes
  PROVE  \A r \in Monitor(e, allow) : r.m \in Results
<1>1. /\ mode.SampleData \in BOOLEAN /\ mode.Preview \in BOOLEAN
  BY PollerAssumption
<1> DEFINE B(x, y) == [ok |-> x, err |-> y]
<1>2. \A b \in BaseURLs(e) : \E x, y \in BOOLEAN : b = B(x, y)
  <2>1. CASE e.url = "none"
    <3>1. BaseURLs(e) = {B(FALSE, FALSE)}
      BY <2>1 DEF BaseURLs
    <3> HIDE DEF B
    <3> QED  BY <3>1
  <2>2. CASE e.url = "plain"
    <3>1. BaseURLs(e) = {B(TRUE, FALSE)}
      BY <2>2 DEF BaseURLs
    <3> HIDE DEF B
    <3> QED  BY <3>1
  <2>3. CASE e.url = "internal"
    <3>1. BaseURLs(e) = {B(~mode.Preview, FALSE)}
      BY <2>3 DEF BaseURLs
    <3>2. (~mode.Preview) \in BOOLEAN
      BY <1>1
    <3> HIDE DEF B
    <3> QED  BY <3>1, <3>2
  <2>4. CASE e.url = "auto"
    <3>1. BaseURLs(e) = IF mode.Preview THEN {B(FALSE, FALSE)}
                        ELSE {B(b, ~b) : b \in BOOLEAN}
      BY <2>4 DEF BaseURLs
    <3>2. \A b \in BOOLEAN : (~b) \in BOOLEAN
      OBVIOUS
    <3> HIDE DEF B
    <3>3. CASE mode.Preview
      BY <3>1, <3>3
    <3>4. CASE ~mode.Preview
      BY <3>1, <3>2, <3>4, Zenon
    <3> QED  BY <3>3, <3>4
  <2> QED  BY <2>1, <2>2, <2>3, <2>4 DEF IsEntry
<1> DEFINE P(x, y) == [status |-> x, err |-> y]
<1>3. \A p \in PodStatus(e, allow) : \E x \in Statuses, y \in BOOLEAN : p = P(x, y)
  <2>1. CASE e.pods = "none"
    BY <2>1 DEF PodStatus, Statuses
  <2>2. CASE e.pods # "none"
    BY <2>2 DEF PodStatus, Statuses
  <2> QED  BY <2>1, <2>2
<1>4. \A b : HTTPStatus(e, b) \subseteq Statuses
  BY DEF HTTPStatus, Statuses
<1>5. ASSUME NEW r \in Monitor(e, allow) PROVE r.m \in Results
  <2>1. PICK b \in BaseURLs(e) : \E s \in HTTPStatus(e, b), p \in PodStatus(e, allow) :
          r.m = [status |-> s, pods |-> p.status, base |-> b.ok, err |-> b.err \/ p.err]
    BY DEF Monitor
  <2>2. PICK s \in HTTPStatus(e, b), p \in PodStatus(e, allow) :
          r.m = [status |-> s, pods |-> p.status, base |-> b.ok, err |-> b.err \/ p.err]
    BY <2>1
  <2>3. b.ok \in BOOLEAN /\ (b.err \/ p.err) \in BOOLEAN /\ p.status \in Statuses
    BY <1>2, <1>3, <2>2
  <2> QED  BY <1>2, <1>3, <1>4, <2>2, <2>3 DEF Results
<1> QED  BY <1>5

LEMMA MinMax ==
  ASSUME NEW a \in Int, NEW b \in Int
  PROVE  /\ Min({a, b}) = IF a <= b THEN a ELSE b
         /\ Max({a, b}) = IF a <= b THEN b ELSE a
<1>1. \E x \in {a, b} : \A y \in {a, b} : x <= y
  <2>1. CASE a <= b
    BY <2>1
  <2>2. CASE ~(a <= b)
    BY <2>2
  <2> QED  BY <2>1, <2>2
<1>2. \E x \in {a, b} : \A y \in {a, b} : x >= y
  <2>1. CASE a <= b
    BY <2>1
  <2>2. CASE ~(a <= b)
    BY <2>2
  <2> QED  BY <2>1, <2>2
<1>3. Min({a, b}) \in {a, b} /\ \A y \in {a, b} : Min({a, b}) <= y
  BY <1>1, Zenon DEF Min
<1>4. Max({a, b}) \in {a, b} /\ \A y \in {a, b} : Max({a, b}) >= y
  BY <1>2, Zenon DEF Max
<1> QED  BY <1>3, <1>4

LEMMA PutValues ==
  ASSUME NEW f, NEW k, NEW v
  PROVE  /\ \A x \in DOMAIN Put(f, k, v) :
              Put(f, k, v)[x] = v \/ (x \in DOMAIN f /\ Put(f, k, v)[x] = f[x])
  BY DEF Put

LEMMA SetAllValues ==
  ASSUME NEW f, NEW g, \A x \in DOMAIN f : f[x] \in BOOLEAN,
         \A x \in DOMAIN g : g[x] \in BOOLEAN
  PROVE  \A x \in DOMAIN SetAll(f, g) : SetAll(f, g)[x] \in BOOLEAN
  BY DEF SetAll

\* Steps that leave what the goroutines write alone.
LEMMA OutsideValues ==
  ASSUME CardInv, CycleInv, ValuesInv,
         Edit \/ Elapse \/ Begin \/ ListFails \/ ListServices
           \/ (\E listed : Discover(listed)) \/ (\E ok \in BOOLEAN : ListHeaders(ok))
           \/ EndCycle \/ UNCHANGED vars
  PROVE  ValuesInv'
<1>1. CASE Edit \/ UNCHANGED vars
  BY <1>1 DEF Edit, vars, cycleVars, histVars, ValuesInv, TaskOK
<1>2. CASE Elapse
  <2>1. /\ \A k \in DOMAIN age' : k \in DOMAIN age /\ age'[k] = Min({age[k] + 1, MaxAge})
        /\ ticker' = IF ticker = 1 THEN Interval ELSE Max({ticker - 1, 0})
        /\ tick' \in BOOLEAN
    BY <1>2 DEF Elapse, ValuesInv
  <2>2. ASSUME NEW k \in DOMAIN age' PROVE age'[k] \in 0..MaxAge
    <3>1. k \in DOMAIN age /\ age'[k] = Min({age[k] + 1, MaxAge})
      BY <2>1
    <3>2. \A x \in DOMAIN age : age[x] \in 0..MaxAge
      BY DEF ValuesInv
    <3>3. age[k] \in 0..MaxAge
      BY <3>1, <3>2
    <3>4. MaxAge \in Nat
      BY PollerAssumption
    <3> DEFINE a == age[k]
    <3>5. a \in 0..MaxAge /\ age'[k] = Min({a + 1, MaxAge})
      BY <3>1, <3>3
    <3> HIDE DEF a
    <3>6. a + 1 \in Int /\ MaxAge \in Int /\ a >= 0
      BY <3>4, <3>5
    <3>7. Min({a + 1, MaxAge}) = IF a + 1 <= MaxAge THEN a + 1 ELSE MaxAge
      BY <3>6, MinMax
    <3> QED  BY <3>4, <3>5, <3>6, <3>7
  <2>3. ticker' \in 0..Interval
    <3>1. Interval \in Nat
      BY PollerAssumption
    <3>2. ticker \in 0..Interval
      BY DEF ValuesInv
    <3>3. ticker - 1 \in Int /\ 0 \in Int
      BY <3>1, <3>2
    <3>4. Max({ticker - 1, 0}) = IF ticker - 1 <= 0 THEN 0 ELSE ticker - 1
      BY <3>3, MinMax
    <3>5. Max({ticker - 1, 0}) \in 0..Interval /\ Interval \in 0..Interval
      BY <3>1, <3>2, <3>4
    <3> QED  BY <2>1, <3>5
  <2> QED  BY <1>2, <2>1, <2>2, <2>3 DEF Elapse, cycleVars, histVars, ValuesInv, TaskOK
<1>3. CASE Begin \/ ListFails
  <2>1. tasks' = tasks /\ store' = store /\ age' = age /\ exported' = exported
        /\ mode' = mode /\ cfg' = cfg /\ caCache' = caCache /\ seen' = Nothing
    BY <1>3 DEF Begin, ListFails, CycleInv, ListedInOrder, histVars
  <2>2. dash'.discovery.sources \subseteq Sources /\ dash'.allow \in BOOLEAN
    <3>1. CASE Begin
      <4>1. \/ dash' = [discovery |-> cfg.discovery, allow |-> cfg.allow]
            \/ dash' = [discovery |-> NoDiscovery, allow |-> FALSE]
        BY <3>1 DEF Begin
      <4>2. cfg.discovery.sources \subseteq Sources /\ cfg.allow \in BOOLEAN
        BY PollerAssumption DEF ValuesInv, ConfigOK
      <4>3. NoDiscovery.sources = {}
        BY DEF NoDiscovery
      <4>4. CASE dash' = [discovery |-> cfg.discovery, allow |-> cfg.allow]
        <5>1. dash'.discovery = cfg.discovery /\ dash'.allow = cfg.allow
          BY <4>4
        <5> QED  BY <4>2, <5>1
      <4>5. CASE dash' = [discovery |-> NoDiscovery, allow |-> FALSE]
        <5>1. dash'.discovery = NoDiscovery /\ dash'.allow = FALSE
          BY <4>5
        <5> QED  BY <4>3, <5>1
      <4> QED  BY <4>1, <4>4, <4>5
    <3>2. CASE ListFails
      BY <3>2 DEF ListFails, cycleVars, ValuesInv
    <3> QED  BY <1>3, <3>1, <3>2
  <2>3. /\ phase' \in Phases /\ caUsed' \subseteq CAs /\ tick' \in BOOLEAN
        /\ complete' \in BOOLEAN /\ ticker' \in 0..Interval
    <3>1. CASE Begin
      BY <3>1 DEF Begin, Phases, ValuesInv
    <3>2. CASE ListFails
      BY <3>2, PollerAssumption DEF ListFails, Return, Phases, histVars, ValuesInv
    <3> QED  BY <1>3, <3>1, <3>2
  <2> QED  BY <2>1, <2>2, <2>3 DEF Nothing, ValuesInv, TaskOK
<1>4. CASE ListServices
  <2>1. \A t \in tasks' : \E i \in DOMAIN cfg.services :
           t = Task("entry", EntryKey(i), cfg.services[i], NoResult)
    BY <1>4 DEF ListServices, CardInv, Started
  <2>2. NoResult \in Results
    BY DEF NoResult, Results, Statuses
  <2>3. \A t \in tasks' : TaskOK(t)
    BY <2>1, <2>2 DEF Task, TaskOK
  <2>4. \A i \in DOMAIN seen'.services : IsEntry(seen'.services[i])
    BY <1>4, PollerAssumption DEF ListServices, CycleInv, ListedInOrder, Nothing, ConfigOK
  <2> QED  BY <1>4, <2>3, <2>4 DEF ListServices, cycleVars, Phases, ValuesInv
<1>5. CASE \E listed : Discover(listed)
  <2>1. PICK listed : Discover(listed)
    BY <1>5
  <2>2. NoResult \in Results
    BY DEF NoResult, Results, Statuses
  <2>3. \A t \in tasks' : t \in tasks \/ \E d : t = Task("found", FoundKey(d), d, NoResult)
    BY <2>1 DEF Discover
  <2>4. \A t \in tasks' : TaskOK(t)
    BY <2>2, <2>3 DEF Task, TaskOK, ValuesInv
  <2>5. seen'.services = seen.services
    BY <2>1 DEF Discover, CycleInv, ListedInOrder
  <2> QED  BY <2>1, <2>4, <2>5 DEF Discover, Phases, ValuesInv
<1>6. CASE \E ok \in BOOLEAN : ListHeaders(ok)
  <2>1. PICK ok \in BOOLEAN : ListHeaders(ok)
    BY <1>6
  <2>2. NoResult \in Results
    BY DEF NoResult, Results, Statuses
  <2>3. \A t \in tasks' :
           t \in tasks \/ \E i, h : t = Task("header", HeaderKey(i), h, NoResult)
    BY <2>1 DEF ListHeaders
  <2>4. \A t \in tasks' : TaskOK(t)
    BY <2>2, <2>3 DEF Task, TaskOK, ValuesInv
  <2>5. seen'.services = seen.services
    BY <2>1 DEF ListHeaders, CycleInv, ListedInOrder
  <2> QED  BY <2>1, <2>4, <2>5 DEF ListHeaders, Phases, ValuesInv
<1>7. CASE EndCycle
  <2>1. /\ \A k \in DOMAIN store' : k \in DOMAIN store /\ store'[k] = store[k]
        /\ \A k \in DOMAIN age' : k \in DOMAIN age /\ age'[k] = age[k]
        /\ \A l \in DOMAIN exported' : l \in DOMAIN exported /\ exported'[l] = exported[l]
    BY <1>7 DEF EndCycle, Prune, PruneMonitorMetrics, PruneWidgetLastPolled, Only
  <2>2. /\ phase' \in Phases /\ ticker' \in 0..Interval /\ caCache' \subseteq CAs
        /\ complete' \in BOOLEAN
    BY <1>7, PollerAssumption DEF EndCycle, Return, PruneCAClientCache, Phases, ValuesInv
  <2> QED  BY <1>7, <2>1, <2>2 DEF EndCycle, cycleVars, ValuesInv, TaskOK
<1> QED  BY <1>1, <1>2, <1>3, <1>4, <1>5, <1>6, <1>7

LEMMA AcquireValues ==
  ASSUME ValuesInv, NEW t \in tasks, Acquire(t)
  PROVE  ValuesInv'
<1>1. PICK st \in {"running", "due", "skip"} :
        /\ tasks' = WithState(t, st)
        /\ age' = age \/ age' = Put(age, t.key, 0)
  BY DEF Acquire, RecordPoll
<1> DEFINE n == [kind |-> t.kind, key |-> t.key, item |-> t.item, m |-> t.m,
                 st |-> st]
<1>2. /\ tasks' = (tasks \ {t}) \cup {n} /\ n.st = st
      /\ n.kind = t.kind /\ n.m = t.m
  BY <1>1 DEF WithState
<1> HIDE DEF n
<1>3. \A u \in tasks' : TaskOK(u)
  BY <1>2 DEF ValuesInv, TaskOK
<1>4. \A k \in DOMAIN age' : age'[k] \in 0..MaxAge
  BY <1>1, PutValues, PollerAssumption DEF ValuesInv
<1> QED  BY <1>3, <1>4 DEF Acquire, ValuesInv, cycleVars, histVars

LEMMA RunEntryValues ==
  ASSUME CardInv, CycleInv, ValuesInv, NEW t \in tasks, RunEntry(t)
  PROVE  ValuesInv'
<1> DEFINE T(w, m) == Task("widget", WidgetKey(t.key[2], w),
                           [name |-> t.item.name, hide |-> t.item.hide,
                            widget |-> t.item.widgets[w]], m)
<1>1. PICK r, K :
        /\ r \in Monitor(t.item, dash.allow)
        /\ exported' = SetAll(exported, [l \in K |-> Gauge(r.m, l[3])])
        /\ store' = store \/ store' = Put(store, MonitorKey(t.key[2]), EntryCard(t.item, r.m))
        /\ tasks' = (tasks \ {t}) \cup {T(w, r.m) : w \in DOMAIN t.item.widgets}
  BY DEF RunEntry, Done
<1>2. /\ mode' = mode /\ cfg' = cfg /\ phase' = phase /\ dash' = dash /\ age' = age
      /\ caUsed' = caUsed /\ caCache' = caCache /\ ticker' = ticker /\ tick' = tick
      /\ complete' = complete /\ seen' = seen /\ t.kind = "entry"
  BY DEF RunEntry
<1>3. r.m \in Results
  <2>1. IsEntry(t.item)
    BY <1>2 DEF CardInv, Started, CycleInv, EntriesInv, InCycle, ValuesInv
  <2> QED  BY <2>1, <1>1, MonitorResults DEF ValuesInv
<1>4. \A w : TaskOK(T(w, r.m))
  BY <1>3 DEF Task, TaskOK
<1> HIDE DEF T
<1>5. \A u \in tasks' : TaskOK(u)
  BY <1>1, <1>4 DEF ValuesInv
<1>6. \A k \in DOMAIN store' : store'[k].m \in Results
  <2>1. EntryCard(t.item, r.m).m = r.m
    BY DEF EntryCard, Card
  <2> QED  BY <2>1, <1>1, <1>3, PutValues DEF ValuesInv
<1>7. \A l \in DOMAIN exported' : exported'[l] \in BOOLEAN
  <2>1. ASSUME NEW x PROVE Gauge(r.m, x) \in BOOLEAN
    <3>1. (r.m.status = "Up") \in BOOLEAN /\ (r.m.pods \in {"Up", "Partial"}) \in BOOLEAN
      OBVIOUS
    <3> QED  BY <3>1, Zenon DEF Gauge
  <2> DEFINE V == [l \in K |-> Gauge(r.m, l[3])]
  <2>2. \A x \in DOMAIN V : V[x] \in BOOLEAN
    BY <2>1
  <2> HIDE DEF V
  <2> QED  BY <2>2, <1>1, SetAllValues DEF ValuesInv, V
<1> QED  BY <1>2, <1>5, <1>6, <1>7 DEF ValuesInv

LEMMA WriteValues ==
  ASSUME CardInv, ValuesInv, NEW t \in tasks,
         PollWidget(t) \/ MergeMonitorIntoStoredCard(t) \/ PollInfoWidget(t)
           \/ SkipInfoWidget(t) \/ PollDiscoveredService(t)
  PROVE  ValuesInv'
<1>1. /\ mode' = mode /\ cfg' = cfg /\ phase' = phase /\ dash' = dash /\ age' = age
      /\ ticker' = ticker /\ tick' = tick /\ complete' = complete /\ seen' = seen
      /\ tasks' \subseteq tasks
  BY DEF PollWidget, MergeMonitorIntoStoredCard, PollInfoWidget, SkipInfoWidget,
         PollDiscoveredService, Done, cycleVars, histVars
<1>2. NoResult \in Results /\ \A name : Card(name).m = NoResult
  BY DEF NoResult, Results, Statuses, Card
<1>3. t.m \in Results
  BY DEF ValuesInv, TaskOK
<1>4. store' = store \/ \E c : c.m \in Results /\ store' = Put(store, t.key, c)
  <2>1. CASE PollWidget(t)
    <3>1. PICK ok \in BOOLEAN :
            store' = Put(store, t.key, Filled(EntryCard(t.item, t.m), t.item.name,
                                              ok, t.item.hide))
      BY <2>1 DEF PollWidget
    <3>2. Filled(EntryCard(t.item, t.m), t.item.name, ok, t.item.hide).m = t.m
      BY DEF Filled, EntryCard, Card
    <3> QED  BY <3>1, <3>2, <1>3
  <2>2. CASE MergeMonitorIntoStoredCard(t)
    <3>1. store' = Put(store, t.key, MergedCard(t)) /\ MergedCard(t).m = t.m
      BY <2>2 DEF MergeMonitorIntoStoredCard, MergedCard
    <3> QED  BY <3>1, <1>3
  <2>3. CASE PollInfoWidget(t)
    <3>1. PICK ok \in BOOLEAN :
            store' = Put(store, t.key, Filled(Card(t.item.name), t.item.name, ok, FALSE))
      BY <2>3 DEF PollInfoWidget
    <3>2. Filled(Card(t.item.name), t.item.name, ok, FALSE).m = NoResult
      BY DEF Filled, Card
    <3> QED  BY <3>1, <3>2, <1>2
  <2>4. CASE SkipInfoWidget(t)
    BY <2>4 DEF SkipInfoWidget
  <2>5. CASE PollDiscoveredService(t)
    <3>1. PICK s \in {"", "Up", "Down"} :
            store' = Put(store, t.key, [Card(t.item.name) EXCEPT !.m.status = s])
      BY <2>5 DEF PollDiscoveredService
    <3>2. [Card(t.item.name) EXCEPT !.m.status = s].m \in Results
      BY DEF Card, NoResult, Results, Statuses
    <3> QED  BY <3>1, <3>2
  <2> QED  BY <2>1, <2>2, <2>3, <2>4, <2>5
<1>5. \A k \in DOMAIN store' : store'[k].m \in Results
  BY <1>4, PutValues DEF ValuesInv
<1>6. \A l \in DOMAIN exported' : exported'[l] \in BOOLEAN
  <2>1. exported' = exported \/ \E R, b :
          b \in BOOLEAN /\ exported' = SetAll(exported, [l \in R |-> b])
    <3>1. CASE PollDiscoveredService(t)
      <4>1. PICK s \in IF ~t.item.monitor \/ t.item.href = <<>> THEN {""}
                       ELSE IF mode.SampleData THEN {"Up"} ELSE {"Up", "Down"} :
              LET R == IF s # "" /\ ~mode.SampleData THEN {FoundLabel(t.item)} ELSE {}
              IN  exported' = SetAll(exported, [l \in R |-> s = "Up"])
        BY <3>1 DEF PollDiscoveredService
      <4> DEFINE R == IF s # "" /\ ~mode.SampleData THEN {FoundLabel(t.item)} ELSE {}
      <4> DEFINE b == s = "Up"
      <4>2. exported' = SetAll(exported, [l \in R |-> b]) /\ b \in BOOLEAN
        BY <4>1
      <4> HIDE DEF R, b
      <4> QED  BY <4>2
    <3>2. CASE ~PollDiscoveredService(t)
      BY <3>2 DEF PollWidget, MergeMonitorIntoStoredCard, PollInfoWidget, SkipInfoWidget
    <3> QED  BY <3>1, <3>2
  <2>2. ASSUME NEW R, NEW b \in BOOLEAN, exported' = SetAll(exported, [l \in R |-> b])
        PROVE  \A l \in DOMAIN exported' : exported'[l] \in BOOLEAN
    <3>1. \A x \in DOMAIN [l \in R |-> b] : [l \in R |-> b][x] \in BOOLEAN
      OBVIOUS
    <3> QED  BY <2>2, <3>1, SetAllValues DEF ValuesInv
  <2> QED  BY <2>1, <2>2 DEF ValuesInv
<1>7. caUsed' \subseteq CAs /\ caCache' \subseteq CAs
  <2>1. ASSUME NEW ok, Upstream(t, ok) PROVE caUsed' \subseteq CAs /\ caCache' \subseteq CAs
    BY <2>1 DEF Upstream, UsesCA, ValuesInv
  <2> QED  BY <2>1 DEF PollWidget, MergeMonitorIntoStoredCard, PollInfoWidget,
                       SkipInfoWidget, PollDiscoveredService, ValuesInv
<1> QED  BY <1>1, <1>5, <1>6, <1>7 DEF ValuesInv

\* Every variable keeps its type, and the semaphore holds one token for each
\* goroutine past it, never more than maxConcurrentPolls (run's acquire and the
\* deferred release).
THEOREM TypesCorrect == Spec => []TypeOK
<1>1. Init => SlotsInv /\ ValuesInv
  <2> SUFFICES ASSUME Init PROVE SlotsInv /\ ValuesInv
    OBVIOUS
  <2>1. Running = {} /\ sem = 0
    BY DEF Init, Running
  <2>2. SlotsInv
    BY <2>1, FS_EmptySet, PollerAssumption DEF SlotsInv, OneFinder, Init
  <2>3. ValuesInv
    <3>1. dash.discovery.sources = {} /\ dash.allow = FALSE /\ seen.services = <<>>
      BY DEF Init, NoDiscovery, Nothing
    <3>2. /\ \A k \in DOMAIN store : FALSE
          /\ \A k \in DOMAIN age : FALSE
          /\ \A l \in DOMAIN exported : FALSE
          /\ \A i \in DOMAIN seen.services : FALSE
      BY <3>1 DEF Init
    <3>3. ticker \in 0..Interval
      BY PollerAssumption DEF Init
    <3> QED  BY <3>1, <3>2, <3>3 DEF Init, ValuesInv, Phases
  <2> QED  BY <2>2, <2>3
<1>2. ASSUME CardInv, CycleInv, ValuesInv, [Next]_vars PROVE ValuesInv'
  <2>1. CASE \E t \in tasks : Run(t)
    BY <1>2, <2>1, AcquireValues, RunEntryValues, WriteValues DEF Run
  <2>2. CASE ~\E t \in tasks : Run(t)
    BY <1>2, <2>2, OutsideValues DEF Next
  <2> QED  BY <2>1, <2>2
<1>3. SlotsInv /\ ValuesInv => TypeOK
  BY DEF SlotsInv, ValuesInv, TypeOK, TaskOK, Running
<1>4. Spec => [](SlotsInv /\ ValuesInv)
  BY <1>1, <1>2, SlotsStep, CyclesInductive, PTL DEF Spec
<1> QED  BY <1>3, <1>4, PTL
=============================================================================

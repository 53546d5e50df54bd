------------------------------- MODULE Poller -------------------------------
(***************************************************************************)
(* The dashboard backend's poll cycle (internal/dashboard/poller.go) and   *)
(* the Store of cards it fills (store.go).                                 *)
(*                                                                         *)
(* A cycle reads the Dashboard, lists ServiceCards, discovered routes and  *)
(* InfoWidgets, and starts one goroutine per entry through a semaphore of  *)
(* MaxConcurrent slots.  An entry's goroutine probes its monitor and then  *)
(* starts one more goroutine per widget.  When all of them have ended the  *)
(* cycle prunes everything it did not mark: cards, poll times, metric      *)
(* series and cached CA clients.  Custom resources change, probes and      *)
(* polls succeed or fail, and time passes, at any point in between.        *)
(*                                                                         *)
(* What a card shows is abstracted to whose data it is (the entry's name), *)
(* the monitor result and the error.  Poll times are kept as ages, which   *)
(* saturate at MaxAge: no override is longer than that.                    *)
(***************************************************************************)
EXTENDS Integers, FiniteSets, FiniteSetsExt, Discovery

CONSTANTS
    Configs,        \* the custom resources the cluster may hold, see ConfigOK
    CAs,            \* contents a widget's CA bundle may have
    MaxConcurrent,  \* maxConcurrentPolls
    Interval,       \* Poller.Interval, in time units
    MaxAge,         \* longest pollIntervalSeconds, in time units
    Modes           \* settings of the Poller that the process may start with

(***************************************************************************)
(* A configuration: the bound ServiceCard's list of entries, the bound     *)
(* InfoWidget's list of pollable items, the Dashboard's discovery settings *)
(* and monitor namespace allowlist, and the Ingresses and HTTPRoutes.      *)
(***************************************************************************)
Sources == {"Ingress", "HTTPRoute"}
Widget  == [override : 0..MaxAge, url : BOOLEAN, ca : BOOLEAN]
IsEntry(e) ==
    /\ DOMAIN e = {"name", "url", "monitor", "pods", "hide", "widgets"}
    /\ e.url \in {"none", "plain", "internal", "auto"}
    /\ e.monitor \in {"none", "self", "url"}
    /\ e.pods \in {"none", "own", "foreign"}
    /\ e.hide \in BOOLEAN
    /\ e.widgets \in Seq(Widget)
IsHeader(h) == DOMAIN h = {"name", "widget"} /\ h.widget \in Widget
ConfigOK(c) ==
    /\ \A i \in DOMAIN c.services : IsEntry(c.services[i])
    /\ \A i \in DOMAIN c.headers : IsHeader(c.headers[i])
    /\ c.discovery.sources \subseteq Sources
    /\ \A o \in c.routes : o.source \in Sources
    /\ c.allow \in BOOLEAN

ASSUME PollerAssumption ==
    /\ MaxConcurrent \in Nat \ {0}
    /\ Interval \in Nat \ {0}
    /\ MaxAge \in Nat /\ MaxAge >= Interval
    /\ Modes \subseteq [SampleData : BOOLEAN, Preview : BOOLEAN,
                        GatewayAPIEnabled : BOOLEAN]
    /\ \A c \in Configs : ConfigOK(c)

VARIABLES
    mode,       \* the mode the process was started in
    cfg,        \* the custom resources, as the cache serves them
    phase,      \* where pollOnce is
    dash,       \* what pollOnce took from its one read of the Dashboard
    keep,       \* store keys marked in this cycle
    labels,     \* monitorUp label pairs recorded in this cycle
    tasks,      \* goroutines started by run() that have not ended
    sem,        \* tokens in the semaphore channel
    store,      \* Store.cards
    age,        \* widgetLastPolled: time since, per key
    exported,   \* the monitorUp gauge: value per label pair
    prevLabels, \* Poller.monitorLabels
    caUsed,     \* Poller.caKeysUsed
    caCache,    \* keys of caClientCache
    ticker,     \* time left to the next tick, 0 before the ticker exists
    tick,       \* a tick waits in the ticker's channel
    \* History, never read by the code:
    complete,   \* the last cycle reached its prunes
    seen,       \* what the last cycle listed
    probe       \* monitor results of the last cycle, per entry index

cycleVars == <<dash, keep, labels>>
histVars  == <<complete, seen, probe>>
vars == <<mode, cfg, phase, cycleVars, tasks, sem, store, age, exported, prevLabels,
          caUsed, caCache, ticker, tick, histVars>>

Phases == {"idle", "services", "discovery", "headers", "wait"}

(***************************************************************************)
(* Store keys.  Entries are told apart by their position in the list.      *)
(***************************************************************************)
WidgetKey(i, w) == <<"svc", i, w>>
MonitorKey(i)   == <<"svc", i, 0>>
HeaderKey(i)    == <<"header", i, 0>>
FoundKey(d)     == <<d.source, d.namespace, d.id>>
EntryKey(i)     == <<"entry", i, 0>>        \* a goroutine, never a card

NoResult == [status |-> "", pods |-> "", base |-> FALSE, err |-> FALSE]
Nobody   == "nobody"
Card(name) == [name |-> name, m |-> NoResult, fields |-> Nobody, err |-> ""]
Put(f, k, v) == [x \in DOMAIN f \cup {k} |-> IF x = k THEN v ELSE f[x]]
Only(f, S)   == [x \in DOMAIN f \cap S |-> f[x]]

(***************************************************************************)
(* Poller.monitor: the results one probe of entry e may return.            *)
(***************************************************************************)
BaseURLs(e) ==  \* resolveBaseURL: [ok: a URL was found, err: a card error]
    CASE e.url = "none"     -> {[ok |-> FALSE, err |-> FALSE]}
      [] e.url = "plain"    -> {[ok |-> TRUE, err |-> FALSE]}
      [] e.url = "internal" -> {[ok |-> ~mode.Preview, err |-> FALSE]}
      [] e.url = "auto"     -> IF mode.Preview
                                 THEN {[ok |-> FALSE, err |-> FALSE]}
                                 ELSE {[ok |-> b, err |-> ~b] : b \in BOOLEAN}

HTTPProbed(e, base) == e.monitor = "url" \/ (e.monitor = "self" /\ base.ok)
HTTPStatus(e, base) ==
    IF HTTPProbed(e, base)
      THEN IF mode.SampleData THEN {"Up"} ELSE {"Up", "Down"}
      ELSE IF mode.Preview /\ ~mode.SampleData /\ e.monitor # "none"
             THEN {"Up"} ELSE {""}

PodStatus(e, allow) ==      \* [status, err]
    IF e.pods = "none" THEN {[status |-> "", err |-> FALSE]}
    ELSE IF mode.Preview \/ mode.SampleData
      THEN {[status |-> "Up", err |-> FALSE]}
    ELSE IF e.pods = "foreign" /\ ~allow
      THEN {[status |-> "Down", err |-> TRUE]}
      ELSE {[status |-> s, err |-> FALSE] : s \in {"Up", "Partial", "Down"}}

Recorded(e, base, status, pods) ==  \* sources that reach the gauge
    IF mode.SampleData THEN {}
    ELSE {s \in {"http", "pods"} :
            \/ s = "http" /\ status # "" /\ HTTPProbed(e, base)
            \/ s = "pods" /\ pods # "" /\ ~mode.Preview}

Monitor(e, allow) ==
    UNION {UNION {{[m |-> [status |-> s, pods |-> p.status, base |-> b.ok,
                           err |-> b.err \/ p.err],
                    sources |-> Recorded(e, b, s, p.status)]
                     : p \in PodStatus(e, allow)}
                     : s \in HTTPStatus(e, b)}
                     : b \in BaseURLs(e)}

Label(e, source) == <<"entry", e.name, source>>
FoundLabel(d)    == <<d.source, <<d.namespace, d.id>>, "http">>
Gauge(m, source) == IF source = "http" THEN m.status = "Up"
                                       ELSE m.pods \in {"Up", "Partial"}
-----------------------------------------------------------------------------
Nothing == [services |-> <<>>, headers |-> <<>>, found |-> {}, routes |-> {}, listed |-> {}]

Init ==
    /\ mode \in Modes /\ cfg \in Configs
    /\ phase = "idle"
    /\ dash = [discovery |-> NoDiscovery, allow |-> FALSE]
    /\ keep = {} /\ labels = {} /\ tasks = {} /\ sem = 0
    /\ store = <<>> /\ age = <<>> /\ exported = <<>> /\ prevLabels = {}
    /\ caUsed = {} /\ caCache = {}
    /\ ticker = 0
    /\ tick = TRUE              \* Run polls once before it makes the ticker
    /\ complete = FALSE /\ seen = Nothing /\ probe = <<>>

(***************************************************************************)
(* The environment: custom resources are edited, time passes.  A ticker's  *)
(* channel holds one tick; later ones are dropped while it is full.        *)
(***************************************************************************)
Edit ==
    /\ cfg' \in Configs \ {cfg}
    /\ UNCHANGED <<mode, phase, cycleVars, tasks, sem, store, age, exported,
                   prevLabels, caUsed, caCache, ticker, tick, histVars>>

Elapse ==
    /\ age' = [k \in DOMAIN age |-> Min({age[k] + 1, MaxAge})]
    /\ ticker' = IF ticker = 1 THEN Interval ELSE Max({ticker - 1, 0})
    /\ tick' = (tick \/ ticker = 1)
    /\ UNCHANGED <<mode, cfg, phase, cycleVars, tasks, sem, store, exported,
                   prevLabels, caUsed, caCache, histVars>>

(***************************************************************************)
(* pollOnce, up to its wg.Wait.                                            *)
(***************************************************************************)
Begin ==    \* one Get of the Dashboard; when it fails every setting is unset
    /\ phase = "idle" /\ tick
    /\ tick' = FALSE
    /\ phase' = "services"
    /\ dash' \in {[discovery |-> cfg.discovery, allow |-> cfg.allow],
                  [discovery |-> NoDiscovery, allow |-> FALSE]}
    /\ keep' = {} /\ labels' = {} /\ caUsed' = {}
    /\ complete' = FALSE /\ seen' = Nothing /\ probe' = <<>>
    /\ UNCHANGED <<mode, cfg, tasks, sem, store, age, exported, prevLabels, caCache,
                   ticker>>

\* Mutant: the ticker is never made.
ReturnNoTicker ==
    /\ phase' = "idle"
    /\ UNCHANGED ticker

Return ==   \* back to Run, which makes its ticker after the first cycle
    /\ phase' = "idle"
    /\ ticker' = IF ticker = 0 THEN Interval ELSE ticker

Task(kind, key, item, m) ==     \* a goroutine of run(), before its semaphore
    [kind |-> kind, key |-> key, item |-> item, m |-> m, st |-> "queued"]

ListFails ==    \* counting Dashboards or listing ServiceCards failed
    /\ phase = "services"
    /\ Return
    /\ UNCHANGED <<mode, cfg, cycleVars, tasks, sem, store, age, exported,
                   prevLabels, caUsed, caCache, tick, histVars>>

ListServices ==
    /\ phase = "services"
    /\ phase' = "discovery"
    /\ seen' = [seen EXCEPT !.services = cfg.services]
    /\ tasks' = tasks \cup {Task("entry", EntryKey(i), cfg.services[i], NoResult) :
                              i \in DOMAIN cfg.services}
    /\ UNCHANGED <<mode, cfg, cycleVars, sem, store, age, exported, prevLabels,
                   caUsed, caCache, ticker, tick, complete, probe>>

\* The sources that are listed at all, and the namespaces each is listed in.
ActiveSources ==
    {s \in Sources : /\ dash.discovery.enabled /\ HasSource(dash.discovery, s)
                     /\ s = "HTTPRoute" => mode.GatewayAPIEnabled}
Searched == {Own} \cup extraDiscoveryNamespaces(dash.discovery)

\* Which listings succeed: the others are not tried without the Dashboard's own.
Listings ==
    {L \in SUBSET (ActiveSources \X Searched) : \A l \in L : <<l[1], Own>> \in L}

\* What the sources turned on find, when the listings in listed succeed.
Found(listed) ==
    UNION {discoverServices(s, cfg.routes, {n \in Searched : <<s, n>> \in listed},
                            dash.discovery) : s \in ActiveSources}

Discover(listed) ==
    /\ phase = "discovery"
    /\ phase' = "headers"
    /\ keep' = keep \cup {FoundKey(d) : d \in Found(listed)}
    /\ tasks' = tasks \cup {Task("found", FoundKey(d), d, NoResult) : d \in Found(listed)}
    /\ seen' = [seen EXCEPT !.found = Found(listed), !.routes = cfg.routes, !.listed = listed]
    /\ UNCHANGED <<mode, cfg, dash, labels, sem, store, age, exported, prevLabels,
                   caUsed, caCache, ticker, tick, complete, probe>>

ListHeaders(ok) ==      \* a failed listing is logged and the cycle goes on
    /\ phase = "headers"
    /\ phase' = "wait"
    /\ LET hs == IF ok THEN cfg.headers ELSE <<>>
       IN  /\ keep' = keep \cup {HeaderKey(i) : i \in DOMAIN hs}
           /\ tasks' = tasks \cup {Task("header", HeaderKey(i), hs[i], NoResult) :
                                      i \in DOMAIN hs}
           /\ seen' = [seen EXCEPT !.headers = hs]
    /\ UNCHANGED <<mode, cfg, dash, labels, sem, store, age, exported, prevLabels,
                   caUsed, caCache, ticker, tick, complete, probe>>

(***************************************************************************)
(* The goroutines.  Acquire takes a semaphore slot; a widget's goroutine   *)
(* then decides at once, in duePoll, whether it polls.                     *)
(***************************************************************************)
DuePoll(key, override) ==
    \/ override = 0
    \/ key \notin DOMAIN age
    \/ age[key] >= Max({override, Interval})

RecordPoll(key, override) ==    \* duePoll's assignment to widgetLastPolled
    age' = IF override = 0 THEN age ELSE Put(age, key, 0)

WithState(t, st) ==
    (tasks \ {t}) \cup {[kind |-> t.kind, key |-> t.key, item |-> t.item, m |-> t.m,
                         st |-> st]}

Acquire(t) ==
    /\ t.st = "queued" /\ sem < MaxConcurrent
    /\ sem' = sem + 1
    /\ IF t.kind \in {"widget", "header"}
         THEN LET w == t.item.widget
              IN  IF DuePoll(t.key, w.override)
                    THEN /\ RecordPoll(t.key, w.override)
                         /\ tasks' = WithState(t, "due")
                    ELSE tasks' = WithState(t, "skip") /\ UNCHANGED age
         ELSE tasks' = WithState(t, "running") /\ UNCHANGED age
    /\ UNCHANGED <<mode, cfg, phase, cycleVars, store, exported, prevLabels, caUsed,
                   caCache, ticker, tick, histVars>>

\* Mutant: a goroutine that starts others does not free its slot.
DoneHoldsSlot(t, started) ==
    /\ tasks' = (tasks \ {t}) \cup started
    /\ sem' = IF started = {} THEN sem - 1 ELSE sem

Done(t, started) ==     \* the deferred release, after starting more of them
    /\ tasks' = (tasks \ {t}) \cup started
    /\ sem' = sem - 1

SetAll(f, g) == [x \in DOMAIN f \cup DOMAIN g |-> IF x \in DOMAIN g THEN g[x] ELSE f[x]]

\* The card of an entry whose monitor returned m, before any widget poll.
EntryCard(e, m) ==
    [Card(e.name) EXCEPT !.m = m,
                         !.err = IF m.err /\ ~e.hide THEN "monitor" ELSE ""]

RunEntry(t) ==
    /\ t.kind = "entry" /\ t.st = "running"
    /\ \E r \in Monitor(t.item, dash.allow) :
         LET e == t.item
             i == t.key[2]
             ws == DOMAIN e.widgets
             recorded == {Label(e, s) : s \in r.sources}
             V == [l \in recorded |-> Gauge(r.m, l[3])]
             alone == ws = {} /\ (r.m.status # "" \/ r.m.pods # "")
         IN  /\ labels' = labels \cup recorded
             /\ exported' = SetAll(exported, V)
             /\ probe' = Put(probe, i, r)
             /\ keep' = keep \cup {WidgetKey(i, w) : w \in ws}
                             \cup (IF alone THEN {MonitorKey(i)} ELSE {})
             /\ store' = IF alone THEN Put(store, MonitorKey(i), EntryCard(e, r.m))
                                  ELSE store
             /\ Done(t, {Task("widget", WidgetKey(i, w),
                              [name |-> e.name, hide |-> e.hide,
                               widget |-> e.widgets[w]], r.m) : w \in ws})
    /\ UNCHANGED <<mode, cfg, phase, dash, age, prevLabels, caUsed, caCache, ticker,
                   tick, complete, seen>>

(***************************************************************************)
(* One upstream poll: secrets, the CA bundle if there is one, the request. *)
(* A bundle is marked used once read, and cached once parsed.              *)
(***************************************************************************)
Sampled(t) == \/ mode.SampleData
              \/ mode.Preview /\ t.kind = "widget" /\ ~t.item.widget.url /\ ~t.m.base

UsesCA(t, read, parsed) ==
    /\ caUsed' = caUsed \cup read
    /\ caCache' = caCache \cup (IF parsed THEN read ELSE {})

Upstream(t, ok) ==
    \/ Sampled(t) /\ ok /\ UNCHANGED <<caUsed, caCache>>
    \/ ~Sampled(t) /\ ~t.item.widget.ca /\ UNCHANGED <<caUsed, caCache>>
    \/ ~Sampled(t) /\ ~ok /\ UNCHANGED <<caUsed, caCache>>
    \/ ~Sampled(t) /\ t.item.widget.ca
         /\ \E pem \in CAs, parsed \in BOOLEAN :
              (ok => parsed) /\ UsesCA(t, {pem}, parsed)

Filled(card, name, ok, hide) ==     \* the card once the poll has answered
    [card EXCEPT !.fields = IF ok THEN name ELSE Nobody,
                 !.err = IF ok \/ hide THEN @ ELSE "widget"]

\* Mutant: a widget that is not due keeps its whole card.
MergedCardStale(t) ==
    IF t.key \in DOMAIN store THEN store[t.key] ELSE Card(t.item.name)

\* mergeMonitorIntoStoredCard, for a widget that is not due in this cycle.
MergedCard(t) ==
    LET old == IF t.key \in DOMAIN store THEN store[t.key] ELSE Card(t.item.name)
    IN  [old EXCEPT !.m = t.m,
                    !.err = IF t.m.err /\ ~t.item.hide THEN "monitor" ELSE @]

PollWidget(t) ==
    /\ t.kind = "widget" /\ t.st = "due"
    /\ \E ok \in BOOLEAN :
         /\ Upstream(t, ok)
         /\ store' = Put(store, t.key, Filled(EntryCard(t.item, t.m), t.item.name,
                                              ok, t.item.hide))
    /\ Done(t, {})
    /\ UNCHANGED <<mode, cfg, phase, cycleVars, age, exported, prevLabels, ticker, tick,
                   complete, seen, probe>>

MergeMonitorIntoStoredCard(t) ==
    /\ t.kind = "widget" /\ t.st = "skip"
    /\ store' = Put(store, t.key, MergedCard(t))
    /\ Done(t, {})
    /\ UNCHANGED <<mode, cfg, phase, cycleVars, age, exported, prevLabels, caUsed, caCache,
                   ticker, tick, histVars>>

PollInfoWidget(t) ==
    /\ t.kind = "header" /\ t.st = "due"
    /\ \E ok \in BOOLEAN :
         /\ Upstream(t, ok)
         /\ store' = Put(store, t.key,
                         Filled(Card(t.item.name), t.item.name, ok, FALSE))
    /\ Done(t, {})
    /\ UNCHANGED <<mode, cfg, phase, cycleVars, age, exported, prevLabels, ticker, tick,
                   complete, seen, probe>>

SkipInfoWidget(t) ==    \* not due: the previous cycle's card stays
    /\ t.kind = "header" /\ t.st = "skip"
    /\ Done(t, {})
    /\ UNCHANGED <<mode, cfg, phase, cycleVars, store, age, exported, prevLabels, caUsed,
                   caCache, ticker, tick, histVars>>

PollDiscoveredService(t) ==
    /\ t.kind = "found" /\ t.st = "running"
    /\ \E s \in IF ~t.item.monitor \/ t.item.href = <<>> THEN {""}
                ELSE IF mode.SampleData THEN {"Up"} ELSE {"Up", "Down"} :
         LET recorded == IF s # "" /\ ~mode.SampleData THEN {FoundLabel(t.item)}
                                                       ELSE {}
             V == [l \in recorded |-> s = "Up"]
         IN  /\ labels' = labels \cup recorded
             /\ exported' = SetAll(exported, V)
             /\ store' = Put(store, t.key,
                             [Card(t.item.name) EXCEPT !.m.status = s])
    /\ Done(t, {})
    /\ UNCHANGED <<mode, cfg, phase, dash, keep, age, prevLabels, caUsed, caCache, ticker,
                   tick, histVars>>

(***************************************************************************)
(* The end of a cycle: wg.Wait has returned, everything unmarked goes.     *)
(***************************************************************************)
\* Mutants: a prune is left out.
KeepLastPolled == UNCHANGED age
KeepMetrics    == UNCHANGED <<exported, prevLabels>>
KeepCAClients  == UNCHANGED caCache

Prune == store' = Only(store, keep)

PruneWidgetLastPolled == age' = Only(age, keep)

PruneMonitorMetrics ==
    /\ exported' = Only(exported, DOMAIN exported \ (prevLabels \ labels))
    /\ prevLabels' = labels

PruneCAClientCache == caCache' = caCache \cap caUsed

EndCycle ==
    /\ phase = "wait" /\ tasks = {}
    /\ Prune /\ PruneMonitorMetrics /\ PruneWidgetLastPolled /\ PruneCAClientCache
    /\ Return
    /\ complete' = TRUE
    /\ UNCHANGED <<mode, cfg, cycleVars, tasks, sem, caUsed, tick, seen, probe>>

Run(t) == \/ Acquire(t) \/ RunEntry(t) \/ PollWidget(t)
          \/ MergeMonitorIntoStoredCard(t) \/ PollInfoWidget(t)
          \/ SkipInfoWidget(t) \/ PollDiscoveredService(t)

Next ==
    \/ Edit \/ Elapse \/ Begin \/ ListFails \/ ListServices
    \/ \E listed \in Listings : Discover(listed)
    \/ \E ok \in BOOLEAN : ListHeaders(ok)
    \/ \E t \in tasks : Run(t)
    \/ EndCycle

Spec == Init /\ [][Next]_vars

\* pollOnce and its goroutines keep running, and clients have timeouts.
Cycle == \/ Begin \/ ListFails \/ ListServices
         \/ \E listed \in Listings : Discover(listed)
         \/ \E ok \in BOOLEAN : ListHeaders(ok)
         \/ \E t \in tasks : Run(t)
         \/ EndCycle

\* Time passes, and listing from the local cache does not fail for ever.
FairSpec == Spec /\ WF_vars(Cycle) /\ WF_vars(Elapse) /\ SF_vars(ListServices)
-----------------------------------------------------------------------------
(***************************************************************************)
(* Properties.                                                             *)
(***************************************************************************)
Ended == phase = "idle" /\ complete     \* the last cycle was not cut short

\* The store keys that entry i of the listing gets once it is probed.
EntryKeys(i) ==
    IF seen.services[i].widgets # <<>>
      THEN {WidgetKey(i, w) : w \in DOMAIN seen.services[i].widgets}
      ELSE IF probe[i].m.status # "" \/ probe[i].m.pods # ""
             THEN {MonitorKey(i)} ELSE {}

\* The keys a cycle that listed and probed these must leave in the store.
ShownKeys ==
    (UNION {EntryKeys(i) : i \in DOMAIN seen.services})
    \cup {HeaderKey(i) : i \in DOMAIN seen.headers}
    \cup {FoundKey(d) : d \in seen.found}

Statuses == {"", "Up", "Partial", "Down"}
Results  == [status : Statuses, pods : Statuses, base : BOOLEAN, err : BOOLEAN]

\* Every variable has its type; a goroutine past its semaphore holds a slot.
TypeOK ==
    /\ mode \in Modes /\ cfg \in Configs
    /\ phase \in Phases
    /\ dash.discovery.sources \subseteq Sources /\ dash.allow \in BOOLEAN
    /\ \A t \in tasks : /\ t.kind \in {"entry", "widget", "header", "found"}
                         /\ t.st \in {"queued", "running", "due", "skip"}
                         /\ t.m \in Results
    /\ sem = Cardinality({t \in tasks : t.st # "queued"})
    /\ sem \in 0..MaxConcurrent
    /\ \A k \in DOMAIN store : store[k].m \in Results
    /\ \A k \in DOMAIN age : age[k] \in 0..MaxAge
    /\ \A l \in DOMAIN exported : exported[l] \in BOOLEAN
    /\ caUsed \subseteq CAs /\ caCache \subseteq CAs
    /\ ticker \in 0..Interval /\ tick \in BOOLEAN /\ complete \in BOOLEAN

\* A finished cycle leaves a card for exactly what it listed: nothing that was
\* deleted stays, and a header item that was not due still has its old card
\* (pollInfoWidget returns early and trusts it to be there).
ShownExactly == Ended => DOMAIN store = ShownKeys

\* A widget or header item that is skipped because it is not due has a card: a
\* poll time is recorded before the card exists, and both are pruned, but never
\* so that the time alone is left.  mergeMonitorIntoStoredCard's branch for a
\* missing card is never taken.
SkippedHasCard == \A t \in tasks : t.st = "skip" => t.key \in DOMAIN store

\* Every service card shows the monitor result of the last cycle, also when its
\* widget was not due and only the monitor half of the card was refreshed.
FreshStatus ==
    Ended => \A i \in DOMAIN seen.services, w \in 0..9 :
               WidgetKey(i, w) \in DOMAIN store =>
                 store[WidgetKey(i, w)].m = probe[i].m

\* The monitorUp gauge has one series per source probed in the last cycle, with
\* that probe's value, and no series of an entry or source that is gone.
MetricsFollowProbes ==
    Ended =>
      /\ DOMAIN exported =
           (UNION {{Label(seen.services[i], s) : s \in probe[i].sources} :
                      i \in DOMAIN seen.services})
           \cup {FoundLabel(d) :
                   d \in {f \in seen.found : f.monitor /\ f.href # <<>> /\ ~mode.SampleData}}
      /\ \A i \in DOMAIN seen.services : \A s \in probe[i].sources :
           exported[Label(seen.services[i], s)] = Gauge(probe[i].m, s)

\* Between cycles the CA client cache holds only bundles read in the last one:
\* rotating a bundle never leaves its old client and connections behind.
CACacheBounded == Ended => caCache \subseteq caUsed

\* A poll cycle always ends, however few slots the goroutines share.
CycleEnds == (phase # "idle") ~> (phase = "idle")

\* Once the custom resources stop changing, the Store keeps coming back to
\* exactly the widgets they list.
EditShows ==
    \A c \in Configs :
      <>[](cfg = c) =>
        []<>({k \in DOMAIN store : k[1] = "svc" /\ k[3] # 0} =
              UNION {{WidgetKey(i, w) : w \in DOMAIN c.services[i].widgets} :
                        i \in DOMAIN c.services})

\* A namespace that cannot be listed takes its own discovered cards off the page
\* and no others: every route that opts in, in a namespace the last cycle could
\* list, has a card, with title and status from the one annotation convention
\* that opts it in (discoverServices, discoveryAnnotations).
DiscoveryDegrades ==
    Ended => \A o \in seen.routes :
      LET spec  == dash.discovery
          key   == <<o.source, o.namespace, o.name>>
          OptsIn(p) == /\ p \in DOMAIN o.annotations /\ o.annotations[p].enabled = "true"
                       /\ p = Prefix(spec) \/ (spec.homepageCompat /\ p = Homepage)
          Says(p, field) == o.annotations[p][field]
          Expected == /\ o.source \in ActiveSources
                      /\ {<<o.source, Own>>, <<o.source, o.namespace>>} \subseteq seen.listed
                      /\ o.namespace \in {Own} \cup spec.namespaces
                      /\ \E p \in {Prefix(spec), Homepage} : OptsIn(p)
          Probed(p) == /\ "true" \in {Says(p, "monitor"), Says(p, "ping")}
                       /\ Says(p, "href") # <<>> \/ o.hosts # <<>>
      IN  /\ Expected => key \in DOMAIN store
          /\ key \in DOMAIN store => \E p \in {Prefix(spec), Homepage} :
               /\ OptsIn(p)
               /\ p # Prefix(spec) => ~OptsIn(Prefix(spec))
               /\ store[key].name = IF Says(p, "name") = "" THEN o.name ELSE Says(p, "name")
               /\ (store[key].m.status # "") <=> Probed(p)
-----------------------------------------------------------------------------
(***************************************************************************)
(* Why SkippedHasCard holds: the invariant that PollerProofs shows to be   *)
(* inductive.                                                              *)
(***************************************************************************)
Polling == {"widget", "header"}

\* A goroutine's key tells what started it; only polling ones can be due.
TaskKeys ==
    \A t \in tasks :
      /\ t.kind \in {"entry", "found"} \cup Polling
      /\ t.kind = "entry" => t.key = EntryKey(t.key[2])
      /\ t.kind = "widget" => t.key[1] = "svc"
      /\ t.kind = "header" => t.key[1] = "header"
      /\ t.st \in {"due", "skip"} => t.kind \in Polling

\* No two goroutines write one key, since an entry's goroutine is the only one
\* to start those of its widgets.
OneWriter ==
    /\ \A t, u \in tasks :
         t.kind # "found" /\ u.kind # "found" /\ t.key = u.key => t = u
    /\ \A t, u \in tasks :
         t.kind = "entry" /\ u.kind = "widget" => t.key[2] # u.key[2]

\* What has been started by each phase of a cycle.
Started ==
    /\ phase \in Phases
    /\ phase \in {"idle", "services"} => tasks = {}
    /\ phase = "discovery" => \A t \in tasks : t.kind \in {"entry", "widget"}
    /\ phase = "headers" => \A t \in tasks : t.kind # "header"

\* A key with a poll time has a card, or is being polled for the first time.
TrackedHasCard ==
    \A k \in DOMAIN age :
      k \in DOMAIN store \/ \E t \in tasks : t.key = k /\ t.st = "due"

CardInv ==
    /\ TaskKeys /\ OneWriter /\ Started
    /\ TrackedHasCard /\ SkippedHasCard
=============================================================================

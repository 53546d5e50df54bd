---------------------------- MODULE BoundConfig ----------------------------
(***************************************************************************)
(* Which Dashboard a ServiceCard, Bookmark or InfoWidget belongs to, as     *)
(* three controllers and the Dashboard's own come to agree on it            *)
(* (internal/controller/bound_config_reconciler.go, conditions.go,          *)
(* widget_config.go; the Role's Secret names and the bound counts of        *)
(* dashboard_rbac.go and dashboard_controller.go).                          *)
(*                                                                         *)
(* A config object with no dashboardRef belongs to the namespace's only     *)
(* Dashboard, so that creating or deleting a second one changes what the    *)
(* first may read.  Nothing tells the first Dashboard's reconciler but the  *)
(* config object's own change of status.                                    *)
(***************************************************************************)
EXTENDS Integers, FiniteSets, Binding

CONSTANTS
    Names,      \* Dashboards
    DashSpec,   \* per Dashboard: labeled (spec.secretPolicy), auth and
                \* defaults (the Secrets of spec.auth and spec.widgetDefaults)
    Objects,    \* config objects
    HasWidgets, \* the ServiceCards and InfoWidgets of them
    CardSpecs,  \* per object, the specs a user may write
    Secrets,
    ConfigSchemas,          \* per widget type, required and optional keys
    LagDashboards,          \* TRUE: the Dashboard informer may lag
    MaxChanges              \* bound: edits, and Dashboards created or deleted

ASSUME BoundAssumption ==
    /\ IsFiniteSet(Names) /\ Unset \notin Names
    /\ IsFiniteSet(Objects) /\ HasWidgets \subseteq Objects
    /\ \A d \in Names : DashSpec[d].auth \cup DashSpec[d].defaults \subseteq Secrets
    /\ \A o \in Objects : \A s \in CardSpecs[o] :
         s.ref \in Names \cup {Unset} /\ s.secrets \subseteq Secrets
    /\ LagDashboards \in BOOLEAN /\ MaxChanges \in Nat

VARIABLES
    stored,     \* the Dashboards that exist
    seen,       \* those in the manager's cache
    news,       \* those with an event that the informer has not delivered
    role,       \* per Dashboard, the Secrets its Role grants
    count,      \* status: how many objects are bound to it
    object,     \* per config object, a set of at most one: spec, generation, status
    labels,     \* Secrets that exist and carry the allow-widgets label
    dashQueue, objectQueue,
    at,         \* the Dashboard worker: a set of at most one Dashboard, and its step
    pending,    \* per object, what its controller read and is about to write
    edits, churn

clusterVars == <<stored, role, count, object, labels>>
workers == <<at, pending>>
vars == <<clusterVars, seen, news, dashQueue, objectQueue, workers, edits, churn>>
-----------------------------------------------------------------------------
(***************************************************************************)
(* Binding, and the conditions that report it.                             *)
(***************************************************************************)
Condition(status, reason, names) == [status |-> status, reason |-> reason, names |-> names]

\* Mutant: an unset ref is bound whenever there is a Dashboard.
LenientCondition(ref, dashboards) ==
    CASE ref # Unset /\ ref \notin dashboards -> Condition(FALSE, "DashboardNotFound", {ref})
      [] ref # Unset /\ ref \in dashboards    -> Condition(TRUE, "Bound", {ref})
      [] ref = Unset /\ dashboards = {}       -> Condition(FALSE, "DashboardNotFound", {})
      [] OTHER                                -> Condition(TRUE, "Bound", dashboards)

boundDashboardCondition(ref, dashboards) ==
    CASE ref # Unset /\ ref \notin dashboards -> Condition(FALSE, "DashboardNotFound", {ref})
      [] ref # Unset /\ ref \in dashboards    -> Condition(TRUE, "Bound", {ref})
      [] ref = Unset /\ dashboards = {}       -> Condition(FALSE, "DashboardNotFound", {})
      [] ref = Unset /\ Cardinality(dashboards) = 1 -> Condition(TRUE, "Bound", dashboards)
      [] OTHER -> Condition(FALSE, "AmbiguousDashboardRef", dashboards)

\* A widget's config block: its type, whether it decodes, its keys.
Invalid(w) ==       \* not an object, or a required key is missing
    w.type \in DOMAIN ConfigSchemas
      /\ (~w.object \/ ~(ConfigSchemas[w.type].required \subseteq w.keys))
Unknown(w) ==       \* a key that is neither required nor optional
    w.type \in DOMAIN ConfigSchemas /\ w.object
      /\ ~(w.keys \subseteq ConfigSchemas[w.type].required \cup ConfigSchemas[w.type].optional)

validateWidgetConfigs(widgets) ==
    CASE \E w \in widgets : Invalid(w) -> "InvalidWidgetConfig"
      [] (\A w \in widgets : ~Invalid(w)) /\ (\E w \in widgets : Unknown(w)) -> "UnknownConfigKeys"
      [] OTHER -> "ConfigValid"

\* What a kind's adapter says of an object: Bookmarks have no widgets.
validity(o, obj) == IF o \in HasWidgets THEN validateWidgetConfigs(obj.spec.widgets) ELSE "none"

\* Mutant: a ConfigValid condition that is there is dropped.
ReconciledByTurns(o, obj, dashboards) ==
    [obj EXCEPT !.available = boundDashboardCondition(obj.spec.ref, dashboards),
                !.configValid = IF @ = "none" THEN "ConfigValid" ELSE "none",
                !.observed = obj.generation]

\* The object as its controller writes it back.
Reconciled(o, obj, dashboards) ==
    LET cond  == boundDashboardCondition(obj.spec.ref, dashboards)
        valid == validity(o, obj)
    IN  [obj EXCEPT
           !.available = IF cond.status /\ valid = "InvalidWidgetConfig"
                         THEN Condition(FALSE, valid, {}) ELSE cond,
           !.configValid = valid,
           !.observed = obj.generation]

NotReconciled == Condition(FALSE, "none", {})
NewObject(s) == [spec |-> s, generation |-> 1, available |-> NotReconciled,
                 configValid |-> "none", observed |-> 0]
-----------------------------------------------------------------------------
(***************************************************************************)
(* What the Dashboard controller derives from the objects bound to d.      *)
(***************************************************************************)
Bound(d, dashboards) ==
    {o \in Objects : \E obj \in object[o] :
        BoundTo(obj.spec.ref, d, Cardinality(dashboards))}

referencedSecretNames(d, dashboards) ==
    UNION {obj.spec.secrets : obj \in UNION {object[o] : o \in Bound(d, dashboards) \cap HasWidgets}}

\* With spec.secretPolicy Labeled only labelled Secrets, read uncached; the
\* Secret of spec.auth is never filtered.
SecretNames(d, dashboards) ==
    LET names == referencedSecretNames(d, dashboards) \cup DashSpec[d].defaults
    IN  (IF DashSpec[d].labeled THEN names \cap labels ELSE names) \cup DashSpec[d].auth

boundCountsForDashboard(d, dashboards) == Cardinality(Bound(d, dashboards))
-----------------------------------------------------------------------------
(***************************************************************************)
(* Events.                                                                 *)
(***************************************************************************)
\* mapDashboardToRequests: a Dashboard's event reaches the objects that name
\* it and those that name none.
Affected(d) == {o \in Objects : \E obj \in object[o] : obj.spec.ref \in {d, Unset}}

\* Mutant: an object that names no Dashboard wakes none.
mapToNamed(ref) == IF ref = Unset THEN {} ELSE {ref}

\* mapToDashboard: an object's event reaches the Dashboard it names, or all.
\* An unset ref reaches every Dashboard in the cache.
mapToDashboard(ref) == IF ref = Unset THEN seen ELSE {ref}

\* An object changes: its own controller hears of it, and the Dashboards that
\* the old and the new version map to.
ObjectEvent(o, old, new) ==
    /\ object' = [object EXCEPT ![o] = new]
    /\ IF old = new THEN UNCHANGED <<dashQueue, objectQueue>>
       ELSE /\ objectQueue' = objectQueue \cup {o}
            /\ dashQueue' = dashQueue \cup UNION {mapToDashboard(v.spec.ref) : v \in old \cup new}

DashboardEvent(d) ==
    /\ dashQueue' = dashQueue \cup {d}
    /\ objectQueue' = objectQueue \cup Affected(d)

Idle == {}

Init ==
    /\ stored \in SUBSET Names /\ seen = stored /\ news = {}
    /\ role = [d \in Names |-> {}] /\ count = [d \in Names |-> 0]
    /\ object \in [Objects -> {{}} \cup {{NewObject(s)} : s \in UNION {CardSpecs[o] : o \in Objects}}]
    /\ \A o \in Objects : \A obj \in object[o] : obj.spec \in CardSpecs[o]
    /\ labels = {}
    /\ dashQueue = stored /\ objectQueue = {o \in Objects : object[o] # {}}
    /\ at = Idle /\ pending = [o \in Objects |-> Idle]
    /\ edits = 0 /\ churn = 0
-----------------------------------------------------------------------------
(***************************************************************************)
(* boundConfigReconciler.Reconcile: read from the cache, then write.       *)
(***************************************************************************)
Read(o) ==
    /\ o \in objectQueue /\ pending[o] = Idle
    /\ objectQueue' = objectQueue \ {o}
    /\ pending' = [pending EXCEPT ![o] =
                     {[old |-> obj, new |-> Reconciled(o, obj, seen)] : obj \in object[o]}]
    /\ UNCHANGED <<clusterVars, seen, news, dashQueue, at, edits, churn>>

\* Status().Update: refused once the object has changed or gone, and retried.
Write(o) ==
    /\ \E p \in pending[o] :
         \/ object[o] = {p.old} /\ ObjectEvent(o, {p.old}, {p.new})
         \/ object[o] # {p.old} /\ objectQueue' = objectQueue \cup {o}
              /\ UNCHANGED <<object, dashQueue>>
    /\ pending' = [pending EXCEPT ![o] = Idle]
    /\ UNCHANGED <<stored, role, count, labels, seen, news, at, edits, churn>>

(***************************************************************************)
(* DashboardReconciler.Reconcile, with one worker: the Role first, the     *)
(* counts at the end.                                                      *)
(***************************************************************************)
Take(d) ==
    /\ at = Idle /\ d \in dashQueue
    /\ dashQueue' = dashQueue \ {d}
    /\ at' = IF d \in seen THEN {[name |-> d, step |-> "role"]} ELSE Idle
    /\ UNCHANGED <<clusterVars, seen, news, objectQueue, pending, edits, churn>>

ReconcileRole(d) ==     \* fails once the Dashboard is gone, with its Role
    /\ at = {[name |-> d, step |-> "role"]}
    /\ at' = IF d \in stored THEN {[name |-> d, step |-> "status"]} ELSE Idle
    /\ role' = IF d \in stored THEN [role EXCEPT ![d] = SecretNames(d, seen)] ELSE role
    /\ UNCHANGED <<stored, count, object, labels, seen, news, dashQueue, objectQueue, pending,
                   edits, churn>>

ReconcileStatus(d) ==   \* a changed status is an event of the Dashboard's
    /\ at = {[name |-> d, step |-> "status"]}
    /\ at' = Idle
    /\ LET new == boundCountsForDashboard(d, seen)
       IN  IF d \in stored /\ count[d] # new
           THEN count' = [count EXCEPT ![d] = new] /\ DashboardEvent(d)
           ELSE UNCHANGED <<count, dashQueue, objectQueue>>
    /\ UNCHANGED <<stored, role, object, labels, seen, news, pending, edits, churn>>
-----------------------------------------------------------------------------
Apply(o, s) ==      \* a user creates or edits a config object
    /\ edits + churn < MaxChanges /\ edits' = edits + 1
    /\ s \in CardSpecs[o] /\ \A obj \in object[o] : obj.spec # s
    /\ ObjectEvent(o, object[o],
         IF object[o] = {} THEN {NewObject(s)}
         ELSE {[obj EXCEPT !.spec = s, !.generation = @ + 1] : obj \in object[o]})
    /\ UNCHANGED <<stored, role, count, labels, seen, news, workers, churn>>

DeleteObject(o) ==
    /\ edits + churn < MaxChanges /\ edits' = edits + 1
    /\ object[o] # {} /\ ObjectEvent(o, object[o], {})
    /\ UNCHANGED <<stored, role, count, labels, seen, news, workers, churn>>

\* A Secret gains or loses the label: mapSecretToDashboards.
Label(s) ==
    /\ edits + churn < MaxChanges /\ edits' = edits + 1
    /\ labels' = IF s \in labels THEN labels \ {s} ELSE labels \cup {s}
    /\ dashQueue' = dashQueue \cup seen
    /\ UNCHANGED <<stored, role, count, object, seen, news, objectQueue, workers, churn>>

Churn(d) ==         \* a Dashboard is created, or is gone with what it owns
    /\ edits + churn < MaxChanges /\ churn' = churn + 1
    /\ stored' = IF d \in stored THEN stored \ {d} ELSE stored \cup {d}
    /\ role' = [role EXCEPT ![d] = {}] /\ count' = [count EXCEPT ![d] = 0]
    /\ IF LagDashboards THEN news' = news \cup {d} /\ UNCHANGED <<seen, dashQueue, objectQueue>>
       ELSE seen' = stored' /\ DashboardEvent(d) /\ UNCHANGED news
    /\ UNCHANGED <<object, labels, workers, edits>>

Sync(d) ==          \* the informer catches up
    /\ d \in news /\ news' = news \ {d}
    /\ seen' = IF d \in stored THEN seen \cup {d} ELSE seen \ {d}
    /\ DashboardEvent(d)
    /\ UNCHANGED <<clusterVars, workers, edits, churn>>

Work ==
    \/ \E o \in Objects : Read(o) \/ Write(o)
    \/ \E d \in Names : Take(d) \/ ReconcileRole(d) \/ ReconcileStatus(d) \/ Sync(d)

Next ==
    \/ Work
    \/ \E o \in Objects : DeleteObject(o) \/ \E s \in CardSpecs[o] : Apply(o, s)
    \/ \E s \in Secrets : Label(s)
    \/ \E d \in Names : Churn(d)

Spec == Init /\ [][Next]_vars

\* Some controller works, or an informer catches up, as long as one can.
FairSpec == Spec /\ WF_vars(Work)
-----------------------------------------------------------------------------
TypeOK ==
    /\ stored \subseteq Names /\ seen \subseteq Names /\ news \subseteq Names /\ dashQueue \subseteq Names
    /\ role \in [Names -> SUBSET Secrets] /\ labels \subseteq Secrets
    /\ count \in [Names -> 0..Cardinality(Objects)]
    /\ Cardinality(at) <= 1 /\ objectQueue \subseteq Objects
    /\ \A o \in Objects : Cardinality(object[o]) <= 1
    /\ \A o \in Objects : \A obj \in object[o] : obj.observed <= obj.generation

Quiet ==
    /\ news = {} /\ dashQueue = {} /\ objectQueue = {}
    /\ at = Idle /\ \A o \in Objects : pending[o] = Idle

\* Once the controllers are quiet, every object's Available condition is about
\* its current generation and agrees with BoundTo, by which the dashboard pod
\* decides what to show: it is bound to exactly the Dashboard whose pod shows
\* it, unless a widget of it lacks required configuration.  (The state being well
\* typed is checked along with it.)
ConditionsAgree ==
    /\ TypeOK
    /\ Quiet => \A o \in Objects : \A obj \in object[o] :
         /\ obj.observed = obj.generation
         /\ obj.available.reason # "InvalidWidgetConfig" =>
              (IF obj.available.status THEN obj.available.names ELSE {}) =
                {d \in stored : BoundTo(obj.spec.ref, d, Cardinality(stored))}
         /\ obj.available.reason = "InvalidWidgetConfig" =>
              o \in HasWidgets /\ \E w \in obj.spec.widgets : Invalid(w)

\* What the pod of d may read: the Secret of spec.auth, and of those that
\* bound widgets or the defaults name the ones the policy allows.
MayRead(d, s) ==
    \/ s \in DashSpec[d].auth
    \/ /\ DashSpec[d].labeled => s \in labels
       /\ \/ s \in DashSpec[d].defaults
          \/ \E o \in HasWidgets : \E obj \in object[o] :
               BoundTo(obj.spec.ref, d, Cardinality(stored)) /\ s \in obj.spec.secrets

Agrees(d) ==
    /\ role[d] = {s \in Secrets : MayRead(d, s)}
    /\ count[d] = Cardinality(Bound(d, stored))

\* Once the controllers are quiet, each Dashboard's Role grants exactly the
\* Secrets that the objects bound to it name, and its status counts them, also
\* after a second Dashboard has made the bindings ambiguous or has stopped to.
\* (Created and deleted before the object's controller looks, it leaves no trace
\* in the object's status, which alone would wake the first: hence churn <= 1.)
GrantsFollowBindings == Quiet /\ churn <= 1 => \A d \in stored : Agrees(d)

\* The status writes of the four controllers, each an event for another, die
\* out once users stop editing.
Settles == <>[]Quiet
=============================================================================

---------------------------- MODULE OwnedObjects ----------------------------
(***************************************************************************)
(* The objects that the Dashboard controller owns in the Dashboard's own   *)
(* namespace, and the status it reports of them: the part of Reconcile     *)
(* (internal/controller/dashboard_controller.go) that follows the          *)
(* finalizer, with dashboard_network.go and the per-Dashboard RBAC of      *)
(* dashboard_rbac.go.  Deletion and the grants in other namespaces are     *)
(* DashboardLifecycle's.                                                   *)
(*                                                                         *)
(* Reconcile runs one call at a time, against a cache that may lag behind  *)
(* the API server, among users who edit the Dashboard, other writers who   *)
(* change or delete the objects, pods that come and go, and calls that     *)
(* fail with or without having taken effect.                               *)
(***************************************************************************)
EXTENDS Integers, Sequences, FiniteSets

CONSTANTS
    Specs,      \* the Dashboard specs a user may write
    Foreign,    \* annotation keys that other controllers write
    Gateways,   \* the values of GatewayAPIEnabled to consider
    Lagging,    \* kinds whose informer may lag
    MaxEdits, MaxDrift, MaxFaults,     \* bounds: edits, foreign writes, failures
    MaxTrouble  \* bound on their sum

\* Mutant: discovery is checked before anything is created.
DiscoveryFirst ==
    <<"Discovery", "ServiceAccount", "Role", "RoleBinding", "Deployment", "Service",
      "Ingress", "HTTPRoute", "NetworkPolicy", "Status">>

\* Reconcile's order.
Steps == <<"ServiceAccount", "Role", "RoleBinding", "Deployment", "Service",
           "Ingress", "HTTPRoute", "Discovery", "NetworkPolicy", "Status">>

Kinds == {Steps[i] : i \in 1..Len(Steps)} \ {"Discovery", "Status"}
Annotated == {"Service", "Ingress", "HTTPRoute"}    \* kinds with spec annotations
Then == [s \in {Steps[i] : i \in 1..(Len(Steps) - 1)} |->
            Steps[1 + CHOOSE i \in 1..Len(Steps) : Steps[i] = s]]

Off == "off"    \* spec.ingress or spec.gateway unset, or not enabled

Nil == -1       \* an unset spec.replicas

\* The fields of DashboardSpec that the owned objects depend on.  replicas may
\* be unset; template stands for the pod-template fields passed through;
\* a probe the user writes out in full or leaves partly to defaulting.
IsSpec(s) ==
    /\ s.replicas \in {Nil} \cup (0..2) /\ s.template \in {"t1", "t2"}
    /\ s.probe \in {"unset", "full", "partial"}
    /\ s.metrics \in BOOLEAN /\ s.policy \in BOOLEAN /\ s.routes \in BOOLEAN
    /\ s.ingress \in {Off, "i1", "i2"} /\ s.gateway \in {Off, "g1"}
    /\ DOMAIN s.keys = Annotated /\ \A k \in Annotated : s.keys[k] \cap Foreign = {}

ASSUME OwnedAssumption ==
    /\ \A s \in Specs : IsSpec(s)
    /\ Gateways \in SUBSET BOOLEAN /\ Lagging \in SUBSET (Kinds \cup {"Dashboard"})
    /\ MaxEdits \in Nat /\ MaxDrift \in Nat /\ MaxFaults \in Nat
    /\ MaxTrouble \in Nat

VARIABLES
    GatewayAPIEnabled,  \* checked once, when the manager starts
    dash,       \* the stored Dashboard: spec, generation and status
    seenDash,   \* the informer's copy of it
    live,       \* per kind, the stored object: a set of at most one
    seen,       \* the informers' copies
    news,       \* kinds with an event that their informer has not delivered
    queued,     \* the request is in the work queue
    pc,         \* "idle", a step of Reconcile, or "fail"
    inst,       \* Reconcile's copy of the Dashboard
    reason,     \* the reason failAvailable is about to report
    edits, drift, faults,       \* how much of each bound is used
    unrecorded  \* history: keys written by a Create, in no record since

budget == <<edits, drift, faults>>
Trouble == edits + drift + faults < MaxTrouble      \* more may come
vars == <<GatewayAPIEnabled, dash, seenDash, live, seen, news, queued, pc, inst, reason,
          budget, unrecorded>>
-----------------------------------------------------------------------------
(***************************************************************************)
(* What the spec asks for.  An object is what the controller sets (body),  *)
(* what the API server fills in or others report (rest: defaults, the      *)
(* ClusterIP, ready replicas), the annotation keys present, and those the  *)
(* managed-annotations record names.                                       *)
(***************************************************************************)
Replicas(s) == IF s.replicas = Nil THEN 1 ELSE s.replicas

Obj(body, rest, keys) == [body |-> body, rest |-> rest, keys |-> keys, managed |-> {}]

dashboardRoles(s, gw) ==
    {"config", "pods"} \cup (IF s.routes /\ gw THEN {"httproutes"} ELSE {})

\* Mutant: an unset number of replicas is left to the API server.
DeploymentWithRawReplicas(s) == Obj(<<s.replicas, s.template, s.probe>>, 0, {})

deploymentForDashboard(s) == Obj(<<Replicas(s), s.template, s.probe>>, 0, {})

serviceForDashboard(s) ==
    Obj(<<"page", s.metrics>>, "empty", s.keys["Service"])

ingressForDashboard(s) == Obj(<<s.ingress>>, "empty", s.keys["Ingress"])

httpRouteForDashboard(s) == Obj(<<s.gateway>>, "empty", s.keys["HTTPRoute"])

networkPolicyForDashboard(s) == Obj(<<"page", s.metrics>>, "explicit", {})

Desired(k, s) ==
    CASE k = "Role"          -> Obj(<<dashboardRoles(s, GatewayAPIEnabled)>>, "none", {})
      [] k = "Deployment"    -> deploymentForDashboard(s)
      [] k = "Service"       -> serviceForDashboard(s)
      [] k = "Ingress"       -> ingressForDashboard(s)
      [] k = "HTTPRoute"     -> httpRouteForDashboard(s)
      [] k = "NetworkPolicy" -> networkPolicyForDashboard(s)
      [] OTHER               -> Obj(<<>>, "none", {})

Enabled(k, s) ==
    /\ k = "Ingress"       => s.ingress # Off
    /\ k = "HTTPRoute"     => s.gateway # Off
    /\ k = "NetworkPolicy" => s.policy

\* Kinds that are deleted once the spec no longer asks for them.  A
\* NetworkPolicy is left behind, by design.
Deletes(k) == k = "Ingress" \/ (k = "HTTPRoute" /\ GatewayAPIEnabled)

dashboardURL(s) ==
    CASE s.ingress # Off -> s.ingress
      [] s.ingress = Off /\ s.gateway # Off -> s.gateway
      [] OTHER -> "cluster"

discoveryHTTPRouteAvailable(s) == s.routes => GatewayAPIEnabled
-----------------------------------------------------------------------------
(***************************************************************************)
(* Drift: what the comparisons look at, and what an update writes.         *)
(***************************************************************************)
\* Mutant: the keys of other controllers go too.
ReplaceAnnotations(found, desired) == [keys |-> desired.keys, managed |-> desired.keys]

\* Mutant: keys that left the spec are kept.
MergeWithoutPruning(found, desired) ==
    [keys |-> found.keys \cup desired.keys, managed |-> desired.keys]

mergeManagedAnnotations(found, desired) ==
    [keys    |-> (found.keys \ (found.managed \ desired.keys)) \cup desired.keys,
     managed |-> desired.keys]

\* What an update writes: an Ingress and an HTTPRoute get a new spec, of the
\* others only the compared fields are assigned.
Merged(k, found, desired) ==
    LET m == mergeManagedAnnotations(found, desired)
    IN  [body    |-> desired.body,
         rest    |-> IF k \in {"Ingress", "HTTPRoute"} THEN desired.rest ELSE found.rest,
         keys    |-> IF k \in Annotated THEN m.keys ELSE found.keys,
         managed |-> IF k \in Annotated THEN m.managed ELSE found.managed]

\* The comparisons of reconcileDeployment (with deploymentTemplateChanged), of
\* the Service, the Ingress and the HTTPRoute, of the Role and NetworkPolicy:
\* none looks at what the server has filled in, and a ServiceAccount and a
\* RoleBinding are never compared.
deploymentChanged(found, desired) == found.body # desired.body

annotatedChanged(k, found, desired) ==
    \/ found.body # desired.body
    \/ Merged(k, found, desired).keys # found.keys
    \/ Merged(k, found, desired).managed # found.managed

Changed(k, found, desired) ==
    \/ k = "Deployment" /\ deploymentChanged(found, desired)
    \/ k \in Annotated /\ annotatedChanged(k, found, desired)
    \/ k \in {"Role", "NetworkPolicy"} /\ found.body # desired.body

\* The API server fills in what was left empty.
Stored(k, o) ==
    [o EXCEPT !.rest = IF k \in Annotated THEN "filled" ELSE @,
              !.body = IF k = "Deployment"
                       THEN <<IF @[1] = Nil THEN 1 ELSE @[1], @[2],
                              IF @[3] = "partial" THEN "defaulted" ELSE @[3]>>
                       ELSE @]
-----------------------------------------------------------------------------
\* Informers that keep up show a change at once, the others have it to deliver
\* yet, and every kind that SetupWithManager watches brings the request back into
\* the queue.
Watched == (Kinds \ {"NetworkPolicy"}) \
           (IF GatewayAPIEnabled THEN {} ELSE {"HTTPRoute"})

Observe(again) ==
    /\ seen' = [k \in Kinds |-> IF k \in Lagging THEN seen[k] ELSE live'[k]]
    /\ seenDash' = IF "Dashboard" \in Lagging THEN seenDash ELSE dash'
    /\ news' = news \cup {k \in Lagging : IF k = "Dashboard" THEN dash' # dash
                                          ELSE live'[k] # live[k]}
    /\ queued' = \/ again \/ queued
                 \/ dash' # dash /\ "Dashboard" \notin Lagging
                 \/ \E k \in Watched \ Lagging : live'[k] # live[k]

\* The request is queued, by an event or by what Reconcile returned.
Init ==
    /\ GatewayAPIEnabled \in Gateways
    /\ \E s \in Specs :
         dash = [spec |-> s, generation |-> 1,
                 available |-> "Unknown", condGeneration |-> 1,
                 observedGeneration |-> 0, url |-> ""]
    /\ seenDash = dash /\ inst = dash
    /\ live = [k \in Kinds |-> {}] /\ seen = live /\ news = {}
    /\ queued = TRUE /\ pc = "idle" /\ reason = ""
    /\ edits = 0 /\ drift = 0 /\ faults = 0
    /\ unrecorded = [k \in Annotated |-> {}]

\* A call on the object of kind k that would store new: it takes effect, is
\* refused, or fails with the effect in doubt.
Call(k, new, allowed, ok) ==
    \/ ok /\ allowed /\ live' = [live EXCEPT ![k] = new] /\ UNCHANGED faults
    \/ ~ok /\ ~allowed /\ UNCHANGED <<live, faults>>
    \/ /\ ~ok /\ faults < MaxFaults /\ Trouble /\ faults' = faults + 1
       /\ \/ UNCHANGED live
          \/ allowed /\ live' = [live EXCEPT ![k] = new]

\* A write of the Dashboard's status, refused when inst is out of date.
StatusUpdate(new, ok) ==
    \/ ok /\ inst = dash /\ dash' = new /\ UNCHANGED faults
    \/ ~ok /\ inst # dash /\ UNCHANGED <<dash, faults>>
    \/ ~ok /\ faults < MaxFaults /\ Trouble /\ faults' = faults + 1
         /\ dash' \in {dash} \cup {new : x \in {y \in {1} : inst = dash}}
-----------------------------------------------------------------------------
(***************************************************************************)
(* Reconcile, one call of the API server to a step.                        *)
(***************************************************************************)
Start ==        \* Get the Dashboard from the cache
    /\ pc = "idle" /\ queued
    /\ queued' = FALSE /\ pc' = Steps[1] /\ inst' = seenDash
    /\ UNCHANGED <<GatewayAPIEnabled, dash, seenDash, live, seen, news, reason, budget,
                   unrecorded>>

Frame == UNCHANGED <<GatewayAPIEnabled, edits, drift>>

\* Where an error in step k leads: the first Create of the Deployment reports
\* it without a status, the Update re-reads the Dashboard, and every other
\* failure goes to failAvailable.
Failed(k) ==
    CASE k = "Deployment" /\ seen[k] = {} ->
            pc' = "idle" /\ Observe(TRUE) /\ UNCHANGED <<inst, reason>>
      [] k = "Deployment" /\ seen[k] # {} ->
            pc' = "fail" /\ reason' = k /\ inst' = seenDash /\ Observe(FALSE)
      [] OTHER ->
            pc' = "fail" /\ reason' = k /\ UNCHANGED inst /\ Observe(FALSE)

\* A Deployment just created or updated ends this pass and asks for another.
Succeeded(k) ==
    /\ UNCHANGED <<inst, reason>>
    /\ IF k = "Deployment" THEN pc' = "idle" /\ Observe(TRUE)
                           ELSE pc' = Then[k] /\ Observe(FALSE)

After(k, ok) == IF ok THEN Succeeded(k) ELSE Failed(k)

\* errGatewayAPINotInstalled and errDiscoveryHTTPRouteUnavailable.
Missing(k, s) ==
    \/ k = "HTTPRoute" /\ s.gateway # Off /\ ~GatewayAPIEnabled
    \/ k = "Discovery" /\ ~discoveryHTTPRouteAvailable(s)

At(k) == pc = k /\ k \in Kinds /\ ~Missing(k, inst.spec)

Create(k) ==
    /\ At(k) /\ Enabled(k, inst.spec) /\ UNCHANGED dash
    /\ seen[k] = {}
    /\ \E ok \in BOOLEAN :
         /\ Call(k, {Stored(k, Desired(k, inst.spec))}, live[k] = {}, ok)
         /\ After(k, ok)
    /\ unrecorded' = IF k \in Annotated /\ live'[k] # live[k]
                     THEN [unrecorded EXCEPT ![k] = inst.spec.keys[k]] ELSE unrecorded
    /\ Frame

Update(k) ==
    /\ At(k) /\ Enabled(k, inst.spec) /\ UNCHANGED dash
    /\ \E found \in seen[k], ok \in BOOLEAN :
         LET desired == Desired(k, inst.spec)
         IN  /\ Changed(k, found, desired)
             /\ Call(k, {Stored(k, Merged(k, found, desired))}, live[k] = {found}, ok)
             /\ After(k, ok)
    /\ unrecorded' = IF k \in Annotated /\ live'[k] # live[k]
                     THEN [unrecorded EXCEPT ![k] = @ \ inst.spec.keys[k]] ELSE unrecorded
    /\ Frame

Delete(k) ==        \* of whatever has the name; NotFound is no error
    /\ At(k) /\ ~Enabled(k, inst.spec) /\ Deletes(k) /\ seen[k] # {}
    /\ UNCHANGED <<dash, unrecorded>> /\ Frame
    /\ \E ok \in BOOLEAN : Call(k, {}, TRUE, ok) /\ After(k, ok)

\* Nothing to do: the step leads straight to the next one.
UpToDate(k) ==
    \/ ~Enabled(k, inst.spec) /\ ~(Deletes(k) /\ seen[k] # {})
    \/ Enabled(k, inst.spec) /\ \E found \in seen[k] : ~Changed(k, found, Desired(k, inst.spec))

Pass(k) ==
    /\ At(k) /\ UpToDate(k)
    /\ pc' = Then[k]
    /\ UNCHANGED <<GatewayAPIEnabled, dash, seenDash, live, seen, news, queued, inst, reason,
                   budget, unrecorded>>

Unavailable ==      \* the Gateway API is asked for and not installed
    /\ Missing(pc, inst.spec)
    /\ pc' = "fail" /\ reason' = pc
    /\ UNCHANGED <<GatewayAPIEnabled, dash, seenDash, live, seen, news, queued, inst, budget,
                   unrecorded>>

CheckDiscovery ==
    /\ pc = "Discovery" /\ ~Missing(pc, inst.spec)
    /\ pc' = Then[pc]
    /\ UNCHANGED <<GatewayAPIEnabled, dash, seenDash, live, seen, news, queued, inst, reason,
                   budget, unrecorded>>

WithCondition(d, r) == [d EXCEPT !.available = r, !.condGeneration = d.generation]

failAvailable ==    \* Available=False, and the error makes the queue retry
    /\ pc = "fail" /\ pc' = "idle"
    /\ UNCHANGED <<live, inst, reason, unrecorded>> /\ Frame
    /\ \E ok \in BOOLEAN : StatusUpdate(WithCondition(inst, reason), ok)
    /\ Observe(TRUE)

\* Mutant: an unset number of replicas counts as none wanted.
ReadyByRawReplicas(s) == \E d \in seen["Deployment"] : d.rest >= s.replicas

deploymentReady(s) == \E d \in seen["Deployment"] : d.rest >= Replicas(s)

\* The end of Reconcile.  The Deployment may be gone from the cache by now.
Report ==
    /\ pc = "Status" /\ seen["Deployment"] # {} /\ pc' = "idle"
    /\ UNCHANGED <<live, inst, reason, unrecorded>> /\ Frame
    /\ LET ready == deploymentReady(inst.spec)
           observed == [inst EXCEPT !.observedGeneration = inst.generation,
                                    !.url = dashboardURL(inst.spec)]
       IN  \E ok \in BOOLEAN :
             /\ StatusUpdate(WithCondition(observed, IF ready THEN "True" ELSE "NotReady"), ok)
             /\ Observe(~ok \/ ~ready)      \* an error, or RequeueAfter

ReportGone ==
    /\ pc = "Status" /\ seen["Deployment"] = {}
    /\ pc' = "fail" /\ reason' = "NotReady"
    /\ UNCHANGED <<GatewayAPIEnabled, dash, seenDash, live, seen, news, queued, inst, budget,
                   unrecorded>>

Reconcile ==
    \/ Start \/ Unavailable \/ CheckDiscovery \/ failAvailable \/ Report \/ ReportGone
    \/ \E k \in Kinds : Create(k) \/ Update(k) \/ Delete(k) \/ Pass(k)
-----------------------------------------------------------------------------
(***************************************************************************)
(* The surroundings.                                                       *)
(***************************************************************************)
Others == UNCHANGED <<GatewayAPIEnabled, pc, inst, reason, faults>>

Edit(s) ==          \* a user applies another spec
    /\ edits < MaxEdits /\ Trouble /\ edits' = edits + 1
    /\ s # dash.spec
    /\ dash' = [dash EXCEPT !.spec = s, !.generation = @ + 1]
    /\ UNCHANGED <<live, drift, unrecorded>> /\ Others
    /\ Observe(FALSE)

Meddle(k, new) ==   \* someone else writes or deletes the object of kind k
    /\ drift < MaxDrift /\ Trouble /\ drift' = drift + 1
    /\ live[k] # new /\ live[k] # {}
    /\ live' = [live EXCEPT ![k] = new]
    /\ UNCHANGED <<dash, edits>> /\ Others
    /\ Observe(FALSE)

Drifted(k, o) ==
    {[o EXCEPT !.body = CASE k = "Deployment" -> <<3, @[2], @[3]>>
                          [] k = "Role"       -> <<{}>>
                          [] OTHER            -> <<"drifted">>]}
Annotate(k) ==
    k \in Annotated /\ UNCHANGED unrecorded
      /\ \E o \in live[k] : Meddle(k, {[o EXCEPT !.keys = @ \cup Foreign]})
Tamper(k) ==
    k \in Kinds \ {"ServiceAccount", "RoleBinding"} /\ UNCHANGED unrecorded
      /\ \E o \in live[k] : Meddle(k, Drifted(k, o))
Remove(k) ==
    Meddle(k, {}) /\ unrecorded' = IF k \in Annotated THEN [unrecorded EXCEPT ![k] = {}]
                                                      ELSE unrecorded

Rollout ==          \* the Deployment's pods become ready
    /\ \E d \in live["Deployment"] :
         /\ d.rest # d.body[1]
         /\ live' = [live EXCEPT !["Deployment"] = {[d EXCEPT !.rest = d.body[1]]}]
    /\ UNCHANGED <<dash, edits, drift, unrecorded>> /\ Others
    /\ Observe(FALSE)

CrashLoop ==        \* or fail
    /\ \E d \in live["Deployment"] : Meddle("Deployment", {[d EXCEPT !.rest = 0]})
    /\ UNCHANGED unrecorded

Sync(k) ==          \* an informer catches up
    /\ k \in news /\ news' = news \ {k}
    /\ IF k = "Dashboard"
       THEN seenDash' = dash /\ UNCHANGED seen /\ queued' = TRUE
       ELSE /\ seen' = [seen EXCEPT ![k] = live[k]] /\ UNCHANGED seenDash
            /\ queued' = (queued \/ k \in Watched)
    /\ UNCHANGED <<dash, live, edits, drift, unrecorded>> /\ Others

Environment ==
    \/ \E s \in Specs : Edit(s)
    \/ \E k \in Kinds : Annotate(k) \/ Tamper(k) \/ Remove(k)
    \/ CrashLoop
Progress == Rollout \/ \E k \in Lagging : Sync(k)

Next == Reconcile \/ Environment \/ Progress
Spec == Init /\ [][Next]_vars

\* The worker takes the next request and finishes it, informers catch up, and
\* pods that can start do.
FairSpec == Spec /\ WF_vars(Reconcile) /\ WF_vars(Rollout)
                 /\ \A k \in Lagging : WF_vars(Sync(k))
-----------------------------------------------------------------------------
TypeOK ==
    /\ GatewayAPIEnabled \in Gateways /\ queued \in BOOLEAN /\ news \subseteq Lagging
    /\ dash.spec \in Specs /\ inst.spec \in Specs /\ seenDash.spec \in Specs
    /\ pc \in {"idle", "fail"} \cup {Steps[i] : i \in 1..Len(Steps)}
    /\ \A k \in Kinds : Cardinality(live[k]) <= 1 /\ Cardinality(seen[k]) <= 1
    /\ dash.observedGeneration <= dash.generation
    /\ dash.condGeneration <= dash.generation

\* An object that is there when the spec asks for it, as the spec asks for it.
Matches(k) ==
    IF Enabled(k, dash.spec)
    THEN \E o \in live[k] : ~Changed(k, o, Desired(k, dash.spec))
    ELSE Deletes(k) => live[k] = {}

AtRest == pc = "idle" /\ ~queued /\ news = {}

\* The controller goes quiet (no request queued, nothing left to hear of) only
\* when there is nothing left to do: every owned object exists and matches the
\* current spec, enough pods are ready, and the status says so for the current
\* generation.  No edit, foreign write, failed call or stale read is lost.
\* NetworkPolicies are not watched, so theirs holds until someone meddles, and
\* as long as the cache shows the controller's own last write of it.
LeftAloneOnlyWhenDone ==
    AtRest =>
      /\ dash.available = "True" /\ dash.url = dashboardURL(dash.spec)
      /\ dash.condGeneration = dash.generation
      /\ dash.observedGeneration = dash.generation
      /\ \A d \in live["Deployment"] : d.rest >= Replicas(dash.spec)
      /\ \A k \in Kinds \ {"NetworkPolicy"} : Matches(k)
      /\ drift = 0 /\ "NetworkPolicy" \notin Lagging => Matches("NetworkPolicy")

\* At rest, an owned object carries the keys of the spec, keys of other
\* controllers, and otherwise only keys it was created with and that left the
\* spec before an update could record them (mergeManagedAnnotations).  (The state
\* being well typed is checked along with it.)
KeysAccountedFor ==
    /\ TypeOK
    /\ AtRest =>
         \A k \in Annotated : \A o \in live[k] :
           o.keys \subseteq dash.spec.keys[k] \cup Foreign \cup unrecorded[k]

\* No update of Reconcile's removes an annotation that another controller
\* wrote, however often the spec's own annotations come and go.
ForeignKept ==
    [][(pc \in Annotated) =>
         \A o \in live[pc], n \in live'[pc] : o.keys \cap Foreign \subseteq n.keys]_vars

\* Once edits, meddling and failures end, Reconcile stops rewriting objects and
\* status and the queue stays empty, unless the Gateway API is asked for and
\* not there.
ComesToRest ==
    <>[](AtRest \/ \E k \in {"HTTPRoute", "Discovery"} : Missing(k, dash.spec))

\* And then the pod, its Service and its Ingress are as the spec asks for, and
\* the status names what is missing.
DegradesGracefully ==
    <>[](\A k \in {"HTTPRoute", "Discovery"} : Missing(k, dash.spec) =>
           /\ \A j \in {"Deployment", "Service", "Ingress"} : Matches(j)
           /\ dash.available \in {"HTTPRoute", "Discovery"})

\* "detected without false positives from API-server defaulting": an update of
\* the Deployment made from a current cache changes the stored Deployment.
UpdatesOnlyDrift ==
    [][pc = "Deployment" /\ pc' = "idle" /\ faults' = faults
         /\ seen[pc] = live[pc] => live'[pc] # live[pc]]_vars
=============================================================================

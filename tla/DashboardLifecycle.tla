------------------------- MODULE DashboardLifecycle -------------------------
(***************************************************************************)
(* The life of one Dashboard under DashboardReconciler.Reconcile           *)
(* (internal/controller/dashboard_controller.go) and the RBAC it grants    *)
(* outside the Dashboard's own namespace                                   *)
(* (internal/controller/dashboard_rbac.go).                                *)
(*                                                                         *)
(* A RoleBinding in another namespace, a ClusterRole and a                 *)
(* ClusterRoleBinding cannot carry an owner reference to a namespaced      *)
(* Dashboard, so the API server never garbage-collects them.  They are     *)
(* removed only because (1) status.discoveryNamespaces and                 *)
(* status.monitorNamespaces record where a RoleBinding may exist and       *)
(* (2) a finalizer holds the Dashboard until they are gone.                *)
(*                                                                         *)
(* The API server is the pair srv, stream: the stored object, with its     *)
(* resource version, and the versions its watch has not delivered yet.     *)
(* The manager reads the Dashboard from its cache, works on the in-memory  *)
(* copy inst, and takes one step per API call.  Any call may fail, or be   *)
(* carried out and its answer lost; the manager may crash between any two. *)
(***************************************************************************)
EXTENDS Naturals, FiniteSets

CONSTANTS
  NS,         \* namespace names
  Own,        \* the Dashboard's own namespace
  Missing,    \* names a spec may list although no such namespace exists
  Specs,      \* the values of spec a user writes
  LagGrants,  \* may the RBAC informers lag behind the API server?
  Foreground, \* do users delete with foreground propagation (a second finalizer)?
  Outlook,    \* how the part of a reconcile after the RBAC may come out
  MaxEdits,   \* bound on what users and the rest of the cluster do
  MaxFaults   \* bound on failed calls, lost answers and crashes

\* The two sets of cross-namespace grants, in the order they are reconciled.
Families == {"disc", "mon"}

\* The cluster-scoped objects of the kubemetrics InfoWidget.
MetricsObjects == {"ClusterRole", "ClusterRoleBinding"}

\* spec.discovery.enabled, spec.discovery.namespaces, spec.monitorNamespaces.
SpecType == [enabled : BOOLEAN, namespaces : [Families -> SUBSET NS]]

\* What reconcileDeployment and the steps after it come to in the present
\* state of the cluster: the Deployment was just created or updated, its
\* update is refused, a later step fails or its pods are not ready, all is well.
Health == {"handled", "updateFailed", "failing", "ready"}

ASSUME ConstantsAssumption ==
  /\ Own \in NS
  /\ Missing \subseteq NS \ {Own}
  /\ Specs \subseteq SpecType
  /\ LagGrants \in BOOLEAN
  /\ Foreground \in BOOLEAN
  /\ Outlook \subseteq Health
  /\ MaxEdits \in Nat
  /\ MaxFaults \in Nat

Deletion == {"degradeUnknown", "finBindings", "finRole", "finMetricsBinding",
             "finMetricsRole", "refetchFinal", "degradeTrue", "removeFinalizer"}
Main == {"ownRBAC", "metrics", "metricsRole", "metricsBinding",
         "dropMetricsBinding", "dropMetricsRole", "family", "ensureRole",
         "persist", "bind", "unbind", "dropBindings", "dropRole", "pipeline",
         "finish"}
Steps == {"idle", "initStatus", "refetchInit", "addFinalizer"} \cup Deletion \cup Main

VARIABLES
  srv,      \* the Dashboard as the API server stores it
  stream,   \* versions not yet delivered to the manager's cache
  cache,    \* the manager's cached Dashboard
  inst,     \* Reconcile's in-memory copy
  pc,       \* the next API call of Reconcile
  fam,      \* the family of grants being reconciled or finalized
  todo,     \* namespaces left in the current loop
  queued,   \* is the Dashboard in the work queue?
  bindings, \* namespaces that hold a RoleBinding, per family
  croles,   \* families whose ClusterRole exists
  metrics,  \* kubemetrics objects that exist
  seen,     \* the RBAC objects as the informers last saw them
  widget,   \* is a kubemetrics InfoWidget bound (as the cache has it)?
  health,   \* what the rest of the reconcile will come to
  edits,    \* environment actions so far
  faults    \* faults so far

server == <<srv, stream>>
grants == <<bindings, croles, metrics>>
env    == <<widget, health, edits>>
vars   == <<srv, stream, cache, inst, pc, fam, todo, queued, bindings, croles,
            metrics, seen, widget, health, edits, faults>>

None == [f \in Families |-> {}]

Object ==
  [rv : Nat, live : BOOLEAN, spec : SpecType, fin : BOOLEAN, otherFin : BOOLEAN,
   deleting : BOOLEAN, tracked : [Families -> SUBSET NS],
   avail : {"none", "Unknown", "False", "True"}, degr : {"none", "Unknown", "True"}]

\* A newly created Dashboard: no finalizer and an empty status.
Fresh(spec, rv) ==
  [rv |-> rv, live |-> TRUE, spec |-> spec, fin |-> FALSE, otherFin |-> FALSE,
   deleting |-> FALSE, tracked |-> None, avail |-> "none", degr |-> "none"]

NoSpec == [enabled |-> FALSE, namespaces |-> None]
Absent(rv) == [Fresh(NoSpec, rv) EXCEPT !.live = FALSE]

-----------------------------------------------------------------------------
(* The namespaces a spec asks for. *)

\* discoveryNamespaces, monitorNamespaces: the Dashboard's own namespace is
\* covered by its Role, and discovery counts only while it is enabled.
Desired(spec, f) ==
  IF f = "disc" /\ ~spec.enabled THEN {} ELSE spec.namespaces[f] \ {Own}

-----------------------------------------------------------------------------
(* The API server. *)

\* The server accepts a write only from the version it holds now.
CanWrite == srv.live /\ inst.rv = srv.rv

\* Store a new version; a write that changes nothing makes no version.  An
\* object marked for deletion goes with its last finalizer.
Settled(o) ==
  IF o.deleting /\ ~o.fin /\ ~o.otherFin THEN Absent(o.rv) ELSE o

Store(o) ==
  IF o = srv THEN UNCHANGED server
  ELSE /\ srv' = Settled([o EXCEPT !.rv = srv.rv + 1])
       /\ stream' = stream \cup {srv'}

\* How a call ends: "error" is a failure without effect, "lost" one whose
\* effect took place.
Outcomes == {"ok", "error", "lost"}

Charge(out) ==
  IF out = "ok" THEN UNCHANGED faults
  ELSE faults < MaxFaults /\ faults' = faults + 1

\* What the cached RBAC reads return.
SeenBindings == IF LagGrants THEN seen.bindings ELSE bindings
SeenRoles    == IF LagGrants THEN seen.roles ELSE croles
SeenMetrics  == IF LagGrants THEN seen.metrics ELSE metrics

-----------------------------------------------------------------------------
(* Endings of a reconcile and jumps within it. *)

Goto(step) == pc' = step /\ UNCHANGED queued

\* Reconcile returns and its copy of the Dashboard is dropped; an error, or a
\* requeue it asks for, puts the Dashboard back in the queue.
Requeue == pc' = "idle" /\ queued' = TRUE /\ inst' = Absent(0)
Done    == pc' = "idle" /\ UNCHANGED queued /\ inst' = Absent(0)

\* Reconcile goes on with inst as it is.
Continue(step) == Goto(step) /\ UNCHANGED inst

\* failAvailable: Available=False in memory, then the final status write.
Fail ==
  /\ inst' = [inst EXCEPT !.avail = "False"]
  /\ Goto("finish")

\* A write of inst (Update or Status().Update): on success inst becomes the
\* stored version; a conflict, a missing object or a failed call ends the
\* reconcile with an error.
WriteInst(o, allowed, next) ==
  \E out \in Outcomes :
    /\ Charge(out)
    /\ IF out # "error" /\ CanWrite /\ allowed THEN Store(o) ELSE UNCHANGED server
    /\ IF out = "ok" /\ CanWrite /\ allowed
         THEN inst' = srv' /\ Goto(next)
         ELSE Requeue

\* The persist step before the first RoleBinding fails like any RBAC step.
PersistInst(o, next) ==
  \E out \in Outcomes :
    /\ Charge(out)
    /\ IF out # "error" /\ CanWrite THEN Store(o) ELSE UNCHANGED server
    /\ IF out = "ok" /\ CanWrite
         THEN inst' = srv' /\ Goto(next)
         ELSE inst' = [o EXCEPT !.avail = "False"] /\ Goto("finish")

-----------------------------------------------------------------------------
(* Reconcile up to the deletion check. *)

\* Get from the cache; a missing object ends the reconcile.
Begin ==
  /\ pc = "idle" /\ queued
  /\ queued' = FALSE
  /\ inst' = IF cache.live THEN cache ELSE Absent(0)
  /\ pc' = IF ~cache.live THEN "idle"
           ELSE IF cache.avail = "none" THEN "initStatus"
           ELSE "addFinalizer"
  /\ UNCHANGED <<server, cache, fam, todo, grants, seen, env, faults>>

\* No condition yet: report Available=Unknown, then read the object again.
InitStatus ==
  /\ pc = "initStatus"
  /\ WriteInst([inst EXCEPT !.avail = "Unknown"], TRUE, "refetchInit")
  /\ UNCHANGED <<cache, fam, todo, grants, seen, env>>

RefetchInit ==
  /\ pc = "refetchInit"
  /\ IF cache.live THEN inst' = cache /\ Goto("addFinalizer")
     ELSE Requeue
  /\ UNCHANGED <<server, cache, fam, todo, grants, seen, env, faults>>

\* The step after the finalizer is there: branch on the deletion mark.
AfterFinalizer(o) == IF o.deleting THEN "degradeUnknown" ELSE "ownRBAC"

\* The finalizer is added before the deletion check, so the call is also made
\* for an object already marked for deletion; the API server refuses that.
AddFinalizer ==
  /\ pc = "addFinalizer"
  /\ IF inst.fin
       THEN Goto(AfterFinalizer(inst)) /\ UNCHANGED <<server, inst, faults>>
       ELSE WriteInst([inst EXCEPT !.fin = TRUE], ~inst.deleting, "ownRBAC")
  /\ UNCHANGED <<cache, fam, todo, grants, seen, env>>

-----------------------------------------------------------------------------
(* The deletion branch: doFinalizerOperationsForDashboard. *)

\* Mutant: the deletion branch starts although the status write failed.
DegradeUnknownAnyway ==
  /\ pc = "degradeUnknown"
  /\ \E out \in Outcomes :
       /\ Charge(out)
       /\ IF out # "error" /\ CanWrite
            THEN Store([inst EXCEPT !.degr = "Unknown"]) ELSE UNCHANGED server
  /\ Continue("finBindings")
  /\ fam' = "disc"
  /\ todo' = inst.tracked["disc"]
  /\ UNCHANGED <<cache, grants, seen, env>>

\* Mutant: the Degraded condition is given a status it never has.
DegradeUnknownAsFalse ==
  /\ pc = "degradeUnknown"
  /\ WriteInst([inst EXCEPT !.degr = "False"], TRUE, "finBindings")
  /\ fam' = "disc"
  /\ todo' = inst.tracked["disc"]
  /\ UNCHANGED <<cache, grants, seen, env>>

DegradeUnknown ==
  /\ pc = "degradeUnknown"
  /\ WriteInst([inst EXCEPT !.degr = "Unknown"], TRUE, "finBindings")
  /\ fam' = "disc"
  /\ todo' = inst.tracked["disc"]
  /\ UNCHANGED <<cache, grants, seen, env>>

\* Mutant: a failed delete is logged and the finalizer goes on.
FinalizeBindingsAnyway ==
  /\ pc = "finBindings"
  /\ \/ /\ todo = {}
        /\ Continue("finRole")
        /\ UNCHANGED <<todo, bindings, faults>>
     \/ \E n \in todo, out \in Outcomes :
          /\ Charge(out)
          /\ bindings' = IF out = "error" THEN bindings
                         ELSE [bindings EXCEPT ![fam] = @ \ {n}]
          /\ todo' = todo \ {n}
          /\ Continue("finBindings")
  /\ UNCHANGED <<server, cache, fam, croles, metrics, seen, env>>

\* deleteDiscoveryRoleBindings, deleteMonitorRoleBindings over the recorded
\* namespaces; an absent RoleBinding is no error.
FinalizeBindings ==
  /\ pc = "finBindings"
  /\ \/ /\ todo = {}
        /\ Continue("finRole")
        /\ UNCHANGED <<todo, bindings, faults>>
     \/ \E n \in todo, out \in Outcomes :
          /\ Charge(out)
          /\ bindings' = IF out = "error" THEN bindings
                         ELSE [bindings EXCEPT ![fam] = @ \ {n}]
          /\ todo' = todo \ {n}
          /\ IF out = "ok" THEN Continue("finBindings") ELSE Requeue
  /\ UNCHANGED <<server, cache, fam, croles, metrics, seen, env>>

\* Mutant: deleting a ClusterRole that is not there counts as an error.
FinalizeRoleNotFound ==
  /\ pc = "finRole"
  /\ \E out \in Outcomes :
       /\ Charge(out)
       /\ croles' = IF out = "error" THEN croles ELSE croles \ {fam}
       /\ IF out # "ok" \/ fam \notin croles THEN Requeue /\ UNCHANGED <<fam, todo>>
          ELSE IF fam = "disc"
          THEN Continue("finBindings") /\ fam' = "mon" /\ todo' = inst.tracked["mon"]
          ELSE Continue("finMetricsBinding") /\ UNCHANGED <<fam, todo>>
  /\ UNCHANGED <<server, cache, bindings, metrics, seen, env>>

\* deleteDiscoveryClusterRole, deleteMonitorClusterRole.
FinalizeRole ==
  /\ pc = "finRole"
  /\ \E out \in Outcomes :
       /\ Charge(out)
       /\ croles' = IF out = "error" THEN croles ELSE croles \ {fam}
       /\ IF out # "ok" THEN Requeue /\ UNCHANGED <<fam, todo>>
          ELSE IF fam = "disc"
          THEN Continue("finBindings") /\ fam' = "mon" /\ todo' = inst.tracked["mon"]
          ELSE Continue("finMetricsBinding") /\ UNCHANGED <<fam, todo>>
  /\ UNCHANGED <<server, cache, bindings, metrics, seen, env>>

\* deleteClusterMetricsRBAC: the ClusterRole is deleted even when deleting the
\* ClusterRoleBinding failed, and the first error is the one returned.  A
\* failed first delete is remembered in todo, which is free at this point.
FinalizeMetricsBinding ==
  /\ pc = "finMetricsBinding"
  /\ \E out \in Outcomes :
       /\ Charge(out)
       /\ metrics' = IF out = "error" THEN metrics ELSE metrics \ {"ClusterRoleBinding"}
       /\ todo' = IF out = "ok" THEN {} ELSE {Own}
  /\ Goto("finMetricsRole")
  /\ UNCHANGED <<server, cache, inst, fam, bindings, croles, seen, env>>

FinalizeMetricsRole ==
  /\ pc = "finMetricsRole"
  /\ \E out \in Outcomes :
       /\ Charge(out)
       /\ metrics' = IF out = "error" THEN metrics ELSE metrics \ {"ClusterRole"}
       /\ IF out = "ok" /\ todo = {} THEN Continue("refetchFinal") ELSE Requeue
  /\ UNCHANGED <<server, cache, fam, todo, bindings, croles, seen, env>>

RefetchFinal ==
  /\ pc = "refetchFinal"
  /\ IF cache.live THEN inst' = cache /\ Goto("degradeTrue")
     ELSE Requeue
  /\ UNCHANGED <<server, cache, fam, todo, grants, seen, env, faults>>

DegradeTrue ==
  /\ pc = "degradeTrue"
  /\ WriteInst([inst EXCEPT !.degr = "True"], TRUE, "removeFinalizer")
  /\ UNCHANGED <<cache, fam, todo, grants, seen, env>>

RemoveFinalizer ==
  /\ pc = "removeFinalizer"
  /\ \E out \in Outcomes :
       /\ Charge(out)
       /\ IF out # "error" /\ CanWrite /\ inst.fin
            THEN Store([inst EXCEPT !.fin = FALSE]) ELSE UNCHANGED server
       /\ IF out = "ok" /\ CanWrite /\ inst.fin THEN Done ELSE Requeue
  /\ UNCHANGED <<cache, fam, todo, grants, seen, env>>

-----------------------------------------------------------------------------
(* reconcileAllDashboardRBAC. *)

\* reconcileDashboardRBAC: the ServiceAccount, Role and RoleBinding in the
\* Dashboard's own namespace.  They are owned, hence collected with it.
OwnRBAC ==
  /\ pc = "ownRBAC"
  /\ \E out \in Outcomes :
       /\ Charge(out)
       /\ IF out = "ok" THEN Continue("metrics") ELSE Fail
  /\ UNCHANGED <<server, cache, fam, todo, grants, seen, env>>

\* reconcileClusterMetricsRBAC: is a kubemetrics InfoWidget bound?
Metrics ==
  /\ pc = "metrics"
  /\ Goto(IF widget THEN "metricsRole" ELSE "dropMetricsBinding")
  /\ UNCHANGED <<server, cache, inst, fam, todo, grants, seen, env, faults>>

\* Get from the cache and Create when it is not there; creating what the
\* lagging cache missed is refused.
EnsureMetrics(obj, next) ==
  IF obj \in SeenMetrics THEN Goto(next) /\ UNCHANGED <<inst, metrics, faults>>
  ELSE \E out \in Outcomes :
         /\ Charge(out)
         /\ metrics' = IF out = "error" THEN metrics ELSE metrics \cup {obj}
         /\ IF out = "ok" /\ obj \notin metrics THEN Continue(next)
            ELSE Fail

MetricsRole ==
  /\ pc = "metricsRole"
  /\ EnsureMetrics("ClusterRole", "metricsBinding")
  /\ UNCHANGED <<server, cache, fam, todo, bindings, croles, seen, env>>

MetricsBinding ==
  /\ pc = "metricsBinding"
  /\ EnsureMetrics("ClusterRoleBinding", "family")
  /\ fam' = "disc"
  /\ UNCHANGED <<server, cache, todo, bindings, croles, seen, env>>

DropMetricsBinding ==
  /\ pc = "dropMetricsBinding"
  /\ \E out \in Outcomes :
       /\ Charge(out)
       /\ metrics' = IF out = "error" THEN metrics ELSE metrics \ {"ClusterRoleBinding"}
       /\ todo' = IF out = "ok" THEN {} ELSE {Own}
  /\ Goto("dropMetricsRole")
  /\ UNCHANGED <<server, cache, inst, fam, bindings, croles, seen, env>>

DropMetricsRole ==
  /\ pc = "dropMetricsRole"
  /\ \E out \in Outcomes :
       /\ Charge(out)
       /\ metrics' = IF out = "error" THEN metrics ELSE metrics \ {"ClusterRole"}
       /\ IF out = "ok" /\ todo = {} THEN Continue("family") ELSE Fail
  /\ fam' = "disc"
  /\ UNCHANGED <<server, cache, todo, bindings, croles, seen, env>>

\* reconcileDiscoveryRBAC / reconcileMonitorRBAC: nothing desired means every
\* recorded RoleBinding goes, then the ClusterRole.
Family ==
  /\ pc = "family"
  /\ IF Desired(inst.spec, fam) = {}
       THEN Goto("dropBindings") /\ todo' = inst.tracked[fam]
       ELSE Goto("ensureRole") /\ UNCHANGED todo
  /\ UNCHANGED <<server, cache, inst, fam, grants, seen, env, faults>>

\* After a family: the monitor family follows discovery, then the pipeline.
NextFamily ==
  IF fam = "disc" THEN fam' = "mon" /\ Goto("family")
  ELSE Goto("pipeline") /\ UNCHANGED fam

DropBindings ==
  /\ pc = "dropBindings"
  /\ \/ /\ todo = {}
        /\ inst' = [inst EXCEPT !.tracked[fam] = {}]
        /\ Goto("dropRole")
        /\ UNCHANGED <<todo, bindings, faults>>
     \/ \E n \in todo, out \in Outcomes :
          /\ Charge(out)
          /\ bindings' = IF out = "error" THEN bindings
                         ELSE [bindings EXCEPT ![fam] = @ \ {n}]
          /\ todo' = todo \ {n}
          /\ IF out = "ok" THEN Continue("dropBindings") ELSE Fail
  /\ UNCHANGED <<server, cache, fam, croles, metrics, seen, env>>

\* Mutant: the ClusterRole of an emptied family is left behind.
DropRoleForgotten ==
  /\ pc = "dropRole"
  /\ NextFamily
  /\ UNCHANGED <<server, cache, inst, todo, grants, seen, env, faults>>

DropRole ==
  /\ pc = "dropRole"
  /\ \E out \in Outcomes :
       /\ Charge(out)
       /\ croles' = IF out = "error" THEN croles ELSE croles \ {fam}
       /\ IF out = "ok" THEN NextFamily /\ UNCHANGED inst ELSE Fail /\ UNCHANGED fam
  /\ UNCHANGED <<server, cache, todo, bindings, metrics, seen, env>>

EnsureRole ==
  /\ pc = "ensureRole"
  /\ IF fam \in SeenRoles THEN Goto("persist") /\ UNCHANGED <<inst, croles, faults>>
     ELSE \E out \in Outcomes :
            /\ Charge(out)
            /\ croles' = IF out = "error" THEN croles ELSE croles \cup {fam}
            /\ IF out = "ok" /\ fam \notin croles
                 THEN Continue("persist")
                 ELSE Fail
  /\ UNCHANGED <<server, cache, fam, todo, bindings, metrics, seen, env>>

\* Mutant: the record is widened in memory and stored by the last status write.
PersistLater ==
  /\ pc = "persist"
  /\ inst' = [inst EXCEPT !.tracked[fam] = @ \cup Desired(inst.spec, fam)]
  /\ Goto("bind")
  /\ todo' = Desired(inst.spec, fam)
  /\ UNCHANGED <<server, cache, fam, grants, seen, env, faults>>

\* Mutant: the record is replaced by the desired namespaces, not widened.
PersistDesiredOnly ==
  /\ pc = "persist"
  /\ PersistInst([inst EXCEPT !.tracked[fam] = Desired(inst.spec, fam)], "bind")
  /\ todo' = Desired(inst.spec, fam)
  /\ UNCHANGED <<cache, fam, grants, seen, env>>

\* The namespaces recorded before any RoleBinding is created.  Those no longer
\* desired (previous \ desired) stay in the record until they are deleted.
Persist ==
  /\ pc = "persist"
  /\ PersistInst([inst EXCEPT !.tracked[fam] = @ \cup Desired(inst.spec, fam)], "bind")
  /\ todo' = Desired(inst.spec, fam)
  /\ UNCHANGED <<cache, fam, grants, seen, env>>

\* reconcileDiscoveryRoleBinding / reconcileMonitorRoleBinding for each desired
\* namespace (the code goes in sorted order; here in any order).  The API
\* server refuses an object that exists and a namespace that does not.
Bind ==
  /\ pc = "bind"
  /\ \/ /\ todo = {}
        /\ Goto("unbind")
        /\ todo' = inst.tracked[fam] \ Desired(inst.spec, fam)
        /\ UNCHANGED <<inst, bindings, faults>>
     \/ \E n \in todo :
          /\ todo' = todo \ {n}
          /\ IF n \in SeenBindings[fam]
               THEN Goto("bind") /\ UNCHANGED <<inst, bindings, faults>>
               ELSE \E out \in Outcomes :
                      /\ Charge(out)
                      /\ bindings' = IF out = "error" \/ n \in Missing THEN bindings
                                     ELSE [bindings EXCEPT ![fam] = @ \cup {n}]
                      /\ IF out = "ok" /\ n \notin bindings[fam] \cup Missing
                           THEN Continue("bind")
                           ELSE Fail
  /\ UNCHANGED <<server, cache, fam, croles, metrics, seen, env>>

\* Delete what is recorded and no longer desired, then narrow the record in
\* memory; a later status write stores it.
Unbind ==
  /\ pc = "unbind"
  /\ \/ /\ todo = {}
        /\ inst' = [inst EXCEPT !.tracked[fam] = Desired(inst.spec, fam)]
        /\ NextFamily
        /\ UNCHANGED <<todo, bindings, faults>>
     \/ \E n \in todo, out \in Outcomes :
          /\ Charge(out)
          /\ bindings' = IF out = "error" THEN bindings
                         ELSE [bindings EXCEPT ![fam] = @ \ {n}]
          /\ todo' = todo \ {n}
          /\ IF out = "ok" THEN Continue("unbind") ELSE Fail
          /\ UNCHANGED fam
  /\ UNCHANGED <<server, cache, croles, metrics, seen, env>>

-----------------------------------------------------------------------------
(* The rest of Reconcile. *)

\* reconcileDeployment ... deploymentReady.  Creating or updating the Deployment
\* ends the reconcile without a status write; the next one finds it in place.
\* A refused Deployment update reads the Dashboard again before reporting it.
Pipeline ==
  /\ pc = "pipeline"
  /\ IF health = "handled" THEN health' \in Outlook \ {"handled"} ELSE UNCHANGED health
  /\ \/ health = "handled" /\ Requeue
     \/ /\ health = "updateFailed"
        /\ IF cache.live
             THEN inst' = [cache EXCEPT !.avail = "False"] /\ Goto("finish")
             ELSE Requeue
     \/ health = "failing" /\ Fail
     \/ /\ health = "ready"
        /\ inst' = [inst EXCEPT !.avail = "True"]
        /\ Goto("finish")
  /\ UNCHANGED <<server, cache, fam, todo, grants, seen, widget, edits, faults>>

\* Mutant: a conflict or failure of the last status write is not retried.
FinishOnce ==
  /\ pc = "finish"
  /\ \E out \in Outcomes :
       /\ Charge(out)
       /\ IF out # "error" /\ CanWrite THEN Store(inst) ELSE UNCHANGED server
  /\ Done
  /\ UNCHANGED <<cache, fam, todo, grants, seen, env>>

\* The last status write.  Only Available=True ends without a requeue.
Finish ==
  /\ pc = "finish"
  /\ \E out \in Outcomes :
       /\ Charge(out)
       /\ IF out # "error" /\ CanWrite THEN Store(inst) ELSE UNCHANGED server
       /\ IF out = "ok" /\ CanWrite /\ inst.avail = "True" THEN Done ELSE Requeue
  /\ UNCHANGED <<cache, fam, todo, grants, seen, env>>

-----------------------------------------------------------------------------
(* The watches, and crashes of the manager. *)

\* A watch event: the cache moves to a newer version and the Dashboard is queued.
Deliver ==
  /\ \E v \in stream :
       /\ cache' = v
       /\ stream' = {w \in stream : w.rv > v.rv}
  /\ queued' = TRUE
  /\ UNCHANGED <<srv, inst, pc, fam, todo, grants, seen, env, faults>>

\* The RBAC informers catch up.  Nothing is queued: the objects have no owner.
SyncGrants ==
  /\ LagGrants
  /\ seen' = [bindings |-> bindings, roles |-> croles, metrics |-> metrics]
  /\ seen' # seen
  /\ UNCHANGED <<server, cache, inst, pc, fam, todo, queued, grants, env, faults>>

\* The manager stops between two calls.  A new one lists every Dashboard (so
\* this one is queued) and builds its caches anew.
Crash ==
  /\ faults < MaxFaults
  /\ faults' = faults + 1
  /\ pc' = "idle"
  /\ queued' = TRUE
  /\ cache' = srv
  /\ stream' = {}
  /\ seen' = [bindings |-> bindings, roles |-> croles, metrics |-> metrics]
  /\ inst' = Absent(0)
  /\ fam' = "disc"
  /\ todo' = {}
  /\ UNCHANGED <<srv, grants, env>>

-----------------------------------------------------------------------------
(* Users and the rest of the cluster. *)

Spend == edits < MaxEdits /\ edits' = edits + 1

Create ==
  /\ Spend
  /\ ~srv.live
  /\ \E s \in Specs : Store(Fresh(s, srv.rv))
  /\ UNCHANGED <<cache, inst, pc, fam, todo, queued, grants, seen, widget, health, faults>>

Edit ==
  /\ Spend
  /\ srv.live
  /\ \E s \in Specs \ {srv.spec} : Store([srv EXCEPT !.spec = s])
  /\ UNCHANGED <<cache, inst, pc, fam, todo, queued, grants, seen, widget, health, faults>>

\* kubectl delete: an object without finalizers goes at once.
Delete ==
  /\ Spend
  /\ srv.live /\ ~srv.deleting
  /\ \E fg \in {FALSE, Foreground} :
       Store([srv EXCEPT !.deleting = TRUE, !.otherFin = fg])
  /\ UNCHANGED <<cache, inst, pc, fam, todo, queued, grants, seen, widget, health, faults>>

\* The garbage collector drops its own finalizer after the dependents.
DropOtherFinalizer ==
  /\ srv.live /\ srv.otherFin
  /\ Store([srv EXCEPT !.otherFin = FALSE])
  /\ UNCHANGED <<cache, inst, pc, fam, todo, queued, grants, seen, env, faults>>

\* An InfoWidget is bound or unbound; the watch on InfoWidgets queues the Dashboard.
ToggleWidget ==
  /\ Spend
  /\ widget' = ~widget
  /\ queued' = TRUE
  /\ UNCHANGED <<server, cache, inst, pc, fam, todo, grants, seen, health, faults>>

\* An owned object changes; the watches on them queue the Dashboard.
ChangeHealth ==
  /\ Spend
  /\ health' \in Outlook \ {health}
  /\ queued' = TRUE
  /\ UNCHANGED <<server, cache, inst, pc, fam, todo, grants, seen, widget, faults>>

-----------------------------------------------------------------------------
Init ==
  /\ srv = Absent(0)
  /\ stream = {}
  /\ cache = srv
  /\ inst = srv
  /\ pc = "idle"
  /\ fam = "disc"
  /\ todo = {}
  /\ queued = FALSE
  /\ bindings = None
  /\ croles = {}
  /\ metrics = {}
  /\ seen = [bindings |-> None, roles |-> {}, metrics |-> {}]
  /\ widget = FALSE
  /\ health = "handled"
  /\ edits = 0
  /\ faults = 0

Reconcile ==
  \/ Begin \/ InitStatus \/ RefetchInit \/ AddFinalizer
  \/ DegradeUnknown \/ FinalizeBindings \/ FinalizeRole
  \/ FinalizeMetricsBinding \/ FinalizeMetricsRole
  \/ RefetchFinal \/ DegradeTrue \/ RemoveFinalizer
  \/ OwnRBAC \/ Metrics \/ MetricsRole \/ MetricsBinding
  \/ DropMetricsBinding \/ DropMetricsRole
  \/ Family \/ DropBindings \/ DropRole
  \/ EnsureRole \/ Persist \/ Bind \/ Unbind
  \/ Pipeline \/ Finish

Watches == Deliver \/ SyncGrants

Users == Create \/ Edit \/ Delete \/ DropOtherFinalizer \/ ToggleWidget \/ ChangeHealth

Next == Reconcile \/ Watches \/ Crash \/ Users

Spec == Init /\ [][Next]_vars

\* The work queue always serves a queued Dashboard, a watch delivers every
\* event, and the garbage collector finishes.  Users and faults owe nothing.
Fairness ==
  /\ WF_vars(Reconcile)
  /\ WF_vars(Deliver)
  /\ WF_vars(SyncGrants)
  /\ WF_vars(DropOtherFinalizer)

FairSpec == Spec /\ Fairness

-----------------------------------------------------------------------------
(* Properties. *)

TypeOK ==
  /\ srv \in Object
  /\ stream \subseteq Object
  /\ cache \in Object
  /\ inst \in Object
  /\ pc \in Steps
  /\ fam \in Families
  /\ todo \subseteq NS
  /\ queued \in BOOLEAN
  /\ bindings \in [Families -> SUBSET NS]
  /\ croles \subseteq Families
  /\ metrics \subseteq MetricsObjects
  /\ seen \in [bindings : [Families -> SUBSET NS], roles : SUBSET Families,
               metrics : SUBSET MetricsObjects]
  /\ widget \in BOOLEAN
  /\ health \in Health
  /\ edits \in 0 .. MaxEdits
  /\ faults \in 0 .. MaxFaults

\* Every RoleBinding the operator created in another namespace is named by the
\* stored status (status.discoveryNamespaces, status.monitorNamespaces), so
\* that a later reconcile, or the finalizer, can find it.
BindingsTracked ==
  srv.live => \A f \in Families : bindings[f] \subseteq srv.tracked[f]

\* No grant outside the Dashboard's namespace outlives the finalizer: while the
\* stored Dashboard is gone, or does not carry the finalizer, no RoleBinding,
\* ClusterRole or ClusterRoleBinding of it exists.
NoOrphanedGrants ==
  ~(srv.live /\ srv.fin) => bindings = None /\ croles = {} /\ metrics = {}

\* The grants on the cluster are those the stored spec and the bound InfoWidgets
\* call for, and the record of them is exact.
GrantsMatchSpec ==
  /\ \A f \in Families : bindings[f] = Desired(srv.spec, f)
  /\ croles = {f \in Families : Desired(srv.spec, f) # {}}
  /\ metrics = IF widget THEN MetricsObjects ELSE {}

\* Nothing is left to do: no reconcile runs or is queued, every watch has
\* delivered.
Quiescent ==
  /\ pc = "idle" /\ ~queued
  /\ stream = {}
  /\ LagGrants => seen = [bindings |-> bindings, roles |-> croles, metrics |-> metrics]

\* When the operator has nothing left to do for a Dashboard that is not being
\* deleted, the Dashboard reports Available=True, its grants are those its spec
\* asks for and its status records exactly those: no edit, failure or crash on
\* the way may leave the operator asleep over a difference.
QuiescentMatchesSpec ==
  Quiescent /\ srv.live /\ ~srv.deleting =>
    /\ srv.avail = "True"
    /\ GrantsMatchSpec
    /\ srv.tracked = bindings

\* A Dashboard marked for deletion is eventually gone: the finalizer runs to its
\* end whatever faults, conflicts and failing RBAC steps came before.
DeletionCompletes == (srv.live /\ srv.deleting) ~> ~srv.live

\* Once users stop editing, the grants settle on what the spec asks for, unless
\* the spec names a namespace that does not exist.
GrantsConverge ==
  <>[](srv.live /\ ~srv.deleting
         /\ (\A f \in Families : Desired(srv.spec, f) \cap Missing = {})
       => GrantsMatchSpec)

-----------------------------------------------------------------------------
(* The promise of GrantLedger. *)

Guarded == srv.live /\ srv.fin
Places  == Families \X NS

Ledger ==
  INSTANCE GrantLedger WITH
    ClusterWide <- ({"role"} \X Families) \cup ({"metrics"} \X MetricsObjects),
    guarded <- Guarded,
    ledger  <- {p \in Places : Guarded /\ p[2] \in srv.tracked[p[1]]},
    bound   <- {p \in Places : p[2] \in bindings[p[1]]},
    wide    <- ({"role"} \X croles) \cup ({"metrics"} \X metrics)

\* Reconcile keeps the promise of GrantLedger: a RoleBinding is created only
\* where the stored status names it, a status write never forgets one that
\* exists, and the finalizer goes only after every grant.
KeepsLedger == Ledger!Spec

-----------------------------------------------------------------------------
(* The inductive invariant behind BindingsTracked and NoOrphanedGrants. *)

\* inst is a copy of the stored version, except perhaps in its status.
CopyOfSrv ==
  /\ inst.live = srv.live
  /\ inst.spec = srv.spec
  /\ inst.fin = srv.fin
  /\ inst.otherFin = srv.otherFin
  /\ inst.deleting = srv.deleting

\* Resource versions order the copies of the Dashboard, and one that carries
\* the stored resource version is the stored one.  A Dashboard marked for
\* deletion stays while it has a finalizer.
VersionsInv ==
  /\ srv.live /\ srv.deleting => srv.fin \/ srv.otherFin
  /\ cache.rv <= srv.rv
  /\ cache.rv = srv.rv => cache = srv
  /\ \A v \in stream : cache.rv < v.rv /\ v.rv <= srv.rv /\ (v.rv = srv.rv => v = srv)
  /\ pc # "idle" => inst.live /\ inst.rv <= srv.rv
  /\ pc # "idle" /\ inst.rv = srv.rv => CopyOfSrv
  /\ pc \in {"initStatus", "addFinalizer", "degradeUnknown"} => inst.rv <= cache.rv

\* A version that invites the manager to create grants.
Inviting(o) == o.live /\ o.fin /\ ~o.deleting

\* What the manager may still act on is backed by a finalizer on the server.
GuardInv ==
  /\ \A v \in stream \cup {cache} : Inviting(v) => Guarded
  /\ pc = "addFinalizer" /\ Inviting(inst) => Guarded
  /\ pc \in Main => Guarded
  /\ pc = "degradeUnknown" => inst.fin /\ inst.deleting
  /\ pc \in Deletion \ {"degradeUnknown"} =>
       /\ Guarded /\ srv.deleting
       /\ \A v \in stream \cup {cache} : ~Inviting(v)

\* A status write of inst forgets no RoleBinding, if the server accepts it.
RecordInv ==
  /\ pc # "idle" /\ inst.rv = srv.rv => \A f \in Families : bindings[f] \subseteq inst.tracked[f]
  /\ pc = "bind" => todo \subseteq inst.tracked[fam] /\ todo \subseteq srv.tracked[fam]
  /\ pc = "unbind" /\ inst.rv = srv.rv => bindings[fam] \subseteq todo \cup Desired(inst.spec, fam)
  /\ pc = "dropBindings" /\ inst.rv = srv.rv => bindings[fam] \subseteq todo

\* How far the finalizer has come.
FinalizeInv ==
  /\ pc \in {"finBindings", "finRole"} =>
       /\ fam = "disc" => bindings["mon"] \subseteq inst.tracked["mon"]
       /\ fam = "mon" => bindings["disc"] = {} /\ "disc" \notin croles
       /\ bindings[fam] \subseteq (IF pc = "finRole" THEN {} ELSE todo)
  /\ pc \in {"finMetricsBinding", "finMetricsRole", "refetchFinal", "degradeTrue", "removeFinalizer"} =>
       bindings = None /\ croles = {}
  /\ pc = "finMetricsRole" /\ todo = {} => "ClusterRoleBinding" \notin metrics
  /\ pc \in {"refetchFinal", "degradeTrue", "removeFinalizer"} => metrics = {}

\* Every step of the manager, the watches and the users keeps this.
IInv ==
  /\ TypeOK
  /\ BindingsTracked
  /\ NoOrphanedGrants
  /\ VersionsInv
  /\ GuardInv
  /\ RecordInv
  /\ FinalizeInv
=============================================================================

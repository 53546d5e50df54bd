---------------------------- MODULE LedgerProofs ----------------------------
(***************************************************************************)
(* Proof that Reconcile implements GrantLedger, for any namespaces, specs, *)
(* edits, faults and crashes, and whether or not the RBAC informers lag.   *)
(*                                                                         *)
(* IInv settles every step but one.  The ledger opens empty: the write     *)
(* that adds the finalizer must not carry namespaces in its status, or the *)
(* promise would cover places nothing was recorded for.  BlankInv says so: *)
(* no copy of a Dashboard without finalizer and deletion mark names one.   *)
(***************************************************************************)
EXTENDS DashboardLifecycleProofs

Blank(o) == o.live /\ ~o.fin /\ ~o.deleting => o.tracked = None

Copies == stream \cup {srv, cache}

BlankInv ==
  /\ \A v \in Copies : Blank(v)
  /\ pc # "idle" => Blank(inst)
  /\ pc \in Main \ {"finish"} => inst.fin

\* The ledger opens empty.
OpensEmpty == ~Guarded /\ Guarded' => srv'.tracked = None

\* A write of the Dashboard.
LEMMA StoreBlank ==
  ASSUME IInv, BlankInv, NEW o \in Object, Store(o), UNCHANGED cache, Blank(o),
         o.live /\ o.fin => Guarded \/ o.tracked = None
  PROVE  /\ \A v \in Copies' : Blank(v)
         /\ OpensEmpty
         /\ o.fin => srv'.fin
<1>1. \/ srv' = srv /\ o = srv /\ stream' = stream
      \/ stream' = stream \cup {srv'} /\ srv' = [o EXCEPT !.rv = srv.rv + 1]
      \/ /\ stream' = stream \cup {srv'} /\ srv' = Absent(srv.rv + 1)
         /\ ~o.fin /\ ~srv'.live
  <2>1. TypeOK /\ srv.rv + 1 \in Nat
    BY DEF IInv, TypeOK, Object
  <2> QED  BY <2>1, StoreFacts, AbsentFacts
<1>2. \A v \in Copies' : v \in Copies \/ v = srv'
  BY <1>1 DEF Copies
<1>3. CASE srv' = srv /\ o = srv /\ stream' = stream
  BY <1>2, <1>3 DEF BlankInv, Copies, OpensEmpty, Guarded
<1>4. CASE srv' = [o EXCEPT !.rv = srv.rv + 1]
  <2>1. /\ srv'.live = o.live /\ srv'.fin = o.fin /\ srv'.deleting = o.deleting
        /\ srv'.tracked = o.tracked
    BY <1>4 DEF Object
  <2> QED  BY <1>2, <2>1 DEF BlankInv, Blank, OpensEmpty, Guarded
<1>5. CASE ~srv'.live /\ ~o.fin
  BY <1>2, <1>5 DEF BlankInv, Blank, OpensEmpty, Guarded
<1> QED  BY <1>1, <1>3, <1>4, <1>5

\* What a step that creates and deletes no grant has to show.
QuietStep ==
  /\ BlankInv'
  /\ UNCHANGED <<bindings, croles, metrics>>
  /\ OpensEmpty

\* A write of inst, or a failed one.
LEMMA WriteBlank ==
  ASSUME IInv, BlankInv, pc # "idle", NEW o \in Object, NEW allowed, NEW next,
         WriteInst(o, allowed, next),
         UNCHANGED <<cache, bindings, croles, metrics>>,
         CanWrite /\ allowed => /\ Blank(o)
                                /\ o.fin => Guarded \/ o.tracked = None,
         next \in Main => o.fin
  PROVE  QuietStep
<1>1. CASE UNCHANGED server /\ Requeue
  BY <1>1 DEF server, Requeue, QuietStep, BlankInv, Copies, OpensEmpty, Guarded, Main
<1>2. ASSUME CanWrite, allowed, Store(o),
             (inst' = srv' /\ pc' = next) \/ pc' = "idle"
      PROVE  QuietStep
  <2>1. (\A v \in Copies' : Blank(v)) /\ OpensEmpty /\ (o.fin => srv'.fin)
    BY <1>2, StoreBlank
  <2>2. Blank(srv')
    BY <2>1 DEF Copies
  <2>3. BlankInv'
    BY <1>2, <2>1, <2>2 DEF BlankInv, Main, Blank, Copies
  <2> QED  BY <2>1, <2>3 DEF QuietStep
<1> QED  BY <1>1, <1>2 DEF WriteInst, Goto, Requeue

\* Reading the cache again, or ending without a write.
LEMMA ReadBlank ==
  ASSUME BlankInv, UNCHANGED <<srv, stream, cache, bindings, croles, metrics>>,
         \/ pc' = "idle"
         \/ inst' = cache /\ pc' \notin Main
         \/ inst' = inst /\ pc # "idle" /\ (pc' \in Main => inst.fin)
  PROVE  QuietStep
  BY DEF BlankInv, Copies, QuietStep, OpensEmpty, Guarded, Blank, Main

LEMMA EntryQuiet ==
  ASSUME IInv, BlankInv, Begin \/ InitStatus \/ RefetchInit \/ AddFinalizer
  PROVE  QuietStep
<1>t. TypeOK /\ inst \in Object
  BY DEF IInv, TypeOK
<1>1. CASE Begin
  <2>1. /\ UNCHANGED <<srv, stream, cache, bindings, croles, metrics>>
        /\ pc' = "idle" \/ (inst' = cache /\ pc' \in {"initStatus", "addFinalizer"})
    BY <1>1 DEF Begin, server, grants
  <2> QED  BY <2>1, ReadBlank DEF Main
<1>2. CASE InitStatus
  <2> DEFINE o == [inst EXCEPT !.avail = "Unknown"]
  <2>1. /\ o \in Object /\ o.live = inst.live /\ o.fin = inst.fin
        /\ o.deleting = inst.deleting /\ o.tracked = inst.tracked
    BY <1>t DEF Object
  <2>2. /\ WriteInst(o, TRUE, "refetchInit") /\ pc = "initStatus"
        /\ UNCHANGED <<cache, bindings, croles, metrics>>
    BY <1>2 DEF InitStatus, grants
  <2>3. CanWrite => (inst.fin => Guarded) /\ Blank(o)
    BY <2>1, <2>2 DEF IInv, VersionsInv, CopyOfSrv, CanWrite, Guarded, BlankInv, Blank
  <2> QED  BY <2>1, <2>2, <2>3, WriteBlank DEF Main
<1>3. CASE RefetchInit
  <2>1. /\ UNCHANGED <<srv, stream, cache, bindings, croles, metrics>>
        /\ pc' = "idle" \/ (inst' = cache /\ pc' = "addFinalizer")
    BY <1>3 DEF RefetchInit, server, grants, Requeue, Goto
  <2> QED  BY <2>1, ReadBlank DEF Main
<1>4. CASE AddFinalizer /\ inst.fin
  <2>1. /\ UNCHANGED <<srv, stream, cache, bindings, croles, metrics, inst>>
        /\ pc = "addFinalizer"
    BY <1>4 DEF AddFinalizer, server, grants
  <2> QED  BY <1>4, <2>1, ReadBlank
<1>5. CASE AddFinalizer /\ ~inst.fin
  <2> DEFINE o == [inst EXCEPT !.fin = TRUE]
  <2>1. /\ o \in Object /\ o.live = inst.live /\ o.fin
        /\ o.deleting = inst.deleting /\ o.tracked = inst.tracked
    BY <1>t DEF Object
  <2>2. /\ WriteInst(o, ~inst.deleting, "ownRBAC") /\ pc = "addFinalizer"
        /\ UNCHANGED <<cache, bindings, croles, metrics>>
    BY <1>5 DEF AddFinalizer, grants
  <2>3. CanWrite /\ ~inst.deleting => o.tracked = None
    BY <1>5, <2>1, <2>2 DEF IInv, VersionsInv, CopyOfSrv, CanWrite, BlankInv, Blank
  <2>4. Blank(o)
    BY <2>1 DEF Blank
  <2> QED  BY <2>1, <2>2, <2>3, <2>4, WriteBlank
<1> QED  BY <1>1, <1>2, <1>3, <1>4, <1>5

\* What a step that leaves the Dashboard alone has to show: it creates or deletes
\* at most one grant, a RoleBinding only where the stored status names it, and
\* anything only under the finalizer.
OneBinding(f, n) ==
  /\ UNCHANGED <<croles, metrics>>
  /\ \/ bindings' = [bindings EXCEPT ![f] = @ \ {n}]
     \/ /\ Guarded /\ n \in srv.tracked[f]
        /\ bindings' = [bindings EXCEPT ![f] = @ \cup {n}]

OneRole(f) ==
  /\ UNCHANGED <<bindings, metrics>>
  /\ croles' = croles \ {f} \/ (Guarded /\ croles' = croles \cup {f})

OneMetrics(m) ==
  /\ UNCHANGED <<bindings, croles>>
  /\ metrics' = metrics \ {m} \/ (Guarded /\ metrics' = metrics \cup {m})

GrantStep ==
  /\ BlankInv'
  /\ UNCHANGED <<srv, stream>>
  /\ \/ UNCHANGED <<bindings, croles, metrics>>
     \/ \E f \in Families, n \in NS : OneBinding(f, n)
     \/ \E f \in Families : OneRole(f)
     \/ \E m \in MetricsObjects : OneMetrics(m)

\* The RBAC reconcile and the finalizer keep BlankInv while they only grant.
LEMMA MainBlank ==
  ASSUME BlankInv, UNCHANGED <<srv, stream, cache>>, pc \in Main \ {"finish"},
         inst'.fin = inst.fin \/ pc' = "idle"
  PROVE  BlankInv'
  BY DEF BlankInv, Copies, Blank, Main

LEMMA DeletionBlank ==
  ASSUME BlankInv, UNCHANGED <<srv, stream, cache>>, pc \in Deletion,
         pc' = "idle" \/ (pc' \in Deletion /\ inst' = inst)
  PROVE  BlankInv'
  BY DEF BlankInv, Copies, Blank, Main, Deletion

LEMMA FinalizeGrants ==
  ASSUME IInv, BlankInv,
         FinalizeBindings \/ FinalizeRole \/ FinalizeMetricsBinding \/ FinalizeMetricsRole
  PROVE  GrantStep
<1>t. TypeOK /\ fam \in Families /\ todo \subseteq NS
  BY DEF IInv, TypeOK
<1>1. CASE FinalizeBindings
  <2>1. BlankInv' /\ UNCHANGED <<srv, stream, croles, metrics>>
    <3>1. /\ UNCHANGED <<srv, stream, cache, croles, metrics>> /\ pc = "finBindings"
          /\ pc' = "idle" \/ (pc' \in Deletion /\ inst' = inst)
      BY <1>1 DEF FinalizeBindings, server, Requeue, Continue, Goto, Deletion
    <3> QED  BY <3>1, DeletionBlank DEF Deletion
  <2>2. bindings' = bindings \/ \E n \in todo : bindings' = [bindings EXCEPT ![fam] = @ \ {n}]
    BY <1>1 DEF FinalizeBindings
  <2> QED  BY <1>t, <2>1, <2>2 DEF GrantStep, OneBinding
<1>2. CASE FinalizeRole
  <2>1. BlankInv' /\ UNCHANGED <<srv, stream, bindings, metrics>>
    <3>1. /\ UNCHANGED <<srv, stream, cache, bindings, metrics>> /\ pc = "finRole"
          /\ pc' = "idle" \/ (pc' \in Deletion /\ inst' = inst)
      BY <1>2 DEF FinalizeRole, server, Requeue, Continue, Goto, Deletion
    <3> QED  BY <3>1, DeletionBlank DEF Deletion
  <2>2. croles' = croles \/ croles' = croles \ {fam}
    BY <1>2 DEF FinalizeRole
  <2> QED  BY <1>t, <2>1, <2>2 DEF GrantStep, OneRole
<1>3. CASE FinalizeMetricsBinding \/ FinalizeMetricsRole
  <2>1. BlankInv' /\ UNCHANGED <<srv, stream, bindings, croles>>
    <3>1. /\ UNCHANGED <<srv, stream, cache, bindings, croles>> /\ pc \in Deletion
          /\ pc' = "idle" \/ (pc' \in Deletion /\ inst' = inst)
      BY <1>3 DEF FinalizeMetricsBinding, FinalizeMetricsRole, server, Requeue,
                  Continue, Goto, Deletion
    <3> QED  BY <3>1, DeletionBlank
  <2>2. metrics' = metrics \/ \E m \in MetricsObjects : metrics' = metrics \ {m}
    BY <1>3 DEF FinalizeMetricsBinding, FinalizeMetricsRole, MetricsObjects
  <2> QED  BY <2>1, <2>2 DEF GrantStep, OneMetrics
<1> QED  BY <1>1, <1>2, <1>3

LEMMA MetricsGrants ==
  ASSUME IInv, BlankInv,
         OwnRBAC \/ Metrics \/ MetricsRole \/ MetricsBinding \/ DropMetricsBinding
           \/ DropMetricsRole
  PROVE  GrantStep
<1>1. pc \in Main \ {"finish"} /\ UNCHANGED <<srv, stream, cache, bindings, croles>>
  BY DEF OwnRBAC, Metrics, MetricsRole, MetricsBinding, DropMetricsBinding,
         DropMetricsRole, server, grants, Main
<1>2. inst'.fin = inst.fin
  BY FailFacts DEF OwnRBAC, Metrics, MetricsRole, MetricsBinding, DropMetricsBinding,
         DropMetricsRole, EnsureMetrics, Continue, IInv
<1>3. Guarded
  BY <1>1 DEF IInv, GuardInv
<1>4. \/ metrics' = metrics
      \/ \E m \in MetricsObjects : metrics' \in {metrics \ {m}, metrics \cup {m}}
  BY DEF OwnRBAC, Metrics, MetricsRole, MetricsBinding, DropMetricsBinding,
         DropMetricsRole, EnsureMetrics, grants, MetricsObjects
<1> QED  BY <1>1, <1>2, <1>3, <1>4, MainBlank DEF GrantStep, OneMetrics

LEMMA FamilyGrants ==
  ASSUME IInv, BlankInv,
         Family \/ DropBindings \/ DropRole \/ EnsureRole \/ Bind \/ Unbind
  PROVE  GrantStep
<1>t. TypeOK /\ inst \in Object /\ fam \in Families /\ todo \subseteq NS
  BY DEF IInv, TypeOK
<1>1. pc \in Main \ {"finish"} /\ UNCHANGED <<srv, stream, cache, metrics>>
  BY DEF Family, DropBindings, DropRole, EnsureRole, Bind, Unbind, server, grants, Main
<1>2. Guarded
  BY <1>1 DEF IInv, GuardInv
<1>3. inst'.fin = inst.fin
  <2>1. CASE Family \/ DropRole \/ EnsureRole \/ Bind
    BY <1>t, <2>1, FailFacts DEF Family, DropRole, EnsureRole, Bind, Continue
  <2>2. CASE DropBindings \/ Unbind
    <3>1. \/ inst' = inst \/ Fail
          \/ \E s : inst' = [inst EXCEPT !.tracked[fam] = s]
      BY <2>2 DEF DropBindings, Unbind, Continue
    <3> QED  BY <1>t, <3>1, FailFacts DEF Object
  <2> QED  BY <2>1, <2>2
<1>4. BlankInv'
  BY <1>1, <1>3, MainBlank
<1>5. CASE Family
  BY <1>1, <1>4, <1>5 DEF Family, grants, GrantStep
<1>6. CASE DropBindings \/ Unbind
  <2>1. /\ UNCHANGED croles
        /\ \/ bindings' = bindings
           \/ \E n \in todo : bindings' = [bindings EXCEPT ![fam] = @ \ {n}]
    BY <1>6 DEF DropBindings, Unbind
  <2> QED  BY <1>t, <1>1, <1>4, <2>1 DEF GrantStep, OneBinding
<1>7. CASE DropRole \/ EnsureRole
  <2>1. UNCHANGED bindings /\ croles' \in {croles, croles \ {fam}, croles \cup {fam}}
    BY <1>7 DEF DropRole, EnsureRole
  <2> QED  BY <1>t, <1>1, <1>2, <1>4, <2>1 DEF GrantStep, OneRole
<1>8. CASE Bind
  <2>1. /\ UNCHANGED croles
        /\ \/ bindings' = bindings
           \/ \E n \in todo : bindings' = [bindings EXCEPT ![fam] = @ \cup {n}]
    BY <1>8 DEF Bind
  <2>2. todo \subseteq srv.tracked[fam]
    BY <1>8 DEF Bind, IInv, RecordInv
  <2> QED  BY <1>t, <1>1, <1>2, <1>4, <2>1, <2>2 DEF GrantStep, OneBinding
<1> QED  BY <1>5, <1>6, <1>7, <1>8

\* The deletion branch's reads and writes.  The finalizer is removed from a
\* Dashboard that is marked for deletion, which never gets it back.
LEMMA DeletionQuiet ==
  ASSUME IInv, BlankInv, DegradeUnknown \/ RefetchFinal \/ DegradeTrue \/ RemoveFinalizer
  PROVE  QuietStep
<1>t. TypeOK /\ inst \in Object
  BY DEF IInv, TypeOK
<1>1. CASE DegradeUnknown \/ DegradeTrue
  <2>1. PICK d \in {"Unknown", "True"}, next \in Deletion :
          /\ WriteInst([inst EXCEPT !.degr = d], TRUE, next) /\ pc \in Deletion
          /\ UNCHANGED <<cache, bindings, croles, metrics>>
    BY <1>1 DEF DegradeUnknown, DegradeTrue, grants, Deletion
  <2> DEFINE o == [inst EXCEPT !.degr = d]
  <2>2. /\ o \in Object /\ o.live = inst.live /\ o.fin = inst.fin
        /\ o.deleting = inst.deleting /\ o.tracked = inst.tracked
    BY <1>t DEF Object
  <2>3. CanWrite => (inst.fin => Guarded) /\ Blank(o)
    BY <2>1, <2>2 DEF IInv, VersionsInv, CopyOfSrv, CanWrite, Guarded, BlankInv, Blank,
                      Deletion
  <2> HIDE DEF o
  <2>4. pc # "idle" /\ next \notin Main
    BY <2>1 DEF Deletion, Main
  <2>5. WriteInst(o, TRUE, next)
    BY <2>1 DEF o
  <2> QED  BY <2>1, <2>2, <2>3, <2>4, <2>5, WriteBlank
<1>2. CASE RefetchFinal
  <2>1. /\ UNCHANGED <<srv, stream, cache, bindings, croles, metrics>>
        /\ pc' = "idle" \/ (inst' = cache /\ pc' = "degradeTrue")
    BY <1>2 DEF RefetchFinal, server, grants, Requeue, Goto
  <2> QED  BY <2>1, ReadBlank DEF Main
<1>3. CASE RemoveFinalizer
  <2> DEFINE o == [inst EXCEPT !.fin = FALSE]
  <2>1. o \in Object /\ ~o.fin /\ o.deleting = inst.deleting
    BY <1>t DEF Object
  <2>2. /\ pc = "removeFinalizer" /\ pc' = "idle"
        /\ UNCHANGED <<cache, bindings, croles, metrics>>
        /\ UNCHANGED server \/ (CanWrite /\ Store(o))
    BY <1>3 DEF RemoveFinalizer, grants, Done, Requeue
  <2>3. CASE UNCHANGED server
    BY <2>2, <2>3, ReadBlank DEF server
  <2>4. CASE CanWrite /\ Store(o)
    <3>1. o.deleting
      BY <2>1, <2>2, <2>4 DEF IInv, VersionsInv, GuardInv, CopyOfSrv, CanWrite, Deletion
    <3>2. (\A v \in Copies' : Blank(v)) /\ OpensEmpty
      BY <2>1, <2>2, <2>4, <3>1, StoreBlank DEF Blank
    <3> QED  BY <2>2, <3>2 DEF QuietStep, BlankInv, Main
  <2> QED  BY <2>2, <2>3, <2>4
<1> QED  BY <1>1, <1>2, <1>3

\* The writes of the status: the record before the first RoleBinding, and the end.
LEMMA StatusQuiet ==
  ASSUME IInv, BlankInv, Persist \/ Pipeline \/ Finish
  PROVE  QuietStep
<1>t. TypeOK /\ inst \in Object /\ cache \in Object /\ fam \in Families
  BY DEF IInv, TypeOK
<1>g. Guarded
  BY DEF Persist, Pipeline, Finish, IInv, GuardInv, Main
<1>1. CASE Persist
  <2> DEFINE o == [inst EXCEPT !.tracked[fam] = @ \cup Desired(inst.spec, fam)]
  <2>1. inst.fin
    BY <1>1 DEF Persist, BlankInv, Main
  <2>2. o \in Object /\ o.fin /\ [o EXCEPT !.avail = "False"].fin
    <3>1. Desired(inst.spec, fam) \subseteq NS
      BY <1>t, DesiredType DEF Object
    <3>2. [inst.tracked EXCEPT ![fam] = @ \cup Desired(inst.spec, fam)]
            \in [Families -> SUBSET NS]
      BY <1>t, <3>1 DEF Object
    <3> QED  BY <1>t, <2>1, <3>2 DEF Object
  <2>3. PersistInst(o, "bind") /\ UNCHANGED <<cache, bindings, croles, metrics>>
    BY <1>1 DEF Persist, grants
  <2>b. Blank(o)
    BY <2>2 DEF Blank
  <2> HIDE DEF o
  <2>4. Store(o) \/ UNCHANGED server
    BY <2>3 DEF PersistInst
  <2>5. (inst' = srv' /\ Store(o)) \/ inst' = [o EXCEPT !.avail = "False"]
    BY <2>3 DEF PersistInst
  <2>6. pc' \in {"bind", "finish"}
    BY <2>3 DEF PersistInst, Goto
  <2>7. (\A v \in Copies' : Blank(v)) /\ OpensEmpty
    <3>1. CASE Store(o)
      BY <1>g, <2>2, <2>3, <2>b, <3>1, StoreBlank
    <3>2. CASE UNCHANGED server
      BY <2>3, <3>2 DEF server, BlankInv, Copies, OpensEmpty, Guarded
    <3> QED  BY <2>4, <3>1, <3>2
  <2>8. inst'.fin
    BY <1>g, <2>2, <2>3, <2>5, <2>b, StoreBlank
  <2>9. BlankInv'
    BY <2>6, <2>7, <2>8 DEF BlankInv, Blank, Main
  <2> QED  BY <2>3, <2>7, <2>9 DEF QuietStep
<1>2. CASE Pipeline
  <2>1. UNCHANGED <<srv, stream, cache, bindings, croles, metrics>> /\ pc = "pipeline"
    BY <1>2 DEF Pipeline, server, grants
  <2>2. \/ pc' = "idle"
        \/ pc' = "finish" /\ inst' = [cache EXCEPT !.avail = "False"]
        \/ pc' = "finish" /\ \E a : inst' = [inst EXCEPT !.avail = a]
    BY <1>2 DEF Pipeline, Requeue, Goto, Fail
  <2>3. pc' # "idle" => Blank(inst')
    BY <1>t, <2>1, <2>2 DEF BlankInv, Blank, Copies, Object, Main
  <2>4. BlankInv'
    BY <2>1, <2>2, <2>3 DEF BlankInv, Copies, Main
  <2> QED  BY <2>1, <2>4 DEF QuietStep, OpensEmpty, Guarded
<1>3. CASE Finish
  <2>1. /\ UNCHANGED <<cache, bindings, croles, metrics>> /\ pc' = "idle"
        /\ Store(inst) \/ UNCHANGED server
    BY <1>3 DEF Finish, grants, Done, Requeue
  <2>2. Blank(inst)
    BY <1>3 DEF Finish, BlankInv
  <2>3. CASE UNCHANGED server
    BY <2>1, <2>3, ReadBlank DEF server
  <2>4. CASE Store(inst)
    <3>1. (\A v \in Copies' : Blank(v)) /\ OpensEmpty
      BY <1>t, <1>g, <2>1, <2>2, <2>4, StoreBlank
    <3> QED  BY <2>1, <3>1 DEF QuietStep, BlankInv, Main
  <2> QED  BY <2>1, <2>3, <2>4
<1> QED  BY <1>1, <1>2, <1>3

\* The watches, a crash, and everybody else.
LEMMA OthersQuiet ==
  ASSUME IInv, BlankInv, Deliver \/ SyncGrants \/ Crash \/ Users
  PROVE  QuietStep
<1>t. TypeOK /\ srv \in Object
  BY DEF IInv, TypeOK
<1>1. CASE Deliver \/ SyncGrants \/ ToggleWidget \/ ChangeHealth
  <2>1. UNCHANGED <<srv, inst, pc, bindings, croles, metrics>>
    BY <1>1 DEF Deliver, SyncGrants, ToggleWidget, ChangeHealth, server, grants
  <2>2. Copies' \subseteq Copies
    BY <1>1 DEF Deliver, SyncGrants, ToggleWidget, ChangeHealth, server, Copies
  <2> QED  BY <2>1, <2>2 DEF QuietStep, BlankInv, Blank, OpensEmpty, Guarded
<1>2. CASE Crash
  BY <1>2 DEF Crash, grants, QuietStep, BlankInv, Copies, OpensEmpty, Guarded, Main
<1>3. ASSUME NEW o \in Object, Store(o),
             UNCHANGED <<cache, inst, pc, bindings, croles, metrics>>,
             Blank(o), o.live /\ o.fin => Guarded
      PROVE  QuietStep
  <2>1. (\A v \in Copies' : Blank(v)) /\ OpensEmpty
    BY <1>3, StoreBlank
  <2> QED  BY <1>3, <2>1 DEF QuietStep, BlankInv, Blank
<1>4. CASE Create
  <2>1. PICK s \in Specs : Store(Fresh(s, srv.rv))
    BY <1>4 DEF Create
  <2>2. /\ Fresh(s, srv.rv) \in Object /\ ~Fresh(s, srv.rv).fin
        /\ Fresh(s, srv.rv).tracked = None
    BY <1>t, ConstantsAssumption DEF Fresh, Object, None
  <2> QED  BY <1>3, <1>4, <2>1, <2>2 DEF Create, grants, Blank
<1>5. CASE Edit \/ Delete \/ DropOtherFinalizer
  <2>1. PICK o \in Object :
          /\ Store(o)
          /\ o.live = srv.live /\ o.fin = srv.fin /\ o.tracked = srv.tracked
          /\ srv.deleting => o.deleting
    <3>1. CASE Edit
      <4>1. PICK s \in Specs : Store([srv EXCEPT !.spec = s])
        BY <3>1 DEF Edit
      <4> QED  BY <1>t, <4>1, ConstantsAssumption DEF Object
    <3>2. CASE Delete
      <4>1. PICK fg \in BOOLEAN : Store([srv EXCEPT !.deleting = TRUE, !.otherFin = fg])
        BY <3>2, ConstantsAssumption DEF Delete
      <4> DEFINE o == [srv EXCEPT !.deleting = TRUE, !.otherFin = fg]
      <4>2. /\ o \in Object /\ o.live = srv.live /\ o.fin = srv.fin
            /\ o.tracked = srv.tracked /\ o.deleting
        BY <1>t DEF Object
      <4> QED  BY <4>1, <4>2
    <3>3. CASE DropOtherFinalizer
      <4> DEFINE o == [srv EXCEPT !.otherFin = FALSE]
      <4>1. /\ o \in Object /\ o.live = srv.live /\ o.fin = srv.fin
            /\ o.tracked = srv.tracked /\ o.deleting = srv.deleting
        BY <1>t DEF Object
      <4> QED  BY <3>3, <4>1 DEF DropOtherFinalizer
    <3> QED  BY <1>5, <3>1, <3>2, <3>3
  <2>2. UNCHANGED <<cache, inst, pc, bindings, croles, metrics>>
    BY <1>5 DEF Edit, Delete, DropOtherFinalizer, grants
  <2>3. Blank(srv)
    BY DEF BlankInv, Copies
  <2> QED  BY <1>3, <2>1, <2>2, <2>3 DEF Blank, Guarded
<1> QED  BY <1>1, <1>2, <1>4, <1>5 DEF Users

\* Every step is one of the two kinds.
LEMMA StepKinds ==
  ASSUME IInv, BlankInv, Next PROVE QuietStep \/ GrantStep
  BY EntryQuiet, FinalizeGrants, MetricsGrants, FamilyGrants, DeletionQuiet, StatusQuiet,
     OthersQuiet DEF Next, Reconcile, Watches
-----------------------------------------------------------------------------
(***************************************************************************)
(* The refinement, over the variables of GrantLedger.                      *)
(***************************************************************************)
Noted == {p \in Places : Guarded /\ p[2] \in srv.tracked[p[1]]}
Bound == {p \in Places : p[2] \in bindings[p[1]]}
Wide  == ({"role"} \X croles) \cup ({"metrics"} \X metrics)

LEMMA QuietMaps ==
  ASSUME IInv, IInv', QuietStep
  PROVE  Ledger!Next \/ UNCHANGED Ledger!vars
<1>1. Bound' = Bound /\ Wide' = Wide
  BY DEF QuietStep, Bound, Wide
<1>2. CASE Guarded /\ Guarded'
  <2>1. Bound' \subseteq Noted' /\ Noted' \in SUBSET Places
    BY <1>2 DEF IInv, BindingsTracked, Bound, Noted, Places, Guarded
  <2>2. Ledger!Rewrite
    BY <1>1, <1>2, <2>1 DEF Ledger!Rewrite, Bound, Noted, Wide
  <2> QED  BY <2>2 DEF Ledger!Next
<1>3. CASE Guarded /\ ~Guarded'
  <2>1. bindings = None /\ croles = {} /\ metrics = {}
    BY <1>3 DEF IInv, NoOrphanedGrants, Guarded, QuietStep
  <2>2. Bound = {} /\ Wide = {} /\ Noted' = {}
    BY <1>3, <2>1 DEF Bound, Wide, Noted, None, Places
  <2>3. Ledger!Release
    BY <1>1, <1>3, <2>2 DEF Ledger!Release, Bound, Noted, Wide
  <2> QED  BY <2>3 DEF Ledger!Next
<1>4. CASE ~Guarded /\ Guarded'
  <2>1. Noted = {} /\ Noted' = {}
    BY <1>4 DEF QuietStep, OpensEmpty, Noted, None, Places
  <2>2. Ledger!Guard
    BY <1>1, <1>4, <2>1 DEF Ledger!Guard, Bound, Noted, Wide
  <2> QED  BY <2>2 DEF Ledger!Next
<1>5. CASE ~Guarded /\ ~Guarded'
  <2>1. Noted = {} /\ Noted' = {} /\ Guarded' = Guarded
    BY <1>5 DEF Noted, Guarded
  <2> QED  BY <1>1, <2>1 DEF Ledger!vars, Bound, Noted, Wide
<1> QED  BY <1>2, <1>3, <1>4, <1>5

LEMMA GrantMaps ==
  ASSUME IInv, GrantStep
  PROVE  Ledger!Next \/ UNCHANGED Ledger!vars
<1>1. Guarded' = Guarded /\ Noted' = Noted
  BY DEF GrantStep, Guarded, Noted
<1>2. Guarded \in BOOLEAN
  BY DEF Guarded, IInv, TypeOK, Object
<1>3. CASE UNCHANGED <<bindings, croles, metrics>>
  BY <1>1, <1>3 DEF Ledger!vars, Bound, Wide, Noted
<1>4. ASSUME NEW f \in Families, NEW n \in NS, OneBinding(f, n)
      PROVE  Ledger!Next \/ UNCHANGED Ledger!vars
  <2> DEFINE p == <<f, n>>
  <2>1. p \in Places /\ Wide' = Wide /\ bindings \in [Families -> SUBSET NS]
    BY <1>4 DEF OneBinding, Places, Wide, IInv, TypeOK
  <2>2. CASE bindings' = [bindings EXCEPT ![f] = @ \ {n}]
    <3>1. Bound' = Bound \ {p}
      BY <2>1, <2>2 DEF Bound, Places
    <3>2. CASE p \in Bound
      <4>1. Ledger!Unbind
        BY <1>1, <2>1, <3>1, <3>2 DEF Ledger!Unbind, Bound, Noted, Wide
      <4> QED  BY <4>1 DEF Ledger!Next
    <3>3. CASE p \notin Bound
      <4>1. Bound' = Bound
        BY <3>1, <3>3
      <4> QED  BY <1>1, <2>1, <4>1 DEF Ledger!vars, Bound, Noted, Wide
    <3> QED  BY <3>2, <3>3
  <2>3. CASE /\ Guarded /\ n \in srv.tracked[f]
             /\ bindings' = [bindings EXCEPT ![f] = @ \cup {n}]
    <3>1. Bound' = Bound \cup {p} /\ p \in Noted
      BY <2>1, <2>3 DEF Bound, Noted, Places
    <3>2. Ledger!Bind
      BY <1>1, <2>1, <2>3, <3>1 DEF Ledger!Bind, Bound, Noted, Wide
    <3> QED  BY <3>2 DEF Ledger!Next
  <2> QED  BY <1>4, <2>2, <2>3 DEF OneBinding
<1>5. ASSUME NEW o \in ({"role"} \X Families) \cup ({"metrics"} \X MetricsObjects),
             Bound' = Bound,
             Wide' = Wide \ {o} \/ (Guarded /\ Wide' = Wide \cup {o})
      PROVE  Ledger!Next \/ UNCHANGED Ledger!vars
  <2>1. CASE Guarded /\ Wide' = Wide \cup {o}
    <3>1. Ledger!Widen
      BY <1>1, <1>5, <2>1 DEF Ledger!Widen, Bound, Noted, Wide
    <3> QED  BY <3>1 DEF Ledger!Next
  <2>2. CASE Wide' = Wide \ {o} /\ o \in Wide
    <3>1. Ledger!Narrow
      BY <1>1, <1>5, <2>2 DEF Ledger!Narrow, Bound, Noted, Wide
    <3> QED  BY <3>1 DEF Ledger!Next
  <2>3. CASE Wide' = Wide \ {o} /\ o \notin Wide
    <3>1. Wide' = Wide
      BY <2>3
    <3> QED  BY <1>1, <1>5, <3>1 DEF Ledger!vars, Bound, Noted, Wide
  <2> QED  BY <1>5, <2>1, <2>2, <2>3
<1>6. ASSUME NEW f \in Families, OneRole(f)
      PROVE  Ledger!Next \/ UNCHANGED Ledger!vars
  <2>1. Bound' = Bound /\ metrics' = metrics
    BY <1>6 DEF OneRole, Bound
  <2>2. \/ Wide' = Wide \ {<<"role", f>>}
        \/ Guarded /\ Wide' = Wide \cup {<<"role", f>>}
    BY <1>6, <2>1 DEF OneRole, Wide
  <2> QED  BY <1>5, <2>1, <2>2
<1>7. ASSUME NEW m \in MetricsObjects, OneMetrics(m)
      PROVE  Ledger!Next \/ UNCHANGED Ledger!vars
  <2>1. Bound' = Bound /\ croles' = croles
    BY <1>7 DEF OneMetrics, Bound
  <2>2. \/ Wide' = Wide \ {<<"metrics", m>>}
        \/ Guarded /\ Wide' = Wide \cup {<<"metrics", m>>}
    BY <1>7, <2>1 DEF OneMetrics, Wide
  <2> QED  BY <1>5, <2>1, <2>2
<1> QED  BY <1>3, <1>4, <1>6, <1>7 DEF GrantStep

LEMMA InitMaps == Init => BlankInv /\ Ledger!Init
<1> SUFFICES ASSUME Init PROVE BlankInv /\ Ledger!Init  OBVIOUS
<1>1. ~srv.live /\ cache = srv /\ stream = {} /\ pc = "idle"
  BY AbsentFacts DEF Init
<1>2. BlankInv
  BY <1>1 DEF BlankInv, Copies, Blank, Main
<1>3. Guarded = FALSE /\ Noted = {}
  BY <1>1 DEF Guarded, Noted
<1>4. Bound = {} /\ Wide = {}
  BY DEF Init, Bound, Wide, None, Places
<1> QED  BY <1>2, <1>3, <1>4 DEF Ledger!Init, Bound, Noted, Wide

\* Reconcile with its watches, faults, crashes and users implements GrantLedger:
\* reconcileDiscoveryRBAC, reconcileMonitorRBAC and reconcileClusterMetricsRBAC
\* grant only what the stored status names and the finalizer guards, and
\* doFinalizerOperationsForDashboard gives the guard up only with every grant gone.
THEOREM LedgerKept == Spec => KeepsLedger
<1>1. IInv /\ BlankInv /\ [Next]_vars => BlankInv' /\ [Ledger!Next]_(Ledger!vars)
  <2> SUFFICES ASSUME IInv, BlankInv, [Next]_vars
               PROVE  BlankInv' /\ [Ledger!Next]_(Ledger!vars)
    OBVIOUS
  <2>1. CASE Next
    <3>1. IInv'
      BY <2>1, NextIInv
    <3>2. BlankInv'
      BY <2>1, StepKinds DEF QuietStep, GrantStep
    <3>3. Ledger!Next \/ UNCHANGED Ledger!vars
      BY <2>1, <3>1, StepKinds, QuietMaps, GrantMaps
    <3> QED  BY <3>2, <3>3
  <2>2. CASE UNCHANGED vars
    <3>1. UNCHANGED <<srv, stream, cache, inst, pc, bindings, croles, metrics>>
      BY <2>2 DEF vars
    <3>2. BlankInv'
      BY <3>1 DEF BlankInv, Copies, Blank
    <3>3. UNCHANGED Ledger!vars
      BY <3>1 DEF Ledger!vars, Guarded
    <3> QED  BY <3>2, <3>3
  <2> QED  BY <2>1, <2>2
<1> QED  BY <1>1, InitMaps, Inductive, PTL DEF Spec, KeepsLedger, Ledger!Spec
=============================================================================

---------------------- MODULE DashboardLifecycleProofs ----------------------
(***************************************************************************)
(* Proofs that DashboardLifecycle keeps its type invariant, records every  *)
(* RoleBinding it creates, leaves no grant behind and goes quiet only when *)
(* it is done, for any set of namespaces, any specs and any number of      *)
(* edits, faults and crashes.                                              *)
(***************************************************************************)
EXTENDS DashboardLifecycle, TLAPS

\* The object that is not there is an Object too.
LEMMA AbsentFacts ==
  ASSUME NEW rv \in Nat
  PROVE  /\ Absent(rv) \in Object
         /\ Absent(rv).rv = rv
         /\ ~Absent(rv).live
         /\ Absent(rv).tracked = None
<1>1. None \in [Families -> SUBSET NS]
  BY DEF None
<1>2. NoSpec \in SpecType
  BY <1>1 DEF NoSpec, SpecType
<1>3. Fresh(NoSpec, rv) \in Object
  BY <1>1, <1>2 DEF Fresh, Object
<1> QED BY <1>3 DEF Absent, Fresh, Object

\* A stored object is an Object whose resource version has grown by one, or
\* the object that was there; it has gone only with its last finalizer.
LEMMA StoreFacts ==
  ASSUME TypeOK, NEW o \in Object, Store(o)
  PROVE  /\ srv' \in Object
         /\ stream' \subseteq Object
         /\ \/ o = srv /\ srv' = srv /\ stream' = stream
            \/ /\ srv'.rv = srv.rv + 1
               /\ stream' = stream \cup {srv'}
               /\ o.deleting /\ ~o.fin /\ ~o.otherFin => srv' = Absent(srv.rv + 1)
               /\ ~(o.deleting /\ ~o.fin /\ ~o.otherFin) => srv' = [o EXCEPT !.rv = srv.rv + 1]
<1>1. Absent(srv.rv + 1) \in Object /\ Absent(srv.rv + 1).rv = srv.rv + 1
  BY AbsentFacts DEF TypeOK, Object
<1>2. [o EXCEPT !.rv = srv.rv + 1] \in Object /\ [o EXCEPT !.rv = srv.rv + 1].rv = srv.rv + 1
  BY DEF TypeOK, Object
<1>3. CASE o = srv
  BY <1>3 DEF Store, server, TypeOK
<1>4. CASE o # srv
  <2>1. srv' = Settled([o EXCEPT !.rv = srv.rv + 1]) /\ stream' = stream \cup {srv'}
    BY <1>4 DEF Store
  <2>2. CASE o.deleting /\ ~o.fin /\ ~o.otherFin
    <3>1. srv' = Absent(srv.rv + 1)
      BY <2>1, <2>2, <1>2 DEF Settled, Object
    <3> QED BY <3>1, <2>1, <2>2, <1>1 DEF TypeOK
  <2>3. CASE ~(o.deleting /\ ~o.fin /\ ~o.otherFin)
    <3>1. srv' = [o EXCEPT !.rv = srv.rv + 1]
      BY <2>1, <2>3, <1>2 DEF Settled, Object
    <3> QED BY <3>1, <2>1, <2>3, <1>2 DEF TypeOK
  <2> QED BY <2>2, <2>3
<1> QED BY <1>3, <1>4

\* A charged call keeps the fault counter within its bound.
LEMMA ChargeFacts ==
  ASSUME TypeOK, NEW out, Charge(out)
  PROVE  faults' \in 0 .. MaxFaults
BY ConstantsAssumption DEF TypeOK, Charge

\* A write of inst leaves well-typed copies.
LEMMA WriteTypes ==
  ASSUME TypeOK, NEW o \in Object, NEW allowed, NEW next \in Steps,
         WriteInst(o, allowed, next)
  PROVE  /\ srv' \in Object /\ stream' \subseteq Object /\ inst' \in Object
         /\ pc' \in Steps /\ queued' \in BOOLEAN /\ faults' \in 0 .. MaxFaults
<1>1. PICK out \in Outcomes :
        /\ Charge(out)
        /\ Store(o) \/ UNCHANGED server
        /\ (inst' = srv' /\ Goto(next)) \/ Requeue
  BY DEF WriteInst
<1>2. srv' \in Object /\ stream' \subseteq Object
  BY <1>1, StoreFacts DEF TypeOK, server
<1>3. inst' \in Object /\ pc' \in Steps /\ queued' \in BOOLEAN
  BY <1>1, <1>2, AbsentFacts DEF Goto, Requeue, Steps, TypeOK
<1> QED BY <1>1, <1>2, <1>3, ChargeFacts

\* Reconcile's step from the cache to the deletion check.
LEMMA EntryTypes ==
  TypeOK /\ (Begin \/ InitStatus \/ RefetchInit \/ AddFinalizer) => TypeOK'
<1> SUFFICES ASSUME TypeOK, Begin \/ InitStatus \/ RefetchInit \/ AddFinalizer
             PROVE TypeOK'
  OBVIOUS
<1>0. Absent(0) \in Object
  BY AbsentFacts
<1>1. CASE Begin
  BY <1>1, <1>0 DEF Begin, TypeOK, server, grants, env, Steps
<1>2. CASE InitStatus
  <2>1. [inst EXCEPT !.avail = "Unknown"] \in Object
    BY DEF TypeOK, Object
  <2> QED BY <1>2, <2>1, WriteTypes DEF InitStatus, TypeOK, grants, env, Steps
<1>3. CASE RefetchInit
  BY <1>3, <1>0 DEF RefetchInit, TypeOK, server, grants, env, Steps, Goto, Requeue
<1>4. CASE AddFinalizer
  <2>1. [inst EXCEPT !.fin = TRUE] \in Object
    BY DEF TypeOK, Object
  <2>2. CASE inst.fin
    BY <1>4, <2>2 DEF AddFinalizer, TypeOK, server, grants, env, Steps, Goto, AfterFinalizer, Deletion, Main
  <2>3. CASE ~inst.fin
    BY <1>4, <2>1, <2>3, WriteTypes DEF AddFinalizer, TypeOK, grants, env, Steps, Main
  <2> QED BY <2>2, <2>3
<1> QED BY <1>1, <1>2, <1>3, <1>4

\* The deletion branch.
LEMMA DeletionTypes ==
  TypeOK /\ (DegradeUnknown \/ FinalizeBindings \/ FinalizeRole \/ FinalizeMetricsBinding
             \/ FinalizeMetricsRole \/ RefetchFinal \/ DegradeTrue \/ RemoveFinalizer)
    => TypeOK'
<1> SUFFICES ASSUME TypeOK,
                    DegradeUnknown \/ FinalizeBindings \/ FinalizeRole \/ FinalizeMetricsBinding
                      \/ FinalizeMetricsRole \/ RefetchFinal \/ DegradeTrue \/ RemoveFinalizer
             PROVE TypeOK'
  OBVIOUS
<1>0. Absent(0) \in Object
  BY AbsentFacts
<1>a. Deletion \subseteq Steps /\ "idle" \in Steps
  BY DEF Steps
<1>b. inst.tracked \in [Families -> SUBSET NS] /\ "disc" \in Families /\ "mon" \in Families
  BY DEF TypeOK, Object, Families
<1>1. CASE DegradeUnknown
  <2>1. [inst EXCEPT !.degr = "Unknown"] \in Object
    BY DEF TypeOK, Object
  <2> QED BY <1>1, <1>a, <1>b, <2>1, WriteTypes DEF DegradeUnknown, TypeOK, grants, env, Deletion
<1>2. CASE FinalizeBindings
  <2>1. CASE todo = {} /\ Continue("finRole") /\ UNCHANGED <<todo, bindings, faults>>
    BY <1>2, <2>1, <1>a DEF FinalizeBindings, TypeOK, server, env, Continue, Goto, Deletion
  <2>2. CASE \E n \in todo, out \in Outcomes :
               /\ Charge(out)
               /\ bindings' = IF out = "error" THEN bindings
                              ELSE [bindings EXCEPT ![fam] = @ \ {n}]
               /\ todo' = todo \ {n}
               /\ IF out = "ok" THEN Continue("finBindings") ELSE Requeue
    BY <1>2, <2>2, <1>a, <1>0, ChargeFacts
       DEF FinalizeBindings, TypeOK, server, env, Continue, Goto, Requeue, Deletion
  <2> QED BY <1>2, <2>1, <2>2 DEF FinalizeBindings
<1>3. CASE FinalizeRole
  <2>1. PICK out \in Outcomes :
          /\ Charge(out)
          /\ croles' = IF out = "error" THEN croles ELSE croles \ {fam}
          /\ \/ Requeue /\ UNCHANGED <<fam, todo>>
             \/ Continue("finBindings") /\ fam' = "mon" /\ todo' = inst.tracked["mon"]
             \/ Continue("finMetricsBinding") /\ UNCHANGED <<fam, todo>>
    BY <1>3 DEF FinalizeRole
  <2>2. inst' \in Object /\ pc' \in Steps /\ queued' \in BOOLEAN
    BY <2>1, <1>a, <1>0 DEF TypeOK, Continue, Goto, Requeue, Deletion
  <2>3. fam' \in Families /\ todo' \subseteq NS /\ croles' \subseteq Families
    BY <2>1, <1>b DEF TypeOK
  <2> QED BY <1>3, <2>1, <2>2, <2>3, ChargeFacts DEF FinalizeRole, TypeOK, server, env
<1>4. CASE FinalizeMetricsBinding
  BY <1>4, <1>a, ChargeFacts, ConstantsAssumption
     DEF FinalizeMetricsBinding, TypeOK, server, env, Goto, Deletion
<1>5. CASE FinalizeMetricsRole
  BY <1>5, <1>a, <1>0, ChargeFacts
     DEF FinalizeMetricsRole, TypeOK, server, env, Continue, Goto, Requeue, Deletion
<1>6. CASE RefetchFinal
  BY <1>6, <1>a, <1>0 DEF RefetchFinal, TypeOK, server, grants, env, Goto, Requeue, Deletion
<1>7. CASE DegradeTrue
  <2>1. [inst EXCEPT !.degr = "True"] \in Object
    BY DEF TypeOK, Object
  <2> QED BY <1>7, <1>a, <2>1, WriteTypes DEF DegradeTrue, TypeOK, grants, env, Deletion
<1>8. CASE RemoveFinalizer
  <2>1. [inst EXCEPT !.fin = FALSE] \in Object
    BY DEF TypeOK, Object
  <2>2. PICK out \in Outcomes :
          /\ Charge(out)
          /\ Store([inst EXCEPT !.fin = FALSE]) \/ UNCHANGED server
          /\ Done \/ Requeue
    BY <1>8 DEF RemoveFinalizer
  <2>3. srv' \in Object /\ stream' \subseteq Object
    BY <2>1, <2>2, StoreFacts DEF TypeOK, server
  <2> QED BY <1>8, <1>a, <1>0, <2>2, <2>3, ChargeFacts
          DEF RemoveFinalizer, TypeOK, grants, env, Done, Requeue
<1> QED BY <1>1, <1>2, <1>3, <1>4, <1>5, <1>6, <1>7, <1>8

\* failAvailable keeps inst an Object.
LEMMA FailTypes ==
  ASSUME TypeOK, Fail
  PROVE  inst' \in Object /\ pc' \in Steps /\ queued' \in BOOLEAN
BY DEF TypeOK, Fail, Goto, Object, Steps, Main

\* reconcileAllDashboardRBAC up to the two families.
LEMMA MetricsTypes ==
  TypeOK /\ (OwnRBAC \/ Metrics \/ MetricsRole \/ MetricsBinding
             \/ DropMetricsBinding \/ DropMetricsRole) => TypeOK'
<1> SUFFICES ASSUME TypeOK,
                    OwnRBAC \/ Metrics \/ MetricsRole \/ MetricsBinding
                      \/ DropMetricsBinding \/ DropMetricsRole
             PROVE TypeOK'
  OBVIOUS
<1>a. Main \subseteq Steps /\ "disc" \in Families
  BY DEF Steps, Families
<1>b. ASSUME NEW obj \in MetricsObjects, NEW next \in Main, EnsureMetrics(obj, next)
      PROVE  /\ inst' \in Object /\ pc' \in Steps /\ queued' \in BOOLEAN
             /\ metrics' \subseteq MetricsObjects /\ faults' \in 0 .. MaxFaults
  <2>1. CASE obj \in SeenMetrics
    BY <1>a, <1>b, <2>1 DEF EnsureMetrics, Goto, TypeOK
  <2>2. CASE obj \notin SeenMetrics
    BY <1>a, <1>b, <2>2, ChargeFacts, FailTypes DEF EnsureMetrics, Continue, Goto, TypeOK
  <2> QED BY <2>1, <2>2
<1>1. CASE OwnRBAC
  BY <1>1, <1>a, ChargeFacts, FailTypes
     DEF OwnRBAC, Continue, Goto, TypeOK, server, grants, env, Main
<1>2. CASE Metrics
  BY <1>2, <1>a DEF Metrics, Goto, TypeOK, server, grants, env, Main
<1>3. CASE MetricsRole
  BY <1>3, <1>b DEF MetricsRole, TypeOK, server, env, Main, MetricsObjects
<1>4. CASE MetricsBinding
  BY <1>4, <1>a, <1>b DEF MetricsBinding, TypeOK, server, env, Main, MetricsObjects
<1>5. CASE DropMetricsBinding
  BY <1>5, <1>a, ChargeFacts, ConstantsAssumption
     DEF DropMetricsBinding, Goto, TypeOK, server, env, Main
<1>6. CASE DropMetricsRole
  BY <1>6, <1>a, ChargeFacts, FailTypes
     DEF DropMetricsRole, Continue, Goto, TypeOK, server, env, Main
<1> QED BY <1>1, <1>2, <1>3, <1>4, <1>5, <1>6

\* The namespaces a family asks for are namespaces.
LEMMA DesiredType ==
  ASSUME NEW spec \in SpecType, NEW f \in Families
  PROVE  Desired(spec, f) \subseteq NS
BY DEF Desired, SpecType

\* The two families of cross-namespace grants.
LEMMA FamilyTypes ==
  TypeOK /\ (Family \/ DropBindings \/ DropRole \/ EnsureRole \/ Persist \/ Bind \/ Unbind)
    => TypeOK'
<1> SUFFICES ASSUME TypeOK,
                    Family \/ DropBindings \/ DropRole \/ EnsureRole \/ Persist \/ Bind \/ Unbind
             PROVE TypeOK'
  OBVIOUS
<1>a. Main \subseteq Steps /\ "mon" \in Families
  BY DEF Steps, Families
<1>b. inst.tracked[fam] \subseteq NS /\ inst.spec \in SpecType /\ Desired(inst.spec, fam) \subseteq NS
  BY DesiredType DEF TypeOK, Object
<1>c. ASSUME NEW T, T \subseteq NS
      PROVE  [inst EXCEPT !.tracked[fam] = T] \in Object
  BY <1>c DEF TypeOK, Object
<1>d. ASSUME NextFamily
      PROVE  fam' \in Families /\ pc' \in Steps /\ queued' \in BOOLEAN
  BY <1>a, <1>d DEF NextFamily, Goto, TypeOK, Main
<1>1. CASE Family
  BY <1>1, <1>a, <1>b DEF Family, Goto, TypeOK, server, grants, env, Main
<1>2. CASE DropBindings
  <2>1. CASE /\ todo = {}
             /\ inst' = [inst EXCEPT !.tracked[fam] = {}]
             /\ Goto("dropRole")
             /\ UNCHANGED <<todo, bindings, faults>>
    <3>1. inst' \in Object
      BY <2>1, <1>c
    <3> QED BY <1>2, <2>1, <3>1, <1>a DEF DropBindings, Goto, TypeOK, server, env, Main
  <2>2. CASE \E n \in todo, out \in Outcomes :
               /\ Charge(out)
               /\ bindings' = IF out = "error" THEN bindings
                              ELSE [bindings EXCEPT ![fam] = @ \ {n}]
               /\ todo' = todo \ {n}
               /\ IF out = "ok" THEN Continue("dropBindings") ELSE Fail
    BY <1>2, <2>2, <1>a, ChargeFacts, FailTypes
       DEF DropBindings, Continue, Goto, TypeOK, server, env, Main
  <2> QED BY <1>2, <2>1, <2>2 DEF DropBindings
<1>3. CASE DropRole
  <2>1. PICK out \in Outcomes :
          /\ Charge(out)
          /\ croles' = IF out = "error" THEN croles ELSE croles \ {fam}
          /\ \/ NextFamily /\ UNCHANGED inst
             \/ Fail /\ UNCHANGED fam
    BY <1>3 DEF DropRole
  <2>2. fam' \in Families /\ pc' \in Steps /\ queued' \in BOOLEAN /\ inst' \in Object
    BY <2>1, <1>d, FailTypes DEF TypeOK
  <2> QED BY <1>3, <2>1, <2>2, ChargeFacts DEF DropRole, TypeOK, server, env
<1>4. CASE EnsureRole
  <2>1. CASE fam \in SeenRoles
    BY <1>4, <2>1, <1>a DEF EnsureRole, Goto, TypeOK, server, env, Main
  <2>2. CASE fam \notin SeenRoles
    BY <1>4, <2>2, <1>a, ChargeFacts, FailTypes
       DEF EnsureRole, Continue, Goto, TypeOK, server, env, Main
  <2> QED BY <2>1, <2>2
<1>5. CASE Persist
  <2> DEFINE o == [inst EXCEPT !.tracked[fam] = @ \cup Desired(inst.spec, fam)]
  <2>1. o \in Object
    <3>1. o = [inst EXCEPT !.tracked[fam] = inst.tracked[fam] \cup Desired(inst.spec, fam)]
      BY DEF TypeOK, Object
    <3> QED BY <3>1, <1>b, <1>c
  <2>2. [o EXCEPT !.avail = "False"] \in Object
    BY <2>1 DEF Object
  <2>3. PICK out \in Outcomes :
          /\ Charge(out)
          /\ Store(o) \/ UNCHANGED server
          /\ \/ inst' = srv' /\ Goto("bind")
             \/ inst' = [o EXCEPT !.avail = "False"] /\ Goto("finish")
    BY <1>5 DEF Persist, PersistInst
  <2> HIDE DEF o
  <2>4. srv' \in Object /\ stream' \subseteq Object
    BY <2>1, <2>3, StoreFacts DEF TypeOK, server
  <2>5. inst' \in Object /\ pc' \in Steps /\ queued' \in BOOLEAN
    BY <2>2, <2>3, <2>4, <1>a DEF Goto, TypeOK, Main
  <2> QED BY <1>5, <1>b, <2>3, <2>4, <2>5, ChargeFacts DEF Persist, TypeOK, grants, env
<1>6. CASE Bind
  <2>1. CASE /\ todo = {}
             /\ Goto("unbind")
             /\ todo' = inst.tracked[fam] \ Desired(inst.spec, fam)
             /\ UNCHANGED <<inst, bindings, faults>>
    BY <1>6, <2>1, <1>a, <1>b DEF Bind, Goto, TypeOK, server, env, Main
  <2>2. ASSUME NEW n \in todo, todo' = todo \ {n}, n \in SeenBindings[fam],
               Goto("bind"), UNCHANGED <<inst, bindings, faults>>
        PROVE  TypeOK'
    <3>1. todo' \subseteq NS /\ pc' \in Steps /\ queued' \in BOOLEAN
      BY <2>2, <1>a DEF Goto, TypeOK, Main
    <3> QED BY <1>6, <2>2, <3>1 DEF Bind, TypeOK, server, env
  <2>3. ASSUME NEW n \in todo, todo' = todo \ {n}, NEW out \in Outcomes, Charge(out),
               bindings' = IF out = "error" \/ n \in Missing THEN bindings
                           ELSE [bindings EXCEPT ![fam] = @ \cup {n}],
               Continue("bind") \/ Fail
        PROVE  TypeOK'
    BY <1>6, <2>3, <1>a, ChargeFacts, FailTypes
       DEF Bind, Continue, Goto, TypeOK, server, env, Main
  <2> QED BY <1>6, <2>1, <2>2, <2>3 DEF Bind
<1>7. CASE Unbind
  <2>1. CASE /\ todo = {}
             /\ inst' = [inst EXCEPT !.tracked[fam] = Desired(inst.spec, fam)]
             /\ NextFamily
             /\ UNCHANGED <<todo, bindings, faults>>
    <3>1. inst' \in Object
      BY <2>1, <1>b, <1>c
    <3> QED BY <1>7, <2>1, <3>1, <1>d DEF Unbind, TypeOK, server, env
  <2>2. CASE \E n \in todo, out \in Outcomes :
               /\ Charge(out)
               /\ bindings' = IF out = "error" THEN bindings
                              ELSE [bindings EXCEPT ![fam] = @ \ {n}]
               /\ todo' = todo \ {n}
               /\ IF out = "ok" THEN Continue("unbind") ELSE Fail
               /\ UNCHANGED fam
    BY <1>7, <2>2, <1>a, ChargeFacts, FailTypes
       DEF Unbind, Continue, Goto, TypeOK, server, env, Main
  <2> QED BY <1>7, <2>1, <2>2 DEF Unbind
<1> QED BY <1>1, <1>2, <1>3, <1>4, <1>5, <1>6, <1>7

\* The end of Reconcile, the watches and crashes.
LEMMA RestTypes ==
  TypeOK /\ (Pipeline \/ Finish \/ Deliver \/ SyncGrants \/ Crash) => TypeOK'
<1> SUFFICES ASSUME TypeOK, Pipeline \/ Finish \/ Deliver \/ SyncGrants \/ Crash
             PROVE TypeOK'
  OBVIOUS
<1>0. Absent(0) \in Object
  BY AbsentFacts
<1>a. Main \subseteq Steps /\ "idle" \in Steps /\ "disc" \in Families
  BY DEF Steps, Families
<1>1. CASE Pipeline
  <2>1. health' \in Health
    BY <1>1, ConstantsAssumption DEF Pipeline, TypeOK
  <2>2. [cache EXCEPT !.avail = "False"] \in Object /\ [inst EXCEPT !.avail = "True"] \in Object
    BY DEF TypeOK, Object
  <2>3. inst' \in Object /\ pc' \in Steps /\ queued' \in BOOLEAN
    BY <1>1, <1>0, <1>a, <2>2, FailTypes DEF Pipeline, TypeOK, Goto, Requeue, Main
  <2> QED BY <1>1, <2>1, <2>3 DEF Pipeline, TypeOK, server, grants
<1>2. CASE Finish
  <2>1. PICK out \in Outcomes :
          /\ Charge(out)
          /\ Store(inst) \/ UNCHANGED server
          /\ Done \/ Requeue
    BY <1>2 DEF Finish
  <2>2. srv' \in Object /\ stream' \subseteq Object
    BY <2>1, StoreFacts DEF TypeOK, server
  <2> QED BY <1>2, <1>0, <1>a, <2>1, <2>2, ChargeFacts
          DEF Finish, TypeOK, grants, env, Done, Requeue
<1>3. CASE Deliver
  BY <1>3 DEF Deliver, TypeOK, grants, env
<1>4. CASE SyncGrants
  BY <1>4 DEF SyncGrants, TypeOK, server, grants, env
<1>5. CASE Crash
  <2>1. faults' \in 0 .. MaxFaults
    BY <1>5, ConstantsAssumption DEF Crash, TypeOK
  <2> QED BY <1>5, <1>0, <1>a, <2>1 DEF Crash, TypeOK, grants, env
<1> QED BY <1>1, <1>2, <1>3, <1>4, <1>5

\* What users and the rest of the cluster do.
LEMMA UserTypes ==
  TypeOK /\ Users => TypeOK'
<1> SUFFICES ASSUME TypeOK, Users
             PROVE TypeOK'
  OBVIOUS
<1>a. ASSUME Spend
      PROVE  edits' \in 0 .. MaxEdits
  BY <1>a, ConstantsAssumption DEF Spend, TypeOK
<1>1. CASE Create
  <2>1. PICK s \in Specs : Store(Fresh(s, srv.rv))
    BY <1>1 DEF Create
  <2>2. Fresh(s, srv.rv) \in Object
    BY ConstantsAssumption DEF Fresh, Object, None, TypeOK
  <2>3. srv' \in Object /\ stream' \subseteq Object
    BY <2>1, <2>2, StoreFacts
  <2> QED BY <1>1, <1>a, <2>3 DEF Create, TypeOK, grants
<1>2. CASE Edit
  <2>1. PICK s \in Specs : Store([srv EXCEPT !.spec = s])
    BY <1>2 DEF Edit
  <2>2. [srv EXCEPT !.spec = s] \in Object
    BY ConstantsAssumption DEF Object, TypeOK
  <2>3. srv' \in Object /\ stream' \subseteq Object
    BY <2>1, <2>2, StoreFacts
  <2> QED BY <1>2, <1>a, <2>3 DEF Edit, TypeOK, grants
<1>3. CASE Delete
  <2>1. PICK fg \in {FALSE, Foreground} :
          Store([srv EXCEPT !.deleting = TRUE, !.otherFin = fg])
    BY <1>3 DEF Delete
  <2>2. [srv EXCEPT !.deleting = TRUE, !.otherFin = fg] \in Object
    BY ConstantsAssumption DEF Object, TypeOK
  <2>3. srv' \in Object /\ stream' \subseteq Object
    BY <2>1, <2>2, StoreFacts
  <2> QED BY <1>3, <1>a, <2>3 DEF Delete, TypeOK, grants
<1>4. CASE DropOtherFinalizer
  <2>1. [srv EXCEPT !.otherFin = FALSE] \in Object
    BY DEF Object, TypeOK
  <2>2. srv' \in Object /\ stream' \subseteq Object
    BY <1>4, <2>1, StoreFacts DEF DropOtherFinalizer
  <2> QED BY <1>4, <2>2 DEF DropOtherFinalizer, TypeOK, grants, env
<1>5. CASE ToggleWidget
  BY <1>5, <1>a DEF ToggleWidget, TypeOK, server, grants
<1>6. CASE ChangeHealth
  BY <1>6, <1>a, ConstantsAssumption DEF ChangeHealth, TypeOK, server, grants
<1> QED BY <1>1, <1>2, <1>3, <1>4, <1>5, <1>6 DEF Users

\* Every step keeps the type invariant.
LEMMA NextTypes ==
  TypeOK /\ [Next]_vars => TypeOK'
<1>1. TypeOK /\ Next => TypeOK'
  BY EntryTypes, DeletionTypes, MetricsTypes, FamilyTypes, RestTypes, UserTypes
     DEF Next, Reconcile, Watches
<1>2. TypeOK /\ UNCHANGED vars => TypeOK'
  BY DEF vars, TypeOK
<1> QED BY <1>1, <1>2

LEMMA InitTypes ==
  Init => TypeOK
<1> SUFFICES ASSUME Init PROVE TypeOK
  OBVIOUS
<1>1. Absent(0) \in Object
  BY AbsentFacts
<1>2. None \in [Families -> SUBSET NS]
  BY DEF None
<1>3. /\ srv \in Object /\ stream \subseteq Object /\ cache \in Object /\ inst \in Object
      /\ pc \in Steps /\ fam \in Families /\ todo \subseteq NS /\ queued \in BOOLEAN
  BY <1>1 DEF Init, Steps, Families
<1>4. /\ bindings \in [Families -> SUBSET NS]
      /\ croles \subseteq Families /\ metrics \subseteq MetricsObjects
      /\ seen \in [bindings : [Families -> SUBSET NS], roles : SUBSET Families,
                   metrics : SUBSET MetricsObjects]
  BY <1>2 DEF Init
<1>5. widget \in BOOLEAN /\ health \in Health
  BY DEF Init, Health
<1>6. edits \in 0 .. MaxEdits /\ faults \in 0 .. MaxFaults
  <2>1. MaxEdits \in Nat /\ MaxFaults \in Nat
    BY ConstantsAssumption
  <2> QED BY <2>1 DEF Init
<1> QED BY <1>3, <1>4, <1>5, <1>6 DEF TypeOK

\* Type correctness: every variable of the model, among them every version of
\* the Dashboard that the server, the watch, the cache and Reconcile hold, stays
\* in its type.
THEOREM TypeCorrect == Spec => []TypeOK
<1> QED BY InitTypes, NextTypes, PTL DEF Spec
-----------------------------------------------------------------------------
(***************************************************************************)
(* Safety: Reconcile records every RoleBinding it creates in another       *)
(* namespace and no grant outlives the finalizer, whether or not the RBAC  *)
(* informers lag; and what holds when nothing is left to do.               *)
(***************************************************************************)
\* The part of IInv that does not mention a running reconcile.
ServerInv ==
  /\ BindingsTracked
  /\ NoOrphanedGrants
  /\ srv.live /\ srv.deleting => srv.fin \/ srv.otherFin
  /\ cache.rv <= srv.rv
  /\ cache.rv = srv.rv => cache = srv
  /\ \A v \in stream : cache.rv < v.rv /\ v.rv <= srv.rv /\ (v.rv = srv.rv => v = srv)
  /\ \A v \in stream \cup {cache} : Inviting(v) => Guarded

\* Some RoleBindings, ClusterRoles and metrics objects go, none comes.
GrantsShrink ==
  /\ \A f \in Families : bindings'[f] \subseteq bindings[f]
  /\ croles' \subseteq croles
  /\ metrics' \subseteq metrics

\* Functions on Families that are empty everywhere are None.
LEMMA NoneFacts ==
  ASSUME NEW b \in [Families -> SUBSET NS], \A f \in Families : b[f] = {}
  PROVE  b = None
BY DEF None

LEMMA IInvServer ==
  IInv => ServerInv
BY DEF IInv, VersionsInv, GuardInv, ServerInv

\* After a step that ends a reconcile, ServerInv is all there is to IInv.
LEMMA IdleInv ==
  ASSUME TypeOK', ServerInv', pc' = "idle"
  PROVE  IInv'
BY DEF IInv, ServerInv, VersionsInv, GuardInv, RecordInv, FinalizeInv, Main, Deletion

\* Deleting grants disturbs nothing on the server's side.
LEMMA ShrinkServer ==
  ASSUME IInv, TypeOK', UNCHANGED <<server, cache>>, GrantsShrink
  PROVE  ServerInv'
<1>1. BindingsTracked'
  BY DEF IInv, BindingsTracked, GrantsShrink, server
<1>2. NoOrphanedGrants'
  <2>1. SUFFICES ASSUME ~(srv.live /\ srv.fin)
                 PROVE bindings' = None /\ croles' = {} /\ metrics' = {}
    BY DEF NoOrphanedGrants, server
  <2>2. bindings = None /\ croles = {} /\ metrics = {}
    BY <2>1 DEF IInv, NoOrphanedGrants
  <2>3. \A f \in Families : bindings'[f] = {}
    BY <2>2 DEF GrantsShrink, None
  <2> QED BY <2>2, <2>3, NoneFacts DEF GrantsShrink, TypeOK
<1> QED BY <1>1, <1>2 DEF IInv, VersionsInv, GuardInv, ServerInv, Guarded, Inviting, server

\* A reconcile that ends without a write and without a new grant.
LEMMA EndStep ==
  ASSUME IInv, TypeOK', UNCHANGED <<server, cache>>, GrantsShrink, pc' = "idle"
  PROVE  IInv'
BY ShrinkServer, IdleInv

\* A step of the RBAC reconcile: what is left to show is about the record.
LEMMA MainStep ==
  ASSUME IInv, TypeOK', pc \in Main, pc' \in Main, UNCHANGED <<server, cache>>,
         inst'.rv = inst.rv, inst'.live = inst.live, inst'.spec = inst.spec,
         inst'.fin = inst.fin, inst'.otherFin = inst.otherFin,
         inst'.deleting = inst.deleting,
         BindingsTracked', RecordInv'
  PROVE  IInv'
<1>1. Guarded /\ Guarded'
  BY DEF IInv, GuardInv, Guarded, server
<1>2. pc # "idle" /\ pc' # "idle"
  BY DEF Main
<1>3. NoOrphanedGrants'
  BY <1>1 DEF NoOrphanedGrants, Guarded
<1>4. VersionsInv'
  BY <1>2 DEF IInv, VersionsInv, CopyOfSrv, server, Main
<1>5. GuardInv'
  BY <1>1 DEF IInv, GuardInv, Guarded, Inviting, server, Main, Deletion
<1>6. FinalizeInv'
  BY DEF FinalizeInv, Main
<1> QED BY <1>3, <1>4, <1>5, <1>6 DEF IInv

\* A step of the main branch that creates no RoleBinding, leaves the record
\* alone and enters no loop over namespaces.
LEMMA QuietMain ==
  ASSUME IInv, TypeOK', pc \in Main, pc' \in Main \ {"bind", "unbind", "dropBindings"},
         UNCHANGED <<server, cache>>,
         inst'.rv = inst.rv, inst'.live = inst.live, inst'.spec = inst.spec,
         inst'.fin = inst.fin, inst'.otherFin = inst.otherFin,
         inst'.deleting = inst.deleting, inst'.tracked = inst.tracked,
         \A f \in Families : bindings'[f] \subseteq bindings[f]
  PROVE  IInv'
<1>1. BindingsTracked'
  BY DEF IInv, BindingsTracked, server
<1>2. pc # "idle"
  BY DEF Main
<1>3. RecordInv'
  BY <1>2 DEF IInv, RecordInv, server
<1> QED BY <1>1, <1>3, MainStep

\* A step of the finalizer that only deletes grants: what is left to show is
\* how far the finalizer has come.
LEMMA FinStep ==
  ASSUME IInv, TypeOK', UNCHANGED <<server, cache, inst>>, GrantsShrink,
         pc \in Deletion \ {"degradeUnknown"}, pc' \in Deletion \ {"degradeUnknown"},
         FinalizeInv'
  PROVE  IInv'
<1>1. ServerInv'
  BY ShrinkServer DEF server
<1>2. pc # "idle" /\ pc' # "idle" /\ pc \notin Main /\ pc' \notin Main
  BY DEF Deletion, Main
<1>3. VersionsInv'
  BY <1>1, <1>2 DEF ServerInv, IInv, VersionsInv, CopyOfSrv, server, Deletion
<1>4. GuardInv'
  BY <1>1, <1>2 DEF ServerInv, IInv, GuardInv, Guarded, Inviting, server, Deletion
<1>5. RecordInv'
  BY <1>2 DEF IInv, RecordInv, GrantsShrink, server, Deletion
<1> QED BY <1>1, <1>3, <1>4, <1>5 DEF ServerInv, IInv

\* Reading the Dashboard again from the cache before the deletion check.
LEMMA LoadStep ==
  ASSUME IInv, TypeOK', UNCHANGED <<server, cache, bindings, croles, metrics>>,
         cache.live, inst' = cache, pc' \in {"initStatus", "addFinalizer"}
  PROVE  IInv'
<1>1. ServerInv'
  BY ShrinkServer DEF GrantsShrink
<1>2. pc' # "idle" /\ pc' \notin Main /\ pc' \notin Deletion
  BY DEF Main, Deletion
<1>3. VersionsInv'
  BY <1>1, <1>2 DEF ServerInv, VersionsInv, CopyOfSrv, TypeOK, Object
<1>4. GuardInv'
  BY <1>1, <1>2 DEF ServerInv, GuardInv, Deletion
<1>5. RecordInv'
  BY <1>1 DEF ServerInv, RecordInv, BindingsTracked
<1>6. FinalizeInv'
  BY DEF FinalizeInv
<1> QED BY <1>1, <1>3, <1>4, <1>5, <1>6 DEF ServerInv, IInv

\* A write keeps the order of the versions.
LEMMA StoreOrder ==
  ASSUME IInv, NEW o \in Object, Store(o), UNCHANGED cache
  PROVE  /\ srv'.live /\ srv'.deleting => srv'.fin \/ srv'.otherFin
         /\ cache'.rv <= srv'.rv
         /\ cache'.rv = srv'.rv => cache' = srv'
         /\ \A v \in stream' : cache'.rv < v.rv /\ v.rv <= srv'.rv /\ (v.rv = srv'.rv => v = srv')
         /\ stream' \subseteq stream \cup {srv'}
         /\ srv'.rv >= srv.rv /\ (srv'.rv = srv.rv => srv' = srv)
<1>1. TypeOK /\ srv.rv \in Nat /\ cache.rv \in Nat /\ \A v \in stream : v.rv \in Nat
  BY DEF IInv, TypeOK, Object
<1>2. CASE o = srv /\ srv' = srv /\ stream' = stream
  BY <1>1, <1>2 DEF IInv, VersionsInv
<1>3. CASE srv'.rv = srv.rv + 1 /\ stream' = stream \cup {srv'}
  <2>1. srv'.live /\ srv'.deleting => srv'.fin \/ srv'.otherFin
    <3>1. CASE o.deleting /\ ~o.fin /\ ~o.otherFin
      <4>1. srv' = Absent(srv.rv + 1) \/ o = srv
        BY <1>1, <3>1, StoreFacts
      <4> QED BY <1>1, <1>3, <3>1, <4>1, AbsentFacts, StoreFacts
    <3>2. CASE ~(o.deleting /\ ~o.fin /\ ~o.otherFin)
      <4>1. srv' = [o EXCEPT !.rv = srv.rv + 1]
        BY <1>1, <1>3, <3>2, StoreFacts
      <4> QED BY <3>2, <4>1 DEF Object
    <3> QED BY <3>1, <3>2
  <2>2. \A v \in stream : cache.rv < v.rv /\ v.rv < srv'.rv
    BY <1>1, <1>3 DEF IInv, VersionsInv
  <2>3. cache.rv < srv'.rv
    BY <1>1, <1>3 DEF IInv, VersionsInv
  <2> QED BY <1>1, <1>3, <2>1, <2>2, <2>3
<1> QED BY <1>1, <1>2, <1>3, StoreFacts

\* A write by Reconcile that keeps the finalizer and forgets no RoleBinding.
LEMMA ManagerStore ==
  ASSUME IInv, TypeOK', pc # "idle", CanWrite, NEW o \in Object, Store(o),
         UNCHANGED <<cache, bindings, croles, metrics>>,
         o.live, srv.fin => o.fin, o.otherFin = srv.otherFin, o.deleting = srv.deleting,
         o.fin # srv.fin => ~srv.deleting,
         \A f \in Families : bindings[f] \subseteq o.tracked[f]
  PROVE  /\ ServerInv'
         /\ srv'.live /\ srv'.spec = o.spec /\ srv'.fin = o.fin /\ srv'.otherFin = o.otherFin
         /\ srv'.deleting = o.deleting /\ srv'.tracked = o.tracked
<1>1. TypeOK /\ srv.live
  BY DEF IInv, CanWrite
<1>2. ~(o.deleting /\ ~o.fin /\ ~o.otherFin)
  BY <1>1 DEF IInv, VersionsInv
<1>3. (o = srv /\ srv' = srv) \/ srv' = [o EXCEPT !.rv = srv.rv + 1]
  BY <1>1, <1>2, StoreFacts
<1>4. /\ srv'.live /\ srv'.spec = o.spec /\ srv'.fin = o.fin /\ srv'.otherFin = o.otherFin
      /\ srv'.deleting = o.deleting /\ srv'.tracked = o.tracked
  BY <1>3 DEF Object
<1>5. BindingsTracked'
  BY <1>4 DEF BindingsTracked
<1>6. NoOrphanedGrants'
  BY <1>1, <1>4 DEF IInv, NoOrphanedGrants
<1>7. \A v \in stream' \cup {cache'} : Inviting(v) => Guarded'
  <2>1. Guarded => Guarded'
    BY <1>4 DEF Guarded
  <2>2. Inviting(srv') => Guarded'
    BY DEF Inviting, Guarded
  <2> QED BY <2>1, <2>2, StoreOrder DEF IInv, GuardInv
<1> QED BY <1>4, <1>5, <1>6, <1>7, StoreOrder DEF ServerInv

\* A write by a user or the garbage collector leaves the finalizer and the
\* status alone, or creates a Dashboard where there was none.
LEMMA UserStore ==
  ASSUME IInv, TypeOK', NEW o \in Object, Store(o),
         UNCHANGED <<cache, inst, pc, fam, todo, bindings, croles, metrics>>,
         \/ /\ srv.live /\ o.live /\ o.fin = srv.fin /\ o.tracked = srv.tracked
            /\ srv.deleting => o.deleting
         \/ ~srv.live /\ ~o.fin
  PROVE  IInv'
<1>1. TypeOK /\ srv.rv \in Nat /\ inst.rv \in Nat /\ cache.rv \in Nat
  BY DEF IInv, TypeOK, Object
<1>2. \/ o = srv /\ srv' = srv /\ stream' = stream
      \/ srv' = Absent(srv.rv + 1) /\ ~o.fin /\ srv'.rv = srv.rv + 1
      \/ srv' = [o EXCEPT !.rv = srv.rv + 1] /\ srv'.rv = srv.rv + 1
  BY <1>1, StoreFacts
<1>3. Guarded' = Guarded
  BY <1>1, <1>2, AbsentFacts DEF Guarded, Object
<1>4. Guarded => srv'.tracked = srv.tracked /\ (srv.deleting => srv'.deleting)
  BY <1>1, <1>2 DEF Guarded, Object
<1>5. NoOrphanedGrants'
  BY <1>3 DEF IInv, NoOrphanedGrants, Guarded
<1>6. BindingsTracked'
  BY <1>1, <1>3, <1>4, <1>5 DEF IInv, BindingsTracked, NoOrphanedGrants, Guarded, TypeOK, Object, None
<1>7. Inviting(srv') => Guarded'
  BY DEF Inviting, Guarded
<1>8. srv' # srv => inst.rv # srv'.rv \/ pc = "idle"
  BY <1>1, <1>2, StoreOrder DEF IInv, VersionsInv
<1>9. VersionsInv'
  <2>1. srv'.rv \in Nat
    BY DEF TypeOK, Object
  <2>2. pc # "idle" => inst.live /\ inst.rv <= srv'.rv
    BY <1>1, <2>1, StoreOrder DEF IInv, VersionsInv
  <2>3. pc # "idle" /\ inst.rv = srv'.rv => CopyOfSrv'
    BY <1>8 DEF IInv, VersionsInv, CopyOfSrv
  <2> QED BY <2>2, <2>3, StoreOrder DEF IInv, VersionsInv
<1>10. GuardInv'
  BY <1>3, <1>4, <1>7, StoreOrder DEF IInv, GuardInv, Inviting, Guarded
<1>11. RecordInv'
  BY <1>1, <1>3, <1>4, <1>8 DEF IInv, RecordInv, GuardInv, Main
<1>12. FinalizeInv'
  BY DEF IInv, FinalizeInv
<1> QED BY <1>5, <1>6, <1>9, <1>10, <1>11, <1>12 DEF IInv

\* A write of inst either ends the reconcile, with IInv, or is stored and goes on.
LEMMA WriteStep ==
  ASSUME IInv, TypeOK', pc # "idle", NEW o \in Object, NEW allowed, NEW next,
         WriteInst(o, allowed, next),
         UNCHANGED <<cache, bindings, croles, metrics>>,
         CanWrite /\ allowed =>
           /\ o.live /\ (srv.fin => o.fin) /\ o.otherFin = srv.otherFin
           /\ o.deleting = srv.deleting /\ (o.fin # srv.fin => ~srv.deleting)
           /\ \A f \in Families : bindings[f] \subseteq o.tracked[f]
  PROVE  \/ IInv'
         \/ /\ CanWrite /\ allowed /\ Store(o) /\ ServerInv'
            /\ inst' = srv' /\ pc' = next
            /\ srv'.live /\ srv'.spec = o.spec /\ srv'.fin = o.fin
            /\ srv'.otherFin = o.otherFin /\ srv'.deleting = o.deleting
            /\ srv'.tracked = o.tracked
<1>1. CASE UNCHANGED server /\ Requeue
  BY <1>1, EndStep DEF Requeue, GrantsShrink, server
<1>2. CASE CanWrite /\ allowed /\ Store(o) /\ Requeue
  BY <1>2, ManagerStore, IdleInv DEF Requeue
<1>3. CASE CanWrite /\ allowed /\ Store(o) /\ inst' = srv' /\ Goto(next)
  BY <1>3, ManagerStore DEF Goto
<1> QED BY <1>1, <1>2, <1>3 DEF WriteInst

\* After a stored write inst is the stored version.
LEMMA WrittenInst ==
  ASSUME TypeOK', ServerInv', srv'.live, inst' = srv'
  PROVE  /\ inst'.live /\ inst'.rv <= srv'.rv /\ CopyOfSrv'
         /\ \A f \in Families : bindings'[f] \subseteq inst'.tracked[f]
<1>1. srv'.rv \in Nat
  BY DEF TypeOK, Object
<1>2. CopyOfSrv'
  BY DEF CopyOfSrv
<1> QED BY <1>1, <1>2 DEF ServerInv, BindingsTracked

\* From the cache to the deletion check.
LEMMA EntrySteps ==
  ASSUME IInv, TypeOK', Begin \/ InitStatus \/ RefetchInit \/ AddFinalizer
  PROVE  IInv'
<1>a. TypeOK /\ inst.rv \in Nat /\ srv.rv \in Nat
  BY DEF IInv, TypeOK, Object
<1>1. CASE Begin
  <2>1. CASE cache.live
    BY <1>1, <2>1, LoadStep DEF Begin, grants
  <2>2. CASE ~cache.live
    BY <1>1, <2>2, EndStep DEF Begin, grants, GrantsShrink
  <2> QED BY <2>1, <2>2
<1>2. CASE InitStatus
  <2> DEFINE o == [inst EXCEPT !.avail = "Unknown"]
  <2>1. /\ o \in Object /\ o.live = inst.live /\ o.fin = inst.fin /\ o.otherFin = inst.otherFin
        /\ o.deleting = inst.deleting /\ o.tracked = inst.tracked /\ o.spec = inst.spec
    BY <1>a DEF TypeOK, Object
  <2>2. WriteInst(o, TRUE, "refetchInit") /\ UNCHANGED <<cache, bindings, croles, metrics>> /\ pc # "idle"
    BY <1>2 DEF InitStatus, grants
  <2> HIDE DEF o
  <2>3. CanWrite => /\ o.live /\ o.fin = srv.fin /\ o.otherFin = srv.otherFin
                    /\ o.deleting = srv.deleting
                    /\ \A f \in Families : bindings[f] \subseteq o.tracked[f]
    BY <2>1, <2>2 DEF IInv, VersionsInv, RecordInv, CopyOfSrv, CanWrite
  <2>4. CASE ServerInv' /\ srv'.live /\ inst' = srv' /\ pc' = "refetchInit"
    <3>1. VersionsInv' /\ RecordInv'
      BY <2>4, WrittenInst DEF ServerInv, VersionsInv, RecordInv
    <3>2. GuardInv' /\ FinalizeInv'
      BY <2>4 DEF ServerInv, GuardInv, FinalizeInv, Main, Deletion
    <3> QED BY <2>4, <3>1, <3>2 DEF IInv, ServerInv
  <2> QED BY <2>1, <2>2, <2>3, <2>4, WriteStep
<1>3. CASE RefetchInit
  <2>1. CASE cache.live
    BY <1>3, <2>1, LoadStep DEF RefetchInit, grants, Goto
  <2>2. CASE ~cache.live
    BY <1>3, <2>2, EndStep DEF RefetchInit, grants, GrantsShrink, Requeue
  <2> QED BY <2>1, <2>2
<1>4. CASE AddFinalizer /\ inst.fin
  <2>1. UNCHANGED <<server, cache, inst, fam, todo, bindings, croles, metrics>> /\ pc = "addFinalizer"
    BY <1>4 DEF AddFinalizer, grants
  <2>2. ServerInv'
    BY <2>1, ShrinkServer DEF GrantsShrink
  <2>3. pc' = IF inst.deleting THEN "degradeUnknown" ELSE "ownRBAC"
    BY <1>4 DEF AddFinalizer, Goto, AfterFinalizer
  <2>4. VersionsInv'
    BY <2>1, <2>2, <2>3 DEF IInv, ServerInv, VersionsInv, CopyOfSrv, server
  <2>5. Guarded' = Guarded /\ inst.live
    BY <2>1 DEF Guarded, server, IInv, VersionsInv
  <2>6. GuardInv'
    BY <1>4, <2>1, <2>2, <2>3, <2>5 DEF IInv, ServerInv, GuardInv, Inviting, Main, Deletion
  <2>7. RecordInv'
    BY <2>1, <2>3 DEF IInv, RecordInv, server
  <2>8. FinalizeInv'
    BY <2>3 DEF FinalizeInv
  <2> QED BY <2>2, <2>4, <2>6, <2>7, <2>8 DEF IInv, ServerInv
<1>5. CASE AddFinalizer /\ ~inst.fin
  <2> DEFINE o == [inst EXCEPT !.fin = TRUE]
  <2>1. /\ o \in Object /\ o.live = inst.live /\ o.fin /\ o.otherFin = inst.otherFin
        /\ o.deleting = inst.deleting /\ o.tracked = inst.tracked /\ o.spec = inst.spec
    BY <1>a DEF TypeOK, Object
  <2>2. /\ WriteInst(o, ~inst.deleting, "ownRBAC")
        /\ UNCHANGED <<cache, bindings, croles, metrics>> /\ pc # "idle"
    BY <1>5 DEF AddFinalizer, grants
  <2> HIDE DEF o
  <2>3. CanWrite /\ ~inst.deleting =>
          /\ o.live /\ o.otherFin = srv.otherFin /\ o.deleting = srv.deleting /\ ~srv.deleting
          /\ \A f \in Families : bindings[f] \subseteq o.tracked[f]
    BY <2>1, <2>2 DEF IInv, VersionsInv, RecordInv, CopyOfSrv, CanWrite
  <2>4. CASE ServerInv' /\ srv'.live /\ srv'.fin /\ inst' = srv' /\ pc' = "ownRBAC"
    <3>1. VersionsInv' /\ RecordInv'
      BY <2>4, WrittenInst DEF ServerInv, VersionsInv, RecordInv
    <3>2. GuardInv' /\ FinalizeInv'
      BY <2>4 DEF ServerInv, GuardInv, FinalizeInv, Main, Deletion, Guarded
    <3> QED BY <2>4, <3>1, <3>2 DEF IInv, ServerInv
  <2> QED BY <2>1, <2>2, <2>3, <2>4, WriteStep
<1> QED BY <1>1, <1>2, <1>3, <1>4, <1>5

\* The first write of the deletion branch.  It succeeds only from the stored
\* version, so the cache holds that version and no older one, still inviting
\* the manager to grant, is left to be acted on.
LEMMA DegradeUnknownStep ==
  ASSUME IInv, TypeOK', DegradeUnknown
  PROVE  IInv'
<1> DEFINE o == [inst EXCEPT !.degr = "Unknown"]
<1>a. TypeOK /\ inst.rv \in Nat /\ srv.rv \in Nat /\ cache.rv \in Nat /\ \A v \in stream : v.rv \in Nat
  BY DEF IInv, TypeOK, Object
<1>1. /\ o \in Object /\ o.live = inst.live /\ o.fin = inst.fin /\ o.otherFin = inst.otherFin
      /\ o.deleting = inst.deleting /\ o.tracked = inst.tracked /\ o.spec = inst.spec
  BY <1>a DEF TypeOK, Object
<1>2. /\ WriteInst(o, TRUE, "finBindings")
      /\ UNCHANGED <<cache, bindings, croles, metrics>> /\ pc = "degradeUnknown"
      /\ fam' = "disc" /\ todo' = inst.tracked["disc"]
  BY DEF DegradeUnknown, grants
<1> HIDE DEF o
<1>3. CanWrite => /\ o.live /\ o.fin = srv.fin /\ o.otherFin = srv.otherFin
                  /\ o.deleting = srv.deleting
                  /\ \A f \in Families : bindings[f] \subseteq o.tracked[f]
  BY <1>1, <1>2 DEF IInv, VersionsInv, RecordInv, CopyOfSrv, CanWrite
<1>4. CASE /\ CanWrite /\ Store(o) /\ ServerInv' /\ srv'.live /\ inst' = srv' /\ pc' = "finBindings"
           /\ srv'.fin = o.fin /\ srv'.deleting = o.deleting /\ srv'.tracked = o.tracked
  <2>1. inst.fin /\ inst.deleting
    BY <1>2 DEF IInv, GuardInv
  <2>2. Guarded' /\ srv'.deleting
    BY <1>1, <1>4, <2>1 DEF Guarded
  <2>3. cache = srv /\ stream = {}
    <3>1. cache.rv = srv.rv
      BY <1>a, <1>2, <1>4 DEF IInv, VersionsInv, CanWrite
    <3> QED BY <1>a, <3>1 DEF IInv, VersionsInv
  <2>4. \A v \in stream' \cup {cache'} : ~Inviting(v)
    <3>1. stream' \subseteq {srv'}
      BY <1>1, <1>2, <1>4, <2>3, StoreOrder
    <3>2. ~Inviting(srv') /\ ~Inviting(cache')
      BY <1>1, <1>2, <1>3, <1>4, <2>1, <2>2, <2>3 DEF Inviting
    <3> QED BY <3>1, <3>2
  <2>5. VersionsInv' /\ RecordInv'
    BY <1>4, WrittenInst DEF ServerInv, VersionsInv, RecordInv
  <2>6. GuardInv'
    BY <1>4, <2>2, <2>4 DEF GuardInv, Main, Deletion
  <2>7. FinalizeInv'
    <3>1. bindings'["disc"] \subseteq todo' /\ bindings'["mon"] \subseteq inst'.tracked["mon"]
      BY <1>1, <1>2, <1>3, <1>4 DEF Families
    <3> QED BY <1>2, <1>4, <3>1 DEF FinalizeInv
  <2> QED BY <1>4, <2>5, <2>6, <2>7 DEF IInv, ServerInv
<1> QED BY <1>1, <1>2, <1>3, <1>4, WriteStep

\* The finalizer deletes the grants one by one.
LEMMA FinalizeSteps ==
  ASSUME IInv, TypeOK',
         FinalizeBindings \/ FinalizeRole \/ FinalizeMetricsBinding \/ FinalizeMetricsRole
  PROVE  IInv'
<1>a. TypeOK /\ bindings \in [Families -> SUBSET NS] /\ fam \in Families /\ Families = {"disc", "mon"}
  BY DEF IInv, TypeOK, Families
<1>1. CASE FinalizeBindings
  <2>1. pc = "finBindings" /\ UNCHANGED <<server, cache, fam, croles, metrics>>
    BY <1>1 DEF FinalizeBindings
  <2>2. CASE todo = {} /\ Continue("finRole") /\ UNCHANGED <<todo, bindings, faults>>
    <3>1. FinalizeInv'
      BY <2>1, <2>2 DEF IInv, FinalizeInv, Continue, Goto
    <3> QED BY <2>1, <2>2, <3>1, FinStep DEF GrantsShrink, Continue, Goto, Deletion
  <2>3. ASSUME NEW n \in todo, NEW out \in Outcomes,
               bindings' = IF out = "error" THEN bindings ELSE [bindings EXCEPT ![fam] = @ \ {n}],
               todo' = todo \ {n},
               IF out = "ok" THEN Continue("finBindings") ELSE Requeue
        PROVE  IInv'
    <3>1. GrantsShrink
      BY <1>a, <2>1, <2>3 DEF GrantsShrink
    <3>2. CASE out = "ok"
      <4>1. bindings' = [bindings EXCEPT ![fam] = @ \ {n}] /\ pc' = "finBindings" /\ inst' = inst
        BY <2>3, <3>2 DEF Continue, Goto
      <4>2. FinalizeInv'
        BY <1>a, <2>1, <2>3, <4>1 DEF IInv, FinalizeInv
      <4> QED BY <2>1, <3>1, <4>1, <4>2, FinStep DEF Deletion
    <3>3. CASE out # "ok"
      BY <2>1, <2>3, <3>1, <3>3, EndStep DEF Requeue
    <3> QED BY <3>2, <3>3
  <2> QED BY <1>1, <2>2, <2>3 DEF FinalizeBindings
<1>2. CASE FinalizeRole
  <2>1. PICK out \in Outcomes :
          /\ croles' = IF out = "error" THEN croles ELSE croles \ {fam}
          /\ IF out # "ok" THEN Requeue /\ UNCHANGED <<fam, todo>>
             ELSE IF fam = "disc"
             THEN Continue("finBindings") /\ fam' = "mon" /\ todo' = inst.tracked["mon"]
             ELSE Continue("finMetricsBinding") /\ UNCHANGED <<fam, todo>>
    BY <1>2 DEF FinalizeRole
  <2>2. pc = "finRole" /\ UNCHANGED <<server, cache, bindings, metrics>>
    BY <1>2 DEF FinalizeRole
  <2>3. GrantsShrink
    BY <2>1, <2>2 DEF GrantsShrink
  <2>4. CASE out # "ok"
    BY <2>1, <2>2, <2>3, <2>4, EndStep DEF Requeue
  <2>5. CASE out = "ok" /\ fam = "disc"
    <3>1. pc' = "finBindings" /\ inst' = inst /\ fam' = "mon" /\ todo' = inst.tracked["mon"] /\ croles' = croles \ {"disc"}
      BY <2>1, <2>5 DEF Continue, Goto
    <3>2. FinalizeInv'
      BY <2>2, <2>5, <3>1 DEF IInv, FinalizeInv
    <3> QED BY <2>2, <2>3, <3>1, <3>2, FinStep DEF Deletion
  <2>6. CASE out = "ok" /\ fam # "disc"
    <3>1. fam = "mon" /\ pc' = "finMetricsBinding" /\ inst' = inst /\ croles' = croles \ {"mon"}
      BY <1>a, <2>1, <2>6 DEF Continue, Goto
    <3>2. croles' = {}
      BY <1>a, <2>2, <3>1 DEF IInv, FinalizeInv, TypeOK
    <3>3. bindings = None
      BY <1>a, <2>2, <3>1, NoneFacts DEF IInv, FinalizeInv
    <3>4. FinalizeInv'
      BY <2>2, <3>1, <3>2, <3>3 DEF FinalizeInv
    <3> QED BY <2>2, <2>3, <3>1, <3>4, FinStep DEF Deletion
  <2> QED BY <2>4, <2>5, <2>6
<1>3. CASE FinalizeMetricsBinding
  <2>1. PICK out \in Outcomes :
          /\ metrics' = IF out = "error" THEN metrics ELSE metrics \ {"ClusterRoleBinding"}
          /\ todo' = IF out = "ok" THEN {} ELSE {Own}
    BY <1>3 DEF FinalizeMetricsBinding
  <2>2. /\ pc = "finMetricsBinding" /\ pc' = "finMetricsRole"
        /\ UNCHANGED <<server, cache, inst, bindings, croles>>
    BY <1>3 DEF FinalizeMetricsBinding, Goto
  <2>3. FinalizeInv'
    BY <2>1, <2>2 DEF IInv, FinalizeInv
  <2> QED BY <2>1, <2>2, <2>3, FinStep DEF GrantsShrink, Deletion
<1>4. CASE FinalizeMetricsRole
  <2>1. PICK out \in Outcomes :
          /\ metrics' = IF out = "error" THEN metrics ELSE metrics \ {"ClusterRole"}
          /\ IF out = "ok" /\ todo = {} THEN Continue("refetchFinal") ELSE Requeue
    BY <1>4 DEF FinalizeMetricsRole
  <2>2. pc = "finMetricsRole" /\ UNCHANGED <<server, cache, todo, bindings, croles>>
    BY <1>4 DEF FinalizeMetricsRole
  <2>3. GrantsShrink
    BY <2>1, <2>2 DEF GrantsShrink
  <2>4. CASE out = "ok" /\ todo = {}
    <3>1. pc' = "refetchFinal" /\ inst' = inst /\ metrics' = {}
      BY <2>1, <2>2, <2>4 DEF IInv, FinalizeInv, TypeOK, MetricsObjects, Continue, Goto
    <3>2. FinalizeInv'
      BY <2>2, <3>1 DEF IInv, FinalizeInv
    <3> QED BY <2>2, <2>3, <3>1, <3>2, FinStep DEF Deletion
  <2>5. CASE ~(out = "ok" /\ todo = {})
    BY <2>1, <2>2, <2>3, <2>5, EndStep DEF Requeue
  <2> QED BY <2>4, <2>5
<1> QED BY <1>1, <1>2, <1>3, <1>4

\* The end of the deletion branch: the grants are gone, no version that invites
\* new ones is left, and the finalizer goes.
LEMMA ReleaseSteps ==
  ASSUME IInv, TypeOK', RefetchFinal \/ DegradeTrue \/ RemoveFinalizer
  PROVE  IInv'
<1>a. TypeOK
  BY DEF IInv
<1>1. CASE RefetchFinal
  <2>1. pc = "refetchFinal" /\ UNCHANGED <<server, cache, bindings, croles, metrics>>
    BY <1>1 DEF RefetchFinal, grants
  <2>2. GrantsShrink
    BY <2>1 DEF GrantsShrink
  <2>3. CASE ~cache.live
    BY <1>1, <2>1, <2>2, <2>3, EndStep DEF RefetchFinal, Requeue
  <2>4. CASE cache.live
    <3>1. inst' = cache /\ pc' = "degradeTrue"
      BY <1>1, <2>4 DEF RefetchFinal, Goto
    <3>2. ServerInv'
      BY <2>1, <2>2, ShrinkServer
    <3>3. VersionsInv' /\ RecordInv'
      BY <2>1, <2>4, <3>1, <3>2
         DEF ServerInv, VersionsInv, RecordInv, BindingsTracked, CopyOfSrv
    <3>4. GuardInv'
      BY <2>1, <3>1 DEF IInv, GuardInv, Guarded, Inviting, Main, Deletion, server
    <3>5. FinalizeInv'
      BY <2>1, <3>1 DEF IInv, FinalizeInv
    <3> QED BY <3>2, <3>3, <3>4, <3>5 DEF IInv, ServerInv
  <2> QED BY <2>3, <2>4
<1>2. CASE DegradeTrue
  <2> DEFINE o == [inst EXCEPT !.degr = "True"]
  <2>1. /\ o \in Object /\ o.live = inst.live /\ o.fin = inst.fin /\ o.otherFin = inst.otherFin
        /\ o.deleting = inst.deleting /\ o.tracked = inst.tracked /\ o.spec = inst.spec
    BY <1>a DEF TypeOK, Object
  <2>2. /\ WriteInst(o, TRUE, "removeFinalizer")
        /\ UNCHANGED <<cache, bindings, croles, metrics>> /\ pc = "degradeTrue"
    BY <1>2 DEF DegradeTrue, grants
  <2> HIDE DEF o
  <2>3. CanWrite => /\ o.live /\ o.fin = srv.fin /\ o.otherFin = srv.otherFin
                    /\ o.deleting = srv.deleting
                    /\ \A f \in Families : bindings[f] \subseteq o.tracked[f]
    BY <2>1, <2>2 DEF IInv, VersionsInv, RecordInv, CopyOfSrv, CanWrite
  <2>4. CASE /\ CanWrite /\ Store(o) /\ ServerInv' /\ srv'.live /\ inst' = srv' /\ pc' = "removeFinalizer"
             /\ srv'.fin = o.fin /\ srv'.deleting = o.deleting
    <3>1. Guarded /\ srv.deleting /\ \A v \in stream \cup {cache} : ~Inviting(v)
      BY <2>2 DEF IInv, GuardInv, Deletion
    <3>2. Guarded' /\ srv'.deleting /\ ~Inviting(srv')
      BY <2>3, <2>4, <3>1 DEF Guarded, Inviting
    <3>3. \A v \in stream' \cup {cache'} : ~Inviting(v)
      BY <2>1, <2>2, <2>4, <3>1, <3>2, StoreOrder
    <3>4. VersionsInv' /\ RecordInv'
      BY <2>4, WrittenInst DEF ServerInv, VersionsInv, RecordInv
    <3>5. GuardInv'
      BY <2>4, <3>2, <3>3 DEF GuardInv, Main, Deletion
    <3>6. FinalizeInv'
      BY <2>2, <2>4 DEF IInv, FinalizeInv
    <3> QED BY <2>4, <3>4, <3>5, <3>6 DEF IInv, ServerInv
  <2> QED BY <2>1, <2>2, <2>3, <2>4, WriteStep
<1>3. CASE RemoveFinalizer
  <2> DEFINE o == [inst EXCEPT !.fin = FALSE]
  <2>1. o \in Object /\ ~o.fin
    BY <1>a DEF TypeOK, Object
  <2>2. /\ UNCHANGED <<cache, bindings, croles, metrics>>
        /\ pc = "removeFinalizer" /\ pc' = "idle"
        /\ Store(o) \/ UNCHANGED server
    BY <1>3 DEF RemoveFinalizer, grants, Done, Requeue
  <2> HIDE DEF o
  <2>3. CASE UNCHANGED server
    BY <2>2, <2>3, EndStep DEF GrantsShrink
  <2>4. CASE Store(o)
    <3>1. bindings' = None /\ croles' = {} /\ metrics' = {}
      BY <2>2 DEF IInv, FinalizeInv
    <3>2. \A f \in Families : bindings'[f] = {}
      BY <3>1 DEF None
    <3>3. \A v \in stream \cup {cache} : ~Inviting(v)
      BY <2>2 DEF IInv, GuardInv, Deletion
    <3>4. Inviting(srv') => Guarded'
      BY DEF Inviting, Guarded
    <3>5. ServerInv'
      BY <2>1, <2>2, <2>4, <3>1, <3>2, <3>3, <3>4, StoreOrder
         DEF ServerInv, BindingsTracked, NoOrphanedGrants
    <3> QED BY <2>2, <3>5, IdleInv
  <2> QED BY <2>2, <2>3, <2>4
<1> QED BY <1>1, <1>2, <1>3

\* failAvailable touches only the Available condition.
LEMMA FailFacts ==
  ASSUME TypeOK, Fail
  PROVE  /\ pc' = "finish" /\ inst'.rv = inst.rv /\ inst'.live = inst.live /\ inst'.spec = inst.spec
         /\ inst'.fin = inst.fin /\ inst'.otherFin = inst.otherFin
         /\ inst'.deleting = inst.deleting /\ inst'.tracked = inst.tracked
BY DEF Fail, Goto, TypeOK, Object

\* The steps of the main branch that leave record and RoleBindings alone.
LEMMA QuietSteps ==
  ASSUME IInv, TypeOK',
         OwnRBAC \/ Metrics \/ MetricsRole \/ MetricsBinding \/ DropMetricsBinding
           \/ DropMetricsRole \/ DropRole \/ EnsureRole
  PROVE  IInv'
<1>a. TypeOK
  BY DEF IInv
<1>1. UNCHANGED <<server, cache, bindings>> /\ pc \in Main
  BY DEF OwnRBAC, Metrics, MetricsRole, MetricsBinding, DropMetricsBinding, DropMetricsRole,
         DropRole, EnsureRole, grants, Main
<1>2. Fail \/ (pc' \in Main \ {"bind", "unbind", "dropBindings"} /\ UNCHANGED inst)
  <2>1. CASE OwnRBAC
    BY <2>1 DEF OwnRBAC, Continue, Goto, Main
  <2>2. CASE Metrics
    BY <2>2 DEF Metrics, Goto, Main
  <2>3. CASE MetricsRole
    BY <2>3 DEF MetricsRole, EnsureMetrics, Continue, Goto, Main
  <2>4. CASE MetricsBinding
    BY <2>4 DEF MetricsBinding, EnsureMetrics, Continue, Goto, Main
  <2>5. CASE DropMetricsBinding
    BY <2>5 DEF DropMetricsBinding, Goto, Main
  <2>6. CASE DropMetricsRole
    BY <2>6 DEF DropMetricsRole, Continue, Goto, Main
  <2>7. CASE DropRole
    BY <2>7 DEF DropRole, NextFamily, Goto, Main
  <2>8. CASE EnsureRole
    BY <2>8 DEF EnsureRole, Continue, Goto, Main
  <2> QED BY <2>1, <2>2, <2>3, <2>4, <2>5, <2>6, <2>7, <2>8
<1>3. CASE Fail
  BY <1>a, <1>1, <1>3, FailFacts, QuietMain DEF Main
<1>4. CASE pc' \in Main \ {"bind", "unbind", "dropBindings"} /\ UNCHANGED inst
  BY <1>1, <1>4, QuietMain
<1> QED BY <1>2, <1>3, <1>4

\* The loops that delete RoleBindings outside the finalizer.
LEMMA DropSteps ==
  ASSUME IInv, TypeOK', Family \/ DropBindings \/ Unbind
  PROVE  IInv'
<1>a. /\ TypeOK /\ inst \in Object /\ inst.tracked \in [Families -> SUBSET NS]
      /\ bindings \in [Families -> SUBSET NS] /\ fam \in Families
  BY DEF IInv, TypeOK, Object
<1>b. ASSUME NEW n \in todo, NEW out, pc \in {"dropBindings", "unbind"},
             UNCHANGED <<server, cache, fam>>,
             bindings' = IF out = "error" THEN bindings ELSE [bindings EXCEPT ![fam] = @ \ {n}],
             todo' = todo \ {n},
             IF out = "ok" THEN Continue(pc) ELSE Fail
      PROVE  IInv'
  <2>1. pc \in Main /\ \A f \in Families : bindings'[f] \subseteq bindings[f]
    BY <1>a, <1>b DEF Main
  <2>2. CASE out = "ok"
    <3>1. pc' = pc /\ inst' = inst /\ bindings' = [bindings EXCEPT ![fam] = @ \ {n}]
      BY <1>b, <2>2 DEF Continue, Goto
    <3>2. BindingsTracked'
      BY <1>b, <2>1 DEF IInv, BindingsTracked, server
    <3>3. RecordInv'
      BY <1>a, <1>b, <2>1, <3>1 DEF IInv, RecordInv, server
    <3> QED BY <1>b, <2>1, <3>1, <3>2, <3>3, MainStep
  <2>3. CASE out # "ok"
    BY <1>a, <1>b, <2>1, <2>3, FailFacts, QuietMain DEF Main
  <2> QED BY <2>2, <2>3
<1>c. ASSUME NEW T \in SUBSET NS, inst' = [inst EXCEPT !.tracked[fam] = T],
             UNCHANGED <<server, cache, bindings>>,
             pc \in {"dropBindings", "unbind"}, pc' \in {"dropRole", "family", "pipeline"},
             inst.rv = srv.rv => bindings[fam] \subseteq T
      PROVE  IInv'
  <2>1. /\ inst'.rv = inst.rv /\ inst'.live = inst.live /\ inst'.spec = inst.spec
        /\ inst'.fin = inst.fin /\ inst'.otherFin = inst.otherFin
        /\ inst'.deleting = inst.deleting
        /\ inst'.tracked = [inst.tracked EXCEPT ![fam] = T]
    BY <1>a, <1>c DEF Object
  <2>2. BindingsTracked'
    BY <1>c DEF IInv, BindingsTracked, server
  <2>3. RecordInv'
    BY <1>a, <1>c, <2>1 DEF IInv, RecordInv, server
  <2> QED BY <1>c, <2>1, <2>2, <2>3, MainStep DEF Main
<1>1. CASE Family
  <2>1. pc = "family" /\ UNCHANGED <<server, cache, inst, fam, bindings>>
    BY <1>1 DEF Family, grants
  <2>2. \/ pc' = "dropBindings" /\ todo' = inst.tracked[fam]
        \/ pc' = "ensureRole"
    BY <1>1 DEF Family, Goto
  <2>3. BindingsTracked'
    BY <2>1 DEF IInv, BindingsTracked, server
  <2>4. RecordInv'
    BY <1>a, <2>1, <2>2 DEF IInv, RecordInv, server
  <2> QED BY <2>1, <2>2, <2>3, <2>4, MainStep DEF Main
<1>2. CASE DropBindings
  <2>1. pc = "dropBindings" /\ UNCHANGED <<server, cache, fam>>
    BY <1>2 DEF DropBindings
  <2>2. CASE /\ todo = {} /\ inst' = [inst EXCEPT !.tracked[fam] = {}]
             /\ Goto("dropRole") /\ UNCHANGED <<todo, bindings, faults>>
    <3>1. inst.rv = srv.rv => bindings[fam] \subseteq {}
      BY <2>1, <2>2 DEF IInv, RecordInv
    <3> QED BY <1>c, <2>1, <2>2, <3>1 DEF Goto
  <2> QED BY <1>2, <1>b, <2>1, <2>2 DEF DropBindings
<1>3. CASE Unbind
  <2>1. pc = "unbind" /\ UNCHANGED <<server, cache>>
    BY <1>3 DEF Unbind
  <2>2. CASE /\ todo = {} /\ inst' = [inst EXCEPT !.tracked[fam] = Desired(inst.spec, fam)]
             /\ NextFamily /\ UNCHANGED <<todo, bindings, faults>>
    <3>1. inst.rv = srv.rv => bindings[fam] \subseteq Desired(inst.spec, fam)
      BY <2>1, <2>2 DEF IInv, RecordInv
    <3>2. Desired(inst.spec, fam) \subseteq NS
      BY <1>a, DesiredType DEF Object
    <3>3. pc' \in {"family", "pipeline"}
      BY <2>2 DEF NextFamily, Goto
    <3> QED BY <1>c, <2>1, <2>2, <3>1, <3>2, <3>3
  <2> QED BY <1>3, <1>b, <2>1, <2>2 DEF Unbind
<1> QED BY <1>1, <1>2, <1>3

\* The record is stored first, and RoleBindings are created only under it.
LEMMA BindSteps ==
  ASSUME IInv, TypeOK', Persist \/ Bind
  PROVE  IInv'
<1>a. /\ TypeOK /\ inst \in Object /\ inst.tracked \in [Families -> SUBSET NS]
      /\ srv.tracked \in [Families -> SUBSET NS]
      /\ bindings \in [Families -> SUBSET NS] /\ fam \in Families
  BY DEF IInv, TypeOK, Object
<1>b. Guarded /\ pc \in Main /\ pc # "idle"
  BY DEF IInv, GuardInv, Persist, Bind, Main
<1>1. CASE Persist
  <2> DEFINE D == Desired(inst.spec, fam)
             o == [inst EXCEPT !.tracked[fam] = @ \cup D]
             p == [o EXCEPT !.avail = "False"]
  <2>1. D \subseteq NS
    BY <1>a, DesiredType DEF Object
  <2>2. pc = "persist" /\ UNCHANGED <<cache, fam, bindings, croles, metrics>> /\ todo' = D
    BY <1>1 DEF Persist, grants
  <2>3. PICK out \in Outcomes :
          /\ IF out # "error" /\ CanWrite THEN Store(o) ELSE UNCHANGED server
          /\ IF out = "ok" /\ CanWrite
               THEN inst' = srv' /\ Goto("bind")
               ELSE inst' = p /\ Goto("finish")
    BY <1>1 DEF Persist, PersistInst
  <2> HIDE DEF D
  <2>4. /\ o \in Object /\ o.rv = inst.rv /\ o.live = inst.live /\ o.spec = inst.spec
        /\ o.fin = inst.fin /\ o.otherFin = inst.otherFin /\ o.deleting = inst.deleting
        /\ o.tracked = [inst.tracked EXCEPT ![fam] = inst.tracked[fam] \cup D]
    BY <1>a, <2>1 DEF Object
  <2> HIDE DEF o
  <2>5. /\ p.rv = o.rv /\ p.live = o.live /\ p.spec = o.spec /\ p.fin = o.fin
        /\ p.otherFin = o.otherFin /\ p.deleting = o.deleting /\ p.tracked = o.tracked
    BY <2>4 DEF Object
  <2> HIDE DEF p
  <2>6. \A f \in Families : inst.tracked[f] \subseteq o.tracked[f]
    BY <1>a, <2>4
  <2>7. inst.rv = srv.rv => \A f \in Families : bindings[f] \subseteq o.tracked[f]
    BY <1>b, <2>6 DEF IInv, RecordInv
  <2>8. CASE UNCHANGED server
    <3>1. (inst' = p /\ pc' = "finish") \/ (inst' = srv' /\ pc' = "bind" /\ CanWrite /\ Store(o))
      BY <2>3, <2>8 DEF Goto
    <3>2. CASE inst' = p /\ pc' = "finish"
      <4>1. BindingsTracked'
        BY <2>2, <2>8 DEF IInv, BindingsTracked, server
      <4>2. RecordInv'
        BY <2>2, <2>4, <2>5, <2>7, <2>8, <3>2 DEF RecordInv, server
      <4> QED BY <1>b, <2>2, <2>4, <2>5, <2>8, <3>2, <4>1, <4>2, MainStep DEF Main
    <3>3. CASE inst' = srv' /\ pc' = "bind" /\ CanWrite /\ Store(o)
      <4>1. o = srv
        BY <1>a, <2>4, <2>8, <3>3, StoreFacts DEF server, TypeOK, Object
      <4>2. ServerInv'
        BY <2>2, <2>8, ShrinkServer DEF GrantsShrink
      <4>3. srv'.live /\ srv' = o
        BY <1>b, <2>8, <4>1 DEF Guarded, server
      <4>4. VersionsInv'
        BY <3>3, <4>2, <4>3, WrittenInst DEF ServerInv, VersionsInv
      <4>5. RecordInv'
        BY <1>a, <2>2, <2>4, <3>3, <4>2, <4>3, WrittenInst DEF RecordInv
      <4>6. GuardInv' /\ FinalizeInv'
        BY <1>b, <2>8, <3>3, <4>2 DEF ServerInv, GuardInv, FinalizeInv, Main, Deletion, Guarded, server
      <4> QED BY <4>2, <4>4, <4>5, <4>6 DEF IInv, ServerInv
    <3> QED BY <3>1, <3>2, <3>3
  <2>9. CASE CanWrite /\ Store(o)
    <3>1. inst.rv = srv.rv /\ CopyOfSrv /\ srv.live /\ srv.fin
      BY <1>b, <2>9 DEF IInv, VersionsInv, CanWrite, Guarded
    <3>2. /\ ServerInv' /\ srv'.live /\ srv'.fin /\ srv'.tracked = o.tracked /\ srv'.spec = o.spec
          /\ srv'.otherFin = o.otherFin /\ srv'.deleting = o.deleting
      BY <1>b, <2>2, <2>4, <2>7, <2>9, <3>1, ManagerStore DEF CopyOfSrv
    <3>3. (inst' = srv' /\ pc' = "bind") \/ (inst' = p /\ pc' = "finish")
      BY <2>3 DEF Goto
    <3>4. GuardInv' /\ FinalizeInv'
      BY <3>2, <3>3 DEF ServerInv, GuardInv, FinalizeInv, Main, Deletion, Guarded
    <3>5. CASE inst' = srv' /\ pc' = "bind"
      <4>1. VersionsInv'
        BY <3>2, <3>5, WrittenInst DEF ServerInv, VersionsInv
      <4>2. RecordInv'
        BY <1>a, <2>2, <2>4, <3>2, <3>5, WrittenInst DEF RecordInv
      <4> QED BY <3>2, <3>4, <4>1, <4>2 DEF IInv, ServerInv
    <3>6. CASE inst' = p /\ pc' = "finish"
      <4>1. inst'.rv = srv.rv /\ srv'.rv >= srv.rv /\ srv.rv \in Nat /\ srv'.rv \in Nat
        BY <1>a, <2>2, <2>4, <2>5, <2>9, <3>1, <3>6, StoreOrder DEF TypeOK, Object
      <4>2. CopyOfSrv' /\ inst'.live
        BY <2>4, <2>5, <3>1, <3>2, <3>6 DEF CopyOfSrv
      <4>3. VersionsInv'
        BY <3>2, <3>6, <4>1, <4>2 DEF ServerInv, VersionsInv
      <4>4. RecordInv'
        BY <2>2, <2>5, <2>7, <3>1, <3>6 DEF RecordInv
      <4> QED BY <3>2, <3>4, <4>3, <4>4 DEF IInv, ServerInv
    <3> QED BY <3>3, <3>5, <3>6
  <2> QED BY <2>3, <2>8, <2>9
<1>2. CASE Bind
  <2>1. pc = "bind" /\ UNCHANGED <<server, cache, fam>>
    BY <1>2 DEF Bind
  <2>2. todo \subseteq inst.tracked[fam] /\ todo \subseteq srv.tracked[fam]
    BY <2>1 DEF IInv, RecordInv
  <2>3. CASE /\ todo = {} /\ Goto("unbind")
             /\ todo' = inst.tracked[fam] \ Desired(inst.spec, fam)
             /\ UNCHANGED <<inst, bindings, faults>>
    <3>1. BindingsTracked'
      BY <2>1, <2>3 DEF IInv, BindingsTracked, server
    <3>2. RecordInv'
      BY <1>a, <1>b, <2>1, <2>3 DEF IInv, RecordInv, server, Goto
    <3> QED BY <1>b, <2>1, <2>3, <3>1, <3>2, MainStep DEF Goto, Main
  <2>4. ASSUME NEW n \in todo, todo' = todo \ {n}, Goto("bind"),
               UNCHANGED <<inst, bindings, faults>>
        PROVE  IInv'
    <3>1. BindingsTracked'
      BY <2>1, <2>4 DEF IInv, BindingsTracked, server
    <3>2. RecordInv'
      BY <1>a, <1>b, <2>1, <2>2, <2>4 DEF IInv, RecordInv, server, Goto
    <3> QED BY <1>b, <2>1, <2>4, <3>1, <3>2, MainStep DEF Goto, Main
  <2>5. ASSUME NEW n \in todo, todo' = todo \ {n}, NEW out,
               bindings' = IF out = "error" \/ n \in Missing THEN bindings
                           ELSE [bindings EXCEPT ![fam] = @ \cup {n}],
               Continue("bind") \/ Fail
        PROVE  IInv'
    <3>1. \A f \in Families :
            bindings'[f] \subseteq bindings[f] \cup (IF f = fam THEN {n} ELSE {})
      BY <1>a, <2>5
    <3>2. BindingsTracked'
      BY <1>a, <2>1, <2>2, <2>5, <3>1 DEF IInv, BindingsTracked, server
    <3>3. /\ inst'.rv = inst.rv /\ inst'.live = inst.live /\ inst'.spec = inst.spec
          /\ inst'.fin = inst.fin /\ inst'.otherFin = inst.otherFin
          /\ inst'.deleting = inst.deleting /\ inst'.tracked = inst.tracked
          /\ pc' \in {"bind", "finish"}
      BY <1>a, <2>5, FailFacts DEF Continue, Goto
    <3>4. inst.rv = srv.rv => \A f \in Families : bindings'[f] \subseteq inst.tracked[f]
      BY <1>a, <1>b, <2>2, <3>1 DEF IInv, RecordInv
    <3>5. RecordInv'
      BY <1>a, <2>1, <2>2, <2>5, <3>3, <3>4 DEF RecordInv, server
    <3> QED BY <1>b, <2>1, <3>2, <3>3, <3>5, MainStep DEF Main
  <2> QED BY <1>2, <2>3, <2>4, <2>5 DEF Bind
<1> QED BY <1>1, <1>2

\* The end of Reconcile.
LEMMA EndSteps ==
  ASSUME IInv, TypeOK', Pipeline \/ Finish
  PROVE  IInv'
<1>a. TypeOK /\ inst \in Object /\ cache \in Object
  BY DEF IInv, TypeOK
<1>b. Guarded /\ pc \in Main /\ pc # "idle"
  BY DEF IInv, GuardInv, Pipeline, Finish, Main
<1>1. CASE Pipeline
  <2>1. pc = "pipeline" /\ UNCHANGED <<server, cache, fam, todo, bindings, croles, metrics>>
    BY <1>1 DEF Pipeline, grants
  <2>2. CASE Requeue
    BY <2>1, <2>2, EndStep DEF Requeue, GrantsShrink
  <2>3. CASE Fail
    BY <1>a, <1>b, <2>1, <2>3, FailFacts, QuietMain DEF Main
  <2>4. CASE inst' = [inst EXCEPT !.avail = "True"] /\ pc' = "finish"
    <3>1. /\ inst'.rv = inst.rv /\ inst'.live = inst.live /\ inst'.spec = inst.spec
          /\ inst'.fin = inst.fin /\ inst'.otherFin = inst.otherFin
          /\ inst'.deleting = inst.deleting /\ inst'.tracked = inst.tracked
      BY <1>a, <2>4 DEF Object
    <3> QED BY <1>b, <2>1, <2>4, <3>1, QuietMain DEF Main
  <2>5. CASE cache.live /\ inst' = [cache EXCEPT !.avail = "False"] /\ pc' = "finish"
    <3>1. /\ inst'.rv = cache.rv /\ inst'.live = cache.live /\ inst'.spec = cache.spec
          /\ inst'.fin = cache.fin /\ inst'.otherFin = cache.otherFin
          /\ inst'.deleting = cache.deleting /\ inst'.tracked = cache.tracked
      BY <1>a, <2>5 DEF Object
    <3>2. ServerInv'
      BY <2>1, ShrinkServer DEF GrantsShrink
    <3>3. VersionsInv'
      BY <2>1, <2>5, <3>1, <3>2 DEF ServerInv, VersionsInv, CopyOfSrv
    <3>4. RecordInv'
      BY <1>b, <2>1, <2>5, <3>1, <3>2 DEF ServerInv, RecordInv, BindingsTracked, Guarded, server
    <3>5. GuardInv' /\ FinalizeInv'
      BY <1>b, <2>1, <2>5, <3>2 DEF ServerInv, GuardInv, FinalizeInv, Main, Deletion, Guarded, server
    <3> QED BY <3>2, <3>3, <3>4, <3>5 DEF IInv, ServerInv
  <2> QED BY <1>1, <2>2, <2>3, <2>4, <2>5 DEF Pipeline, Goto
<1>2. CASE Finish
  <2>1. /\ UNCHANGED <<cache, bindings, croles, metrics>> /\ pc' = "idle"
        /\ (CanWrite /\ Store(inst)) \/ UNCHANGED server
    BY <1>2 DEF Finish, grants, Done, Requeue
  <2>2. CASE UNCHANGED server
    BY <2>1, <2>2, EndStep DEF GrantsShrink
  <2>3. CASE CanWrite /\ Store(inst)
    <3>1. CopyOfSrv /\ inst.live /\ \A f \in Families : bindings[f] \subseteq inst.tracked[f]
      BY <1>b, <2>3 DEF IInv, VersionsInv, RecordInv, CanWrite
    <3> QED BY <1>a, <1>b, <2>1, <2>3, <3>1, ManagerStore, IdleInv DEF CopyOfSrv
  <2> QED BY <2>1, <2>2, <2>3
<1> QED BY <1>1, <1>2

\* The watches, and a crash.
LEMMA WatchSteps ==
  ASSUME IInv, TypeOK', Deliver \/ SyncGrants \/ Crash
  PROVE  IInv'
<1>a. /\ TypeOK /\ srv.rv \in Nat /\ cache.rv \in Nat /\ inst.rv \in Nat
      /\ \A v \in stream : v.rv \in Nat
  BY DEF IInv, TypeOK, Object
<1>1. CASE Deliver
  <2>1. PICK v \in stream : cache' = v /\ stream' = {w \in stream : w.rv > v.rv}
    BY <1>1 DEF Deliver
  <2>2. UNCHANGED <<srv, inst, pc, fam, todo, bindings, croles, metrics>>
    BY <1>1 DEF Deliver, grants
  <2>3. VersionsInv'
    BY <1>a, <2>1, <2>2 DEF IInv, VersionsInv, CopyOfSrv
  <2>4. GuardInv'
    BY <2>1, <2>2 DEF IInv, GuardInv, Guarded, Inviting
  <2>5. BindingsTracked' /\ NoOrphanedGrants' /\ RecordInv' /\ FinalizeInv'
    BY <2>2 DEF IInv, BindingsTracked, NoOrphanedGrants, RecordInv, FinalizeInv
  <2> QED BY <2>3, <2>4, <2>5 DEF IInv
<1>2. CASE SyncGrants
  <2>1. UNCHANGED <<srv, stream, cache, inst, pc, fam, todo, bindings, croles, metrics>>
    BY <1>2 DEF SyncGrants, server, grants
  <2> QED BY <2>1 DEF IInv, BindingsTracked, NoOrphanedGrants, VersionsInv, GuardInv, RecordInv,
                      FinalizeInv, CopyOfSrv, Guarded, Inviting
<1>3. CASE Crash
  <2>1. /\ UNCHANGED <<srv, bindings, croles, metrics>> /\ cache' = srv /\ stream' = {}
        /\ pc' = "idle"
    BY <1>3 DEF Crash, grants
  <2>2. ServerInv'
    BY <1>a, <2>1 DEF IInv, VersionsInv, ServerInv, BindingsTracked, NoOrphanedGrants,
                      Guarded, Inviting
  <2> QED BY <2>1, <2>2, IdleInv
<1> QED BY <1>1, <1>2, <1>3

\* Users, and the garbage collector.
LEMMA UserSteps ==
  ASSUME IInv, TypeOK', Users
  PROVE  IInv'
<1>a. TypeOK /\ srv \in Object /\ srv.rv \in Nat
  BY DEF IInv, TypeOK, Object
<1>1. CASE Create
  <2>1. PICK s \in Specs : Store(Fresh(s, srv.rv))
    BY <1>1 DEF Create
  <2>2. Fresh(s, srv.rv) \in Object /\ ~Fresh(s, srv.rv).fin
    BY <1>a, ConstantsAssumption DEF Fresh, Object, None
  <2>3. ~srv.live /\ UNCHANGED <<cache, inst, pc, fam, todo, bindings, croles, metrics>>
    BY <1>1 DEF Create, grants
  <2> QED BY <2>1, <2>2, <2>3, UserStore
<1>2. CASE Edit
  <2>1. PICK s \in Specs : Store([srv EXCEPT !.spec = s])
    BY <1>2 DEF Edit
  <2> DEFINE o == [srv EXCEPT !.spec = s]
  <2>2. /\ o \in Object /\ o.live = srv.live /\ o.fin = srv.fin
        /\ o.tracked = srv.tracked /\ o.deleting = srv.deleting
    BY <1>a, ConstantsAssumption DEF Object
  <2>3. srv.live /\ UNCHANGED <<cache, inst, pc, fam, todo, bindings, croles, metrics>>
    BY <1>2 DEF Edit, grants
  <2> QED BY <2>1, <2>2, <2>3, UserStore
<1>3. CASE Delete
  <2>1. PICK fg \in {FALSE, Foreground} :
          Store([srv EXCEPT !.deleting = TRUE, !.otherFin = fg])
    BY <1>3 DEF Delete
  <2> DEFINE o == [srv EXCEPT !.deleting = TRUE, !.otherFin = fg]
  <2>2. /\ o \in Object /\ o.live = srv.live /\ o.fin = srv.fin
        /\ o.tracked = srv.tracked /\ o.deleting
    BY <1>a, ConstantsAssumption DEF Object
  <2>3. srv.live /\ UNCHANGED <<cache, inst, pc, fam, todo, bindings, croles, metrics>>
    BY <1>3 DEF Delete, grants
  <2> QED BY <2>1, <2>2, <2>3, UserStore
<1>4. CASE DropOtherFinalizer
  <2> DEFINE o == [srv EXCEPT !.otherFin = FALSE]
  <2>1. Store(o) /\ srv.live /\ UNCHANGED <<cache, inst, pc, fam, todo, bindings, croles, metrics>>
    BY <1>4 DEF DropOtherFinalizer, grants
  <2>2. /\ o \in Object /\ o.live = srv.live /\ o.fin = srv.fin
        /\ o.tracked = srv.tracked /\ o.deleting = srv.deleting
    BY <1>a DEF Object
  <2> QED BY <2>1, <2>2, UserStore
<1>5. CASE ToggleWidget \/ ChangeHealth
  <2>1. UNCHANGED <<srv, stream, cache, inst, pc, fam, todo, bindings, croles, metrics>>
    BY <1>5 DEF ToggleWidget, ChangeHealth, server, grants
  <2> QED BY <2>1 DEF IInv, BindingsTracked, NoOrphanedGrants, VersionsInv, GuardInv, RecordInv,
                      FinalizeInv, CopyOfSrv, Guarded, Inviting
<1> QED BY <1>1, <1>2, <1>3, <1>4, <1>5 DEF Users

LEMMA InitIInv ==
  Init => IInv
<1> SUFFICES ASSUME Init PROVE IInv
  OBVIOUS
<1>1. TypeOK /\ ~srv.live /\ srv.rv = 0 /\ cache = srv /\ stream = {} /\ pc = "idle"
  BY InitTypes, AbsentFacts DEF Init
<1>2. bindings = None /\ croles = {} /\ metrics = {}
  BY DEF Init
<1> QED BY <1>1, <1>2 DEF IInv, BindingsTracked, NoOrphanedGrants, VersionsInv, GuardInv,
                          RecordInv, FinalizeInv, Inviting, Main, Deletion

\* Every step keeps the inductive invariant.
LEMMA NextIInv ==
  IInv /\ [Next]_vars => IInv'
<1>1. ASSUME IInv, Next PROVE IInv'
  <2>1. TypeOK'
    BY <1>1, NextTypes DEF IInv
  <2> QED BY <1>1, <2>1, EntrySteps, DegradeUnknownStep, FinalizeSteps, ReleaseSteps, QuietSteps,
             DropSteps, BindSteps, EndSteps, WatchSteps, UserSteps
          DEF Next, Reconcile, Watches
<1>2. ASSUME IInv, UNCHANGED vars PROVE IInv'
  BY <1>2 DEF vars, IInv, TypeOK, BindingsTracked, NoOrphanedGrants, VersionsInv, GuardInv,
              RecordInv, FinalizeInv, CopyOfSrv, Guarded, Inviting
<1> QED BY <1>1, <1>2

\* The inductive invariant holds in every reachable state: the versions the
\* manager may act on agree with the stored one where it matters.
THEOREM Inductive == Spec => []IInv
<1> QED BY InitIInv, NextIInv, PTL DEF Spec

\* Every RoleBinding that reconcileDiscoveryRBAC and reconcileMonitorRBAC create
\* is named by the stored status, whatever conflicts, failures, crashes and
\* edits happen in between.
THEOREM BindingsAlwaysTracked == Spec => []BindingsTracked
<1>1. IInv => BindingsTracked
  BY DEF IInv
<1> QED BY <1>1, Inductive, PTL

\* No RoleBinding in another namespace, ClusterRole or ClusterRoleBinding of a
\* Dashboard exists when the stored Dashboard is gone or has no finalizer.
THEOREM GrantsNeverOrphaned == Spec => []NoOrphanedGrants
<1>1. IInv => NoOrphanedGrants
  BY DEF IInv
<1> QED BY <1>1, Inductive, PTL

-----------------------------------------------------------------------------
(* QuiescentMatchesSpec.                                                   *)

\* Something will make the manager look at the Dashboard again.
Awake == queued \/ stream # {}

\* The cache has the stored version, or a watch event is bringing it.
Latest == srv \in stream \/ cache = srv

\* The kubemetrics objects are there if a kubemetrics InfoWidget is bound.
MetricsDone == metrics = IF widget THEN MetricsObjects ELSE {}

\* One family of grants is as inst's spec asks, and inst records it exactly.
FamilyDone(f) ==
  /\ bindings[f] = Desired(inst.spec, f)
  /\ inst.tracked[f] = Desired(inst.spec, f)
  /\ f \in croles <=> Desired(inst.spec, f) # {}

\* What the steps of reconcileClusterMetricsRBAC have behind them.
MetricsStage ==
  /\ pc \in {"metricsRole", "metricsBinding"} => widget
  /\ pc = "metricsBinding" => "ClusterRole" \in metrics
  /\ pc \in {"dropMetricsBinding", "dropMetricsRole"} => ~widget
  /\ pc = "dropMetricsRole" /\ todo = {} => "ClusterRoleBinding" \notin metrics

\* What the steps of reconcileDiscoveryRBAC and reconcileMonitorRBAC have.
FamilyStage ==
  LET wanted == Desired(inst.spec, fam)
  IN  /\ pc \in {"family", "dropBindings", "dropRole", "ensureRole", "persist", "bind", "unbind"} =>
           MetricsDone /\ (fam = "mon" => FamilyDone("disc"))
      /\ pc \in {"dropBindings", "dropRole"} => wanted = {}
      /\ pc = "dropRole" => bindings[fam] = {} /\ inst.tracked[fam] = {}
      /\ pc \in {"ensureRole", "persist", "bind", "unbind"} => wanted # {}
      /\ pc \in {"persist", "bind", "unbind"} => fam \in croles
      /\ pc = "bind" => wanted \subseteq bindings[fam] \cup todo
      /\ pc = "unbind" => wanted \subseteq bindings[fam] /\ todo \cap wanted = {}

\* What a reconcile that is about to report Available=True has.
EndStage ==
  pc = "pipeline" \/ (pc = "finish" /\ inst.avail = "True") =>
    MetricsDone /\ \A f \in Families : FamilyDone(f)

\* A reconcile that ended for good has done all its work.
WorkDone == srv.avail = "True" /\ GrantsMatchSpec /\ srv.tracked = bindings

\* When nothing will wake the manager, it is either at work on the stored
\* version, with everything behind its present step done, or has done it all.
RestInv ==
  /\ Latest
  /\ ~Awake =>
       /\ pc # "idle" => inst.rv = srv.rv
       /\ pc = "idle" /\ srv.live /\ ~srv.deleting => WorkDone
       /\ MetricsStage /\ FamilyStage /\ EndStage

\* Steps that have nothing behind them but the copy of the Dashboard.
Early == {"initStatus", "refetchInit", "addFinalizer", "ownRBAC", "metrics"} \cup Deletion

LEMMA EarlyStages ==
  ASSUME pc \in Early \cup {"idle"} \/ (pc = "finish" /\ inst.avail # "True")
  PROVE  MetricsStage /\ FamilyStage /\ EndStage
BY DEF Early, Deletion, MetricsStage, FamilyStage, EndStage

\* failAvailable leaves no stage to show.
LEMMA FailStages ==
  ASSUME TypeOK, Fail
  PROVE  /\ pc' = "finish" /\ inst'.rv = inst.rv /\ UNCHANGED queued
         /\ MetricsStage' /\ FamilyStage' /\ EndStage'
<1>1. inst'.avail = "False" /\ pc' = "finish" /\ UNCHANGED queued
  BY DEF Fail, Goto, TypeOK, Object
<1> QED BY <1>1, FailFacts DEF MetricsStage, FamilyStage, EndStage

\* A write that changes something leaves an event on its way.
LEMMA StoreWakes ==
  ASSUME TypeOK, Latest, NEW o \in Object, Store(o), UNCHANGED cache
  PROVE  /\ Latest'
         /\ stream' = {} => o = srv /\ srv' = srv /\ stream = {}
BY StoreFacts DEF Latest

LEMMA Unstored ==
  ASSUME Latest, UNCHANGED <<server, cache>>
  PROVE  Latest'
BY DEF Latest, server

\* A step that queues the Dashboard.
LEMMA QueuedRest ==
  ASSUME Latest', queued'
  PROVE  RestInv'
BY DEF RestInv, Awake

\* A step within a reconcile that writes nothing to the Dashboard.
LEMMA StageRest ==
  ASSUME RestInv, UNCHANGED <<server, cache, queued>>, pc # "idle", pc' # "idle",
         inst'.rv = inst.rv,
         ~Awake => MetricsStage' /\ FamilyStage' /\ EndStage'
  PROVE  RestInv'
<1>1. Latest'
  BY Unstored DEF RestInv
<1> QED BY <1>1 DEF RestInv, Awake, server

\* A step that reads the Dashboard from the cache, before any stage.
LEMMA ReadRest ==
  ASSUME RestInv, UNCHANGED <<server, cache>>, inst'.rv = cache.rv, pc' # "idle",
         MetricsStage' /\ FamilyStage' /\ EndStage'
  PROVE  RestInv'
<1>1. Latest'
  BY Unstored DEF RestInv
<1>2. stream' = {} => cache = srv
  BY DEF RestInv, Latest, server
<1> QED BY <1>1, <1>2 DEF RestInv, Awake, server

\* A write of inst that leads to an early step.
LEMMA WriteRest ==
  ASSUME TypeOK, RestInv, NEW o \in Object, NEW allowed, NEW next \in Early,
         WriteInst(o, allowed, next), UNCHANGED cache
  PROVE  RestInv'
<1>1. Latest'
  <2>1. Store(o) \/ UNCHANGED server
    BY DEF WriteInst
  <2> QED BY <2>1, StoreWakes, Unstored DEF RestInv
<1>2. Requeue \/ (inst' = srv' /\ Goto(next))
  BY DEF WriteInst
<1>3. CASE Requeue
  BY <1>1, <1>3, QueuedRest DEF Requeue
<1>4. CASE inst' = srv' /\ Goto(next)
  <2>1. pc' \in Early
    BY <1>4 DEF Goto
  <2>2. MetricsStage' /\ FamilyStage' /\ EndStage'
    BY <2>1 DEF Early, Deletion, MetricsStage, FamilyStage, EndStage
  <2>3. pc' # "idle"
    BY <2>1 DEF Early, Deletion
  <2> QED BY <1>1, <1>4, <2>2, <2>3 DEF RestInv
<1> QED BY <1>2, <1>3, <1>4

\* From the cache to the deletion check, and the deletion branch.
LEMMA EarlyRest ==
  ASSUME IInv, RestInv, TypeOK',
         \/ Begin \/ InitStatus \/ RefetchInit \/ AddFinalizer
         \/ DegradeUnknown \/ FinalizeBindings \/ FinalizeRole
         \/ FinalizeMetricsBinding \/ FinalizeMetricsRole
         \/ RefetchFinal \/ DegradeTrue
  PROVE  RestInv'
<1>a. TypeOK /\ Latest
  BY DEF IInv, RestInv
<1>b. ASSUME pc' \in Early
      PROVE  pc' # "idle" /\ MetricsStage' /\ FamilyStage' /\ EndStage'
  BY <1>b DEF Early, Deletion, MetricsStage, FamilyStage, EndStage
<1>c. ASSUME UNCHANGED <<server, cache>>, Requeue
      PROVE  RestInv'
  BY <1>a, <1>c, Unstored, QueuedRest DEF Requeue
<1>d. ASSUME UNCHANGED <<server, cache>>, cache.live, inst' = cache, pc' \in Early
      PROVE  RestInv'
  BY <1>b, <1>d, ReadRest
<1>e. ASSUME UNCHANGED <<server, cache, inst>>, pc # "idle", NEW next \in Early, Goto(next)
      PROVE  RestInv'
  BY <1>b, <1>e, StageRest DEF Goto
<1>1. CASE Begin
  <2>1. CASE cache.live
    BY <1>1, <1>d, <2>1 DEF Begin, Early
  <2>2. CASE ~cache.live
    <3>1. Latest' /\ pc' = "idle" /\ UNCHANGED <<server, cache>>
      BY <1>1, <1>a, <2>2, Unstored DEF Begin
    <3>2. MetricsStage' /\ FamilyStage' /\ EndStage'
      BY <3>1 DEF MetricsStage, FamilyStage, EndStage
    <3>3. stream' = {} => ~srv'.live
      BY <1>a, <2>2, <3>1 DEF Latest, server
    <3> QED BY <3>1, <3>2, <3>3 DEF RestInv, Awake
  <2> QED BY <2>1, <2>2
<1>2. CASE InitStatus
  <2>1. [inst EXCEPT !.avail = "Unknown"] \in Object
    BY <1>a DEF TypeOK, Object
  <2> QED BY <1>2, <1>a, <2>1, WriteRest DEF InitStatus, Early
<1>3. CASE RefetchInit
  BY <1>3, <1>c, <1>d DEF RefetchInit, Goto, Early
<1>4. CASE AddFinalizer
  <2>1. [inst EXCEPT !.fin = TRUE] \in Object
    BY <1>a DEF TypeOK, Object
  <2>2. CASE inst.fin
    <3>1. AfterFinalizer(inst) \in Early
      BY DEF AfterFinalizer, Early, Deletion
    <3> QED BY <1>4, <1>e, <2>2, <3>1 DEF AddFinalizer
  <2>3. CASE ~inst.fin
    BY <1>4, <1>a, <2>1, <2>3, WriteRest DEF AddFinalizer, Early
  <2> QED BY <2>2, <2>3
<1>5. CASE DegradeUnknown
  <2>1. [inst EXCEPT !.degr = "Unknown"] \in Object
    BY <1>a DEF TypeOK, Object
  <2> QED BY <1>5, <1>a, <2>1, WriteRest DEF DegradeUnknown, Early, Deletion
<1>6. CASE FinalizeBindings
  <2>1. Continue("finRole") \/ Continue("finBindings") \/ Requeue
    BY <1>6 DEF FinalizeBindings
  <2> QED BY <1>6, <1>c, <1>e, <2>1 DEF FinalizeBindings, Continue, Early, Deletion
<1>7. CASE FinalizeRole
  <2>1. Continue("finMetricsBinding") \/ Continue("finBindings") \/ Requeue
    BY <1>7 DEF FinalizeRole
  <2> QED BY <1>7, <1>c, <1>e, <2>1 DEF FinalizeRole, Continue, Early, Deletion
<1>8. CASE FinalizeMetricsBinding
  BY <1>8, <1>e DEF FinalizeMetricsBinding, Early, Deletion
<1>9. CASE FinalizeMetricsRole
  <2>1. Continue("refetchFinal") \/ Requeue
    BY <1>9 DEF FinalizeMetricsRole
  <2> QED BY <1>9, <1>c, <1>e, <2>1 DEF FinalizeMetricsRole, Continue, Early, Deletion
<1>10. CASE RefetchFinal
  BY <1>10, <1>c, <1>d DEF RefetchFinal, Goto, Early, Deletion
<1>11. CASE DegradeTrue
  <2>1. [inst EXCEPT !.degr = "True"] \in Object
    BY <1>a DEF TypeOK, Object
  <2> QED BY <1>11, <1>a, <2>1, WriteRest DEF DegradeTrue, Early, Deletion
<1> QED BY <1>1, <1>2, <1>3, <1>4, <1>5, <1>6, <1>7, <1>8, <1>9, <1>10, <1>11

\* The finalizer is removed only from a Dashboard marked for deletion.
LEMMA ReleaseRest ==
  ASSUME IInv, RestInv, RemoveFinalizer
  PROVE  RestInv'
<1>a. TypeOK /\ Latest /\ srv.fin /\ inst \in Object /\ srv \in Object
  BY DEF IInv, RestInv, RemoveFinalizer, GuardInv, Guarded, Deletion, TypeOK
<1> DEFINE o == [inst EXCEPT !.fin = FALSE]
<1>1. o \in Object /\ ~o.fin
  BY <1>a DEF Object
<1>2. UNCHANGED cache /\ (Store(o) \/ (UNCHANGED server /\ Requeue))
  BY DEF RemoveFinalizer
<1> HIDE DEF o
<1>3. CASE Store(o)
  <2>1. o # srv
    BY <1>a, <1>1
  <2>2. Latest' /\ stream' # {}
    BY <1>a, <1>1, <1>2, <1>3, <2>1, StoreWakes
  <2> QED BY <2>2 DEF RestInv, Awake
<1>4. CASE UNCHANGED server /\ Requeue
  BY <1>a, <1>2, <1>4, Unstored, QueuedRest DEF Requeue
<1> QED BY <1>2, <1>3, <1>4

\* reconcileClusterMetricsRBAC and the step before it.
LEMMA MetricsRest ==
  ASSUME ~LagGrants, IInv, RestInv, TypeOK',
         OwnRBAC \/ Metrics \/ MetricsRole \/ MetricsBinding \/ DropMetricsBinding \/ DropMetricsRole
  PROVE  RestInv'
<1>a. TypeOK /\ metrics' \subseteq MetricsObjects /\ SeenMetrics = metrics
  BY DEF IInv, TypeOK, SeenMetrics
<1>b. UNCHANGED <<server, cache, widget>> /\ pc # "idle"
  BY DEF OwnRBAC, Metrics, MetricsRole, MetricsBinding, DropMetricsBinding, DropMetricsRole,
         env, Main
<1>c. CASE Fail
  BY <1>a, <1>b, <1>c, FailStages, StageRest
<1>d. ASSUME NEW next \in Steps \ {"idle"}, Goto(next), UNCHANGED inst,
             ~Awake => MetricsStage' /\ FamilyStage' /\ EndStage'
      PROVE  RestInv'
  BY <1>b, <1>d, StageRest DEF Goto
<1>1. CASE OwnRBAC /\ ~Fail
  <2>1. Goto("metrics") /\ UNCHANGED inst
    BY <1>1 DEF OwnRBAC, Continue
  <2>2. MetricsStage' /\ FamilyStage' /\ EndStage'
    BY <2>1 DEF Goto, MetricsStage, FamilyStage, EndStage
  <2> QED BY <1>d, <2>1, <2>2 DEF Steps, Main
<1>2. CASE Metrics
  <2>1. pc' = (IF widget THEN "metricsRole" ELSE "dropMetricsBinding")
        /\ UNCHANGED <<queued, inst>>
    BY <1>2 DEF Metrics, Goto
  <2>2. MetricsStage' /\ FamilyStage' /\ EndStage'
    BY <1>b, <2>1 DEF MetricsStage, FamilyStage, EndStage
  <2> QED BY <1>b, <2>1, <2>2, StageRest
<1>3. CASE MetricsRole /\ ~Fail
  <2>1. Goto("metricsBinding") /\ UNCHANGED inst /\ "ClusterRole" \in metrics'
    BY <1>a, <1>3 DEF MetricsRole, EnsureMetrics, Continue
  <2>2. ASSUME ~Awake
        PROVE  MetricsStage' /\ FamilyStage' /\ EndStage'
    <3>1. widget
      BY <1>3, <2>2 DEF MetricsRole, RestInv, MetricsStage
    <3> QED BY <1>b, <2>1, <3>1 DEF Goto, MetricsStage, FamilyStage, EndStage
  <2> QED BY <1>d, <2>1, <2>2 DEF Steps, Main
<1>4. CASE MetricsBinding /\ ~Fail
  <2>1. Goto("family") /\ UNCHANGED inst /\ "ClusterRoleBinding" \in metrics'
        /\ metrics \subseteq metrics' /\ fam' = "disc"
    BY <1>a, <1>4 DEF MetricsBinding, EnsureMetrics, Continue
  <2>2. ASSUME ~Awake
        PROVE  MetricsStage' /\ FamilyStage' /\ EndStage'
    <3>1. widget /\ "ClusterRole" \in metrics
      BY <1>4, <2>2 DEF MetricsBinding, RestInv, MetricsStage
    <3>2. MetricsDone'
      BY <1>a, <1>b, <2>1, <3>1 DEF MetricsDone, MetricsObjects
    <3> QED BY <2>1, <3>2 DEF Goto, MetricsStage, FamilyStage, EndStage
  <2> QED BY <1>d, <2>1, <2>2 DEF Steps, Main
<1>5. CASE DropMetricsBinding
  <2>1. Goto("dropMetricsRole") /\ UNCHANGED inst
        /\ (todo' = {} => "ClusterRoleBinding" \notin metrics')
    BY <1>5 DEF DropMetricsBinding
  <2>2. ASSUME ~Awake
        PROVE  MetricsStage' /\ FamilyStage' /\ EndStage'
    <3>1. ~widget
      BY <1>5, <2>2 DEF DropMetricsBinding, RestInv, MetricsStage
    <3> QED BY <1>b, <2>1, <3>1 DEF Goto, MetricsStage, FamilyStage, EndStage
  <2> QED BY <1>d, <2>1, <2>2 DEF Steps, Main
<1>6. CASE DropMetricsRole /\ ~Fail
  <2>1. /\ Goto("family") /\ UNCHANGED inst /\ todo = {} /\ fam' = "disc"
        /\ metrics' = metrics \ {"ClusterRole"}
    BY <1>6 DEF DropMetricsRole, Continue
  <2>2. ASSUME ~Awake
        PROVE  MetricsStage' /\ FamilyStage' /\ EndStage'
    <3>1. ~widget /\ "ClusterRoleBinding" \notin metrics
      BY <1>6, <2>1, <2>2 DEF DropMetricsRole, RestInv, MetricsStage
    <3>2. MetricsDone'
      BY <1>a, <1>b, <2>1, <3>1 DEF MetricsDone, MetricsObjects
    <3> QED BY <2>1, <3>2 DEF Goto, MetricsStage, FamilyStage, EndStage
  <2> QED BY <1>d, <2>1, <2>2 DEF Steps, Main
<1> QED BY <1>c, <1>1, <1>2, <1>3, <1>4, <1>5, <1>6

\* What the steps of a family leave alone: the metrics, and the other family.
LEMMA OthersKept ==
  ASSUME TypeOK, ~Awake, RestInv, UNCHANGED <<metrics, widget>>, inst'.spec = inst.spec,
         pc \in {"family", "dropBindings", "dropRole", "ensureRole", "persist", "bind", "unbind"},
         \A f \in Families \ {fam} :
           /\ bindings'[f] = bindings[f] /\ inst'.tracked[f] = inst.tracked[f]
           /\ f \in croles' <=> f \in croles
  PROVE  /\ MetricsDone'
         /\ fam = "mon" => FamilyDone("disc")'
<1>1. MetricsDone /\ (fam = "mon" => FamilyDone("disc"))
  BY DEF RestInv, FamilyStage
<1> QED BY <1>1 DEF MetricsDone, FamilyDone, Families

\* Entering the next family, or the pipeline, with this one done.
LEMMA NextFamilyStages ==
  ASSUME TypeOK, NextFamily, NEW g \in Families, g = fam, MetricsDone', FamilyDone(g)',
         fam = "mon" => FamilyDone("disc")'
  PROVE  pc' # "idle" /\ UNCHANGED queued /\ MetricsStage' /\ FamilyStage' /\ EndStage'
<1>1. CASE g = "disc"
  <2>1. fam' = "mon" /\ pc' = "family" /\ UNCHANGED queued
    BY <1>1 DEF NextFamily, Goto
  <2> QED BY <1>1, <2>1 DEF MetricsStage, FamilyStage, EndStage
<1>2. CASE g = "mon"
  <2>1. pc' = "pipeline" /\ UNCHANGED queued
    BY <1>2 DEF NextFamily, Goto
  <2>2. \A f \in Families : FamilyDone(f)'
    BY <1>2 DEF Families
  <2> QED BY <2>1, <2>2 DEF MetricsStage, FamilyStage, EndStage
<1> QED BY <1>1, <1>2 DEF Families

\* A family without desired namespaces.
LEMMA DropRest ==
  ASSUME IInv, RestInv, TypeOK', Family \/ DropBindings \/ DropRole
  PROVE  RestInv'
<1>a. /\ TypeOK /\ inst \in Object /\ inst.tracked \in [Families -> SUBSET NS]
      /\ bindings \in [Families -> SUBSET NS] /\ fam \in Families
  BY DEF IInv, TypeOK, Object
<1>b. /\ UNCHANGED <<server, cache, metrics, widget>> /\ pc # "idle"
      /\ pc \in {"family", "dropBindings", "dropRole"}
  BY DEF Family, DropBindings, DropRole, grants, env
<1>c. CASE Fail
  BY <1>a, <1>b, <1>c, FailStages, StageRest
<1>d. ~Awake => inst.rv = srv.rv /\ FamilyStage
  BY <1>b DEF RestInv
<1>1. CASE Family
  <2>1. UNCHANGED <<inst, fam, bindings, croles, queued>>
    BY <1>1 DEF Family, grants, Goto
  <2>2. pc' = IF Desired(inst.spec, fam) = {} THEN "dropBindings" ELSE "ensureRole"
    BY <1>1 DEF Family, Goto
  <2>3. ASSUME ~Awake
        PROVE  MetricsStage' /\ FamilyStage' /\ EndStage'
    <3>1. MetricsDone' /\ (fam' = "mon" => FamilyDone("disc")')
      BY <1>a, <1>b, <2>1, <2>3, OthersKept
    <3> QED BY <2>1, <2>2, <3>1 DEF MetricsStage, FamilyStage, EndStage
  <2> QED BY <1>b, <2>1, <2>2, <2>3, StageRest
<1>2. CASE DropBindings /\ ~Fail
  <2>1. pc = "dropBindings" /\ UNCHANGED <<fam, croles>>
    BY <1>2 DEF DropBindings
  <2>2. CASE /\ todo = {} /\ inst' = [inst EXCEPT !.tracked[fam] = {}]
             /\ Goto("dropRole") /\ UNCHANGED bindings
    <3>1. /\ inst'.rv = inst.rv /\ inst'.spec = inst.spec
          /\ inst'.tracked = [inst.tracked EXCEPT ![fam] = {}]
      BY <1>a, <2>2 DEF Object
    <3>2. ASSUME ~Awake
          PROVE  MetricsStage' /\ FamilyStage' /\ EndStage'
      <4>1. MetricsDone' /\ (fam' = "mon" => FamilyDone("disc")')
        BY <1>a, <1>b, <2>1, <2>2, <3>1, <3>2, OthersKept
      <4>2. Desired(inst.spec, fam) = {}
        BY <1>d, <2>1, <3>2 DEF FamilyStage
      <4>3. bindings[fam] = {}
        BY <1>a, <1>d, <2>1, <2>2, <3>2 DEF IInv, RecordInv
      <4> QED BY <1>a, <2>1, <2>2, <3>1, <4>1, <4>2, <4>3
              DEF Goto, MetricsStage, FamilyStage, EndStage
    <3> QED BY <1>b, <2>2, <3>1, <3>2, StageRest DEF Goto
  <2>3. CASE Continue("dropBindings") /\ \E n \in todo, out \in Outcomes :
               bindings' = IF out = "error" THEN bindings ELSE [bindings EXCEPT ![fam] = @ \ {n}]
    <3>1. UNCHANGED <<inst, queued>> /\ pc' = "dropBindings"
      BY <2>3 DEF Continue, Goto
    <3>2. \A f \in Families \ {fam} : bindings'[f] = bindings[f]
      BY <1>a, <2>3
    <3>3. ASSUME ~Awake
          PROVE  MetricsStage' /\ FamilyStage' /\ EndStage'
      <4>1. MetricsDone' /\ (fam' = "mon" => FamilyDone("disc")')
        BY <1>a, <1>b, <2>1, <3>1, <3>2, <3>3, OthersKept
      <4>2. Desired(inst.spec, fam) = {}
        BY <1>d, <2>1, <3>3 DEF FamilyStage
      <4> QED BY <2>1, <3>1, <4>1, <4>2 DEF MetricsStage, FamilyStage, EndStage
    <3> QED BY <1>b, <3>1, <3>3, StageRest
  <2> QED BY <1>2, <2>2, <2>3 DEF DropBindings
<1>3. CASE DropRole /\ ~Fail
  <2>1. /\ pc = "dropRole" /\ UNCHANGED <<bindings, inst>> /\ NextFamily
        /\ croles' = croles \ {fam}
    BY <1>3 DEF DropRole
  <2>2. ASSUME ~Awake
        PROVE  MetricsStage' /\ FamilyStage' /\ EndStage'
    <3>1. Desired(inst.spec, fam) = {} /\ bindings[fam] = {} /\ inst.tracked[fam] = {}
      BY <1>d, <2>1, <2>2 DEF FamilyStage
    <3>2. PICK g \in Families : g = fam
      BY <1>a
    <3>3. FamilyDone(g)'
      BY <2>1, <3>1, <3>2 DEF FamilyDone
    <3>4. MetricsDone' /\ (fam = "mon" => FamilyDone("disc")')
      BY <1>a, <1>b, <2>1, <2>2, OthersKept
    <3> QED BY <1>a, <2>1, <3>2, <3>3, <3>4, NextFamilyStages
  <2>3. pc' # "idle" /\ UNCHANGED queued
    BY <2>1 DEF NextFamily, Goto
  <2> QED BY <1>b, <2>1, <2>2, <2>3, StageRest
<1> QED BY <1>c, <1>1, <1>2, <1>3

\* A family with desired namespaces, up to the record.
LEMMA GrantRest ==
  ASSUME ~LagGrants, IInv, RestInv, TypeOK', EnsureRole \/ Persist
  PROVE  RestInv'
<1>a. /\ TypeOK /\ inst \in Object /\ inst.tracked \in [Families -> SUBSET NS]
      /\ bindings \in [Families -> SUBSET NS] /\ fam \in Families /\ SeenRoles = croles
  BY DEF IInv, TypeOK, Object, SeenRoles
<1>b. /\ UNCHANGED <<cache, fam, bindings, metrics, widget>> /\ pc # "idle"
      /\ pc \in {"ensureRole", "persist"}
  BY DEF EnsureRole, Persist, grants, env
<1>c. ~Awake => FamilyStage
  BY <1>b DEF RestInv
<1>1. CASE EnsureRole
  <2>1. pc = "ensureRole" /\ UNCHANGED server
    BY <1>1 DEF EnsureRole
  <2>2. CASE Fail
    BY <1>a, <1>b, <2>1, <2>2, FailStages, StageRest
  <2>3. CASE ~Fail
    <3>1. /\ Goto("persist") /\ UNCHANGED inst /\ fam \in croles'
          /\ \A f \in Families \ {fam} : f \in croles' <=> f \in croles
      BY <1>a, <1>1, <2>3 DEF EnsureRole, Continue
    <3>2. ASSUME ~Awake
          PROVE  MetricsStage' /\ FamilyStage' /\ EndStage'
      <4>1. MetricsDone' /\ (fam' = "mon" => FamilyDone("disc")')
        BY <1>a, <1>b, <2>1, <3>1, <3>2, OthersKept
      <4>2. Desired(inst.spec, fam) # {}
        BY <1>c, <2>1, <3>2 DEF FamilyStage
      <4> QED BY <1>b, <3>1, <4>1, <4>2 DEF Goto, MetricsStage, FamilyStage, EndStage
    <3> QED BY <1>b, <2>1, <3>1, <3>2, StageRest DEF Goto
  <2> QED BY <2>2, <2>3
<1>2. CASE Persist
  <2> DEFINE D == Desired(inst.spec, fam)
             o == [inst EXCEPT !.tracked[fam] = @ \cup D]
  <2>1. pc = "persist" /\ todo' = D /\ croles' = croles /\ D \subseteq NS
    BY <1>a, <1>2, DesiredType DEF Persist, grants, Object
  <2>2. /\ o \in Object /\ o.spec = inst.spec /\ o.rv = inst.rv
        /\ \A f \in Families \ {fam} : o.tracked[f] = inst.tracked[f]
    <3>1. o.tracked = [inst.tracked EXCEPT ![fam] = inst.tracked[fam] \cup D]
      BY <1>a DEF Object
    <3>2. o.tracked \in [Families -> SUBSET NS] /\ o.spec = inst.spec /\ o.rv = inst.rv
      BY <1>a, <2>1, <3>1 DEF Object
    <3>3. o \in Object
      BY <1>a, <2>1 DEF Object
    <3> QED BY <1>a, <3>1, <3>2, <3>3
  <2>3. PICK out \in Outcomes :
          /\ IF out # "error" /\ CanWrite THEN Store(o) ELSE UNCHANGED server
          /\ IF out = "ok" /\ CanWrite
               THEN inst' = srv' /\ Goto("bind")
               ELSE inst' = [o EXCEPT !.avail = "False"] /\ Goto("finish")
    BY <1>2 DEF Persist, PersistInst
  <2>4. [o EXCEPT !.avail = "False"].rv = inst.rv /\ [o EXCEPT !.avail = "False"].avail = "False"
    BY <2>2 DEF Object
  <2> HIDE DEF o
  <2>5. Latest' /\ (stream' = {} => srv' = srv /\ stream = {})
    BY <1>a, <1>b, <2>2, <2>3, StoreWakes, Unstored DEF RestInv, server
  <2>6. UNCHANGED queued /\ pc' # "idle"
    BY <2>3 DEF Goto
  <2>7. CASE inst' = [o EXCEPT !.avail = "False"] /\ Goto("finish")
    <3>1. MetricsStage' /\ FamilyStage' /\ EndStage'
      BY <2>4, <2>7 DEF Goto, MetricsStage, FamilyStage, EndStage
    <3> QED BY <1>b, <2>4, <2>5, <2>6, <2>7, <3>1 DEF RestInv, Awake
  <2>8. CASE Store(o) /\ inst' = srv' /\ Goto("bind")
    <3>1. ASSUME ~Awake'
          PROVE  inst'.rv = srv'.rv /\ MetricsStage' /\ FamilyStage' /\ EndStage'
      <4>1. ~Awake /\ inst' = o
        <5>1. stream' = {} /\ ~queued'
          BY <3>1 DEF Awake
        <5>2. o = srv /\ srv' = srv
          BY <1>a, <1>b, <2>2, <2>8, <5>1, StoreWakes DEF RestInv
        <5> QED BY <2>5, <2>6, <2>8, <5>1, <5>2 DEF Awake
      <4>2. MetricsDone' /\ (fam' = "mon" => FamilyDone("disc")')
        BY <1>a, <1>b, <2>1, <2>2, <4>1, OthersKept
      <4>3. D # {} /\ fam \in croles
        BY <1>c, <2>1, <4>1 DEF FamilyStage
      <4>4. Desired(inst'.spec, fam') = D
        BY <1>b, <2>2, <4>1
      <4> QED BY <1>b, <2>1, <2>8, <4>2, <4>3, <4>4 DEF Goto, MetricsStage, FamilyStage, EndStage
    <3> QED BY <2>5, <2>6, <3>1 DEF RestInv
  <2> QED BY <2>3, <2>7, <2>8
<1> QED BY <1>1, <1>2

\* The loops over the namespaces of a family with desired namespaces.
LEMMA BindRest ==
  ASSUME ~LagGrants, IInv, RestInv, TypeOK', Bind \/ Unbind
  PROVE  RestInv'
<1>a. /\ TypeOK /\ inst \in Object /\ inst.tracked \in [Families -> SUBSET NS]
      /\ bindings \in [Families -> SUBSET NS] /\ fam \in Families /\ SeenBindings = bindings
  BY DEF IInv, TypeOK, Object, SeenBindings
<1>b. /\ UNCHANGED <<server, cache, croles, metrics, widget>> /\ pc # "idle"
      /\ pc \in {"bind", "unbind"}
  BY DEF Bind, Unbind, env
<1>c. CASE Fail
  BY <1>a, <1>b, <1>c, FailStages, StageRest
<1>d. ~Awake => inst.rv = srv.rv /\ FamilyStage
  BY <1>b DEF RestInv
<1>1. CASE Bind /\ ~Fail
  <2>1. pc = "bind" /\ UNCHANGED fam
    BY <1>1 DEF Bind
  <2>2. CASE /\ todo = {} /\ Goto("unbind")
             /\ todo' = inst.tracked[fam] \ Desired(inst.spec, fam)
             /\ UNCHANGED <<inst, bindings>>
    <3>1. ASSUME ~Awake
          PROVE  MetricsStage' /\ FamilyStage' /\ EndStage'
      <4>1. MetricsDone' /\ (fam' = "mon" => FamilyDone("disc")')
        BY <1>a, <1>b, <2>1, <2>2, <3>1, OthersKept
      <4>2. /\ Desired(inst.spec, fam) # {} /\ fam \in croles
            /\ Desired(inst.spec, fam) \subseteq bindings[fam]
        BY <1>d, <2>1, <2>2, <3>1 DEF FamilyStage
      <4> QED BY <1>b, <2>1, <2>2, <4>1, <4>2 DEF Goto, MetricsStage, FamilyStage, EndStage
    <3> QED BY <1>b, <2>2, <3>1, StageRest DEF Goto
  <2>3. CASE /\ Goto("bind") /\ UNCHANGED inst
             /\ \E n \in todo : todo' = todo \ {n}
                  /\ \/ n \in bindings[fam] /\ UNCHANGED bindings
                     \/ bindings' = [bindings EXCEPT ![fam] = @ \cup {n}]
    <3>1. /\ \A f \in Families \ {fam} : bindings'[f] = bindings[f]
          /\ bindings[fam] \cup todo \subseteq bindings'[fam] \cup todo'
      BY <1>a, <2>3
    <3>2. ASSUME ~Awake
          PROVE  MetricsStage' /\ FamilyStage' /\ EndStage'
      <4>1. MetricsDone' /\ (fam' = "mon" => FamilyDone("disc")')
        BY <1>a, <1>b, <2>1, <2>3, <3>1, <3>2, OthersKept
      <4>2. /\ Desired(inst.spec, fam) # {} /\ fam \in croles
            /\ Desired(inst.spec, fam) \subseteq bindings[fam] \cup todo
        BY <1>d, <2>1, <3>2 DEF FamilyStage
      <4> QED BY <1>b, <2>1, <2>3, <3>1, <4>1, <4>2 DEF Goto, MetricsStage, FamilyStage, EndStage
    <3> QED BY <1>b, <2>3, <3>2, StageRest DEF Goto
  <2> QED BY <1>a, <1>1, <2>2, <2>3 DEF Bind, Continue
<1>2. CASE Unbind /\ ~Fail
  <2>1. pc = "unbind"
    BY <1>2 DEF Unbind
  <2>2. CASE /\ todo = {} /\ inst' = [inst EXCEPT !.tracked[fam] = Desired(inst.spec, fam)]
             /\ NextFamily /\ UNCHANGED bindings
    <3>1. /\ inst'.rv = inst.rv /\ inst'.spec = inst.spec
          /\ inst'.tracked = [inst.tracked EXCEPT ![fam] = Desired(inst.spec, fam)]
      BY <1>a, <2>2 DEF Object
    <3>2. ASSUME ~Awake
          PROVE  MetricsStage' /\ FamilyStage' /\ EndStage'
      <4>1. MetricsDone' /\ (fam = "mon" => FamilyDone("disc")')
        BY <1>a, <1>b, <2>1, <2>2, <3>1, <3>2, OthersKept
      <4>2. /\ Desired(inst.spec, fam) # {} /\ fam \in croles
            /\ Desired(inst.spec, fam) \subseteq bindings[fam]
        BY <1>d, <2>1, <3>2 DEF FamilyStage
      <4>3. bindings[fam] \subseteq Desired(inst.spec, fam)
        BY <1>d, <2>1, <2>2, <3>2 DEF IInv, RecordInv
      <4>4. PICK g \in Families : g = fam
        BY <1>a
      <4>5. FamilyDone(g)'
        BY <1>a, <1>b, <2>2, <3>1, <4>2, <4>3, <4>4 DEF FamilyDone
      <4> QED BY <1>a, <2>2, <4>1, <4>4, <4>5, NextFamilyStages
    <3>3. pc' # "idle" /\ UNCHANGED queued
      BY <2>2 DEF NextFamily, Goto
    <3> QED BY <1>b, <3>1, <3>2, <3>3, StageRest
  <2>3. CASE /\ Goto("unbind") /\ UNCHANGED <<inst, fam>>
             /\ \E n \in todo : todo' = todo \ {n}
                  /\ bindings' \in {bindings, [bindings EXCEPT ![fam] = @ \ {n}]}
    <3>1. PICK n \in todo : /\ todo' = todo \ {n}
                            /\ bindings' \in {bindings, [bindings EXCEPT ![fam] = @ \ {n}]}
      BY <2>3
    <3>2. /\ \A f \in Families \ {fam} : bindings'[f] = bindings[f]
          /\ bindings[fam] \ {n} \subseteq bindings'[fam]
      BY <1>a, <3>1
    <3>3. ASSUME ~Awake
          PROVE  MetricsStage' /\ FamilyStage' /\ EndStage'
      <4>1. MetricsDone' /\ (fam' = "mon" => FamilyDone("disc")')
        BY <1>a, <1>b, <2>3, <3>2, <3>3, OthersKept
      <4>2. /\ Desired(inst.spec, fam) # {} /\ fam \in croles
            /\ Desired(inst.spec, fam) \subseteq bindings[fam]
            /\ todo \cap Desired(inst.spec, fam) = {}
        BY <1>d, <2>1, <3>3 DEF FamilyStage
      <4>3. Desired(inst.spec, fam) \subseteq bindings'[fam]
        BY <3>1, <3>2, <4>2
      <4> QED BY <1>b, <2>3, <3>1, <4>1, <4>2, <4>3
              DEF Goto, MetricsStage, FamilyStage, EndStage
    <3> QED BY <1>b, <2>3, <3>3, StageRest DEF Goto
  <2> QED BY <1>2, <2>2, <2>3 DEF Unbind, Continue
<1> QED BY <1>c, <1>1, <1>2

\* A copy that is the stored Dashboard and has every family done leaves nothing
\* to do.
LEMMA AllDone ==
  ASSUME TypeOK, inst = srv, inst.avail = "True", MetricsDone, \A f \in Families : FamilyDone(f)
  PROVE  WorkDone
<1>1. srv.tracked \in [Families -> SUBSET NS] /\ bindings \in [Families -> SUBSET NS]
  BY DEF TypeOK, Object
<1>2. \A f \in Families : srv.tracked[f] = bindings[f]
  BY DEF FamilyDone
<1>3. srv.tracked = bindings
  BY <1>1, <1>2
<1>4. croles = {f \in Families : Desired(srv.spec, f) # {}}
  BY DEF FamilyDone, TypeOK
<1>5. GrantsMatchSpec
  BY <1>4 DEF GrantsMatchSpec, FamilyDone, MetricsDone
<1> QED BY <1>3, <1>5 DEF WorkDone

\* The end of Reconcile.
LEMMA EndRest ==
  ASSUME IInv, RestInv, TypeOK', Pipeline \/ Finish
  PROVE  RestInv'
<1>a. TypeOK /\ inst \in Object /\ cache \in Object /\ Latest
  BY DEF IInv, RestInv, TypeOK
<1>b. UNCHANGED <<cache, fam, todo, bindings, croles, metrics, widget>> /\ pc # "idle"
  BY DEF Pipeline, Finish, grants, env
<1>1. CASE Pipeline
  <2>1. pc = "pipeline" /\ UNCHANGED server
    BY <1>1 DEF Pipeline
  <2>2. CASE Requeue
    BY <1>a, <1>b, <2>1, <2>2, Unstored, QueuedRest DEF Requeue
  <2>3. CASE Fail
    BY <1>a, <1>b, <2>1, <2>3, FailStages, StageRest
  <2>4. CASE inst' = [cache EXCEPT !.avail = "False"] /\ Goto("finish")
    <3>1. inst'.rv = cache.rv /\ inst'.avail = "False"
      BY <1>a, <2>4 DEF Object
    <3>2. MetricsStage' /\ FamilyStage' /\ EndStage' /\ pc' # "idle"
      BY <2>4, <3>1 DEF Goto, MetricsStage, FamilyStage, EndStage
    <3> QED BY <1>b, <2>1, <3>1, <3>2, ReadRest
  <2>5. CASE inst' = [inst EXCEPT !.avail = "True"] /\ Goto("finish")
    <3>1. inst'.rv = inst.rv /\ inst'.spec = inst.spec /\ inst'.tracked = inst.tracked
      BY <1>a, <2>5 DEF Object
    <3>2. ASSUME ~Awake
          PROVE  MetricsStage' /\ FamilyStage' /\ EndStage'
      <4>1. MetricsDone /\ \A f \in Families : FamilyDone(f)
        BY <2>1, <3>2 DEF RestInv, EndStage
      <4>2. MetricsDone' /\ \A f \in Families : FamilyDone(f)'
        BY <1>b, <3>1, <4>1 DEF MetricsDone, FamilyDone
      <4> QED BY <2>5, <4>2 DEF Goto, MetricsStage, FamilyStage, EndStage
    <3> QED BY <1>b, <2>1, <2>5, <3>1, <3>2, StageRest DEF Goto
  <2> QED BY <1>1, <2>2, <2>3, <2>4, <2>5 DEF Pipeline
<1>2. CASE Finish
  <2>1. Store(inst) \/ UNCHANGED server
    BY <1>2 DEF Finish
  <2>2. Latest'
    BY <1>a, <1>b, <2>1, StoreWakes, Unstored
  <2>3. CASE Requeue
    BY <2>2, <2>3, QueuedRest DEF Requeue
  <2>4. CASE Done /\ Store(inst) /\ inst.avail = "True"
    <3>1. ASSUME ~Awake'
          PROVE  WorkDone'
      <4>1. stream' = {} /\ ~queued
        BY <2>4, <3>1 DEF Awake, Done
      <4>2. inst = srv /\ srv' = srv /\ ~Awake
        BY <1>a, <1>b, <2>4, <4>1, StoreWakes DEF Awake
      <4>3. MetricsDone /\ \A f \in Families : FamilyDone(f)
        BY <1>2, <2>4, <4>2 DEF Finish, RestInv, EndStage
      <4>4. WorkDone
        BY <1>a, <2>4, <4>2, <4>3, AllDone
      <4> QED BY <1>b, <4>2, <4>4 DEF WorkDone, GrantsMatchSpec
    <3>2. pc' = "idle"
      BY <2>4 DEF Done
    <3>3. MetricsStage' /\ FamilyStage' /\ EndStage'
      BY <3>2 DEF MetricsStage, FamilyStage, EndStage
    <3> QED BY <2>2, <3>1, <3>2, <3>3 DEF RestInv
  <2> QED BY <1>2, <2>3, <2>4 DEF Finish
<1> QED BY <1>1, <1>2

\* Nothing that RestInv speaks of changes but, perhaps, the queue fills.
LEMMA SameRest ==
  ASSUME RestInv, UNCHANGED <<srv, stream, cache, inst, pc, fam, todo, queued, bindings, croles,
                              metrics, widget>>
  PROVE  RestInv'
BY DEF RestInv, Latest, Awake, MetricsStage, FamilyStage, EndStage, MetricsDone, FamilyDone,
       WorkDone, GrantsMatchSpec

\* The watches and a crash queue the Dashboard; a write by a user or the garbage
\* collector leaves an event on its way.
LEMMA OutsideRest ==
  ASSUME ~LagGrants, IInv, RestInv, TypeOK', Watches \/ Crash \/ Users
  PROVE  RestInv'
<1>a. /\ TypeOK /\ Latest /\ srv \in Object /\ srv.rv \in Nat /\ cache.rv \in Nat
      /\ \A v \in stream : v.rv \in Nat
  BY DEF IInv, RestInv, TypeOK, Object
<1>b. ASSUME NEW o \in Object, Store(o),
             UNCHANGED <<cache, inst, pc, fam, todo, queued, grants, widget>>
      PROVE  RestInv'
  <2>1. Latest' /\ (stream' = {} => srv' = srv /\ stream = {})
    BY <1>a, <1>b, StoreWakes
  <2>2. CASE stream' = {}
    BY <1>b, <2>1, <2>2, SameRest DEF grants
  <2>3. CASE stream' # {}
    BY <2>1, <2>3 DEF RestInv, Awake
  <2> QED BY <2>2, <2>3
<1>1. CASE Deliver
  <2>1. PICK v \in stream : cache' = v /\ stream' = {w \in stream : w.rv > v.rv}
    BY <1>1 DEF Deliver
  <2>2. srv' = srv /\ queued'
    BY <1>1 DEF Deliver
  <2>3. cache.rv < v.rv /\ v.rv <= srv.rv /\ (v.rv = srv.rv => v = srv)
    BY DEF IInv, VersionsInv
  <2>4. srv \in stream
    BY <1>a, <2>3 DEF Latest
  <2>5. Latest'
    <3>1. CASE v.rv = srv.rv
      BY <2>1, <2>2, <2>3, <3>1 DEF Latest
    <3>2. CASE v.rv # srv.rv
      <4>1. srv.rv > v.rv
        BY <1>a, <2>3, <3>2
      <4> QED BY <2>1, <2>2, <2>4, <4>1 DEF Latest
    <3> QED BY <3>1, <3>2
  <2> QED BY <2>2, <2>5, QueuedRest
<1>2. CASE SyncGrants
  BY <1>2 DEF SyncGrants
<1>3. CASE Crash
  <2>1. Latest' /\ queued'
    BY <1>3 DEF Crash, Latest
  <2> QED BY <2>1, QueuedRest
<1>4. CASE Create
  <2>1. PICK s \in Specs : Store(Fresh(s, srv.rv))
    BY <1>4 DEF Create
  <2>2. Fresh(s, srv.rv) \in Object
    BY <1>a, ConstantsAssumption DEF Fresh, Object, None
  <2> QED BY <1>4, <1>b, <2>1, <2>2 DEF Create
<1>5. CASE Edit
  <2>1. PICK s \in Specs : Store([srv EXCEPT !.spec = s])
    BY <1>5 DEF Edit
  <2>2. [srv EXCEPT !.spec = s] \in Object
    BY <1>a, ConstantsAssumption DEF Object
  <2> QED BY <1>5, <1>b, <2>1, <2>2 DEF Edit
<1>6. CASE Delete
  <2>1. PICK fg \in {FALSE, Foreground} :
          Store([srv EXCEPT !.deleting = TRUE, !.otherFin = fg])
    BY <1>6 DEF Delete
  <2>2. [srv EXCEPT !.deleting = TRUE, !.otherFin = fg] \in Object
    BY <1>a, ConstantsAssumption DEF Object
  <2> QED BY <1>6, <1>b, <2>1, <2>2 DEF Delete
<1>7. CASE DropOtherFinalizer
  <2>1. [srv EXCEPT !.otherFin = FALSE] \in Object
    BY <1>a DEF Object
  <2> QED BY <1>7, <1>b, <2>1 DEF DropOtherFinalizer, env
<1>8. CASE ToggleWidget \/ ChangeHealth
  <2>1. UNCHANGED <<server, cache>> /\ queued'
    BY <1>8 DEF ToggleWidget, ChangeHealth
  <2> QED BY <1>a, <2>1, Unstored, QueuedRest
<1> QED BY <1>1, <1>2, <1>3, <1>4, <1>5, <1>6, <1>7, <1>8 DEF Watches, Users

LEMMA NextRest ==
  ASSUME ~LagGrants, IInv, IInv', RestInv, [Next]_vars
  PROVE  RestInv'
<1>1. TypeOK'
  BY DEF IInv
<1>2. CASE Next
  BY <1>1, <1>2, EarlyRest, ReleaseRest, MetricsRest, DropRest, GrantRest, BindRest, EndRest,
     OutsideRest DEF Next, Reconcile
<1>3. CASE UNCHANGED vars
  BY <1>3, SameRest DEF vars
<1> QED BY <1>2, <1>3

\* A Dashboard that is not being deleted, and for which no reconcile runs or is
\* queued, reports Available=True, has exactly the grants its spec asks for and
\* records exactly those, whatever edits, conflicts, lost answers and crashes
\* came before, as long as the RBAC informers show what is stored.
THEOREM QuiescentAlwaysMatchesSpec ==
  ASSUME ~LagGrants
  PROVE  Spec => []QuiescentMatchesSpec
<1>1. Init => RestInv
  <2> SUFFICES ASSUME Init PROVE RestInv
    OBVIOUS
  <2>1. ~srv.live /\ pc = "idle" /\ cache = srv
    BY AbsentFacts DEF Init
  <2> QED BY <2>1, EarlyStages DEF RestInv, Latest
<1>2. IInv /\ IInv' /\ RestInv /\ [Next]_vars => RestInv'
  BY NextRest
<1>3. RestInv => QuiescentMatchesSpec
  BY DEF RestInv, Awake, QuiescentMatchesSpec, Quiescent, WorkDone
<1> QED BY <1>1, <1>2, <1>3, Inductive, PTL DEF Spec
=============================================================================

------------------------- MODULE BoundConfigProofs -------------------------
(***************************************************************************)
(* Once the controllers are quiet, every config object's Available         *)
(* condition agrees with BoundTo: for any Dashboards, objects and specs,   *)
(* any number of edits and of Dashboards that come and go, and whether or  *)
(* not the Dashboard informer lags.                                        *)
(*                                                                         *)
(* BindInv is inductive: an object whose status is not what its controller *)
(* would write now is in the queue, or is being written by a reconcile     *)
(* that read what is current or whose write will be refused.               *)
(***************************************************************************)
EXTENDS BoundConfig, FiniteSetTheorems, TLAPS

AtMostOne(S) == S = {} \/ \E s : S = {s}

Validities == {"none", "ConfigValid", "UnknownConfigKeys", "InvalidWidgetConfig"}
Reasons == {"none", "Bound", "DashboardNotFound", "AmbiguousDashboardRef",
            "InvalidWidgetConfig"}
Conditions == [status : BOOLEAN, reason : Reasons, names : SUBSET Names]

ConfigObject(o) ==
    {obj \in [spec : CardSpecs[o], generation : Nat, available : Conditions,
              configValid : Validities, observed : Nat] : obj.observed <= obj.generation}

ObjectsOK ==
    /\ DOMAIN object = Objects
    /\ \A o \in Objects : object[o] \subseteq ConfigObject(o) /\ AtMostOne(object[o])

PendingOK ==
    /\ DOMAIN pending = Objects
    /\ \A o \in Objects : /\ pending[o] \subseteq [old : ConfigObject(o), new : ConfigObject(o)]
                          /\ AtMostOne(pending[o])

\* What the informer has not told yet it has still to tell; it tells at once
\* when it does not lag.
CacheCatchesUp ==
    /\ \A d \in Names : (d \in stored) # (d \in seen) => d \in news
    /\ ~LagDashboards => news = {}

\* The status of o is what its controller would write now, or will be looked at.
Attended(o, obj) ==
    \/ o \in objectQueue
    \/ obj = Reconciled(o, obj, seen)
    \/ \E p \in pending[o] : p.old # obj \/ p.new = Reconciled(o, obj, seen)

BindInv ==
    /\ TypeOK /\ ObjectsOK /\ PendingOK /\ AtMostOne(at)
    /\ CacheCatchesUp
    /\ \A o \in Objects : \A obj \in object[o] : Attended(o, obj)

LEMMA SmallSets == ASSUME NEW S, AtMostOne(S) PROVE Cardinality(S) <= 1
<1>1. CASE S = {}
  BY <1>1, FS_EmptySet
<1>2. ASSUME NEW s, S = {s} PROVE Cardinality(S) <= 1
  BY <1>2, FS_Singleton
<1> QED  BY <1>1, <1>2 DEF AtMostOne

-----------------------------------------------------------------------------
(***************************************************************************)
(* What a controller writes.                                               *)
(***************************************************************************)
LEMMA NoDashboardCondition ==
  boundDashboardCondition(Unset, {}) = Condition(FALSE, "DashboardNotFound", {})
<1>1. Cardinality({}) # 1
  BY FS_EmptySet
<1> QED  BY <1>1 DEF boundDashboardCondition

LEMMA ConditionType ==
  ASSUME NEW ref \in Names \cup {Unset}, NEW D \in SUBSET Names
  PROVE  boundDashboardCondition(ref, D) \in Conditions
<1>1. \A b \in BOOLEAN, r \in Reasons, n \in SUBSET Names : Condition(b, r, n) \in Conditions
  BY DEF Condition, Conditions
<1> DEFINE C == boundDashboardCondition(ref, D)
<1>2. CASE ref # Unset /\ ref \notin D
  <2>1. C = Condition(FALSE, "DashboardNotFound", {ref})
    BY <1>2 DEF boundDashboardCondition
  <2> QED  BY <1>1, <1>2, <2>1 DEF Reasons
<1>3. CASE ref # Unset /\ ref \in D
  <2>1. C = Condition(TRUE, "Bound", {ref})
    BY <1>3 DEF boundDashboardCondition
  <2> QED  BY <1>1, <1>3, <2>1 DEF Reasons
<1>4. CASE ref = Unset /\ D = {}
  <2>1. C = Condition(FALSE, "DashboardNotFound", {})
    BY <1>4, NoDashboardCondition
  <2> QED  BY <1>1, <2>1 DEF Reasons
<1>5. CASE ref = Unset /\ D # {}
  <2>1. \/ C = Condition(TRUE, "Bound", D)
        \/ C = Condition(FALSE, "AmbiguousDashboardRef", D)
    BY <1>5 DEF boundDashboardCondition
  <2> QED  BY <1>1, <2>1 DEF Reasons
<1> QED  BY <1>2, <1>3, <1>4, <1>5

LEMMA ValidityType ==
  ASSUME NEW o, NEW obj PROVE validity(o, obj) \in Validities
  BY DEF validity, validateWidgetConfigs, Validities

LEMMA ReconciledFacts ==
  ASSUME NEW o \in Objects, NEW obj \in ConfigObject(o), NEW D \in SUBSET Names
  PROVE  /\ Reconciled(o, obj, D) \in ConfigObject(o)
         /\ Reconciled(o, obj, D).observed = obj.generation
         /\ Reconciled(o, obj, D).available =
              IF boundDashboardCondition(obj.spec.ref, D).status
                   /\ validity(o, obj) = "InvalidWidgetConfig"
              THEN Condition(FALSE, "InvalidWidgetConfig", {})
              ELSE boundDashboardCondition(obj.spec.ref, D)
<1> DEFINE cond  == boundDashboardCondition(obj.spec.ref, D)
           valid == validity(o, obj)
           avail == IF cond.status /\ valid = "InvalidWidgetConfig"
                    THEN Condition(FALSE, valid, {}) ELSE cond
<1>1. obj.spec.ref \in Names \cup {Unset}
  BY BoundAssumption DEF ConfigObject
<1>2. cond \in Conditions /\ valid \in Validities
  BY <1>1, ConditionType, ValidityType
<1>3. Condition(FALSE, "InvalidWidgetConfig", {}) \in Conditions
  BY DEF Condition, Conditions, Reasons
<1>4. avail \in Conditions
  BY <1>2, <1>3
<1>5. Reconciled(o, obj, D) =
        [obj EXCEPT !.available = avail, !.configValid = valid, !.observed = obj.generation]
  BY DEF Reconciled
<1> HIDE DEF avail, valid, cond
<1>6. /\ Reconciled(o, obj, D).observed = obj.generation
      /\ Reconciled(o, obj, D).generation = obj.generation
      /\ Reconciled(o, obj, D).available = avail
  BY <1>5 DEF ConfigObject
<1>7. Reconciled(o, obj, D) \in [spec : CardSpecs[o], generation : Nat,
        available : Conditions, configValid : Validities, observed : Nat]
  BY <1>2, <1>4, <1>5 DEF ConfigObject
<1>8. Reconciled(o, obj, D) \in ConfigObject(o)
  BY <1>6, <1>7 DEF ConfigObject
<1> QED  BY <1>6, <1>8 DEF avail, valid, cond

\* A Dashboard that an object does not name makes no difference to it, unless
\* the object names none (mapDashboardToRequests relies on it).
LEMMA OthersIrrelevant ==
  ASSUME NEW o, NEW obj, NEW D, NEW E, NEW d,
         \A e : e # d => (e \in D <=> e \in E),
         obj.spec.ref \notin {d, Unset}
  PROVE  Reconciled(o, obj, D) = Reconciled(o, obj, E)
<1>1. boundDashboardCondition(obj.spec.ref, D) = boundDashboardCondition(obj.spec.ref, E)
  BY DEF boundDashboardCondition
<1> QED  BY <1>1 DEF Reconciled

-----------------------------------------------------------------------------
(***************************************************************************)
(* BindInv holds at first, and every action keeps it.                      *)
(***************************************************************************)
\* The parts of the type invariant that are about object follow from ObjectsOK.
LEMMA ObjectsTyped ==
  ASSUME NEW f, \A o \in Objects : f[o] \subseteq ConfigObject(o) /\ AtMostOne(f[o])
  PROVE  /\ \A o \in Objects : Cardinality(f[o]) <= 1
         /\ \A o \in Objects : \A obj \in f[o] : obj.observed <= obj.generation
<1>1. \A o \in Objects : Cardinality(f[o]) <= 1
  BY SmallSets
<1>2. \A o \in Objects : \A obj \in f[o] : obj.observed <= obj.generation
  BY DEF ConfigObject
<1> QED  BY <1>1, <1>2

\* A new object has an observed generation of 0, and no condition.
LEMMA NewObjectFacts ==
  ASSUME NEW o \in Objects, NEW s \in CardSpecs[o] PROVE NewObject(s) \in ConfigObject(o)
<1>1. NotReconciled \in Conditions
  BY DEF NotReconciled, Condition, Conditions, Reasons
<1> QED  BY <1>1 DEF NewObject, ConfigObject, Validities

LEMMA InitBind == Init => BindInv
<1> SUFFICES ASSUME Init PROVE BindInv
  OBVIOUS
<1> USE DEF Init
<1>1. ObjectsOK
  <2>1. DOMAIN object = Objects
    OBVIOUS
  <2>2. ASSUME NEW o \in Objects
        PROVE  object[o] \subseteq ConfigObject(o) /\ AtMostOne(object[o])
    <3>1. object[o] \in {{}} \cup {{NewObject(s)} : s \in UNION {CardSpecs[x] : x \in Objects}}
      OBVIOUS
    <3>2. CASE object[o] = {}
      BY <3>2 DEF AtMostOne
    <3>3. ASSUME NEW s, object[o] = {NewObject(s)}
          PROVE  object[o] \subseteq ConfigObject(o) /\ AtMostOne(object[o])
      <4>1. s \in CardSpecs[o]
        <5>1. NewObject(s).spec = s
          BY DEF NewObject
        <5>2. NewObject(s).spec \in CardSpecs[o]
          BY <3>3
        <5> QED  BY <5>1, <5>2
      <4> QED  BY <3>3, <4>1, NewObjectFacts DEF AtMostOne
    <3> QED  BY <3>1, <3>2, <3>3
  <2> QED  BY <2>1, <2>2 DEF ObjectsOK
<1>2. TypeOK
  <2>1. Cardinality(at) <= 1 /\ Cardinality(Objects) \in Nat
    BY FS_EmptySet, FS_CardinalityType, BoundAssumption DEF Idle
  <2>2. count \in [Names -> 0..Cardinality(Objects)]
    BY <2>1
  <2>3. \A o \in Objects : Cardinality(object[o]) <= 1
    BY <1>1, ObjectsTyped DEF ObjectsOK
  <2>4. \A o \in Objects : \A obj \in object[o] : obj.observed <= obj.generation
    BY <1>1, ObjectsTyped DEF ObjectsOK
  <2> QED  BY <2>1, <2>2, <2>3, <2>4 DEF TypeOK
<1>3. PendingOK /\ AtMostOne(at) /\ CacheCatchesUp
  BY DEF PendingOK, AtMostOne, CacheCatchesUp, Idle
<1>4. \A o \in Objects : \A obj \in object[o] : Attended(o, obj)
  BY DEF Attended
<1> QED  BY <1>1, <1>2, <1>3, <1>4 DEF BindInv

\* An object's event: the object is queued if it changed, no other is taken
\* from the queue, and the Dashboards woken are Dashboards.
LEMMA ObjectEventFacts ==
  ASSUME BindInv, NEW o \in Objects, NEW old, NEW new, ObjectEvent(o, old, new),
         old \subseteq ConfigObject(o), new \subseteq ConfigObject(o), AtMostOne(new)
  PROVE  /\ ObjectsOK'
         /\ object'[o] = new /\ \A x \in Objects \ {o} : object'[x] = object[x]
         /\ dashQueue' \subseteq Names /\ objectQueue' \subseteq Objects
         /\ objectQueue \subseteq objectQueue'
         /\ old # new => o \in objectQueue'
<1>1. /\ object' = [object EXCEPT ![o] = new] /\ DOMAIN object = Objects
      /\ \A x \in Objects : object[x] \subseteq ConfigObject(x) /\ AtMostOne(object[x])
  BY DEF ObjectEvent, BindInv, ObjectsOK
<1>2. object'[o] = new /\ \A x \in Objects \ {o} : object'[x] = object[x]
  BY <1>1
<1>3. DOMAIN object' = Objects
  BY <1>1
<1>4. ObjectsOK'
  BY <1>1, <1>2, <1>3 DEF ObjectsOK
<1>5. ASSUME NEW v \in old \cup new PROVE mapToDashboard(v.spec.ref) \subseteq Names
  <2>1. v.spec.ref \in Names \cup {Unset}
    BY BoundAssumption DEF ConfigObject
  <2> QED  BY <2>1 DEF mapToDashboard, BindInv, TypeOK
<1>6. UNION {mapToDashboard(v.spec.ref) : v \in old \cup new} \subseteq Names
  BY <1>5
<1>7. dashQueue \subseteq Names /\ objectQueue \subseteq Objects
  BY DEF BindInv, TypeOK
<1>8. /\ dashQueue' \subseteq Names /\ objectQueue' \subseteq Objects
      /\ objectQueue \subseteq objectQueue'
      /\ old # new => o \in objectQueue'
  BY <1>6, <1>7 DEF ObjectEvent
<1> QED  BY <1>2, <1>4, <1>8

\* An object that nothing touched is attended as before.
LEMMA StillAttended ==
  ASSUME NEW o \in Objects, NEW obj, Attended(o, obj),
         pending'[o] = pending[o], seen' = seen,
         o \in objectQueue => o \in objectQueue'
  PROVE  Attended(o, obj)'
<1>1. Reconciled(o, obj, seen') = Reconciled(o, obj, seen)
  OBVIOUS
<1> QED  BY <1>1 DEF Attended

LEMMA ReadKeeps ==
  ASSUME BindInv, NEW o \in Objects, Read(o) PROVE BindInv'
<1> USE DEF Read, BindInv, clusterVars
<1>1. TypeOK' /\ ObjectsOK' /\ AtMostOne(at)' /\ CacheCatchesUp'
  BY DEF TypeOK, ObjectsOK, AtMostOne, CacheCatchesUp
<1> DEFINE R(obj) == [old |-> obj, new |-> Reconciled(o, obj, seen)]
<1>2. object[o] \subseteq ConfigObject(o) /\ AtMostOne(object[o]) /\ DOMAIN pending = Objects
      /\ seen \in SUBSET Names
  BY DEF ObjectsOK, PendingOK, TypeOK
<1>3. pending'[o] = {R(obj) : obj \in object[o]}
      /\ \A x \in Objects \ {o} : pending'[x] = pending[x]
  BY <1>2
<1>4. PendingOK'
  <2>1. \A obj \in object[o] : R(obj) \in [old : ConfigObject(o), new : ConfigObject(o)]
    BY <1>2, ReconciledFacts
  <2>2. pending'[o] \subseteq [old : ConfigObject(o), new : ConfigObject(o)]
    BY <1>3, <2>1
  <2>3. AtMostOne(pending'[o])
    BY <1>2, <1>3 DEF AtMostOne
  <2>4. DOMAIN pending' = Objects
    BY <1>2
  <2> QED  BY <1>3, <2>2, <2>3, <2>4 DEF PendingOK
<1>5. ASSUME NEW x \in Objects, NEW obj \in object'[x] PROVE Attended(x, obj)'
  <2>1. obj \in object[x] /\ Attended(x, obj)
    OBVIOUS
  <2>2. CASE x # o
    BY <1>3, <2>1, <2>2, StillAttended
  <2>3. CASE x = o
    <3>1. R(obj) \in pending'[o] /\ R(obj).new = Reconciled(o, obj, seen')
      BY <1>3, <2>1, <2>3
    <3> QED  BY <2>3, <3>1 DEF Attended
  <2> QED  BY <2>2, <2>3
<1> QED  BY <1>1, <1>4, <1>5

LEMMA WriteKeeps ==
  ASSUME BindInv, NEW o \in Objects, Write(o) PROVE BindInv'
<1>1. PICK p \in pending[o] :
        \/ object[o] = {p.old} /\ ObjectEvent(o, {p.old}, {p.new})
        \/ object[o] # {p.old} /\ objectQueue' = objectQueue \cup {o}
             /\ UNCHANGED <<object, dashQueue>>
  BY DEF Write
<1>2. /\ pending' = [pending EXCEPT ![o] = {}]
      /\ UNCHANGED <<stored, role, count, labels, seen, news, at, edits, churn>>
  BY DEF Write, Idle
<1>3. p.old \in ConfigObject(o) /\ p.new \in ConfigObject(o)
  BY DEF BindInv, PendingOK
<1>4. DOMAIN pending = Objects /\ pending'[o] = {}
      /\ \A x \in Objects \ {o} : pending'[x] = pending[x]
  BY <1>2 DEF BindInv, PendingOK
<1>5. PendingOK'
  <2>1. DOMAIN pending' = Objects
    BY <1>2, <1>4
  <2> QED  BY <1>4, <2>1 DEF BindInv, PendingOK, AtMostOne
<1>6. AtMostOne(at)' /\ CacheCatchesUp'
  BY <1>2 DEF BindInv, AtMostOne, CacheCatchesUp
<1>7. CASE object[o] = {p.old} /\ ObjectEvent(o, {p.old}, {p.new})
  <2>1. /\ ObjectsOK'
        /\ object'[o] = {p.new} /\ \A x \in Objects \ {o} : object'[x] = object[x]
        /\ dashQueue' \subseteq Names /\ objectQueue' \subseteq Objects
        /\ objectQueue \subseteq objectQueue'
        /\ {p.old} # {p.new} => o \in objectQueue'
    <3>1. {p.old} \subseteq ConfigObject(o) /\ {p.new} \subseteq ConfigObject(o)
          /\ AtMostOne({p.new})
      BY <1>3 DEF AtMostOne
    <3> QED  BY <1>7, <3>1, ObjectEventFacts
  <2>2. TypeOK'
    BY <1>2, <2>1, ObjectsTyped DEF BindInv, TypeOK, ObjectsOK
  <2>3. ASSUME NEW x \in Objects, NEW obj \in object'[x] PROVE Attended(x, obj)'
    <3>1. CASE x # o
      BY <1>2, <1>4, <2>1, <3>1, StillAttended DEF BindInv
    <3>2. CASE x = o /\ p.old # p.new
      BY <2>1, <3>2 DEF Attended
    <3>3. CASE x = o /\ p.old = p.new
      <4>1. obj = p.old /\ obj = p.new /\ Attended(o, obj)
        BY <1>7, <2>1, <3>3 DEF BindInv
      <4>2. pending[o] = {p}
        BY DEF BindInv, PendingOK, AtMostOne
      <4>3. o \in objectQueue \/ obj = Reconciled(o, obj, seen)
        BY <4>1, <4>2 DEF Attended
      <4> QED  BY <1>2, <2>1, <3>3, <4>3 DEF Attended
    <3> QED  BY <3>1, <3>2, <3>3
  <2> QED  BY <1>5, <1>6, <2>1, <2>2, <2>3 DEF BindInv
<1>8. CASE object[o] # {p.old} /\ objectQueue' = objectQueue \cup {o}
             /\ UNCHANGED <<object, dashQueue>>
  <2>1. TypeOK' /\ ObjectsOK'
    BY <1>2, <1>8 DEF BindInv, TypeOK, ObjectsOK
  <2>2. ASSUME NEW x \in Objects, NEW obj \in object'[x] PROVE Attended(x, obj)'
    <3>1. CASE x # o
      BY <1>2, <1>4, <1>8, <3>1, StillAttended DEF BindInv
    <3>2. CASE x = o
      BY <1>8, <3>2 DEF Attended
    <3> QED  BY <3>1, <3>2
  <2> QED  BY <1>5, <1>6, <2>1, <2>2 DEF BindInv
<1> QED  BY <1>1, <1>7, <1>8

\* What a Dashboard's controller derives is of the right type.
LEMMA DerivedType ==
  ASSUME BindInv, NEW d \in Names
  PROVE  /\ SecretNames(d, seen) \subseteq Secrets
         /\ boundCountsForDashboard(d, seen) \in 0..Cardinality(Objects)
<1>1. \A o \in Objects : \A obj \in object[o] : obj.spec.secrets \subseteq Secrets
  BY BoundAssumption DEF BindInv, ObjectsOK, ConfigObject
<1>2. Bound(d, seen) \subseteq Objects
  BY DEF Bound
<1>3. referencedSecretNames(d, seen) \subseteq Secrets
  BY <1>1, <1>2 DEF referencedSecretNames
<1>4. SecretNames(d, seen) \subseteq Secrets
  BY <1>3, BoundAssumption DEF SecretNames
<1>5. /\ Cardinality(Objects) \in Nat /\ Cardinality(Bound(d, seen)) \in Nat
      /\ Cardinality(Bound(d, seen)) <= Cardinality(Objects)
  BY <1>2, FS_Subset, FS_CardinalityType, BoundAssumption
<1> QED  BY <1>4, <1>5 DEF boundCountsForDashboard

\* The steps of a Dashboard's worker leave the config objects alone, and may
\* only queue some of them again.
LEMMA WorkerKeeps ==
  ASSUME BindInv, NEW d \in Names, Take(d) \/ ReconcileRole(d) \/ ReconcileStatus(d)
  PROVE  BindInv'
<1>1. UNCHANGED <<stored, seen, news, object, labels, pending, edits, churn>>
  BY DEF Take, ReconcileRole, ReconcileStatus, clusterVars
<1>2. ObjectsOK' /\ PendingOK' /\ CacheCatchesUp'
  BY <1>1 DEF BindInv, ObjectsOK, PendingOK, CacheCatchesUp
<1>3. AtMostOne(at)'
  BY DEF Take, ReconcileRole, ReconcileStatus, AtMostOne, Idle
<1>4. objectQueue \subseteq objectQueue' /\ objectQueue' \subseteq Objects
  BY DEF Take, ReconcileRole, ReconcileStatus, DashboardEvent, Affected, BindInv, TypeOK
<1>5. dashQueue' \subseteq Names
  BY DEF Take, ReconcileRole, ReconcileStatus, DashboardEvent, BindInv, TypeOK
<1>6. role' \in [Names -> SUBSET Secrets]
  <2>1. role \in [Names -> SUBSET Secrets]
    BY DEF BindInv, TypeOK
  <2>2. role' = role \/ role' = [role EXCEPT ![d] = SecretNames(d, seen)]
    BY DEF Take, ReconcileRole, ReconcileStatus, clusterVars
  <2> QED  BY <2>1, <2>2, DerivedType
<1>7. count' \in [Names -> 0..Cardinality(Objects)]
  <2>1. count \in [Names -> 0..Cardinality(Objects)]
    BY DEF BindInv, TypeOK
  <2>2. count' = count \/ count' = [count EXCEPT ![d] = boundCountsForDashboard(d, seen)]
    BY DEF Take, ReconcileRole, ReconcileStatus, clusterVars
  <2> QED  BY <2>1, <2>2, DerivedType
<1>8. Cardinality(at') <= 1
  BY <1>3, SmallSets
<1>9. TypeOK'
  BY <1>1, <1>4, <1>5, <1>6, <1>7, <1>8 DEF BindInv, TypeOK
<1>10. \A o \in Objects : \A obj \in object'[o] : Attended(o, obj)'
  BY <1>1, <1>4, StillAttended DEF BindInv
<1> QED  BY <1>2, <1>3, <1>9, <1>10 DEF BindInv

\* A user's edit: the changed object is queued.
LEMMA EditKeeps ==
  ASSUME BindInv, NEW o \in Objects,
         DeleteObject(o) \/ \E s \in CardSpecs[o] : Apply(o, s)
  PROVE  BindInv'
<1>1. \E new : /\ ObjectEvent(o, object[o], new)
               /\ new \subseteq ConfigObject(o) /\ AtMostOne(new) /\ new # object[o]
  <2>1. CASE DeleteObject(o)
    BY <2>1 DEF DeleteObject, AtMostOne
  <2>2. ASSUME NEW s \in CardSpecs[o], Apply(o, s)
        PROVE  \E new : /\ ObjectEvent(o, object[o], new)
                        /\ new \subseteq ConfigObject(o) /\ AtMostOne(new) /\ new # object[o]
    <3> DEFINE E(obj) == [obj EXCEPT !.spec = s, !.generation = @ + 1]
               new == IF object[o] = {} THEN {NewObject(s)} ELSE {E(obj) : obj \in object[o]}
    <3>1. ObjectEvent(o, object[o], new) /\ \A obj \in object[o] : obj.spec # s
      BY <2>2 DEF Apply
    <3>2. CASE object[o] = {}
      <4>1. new = {NewObject(s)}
        BY <3>2
      <4> QED  BY <3>1, <3>2, <4>1, NewObjectFacts DEF AtMostOne
    <3>3. CASE object[o] # {}
      <4>1. PICK obj : object[o] = {obj}
        BY <3>3 DEF BindInv, ObjectsOK, AtMostOne
      <4>2. obj \in ConfigObject(o)
        BY <4>1 DEF BindInv, ObjectsOK
      <4>3. new = {E(obj)}
        BY <4>1
      <4>4. /\ obj \in [spec : CardSpecs[o], generation : Nat, available : Conditions,
                         configValid : Validities, observed : Nat]
            /\ obj.observed <= obj.generation
        BY <4>2 DEF ConfigObject
      <4>5. /\ E(obj) \in [spec : CardSpecs[o], generation : Nat, available : Conditions,
                            configValid : Validities, observed : Nat]
            /\ E(obj).spec = s /\ E(obj).observed = obj.observed
            /\ E(obj).generation = obj.generation + 1
        <5>1. E(obj).spec = s /\ E(obj).observed = obj.observed
          BY <4>4
        <5>2. E(obj).generation = obj.generation + 1 /\ obj.generation + 1 \in Nat
          BY <4>4
        <5>3. E(obj) = [obj EXCEPT !.spec = s, !.generation = obj.generation + 1]
          BY <4>4
        <5> QED  BY <4>4, <5>1, <5>2, <5>3
      <4>6. E(obj) \in ConfigObject(o)
        <5>1. E(obj).observed <= E(obj).generation
          BY <4>4, <4>5
        <5> HIDE DEF E
        <5> QED  BY <4>5, <5>1 DEF ConfigObject
      <4>7. new # object[o]
        BY <3>1, <4>1, <4>3, <4>5
      <4> HIDE DEF new, E
      <4> QED  BY <3>1, <4>3, <4>6, <4>7 DEF AtMostOne
    <3> QED  BY <3>2, <3>3
  <2> QED  BY <2>1, <2>2
<1>2. PICK new : /\ ObjectEvent(o, object[o], new)
                 /\ new \subseteq ConfigObject(o) /\ AtMostOne(new) /\ new # object[o]
  BY <1>1
<1>3. UNCHANGED <<stored, role, count, labels, seen, news, at, pending, churn>>
  BY DEF DeleteObject, Apply, workers
<1>4. /\ ObjectsOK'
      /\ \A x \in Objects \ {o} : object'[x] = object[x]
      /\ dashQueue' \subseteq Names /\ objectQueue' \subseteq Objects
      /\ objectQueue \subseteq objectQueue' /\ o \in objectQueue'
  <2>1. object[o] \subseteq ConfigObject(o)
    BY DEF BindInv, ObjectsOK
  <2> QED  BY <1>2, <2>1, ObjectEventFacts
<1>5. TypeOK'
  BY <1>3, <1>4, ObjectsTyped DEF BindInv, TypeOK, ObjectsOK
<1>6. PendingOK' /\ AtMostOne(at)' /\ CacheCatchesUp'
  BY <1>3 DEF BindInv, PendingOK, AtMostOne, CacheCatchesUp
<1>7. ASSUME NEW x \in Objects, NEW obj \in object'[x] PROVE Attended(x, obj)'
  <2>1. CASE x # o
    BY <1>3, <1>4, <2>1, StillAttended DEF BindInv
  <2>2. CASE x = o
    BY <1>4, <2>2 DEF Attended
  <2> QED  BY <2>1, <2>2
<1> QED  BY <1>4, <1>5, <1>6, <1>7 DEF BindInv

LEMMA LabelKeeps ==
  ASSUME BindInv, NEW s \in Secrets, Label(s) PROVE BindInv'
<1>1. UNCHANGED <<stored, role, count, object, seen, news, objectQueue, at, pending, churn>>
  BY DEF Label, workers
<1>2. TypeOK'
  BY <1>1 DEF Label, BindInv, TypeOK
<1>3. ObjectsOK' /\ PendingOK' /\ AtMostOne(at)' /\ CacheCatchesUp'
  BY <1>1 DEF BindInv, ObjectsOK, PendingOK, AtMostOne, CacheCatchesUp
<1>4. \A o \in Objects : \A obj \in object'[o] : Attended(o, obj)'
  BY <1>1, StillAttended DEF BindInv
<1> QED  BY <1>2, <1>3, <1>4 DEF BindInv

\* The cache learns of d: the objects that d matters to are queued, and the
\* others are not concerned.
LEMMA CacheEventAttends ==
  ASSUME BindInv, NEW d \in Names, DashboardEvent(d),
         \A e : e # d => (e \in seen <=> e \in seen'),
         UNCHANGED <<object, pending>>
  PROVE  /\ \A o \in Objects : \A obj \in object'[o] : Attended(o, obj)'
         /\ dashQueue' \subseteq Names /\ objectQueue' \subseteq Objects
<1>1. dashQueue' \subseteq Names /\ objectQueue' \subseteq Objects
  BY DEF DashboardEvent, Affected, BindInv, TypeOK
<1>2. ASSUME NEW o \in Objects, NEW obj \in object'[o] PROVE Attended(o, obj)'
  <2>1. obj \in object[o] /\ Attended(o, obj)
    BY DEF BindInv
  <2>2. CASE obj.spec.ref \in {d, Unset}
    BY <2>1, <2>2 DEF DashboardEvent, Affected, Attended
  <2>3. CASE obj.spec.ref \notin {d, Unset}
    <3>1. Reconciled(o, obj, seen) = Reconciled(o, obj, seen')
      BY <2>3, OthersIrrelevant
    <3>2. objectQueue \subseteq objectQueue'
      BY DEF DashboardEvent
    <3> QED  BY <2>1, <3>1, <3>2 DEF Attended
  <2> QED  BY <2>2, <2>3
<1> QED  BY <1>1, <1>2

LEMMA SyncKeeps ==
  ASSUME BindInv, NEW d \in Names, Sync(d) PROVE BindInv'
<1>1. /\ UNCHANGED <<stored, role, count, object, labels, at, pending, edits, churn>>
      /\ DashboardEvent(d) /\ news' = news \ {d}
      /\ seen' = IF d \in stored THEN seen \cup {d} ELSE seen \ {d}
  BY DEF Sync, clusterVars, workers
<1>2. \A e : e # d => (e \in seen <=> e \in seen')
  BY <1>1
<1>3. /\ \A o \in Objects : \A obj \in object'[o] : Attended(o, obj)'
      /\ dashQueue' \subseteq Names /\ objectQueue' \subseteq Objects
  BY <1>1, <1>2, CacheEventAttends
<1>4. TypeOK'
  BY <1>1, <1>3 DEF BindInv, TypeOK
<1>5. ObjectsOK' /\ PendingOK' /\ AtMostOne(at)'
  BY <1>1 DEF BindInv, ObjectsOK, PendingOK, AtMostOne
<1>6. CacheCatchesUp'
  BY <1>1 DEF BindInv, CacheCatchesUp
<1> QED  BY <1>3, <1>4, <1>5, <1>6 DEF BindInv

LEMMA ChurnKeeps ==
  ASSUME BindInv, NEW d \in Names, Churn(d) PROVE BindInv'
<1>1. /\ UNCHANGED <<object, labels, at, pending, edits>>
      /\ stored' = IF d \in stored THEN stored \ {d} ELSE stored \cup {d}
      /\ role' = [role EXCEPT ![d] = {}] /\ count' = [count EXCEPT ![d] = 0]
  BY DEF Churn, workers
<1>2. /\ role' \in [Names -> SUBSET Secrets]
      /\ count' \in [Names -> 0..Cardinality(Objects)]
  <2>1. Cardinality(Objects) \in Nat
    BY FS_CardinalityType, BoundAssumption
  <2>2. role' \in [Names -> SUBSET Secrets]
    BY <1>1 DEF BindInv, TypeOK
  <2>3. count' \in [Names -> 0..Cardinality(Objects)]
    BY <1>1, <2>1 DEF BindInv, TypeOK
  <2> QED  BY <2>2, <2>3
<1>3. ObjectsOK' /\ PendingOK' /\ AtMostOne(at)'
  BY <1>1 DEF BindInv, ObjectsOK, PendingOK, AtMostOne
<1>4. CASE LagDashboards
  <2>1. news' = news \cup {d} /\ UNCHANGED <<seen, dashQueue, objectQueue>>
    BY <1>4 DEF Churn
  <2>2. TypeOK'
    BY <1>1, <1>2, <2>1 DEF BindInv, TypeOK
  <2>3. CacheCatchesUp'
    BY <1>1, <1>4, <2>1 DEF BindInv, CacheCatchesUp
  <2>4. \A o \in Objects : \A obj \in object'[o] : Attended(o, obj)'
    BY <1>1, <2>1, StillAttended DEF BindInv
  <2> QED  BY <1>3, <2>2, <2>3, <2>4 DEF BindInv
<1>5. CASE ~LagDashboards
  <2>1. seen' = stored' /\ DashboardEvent(d) /\ news' = news
    BY <1>5 DEF Churn
  <2>2. seen = stored
    BY <1>5 DEF BindInv, CacheCatchesUp, TypeOK
  <2>3. \A e : e # d => (e \in seen <=> e \in seen')
    BY <1>1, <2>1, <2>2
  <2>4. /\ \A o \in Objects : \A obj \in object'[o] : Attended(o, obj)'
        /\ dashQueue' \subseteq Names /\ objectQueue' \subseteq Objects
    BY <1>1, <2>1, <2>3, CacheEventAttends
  <2>5. TypeOK'
    BY <1>1, <1>2, <2>1, <2>4 DEF BindInv, TypeOK
  <2>6. CacheCatchesUp'
    BY <1>5, <2>1 DEF BindInv, CacheCatchesUp
  <2> QED  BY <1>3, <2>4, <2>5, <2>6 DEF BindInv
<1> QED  BY <1>4, <1>5

LEMMA NextBind == BindInv /\ [Next]_vars => BindInv'
<1> SUFFICES ASSUME BindInv, [Next]_vars PROVE BindInv'
  OBVIOUS
<1>1. CASE UNCHANGED vars
  <2>1. UNCHANGED <<stored, seen, news, role, count, object, labels, dashQueue, objectQueue,
                    at, pending, edits, churn>>
    BY <1>1 DEF vars, clusterVars, workers
  <2>2. TypeOK' /\ ObjectsOK' /\ PendingOK' /\ AtMostOne(at)' /\ CacheCatchesUp'
    BY <2>1 DEF BindInv, TypeOK, ObjectsOK, PendingOK, AtMostOne, CacheCatchesUp
  <2>3. \A o \in Objects : \A obj \in object'[o] : Attended(o, obj)'
    BY <2>1, StillAttended DEF BindInv
  <2> QED  BY <2>2, <2>3 DEF BindInv
<1>2. ASSUME NEW o \in Objects, Read(o) \/ Write(o) PROVE BindInv'
  BY <1>2, ReadKeeps, WriteKeeps
<1>3. ASSUME NEW d \in Names, Take(d) \/ ReconcileRole(d) \/ ReconcileStatus(d) \/ Sync(d)
      PROVE  BindInv'
  BY <1>3, WorkerKeeps, SyncKeeps
<1>4. ASSUME NEW o \in Objects, DeleteObject(o) \/ \E s \in CardSpecs[o] : Apply(o, s)
      PROVE  BindInv'
  BY <1>4, EditKeeps
<1>5. ASSUME NEW s \in Secrets, Label(s) PROVE BindInv'
  BY <1>5, LabelKeeps
<1>6. ASSUME NEW d \in Names, Churn(d) PROVE BindInv'
  BY <1>6, ChurnKeeps
<1> QED  BY <1>1, <1>2, <1>3, <1>4, <1>5, <1>6 DEF Next, Work
-----------------------------------------------------------------------------
(***************************************************************************)
(* What the controllers report once they are quiet.                        *)
(***************************************************************************)
\* The condition names the Dashboards that BoundTo gives the object to.
LEMMA ConditionIsBoundTo ==
  ASSUME NEW ref \in Names \cup {Unset}, NEW D \in SUBSET Names
  PROVE  LET c == boundDashboardCondition(ref, D)
         IN  /\ (IF c.status THEN c.names ELSE {}) =
                  {d \in D : BoundTo(ref, d, Cardinality(D))}
             /\ c.reason # "InvalidWidgetConfig"
<1> DEFINE C == boundDashboardCondition(ref, D)
           B == {d \in D : BoundTo(ref, d, Cardinality(D))}
<1> HIDE DEF C, B
<1> SUFFICES /\ (IF C.status THEN C.names ELSE {}) = B
             /\ C.reason # "InvalidWidgetConfig"
  BY DEF C, B
<1>1. CASE ref # Unset /\ ref \notin D
  <2>1. C = Condition(FALSE, "DashboardNotFound", {ref})
    BY <1>1 DEF C, boundDashboardCondition
  <2>2. B = {}
    BY <1>1 DEF B, BoundTo
  <2> QED  BY <2>1, <2>2 DEF Condition
<1>2. CASE ref # Unset /\ ref \in D
  <2>1. C = Condition(TRUE, "Bound", {ref})
    BY <1>2 DEF C, boundDashboardCondition
  <2>2. B = {ref}
    BY <1>2 DEF B, BoundTo
  <2> QED  BY <2>1, <2>2 DEF Condition
<1>3. CASE ref = Unset /\ D = {}
  <2>1. C = Condition(FALSE, "DashboardNotFound", {})
    BY <1>3, NoDashboardCondition DEF C
  <2>2. B = {}
    BY <1>3 DEF B
  <2> QED  BY <2>1, <2>2 DEF Condition
<1>4. CASE ref = Unset /\ D # {} /\ Cardinality(D) = 1
  <2>1. C = Condition(TRUE, "Bound", D)
    BY <1>4 DEF C, boundDashboardCondition
  <2>2. B = D
    BY <1>4 DEF B, BoundTo
  <2> QED  BY <2>1, <2>2 DEF Condition
<1>5. CASE ref = Unset /\ D # {} /\ Cardinality(D) # 1
  <2>1. C = Condition(FALSE, "AmbiguousDashboardRef", D)
    BY <1>5 DEF C, boundDashboardCondition
  <2>2. B = {}
    BY <1>5 DEF B, BoundTo
  <2> QED  BY <2>1, <2>2 DEF Condition
<1> QED  BY <1>1, <1>2, <1>3, <1>4, <1>5

LEMMA QuietAgrees == BindInv => ConditionsAgree
<1> SUFFICES ASSUME BindInv PROVE ConditionsAgree
  OBVIOUS
<1> DEFINE Good(o, obj) ==
         /\ obj.observed = obj.generation
         /\ obj.available.reason # "InvalidWidgetConfig" =>
              (IF obj.available.status THEN obj.available.names ELSE {}) =
                {d \in stored : BoundTo(obj.spec.ref, d, Cardinality(stored))}
         /\ obj.available.reason = "InvalidWidgetConfig" =>
              o \in HasWidgets /\ \E w \in obj.spec.widgets : Invalid(w)
<1>1. ASSUME Quiet, NEW o \in Objects, NEW obj \in object[o] PROVE Good(o, obj)
  <2>1. seen = stored /\ stored \in SUBSET Names
    BY <1>1 DEF Quiet, BindInv, TypeOK, CacheCatchesUp
  <2>2. obj \in ConfigObject(o) /\ obj = Reconciled(o, obj, stored)
    BY <1>1, <2>1 DEF Quiet, Idle, BindInv, ObjectsOK, Attended
  <2>3. obj.spec.ref \in Names \cup {Unset}
    BY <2>2, BoundAssumption DEF ConfigObject
  <2> DEFINE C == boundDashboardCondition(obj.spec.ref, stored)
             lacking == C.status /\ validity(o, obj) = "InvalidWidgetConfig"
  <2>4. /\ obj.observed = obj.generation
        /\ obj.available = IF lacking THEN Condition(FALSE, "InvalidWidgetConfig", {}) ELSE C
    <3>1. Reconciled(o, obj, stored).observed = obj.generation
      BY <2>1, <2>2, ReconciledFacts
    <3>2. Reconciled(o, obj, stored).available =
            IF lacking THEN Condition(FALSE, "InvalidWidgetConfig", {}) ELSE C
      BY <2>1, <2>2, ReconciledFacts
    <3> QED  BY <2>2, <3>1, <3>2
  <2>5. /\ C.reason # "InvalidWidgetConfig"
        /\ (IF C.status THEN C.names ELSE {}) =
             {d \in stored : BoundTo(obj.spec.ref, d, Cardinality(stored))}
    BY <2>1, <2>3, ConditionIsBoundTo
  <2>6. lacking => o \in HasWidgets /\ \E w \in obj.spec.widgets : Invalid(w)
    BY DEF validity, validateWidgetConfigs
  <2>7. Condition(FALSE, "InvalidWidgetConfig", {}).reason = "InvalidWidgetConfig"
    BY DEF Condition
  <2> HIDE DEF C, lacking
  <2> QED  BY <2>4, <2>5, <2>6, <2>7
<1> QED  BY <1>1 DEF ConditionsAgree, BindInv

LEMMA BindAlways == Spec => []BindInv
<1>1. Init => BindInv
  BY InitBind
<1>2. BindInv /\ [Next]_vars => BindInv'
  BY NextBind
<1> QED  BY <1>1, <1>2, PTL DEF Spec

\* Once the queues of the config controllers are empty and no reconcile is under
\* way, every ServiceCard, Bookmark and InfoWidget reports, for its current
\* generation, the Dashboard whose pod shows it (boundDashboardCondition against
\* BoundTo), whatever edits and Dashboards came and went and however late the
\* informer told of them.
THEOREM ConditionsAlwaysAgree == Spec => []ConditionsAgree
<1>1. Spec => []BindInv
  BY BindAlways
<1>2. BindInv => ConditionsAgree
  BY QuietAgrees
<1> QED  BY <1>1, <1>2, PTL
-----------------------------------------------------------------------------
(***************************************************************************)
(* What the Role of a Dashboard grants, and how many objects it counts.    *)
(*                                                                         *)
(* A Dashboard is woken by the objects that name it, by labels and by its  *)
(* own events, but not when another Dashboard makes an object without ref  *)
(* ambiguous.  What saves the Role then is that the object's status has to *)
(* change, and that this change will wake the Dashboard: a promise that    *)
(* holds as long as the status tells which Dashboards were seen before.    *)
(***************************************************************************)
\* The manager's cache has not shown a Dashboard come or go yet.
Early == churn = 0 \/ news # {}

\* Until it does, a status that is about the object's current generation is what
\* would be written now.
FirstView ==
    /\ churn = 0 => news = {}
    /\ AtMostOne(news)
    /\ Early => \A o \in Objects :
         /\ \A obj \in object[o] : obj.observed = obj.generation =>
              obj.available = Reconciled(o, obj, seen).available
         /\ \A p \in pending[o] : p.new = Reconciled(o, p.old, seen)

\* Some object without ref will have its status changed.
Promised ==
    \E o \in Objects : \E obj \in object[o] :
      obj.spec.ref = Unset /\ obj # Reconciled(o, obj, seen)

Woken(d) == d \in dashQueue \cup news \/ Promised
Doing(d, steps) == \E s \in steps : at = {[name |-> d, step |-> s]}
RoleKnown(d)  == role[d] = SecretNames(d, seen) \/ Doing(d, {"role"})
CountKnown(d) == count[d] = boundCountsForDashboard(d, seen) \/ Doing(d, {"role", "status"})
Known(d) == Woken(d) \/ (RoleKnown(d) /\ CountKnown(d))

GrantsInv ==
    /\ churn \in Nat
    /\ churn <= 1 => FirstView /\ \A d \in stored : Known(d)

\* A status leaves the spec alone, so that writing it twice changes nothing.
LEMMA Settled ==
  ASSUME NEW o \in Objects, NEW obj \in ConfigObject(o), NEW D \in SUBSET Names
  PROVE  /\ Reconciled(o, obj, D).spec = obj.spec
         /\ Reconciled(o, Reconciled(o, obj, D), D).available = Reconciled(o, obj, D).available
<1> DEFINE r == Reconciled(o, obj, D)
<1>1. r.spec = obj.spec
  <2> DEFINE avail == IF boundDashboardCondition(obj.spec.ref, D).status
                          /\ validity(o, obj) = "InvalidWidgetConfig"
                      THEN Condition(FALSE, validity(o, obj), {})
                      ELSE boundDashboardCondition(obj.spec.ref, D)
             valid == validity(o, obj)
  <2>1. r = [obj EXCEPT !.available = avail, !.configValid = valid, !.observed = obj.generation]
    BY DEF Reconciled
  <2> HIDE DEF r, avail, valid
  <2> QED  BY <2>1 DEF ConfigObject
<1>2. r \in ConfigObject(o)
  BY ReconciledFacts
<1>3. validity(o, r) = validity(o, obj)
  BY <1>1 DEF validity
<1>4. /\ r.available = IF boundDashboardCondition(obj.spec.ref, D).status
                            /\ validity(o, obj) = "InvalidWidgetConfig"
                       THEN Condition(FALSE, "InvalidWidgetConfig", {})
                       ELSE boundDashboardCondition(obj.spec.ref, D)
  BY ReconciledFacts
<1> HIDE DEF r
<1>5. /\ Reconciled(o, r, D).available =
           IF boundDashboardCondition(r.spec.ref, D).status
                /\ validity(o, r) = "InvalidWidgetConfig"
           THEN Condition(FALSE, "InvalidWidgetConfig", {})
           ELSE boundDashboardCondition(r.spec.ref, D)
  BY <1>2, ReconciledFacts
<1>6. Reconciled(o, r, D).available = r.available
  BY <1>1, <1>3, <1>4, <1>5
<1> QED  BY <1>1, <1>6 DEF r

LEMMA UnsetCondition ==
  ASSUME NEW D \in SUBSET Names
  PROVE  LET c == boundDashboardCondition(Unset, D)
         IN  /\ c.names = D /\ c.reason # "InvalidWidgetConfig"
             /\ c.status => Cardinality(D) = 1
<1> DEFINE C == boundDashboardCondition(Unset, D)
<1>1. CASE D = {}
  <2>1. C = Condition(FALSE, "DashboardNotFound", {})
    BY <1>1, NoDashboardCondition
  <2> HIDE DEF C
  <2>2. C.names = D /\ C.reason # "InvalidWidgetConfig" /\ ~C.status
    BY <1>1, <2>1 DEF Condition
  <2> QED  BY <2>2 DEF C
<1>2. CASE D # {} /\ Cardinality(D) = 1
  <2>1. C = Condition(TRUE, "Bound", D)
    BY <1>2 DEF boundDashboardCondition
  <2> HIDE DEF C
  <2>2. C.names = D /\ C.reason # "InvalidWidgetConfig"
    BY <2>1 DEF Condition
  <2> QED  BY <1>2, <2>2 DEF C
<1>3. CASE D # {} /\ Cardinality(D) # 1
  <2>1. C = Condition(FALSE, "AmbiguousDashboardRef", D)
    BY <1>3 DEF boundDashboardCondition
  <2> HIDE DEF C
  <2>2. C.names = D /\ C.reason # "InvalidWidgetConfig" /\ ~C.status
    BY <2>1 DEF Condition
  <2> QED  BY <2>2 DEF C
<1> QED  BY <1>1, <1>2, <1>3

\* An object without ref tells in its status which Dashboards there were, but for
\* one that comes or goes: the names are in the condition, and an invalid widget
\* is only reported while there is exactly one.
LEMMA ViewsDiffer ==
  ASSUME NEW o \in Objects, NEW obj \in ConfigObject(o), obj.spec.ref = Unset,
         NEW D \in SUBSET Names, NEW E \in SUBSET Names, NEW x, D # E,
         \A e : e # x => (e \in D <=> e \in E)
  PROVE  Reconciled(o, obj, D).available # Reconciled(o, obj, E).available
<1> DEFINE C == boundDashboardCondition(Unset, D)
           K == boundDashboardCondition(Unset, E)
           I == Condition(FALSE, "InvalidWidgetConfig", {})
           bad == validity(o, obj) = "InvalidWidgetConfig"
<1>1. /\ Reconciled(o, obj, D).available = IF C.status /\ bad THEN I ELSE C
      /\ Reconciled(o, obj, E).available = IF K.status /\ bad THEN I ELSE K
  BY ReconciledFacts
<1>2. /\ C.names = D /\ C.reason # "InvalidWidgetConfig" /\ (C.status => Cardinality(D) = 1)
      /\ K.names = E /\ K.reason # "InvalidWidgetConfig" /\ (K.status => Cardinality(E) = 1)
  BY UnsetCondition
<1>3. I.reason = "InvalidWidgetConfig"
  BY DEF Condition
<1>4. ~(Cardinality(D) = 1 /\ Cardinality(E) = 1)
  <2> SUFFICES ASSUME Cardinality(D) = 1, Cardinality(E) = 1 PROVE FALSE
    OBVIOUS
  <2>1. IsFiniteSet(D) /\ IsFiniteSet(E)
    BY BoundAssumption, FS_Subset
  <2>2. (\E a : D = {a}) /\ (\E b : E = {b})
    BY <2>1, FS_Singleton
  <2> QED  BY <2>2
<1> HIDE DEF C, K, I
<1> QED  BY <1>1, <1>2, <1>3, <1>4

\* With the same objects, labels and view, Role and count stay right.
LEMMA SameDerived ==
  ASSUME UNCHANGED <<labels, seen>>, \A o \in Objects : object'[o] = object[o],
         NEW d
  PROVE  /\ SecretNames(d, seen)' = SecretNames(d, seen)
         /\ boundCountsForDashboard(d, seen)' = boundCountsForDashboard(d, seen)
         /\ Promised' = Promised
<1>1. Bound(d, seen)' = Bound(d, seen)
  BY DEF Bound
<1>2. {object'[o] : o \in Bound(d, seen) \cap HasWidgets} =
        {object[o] : o \in Bound(d, seen) \cap HasWidgets}
  <2>1. \A o \in Bound(d, seen) \cap HasWidgets : object'[o] = object[o]
    BY BoundAssumption
  <2> QED  BY <2>1
<1>3. SecretNames(d, seen)' = SecretNames(d, seen)
  BY <1>1, <1>2 DEF SecretNames, referencedSecretNames
<1>4. \A o, obj : Reconciled(o, obj, seen)' = Reconciled(o, obj, seen)
  OBVIOUS
<1>5. Promised' = Promised
  BY <1>4 DEF Promised
<1> QED  BY <1>1, <1>3, <1>5 DEF boundCountsForDashboard

\* A step that touches neither what a Dashboard derives nor its worker.
LEMMA StaysKnown ==
  ASSUME UNCHANGED <<labels, seen, at>>, \A o \in Objects : object'[o] = object[o],
         NEW d, Known(d), role'[d] = role[d], count'[d] = count[d],
         d \in dashQueue \cup news => d \in dashQueue' \cup news'
  PROVE  Known(d)'
<1>1. /\ SecretNames(d, seen)' = SecretNames(d, seen)
      /\ boundCountsForDashboard(d, seen)' = boundCountsForDashboard(d, seen)
      /\ Promised' = Promised
  BY SameDerived
<1>2. \A steps : Doing(d, steps)' = Doing(d, steps)
  BY DEF Doing
<1>3. Woken(d) => Woken(d)'
  BY <1>1 DEF Woken
<1>4. RoleKnown(d) => RoleKnown(d)'
  BY <1>1, <1>2 DEF RoleKnown
<1>5. CountKnown(d) => CountKnown(d)'
  BY <1>1, <1>2 DEF CountKnown
<1> QED  BY <1>3, <1>4, <1>5 DEF Known

LEMMA InitGrants == Init => GrantsInv
<1> SUFFICES ASSUME Init PROVE GrantsInv
  OBVIOUS
<1>1. news = {} /\ churn = 0 /\ dashQueue = stored
  BY DEF Init
<1>2. ASSUME NEW o \in Objects, NEW obj \in object[o] PROVE obj.observed # obj.generation
  <2>1. object[o] = {} \/ \E s : object[o] = {NewObject(s)}
    BY DEF Init
  <2> QED  BY <1>2, <2>1 DEF NewObject
<1>3. \A o \in Objects : pending[o] = {}
  BY DEF Init, Idle
<1>4. FirstView
  BY <1>1, <1>2, <1>3 DEF FirstView, AtMostOne
<1> QED  BY <1>1, <1>4 DEF GrantsInv, Known, Woken

\* Who is in the cache or on the way to it hears of what is sent to everyone.
LEMMA SeenOrNews ==
  ASSUME BindInv, NEW d \in stored PROVE d \in seen \/ d \in news
  BY DEF BindInv, TypeOK, CacheCatchesUp

\* A config object that changes wakes the Dashboards it is or was bound to.
LEMMA ObjectWakes ==
  ASSUME BindInv, NEW o \in Objects, NEW new, ObjectEvent(o, object[o], new),
         UNCHANGED <<stored, role, count, labels, seen, news, at>>,
         NEW d \in stored, Known(d)
  PROVE  Known(d)'
<1>1. /\ object' = [object EXCEPT ![o] = new] /\ DOMAIN object = Objects
      /\ IF object[o] = new THEN UNCHANGED <<dashQueue, objectQueue>>
         ELSE dashQueue' = dashQueue \cup
                UNION {mapToDashboard(v.spec.ref) : v \in object[o] \cup new}
  BY DEF ObjectEvent, BindInv, ObjectsOK
<1>2. CASE object[o] = new
  <2>1. dashQueue' = dashQueue /\ \A x \in Objects : object'[x] = object[x]
    BY <1>1, <1>2
  <2> QED  BY <2>1, StaysKnown
<1>3. ASSUME object[o] # new, NEW v \in object[o] \cup new, v.spec.ref \in {d, Unset}
      PROVE  Known(d)'
  <2>1. mapToDashboard(v.spec.ref) \subseteq dashQueue'
    <3> DEFINE W == {mapToDashboard(w.spec.ref) : w \in object[o] \cup new}
    <3>1. mapToDashboard(v.spec.ref) \in W
      BY <1>3
    <3>2. dashQueue' = dashQueue \cup (UNION W)
      BY <1>1, <1>3
    <3> HIDE DEF W
    <3> QED  BY <3>1, <3>2
  <2>2. v.spec.ref = d => d \in dashQueue'
    <3>1. d # Unset
      BY BoundAssumption DEF BindInv, TypeOK
    <3> QED  BY <2>1, <3>1 DEF mapToDashboard
  <2>3. v.spec.ref = Unset => d \in dashQueue' \cup news'
    BY <2>1, SeenOrNews DEF mapToDashboard
  <2> QED  BY <1>3, <2>2, <2>3 DEF Known, Woken
<1>4. ASSUME object[o] # new, \A v \in object[o] \cup new : v.spec.ref \notin {d, Unset}
      PROVE  Known(d)'
  <2>1. object'[o] = new /\ \A x \in Objects \ {o} : object'[x] = object[x]
    BY <1>1
  <2> DEFINE n == Cardinality(seen)
  <2>2. \A v : v.spec.ref \notin {d, Unset} => ~BoundTo(v.spec.ref, d, n)
    BY DEF BoundTo
  <2>3. Bound(d, seen)' = Bound(d, seen)
    <3> HIDE DEF n
    <3>1. \A x \in Objects : (\E obj \in object'[x] : BoundTo(obj.spec.ref, d, n))
                         <=> (\E obj \in object[x] : BoundTo(obj.spec.ref, d, n))
      BY <1>4, <2>1, <2>2
    <3> QED  BY <3>1 DEF Bound, n
  <2>4. o \notin Bound(d, seen)
    BY <1>4, <2>2 DEF Bound
  <2>5. SecretNames(d, seen)' = SecretNames(d, seen)
    <3>1. \A x \in Bound(d, seen) : object'[x] = object[x]
      BY <2>1, <2>4 DEF Bound
    <3>2. {object'[x] : x \in Bound(d, seen) \cap HasWidgets} =
            {object[x] : x \in Bound(d, seen) \cap HasWidgets}
      BY <3>1
    <3> QED  BY <2>3, <3>2 DEF SecretNames, referencedSecretNames
  <2>6. boundCountsForDashboard(d, seen)' = boundCountsForDashboard(d, seen)
    BY <2>3 DEF boundCountsForDashboard
  <2>7. Promised => Promised'
    <3> SUFFICES ASSUME Promised PROVE Promised'
      OBVIOUS
    <3>1. PICK x \in Objects : \E obj \in object[x] :
            obj.spec.ref = Unset /\ obj # Reconciled(x, obj, seen)
      BY DEF Promised
    <3>2. PICK obj \in object[x] : obj.spec.ref = Unset /\ obj # Reconciled(x, obj, seen)
      BY <3>1
    <3>3. obj \in object'[x]
      BY <1>4, <2>1, <3>2
    <3>4. Reconciled(x, obj, seen') = Reconciled(x, obj, seen)
      OBVIOUS
    <3> QED  BY <3>2, <3>3, <3>4 DEF Promised
  <2>8. dashQueue \subseteq dashQueue'
    BY <1>1
  <2>9. Woken(d) => Woken(d)'
    BY <2>7, <2>8 DEF Woken
  <2> QED  BY <2>5, <2>6, <2>9 DEF Known, RoleKnown, CountKnown, Doing
<1> QED  BY <1>2, <1>3, <1>4

\* What each changed object has to fulfil while the cache shows the first view.
LEMMA FirstViewKept ==
  ASSUME BindInv, FirstView, NEW o \in Objects, NEW new, ObjectEvent(o, object[o], new),
         UNCHANGED <<seen, news, churn>>,
         \A x \in Objects : pending'[x] \subseteq pending[x],
         Early => \A obj \in new : obj.observed = obj.generation =>
                    obj.available = Reconciled(o, obj, seen).available
  PROVE  FirstView'
<1>1. object' = [object EXCEPT ![o] = new] /\ DOMAIN object = Objects
  BY DEF ObjectEvent, BindInv, ObjectsOK
<1>2. object'[o] = new /\ \A x \in Objects \ {o} : object'[x] = object[x]
  BY <1>1
<1>3. \A x, obj : Reconciled(x, obj, seen') = Reconciled(x, obj, seen)
  OBVIOUS
<1> QED  BY <1>2, <1>3 DEF FirstView, Early, AtMostOne

LEMMA ReadGrants ==
  ASSUME BindInv, GrantsInv, NEW o \in Objects, Read(o) PROVE GrantsInv'
<1>1. /\ UNCHANGED <<stored, role, count, object, labels, seen, news, dashQueue, at, churn>>
      /\ pending' = [pending EXCEPT ![o] =
           {[old |-> obj, new |-> Reconciled(o, obj, seen)] : obj \in object[o]}]
  BY DEF Read, clusterVars
<1>2. ASSUME churn <= 1 PROVE FirstView'
  <2>1. FirstView
    BY <1>2 DEF GrantsInv
  <2>2. \A x, obj : Reconciled(x, obj, seen') = Reconciled(x, obj, seen)
    BY <1>1
  <2>3. ASSUME NEW x \in Objects, NEW p \in pending'[x], Early
        PROVE  p.new = Reconciled(x, p.old, seen)
    <3>1. DOMAIN pending = Objects
      BY DEF BindInv, PendingOK
    <3>2. CASE x # o
      BY <1>1, <2>1, <2>3, <3>1, <3>2 DEF FirstView
    <3>3. CASE x = o
      <4>1. \E obj : p = [old |-> obj, new |-> Reconciled(o, obj, seen)]
        BY <1>1, <2>3, <3>1, <3>3
      <4> QED  BY <3>3, <4>1
    <3> QED  BY <3>2, <3>3
  <2> QED  BY <1>1, <2>1, <2>2, <2>3 DEF FirstView, Early, AtMostOne
<1>3. ASSUME churn <= 1, NEW d \in stored PROVE Known(d)'
  BY <1>1, <1>3, StaysKnown DEF GrantsInv
<1> QED  BY <1>1, <1>2, <1>3 DEF GrantsInv

LEMMA WriteGrants ==
  ASSUME BindInv, GrantsInv, NEW o \in Objects, Write(o) PROVE GrantsInv'
<1>1. PICK p \in pending[o] :
        \/ object[o] = {p.old} /\ ObjectEvent(o, {p.old}, {p.new})
        \/ object[o] # {p.old} /\ objectQueue' = objectQueue \cup {o}
             /\ UNCHANGED <<object, dashQueue>>
  BY DEF Write
<1>2. /\ pending' = [pending EXCEPT ![o] = {}]
      /\ UNCHANGED <<stored, role, count, labels, seen, news, at, edits, churn>>
  BY DEF Write, Idle
<1>3. \A x \in Objects : pending'[x] \subseteq pending[x]
  BY <1>2 DEF BindInv, PendingOK
<1>4. CASE object[o] # {p.old}
  <2>1. UNCHANGED <<object, dashQueue>>
    BY <1>1, <1>4
  <2>2. ASSUME churn <= 1 PROVE FirstView'
    <3>1. FirstView
      BY <2>2 DEF GrantsInv
    <3>2. \A x, obj : Reconciled(x, obj, seen') = Reconciled(x, obj, seen)
      BY <1>2
    <3> QED  BY <1>2, <1>3, <2>1, <3>1, <3>2 DEF FirstView, Early, AtMostOne
  <2>3. ASSUME churn <= 1, NEW d \in stored PROVE Known(d)'
    BY <1>2, <2>1, <2>3, StaysKnown DEF GrantsInv
  <2> QED  BY <1>2, <2>2, <2>3 DEF GrantsInv
<1>5. CASE object[o] = {p.old}
  <2>1. ObjectEvent(o, object[o], {p.new})
    BY <1>1, <1>5
  <2>2. ASSUME churn <= 1 PROVE FirstView'
    <3>1. FirstView
      BY <2>2 DEF GrantsInv
    <3>2. ASSUME Early PROVE p.new.available = Reconciled(o, p.new, seen).available
      <4>1. p.new = Reconciled(o, p.old, seen)
        BY <3>1, <3>2 DEF FirstView
      <4>2. p.old \in ConfigObject(o) /\ seen \in SUBSET Names
        BY <1>5 DEF BindInv, ObjectsOK, TypeOK
      <4> QED  BY <4>1, <4>2, Settled
    <3> QED  BY <1>2, <1>3, <2>1, <3>1, <3>2, FirstViewKept
  <2>3. ASSUME churn <= 1, NEW d \in stored PROVE Known(d)'
    BY <1>2, <2>1, <2>3, ObjectWakes DEF GrantsInv
  <2> QED  BY <1>2, <2>2, <2>3 DEF GrantsInv
<1> QED  BY <1>4, <1>5

LEMMA EditGrants ==
  ASSUME BindInv, GrantsInv, NEW o \in Objects,
         DeleteObject(o) \/ \E s \in CardSpecs[o] : Apply(o, s)
  PROVE  GrantsInv'
<1>1. UNCHANGED <<stored, role, count, labels, seen, news, at, pending, churn>>
  BY DEF DeleteObject, Apply, workers
<1>2. PICK new : /\ ObjectEvent(o, object[o], new)
                 /\ \A obj \in new : obj.observed # obj.generation
  <2>1. CASE DeleteObject(o)
    BY <2>1 DEF DeleteObject
  <2>2. ASSUME NEW s \in CardSpecs[o], Apply(o, s)
        PROVE  \E new : /\ ObjectEvent(o, object[o], new)
                        /\ \A obj \in new : obj.observed # obj.generation
    <3> DEFINE Edited == {[obj EXCEPT !.spec = s, !.generation = @ + 1] : obj \in object[o]}
    <3>1. ObjectEvent(o, object[o], IF object[o] = {} THEN {NewObject(s)} ELSE Edited)
      BY <2>2 DEF Apply
    <3>2. NewObject(s).observed # NewObject(s).generation
      BY DEF NewObject
    <3> HIDE DEF Edited
    <3>3. ASSUME NEW obj \in Edited PROVE obj.observed # obj.generation
      <4>1. PICK old \in object[o] : obj = [old EXCEPT !.spec = s, !.generation = @ + 1]
        BY DEF Edited
      <4>2. old \in ConfigObject(o)
        BY DEF BindInv, ObjectsOK
      <4>3. obj.observed = old.observed /\ obj.generation = old.generation + 1
        BY <4>1, <4>2 DEF ConfigObject
      <4>4. old.observed \in Nat /\ old.generation \in Nat /\ old.observed <= old.generation
        BY <4>2 DEF ConfigObject
      <4> QED  BY <4>3, <4>4
    <3>4. CASE object[o] = {}
      BY <3>1, <3>2, <3>4
    <3>5. CASE object[o] # {}
      BY <3>1, <3>3, <3>5
    <3> QED  BY <3>4, <3>5
  <2> QED  BY <2>1, <2>2
<1>3. ASSUME churn <= 1 PROVE FirstView'
  BY <1>1, <1>2, <1>3, FirstViewKept DEF GrantsInv
<1>4. ASSUME churn <= 1, NEW d \in stored PROVE Known(d)'
  BY <1>1, <1>2, <1>4, ObjectWakes DEF GrantsInv
<1> QED  BY <1>1, <1>3, <1>4 DEF GrantsInv

LEMMA FirstViewSame ==
  ASSUME FirstView, UNCHANGED <<object, pending, seen, news, churn>> PROVE FirstView'
<1>1. \A x, obj : Reconciled(x, obj, seen') = Reconciled(x, obj, seen)
  OBVIOUS
<1> QED  BY <1>1 DEF FirstView, Early, AtMostOne

LEMMA LabelGrants ==
  ASSUME BindInv, GrantsInv, NEW s \in Secrets, Label(s) PROVE GrantsInv'
<1>1. /\ UNCHANGED <<stored, object, seen, news, pending, churn>>
      /\ dashQueue' = dashQueue \cup seen
  BY DEF Label, workers
<1>2. \A d \in stored : Known(d)'
  BY <1>1, SeenOrNews DEF Known, Woken
<1> QED  BY <1>1, <1>2, FirstViewSame DEF GrantsInv

LEMMA WorkerGrants ==
  ASSUME BindInv, GrantsInv, NEW w \in Names, Take(w) \/ ReconcileRole(w) \/ ReconcileStatus(w)
  PROVE  GrantsInv'
<1>1. UNCHANGED <<stored, seen, news, object, labels, pending, churn>>
  BY DEF Take, ReconcileRole, ReconcileStatus, clusterVars
<1>2. ASSUME churn <= 1 PROVE FirstView'
  BY <1>1, <1>2, FirstViewSame DEF GrantsInv
<1>3. ASSUME churn <= 1, NEW d \in stored PROVE Known(d)'
  <2>1. Known(d)
    BY <1>3 DEF GrantsInv
  <2>2. /\ SecretNames(d, seen)' = SecretNames(d, seen)
        /\ boundCountsForDashboard(d, seen)' = boundCountsForDashboard(d, seen)
        /\ Promised' = Promised
    BY <1>1, SameDerived
  <2>3. d \in Names
    BY DEF BindInv, TypeOK
  <2>4. \A e, x, y : [name |-> e, step |-> x] = [name |-> d, step |-> y] => e = d /\ x = y
    OBVIOUS
  <2>5. CASE Take(w)
    <3>1. /\ at = {} /\ UNCHANGED <<role, count>> /\ dashQueue' = dashQueue \ {w}
          /\ at' = IF w \in seen THEN {[name |-> w, step |-> "role"]} ELSE {}
      BY <2>5 DEF Take, clusterVars, Idle
    <3>2. CASE d = w
      <4>1. CASE d \in seen
        BY <3>1, <3>2, <4>1 DEF Known, RoleKnown, CountKnown, Doing
      <4>2. CASE d \notin seen
        BY <1>1, <4>2, SeenOrNews DEF Known, Woken
      <4> QED  BY <4>1, <4>2
    <3>3. CASE d # w
      <4>1. Woken(d) => Woken(d)'
        BY <1>1, <2>2, <3>1, <3>3 DEF Woken
      <4>2. \A steps : ~Doing(d, steps)
        BY <3>1 DEF Doing
      <4> QED  BY <2>1, <2>2, <3>1, <4>1, <4>2 DEF Known, RoleKnown, CountKnown
    <3> QED  BY <3>2, <3>3
  <2>6. CASE ReconcileRole(w)
    <3>1. /\ at = {[name |-> w, step |-> "role"]} /\ UNCHANGED <<count, dashQueue>>
          /\ at' = IF w \in stored THEN {[name |-> w, step |-> "status"]} ELSE {}
          /\ role' = IF w \in stored THEN [role EXCEPT ![w] = SecretNames(w, seen)] ELSE role
      BY <2>6 DEF ReconcileRole, Idle
    <3>2. Woken(d) => Woken(d)'
      BY <1>1, <2>2, <3>1 DEF Woken
    <3>3. role \in [Names -> SUBSET Secrets]
      BY DEF BindInv, TypeOK
    <3>4. CASE d = w
      <4>1. role'[d] = SecretNames(d, seen) /\ Doing(d, {"role", "status"})'
        BY <3>1, <3>3, <3>4 DEF Doing
      <4> QED  BY <2>2, <4>1 DEF Known, RoleKnown, CountKnown
    <3>5. CASE d # w
      <4>1. \A steps : ~Doing(d, steps)
        BY <2>4, <3>1, <3>5 DEF Doing
      <4>2. role'[d] = role[d]
        BY <2>3, <3>1, <3>3, <3>5
      <4> QED  BY <2>1, <2>2, <3>1, <3>2, <4>1, <4>2 DEF Known, RoleKnown, CountKnown
    <3> QED  BY <3>4, <3>5
  <2>7. CASE ReconcileStatus(w)
    <3> DEFINE new == boundCountsForDashboard(w, seen)
    <3>1. /\ at = {[name |-> w, step |-> "status"]} /\ at' = {} /\ UNCHANGED role
          /\ IF w \in stored /\ count[w] # new
             THEN count' = [count EXCEPT ![w] = new] /\ DashboardEvent(w)
             ELSE UNCHANGED <<count, dashQueue, objectQueue>>
      BY <2>7 DEF ReconcileStatus, Idle
    <3> HIDE DEF new
    <3>2. dashQueue \subseteq dashQueue'
      BY <3>1 DEF DashboardEvent
    <3>3. Woken(d) => Woken(d)'
      BY <1>1, <2>2, <3>2 DEF Woken
    <3>4. RoleKnown(d) => RoleKnown(d)'
      <4>1. ~Doing(d, {"role"})
        BY <2>4, <3>1 DEF Doing
      <4> QED  BY <2>2, <3>1, <4>1 DEF RoleKnown
    <3>5. count \in [Names -> 0..Cardinality(Objects)]
      BY DEF BindInv, TypeOK
    <3>6. CASE d = w
      <4>1. count'[d] = boundCountsForDashboard(d, seen)
        BY <2>3, <3>1, <3>5, <3>6 DEF new
      <4> QED  BY <2>1, <2>2, <3>3, <3>4, <4>1 DEF Known, CountKnown
    <3>7. CASE d # w
      <4>1. \A steps : ~Doing(d, steps)
        <5>1. \A x : [name |-> w, step |-> "status"] # [name |-> d, step |-> x]
          BY <2>4, <3>7
        <5> QED  BY <3>1, <5>1, Zenon DEF Doing
      <4>2. count'[d] = count[d]
        BY <2>3, <3>1, <3>5, <3>7
      <4> QED  BY <2>1, <2>2, <3>3, <3>4, <4>1, <4>2 DEF Known, CountKnown
    <3> QED  BY <3>6, <3>7
  <2> QED  BY <2>5, <2>6, <2>7
<1> QED  BY <1>1, <1>2, <1>3 DEF GrantsInv

\* While no object without ref exists, who else there is makes no difference.
LEMMA NamedOnly ==
  ASSUME NEW d, NEW D, NEW E,
         \A o \in Objects : \A obj \in object[o] : obj.spec.ref # Unset
  PROVE  /\ SecretNames(d, D) = SecretNames(d, E)
         /\ boundCountsForDashboard(d, D) = boundCountsForDashboard(d, E)
<1>1. Bound(d, D) = Bound(d, E)
  <2>1. ASSUME NEW o \in Objects, NEW obj \in object[o]
        PROVE  BoundTo(obj.spec.ref, d, Cardinality(D)) <=> BoundTo(obj.spec.ref, d, Cardinality(E))
    BY DEF BoundTo
  <2> QED  BY <2>1 DEF Bound
<1> QED  BY <1>1 DEF SecretNames, referencedSecretNames, boundCountsForDashboard

\* The first time that the cache shows a Dashboard come or go, an object without
\* ref promises a change of status to the others.
LEMMA ViewChanges ==
  ASSUME BindInv, FirstView, Early, seen' \in SUBSET Names, NEW x,
         \A e : e # x => (e \in seen <=> e \in seen'),
         UNCHANGED <<object, labels, at>>,
         NEW d \in Names \ {x}, Known(d), role'[d] = role[d], count'[d] = count[d],
         d \in dashQueue \cup news => d \in dashQueue' \cup news'
  PROVE  Known(d)'
<1>1. CASE seen' = seen
  BY <1>1, StaysKnown
<1>2. ASSUME seen' # seen, NEW o \in Objects, NEW obj \in object[o], obj.spec.ref = Unset
      PROVE  Known(d)'
  <2>1. obj \in ConfigObject(o) /\ seen \in SUBSET Names
    BY DEF BindInv, ObjectsOK, TypeOK
  <2>2. Reconciled(o, obj, seen).available # Reconciled(o, obj, seen').available
    BY <1>2, <2>1, ViewsDiffer
  <2>3. obj.observed = obj.generation => obj.available = Reconciled(o, obj, seen).available
    BY DEF FirstView
  <2>4. Reconciled(o, obj, seen').observed = obj.generation
    BY <2>1, ReconciledFacts
  <2>5. obj # Reconciled(o, obj, seen')
    BY <2>2, <2>3, <2>4
  <2>6. Promised'
    BY <1>2, <2>5 DEF Promised
  <2> QED  BY <2>6 DEF Known, Woken
<1>3. ASSUME \A o \in Objects : \A obj \in object[o] : obj.spec.ref # Unset
      PROVE  Known(d)'
  <2>1. \A D : /\ SecretNames(d, D) = SecretNames(d, seen)
               /\ boundCountsForDashboard(d, D) = boundCountsForDashboard(d, seen)
    BY <1>3, NamedOnly
  <2>2. /\ SecretNames(d, seen)' = SecretNames(d, seen')
        /\ boundCountsForDashboard(d, seen)' = boundCountsForDashboard(d, seen')
    BY DEF SecretNames, referencedSecretNames, boundCountsForDashboard, Bound
  <2>3. /\ SecretNames(d, seen)' = SecretNames(d, seen)
        /\ boundCountsForDashboard(d, seen)' = boundCountsForDashboard(d, seen)
    BY <2>1, <2>2
  <2>4. ~Promised
    BY <1>3 DEF Promised
  <2>5. Woken(d) => Woken(d)'
    BY <2>4 DEF Woken
  <2>6. \A steps : Doing(d, steps)' = Doing(d, steps)
    BY DEF Doing
  <2> QED  BY <2>3, <2>5, <2>6 DEF Known, RoleKnown, CountKnown
<1> QED  BY <1>1, <1>2, <1>3

LEMMA SyncGrants ==
  ASSUME BindInv, GrantsInv, NEW x \in Names, Sync(x) PROVE GrantsInv'
<1>1. /\ UNCHANGED <<stored, role, count, object, labels, at, pending, churn>>
      /\ x \in news /\ news' = news \ {x} /\ dashQueue' = dashQueue \cup {x}
      /\ seen' = IF x \in stored THEN seen \cup {x} ELSE seen \ {x}
  BY DEF Sync, DashboardEvent, clusterVars, workers
<1>2. ASSUME churn <= 1 PROVE news = {x} /\ news' = {} /\ churn # 0 /\ FirstView
  BY <1>1, <1>2 DEF GrantsInv, FirstView, AtMostOne
<1>3. ASSUME churn <= 1 PROVE FirstView'
  <2>1. ~Early' /\ AtMostOne(news')
    BY <1>1, <1>2, <1>3 DEF Early, AtMostOne
  <2> QED  BY <1>1, <1>2, <1>3, <2>1 DEF FirstView, Early
<1>4. ASSUME churn <= 1, NEW d \in stored PROVE Known(d)'
  <2>1. d \in Names /\ seen' \in SUBSET Names
    BY <1>1 DEF BindInv, TypeOK
  <2>2. CASE d = x
    BY <1>1, <2>2 DEF Known, Woken
  <2>3. CASE d # x
    <3>1. FirstView /\ Early /\ Known(d)
      BY <1>1, <1>2, <1>4 DEF Early, GrantsInv
    <3>2. \A e : e # x => (e \in seen <=> e \in seen')
      BY <1>1
    <3>3. d \in dashQueue \cup news => d \in dashQueue' \cup news'
      BY <1>1, <2>3
    <3> QED  BY <1>1, <2>1, <2>3, <3>1, <3>2, <3>3, ViewChanges
  <2> QED  BY <2>2, <2>3
<1> QED  BY <1>1, <1>3, <1>4 DEF GrantsInv

LEMMA ChurnGrants ==
  ASSUME BindInv, GrantsInv, NEW x \in Names, Churn(x) PROVE GrantsInv'
<1>1. /\ UNCHANGED <<object, labels, at, pending>> /\ churn' = churn + 1 /\ churn \in Nat
      /\ stored' = IF x \in stored THEN stored \ {x} ELSE stored \cup {x}
      /\ role' = [role EXCEPT ![x] = {}] /\ count' = [count EXCEPT ![x] = 0]
      /\ \/ news' = news \cup {x} /\ UNCHANGED <<seen, dashQueue>>
         \/ seen' = stored' /\ dashQueue' = dashQueue \cup {x} /\ UNCHANGED news
  BY DEF Churn, DashboardEvent, workers, GrantsInv
<1>2. SUFFICES ASSUME churn' <= 1 PROVE FirstView' /\ \A d \in stored' : Known(d)'
  BY <1>1 DEF GrantsInv
<1>3. churn = 0 /\ churn' = 1 /\ news = {} /\ FirstView /\ \A d \in stored : Known(d)
  BY <1>1, <1>2 DEF GrantsInv, FirstView
<1>4. seen = stored /\ stored \in SUBSET Names
  BY <1>3 DEF BindInv, TypeOK, CacheCatchesUp
<1>5. FirstView'
  <2>1. AtMostOne(news')
    BY <1>1, <1>3 DEF AtMostOne
  <2>2. CASE seen' = seen
    <3>1. \A o, obj : Reconciled(o, obj, seen') = Reconciled(o, obj, seen)
      BY <2>2
    <3> QED  BY <1>1, <1>3, <2>1, <3>1 DEF FirstView, Early
  <2>3. CASE news' = news
    BY <1>3, <2>1, <2>3 DEF FirstView, Early
  <2> QED  BY <1>1, <2>2, <2>3
<1>6. ASSUME NEW d \in stored' PROVE Known(d)'
  <2>1. CASE d = x
    BY <1>1, <2>1 DEF Known, Woken
  <2>2. CASE d # x
    <3>1. d \in stored /\ Known(d) /\ d \in Names \ {x}
      BY <1>1, <1>3, <1>4, <1>6, <2>2
    <3>2. role'[d] = role[d] /\ count'[d] = count[d]
      BY <1>1, <2>2, <3>1 DEF BindInv, TypeOK
    <3>3. seen' \in SUBSET Names /\ \A e : e # x => (e \in seen <=> e \in seen')
      BY <1>1, <1>4
    <3>4. d \in dashQueue \cup news => d \in dashQueue' \cup news'
      BY <1>1
    <3> QED  BY <1>1, <1>3, <3>1, <3>2, <3>3, <3>4, ViewChanges DEF Early
  <2> QED  BY <2>1, <2>2
<1> QED  BY <1>5, <1>6

LEMMA NextGrants == BindInv /\ GrantsInv /\ [Next]_vars => GrantsInv'
<1> SUFFICES ASSUME BindInv, GrantsInv, [Next]_vars PROVE GrantsInv'
  OBVIOUS
<1>1. CASE UNCHANGED vars
  <2>1. UNCHANGED <<stored, seen, news, role, count, object, labels, dashQueue, at, pending, churn>>
    BY <1>1 DEF vars, clusterVars, workers
  <2>2. \A d : Known(d) => Known(d)'
    BY <2>1, StaysKnown
  <2> QED  BY <2>1, <2>2, FirstViewSame DEF GrantsInv
<1>2. CASE Next
  BY <1>2, ReadGrants, WriteGrants, WorkerGrants, SyncGrants, EditGrants, LabelGrants, ChurnGrants
     DEF Next, Work
<1> QED  BY <1>1, <1>2

LEMMA SecretsAreReadable ==
  ASSUME BindInv, NEW d \in stored
  PROVE  SecretNames(d, stored) = {s \in Secrets : MayRead(d, s)}
<1>1. \A o \in Objects : \A obj \in object[o] : obj.spec.secrets \subseteq Secrets
  BY BoundAssumption DEF BindInv, ObjectsOK, ConfigObject
<1>2. DashSpec[d].auth \cup DashSpec[d].defaults \subseteq Secrets
  BY BoundAssumption DEF BindInv, TypeOK
<1> DEFINE B(s) == \E o \in HasWidgets : \E obj \in object[o] :
                     BoundTo(obj.spec.ref, d, Cardinality(stored)) /\ s \in obj.spec.secrets
<1>3. ASSUME NEW s PROVE s \in referencedSecretNames(d, stored) <=> B(s)
  <2> DEFINE os == Bound(d, stored) \cap HasWidgets
             objs == UNION {object[o] : o \in os}
  <2>1. s \in referencedSecretNames(d, stored) <=> \E obj \in objs : s \in obj.spec.secrets
    BY DEF referencedSecretNames
  <2>2. \A obj : obj \in objs <=> \E o \in os : obj \in object[o]
    OBVIOUS
  <2> HIDE DEF objs
  <2>3. ASSUME \E o \in os : \E obj \in object[o] : s \in obj.spec.secrets PROVE B(s)
    <3>1. PICK o \in os : \E obj \in object[o] : s \in obj.spec.secrets
      BY <2>3
    <3>2. PICK obj \in object[o] : s \in obj.spec.secrets
      BY <3>1
    <3>3. AtMostOne(object[o])
      BY DEF BindInv, ObjectsOK, Bound
    <3>4. PICK bound \in object[o] : BoundTo(bound.spec.ref, d, Cardinality(stored))
      BY DEF Bound
    <3>5. bound = obj
      BY <3>2, <3>3, <3>4 DEF AtMostOne
    <3> QED  BY <3>2, <3>4, <3>5
  <2>4. ASSUME B(s) PROVE \E o \in os : \E obj \in object[o] : s \in obj.spec.secrets
    <3>1. PICK o \in HasWidgets : \E obj \in object[o] :
             BoundTo(obj.spec.ref, d, Cardinality(stored)) /\ s \in obj.spec.secrets
      BY <2>4
    <3>2. o \in Objects
      BY BoundAssumption
    <3> QED  BY <3>1, <3>2 DEF Bound
  <2> QED  BY <2>1, <2>2, <2>3, <2>4
<1> HIDE DEF B
<1>4. ASSUME NEW s, B(s) PROVE s \in Secrets
  <2>1. PICK o \in HasWidgets : \E obj \in object[o] : s \in obj.spec.secrets
    BY <1>4 DEF B
  <2>2. o \in Objects
    BY BoundAssumption
  <2> QED  BY <1>1, <2>1, <2>2
<1>5. ASSUME NEW s PROVE s \in SecretNames(d, stored) <=> s \in Secrets /\ MayRead(d, s)
  <2>1. MayRead(d, s) <=> \/ s \in DashSpec[d].auth
                          \/ /\ DashSpec[d].labeled => s \in labels
                             /\ s \in DashSpec[d].defaults \/ B(s)
    BY DEF MayRead, B
  <2>2. s \in SecretNames(d, stored) <=>
          \/ s \in DashSpec[d].auth
          \/ /\ DashSpec[d].labeled => s \in labels
             /\ s \in DashSpec[d].defaults \/ s \in referencedSecretNames(d, stored)
    BY DEF SecretNames
  <2> QED  BY <1>2, <1>3, <1>4, <2>1, <2>2
<1> QED  BY <1>5

LEMMA QuietGrants == BindInv /\ GrantsInv => GrantsFollowBindings
<1> SUFFICES ASSUME BindInv, GrantsInv, Quiet, churn <= 1, NEW d \in stored PROVE Agrees(d)
  BY DEF GrantsFollowBindings
<1>1. /\ news = {} /\ dashQueue = {} /\ objectQueue = {} /\ at = {}
      /\ \A o \in Objects : pending[o] = {}
  BY DEF Quiet, Idle
<1>2. seen = stored
  BY <1>1 DEF BindInv, TypeOK, CacheCatchesUp
<1>3. ~Promised
  BY <1>1 DEF Promised, BindInv, Attended
<1>4. \A steps : ~Doing(d, steps)
  BY <1>1 DEF Doing
<1>5. Known(d) /\ ~Woken(d)
  BY <1>1, <1>3 DEF GrantsInv, Woken
<1>6. /\ role[d] = SecretNames(d, stored)
      /\ count[d] = boundCountsForDashboard(d, stored)
  BY <1>2, <1>4, <1>5 DEF Known, RoleKnown, CountKnown
<1> QED  BY <1>6, SecretsAreReadable DEF Agrees, boundCountsForDashboard

\* Once the controllers are quiet, each Dashboard's Role grants exactly the
\* Secrets that the objects bound to it name and its policy allows, and its status
\* counts those objects (referencedSecretNames, boundCountsForDashboard, the
\* watches on config objects), for any Dashboards, objects and edits, as long as
\* at most one Dashboard comes or goes.
THEOREM GrantsAlwaysFollowBindings == Spec => []GrantsFollowBindings
<1>1. Spec => []BindInv
  BY BindAlways
<1> QED  BY <1>1, InitGrants, NextGrants, QuietGrants, PTL DEF Spec
=============================================================================

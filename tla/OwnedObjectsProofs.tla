------------------------- MODULE OwnedObjectsProofs -------------------------
(***************************************************************************)
(* What Reconcile does to the objects a Dashboard owns, for any specs, any *)
(* annotations, any kinds whose informer lags and any number of edits,     *)
(* foreign writes and failed calls: it keeps the annotations of others, it *)
(* accounts for every other key, and it goes quiet only when it is done.   *)
(*                                                                         *)
(* OwnedInv is inductive.  Its first parts are about single objects and    *)
(* caches; WorkInv is the argument of the last theorem: what is behind the *)
(* step that Reconcile is at matches the spec it works from, and that spec *)
(* is the current one, unless something is on its way to the queue.        *)
(***************************************************************************)
EXTENDS OwnedObjects, FiniteSetTheorems, TLAPS

StepNames == {Steps[i] : i \in 1..Len(Steps)}
AtMostOne(S) == S = {} \/ \E s : S = {s}

Reasons == StepNames \cup {"", "NotReady", "True", "Unknown"}
Addresses == {"", "cluster", "i1", "i2", "g1"}
Dashboards == [spec : Specs, generation : Nat, available : Reasons, condGeneration : Nat,
               observedGeneration : Nat, url : Addresses]
IsDashboard(d) ==
    /\ d \in Dashboards
    /\ d.observedGeneration <= d.generation /\ d.condGeneration <= d.generation

TypeInv ==
    /\ GatewayAPIEnabled \in Gateways /\ queued \in BOOLEAN /\ news \subseteq Lagging
    /\ IsDashboard(dash) /\ IsDashboard(inst) /\ IsDashboard(seenDash)
    /\ pc \in {"idle", "fail"} \cup StepNames /\ reason \in Reasons /\ drift \in Nat
    /\ DOMAIN live = Kinds /\ \A k \in Kinds : AtMostOne(live[k])
    /\ DOMAIN seen = Kinds /\ \A k \in Kinds : AtMostOne(seen[k])
    /\ DOMAIN unrecorded = Annotated

\* A cache that is not current has something to deliver.
CacheInv ==
    /\ \A k \in Kinds : k \in news \/ seen[k] = live[k]
    /\ "Dashboard" \in news \/ seenDash = dash

\* The record of managed annotations names no foreign key, and every key is in
\* it, foreign, or written by a Create and not recorded since.
IsObject(o) == o = [body |-> o.body, rest |-> o.rest, keys |-> o.keys, managed |-> o.managed]

KeysInv ==
    /\ \A k \in Annotated : \A o \in live[k] :
         /\ IsObject(o) /\ o.managed \cap Foreign = {}
         /\ o.keys \subseteq o.managed \cup Foreign \cup unrecorded[k]
    /\ ~GatewayAPIEnabled => live["HTTPRoute"] = {}

\* The request is in the queue, or an undelivered event will bring it there.
Woken == queued \/ \E k \in news : k = "Dashboard" \/ k \in Watched

\* The object of kind k is as spec s asks for it.  NetworkPolicies are not
\* watched: nothing tells of one that others changed or that the cache shows late.
Excused(k) == k = "NetworkPolicy" /\ (drift # 0 \/ k \in Lagging)
Fits(k, s) ==
    IF Enabled(k, s) THEN \E o \in live[k] : ~Changed(k, o, Desired(k, s))
                     ELSE Deletes(k) => live[k] = {}
Current(k, s) == ~Missing(k, s) /\ (Excused(k) \/ Fits(k, s))

\* What is behind step i of a pass is done.
Behind(i) ==
    \A j \in 1..(i - 1) : Steps[j] \in Kinds => Current(Steps[j], inst.spec)

Finished ==
    /\ dash.available = "True" /\ dash.url = dashboardURL(dash.spec)
    /\ dash.condGeneration = dash.generation /\ dash.observedGeneration = dash.generation
    /\ \A d \in live["Deployment"] : d.rest >= Replicas(dash.spec)
    /\ \A k \in Kinds : Current(k, dash.spec)

WorkInv ==
    Woken \/ /\ \A i \in 1..Len(Steps) : pc = Steps[i] => inst = dash /\ Behind(i)
             /\ pc = "idle" => Finished

OwnedInv == TypeInv /\ CacheInv /\ KeysInv /\ WorkInv
-----------------------------------------------------------------------------
(***************************************************************************)
(* The steps of Reconcile.                                                 *)
(***************************************************************************)
LEMMA StepFacts ==
  /\ Len(Steps) = 10
  /\ Kinds = {"ServiceAccount", "Role", "RoleBinding", "Deployment", "Service", "Ingress",
              "HTTPRoute", "NetworkPolicy"}
  /\ StepNames = Kinds \cup {"Discovery", "Status"}
<1>1. Len(Steps) = 10
  BY DEF Steps
<1>2. StepNames = {"ServiceAccount", "Role", "RoleBinding", "Deployment", "Service",
                   "Ingress", "HTTPRoute", "Discovery", "NetworkPolicy", "Status"}
  BY <1>1 DEF Steps, StepNames
<1>3. Kinds = StepNames \ {"Discovery", "Status"}
  BY DEF Kinds, StepNames
<1> QED  BY <1>1, <1>2, <1>3

LEMMA StepsDistinct == \A i, j \in 1..10 : Steps[i] = Steps[j] => i = j
<1> DEFINE Place(s) == CASE s = "ServiceAccount" -> 1 [] s = "Role" -> 2
                         [] s = "RoleBinding" -> 3 [] s = "Deployment" -> 4
                         [] s = "Service" -> 5 [] s = "Ingress" -> 6
                         [] s = "HTTPRoute" -> 7 [] s = "Discovery" -> 8
                         [] s = "NetworkPolicy" -> 9 [] OTHER -> 10
<1>1. /\ Steps[1] = "ServiceAccount" /\ Steps[2] = "Role" /\ Steps[3] = "RoleBinding"
      /\ Steps[4] = "Deployment" /\ Steps[5] = "Service" /\ Steps[6] = "Ingress"
      /\ Steps[7] = "HTTPRoute" /\ Steps[8] = "Discovery" /\ Steps[9] = "NetworkPolicy"
      /\ Steps[10] = "Status"
  BY DEF Steps
<1>2. \A i \in 1..10 : Place(Steps[i]) = i
  <2>1. \A i \in 1..10 : i = 1 \/ i = 2 \/ i = 3 \/ i = 4 \/ i = 5 \/ i = 6 \/ i = 7
                         \/ i = 8 \/ i = 9 \/ i = 10
    OBVIOUS
  <2>2. /\ Place("ServiceAccount") = 1 /\ Place("Role") = 2 /\ Place("RoleBinding") = 3
        /\ Place("Deployment") = 4 /\ Place("Service") = 5 /\ Place("Ingress") = 6
        /\ Place("HTTPRoute") = 7 /\ Place("Discovery") = 8 /\ Place("NetworkPolicy") = 9
        /\ Place("Status") = 10
    OBVIOUS
  <2> HIDE DEF Place
  <2> QED  BY <1>1, <2>1, <2>2
<1> HIDE DEF Place
<1> QED  BY <1>2

LEMMA ThenFacts ==
  ASSUME NEW i \in 1..9 PROVE Then[Steps[i]] = Steps[i + 1]
<1> DEFINE c == CHOOSE n \in 1..Len(Steps) : Steps[n] = Steps[i]
<1>1. Len(Steps) = 10
  BY StepFacts
<1>2. c \in 1..10 /\ Steps[c] = Steps[i]
  <2>1. \E n \in 1..Len(Steps) : Steps[n] = Steps[i]
    BY <1>1
  <2> QED  BY <1>1, <2>1
<1> HIDE DEF c
<1>3. c = i /\ 1 + i = i + 1
  BY <1>2, StepsDistinct
<1>4. Steps[i] \in {Steps[n] : n \in 1..(Len(Steps) - 1)}
  BY <1>1
<1>5. Then[Steps[i]] = Steps[1 + c]
  BY <1>4 DEF Then, c
<1> QED  BY <1>3, <1>5

\* The step after a kind's is a step, and "Discovery" leads to "NetworkPolicy".
LEMMA NextStep ==
  ASSUME NEW i \in 1..10, Steps[i] # "Status"
  PROVE  i + 1 \in 1..10 /\ Then[Steps[i]] = Steps[i + 1] /\ Steps[i + 1] \in StepNames
<1>1. Steps[10] = "Status"
  BY DEF Steps
<1>2. i \in 1..9
  BY <1>1
<1> QED  BY <1>2, ThenFacts, StepFacts DEF StepNames

LEMMA StepNamed ==
  ASSUME NEW s \in StepNames PROVE \E i \in 1..10 : s = Steps[i]
  BY StepFacts DEF StepNames
-----------------------------------------------------------------------------
(***************************************************************************)
(* What the pieces of the actions do.                                      *)
(***************************************************************************)
\* What the reconciler writes into the status.
LEMMA StatusFacts ==
  ASSUME NEW d, IsDashboard(d), NEW r \in Reasons
  PROVE  /\ IsDashboard(WithCondition(d, r))
         /\ WithCondition(d, r).spec = d.spec
<1> DEFINE w == WithCondition(d, r)
<1>1. w = [d EXCEPT !.available = r, !.condGeneration = d.generation]
  BY DEF WithCondition
<1>2. d \in Dashboards
  BY DEF IsDashboard
<1> HIDE DEF w
<1>3. w \in Dashboards
  BY <1>1, <1>2 DEF Dashboards
<1>4. /\ w.spec = d.spec /\ w.generation = d.generation /\ w.condGeneration = d.generation
      /\ w.observedGeneration = d.observedGeneration
  BY <1>1, <1>2 DEF Dashboards
<1>5. d.generation \in Nat
  BY <1>2 DEF Dashboards
<1> QED  BY <1>3, <1>4, <1>5 DEF IsDashboard, w

LEMMA ReportFacts ==
  ASSUME NEW d, IsDashboard(d), NEW r \in Reasons
  PROVE  LET observed == [d EXCEPT !.observedGeneration = d.generation,
                                   !.url = dashboardURL(d.spec)]
             new      == WithCondition(observed, r)
         IN  /\ IsDashboard(new) /\ new.spec = d.spec /\ new.generation = d.generation
             /\ new.available = r /\ new.url = dashboardURL(d.spec)
             /\ new.condGeneration = new.generation
             /\ new.observedGeneration = new.generation
<1> DEFINE o == [d EXCEPT !.observedGeneration = d.generation, !.url = dashboardURL(d.spec)]
           new == WithCondition(o, r)
<1>1. d \in Dashboards /\ d.spec \in Specs /\ d.generation \in Nat
  BY DEF IsDashboard, Dashboards
<1>2. dashboardURL(d.spec) \in Addresses
  <2>1. d.spec.ingress \in {Off, "i1", "i2"} /\ d.spec.gateway \in {Off, "g1"}
    BY <1>1, OwnedAssumption DEF IsSpec
  <2> QED  BY <2>1 DEF dashboardURL, Off, Addresses
<1>3. o \in Dashboards
  BY <1>1, <1>2 DEF Dashboards
<1>4. /\ o.spec = d.spec /\ o.generation = d.generation /\ o.observedGeneration = d.generation
      /\ o.url = dashboardURL(d.spec) /\ o.condGeneration = d.condGeneration
  BY <1>1, <1>2 DEF Dashboards
<1> HIDE DEF o
<1>5. IsDashboard(o)
  BY <1>1, <1>3, <1>4 DEF IsDashboard
<1>6. new = [o EXCEPT !.available = r, !.condGeneration = o.generation]
  BY DEF WithCondition
<1> HIDE DEF new
<1>7. /\ new.generation = o.generation /\ new.available = r /\ new.url = o.url
      /\ new.condGeneration = o.generation /\ new.observedGeneration = o.observedGeneration
  BY <1>3, <1>6 DEF Dashboards
<1>8. IsDashboard(new) /\ new.spec = o.spec
  BY <1>5, StatusFacts DEF new
<1> QED  BY <1>4, <1>7, <1>8 DEF o, new

LEMMA StatusUpdateFacts ==
  ASSUME NEW new, NEW ok \in BOOLEAN, StatusUpdate(new, ok)
  PROVE  (dash' = dash /\ ~ok) \/ (inst = dash /\ dash' = new)
<1>1. {new : x \in {y \in {1} : inst = dash}} = IF inst = dash THEN {new} ELSE {}
  OBVIOUS
<1> QED  BY <1>1 DEF StatusUpdate

\* Where a call leads: another pass, failAvailable, or the next step.
LEMMA AfterFacts ==
  ASSUME TypeInv, NEW k \in Kinds, NEW ok \in BOOLEAN, After(k, ok)
  PROVE  /\ \E again \in BOOLEAN : Observe(again)
         /\ reason' \in Reasons /\ IsDashboard(inst')
         /\ \/ pc' = "fail"
            \/ pc' = "idle" /\ Observe(TRUE)
            \/ ok /\ k # "Deployment" /\ pc' = Then[k] /\ inst' = inst
<1>1. k \in Reasons /\ reason \in Reasons /\ IsDashboard(inst) /\ IsDashboard(seenDash)
  BY StepFacts DEF TypeInv, Reasons
<1>2. CASE ok
  BY <1>1, <1>2 DEF After, Succeeded
<1>3. CASE ~ok
  <2>1. Failed(k)
    BY <1>3 DEF After
  <2>2. CASE k = "Deployment" /\ seen[k] = {}
    BY <1>1, <2>1, <2>2 DEF Failed
  <2>3. CASE k = "Deployment" /\ seen[k] # {}
    BY <1>1, <2>1, <2>3 DEF Failed
  <2>4. CASE k # "Deployment"
    BY <1>1, <2>1, <2>4 DEF Failed
  <2> QED  BY <2>2, <2>3, <2>4
<1> QED  BY <1>2, <1>3

\* What an event does: caches that keep up are current, the others have news,
\* and the request is on its way to the queue.
LEMMA ObserveFacts ==
  ASSUME TypeInv, CacheInv, NEW again \in BOOLEAN, Observe(again),
         GatewayAPIEnabled' = GatewayAPIEnabled,
         IsDashboard(dash'), \A k \in Kinds : AtMostOne(live'[k])
  PROVE  /\ queued' \in BOOLEAN /\ news' \subseteq Lagging /\ IsDashboard(seenDash')
         /\ DOMAIN seen' = Kinds /\ \A k \in Kinds : AtMostOne(seen'[k])
         /\ CacheInv'
         /\ again \/ Woken => Woken'
         /\ dash' # dash => Woken'
         /\ \A k \in Watched : live'[k] # live[k] => Woken'
<1>1. /\ seen' = [k \in Kinds |-> IF k \in Lagging THEN seen[k] ELSE live'[k]]
      /\ seenDash' = IF "Dashboard" \in Lagging THEN seenDash ELSE dash'
      /\ news' = news \cup {k \in Lagging : IF k = "Dashboard" THEN dash' # dash
                                            ELSE live'[k] # live[k]}
      /\ queued' = (\/ again \/ queued
                    \/ dash' # dash /\ "Dashboard" \notin Lagging
                    \/ \E k \in Watched \ Lagging : live'[k] # live[k])
  BY DEF Observe
<1>2. queued' \in BOOLEAN /\ news' \subseteq Lagging
  BY <1>1 DEF TypeInv
<1>3. IsDashboard(seenDash')
  BY <1>1 DEF TypeInv
<1>4. DOMAIN seen' = Kinds /\ \A k \in Kinds : AtMostOne(seen'[k])
  BY <1>1 DEF TypeInv
<1>5. "Dashboard" \notin Kinds /\ Watched \subseteq Kinds /\ Watched' = Watched
  BY StepFacts DEF Watched
<1>6. CacheInv'
  <2>1. ASSUME NEW k \in Kinds PROVE k \in news' \/ seen'[k] = live'[k]
    <3>1. CASE k \notin Lagging
      BY <1>1, <3>1
    <3>2. CASE k \in Lagging
      BY <1>1, <1>5, <3>2 DEF CacheInv
    <3> QED  BY <3>1, <3>2
  <2>2. "Dashboard" \in news' \/ seenDash' = dash'
    BY <1>1 DEF CacheInv
  <2> QED  BY <2>1, <2>2 DEF CacheInv
<1>7. again \/ Woken => Woken'
  BY <1>1, <1>5 DEF Woken
<1>8. dash' # dash => Woken'
  BY <1>1 DEF Woken
<1>9. \A k \in Watched : live'[k] # live[k] => Woken'
  BY <1>1, <1>5 DEF Woken
<1> QED  BY <1>2, <1>3, <1>4, <1>6, <1>7, <1>8, <1>9
-----------------------------------------------------------------------------
(***************************************************************************)
(* Types, caches, and the events of a step.                                *)
(***************************************************************************)
\* No step but Start takes the request from the queue, and what a step changes
\* that the controller watches brings it there.
Heard ==
    /\ GatewayAPIEnabled' = GatewayAPIEnabled
    /\ Woken => Woken'
    /\ dash' # dash => Woken'
    /\ \A k \in Watched : live'[k] # live[k] => Woken'

LEMMA LiveFacts ==
  ASSUME TypeInv, NEW k \in Kinds, NEW new, AtMostOne(new),
         live' = live \/ live' = [live EXCEPT ![k] = new]
  PROVE  /\ DOMAIN live' = Kinds /\ \A x \in Kinds : AtMostOne(live'[x])
         /\ \A x \in Kinds \ {k} : live'[x] = live[x]
  BY DEF TypeInv

LEMMA EventKeeps ==
  ASSUME TypeInv, CacheInv, NEW again \in BOOLEAN, Observe(again),
         GatewayAPIEnabled' = GatewayAPIEnabled,
         IsDashboard(dash'), IsDashboard(inst'), reason' \in Reasons,
         pc' \in {"idle", "fail"} \cup StepNames, drift' \in Nat,
         DOMAIN live' = Kinds, \A k \in Kinds : AtMostOne(live'[k]),
         DOMAIN unrecorded' = Annotated
  PROVE  TypeInv' /\ CacheInv' /\ Heard /\ (again => Woken')
<1>1. /\ queued' \in BOOLEAN /\ news' \subseteq Lagging /\ IsDashboard(seenDash')
      /\ DOMAIN seen' = Kinds /\ \A k \in Kinds : AtMostOne(seen'[k])
  BY ObserveFacts
<1>2. /\ CacheInv'
      /\ again \/ Woken => Woken'
      /\ dash' # dash => Woken'
      /\ \A k \in Watched : live'[k] # live[k] => Woken'
  BY ObserveFacts
<1>3. GatewayAPIEnabled' \in Gateways
  BY DEF TypeInv
<1>4. TypeInv'
  BY <1>1, <1>3 DEF TypeInv, IsDashboard, AtMostOne
<1> QED  BY <1>2, <1>4 DEF Heard

LEMMA StillKeeps ==
  ASSUME TypeInv, CacheInv,
         UNCHANGED <<GatewayAPIEnabled, dash, seenDash, live, seen, news, queued, inst, drift,
                     unrecorded>>,
         pc' \in {"idle", "fail"} \cup StepNames, reason' \in Reasons
  PROVE  TypeInv' /\ CacheInv' /\ Heard
<1>1. TypeInv'
  BY DEF TypeInv, IsDashboard, AtMostOne
<1>2. CacheInv'
  BY DEF CacheInv
<1>3. Watched' = Watched
  BY DEF Watched
<1>4. Woken' <=> Woken
  BY <1>3 DEF Woken
<1> QED  BY <1>1, <1>2, <1>4 DEF Heard

LEMMA CallKeeps ==
  ASSUME TypeInv, CacheInv, NEW k \in Kinds, Create(k) \/ Update(k) \/ Delete(k)
  PROVE  TypeInv' /\ CacheInv' /\ Heard
<1>1. \E ok, new : /\ ok \in BOOLEAN /\ AtMostOne(new) /\ After(k, ok)
                   /\ live' = live \/ live' = [live EXCEPT ![k] = new]
  <2>1. CASE Create(k)
    <3>1. PICK ok \in BOOLEAN :
            /\ Call(k, {Stored(k, Desired(k, inst.spec))}, live[k] = {}, ok)
            /\ After(k, ok)
      BY <2>1 DEF Create
    <3>2. live' = live \/ live' = [live EXCEPT ![k] = {Stored(k, Desired(k, inst.spec))}]
      BY <3>1 DEF Call
    <3> QED  BY <3>1, <3>2 DEF AtMostOne
  <2>2. CASE Update(k)
    <3>1. PICK found \in seen[k], ok \in BOOLEAN :
            /\ Call(k, {Stored(k, Merged(k, found, Desired(k, inst.spec)))},
                    live[k] = {found}, ok)
            /\ After(k, ok)
      BY <2>2 DEF Update
    <3>2. \/ live' = live
          \/ live' = [live EXCEPT ![k] = {Stored(k, Merged(k, found, Desired(k, inst.spec)))}]
      BY <3>1 DEF Call
    <3> QED  BY <3>1, <3>2 DEF AtMostOne
  <2>3. CASE Delete(k)
    <3>1. PICK ok \in BOOLEAN : Call(k, {}, TRUE, ok) /\ After(k, ok)
      BY <2>3 DEF Delete
    <3>2. live' = live \/ live' = [live EXCEPT ![k] = {}]
      BY <3>1 DEF Call
    <3> QED  BY <3>1, <3>2 DEF AtMostOne
  <2> QED  BY <2>1, <2>2, <2>3
<1>2. PICK ok, new : /\ ok \in BOOLEAN /\ AtMostOne(new) /\ After(k, ok)
                     /\ live' = live \/ live' = [live EXCEPT ![k] = new]
  BY <1>1
<1>3. dash' = dash /\ GatewayAPIEnabled' = GatewayAPIEnabled /\ drift' = drift
  BY DEF Create, Update, Delete, Frame
<1>4. DOMAIN unrecorded' = Annotated
  BY DEF Create, Update, Delete, TypeInv
<1>5. DOMAIN live' = Kinds /\ \A x \in Kinds : AtMostOne(live'[x])
  BY <1>2, LiveFacts
<1>6. /\ \E again \in BOOLEAN : Observe(again)
      /\ reason' \in Reasons /\ IsDashboard(inst')
      /\ pc' \in {"idle", "fail", Then[k]}
  BY <1>2, AfterFacts
<1>7. Then[k] \in StepNames
  <2>1. PICK i \in 1..10 : k = Steps[i]
    BY StepNamed, StepFacts
  <2> QED  BY <2>1, NextStep, StepFacts
<1>8. PICK again \in BOOLEAN : Observe(again)
  BY <1>6
<1>9. IsDashboard(dash') /\ drift' \in Nat /\ pc' \in {"idle", "fail"} \cup StepNames
  BY <1>3, <1>6, <1>7 DEF TypeInv
<1> QED  BY <1>3, <1>4, <1>5, <1>6, <1>8, <1>9, EventKeeps

LEMMA QuietStepKeeps ==
  ASSUME TypeInv, CacheInv,
         Unavailable \/ CheckDiscovery \/ ReportGone \/ \E k \in Kinds : Pass(k)
  PROVE  TypeInv' /\ CacheInv' /\ Heard
<1>1. UNCHANGED <<GatewayAPIEnabled, dash, seenDash, live, seen, news, queued, inst, drift,
                  unrecorded>>
  BY DEF Unavailable, CheckDiscovery, ReportGone, Pass, budget
<1>2. pc' \in {"idle", "fail"} \cup StepNames
  <2>1. ASSUME NEW k \in StepNames \ {"Status"} PROVE Then[k] \in StepNames
    <3>1. PICK i \in 1..10 : k = Steps[i]
      BY StepNamed
    <3> QED  BY <3>1, NextStep
  <2> QED  BY <2>1, StepFacts DEF Unavailable, CheckDiscovery, ReportGone, Pass, At
<1>3. reason' \in Reasons
  <2>1. reason \in Reasons /\ "NotReady" \in Reasons
    BY DEF TypeInv, Reasons
  <2>2. CASE Unavailable
    BY <2>2, StepFacts DEF Unavailable, Missing, Reasons
  <2>3. CASE ~Unavailable
    BY <2>1, <2>3 DEF CheckDiscovery, ReportGone, Pass
  <2> QED  BY <2>2, <2>3
<1> QED  BY <1>1, <1>2, <1>3, StillKeeps

LEMMA StatusStepKeeps ==
  ASSUME TypeInv, CacheInv, failAvailable \/ Report
  PROVE  TypeInv' /\ CacheInv' /\ Heard
<1>1. /\ UNCHANGED <<live, inst, reason, unrecorded, GatewayAPIEnabled, drift>>
      /\ pc' = "idle"
  BY DEF failAvailable, Report, Frame
<1>2. \E again \in BOOLEAN : Observe(again)
  <2>1. CASE failAvailable
    BY <2>1 DEF failAvailable
  <2>2. CASE Report
    <3>1. PICK ok \in BOOLEAN : Observe(~ok \/ ~deploymentReady(inst.spec))
      BY <2>2 DEF Report
    <3>2. (~ok \/ ~deploymentReady(inst.spec)) \in BOOLEAN
      OBVIOUS
    <3> QED  BY <3>1, <3>2
  <2> QED  BY <2>1, <2>2
<1>3. IsDashboard(dash')
  <2>1. IsDashboard(dash) /\ IsDashboard(inst) /\ reason \in Reasons
    BY DEF TypeInv
  <2>2. CASE failAvailable
    <3>1. PICK ok \in BOOLEAN : StatusUpdate(WithCondition(inst, reason), ok)
      BY <2>2 DEF failAvailable
    <3>2. dash' = dash \/ dash' = WithCondition(inst, reason)
      BY <3>1, StatusUpdateFacts
    <3> QED  BY <2>1, <3>2, StatusFacts
  <2>3. CASE Report
    <3> DEFINE observed == [inst EXCEPT !.observedGeneration = inst.generation,
                                        !.url = dashboardURL(inst.spec)]
               r == IF deploymentReady(inst.spec) THEN "True" ELSE "NotReady"
    <3>1. PICK ok \in BOOLEAN : StatusUpdate(WithCondition(observed, r), ok)
      BY <2>3 DEF Report
    <3>2. r \in Reasons
      BY DEF Reasons
    <3> HIDE DEF r
    <3>3. IsDashboard(WithCondition(observed, r))
      BY <2>1, <3>2, ReportFacts
    <3> HIDE DEF observed
    <3>4. dash' = dash \/ dash' = WithCondition(observed, r)
      BY <3>1, StatusUpdateFacts
    <3> QED  BY <2>1, <3>3, <3>4
  <2> QED  BY <2>2, <2>3
<1>4. PICK again \in BOOLEAN : Observe(again)
  BY <1>2
<1>5. /\ IsDashboard(inst') /\ reason' \in Reasons /\ drift' \in Nat
      /\ DOMAIN live' = Kinds /\ \A k \in Kinds : AtMostOne(live'[k])
      /\ DOMAIN unrecorded' = Annotated
  BY <1>1 DEF TypeInv
<1> QED  BY <1>1, <1>3, <1>4, <1>5, EventKeeps

\* Others write, and nothing of Reconcile's moves.
LEMMA OthersKeep ==
  ASSUME TypeInv, CacheInv, NEW again \in BOOLEAN, Observe(again), Others,
         IsDashboard(dash'), drift' \in Nat, DOMAIN unrecorded' = Annotated,
         NEW k \in Kinds, NEW new, AtMostOne(new),
         live' = live \/ live' = [live EXCEPT ![k] = new]
  PROVE  TypeInv' /\ CacheInv' /\ Heard
<1>1. /\ GatewayAPIEnabled' = GatewayAPIEnabled
      /\ IsDashboard(inst') /\ reason' \in Reasons /\ pc' \in {"idle", "fail"} \cup StepNames
  BY DEF Others, TypeInv
<1>2. DOMAIN live' = Kinds /\ \A x \in Kinds : AtMostOne(live'[x])
  BY LiveFacts
<1> QED  BY <1>1, <1>2, EventKeeps

LEMMA EditKeeps ==
  ASSUME TypeInv, CacheInv, NEW s \in Specs, Edit(s)
  PROVE  TypeInv' /\ CacheInv' /\ Heard
<1>1. /\ UNCHANGED <<live, drift, unrecorded>> /\ Others /\ Observe(FALSE)
      /\ dash' = [dash EXCEPT !.spec = s, !.generation = @ + 1]
  BY DEF Edit
<1>2. dash \in Dashboards /\ dash.observedGeneration <= dash.generation
      /\ dash.condGeneration <= dash.generation
  BY DEF TypeInv, IsDashboard
<1>3. /\ dash.generation \in Nat /\ dash.observedGeneration \in Nat
      /\ dash.condGeneration \in Nat
  BY <1>2 DEF Dashboards
<1>4. dash' = [dash EXCEPT !.spec = s, !.generation = dash.generation + 1]
  BY <1>1, <1>2 DEF Dashboards
<1>5. /\ dash' \in Dashboards /\ dash'.generation = dash.generation + 1
      /\ dash'.observedGeneration = dash.observedGeneration
      /\ dash'.condGeneration = dash.condGeneration
  <2>1. dash' \in Dashboards
    <3>1. dash.generation + 1 \in Nat
      BY <1>3
    <3> QED  BY <1>2, <1>4, <3>1 DEF Dashboards
  <2>2. /\ dash'.generation = dash.generation + 1
        /\ dash'.observedGeneration = dash.observedGeneration
        /\ dash'.condGeneration = dash.condGeneration
    BY <1>2, <1>4 DEF Dashboards
  <2> QED  BY <2>1, <2>2
<1>6. IsDashboard(dash')
  BY <1>2, <1>3, <1>5 DEF IsDashboard
<1>7. /\ "Service" \in Kinds /\ drift' \in Nat /\ DOMAIN unrecorded' = Annotated
      /\ AtMostOne({}) /\ live' = live
  BY <1>1, StepFacts DEF TypeInv, AtMostOne
<1> QED  BY <1>1, <1>6, <1>7, OthersKeep

LEMMA MeddleKeeps ==
  ASSUME TypeInv, CacheInv, NEW k \in Kinds, NEW new, AtMostOne(new), Meddle(k, new),
         DOMAIN unrecorded' = Annotated
  PROVE  TypeInv' /\ CacheInv' /\ Heard
<1>1. /\ drift' = drift + 1 /\ live' = [live EXCEPT ![k] = new]
      /\ dash' = dash /\ Others /\ Observe(FALSE)
  BY DEF Meddle
<1>2. IsDashboard(dash') /\ drift' \in Nat
  BY <1>1 DEF TypeInv
<1> QED  BY <1>1, <1>2, OthersKeep

LEMMA EnvironmentKeeps ==
  ASSUME TypeInv, CacheInv, Environment
  PROVE  TypeInv' /\ CacheInv' /\ Heard
<1>1. ASSUME NEW s \in Specs, Edit(s) PROVE TypeInv' /\ CacheInv' /\ Heard
  BY <1>1, EditKeeps
<1>2. ASSUME NEW k \in Kinds, Annotate(k) \/ Tamper(k) \/ Remove(k)
      PROVE  TypeInv' /\ CacheInv' /\ Heard
  <2>1. DOMAIN unrecorded' = Annotated
    BY <1>2 DEF Annotate, Tamper, Remove, TypeInv
  <2>2. \E new : AtMostOne(new) /\ Meddle(k, new)
    <3>1. ASSUME NEW new PROVE AtMostOne({new}) /\ AtMostOne({})
      BY DEF AtMostOne
    <3> QED  BY <1>2, <3>1 DEF Annotate, Tamper, Remove, Drifted
  <2> QED  BY <2>1, <2>2, MeddleKeeps
<1>3. CASE CrashLoop
  <2>1. \E new : AtMostOne(new) /\ Meddle("Deployment", new)
    BY <1>3 DEF CrashLoop, AtMostOne
  <2>2. DOMAIN unrecorded' = Annotated /\ "Deployment" \in Kinds
    BY <1>3, StepFacts DEF CrashLoop, TypeInv
  <2> QED  BY <2>1, <2>2, MeddleKeeps
<1> QED  BY <1>1, <1>2, <1>3 DEF Environment

LEMMA ProgressKeeps ==
  ASSUME TypeInv, CacheInv, Progress
  PROVE  TypeInv' /\ CacheInv' /\ Heard
<1>1. CASE Rollout
  <2>1. PICK d \in live["Deployment"] :
          live' = [live EXCEPT !["Deployment"] = {[d EXCEPT !.rest = d.body[1]]}]
    BY <1>1 DEF Rollout
  <2>2. /\ UNCHANGED <<dash, edits, drift, unrecorded>> /\ Others /\ Observe(FALSE)
    BY <1>1 DEF Rollout
  <2>3. /\ IsDashboard(dash') /\ drift' \in Nat /\ DOMAIN unrecorded' = Annotated
        /\ "Deployment" \in Kinds
    BY <2>2, StepFacts DEF TypeInv
  <2>4. AtMostOne({[d EXCEPT !.rest = d.body[1]]})
    BY DEF AtMostOne
  <2> QED  BY <2>1, <2>2, <2>3, <2>4, OthersKeep
<1>2. ASSUME NEW k \in Lagging, Sync(k) PROVE TypeInv' /\ CacheInv' /\ Heard
  <2>1. /\ UNCHANGED <<GatewayAPIEnabled, pc, inst, reason, dash, live, drift, unrecorded>>
        /\ k \in news /\ news' = news \ {k}
    BY <1>2 DEF Sync, Others
  <2>2. Watched' = Watched
    BY <2>1 DEF Watched
  <2>3. CASE k = "Dashboard"
    <3>1. seenDash' = dash /\ seen' = seen /\ queued' = TRUE
      BY <1>2, <2>3 DEF Sync
    <3>2. TypeInv'
      BY <2>1, <3>1 DEF TypeInv, IsDashboard, AtMostOne
    <3>3. CacheInv'
      BY <2>1, <2>3, <3>1, StepFacts DEF CacheInv
    <3>4. Heard
      BY <2>1, <3>1 DEF Heard, Woken
    <3> QED  BY <3>2, <3>3, <3>4
  <2>4. CASE k # "Dashboard"
    <3>1. /\ seen' = [seen EXCEPT ![k] = live[k]] /\ seenDash' = seenDash
          /\ queued' = (queued \/ k \in Watched)
      BY <1>2, <2>4 DEF Sync
    <3>2. k \in Kinds
      BY <2>4, OwnedAssumption
    <3>3. DOMAIN seen' = Kinds /\ \A x \in Kinds : AtMostOne(seen'[x])
      BY <3>1, <3>2 DEF TypeInv
    <3>4. TypeInv'
      BY <2>1, <3>1, <3>3 DEF TypeInv, IsDashboard, AtMostOne
    <3>5. CacheInv'
      BY <2>1, <2>4, <3>1, <3>2 DEF CacheInv, TypeInv
    <3>6. Heard
      BY <2>1, <2>2, <2>4, <3>1 DEF Heard, Woken
    <3> QED  BY <3>4, <3>5, <3>6
  <2> QED  BY <2>3, <2>4
<1> QED  BY <1>1, <1>2 DEF Progress

LEMMA StartKeeps ==
  ASSUME TypeInv, CacheInv, Start PROVE TypeInv' /\ CacheInv'
<1>1. /\ queued' = FALSE /\ pc' = Steps[1] /\ inst' = seenDash
      /\ UNCHANGED <<GatewayAPIEnabled, dash, seenDash, live, seen, news, reason, drift,
                     unrecorded>>
  BY DEF Start, budget
<1>2. Steps[1] \in StepNames
  BY StepFacts DEF StepNames
<1>3. TypeInv'
  BY <1>1, <1>2 DEF TypeInv, IsDashboard, AtMostOne
<1> QED  BY <1>1, <1>3 DEF CacheInv

LEMMA BaseKept ==
  TypeInv /\ CacheInv /\ [Next]_vars => TypeInv' /\ CacheInv' /\ (Start \/ Heard)
<1> SUFFICES ASSUME TypeInv, CacheInv, [Next]_vars
             PROVE  TypeInv' /\ CacheInv' /\ (Start \/ Heard)
  OBVIOUS
<1>1. CASE UNCHANGED vars
  <2>1. UNCHANGED <<GatewayAPIEnabled, dash, seenDash, live, seen, news, queued, inst, drift,
                    unrecorded, pc, reason>>
    BY <1>1 DEF vars, budget
  <2>2. pc' \in {"idle", "fail"} \cup StepNames /\ reason' \in Reasons
    BY <2>1 DEF TypeInv
  <2> QED  BY <2>1, <2>2, StillKeeps
<1>2. CASE Reconcile
  BY <1>2, StartKeeps, CallKeeps, QuietStepKeeps, StatusStepKeeps DEF Reconcile
<1>3. CASE Environment
  BY <1>3, EnvironmentKeeps
<1>4. CASE Progress
  BY <1>4, ProgressKeeps
<1> QED  BY <1>1, <1>2, <1>3, <1>4 DEF Next
-----------------------------------------------------------------------------
(***************************************************************************)
(* Annotations.                                                            *)
(***************************************************************************)
LEMMA AnnotatedKinds == Annotated \subseteq Kinds /\ "Deployment" \notin Annotated
  BY StepFacts DEF Annotated

\* Only the Deployment's body is defaulted; keys are stored as written.
LEMMA StoredFacts ==
  ASSUME NEW k, k # "Deployment", NEW o, IsObject(o)
  PROVE  /\ IsObject(Stored(k, o)) /\ Stored(k, o).body = o.body
         /\ Stored(k, o).keys = o.keys /\ Stored(k, o).managed = o.managed
<1>1. Stored(k, o) = [o EXCEPT !.rest = IF k \in Annotated THEN "filled" ELSE @, !.body = @]
  BY DEF Stored
<1>2. o = [body |-> o.body, rest |-> o.rest, keys |-> o.keys, managed |-> o.managed]
  BY DEF IsObject
<1>3. Stored(k, o) = [body |-> o.body, rest |-> IF k \in Annotated THEN "filled" ELSE o.rest,
                      keys |-> o.keys, managed |-> o.managed]
  BY <1>1, <1>2
<1> QED  BY <1>3 DEF IsObject

LEMMA DesiredFacts ==
  ASSUME NEW k, NEW s
  PROVE  /\ IsObject(Desired(k, s)) /\ Desired(k, s).managed = {}
         /\ k \in Annotated => Desired(k, s).keys = s.keys[k]
<1>1. \A b, r, a : /\ IsObject(Obj(b, r, a))
                   /\ Obj(b, r, a).keys = a /\ Obj(b, r, a).managed = {}
  BY DEF Obj, IsObject
<1>2. CASE k = "Service"
  BY <1>1, <1>2 DEF Desired, serviceForDashboard
<1>3. CASE k = "Ingress"
  BY <1>1, <1>3 DEF Desired, ingressForDashboard
<1>4. CASE k = "HTTPRoute"
  BY <1>1, <1>4 DEF Desired, httpRouteForDashboard
<1>5. CASE k \notin Annotated
  <2>1. \E b, r, a : Desired(k, s) = Obj(b, r, a)
    BY <1>5 DEF Desired, deploymentForDashboard, networkPolicyForDashboard, Annotated
  <2> QED  BY <1>1, <1>5, <2>1
<1> QED  BY <1>2, <1>3, <1>4, <1>5 DEF Annotated

LEMMA MergedFacts ==
  ASSUME NEW k, NEW found, NEW desired
  PROVE  LET m == Merged(k, found, desired)
         IN  /\ IsObject(m) /\ m.body = desired.body
             /\ k \in Annotated =>
                  /\ m.managed = desired.keys
                  /\ m.keys = (found.keys \ (found.managed \ desired.keys)) \cup desired.keys
  BY DEF Merged, mergeManagedAnnotations, IsObject

\* An update that goes through changes the object, the Deployment's excepted.
LEMMA UpdateChanges ==
  ASSUME NEW k \in Kinds, k # "Deployment", NEW found, NEW desired,
         Changed(k, found, desired)
  PROVE  Stored(k, Merged(k, found, desired)) # found
<1> DEFINE m == Merged(k, found, desired)
<1>1. IsObject(m) /\ m.body = desired.body
  BY MergedFacts
<1>2. Stored(k, m).body = desired.body /\ Stored(k, m).keys = m.keys
      /\ Stored(k, m).managed = m.managed
  BY <1>1, StoredFacts
<1>3. \/ found.body # desired.body
      \/ m.keys # found.keys \/ m.managed # found.managed
  BY DEF Changed, annotatedChanged
<1> HIDE DEF m
<1>4. Stored(k, m) # found
  BY <1>2, <1>3
<1> QED  BY <1>4 DEF m

ForeignStays ==
    \A k \in Annotated : \A o \in live[k], n \in live'[k] : o.keys \cap Foreign \subseteq n.keys

\* It is enough to look at the kind whose object is written.
LEMMA KeysAtOne ==
  ASSUME TypeInv, KeysInv, GatewayAPIEnabled' = GatewayAPIEnabled,
         NEW k \in Kinds, NEW new, live' = [live EXCEPT ![k] = new],
         \A x \in Annotated \ {k} : unrecorded'[x] = unrecorded[x],
         k = "HTTPRoute" /\ ~GatewayAPIEnabled => new = {},
         k \in Annotated =>
           \A n \in new : /\ IsObject(n) /\ n.managed \cap Foreign = {}
                          /\ n.keys \subseteq n.managed \cup Foreign \cup unrecorded'[k]
                          /\ \A o \in live[k] : o.keys \cap Foreign \subseteq n.keys
  PROVE  KeysInv' /\ ForeignStays
<1>1. live'[k] = new /\ \A x \in Kinds \ {k} : live'[x] = live[x]
  BY DEF TypeInv
<1>2. ASSUME NEW x \in Annotated, NEW n \in live'[x]
      PROVE  /\ IsObject(n) /\ n.managed \cap Foreign = {}
             /\ n.keys \subseteq n.managed \cup Foreign \cup unrecorded'[x]
             /\ \A o \in live[x] : o.keys \cap Foreign \subseteq n.keys
  <2>1. CASE x = k
    BY <1>1, <2>1
  <2>2. CASE x # k
    <3>1. live'[x] = live[x] /\ unrecorded'[x] = unrecorded[x] /\ AtMostOne(live[x])
      BY <1>1, <2>2, AnnotatedKinds DEF TypeInv
    <3>2. \A o \in live[x] : o = n
      BY <3>1 DEF AtMostOne
    <3> QED  BY <3>1, <3>2 DEF KeysInv
  <2> QED  BY <2>1, <2>2
<1>3. ~GatewayAPIEnabled' => live'["HTTPRoute"] = {}
  BY <1>1, StepFacts DEF KeysInv
<1>4. KeysInv'
  BY <1>2, <1>3 DEF KeysInv, IsObject
<1> QED  BY <1>2, <1>4 DEF ForeignStays

LEMMA KeysUntouched ==
  ASSUME TypeInv, KeysInv, GatewayAPIEnabled' = GatewayAPIEnabled, live' = live,
         unrecorded' = unrecorded
  PROVE  KeysInv' /\ ForeignStays
<1>1. \A k \in Annotated : AtMostOne(live[k])
  BY AnnotatedKinds DEF TypeInv
<1>2. ForeignStays
  BY <1>1 DEF ForeignStays, AtMostOne
<1>3. KeysInv'
  BY DEF KeysInv, IsObject
<1> QED  BY <1>2, <1>3

LEMMA SpecKeys ==
  ASSUME TypeInv, NEW k \in Annotated
  PROVE  inst.spec \in Specs /\ inst.spec.keys[k] \cap Foreign = {}
  BY OwnedAssumption DEF TypeInv, IsDashboard, Dashboards, IsSpec

LEMMA CreateKeys ==
  ASSUME TypeInv, KeysInv, NEW k \in Kinds, Create(k) PROVE KeysInv' /\ ForeignStays
<1> DEFINE d == Desired(k, inst.spec)
<1>1. PICK ok \in BOOLEAN : Call(k, {Stored(k, d)}, live[k] = {}, ok)
  BY DEF Create
<1>2. /\ GatewayAPIEnabled' = GatewayAPIEnabled /\ At(k) /\ Enabled(k, inst.spec)
      /\ unrecorded' = IF k \in Annotated /\ live'[k] # live[k]
                       THEN [unrecorded EXCEPT ![k] = inst.spec.keys[k]] ELSE unrecorded
  BY DEF Create, Frame
<1> HIDE DEF d
<1>3. CASE live' = live
  BY <1>2, <1>3, KeysUntouched
<1>4. CASE live[k] = {} /\ live' = [live EXCEPT ![k] = {Stored(k, d)}]
  <2>1. live'[k] = {Stored(k, d)} /\ live'[k] # live[k]
    BY <1>4 DEF TypeInv
  <2>2. \A x \in Annotated \ {k} : unrecorded'[x] = unrecorded[x]
    BY <1>2 DEF TypeInv
  <2>3. ~(k = "HTTPRoute" /\ ~GatewayAPIEnabled)
    BY <1>2 DEF At, Enabled, Missing
  <2>4. ASSUME k \in Annotated
        PROVE  /\ IsObject(Stored(k, d)) /\ Stored(k, d).managed \cap Foreign = {}
               /\ Stored(k, d).keys \subseteq unrecorded'[k]
    <3>1. k # "Deployment"
      BY <2>4, AnnotatedKinds
    <3>2. IsObject(d) /\ d.managed = {} /\ d.keys = inst.spec.keys[k]
      BY <2>4, DesiredFacts DEF d
    <3>3. unrecorded'[k] = inst.spec.keys[k]
      BY <1>2, <2>1, <2>4 DEF TypeInv
    <3> QED  BY <3>1, <3>2, <3>3, StoredFacts
  <2> QED  BY <1>2, <1>4, <2>2, <2>3, <2>4, KeysAtOne
<1> QED  BY <1>1, <1>3, <1>4 DEF Call

\* mergeManagedAnnotations removes only keys of the record, which names none of
\* the others'.
LEMMA UpdateKeys ==
  ASSUME TypeInv, KeysInv, NEW k \in Kinds, Update(k) PROVE KeysInv' /\ ForeignStays
<1> DEFINE d == Desired(k, inst.spec)
<1>1. PICK found \in seen[k], ok \in BOOLEAN :
        /\ Changed(k, found, d)
        /\ Call(k, {Stored(k, Merged(k, found, d))}, live[k] = {found}, ok)
  BY DEF Update
<1> DEFINE m == Merged(k, found, d)
           n == Stored(k, m)
<1>2. /\ GatewayAPIEnabled' = GatewayAPIEnabled /\ At(k) /\ Enabled(k, inst.spec)
      /\ unrecorded' = IF k \in Annotated /\ live'[k] # live[k]
                       THEN [unrecorded EXCEPT ![k] = @ \ inst.spec.keys[k]] ELSE unrecorded
  BY DEF Update, Frame
<1>3. \/ live' = live
      \/ live[k] = {found} /\ live' = [live EXCEPT ![k] = {n}]
  BY <1>1 DEF Call
<1>4. k # "Deployment" => n # found
  BY <1>1, UpdateChanges
<1>5. ASSUME k \in Annotated
      PROVE  /\ IsObject(n) /\ n.managed = inst.spec.keys[k]
             /\ n.keys = (found.keys \ (found.managed \ inst.spec.keys[k]))
                           \cup inst.spec.keys[k]
  <2>1. k # "Deployment"
    BY <1>5, AnnotatedKinds
  <2>2. d.keys = inst.spec.keys[k]
    BY <1>5, DesiredFacts
  <2>3. /\ IsObject(m) /\ m.managed = d.keys
        /\ m.keys = (found.keys \ (found.managed \ d.keys)) \cup d.keys
    BY <1>5, MergedFacts
  <2> HIDE DEF m, d
  <2>4. IsObject(n) /\ n.managed = m.managed /\ n.keys = m.keys
    BY <2>1, <2>3, StoredFacts
  <2> HIDE DEF n
  <2> QED  BY <2>2, <2>3, <2>4
<1> HIDE DEF n, m, d
<1>6. CASE live' = live
  BY <1>2, <1>6, KeysUntouched
<1>7. CASE live[k] = {found} /\ live' = [live EXCEPT ![k] = {n}]
  <2>1. live'[k] = {n}
    BY <1>7 DEF TypeInv
  <2>2. \A x \in Annotated \ {k} : unrecorded'[x] = unrecorded[x]
    BY <1>2 DEF TypeInv
  <2>3. ~(k = "HTTPRoute" /\ ~GatewayAPIEnabled)
    BY <1>2 DEF At, Enabled, Missing
  <2>4. ASSUME k \in Annotated
        PROVE  /\ IsObject(n) /\ n.managed \cap Foreign = {}
               /\ n.keys \subseteq n.managed \cup Foreign \cup unrecorded'[k]
               /\ found.keys \cap Foreign \subseteq n.keys
    <3>1. inst.spec.keys[k] \cap Foreign = {}
      BY <2>4, SpecKeys
    <3>2. /\ found.managed \cap Foreign = {}
          /\ found.keys \subseteq found.managed \cup Foreign \cup unrecorded[k]
      BY <1>7, <2>4 DEF KeysInv
    <3>3. live'[k] # live[k]
      BY <1>4, <1>7, <2>1, <2>4, AnnotatedKinds
    <3>4. unrecorded'[k] = unrecorded[k] \ inst.spec.keys[k]
      BY <1>2, <2>4, <3>3 DEF TypeInv
    <3> QED  BY <1>5, <2>4, <3>1, <3>2, <3>4
  <2> QED  BY <1>2, <1>7, <2>2, <2>3, <2>4, KeysAtOne
<1> QED  BY <1>3, <1>6, <1>7

LEMMA DeleteKeys ==
  ASSUME TypeInv, KeysInv, NEW k \in Kinds, Delete(k) PROVE KeysInv' /\ ForeignStays
<1>1. GatewayAPIEnabled' = GatewayAPIEnabled /\ unrecorded' = unrecorded
  BY DEF Delete, Frame
<1>2. live' = live \/ live' = [live EXCEPT ![k] = {}]
  BY DEF Delete, Call
<1> QED  BY <1>1, <1>2, KeysUntouched, KeysAtOne

LEMMA EnvironmentKeys ==
  ASSUME TypeInv, KeysInv, Environment PROVE KeysInv' /\ ForeignStays
<1>1. GatewayAPIEnabled' = GatewayAPIEnabled
  BY DEF Environment, Edit, Annotate, Tamper, Remove, CrashLoop, Meddle, Others
<1>2. ASSUME NEW s \in Specs, Edit(s) PROVE KeysInv' /\ ForeignStays
  BY <1>1, <1>2, KeysUntouched DEF Edit
<1>3. ASSUME NEW k \in Kinds, Annotate(k) PROVE KeysInv' /\ ForeignStays
  <2>1. PICK o \in live[k] : Meddle(k, {[o EXCEPT !.keys = @ \cup Foreign]})
    BY <1>3 DEF Annotate
  <2> DEFINE n == [o EXCEPT !.keys = @ \cup Foreign]
  <2>2. /\ live' = [live EXCEPT ![k] = {n}] /\ unrecorded' = unrecorded /\ k \in Annotated
        /\ live[k] # {}
    BY <1>3, <2>1 DEF Annotate, Meddle
  <2>3. live[k] = {o}
    BY DEF TypeInv, AtMostOne
  <2>4. /\ IsObject(o) /\ o.managed \cap Foreign = {}
        /\ o.keys \subseteq o.managed \cup Foreign \cup unrecorded[k]
    BY <2>2 DEF KeysInv
  <2>5. n = [body |-> o.body, rest |-> o.rest, keys |-> o.keys \cup Foreign,
             managed |-> o.managed]
    BY <2>4 DEF IsObject
  <2>6. IsObject(n) /\ n.keys = o.keys \cup Foreign /\ n.managed = o.managed
    BY <2>5 DEF IsObject
  <2>7. ~(k = "HTTPRoute" /\ ~GatewayAPIEnabled)
    BY <2>2 DEF KeysInv
  <2> HIDE DEF n
  <2> QED  BY <1>1, <2>2, <2>3, <2>4, <2>6, <2>7, KeysAtOne
<1>4. ASSUME NEW k \in Kinds, Tamper(k) PROVE KeysInv' /\ ForeignStays
  <2>1. PICK o \in live[k] : Meddle(k, Drifted(k, o))
    BY <1>4 DEF Tamper
  <2>2. /\ live' = [live EXCEPT ![k] = Drifted(k, o)] /\ unrecorded' = unrecorded
    BY <1>4, <2>1 DEF Tamper, Meddle
  <2>3. live[k] = {o}
    BY DEF TypeInv, AtMostOne
  <2>4. ASSUME k \in Annotated, NEW n \in Drifted(k, o)
        PROVE  IsObject(n) /\ n.keys = o.keys /\ n.managed = o.managed
    <3>1. IsObject(o)
      BY <2>4 DEF KeysInv
    <3>2. n = [o EXCEPT !.body = <<"drifted">>]
      BY <2>4 DEF Drifted, Annotated
    <3>3. n = [body |-> <<"drifted">>, rest |-> o.rest, keys |-> o.keys,
               managed |-> o.managed]
      BY <3>1, <3>2 DEF IsObject
    <3> QED  BY <3>3 DEF IsObject
  <2>5. ~(k = "HTTPRoute" /\ ~GatewayAPIEnabled)
    BY DEF KeysInv
  <2>6. k \in Annotated => /\ o.managed \cap Foreign = {}
                           /\ o.keys \subseteq o.managed \cup Foreign \cup unrecorded[k]
    BY DEF KeysInv
  <2> QED  BY <1>1, <2>2, <2>3, <2>4, <2>5, <2>6, KeysAtOne
<1>5. ASSUME NEW k \in Kinds, Remove(k) PROVE KeysInv' /\ ForeignStays
  <2>1. live' = [live EXCEPT ![k] = {}]
    BY <1>5 DEF Remove, Meddle
  <2>2. \A x \in Annotated \ {k} : unrecorded'[x] = unrecorded[x]
    BY <1>5 DEF Remove, TypeInv
  <2> QED  BY <1>1, <2>1, <2>2, KeysAtOne
<1>6. CASE CrashLoop
  <2>1. PICK d \in live["Deployment"] :
          live' = [live EXCEPT !["Deployment"] = {[d EXCEPT !.rest = 0]}]
    BY <1>6 DEF CrashLoop, Meddle
  <2>2. unrecorded' = unrecorded /\ "Deployment" \in Kinds
    BY <1>6, StepFacts DEF CrashLoop
  <2> QED  BY <1>1, <2>1, <2>2, AnnotatedKinds, KeysAtOne
<1> QED  BY <1>2, <1>3, <1>4, <1>5, <1>6 DEF Environment

LEMMA ProgressKeys ==
  ASSUME TypeInv, KeysInv, Progress PROVE KeysInv' /\ ForeignStays
<1>1. GatewayAPIEnabled' = GatewayAPIEnabled /\ unrecorded' = unrecorded
  BY DEF Progress, Rollout, Sync, Others
<1>2. CASE Rollout
  <2>1. PICK d \in live["Deployment"] :
          live' = [live EXCEPT !["Deployment"] = {[d EXCEPT !.rest = d.body[1]]}]
    BY <1>2 DEF Rollout
  <2>2. "Deployment" \in Kinds
    BY StepFacts
  <2> QED  BY <1>1, <2>1, <2>2, AnnotatedKinds, KeysAtOne
<1>3. CASE \E k \in Lagging : Sync(k)
  BY <1>1, <1>3, KeysUntouched DEF Sync
<1> QED  BY <1>2, <1>3 DEF Progress

LEMMA KeysKept == TypeInv /\ KeysInv /\ [Next]_vars => KeysInv' /\ ForeignStays
<1> SUFFICES ASSUME TypeInv, KeysInv, [Next]_vars PROVE KeysInv' /\ ForeignStays
  OBVIOUS
<1>1. CASE UNCHANGED vars
  BY <1>1, KeysUntouched DEF vars
<1>2. CASE Start \/ Unavailable \/ CheckDiscovery \/ failAvailable \/ Report \/ ReportGone
           \/ \E k \in Kinds : Pass(k)
  <2>1. UNCHANGED <<GatewayAPIEnabled, live, unrecorded>>
    BY <1>2 DEF Start, Unavailable, CheckDiscovery, failAvailable, Report, ReportGone, Pass,
                Frame
  <2> QED  BY <2>1, KeysUntouched
<1>3. ASSUME NEW k \in Kinds, Create(k) \/ Update(k) \/ Delete(k)
      PROVE  KeysInv' /\ ForeignStays
  BY <1>3, CreateKeys, UpdateKeys, DeleteKeys
<1>4. CASE Environment
  BY <1>4, EnvironmentKeys
<1>5. CASE Progress
  BY <1>5, ProgressKeys
<1> QED  BY <1>1, <1>2, <1>3, <1>4, <1>5 DEF Next, Reconcile
-----------------------------------------------------------------------------
(***************************************************************************)
(* Reconcile goes quiet only when it is done.                              *)
(***************************************************************************)
LEMMA WatchedKinds ==
  ASSUME NEW k \in Kinds
  PROVE  \/ k \in Watched \/ k = "NetworkPolicy"
         \/ k = "HTTPRoute" /\ ~GatewayAPIEnabled
  BY DEF Watched

\* An HTTPRoute that the cluster has no API for is current unless asked for.
LEMMA NoGatewayCurrent ==
  ASSUME ~GatewayAPIEnabled, NEW s, ~Missing("HTTPRoute", s)
  PROVE  Fits("HTTPRoute", s)
  BY DEF Missing, Fits, Enabled, Deletes

\* What is current stays so until something wakes the controller.
LEMMA CurrentKept ==
  ASSUME Heard, ~Woken', NEW k \in Kinds, NEW s, Current(k, s),
         k = "NetworkPolicy" => drift' # 0 \/ (drift' = drift /\ live'[k] = live[k])
  PROVE  Current(k, s)'
<1>1. GatewayAPIEnabled' = GatewayAPIEnabled
  BY DEF Heard
<1>2. ~Missing(k, s)'
  BY <1>1 DEF Current, Missing, discoveryHTTPRouteAvailable
<1>3. ASSUME live'[k] = live[k] PROVE Fits(k, s)' <=> Fits(k, s)
  BY <1>1, <1>3 DEF Fits, Deletes, Desired
<1>4. CASE k \in Watched
  <2>1. live'[k] = live[k]
    BY <1>4 DEF Heard
  <2>2. k # "NetworkPolicy"
    BY <1>4 DEF Watched
  <2> QED  BY <1>2, <1>3, <2>1, <2>2 DEF Current, Excused
<1>5. CASE k = "NetworkPolicy"
  <2>1. CASE drift' # 0
    BY <1>2, <1>5, <2>1 DEF Current, Excused
  <2>2. CASE drift' = drift /\ live'[k] = live[k]
    BY <1>2, <1>3, <2>2 DEF Current, Excused
  <2> QED  BY <1>5, <2>1, <2>2
<1>6. CASE k = "HTTPRoute" /\ ~GatewayAPIEnabled
  <2>1. Fits(k, s)'
    BY <1>1, <1>2, <1>6 DEF Missing, Fits, Enabled, Deletes
  <2> QED  BY <1>2, <2>1 DEF Current
<1> QED  BY <1>4, <1>5, <1>6, WatchedKinds

\* The same for all that WorkInv says of a pass that stays where it is.
LEMMA WorkStays ==
  ASSUME TypeInv, WorkInv, Heard, UNCHANGED <<pc, inst>>,
         \/ drift' # 0
         \/ drift' = drift /\ live'["NetworkPolicy"] = live["NetworkPolicy"]
  PROVE  WorkInv'
<1> SUFFICES ASSUME ~Woken' PROVE WorkInv'
  BY DEF WorkInv
<1>1. ~Woken /\ dash' = dash
  BY DEF Heard
<1>2. \A k \in Kinds : \A s : Current(k, s) => Current(k, s)'
  BY CurrentKept
<1>3. ASSUME NEW i \in 1..Len(Steps), pc' = Steps[i] PROVE (inst = dash)' /\ Behind(i)'
  <2>1. inst = dash /\ Behind(i)
    BY <1>1, <1>3 DEF WorkInv
  <2> QED  BY <1>1, <1>2, <2>1 DEF Behind
<1>4. ASSUME pc' = "idle" PROVE Finished'
  <2>1. Finished
    BY <1>1, <1>4 DEF WorkInv
  <2>2. live'["Deployment"] = live["Deployment"]
    BY StepFacts DEF Heard, Watched
  <2>3. \A k \in Kinds : Current(k, dash.spec)'
    BY <1>1, <1>2, <2>1 DEF Finished
  <2> QED  BY <1>1, <2>1, <2>2, <2>3 DEF Finished
<1> QED  BY <1>3, <1>4 DEF WorkInv

\* A pass goes on to its next step.
LEMMA WorkAdvances ==
  ASSUME TypeInv, WorkInv, Heard, NEW i \in 1..10, pc = Steps[i], pc # "Status",
         pc' = Then[pc], inst' = inst, drift' = drift,
         pc = "NetworkPolicy" \/ live'["NetworkPolicy"] = live["NetworkPolicy"],
         ~Woken' /\ Steps[i] \in Kinds => Current(Steps[i], inst.spec)'
  PROVE  WorkInv'
<1> SUFFICES ASSUME ~Woken' PROVE WorkInv'
  BY DEF WorkInv
<1>1. ~Woken /\ dash' = dash
  BY DEF Heard
<1>2. inst = dash /\ Behind(i)
  BY <1>1, StepFacts DEF WorkInv
<1>3. i + 1 \in 1..10 /\ pc' = Steps[i + 1] /\ pc' \in StepNames
  BY NextStep
<1>4. ASSUME NEW j \in 1..i, Steps[j] \in Kinds PROVE Current(Steps[j], inst.spec)'
  <2>1. CASE j = i
    BY <1>4, <2>1
  <2>2. CASE j # i
    <3>1. j \in 1..(i - 1) /\ j \in 1..10 /\ Steps[j] # pc
      BY <2>2, StepsDistinct
    <3>2. Current(Steps[j], inst.spec)
      BY <1>2, <1>4, <3>1 DEF Behind
    <3>3. \A s : Current(Steps[j], s) => Current(Steps[j], s)'
      BY <1>4, <3>1, CurrentKept
    <3> QED  BY <3>2, <3>3
  <2> QED  BY <2>1, <2>2
<1>5. Behind(i + 1)'
  <2>1. (i + 1) - 1 = i
    OBVIOUS
  <2> QED  BY <1>4, <2>1 DEF Behind
<1>6. ASSUME NEW n \in 1..Len(Steps), pc' = Steps[n] PROVE (inst = dash)' /\ Behind(n)'
  <2>1. n = i + 1
    BY <1>3, <1>6, StepFacts, StepsDistinct
  <2> QED  BY <1>1, <1>2, <1>5, <2>1
<1>7. pc' # "idle"
  BY <1>3, StepFacts
<1> QED  BY <1>6, <1>7 DEF WorkInv

LEMMA StartWork ==
  ASSUME TypeInv, CacheInv, Start PROVE WorkInv'
<1>1. /\ queued' = FALSE /\ pc' = Steps[1] /\ inst' = seenDash
      /\ UNCHANGED <<GatewayAPIEnabled, dash, news>>
  BY DEF Start
<1> SUFFICES ASSUME ~Woken' PROVE WorkInv'
  BY DEF WorkInv
<1>2. "Dashboard" \notin news
  BY <1>1 DEF Woken
<1>3. inst' = dash'
  BY <1>1, <1>2 DEF CacheInv
<1>4. Steps[1] \in StepNames
  BY StepFacts DEF StepNames
<1>5. pc' # "idle"
  BY <1>1, <1>4, StepFacts
<1>6. ASSUME NEW i \in 1..Len(Steps), pc' = Steps[i] PROVE Behind(i)'
  <2>1. i \in 1..10 /\ 1 \in 1..10 /\ Steps[1] = Steps[i]
    BY <1>1, <1>6, StepFacts
  <2>2. i = 1
    BY <2>1, StepsDistinct
  <2>3. 1..(i - 1) = {}
    BY <2>2
  <2> QED  BY <2>3 DEF Behind
<1> QED  BY <1>3, <1>5, <1>6 DEF WorkInv

\* A step that found nothing to do found it in a current cache, or is woken.
LEMMA PassWork ==
  ASSUME TypeInv, CacheInv, WorkInv, Heard, NEW k \in Kinds, Pass(k) PROVE WorkInv'
<1>1. /\ pc = k /\ ~Missing(k, inst.spec) /\ UpToDate(k) /\ pc' = Then[k]
      /\ UNCHANGED <<GatewayAPIEnabled, dash, live, inst, drift>>
  BY DEF Pass, At, budget
<1>2. PICK i \in 1..10 : k = Steps[i]
  BY StepNamed, StepFacts
<1>3. k # "Status"
  BY StepFacts
<1>4. ASSUME ~Woken PROVE Current(k, inst.spec)
  <2>1. CASE k = "HTTPRoute" /\ ~GatewayAPIEnabled
    BY <1>1, <2>1, NoGatewayCurrent DEF Current
  <2>2. CASE k = "NetworkPolicy" /\ k \in Lagging
    BY <1>1, <2>2 DEF Current, Excused
  <2>3. CASE k \in Watched \/ (k = "NetworkPolicy" /\ k \notin Lagging)
    <3>1. k \notin news
      BY <1>4, <2>3 DEF Woken, TypeInv
    <3>2. seen[k] = live[k]
      BY <3>1 DEF CacheInv
    <3>3. Fits(k, inst.spec)
      BY <1>1, <3>2 DEF UpToDate, Fits
    <3> QED  BY <1>1, <3>3 DEF Current
  <2> QED  BY <2>1, <2>2, <2>3, WatchedKinds
<1>5. ASSUME ~Woken' PROVE Current(k, inst.spec)'
  <2>1. Current(k, inst.spec)
    BY <1>4, <1>5 DEF Heard
  <2>2. \A s : Current(k, s) => Current(k, s)'
    BY <1>1, <1>5, CurrentKept
  <2> QED  BY <1>1, <2>1, <2>2
<1> QED  BY <1>1, <1>2, <1>3, <1>5, WorkAdvances

\* A call that leads to the next step changed what the controller watches, or
\* left a NetworkPolicy as the spec asks for, or had nothing left to delete.
LEMMA CallWork ==
  ASSUME TypeInv, CacheInv, WorkInv, Heard, NEW k \in Kinds, NEW ok \in BOOLEAN, NEW new,
         At(k), After(k, ok), UNCHANGED <<dash, drift>>,
         live' = live \/ live' = [live EXCEPT ![k] = new],
         ok /\ k # "Deployment" /\ ~Woken' => Current(k, inst.spec)'
  PROVE  WorkInv'
<1>1. \/ pc' = "fail"
      \/ pc' = "idle" /\ Observe(TRUE)
      \/ ok /\ k # "Deployment" /\ pc' = Then[k] /\ inst' = inst
  BY AfterFacts
<1>2. CASE pc' = "fail"
  <2>1. \A i \in 1..Len(Steps) : pc' # Steps[i]
    BY <1>2, StepFacts DEF StepNames
  <2> QED  BY <1>2, <2>1 DEF WorkInv
<1>3. CASE Observe(TRUE)
  BY <1>3 DEF Observe, WorkInv, Woken
<1>4. CASE ok /\ k # "Deployment" /\ pc' = Then[k] /\ inst' = inst
  <2>1. PICK i \in 1..10 : k = Steps[i]
    BY StepNamed, StepFacts
  <2>2. k # "Status" /\ pc = k
    BY StepFacts DEF At
  <2>3. k = "NetworkPolicy" \/ live'["NetworkPolicy"] = live["NetworkPolicy"]
    BY StepFacts DEF TypeInv
  <2> QED  BY <1>4, <2>1, <2>2, <2>3, WorkAdvances
<1> QED  BY <1>1, <1>2, <1>3, <1>4

\* A NetworkPolicy just written is as the spec asks for.
LEMMA PolicyWritten ==
  ASSUME Heard, NEW k, k = "NetworkPolicy", At(k), Enabled(k, inst.spec), inst' = inst,
         NEW n \in live'[k], n.body = Desired(k, inst.spec).body
  PROVE  Current(k, inst.spec)'
<1>1. /\ GatewayAPIEnabled' = GatewayAPIEnabled /\ ~Missing(k, inst.spec)
      /\ inst'.spec = inst.spec
  BY DEF Heard, At
<1>2. ~Missing(k, inst.spec)'
  BY <1>1 DEF Missing, discoveryHTTPRouteAvailable
<1>3. Enabled(k, inst.spec)'
  BY <1>1 DEF Enabled
<1>4. Desired(k, inst.spec)' = Desired(k, inst.spec)
  BY <1>1 DEF Desired
<1>5. ~Changed(k, n, Desired(k, inst.spec)')
  BY <1>4 DEF Changed, Annotated
<1>6. Fits(k, inst.spec)'
  BY <1>3, <1>5 DEF Fits
<1> QED  BY <1>2, <1>6 DEF Current

LEMMA CreateWork ==
  ASSUME TypeInv, CacheInv, WorkInv, Heard, NEW k \in Kinds, Create(k) PROVE WorkInv'
<1> DEFINE n == Stored(k, Desired(k, inst.spec))
<1>1. PICK ok \in BOOLEAN : Call(k, {n}, live[k] = {}, ok) /\ After(k, ok)
  BY DEF Create
<1>2. /\ At(k) /\ Enabled(k, inst.spec) /\ UNCHANGED <<dash, drift>>
  BY DEF Create, Frame
<1>3. \/ live' = live /\ ~ok
      \/ live[k] = {} /\ live' = [live EXCEPT ![k] = {n}]
  BY <1>1 DEF Call
<1>4. ASSUME ok, k # "Deployment", ~Woken' PROVE Current(k, inst.spec)'
  <2>1. live[k] = {} /\ live'[k] = {n} /\ inst' = inst
    BY <1>1, <1>3, <1>4 DEF TypeInv, After, Succeeded
  <2>2. k \notin Watched
    BY <1>4, <2>1 DEF Heard
  <2>3. ~(k = "HTTPRoute" /\ ~GatewayAPIEnabled)
    BY <1>2 DEF At, Enabled, Missing
  <2>4. k = "NetworkPolicy"
    BY <2>2, <2>3, WatchedKinds
  <2>5. n.body = Desired(k, inst.spec).body
    BY <1>4, StoredFacts, DesiredFacts
  <2> HIDE DEF n
  <2> QED  BY <1>2, <2>1, <2>4, <2>5, PolicyWritten
<1> HIDE DEF n
<1> QED  BY <1>1, <1>2, <1>3, <1>4, CallWork

LEMMA UpdateWork ==
  ASSUME TypeInv, CacheInv, WorkInv, Heard, NEW k \in Kinds, Update(k) PROVE WorkInv'
<1> DEFINE d == Desired(k, inst.spec)
<1>1. PICK found \in seen[k], ok \in BOOLEAN :
        /\ Changed(k, found, d)
        /\ Call(k, {Stored(k, Merged(k, found, d))}, live[k] = {found}, ok) /\ After(k, ok)
  BY DEF Update
<1> DEFINE m == Merged(k, found, d)
           n == Stored(k, m)
<1>2. /\ At(k) /\ Enabled(k, inst.spec) /\ UNCHANGED <<dash, drift>>
  BY DEF Update, Frame
<1>3. \/ live' = live /\ ~ok
      \/ live[k] = {found} /\ live' = [live EXCEPT ![k] = {n}]
  BY <1>1 DEF Call
<1>4. ASSUME ok, k # "Deployment", ~Woken' PROVE Current(k, inst.spec)'
  <2>1. n # found
    BY <1>1, <1>4, UpdateChanges
  <2>2. n.body = d.body
    <3>1. IsObject(m) /\ m.body = d.body
      BY MergedFacts
    <3> HIDE DEF m, d
    <3> QED  BY <1>4, <3>1, StoredFacts
  <2> HIDE DEF n, m
  <2>3. live[k] = {found} /\ live'[k] = {n} /\ inst' = inst
    BY <1>1, <1>3, <1>4 DEF TypeInv, After, Succeeded
  <2>4. k \notin Watched
    BY <1>4, <2>1, <2>3 DEF Heard
  <2>5. ~(k = "HTTPRoute" /\ ~GatewayAPIEnabled)
    BY <1>2 DEF At, Enabled, Missing
  <2>6. k = "NetworkPolicy"
    BY <2>4, <2>5, WatchedKinds
  <2> QED  BY <1>2, <2>2, <2>3, <2>6, PolicyWritten
<1> HIDE DEF n, m, d
<1> QED  BY <1>1, <1>2, <1>3, <1>4, CallWork

LEMMA DeleteWork ==
  ASSUME TypeInv, CacheInv, WorkInv, Heard, NEW k \in Kinds, Delete(k) PROVE WorkInv'
<1>1. PICK ok \in BOOLEAN : Call(k, {}, TRUE, ok) /\ After(k, ok)
  BY DEF Delete
<1>2. /\ At(k) /\ ~Enabled(k, inst.spec) /\ UNCHANGED <<dash, drift>> /\ Deletes(k)
  BY DEF Delete, Frame
<1>3. (live' = live /\ ~ok) \/ live' = [live EXCEPT ![k] = {}]
  BY <1>1 DEF Call
<1>4. ASSUME ok, k # "Deployment", ~Woken' PROVE Current(k, inst.spec)'
  <2>1. live'[k] = {} /\ inst' = inst
    BY <1>1, <1>3, <1>4 DEF TypeInv, After, Succeeded
  <2>2. ~Missing(k, inst.spec)'
    BY <1>2, <2>1 DEF Heard, At, Missing, discoveryHTTPRouteAvailable
  <2>3. ~Enabled(k, inst.spec)'
    BY <1>2, <2>1 DEF Enabled
  <2>4. Fits(k, inst.spec)'
    BY <2>1, <2>3 DEF Fits
  <2> QED  BY <2>2, <2>4 DEF Current
<1> QED  BY <1>1, <1>2, <1>3, <1>4, CallWork

\* The end of a pass: the status was what it is to be, or changes and wakes.
LEMMA ReportWork ==
  ASSUME TypeInv, CacheInv, WorkInv, Heard, Report PROVE WorkInv'
<1> DEFINE observed == [inst EXCEPT !.observedGeneration = inst.generation,
                                    !.url = dashboardURL(inst.spec)]
           ready == deploymentReady(inst.spec)
           new == WithCondition(observed, "True")
<1>1. PICK ok \in BOOLEAN :
        /\ StatusUpdate(WithCondition(observed, IF ready THEN "True" ELSE "NotReady"), ok)
        /\ Observe(~ok \/ ~ready)
  BY DEF Report
<1>2. /\ pc = "Status" /\ pc' = "idle" /\ UNCHANGED <<live, inst, drift>>
  BY DEF Report, Frame
<1>3. /\ IsDashboard(inst) /\ "True" \in Reasons
  BY DEF TypeInv, Reasons
<1>4. /\ new.spec = inst.spec /\ new.available = "True"
      /\ new.url = dashboardURL(inst.spec)
      /\ new.condGeneration = new.generation /\ new.observedGeneration = new.generation
  BY <1>3, ReportFacts
<1> SUFFICES ASSUME ~Woken' PROVE WorkInv'
  BY DEF WorkInv
<1>5. ok /\ ready
  BY <1>1 DEF Observe, Woken
<1>6. ~Woken /\ dash' = dash
  BY DEF Heard
<1>7. inst = dash /\ dash = new
  BY <1>1, <1>5, <1>6, StatusUpdateFacts
<1>8. \A k \in Kinds : Current(k, dash.spec)
  <2>1. Steps[10] = "Status" /\ 10 \in 1..Len(Steps)
    BY StepFacts DEF Steps
  <2>2. Behind(10)
    BY <1>2, <1>6, <2>1 DEF WorkInv
  <2>3. ASSUME NEW k \in Kinds PROVE \E j \in 1..9 : k = Steps[j]
    <3>1. PICK j \in 1..10 : k = Steps[j]
      BY StepNamed, StepFacts
    <3>2. j # 10
      BY <2>1, <3>1, StepFacts
    <3> QED  BY <3>1, <3>2
  <2>4. 1..(10 - 1) = 1..9
    OBVIOUS
  <2> QED  BY <1>7, <2>2, <2>3, <2>4 DEF Behind
<1>9. \A d \in live["Deployment"] : d.rest >= Replicas(dash.spec)
  <2>1. "Deployment" \in Watched /\ "Deployment" \in Kinds
    BY StepFacts DEF Watched
  <2>2. seen["Deployment"] = live["Deployment"] /\ AtMostOne(live["Deployment"])
    BY <1>6, <2>1 DEF Woken, CacheInv, TypeInv
  <2> QED  BY <1>5, <1>7, <2>2 DEF deploymentReady, AtMostOne
<1> HIDE DEF new, observed
<1>10. ASSUME NEW k \in Kinds PROVE Current(k, dash.spec)'
  <2>1. \A s : Current(k, s) => Current(k, s)'
    BY <1>2, CurrentKept
  <2> QED  BY <1>6, <1>8, <2>1
<1>11. Finished'
  BY <1>2, <1>4, <1>6, <1>7, <1>9, <1>10 DEF Finished
<1>12. \A i \in 1..Len(Steps) : pc' # Steps[i]
  BY <1>2, StepFacts DEF StepNames
<1> QED  BY <1>11, <1>12 DEF WorkInv

LEMMA OtherWork ==
  ASSUME TypeInv, WorkInv, Heard, Environment \/ Progress PROVE WorkInv'
<1>1. UNCHANGED <<pc, inst>>
  BY DEF Environment, Progress, Edit, Annotate, Tamper, Remove, CrashLoop, Meddle, Rollout,
         Sync, Others
<1>2. drift' # 0 \/ (drift' = drift /\ live'["NetworkPolicy"] = live["NetworkPolicy"])
  <2>1. CASE Environment
    <3>1. drift' = drift + 1 \/ (drift' = drift /\ live' = live)
      BY <2>1 DEF Environment, Edit, Annotate, Tamper, Remove, CrashLoop, Meddle
    <3> QED  BY <3>1 DEF TypeInv
  <2>2. CASE Progress
    <3>1. drift' = drift
      BY <2>2 DEF Progress, Rollout, Sync
    <3>2. live' = live \/ \E new : live' = [live EXCEPT !["Deployment"] = new]
      BY <2>2 DEF Progress, Rollout, Sync
    <3> QED  BY <3>1, <3>2, StepFacts DEF TypeInv
  <2> QED  BY <2>1, <2>2
<1> QED  BY <1>1, <1>2, WorkStays

LEMMA WorkKept == OwnedInv /\ [Next]_vars => WorkInv'
<1> SUFFICES ASSUME OwnedInv, [Next]_vars PROVE WorkInv'
  OBVIOUS
<1> USE DEF OwnedInv
<1>1. Start \/ Heard
  BY BaseKept
<1>2. CASE Start
  BY <1>2, StartWork
<1>3. CASE Heard /\ UNCHANGED vars
  <2>1. UNCHANGED <<pc, inst, drift, live>>
    BY <1>3 DEF vars, budget
  <2> QED  BY <1>3, <2>1, WorkStays
<1>4. CASE Heard /\ (Environment \/ Progress)
  BY <1>4, OtherWork
<1>5. ASSUME Heard, NEW k \in Kinds, Create(k) \/ Update(k) \/ Delete(k) \/ Pass(k)
      PROVE  WorkInv'
  BY <1>5, CreateWork, UpdateWork, DeleteWork, PassWork
<1>6. CASE Unavailable \/ ReportGone
  <2>1. pc' = "fail"
    BY <1>6 DEF Unavailable, ReportGone
  <2>2. \A i \in 1..Len(Steps) : pc' # Steps[i]
    BY <2>1, StepFacts DEF StepNames
  <2> QED  BY <2>1, <2>2 DEF WorkInv
<1>7. CASE Heard /\ CheckDiscovery
  <2>1. /\ pc = "Discovery" /\ pc' = Then[pc] /\ UNCHANGED <<inst, drift, live>>
    BY <1>7 DEF CheckDiscovery, budget
  <2>2. PICK i \in 1..10 : pc = Steps[i]
    BY <2>1, StepNamed, StepFacts
  <2>3. "Discovery" \notin Kinds
    BY StepFacts
  <2> QED  BY <1>7, <2>1, <2>2, <2>3, WorkAdvances
<1>8. CASE failAvailable
  BY <1>8 DEF failAvailable, Observe, WorkInv, Woken
<1>9. CASE Heard /\ Report
  BY <1>9, ReportWork
<1> QED  BY <1>1, <1>2, <1>3, <1>4, <1>5, <1>6, <1>7, <1>8, <1>9 DEF Next, Reconcile
-----------------------------------------------------------------------------
(***************************************************************************)
(* The theorems.                                                           *)
(***************************************************************************)
LEMMA InitOwned == Init => OwnedInv
<1> SUFFICES ASSUME Init PROVE OwnedInv
  OBVIOUS
<1>1. PICK s \in Specs :
        dash = [spec |-> s, generation |-> 1, available |-> "Unknown", condGeneration |-> 1,
                observedGeneration |-> 0, url |-> ""]
  BY DEF Init
<1>2. IsDashboard(dash)
  <2>1. "Unknown" \in Reasons /\ "" \in Addresses
    BY DEF Reasons, Addresses
  <2>2. dash \in Dashboards
    BY <1>1, <2>1 DEF Dashboards
  <2>3. dash.generation = 1 /\ dash.condGeneration = 1 /\ dash.observedGeneration = 0
    BY <1>1
  <2> QED  BY <2>2, <2>3 DEF IsDashboard
<1>3. TypeInv
  <2>1. IsDashboard(seenDash) /\ IsDashboard(inst)
    BY <1>2 DEF Init
  <2>2. /\ DOMAIN live = Kinds /\ \A k \in Kinds : AtMostOne(live[k])
        /\ DOMAIN seen = Kinds /\ \A k \in Kinds : AtMostOne(seen[k])
    BY DEF Init, AtMostOne
  <2> QED  BY <1>2, <2>1, <2>2 DEF Init, TypeInv, Reasons
<1>4. CacheInv /\ WorkInv
  BY DEF Init, CacheInv, WorkInv, Woken
<1>5. KeysInv
  BY AnnotatedKinds, StepFacts DEF Init, KeysInv
<1> QED  BY <1>3, <1>4, <1>5 DEF OwnedInv

LEMMA OwnedAlways == Spec => []OwnedInv
<1>1. OwnedInv /\ [Next]_vars => OwnedInv'
  BY BaseKept, KeysKept, WorkKept DEF OwnedInv
<1> QED  BY <1>1, InitOwned, PTL DEF Spec

\* No update of Reconcile's removes an annotation key that another controller
\* wrote to the Service, Ingress or HTTPRoute (mergeManagedAnnotations): whatever
\* keys the spec's own annotations are and however often they come and go.
THEOREM ForeignAlwaysKept == Spec => ForeignKept
<1> DEFINE A == (pc \in Annotated) =>
                  \A o \in live[pc], n \in live'[pc] : o.keys \cap Foreign \subseteq n.keys
<1>1. OwnedInv /\ [Next]_vars => [A]_vars
  <2> SUFFICES ASSUME OwnedInv, [Next]_vars, pc \in Annotated,
                      NEW o \in live[pc], NEW n \in live'[pc]
               PROVE  o.keys \cap Foreign \subseteq n.keys
    OBVIOUS
  <2> QED  BY KeysKept DEF OwnedInv, ForeignStays
<1> QED  BY <1>1, OwnedAlways, PTL DEF Spec, ForeignKept

\* The controller goes quiet only when it is done: when no request is queued and
\* no event is on its way, every owned object is as the Dashboard's current spec
\* asks for, enough pods are ready and the status says so for the current
\* generation.  For every set of kinds whose informer lags, and any number of
\* edits, foreign writes and calls that failed with their effect in doubt.
THEOREM AlwaysLeftAloneOnlyWhenDone == Spec => []LeftAloneOnlyWhenDone
<1>1. OwnedInv => LeftAloneOnlyWhenDone
  <2> SUFFICES ASSUME OwnedInv, AtRest PROVE LeftAloneOnlyWhenDone
    BY DEF LeftAloneOnlyWhenDone
  <2>1. Finished
    BY DEF AtRest, OwnedInv, WorkInv, Woken
  <2>2. \A k \in Kinds : Fits(k, dash.spec) => Matches(k)
    BY DEF Fits, Matches
  <2>3. \A k \in Kinds \ {"NetworkPolicy"} : Matches(k)
    BY <2>1, <2>2 DEF Finished, Current, Excused
  <2>4. drift = 0 /\ "NetworkPolicy" \notin Lagging => Matches("NetworkPolicy")
    BY <2>1, <2>2, StepFacts DEF Finished, Current, Excused
  <2> QED  BY <2>1, <2>3, <2>4 DEF LeftAloneOnlyWhenDone, Finished
<1> QED  BY <1>1, OwnedAlways, PTL

\* Every annotation key on an owned object is the current spec's, another
\* controller's, or one it was created with that left the spec before an update
\* could record it, once the controller is quiet.
THEOREM KeysAlwaysAccountedFor == Spec => []KeysAccountedFor
<1>1. OwnedInv => TypeOK
  <2> SUFFICES ASSUME OwnedInv PROVE TypeOK
    OBVIOUS
  <2>1. ASSUME NEW S, AtMostOne(S) PROVE Cardinality(S) <= 1
    <3>1. CASE S = {}
      BY <3>1, FS_EmptySet
    <3>2. ASSUME NEW x, S = {x} PROVE Cardinality(S) <= 1
      BY <3>2, FS_Singleton
    <3> QED  BY <2>1, <3>1, <3>2 DEF AtMostOne
  <2>2. \A k \in Kinds : Cardinality(live[k]) <= 1 /\ Cardinality(seen[k]) <= 1
    BY <2>1 DEF OwnedInv, TypeInv
  <2> QED  BY <2>2 DEF OwnedInv, TypeInv, TypeOK, IsDashboard, Dashboards, StepNames
<1>2. OwnedInv => KeysAccountedFor
  <2> SUFFICES ASSUME OwnedInv, AtRest, NEW k \in Annotated, NEW o \in live[k]
               PROVE  o.keys \subseteq dash.spec.keys[k] \cup Foreign \cup unrecorded[k]
    BY <1>1 DEF KeysAccountedFor
  <2>1. Finished
    BY DEF AtRest, OwnedInv, WorkInv, Woken
  <2>2. k \in Kinds /\ AtMostOne(live[k])
    BY AnnotatedKinds DEF OwnedInv, TypeInv
  <2>3. ~Missing(k, dash.spec) /\ Fits(k, dash.spec)
    BY <2>1, <2>2 DEF Finished, Current, Excused, Annotated
  <2>4. ~Deletes(k) \/ Enabled(k, dash.spec)
    BY <2>3 DEF Fits
  <2>5. k # "HTTPRoute" \/ GatewayAPIEnabled
    BY DEF OwnedInv, KeysInv
  <2>6. Enabled(k, dash.spec)
    BY <2>4, <2>5 DEF Deletes, Enabled, Annotated
  <2>7. ~Changed(k, o, Desired(k, dash.spec))
    BY <2>2, <2>3, <2>6 DEF Fits, AtMostOne
  <2>8. o.managed = Merged(k, o, Desired(k, dash.spec)).managed
    BY <2>7 DEF Changed, annotatedChanged
  <2>9. o.managed = dash.spec.keys[k]
    BY <2>8, MergedFacts, DesiredFacts
  <2> QED  BY <2>9 DEF OwnedInv, KeysInv
<1> QED  BY <1>2, OwnedAlways, PTL
=============================================================================

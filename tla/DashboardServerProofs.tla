----------------------- MODULE DashboardServerProofs -----------------------
(***************************************************************************)
(* Proofs that no slot of authCheckSem is lost, that a credential is judged*)
(* by a recent htpasswd file, that a page answered while nothing changes   *)
(* shows what the cluster and the Store hold, for any worlds, clients,     *)
(* Secrets and ways of laying a page out, and that the order in which an   *)
(* informer lists the objects is not seen in the lists of a page.          *)
(***************************************************************************)
EXTENDS DashboardListings, FiniteSetTheorems, FunctionTheorems, SequenceTheorems, TLAPS

\* The requests that are comparing a credential.
Comparing == {c \in Clients : req[c].phase = "compare"}

\* The world is one of Worlds, every slot has its owner, and a Secret that is
\* about to be fetched has a name.
FetchNamed == \A c \in Clients : req[c].phase = "fetch" => req[c].secret \in Secrets
SlotsInv == world \in Worlds /\ ChecksOwned /\ FetchNamed

LEMMA IdleType ==
  Idle \in RequestType
<1>1. "idle" \in Phases /\ "healthz" \in Routes /\ NoCred \in AllCreds
  BY DEF Phases, Routes, AllCreds
<1>2. 0 \in 0 .. MaxDelay
  BY ServerAssumption
<1> HIDE DEF Phases, Routes, AllCreds
<1> QED BY <1>1, <1>2 DEF Idle, RequestType

\* What a request becomes is stored, and the others keep their state.
LEMMA GoFacts ==
  ASSUME TypeOK, NEW c \in Clients, NEW r \in RequestType, Go(c, r)
  PROVE  /\ req' \in [Clients -> RequestType]
         /\ req'[c] = r
         /\ \A d \in Clients \ {c} : req'[d] = req[d]
<1>1. req \in [Clients -> RequestType]
  BY DEF TypeOK
<1> QED BY <1>1 DEF Go

\* An age grows with the ticks, up to Lag, or starts anew.
LEMMA SinceFacts ==
  ASSUME NEW holds \in BOOLEAN, NEW n \in 0 .. Lag, NEW ticks \in {0, 1}
  PROVE  /\ Since(holds, n, ticks) \in 0 .. Lag
         /\ holds => Since(holds, n, ticks) = 0
         /\ Since(holds, n, ticks) <= n + ticks
<1>1. Lag \in Nat
  BY ServerAssumption DEF Lag
<1> HIDE DEF Lag
<1>2. CASE holds
  BY <1>1, <1>2 DEF Since
<1>3. CASE ~holds /\ n + ticks < Lag
  BY <1>1, <1>3 DEF Since
<1>4. CASE ~holds /\ ~(n + ticks < Lag)
  BY <1>1, <1>4 DEF Since
<1> QED BY <1>2, <1>3, <1>4

Ages == [ref : [Secrets \cup {Unset} -> 0 .. Lag],
         in : [Secrets -> [Creds -> 0 .. Lag]], out : [Secrets -> [Creds -> 0 .. Lag]]]

\* No age of b is more than the same of a and the ticks between them.
Grown(a, b, ticks) ==
  /\ \A r \in Secrets \cup {Unset} : b.ref[r] <= a.ref[r] + ticks
  /\ \A r \in Secrets, k \in Creds : /\ b.in[r][k] <= a.in[r][k] + ticks
                                     /\ b.out[r][k] <= a.out[r][k] + ticks

LEMMA AgedFacts ==
  ASSUME age \in Ages, NEW cl \in ClusterType, NEW s, NEW ticks \in {0, 1}
  PROVE  /\ Aged(cl, s, ticks) \in Ages
         /\ \A r \in Secrets \cup {Unset} :
              /\ Aged(cl, s, ticks).ref[r] <= age.ref[r] + ticks
              /\ r = InForce(cl) => Aged(cl, s, ticks).ref[r] = 0
         /\ \A r \in Secrets, k \in Creds :
              /\ Aged(cl, s, ticks).in[r][k] <= age.in[r][k] + ticks
              /\ Has(s[r], k) => Aged(cl, s, ticks).in[r][k] = 0
              /\ Aged(cl, s, ticks).out[r][k] <= age.out[r][k] + ticks
              /\ ~Has(s[r], k) => Aged(cl, s, ticks).out[r][k] = 0
<1> DEFINE ref == [r \in Secrets \cup {Unset} |-> Since(r = InForce(cl), age.ref[r], ticks)]
           in  == [r \in Secrets |-> [k \in Creds |-> Since(Has(s[r], k), age.in[r][k], ticks)]]
           out == [r \in Secrets |-> [k \in Creds |-> Since(~Has(s[r], k), age.out[r][k], ticks)]]
<1>1. Aged(cl, s, ticks) = [ref |-> ref, in |-> in, out |-> out]
  BY DEF Aged
<1>2. /\ age.ref \in [Secrets \cup {Unset} -> 0 .. Lag]
      /\ age.in \in [Secrets -> [Creds -> 0 .. Lag]] /\ age.out \in [Secrets -> [Creds -> 0 .. Lag]]
  BY DEF Ages
<1>3. ASSUME NEW r \in Secrets \cup {Unset}
      PROVE  ref[r] \in 0 .. Lag /\ ref[r] <= age.ref[r] + ticks /\ (r = InForce(cl) => ref[r] = 0)
  <2>1. ref[r] = Since(r = InForce(cl), age.ref[r], ticks)
    OBVIOUS
  <2>2. age.ref[r] \in 0 .. Lag /\ (r = InForce(cl)) \in BOOLEAN
    BY <1>2
  <2> HIDE DEF ref
  <2> QED BY <2>1, <2>2, SinceFacts
<1>4. ASSUME NEW r \in Secrets, NEW k \in Creds
      PROVE  /\ in[r][k] \in 0 .. Lag /\ in[r][k] <= age.in[r][k] + ticks
             /\ Has(s[r], k) => in[r][k] = 0
             /\ out[r][k] \in 0 .. Lag /\ out[r][k] <= age.out[r][k] + ticks
             /\ ~Has(s[r], k) => out[r][k] = 0
  <2>1. /\ in[r][k] = Since(Has(s[r], k), age.in[r][k], ticks)
        /\ out[r][k] = Since(~Has(s[r], k), age.out[r][k], ticks)
    OBVIOUS
  <2>2. /\ age.in[r][k] \in 0 .. Lag /\ age.out[r][k] \in 0 .. Lag
        /\ Has(s[r], k) \in BOOLEAN
    BY <1>2 DEF Has
  <2> DEFINE lacks == ~Has(s[r], k)
  <2>5. lacks \in BOOLEAN /\ out[r][k] = Since(lacks, age.out[r][k], ticks)
    BY <2>1
  <2>6. lacks <=> ~Has(s[r], k)
    OBVIOUS
  <2> HIDE DEF in, out, lacks
  <2>3. in[r][k] \in 0 .. Lag /\ in[r][k] <= age.in[r][k] + ticks /\ (Has(s[r], k) => in[r][k] = 0)
    BY <2>1, <2>2, SinceFacts
  <2>4. out[r][k] \in 0 .. Lag /\ out[r][k] <= age.out[r][k] + ticks /\ (~Has(s[r], k) => out[r][k] = 0)
    BY <2>2, <2>5, <2>6, SinceFacts
  <2> QED BY <2>3, <2>4
<1>5. /\ ref \in [Secrets \cup {Unset} -> 0 .. Lag]
      /\ in \in [Secrets -> [Creds -> 0 .. Lag]] /\ out \in [Secrets -> [Creds -> 0 .. Lag]]
  BY <1>3, <1>4
<1> HIDE DEF ref, in, out
<1> QED BY <1>1, <1>3, <1>4, <1>5 DEF Ages

\* A user changes one field of the cluster to what the world has in mind.
LEMMA EditType ==
  ASSUME world \in Worlds, TypeOK, NEW field \in DOMAIN cluster, Edit(field)
  PROVE  cluster' \in ClusterType
<1>1. cluster \in ClusterType /\ world.then \in ClusterType
  BY ServerAssumption DEF TypeOK, WorldType
<1>2. cluster' = [cluster EXCEPT ![field] = world.then[field]]
  BY DEF Edit
<1>3. field \in {"present", "style", "count", "bookmarks", "infos", "cards", "authRef"}
  BY <1>1 DEF ClusterType
<1> QED BY <1>1, <1>2, <1>3 DEF ClusterType

\* Init and every edit find the fields of the cluster well typed.
LEMMA ClusterFacts ==
  ASSUME SlotsInv
  PROVE  /\ cluster \in ClusterType /\ world \in WorldType
         /\ cluster.authRef \in Secrets \cup {Unset} /\ cluster.present \in BOOLEAN
         /\ cluster.style \in Held("style") /\ cluster.count \in Held("count")
         /\ cluster.bookmarks \in Held("bookmarks") /\ cluster.infos \in Held("infos")
         /\ Protected(cluster) => cluster.authRef \in Secrets
         /\ InForce(cluster) \in Secrets \cup {Unset}
<1>1. cluster \in ClusterType /\ world \in WorldType
  BY ServerAssumption DEF SlotsInv, ChecksOwned, TypeOK
<1> QED BY <1>1 DEF ClusterType, Protected, InForce

\* A file's entries are those of FileEntries, and Has tells which they are.
LEMMA FileFacts ==
  ASSUME NEW f \in Files \cup {NoFile}, f # NoFile
  PROVE  /\ parseHtpasswd(f) \in SUBSET FileEntries
         /\ \A k \in Creds : k \in parseHtpasswd(f) <=> Has(f, k)
BY DEF FileEntries, Has

\* What a step of request c leaves alone: what its handler has read, and what
\* its login is about.
SameReads(c) ==
  /\ req'[c].route = req[c].route /\ req'[c].clean = req[c].clean
  /\ req'[c].again = req[c].again
  /\ req'[c].style = req[c].style /\ req'[c].count = req[c].count
  /\ req'[c].bookmarks = req[c].bookmarks /\ req'[c].infos = req[c].infos
SameLogin(c) == req'[c].cred = req[c].cred /\ req'[c].waited = req[c].waited

\* A step of request c changes nothing of the others.
Moves(c) ==
  /\ req' \in [Clients -> RequestType]
  /\ \A d \in Clients \ {c} : req'[d] = req[d]

LEMMA EndFacts ==
  ASSUME SlotsInv, NEW c \in Clients, End(c)
  PROVE  Moves(c) /\ req'[c] = Idle /\ req'[c].phase = "idle"
BY IdleType, GoFacts DEF End, Moves, SlotsInv, ChecksOwned, Idle

\* The phases a request may enter.
LEMMA PhaseFacts ==
  {"idle", "auth", "fetch", "cache", "check", "compare", "serve", "count", "bookmarks",
   "infos", "snapshot"} = Phases
BY DEF Phases, Guarded

LEMMA ArriveFacts ==
  ASSUME SlotsInv, NEW c \in Clients, NEW u \in Routes, NEW k \in AllCreds, Arrive(c, u, k)
  PROVE  /\ Moves(c) /\ req[c].phase = "idle"
         /\ req'[c].phase \in {"serve", "auth"} /\ ~req'[c].again /\ req'[c].waited = 0
<1> DEFINE r == [Idle EXCEPT !.phase = IF u = "healthz" THEN "serve" ELSE "auth",
                             !.route = u, !.cred = k]
<1>1. r \in RequestType /\ r.phase \in {"serve", "auth"} /\ ~r.again /\ r.waited = 0
  BY IdleType, PhaseFacts DEF RequestType, Idle
<1>2. Go(c, r) /\ req[c].phase = "idle"
  BY DEF Arrive
<1> HIDE DEF r
<1> QED BY <1>1, <1>2, GoFacts DEF Moves, SlotsInv, ChecksOwned

LEMMA LookedFacts ==
  ASSUME SlotsInv, NEW c \in Clients, NEW enabled \in BOOLEAN, NEW entries \in SUBSET FileEntries,
         Looked(c, enabled, entries)
  PROVE  /\ Moves(c) /\ SameReads(c) /\ SameLogin(c) /\ req'[c].entries = entries
         /\ req[c].again => req'[c].phase = "snapshot"
         /\ ~req[c].again => req'[c].phase = IF enabled THEN "check" ELSE "serve"
<1> DEFINE p == CASE req[c].again             -> "snapshot"
                  [] ~req[c].again /\ enabled -> "check"
                  [] OTHER                    -> "serve"
           r == [req[c] EXCEPT !.phase = p, !.enabled = enabled, !.entries = entries]
<1>0. req[c] \in RequestType
  BY DEF SlotsInv, ChecksOwned, TypeOK
<1>1. req[c].again \in BOOLEAN
  BY <1>0 DEF RequestType
<1>2. /\ req[c].again => p = "snapshot"
      /\ ~req[c].again => p = IF enabled THEN "check" ELSE "serve"
  BY <1>1
<1>3. p \in Phases
  BY <1>1, <1>2, PhaseFacts
<1> HIDE DEF p
<1>4. /\ r \in RequestType /\ r.phase = p /\ r.entries = entries
      /\ r.route = req[c].route /\ r.clean = req[c].clean /\ r.again = req[c].again
      /\ r.style = req[c].style /\ r.count = req[c].count /\ r.bookmarks = req[c].bookmarks
      /\ r.infos = req[c].infos /\ r.cred = req[c].cred /\ r.waited = req[c].waited
  BY <1>0, <1>3 DEF RequestType
<1>5. Go(c, r)
  BY DEF Looked, p
<1> HIDE DEF r
<1> QED BY <1>2, <1>4, <1>5, GoFacts DEF Moves, SameReads, SameLogin, SlotsInv, ChecksOwned

\* The request has one of the phases, and a record of its type.
LEMMA RequestFacts ==
  ASSUME SlotsInv, NEW c \in Clients
  PROVE  /\ req[c] \in RequestType /\ req[c].again \in BOOLEAN /\ req[c].clean \in BOOLEAN
         /\ req[c].route \in Routes /\ req[c].cred \in AllCreds
         /\ req[c].entries \in SUBSET FileEntries /\ req[c].waited \in 0 .. MaxDelay
         /\ secrets \in [Secrets -> Files \cup {NoFile}]
         /\ cache.entries \in SUBSET FileEntries /\ cache.left \in 0 .. CacheTTL
<1>1. /\ req \in [Clients -> RequestType] /\ secrets \in [Secrets -> Files \cup {NoFile}]
      /\ cache \in [entries : SUBSET FileEntries, left : 0 .. CacheTTL]
  BY DEF SlotsInv, ChecksOwned, TypeOK
<1>2. req[c] \in RequestType
  BY <1>1
<1> QED BY <1>1, <1>2 DEF RequestType

LEMMA LookupFacts ==
  ASSUME SlotsInv, NEW c \in Clients, LookupAuth(c)
  PROVE  /\ Moves(c) /\ SameReads(c) /\ SameLogin(c) /\ req[c].phase = "auth"
         /\ \/ /\ ~Protected(cluster)
               /\ req'[c].phase = IF req[c].again THEN "snapshot" ELSE "serve"
            \/ /\ Protected(cluster) /\ CacheHit(cache) /\ req'[c].entries = cache.entries
               /\ req'[c].phase = IF req[c].again THEN "snapshot" ELSE "check"
            \/ /\ Protected(cluster) /\ req'[c].phase = "fetch"
               /\ req'[c].secret = cluster.authRef /\ req'[c].secret \in Secrets
<1>1. req[c].phase = "auth"
  BY DEF LookupAuth
<1>2. CASE ~Protected(cluster)
  <2>1. Looked(c, FALSE, {})
    BY <1>2 DEF LookupAuth
  <2>2. {} \in SUBSET FileEntries
    OBVIOUS
  <2>3. /\ Moves(c) /\ SameReads(c) /\ SameLogin(c)
        /\ req[c].again => req'[c].phase = "snapshot"
        /\ ~req[c].again => req'[c].phase = "serve"
    BY <2>1, <2>2, LookedFacts
  <2> QED BY <1>1, <1>2, <2>3
<1>3. CASE Protected(cluster) /\ CacheHit(cache)
  <2>1. Looked(c, TRUE, cache.entries)
    BY <1>3 DEF LookupAuth
  <2>3. /\ Moves(c) /\ SameReads(c) /\ SameLogin(c) /\ req'[c].entries = cache.entries
        /\ req[c].again => req'[c].phase = "snapshot"
        /\ ~req[c].again => req'[c].phase = "check"
    BY <2>1, RequestFacts, LookedFacts
  <2> QED BY <1>1, <1>3, <2>3
<1>4. CASE Protected(cluster) /\ ~CacheHit(cache)
  <2> DEFINE r == [req[c] EXCEPT !.phase = "fetch", !.secret = cluster.authRef]
  <2>1. Go(c, r)
    BY <1>4 DEF LookupAuth
  <2>2. cluster.authRef \in Secrets
    BY <1>4, ClusterFacts
  <2>3. req[c] \in RequestType
    BY RequestFacts
  <2>4. /\ r \in RequestType /\ r.phase = "fetch" /\ r.secret = cluster.authRef
        /\ r.route = req[c].route /\ r.clean = req[c].clean /\ r.again = req[c].again
        /\ r.style = req[c].style /\ r.count = req[c].count /\ r.bookmarks = req[c].bookmarks
        /\ r.infos = req[c].infos /\ r.cred = req[c].cred /\ r.waited = req[c].waited
    BY <2>2, <2>3, PhaseFacts DEF RequestType
  <2> HIDE DEF r
  <2>5. Moves(c) /\ req'[c] = r
    BY <2>1, <2>4, GoFacts DEF Moves, SlotsInv, ChecksOwned
  <2> QED BY <1>1, <1>4, <2>2, <2>4, <2>5 DEF SameReads, SameLogin
<1> QED BY <1>2, <1>3, <1>4

LEMMA FetchFacts ==
  ASSUME SlotsInv, NEW c \in Clients, FetchSecret(c)
  PROVE  /\ Moves(c) /\ req[c].phase = "fetch" /\ req[c].secret \in Secrets
         /\ \/ req'[c] = Idle /\ req'[c].phase = "idle"
            \/ /\ req'[c].phase = "cache" /\ SameReads(c) /\ SameLogin(c)
               /\ \A k \in Creds : k \in req'[c].entries <=> Has(secrets[req[c].secret], k)
<1> DEFINE f == secrets[req[c].secret]
           r == [req[c] EXCEPT !.phase = "cache", !.secret = Unset, !.entries = parseHtpasswd(f)]
<1>1. req[c].phase = "fetch"
  BY DEF FetchSecret
<1>2. req[c].secret \in Secrets
  BY <1>1 DEF SlotsInv, FetchNamed
<1>3. f \in Files \cup {NoFile}
  BY <1>2, RequestFacts
<1>4. CASE f # NoFile
  <2>1. Go(c, r)
    BY <1>4 DEF FetchSecret
  <2>2. parseHtpasswd(f) \in SUBSET FileEntries /\ \A k \in Creds : k \in parseHtpasswd(f) <=> Has(f, k)
    BY <1>3, <1>4, FileFacts
  <2>3. req[c] \in RequestType
    BY RequestFacts
  <2> HIDE DEF f
  <2>4. /\ r \in RequestType /\ r.phase = "cache" /\ r.entries = parseHtpasswd(f)
        /\ r.route = req[c].route /\ r.clean = req[c].clean /\ r.again = req[c].again
        /\ r.style = req[c].style /\ r.count = req[c].count /\ r.bookmarks = req[c].bookmarks
        /\ r.infos = req[c].infos /\ r.cred = req[c].cred /\ r.waited = req[c].waited
    BY <2>2, <2>3, PhaseFacts DEF RequestType
  <2> HIDE DEF r
  <2>5. Moves(c) /\ req'[c] = r
    BY <2>1, <2>4, GoFacts DEF Moves, SlotsInv, ChecksOwned
  <2>6. \A k \in Creds : k \in req'[c].entries <=> Has(secrets[req[c].secret], k)
    BY <2>2, <2>4, <2>5 DEF f
  <2> QED BY <1>1, <1>2, <2>4, <2>5, <2>6 DEF SameReads, SameLogin
<1>5. CASE f = NoFile
  <2>1. End(c)
    BY <1>5 DEF FetchSecret
  <2> QED BY <1>1, <1>2, <2>1, EndFacts
<1> QED BY <1>4, <1>5

LEMMA StoreFacts ==
  ASSUME SlotsInv, NEW c \in Clients, StoreAuth(c)
  PROVE  /\ Moves(c) /\ SameReads(c) /\ SameLogin(c) /\ req[c].phase = "cache"
         /\ req'[c].entries = req[c].entries
         /\ req'[c].phase = IF req[c].again THEN "snapshot" ELSE "check"
         /\ cache' = [entries |-> req[c].entries, left |-> CacheTTL]
         /\ cache' \in [entries : SUBSET FileEntries, left : 0 .. CacheTTL]
<1>1. Looked(c, TRUE, req[c].entries) /\ req[c].phase = "cache"
  BY DEF StoreAuth
<1>2. req[c].entries \in SUBSET FileEntries
  BY RequestFacts
<1>3. /\ Moves(c) /\ SameReads(c) /\ SameLogin(c) /\ req'[c].entries = req[c].entries
      /\ req[c].again => req'[c].phase = "snapshot"
      /\ ~req[c].again => req'[c].phase = "check"
  BY <1>1, <1>2, LookedFacts
<1>4. cache' = [entries |-> req[c].entries, left |-> CacheTTL] /\ CacheTTL \in 0 .. CacheTTL
  BY ServerAssumption DEF StoreAuth, NewEntry
<1> QED BY <1>1, <1>2, <1>3, <1>4

LEMMA CheckFacts ==
  ASSUME SlotsInv, NEW c \in Clients, CheckCredential(c)
  PROVE  /\ Moves(c) /\ req[c].phase = "check"
         /\ \/ req'[c] = Idle /\ req'[c].phase = "idle" /\ sem' = sem
            \/ /\ req'[c].phase = "compare" /\ req[c].cred # NoCred /\ sem < MaxAuthChecks
               /\ sem' = sem + 1 /\ req'[c].entries = req[c].entries
               /\ SameReads(c) /\ SameLogin(c)
<1> DEFINE r == [req[c] EXCEPT !.phase = "compare"]
<1>1. req[c].phase = "check"
  BY DEF CheckCredential
<1>2. CASE End(c) /\ sem' = sem
  BY <1>1, <1>2, EndFacts
<1>3. CASE req[c].cred # NoCred /\ sem < MaxAuthChecks /\ sem' = sem + 1 /\ Go(c, r)
  <2>1. req[c] \in RequestType
    BY RequestFacts
  <2>2. /\ r \in RequestType /\ r.phase = "compare" /\ r.entries = req[c].entries
        /\ r.route = req[c].route /\ r.clean = req[c].clean /\ r.again = req[c].again
        /\ r.style = req[c].style /\ r.count = req[c].count /\ r.bookmarks = req[c].bookmarks
        /\ r.infos = req[c].infos /\ r.cred = req[c].cred /\ r.waited = req[c].waited
    BY <2>1, PhaseFacts DEF RequestType
  <2>3. Go(c, r)
    BY <1>3
  <2> HIDE DEF r
  <2>4. Moves(c) /\ req'[c] = r
    BY <2>2, <2>3, GoFacts DEF Moves, SlotsInv, ChecksOwned
  <2> QED BY <1>1, <1>3, <2>2, <2>4 DEF SameReads, SameLogin
<1> QED BY <1>2, <1>3 DEF CheckCredential

LEMMA CompareFacts ==
  ASSUME SlotsInv, NEW c \in Clients, CompareCredential(c)
  PROVE  /\ Moves(c) /\ req[c].phase = "compare" /\ sem' = sem - 1
         /\ \/ req'[c] = Idle /\ req'[c].phase = "idle" /\ req[c].cred \notin req[c].entries
            \/ /\ req'[c].phase = "serve" /\ req[c].cred \in req[c].entries
               /\ SameReads(c) /\ SameLogin(c)
<1> DEFINE r == [req[c] EXCEPT !.phase = "serve", !.entries = {}]
<1>1. req[c].phase = "compare" /\ sem' = sem - 1
  BY DEF CompareCredential
<1>2. CASE req[c].cred \notin req[c].entries
  <2>1. End(c)
    BY <1>2 DEF CompareCredential
  <2> QED BY <1>1, <1>2, <2>1, EndFacts
<1>3. CASE req[c].cred \in req[c].entries
  <2>1. req[c] \in RequestType /\ Go(c, r)
    BY <1>3, RequestFacts DEF CompareCredential
  <2>2. /\ r \in RequestType /\ r.phase = "serve"
        /\ r.route = req[c].route /\ r.clean = req[c].clean /\ r.again = req[c].again
        /\ r.style = req[c].style /\ r.count = req[c].count /\ r.bookmarks = req[c].bookmarks
        /\ r.infos = req[c].infos /\ r.cred = req[c].cred /\ r.waited = req[c].waited
    BY <2>1, PhaseFacts DEF RequestType
  <2> HIDE DEF r
  <2>4. Moves(c) /\ req'[c] = r
    BY <2>1, <2>2, GoFacts DEF Moves, SlotsInv, ChecksOwned
  <2> QED BY <1>1, <1>3, <2>2, <2>4 DEF SameReads, SameLogin
<1> QED BY <1>2, <1>3

\* A read of LoadSite changes its own field and the phase.
LEMMA ReadStyleFacts ==
  ASSUME SlotsInv, NEW c \in Clients, ReadStyle(c)
  PROVE  /\ Moves(c) /\ SameLogin(c) /\ req[c].phase = "serve" /\ req'[c].phase = "count"
         /\ req'[c].route = req[c].route /\ req'[c].clean = req[c].clean
         /\ req'[c].again = req[c].again /\ req'[c].style = Now.style
         /\ req'[c].count = req[c].count /\ req'[c].bookmarks = req[c].bookmarks
         /\ req'[c].infos = req[c].infos
<1> DEFINE s == IF cluster.present THEN cluster.style ELSE NoStyle
           r == [req[c] EXCEPT !.phase = "count", !.style = s]
<1>1. s \in Held("style") \cup {NoStyle}
  BY ClusterFacts
<1>2. Now.style = s
  BY DEF Now
<1>3. Go(c, r) /\ req[c].phase = "serve"
  BY DEF ReadStyle
<1>4. req[c] \in RequestType
  BY RequestFacts
<1> HIDE DEF s
<1>5. /\ r \in RequestType /\ r.phase = "count" /\ r.style = s /\ r.cred = req[c].cred
      /\ r.waited = req[c].waited /\ r.route = req[c].route /\ r.clean = req[c].clean
      /\ r.again = req[c].again /\ r.count = req[c].count /\ r.bookmarks = req[c].bookmarks
      /\ r.infos = req[c].infos
  BY <1>1, <1>4, PhaseFacts DEF RequestType
<1> HIDE DEF r
<1> QED BY <1>2, <1>3, <1>5, GoFacts DEF Moves, SameLogin, SlotsInv, ChecksOwned

LEMMA CountFacts ==
  ASSUME SlotsInv, NEW c \in Clients, CountDashboards(c)
  PROVE  /\ Moves(c) /\ SameLogin(c) /\ req[c].phase = "count" /\ req'[c].phase = "bookmarks"
         /\ req'[c].route = req[c].route /\ req'[c].clean = req[c].clean
         /\ req'[c].again = req[c].again /\ req'[c].style = req[c].style
         /\ req'[c].count = cluster.count /\ req'[c].bookmarks = req[c].bookmarks
         /\ req'[c].infos = req[c].infos
<1> DEFINE r == [req[c] EXCEPT !.phase = "bookmarks", !.count = cluster.count]
<1>1. Go(c, r) /\ req[c].phase = "count"
  BY DEF CountDashboards
<1>2. req[c] \in RequestType /\ cluster.count \in Held("count")
  BY RequestFacts, ClusterFacts
<1>3. /\ r \in RequestType /\ r.phase = "bookmarks" /\ r.count = cluster.count
      /\ r.style = req[c].style /\ r.cred = req[c].cred /\ r.waited = req[c].waited
      /\ r.route = req[c].route /\ r.clean = req[c].clean /\ r.again = req[c].again
      /\ r.bookmarks = req[c].bookmarks /\ r.infos = req[c].infos
  BY <1>2, PhaseFacts DEF RequestType
<1> HIDE DEF r
<1> QED BY <1>1, <1>3, GoFacts DEF Moves, SameLogin, SlotsInv, ChecksOwned

LEMMA BookmarkFacts ==
  ASSUME SlotsInv, NEW c \in Clients, ListBookmarks(c)
  PROVE  /\ Moves(c) /\ SameLogin(c) /\ req[c].phase = "bookmarks" /\ req'[c].phase = "infos"
         /\ req'[c].route = req[c].route /\ req'[c].clean = req[c].clean
         /\ req'[c].again = req[c].again /\ req'[c].style = req[c].style
         /\ req'[c].count = req[c].count /\ req'[c].bookmarks = cluster.bookmarks
         /\ req'[c].infos = req[c].infos
<1> DEFINE r == [req[c] EXCEPT !.phase = "infos", !.bookmarks = cluster.bookmarks]
<1>1. Go(c, r) /\ req[c].phase = "bookmarks"
  BY DEF ListBookmarks
<1>2. req[c] \in RequestType /\ cluster.bookmarks \in Held("bookmarks")
  BY RequestFacts, ClusterFacts
<1>3. /\ r \in RequestType /\ r.phase = "infos" /\ r.bookmarks = cluster.bookmarks
      /\ r.style = req[c].style /\ r.count = req[c].count
      /\ r.cred = req[c].cred /\ r.waited = req[c].waited
      /\ r.route = req[c].route /\ r.clean = req[c].clean /\ r.again = req[c].again
      /\ r.infos = req[c].infos
  BY <1>2, PhaseFacts DEF RequestType
<1> HIDE DEF r
<1> QED BY <1>1, <1>3, GoFacts DEF Moves, SameLogin, SlotsInv, ChecksOwned

LEMMA InfoFacts ==
  ASSUME SlotsInv, NEW c \in Clients, ListInfoWidgets(c)
  PROVE  /\ Moves(c) /\ SameLogin(c) /\ req[c].phase = "infos"
         /\ req'[c].phase \in {"auth", "snapshot"} /\ req'[c].again
         /\ req'[c].route = req[c].route /\ req'[c].clean = req[c].clean
         /\ req'[c].style = req[c].style /\ req'[c].count = req[c].count
         /\ req'[c].bookmarks = req[c].bookmarks /\ req'[c].infos = cluster.infos
<1> DEFINE p == IF req[c].route = "index" THEN "auth" ELSE "snapshot"
           r == [req[c] EXCEPT !.infos = cluster.infos, !.again = TRUE, !.phase = p]
<1>1. Go(c, r) /\ req[c].phase = "infos"
  BY DEF ListInfoWidgets
<1>2. req[c] \in RequestType /\ cluster.infos \in Held("infos")
  BY RequestFacts, ClusterFacts
<1>3. p \in {"auth", "snapshot"}
  OBVIOUS
<1> HIDE DEF p
<1>4. /\ r \in RequestType /\ r.phase = p /\ r.infos = cluster.infos /\ r.again
      /\ r.style = req[c].style /\ r.count = req[c].count /\ r.bookmarks = req[c].bookmarks
      /\ r.cred = req[c].cred /\ r.waited = req[c].waited
      /\ r.route = req[c].route /\ r.clean = req[c].clean
  BY <1>2, <1>3, PhaseFacts DEF RequestType
<1> HIDE DEF r
<1> QED BY <1>1, <1>3, <1>4, GoFacts DEF Moves, SameLogin, SlotsInv, ChecksOwned

LEMMA EndsFacts ==
  ASSUME SlotsInv, NEW c \in Clients, ServeStatic(c) \/ ReadFails(c) \/ Render(c)
  PROVE  /\ Moves(c) /\ req'[c] = Idle /\ req'[c].phase = "idle"
         /\ req[c].phase \notin {"idle", "check", "compare"}
<1>1. End(c)
  BY DEF ServeStatic, ReadFails, Render
<1>2. req[c].phase \notin {"idle", "check", "compare"}
  BY DEF ServeStatic, ReadFails, Render
<1> QED BY <1>1, <1>2, EndFacts

\* An edit marks the requests it overtakes, and time passes for those that are
\* being authenticated.
LEMMA EditFacts ==
  ASSUME SlotsInv, NEW field \in DOMAIN cluster, Edit(field)
  PROVE  /\ req' \in [Clients -> RequestType]
         /\ \A c \in Clients :
              /\ req'[c].phase = req[c].phase /\ req'[c].secret = req[c].secret
              /\ req'[c].entries = req[c].entries /\ SameLogin(c)
              /\ req[c].phase # "idle" => ~req'[c].clean
<1>1. req' = [c \in Clients |-> IF req[c].phase = "idle" THEN req[c]
                                ELSE [req[c] EXCEPT !.clean = FALSE]]
  BY DEF Edit, Disturbed
<1>2. ASSUME NEW c \in Clients
      PROVE  /\ req'[c] \in RequestType
             /\ req'[c].phase = req[c].phase /\ req'[c].secret = req[c].secret
             /\ req'[c].entries = req[c].entries /\ SameLogin(c)
             /\ req[c].phase # "idle" => ~req'[c].clean
  <2>1. req[c] \in RequestType
    BY RequestFacts
  <2>2. CASE req[c].phase = "idle"
    BY <1>1, <2>1, <2>2 DEF SameLogin
  <2>3. CASE req[c].phase # "idle"
    <3>1. req'[c] = [req[c] EXCEPT !.clean = FALSE]
      BY <1>1, <2>3
    <3> QED BY <2>1, <2>3, <3>1 DEF RequestType, SameLogin
  <2> QED BY <2>2, <2>3
<1>3. req' \in [Clients -> RequestType]
  BY <1>1, <1>2
<1> QED BY <1>2, <1>3

LEMMA TickFacts ==
  ASSUME SlotsInv, Tick
  PROVE  /\ req' \in [Clients -> RequestType]
         /\ cache' \in [entries : SUBSET FileEntries, left : 0 .. CacheTTL]
         /\ cache'.entries = cache.entries /\ (cache'.left > 0 => cache.left = cache'.left + 1)
         /\ \A c \in Clients :
              /\ req'[c].phase = req[c].phase /\ req'[c].secret = req[c].secret
              /\ req'[c].entries = req[c].entries /\ req'[c].cred = req[c].cred /\ SameReads(c)
              /\ req[c].phase \in Guarded => req'[c].waited = req[c].waited + 1
<1>1. /\ req' = [c \in Clients |-> IF req[c].phase \in Guarded
                                    THEN [req[c] EXCEPT !.waited = @ + 1] ELSE req[c]]
      /\ \A c \in Clients : req[c].phase \in Guarded => req[c].waited < MaxDelay
  BY DEF Tick
<1>2. ASSUME NEW c \in Clients
      PROVE  /\ req'[c] \in RequestType
             /\ req'[c].phase = req[c].phase /\ req'[c].secret = req[c].secret
             /\ req'[c].entries = req[c].entries /\ req'[c].cred = req[c].cred /\ SameReads(c)
             /\ req[c].phase \in Guarded => req'[c].waited = req[c].waited + 1
  <2>1. req[c] \in RequestType /\ req[c].waited \in 0 .. MaxDelay
    BY RequestFacts
  <2>2. CASE req[c].phase \notin Guarded
    BY <1>1, <2>1, <2>2 DEF SameReads
  <2>3. CASE req[c].phase \in Guarded
    <3>1. req'[c] = [req[c] EXCEPT !.waited = req[c].waited + 1]
      BY <1>1, <2>3
    <3>2. req[c].waited + 1 \in 0 .. MaxDelay
      BY <1>1, <2>1, <2>3, ServerAssumption
    <3> QED BY <2>1, <2>3, <3>1, <3>2 DEF RequestType, SameReads
  <2> QED BY <2>2, <2>3
<1>3. req' \in [Clients -> RequestType]
  BY <1>1, <1>2
<1>4. cache \in [entries : SUBSET FileEntries, left : 0 .. CacheTTL]
  BY DEF SlotsInv, ChecksOwned, TypeOK
<1>5. cache' = [cache EXCEPT !.left = IF cache.left > 0 THEN cache.left - 1 ELSE 0]
  BY DEF Tick
<1>6. /\ cache' \in [entries : SUBSET FileEntries, left : 0 .. CacheTTL]
      /\ cache'.entries = cache.entries /\ (cache'.left > 0 => cache.left = cache'.left + 1)
  BY <1>4, <1>5, ServerAssumption
<1> QED BY <1>2, <1>3, <1>6
-----------------------------------------------------------------------------
(***************************************************************************)
(* No slot is lost.                                                        *)
(***************************************************************************)
LEMMA ComparingFinite ==
  IsFiniteSet(Comparing) /\ Cardinality(Comparing) \in Nat
<1>1. Comparing \subseteq Clients /\ IsFiniteSet(Clients)
  BY ServerAssumption DEF Comparing
<1> QED BY <1>1, FS_Subset, FS_CardinalityType

\* A step that neither starts nor ends a comparison keeps the slots as they are.
LEMMA SlotsKept ==
  ASSUME SlotsInv, NEW c \in Clients, Moves(c), sem' = sem,
         req'[c].phase = "compare" <=> req[c].phase = "compare"
  PROVE  sem' \in 0 .. MaxAuthChecks /\ sem' = Cardinality(Comparing')
<1>1. Comparing' = Comparing
  BY DEF Moves, Comparing
<1>2. sem \in 0 .. MaxAuthChecks /\ sem = Cardinality(Comparing)
  BY DEF SlotsInv, ChecksOwned, TypeOK, Comparing
<1> QED BY <1>1, <1>2

LEMMA SlotTaken ==
  ASSUME SlotsInv, NEW c \in Clients, CheckCredential(c)
  PROVE  sem' \in 0 .. MaxAuthChecks /\ sem' = Cardinality(Comparing')
<1>1. sem \in 0 .. MaxAuthChecks /\ sem = Cardinality(Comparing) /\ MaxAuthChecks \in Nat
  BY ServerAssumption DEF SlotsInv, ChecksOwned, TypeOK, Comparing
<1>2. CASE sem' = sem /\ req'[c].phase = "idle"
  BY <1>2, CheckFacts, SlotsKept
<1>3. CASE req'[c].phase = "compare" /\ sem < MaxAuthChecks /\ sem' = sem + 1
  <2>1. Comparing' = Comparing \cup {c} /\ c \notin Comparing
    BY <1>3, CheckFacts DEF Moves, Comparing
  <2>2. Cardinality(Comparing \cup {c}) = Cardinality(Comparing) + 1
    BY <2>1, ComparingFinite, FS_AddElement
  <2> QED BY <1>1, <1>3, <2>1, <2>2
<1> QED BY <1>2, <1>3, CheckFacts

LEMMA SlotGiven ==
  ASSUME SlotsInv, NEW c \in Clients, CompareCredential(c)
  PROVE  sem' \in 0 .. MaxAuthChecks /\ sem' = Cardinality(Comparing')
<1>1. sem \in 0 .. MaxAuthChecks /\ sem = Cardinality(Comparing) /\ MaxAuthChecks \in Nat
  BY ServerAssumption DEF SlotsInv, ChecksOwned, TypeOK, Comparing
<1>2. Comparing' = Comparing \ {c} /\ c \in Comparing
  BY CompareFacts DEF Moves, Comparing
<1>3. Cardinality(Comparing \ {c}) = Cardinality(Comparing) - 1 /\ Cardinality(Comparing \ {c}) \in Nat
  <2>1. Cardinality(Comparing \ {c}) = Cardinality(Comparing) - 1
    BY <1>2, ComparingFinite, FS_RemoveElement
  <2>2. IsFiniteSet(Comparing \ {c})
    BY ComparingFinite, FS_RemoveElement
  <2> QED BY <2>1, <2>2, FS_CardinalityType
<1>4. sem' = sem - 1
  BY CompareFacts
<1> QED BY <1>1, <1>2, <1>3, <1>4

\* What is left to show of a request's step.
LEMMA StepSlotsFrom ==
  ASSUME SlotsInv, NEW c \in Clients, Moves(c),
         UNCHANGED <<world, cluster, secrets, age, edits>>,
         cache' \in [entries : SUBSET FileEntries, left : 0 .. CacheTTL],
         fresh' \in [Clients -> SUBSET Swapped], failures' \in 0 .. world.maxFailures,
         sem' \in 0 .. MaxAuthChecks, sem' = Cardinality(Comparing'),
         req'[c].phase = "fetch" => req'[c].secret \in Secrets
  PROVE  SlotsInv'
<1>1. TypeOK'
  BY DEF SlotsInv, ChecksOwned, TypeOK, Moves
<1>2. FetchNamed'
  BY DEF SlotsInv, FetchNamed, Moves
<1>3. world' \in Worlds /\ ChecksOwned'
  BY <1>1 DEF SlotsInv, ChecksOwned, Comparing
<1> QED BY <1>2, <1>3 DEF SlotsInv

LEMMA RenderFresh ==
  ASSUME SlotsInv, NEW c \in Clients, Render(c)
  PROVE  fresh' \in [Clients -> SUBSET Swapped]
<1> DEFINE u == req[c].route
           u1 == IF u = "index" THEN "fragment" ELSE u
           seen == IF u \in Swapped \cup {"index"}
                   THEN (IF u = "index" THEN {} ELSE fresh[c] \ {u})
                           \cup (IF req[c].clean THEN {u1} ELSE {})
                   ELSE fresh[c]
<1>1. fresh \in [Clients -> SUBSET Swapped]
  BY DEF SlotsInv, ChecksOwned, TypeOK
<1>2. fresh' = [fresh EXCEPT ![c] = seen]
  BY DEF Render
<1>3. seen \in SUBSET Swapped
  BY <1>1 DEF Swapped
<1> HIDE DEF seen
<1> QED BY <1>1, <1>2, <1>3

LEMMA StepSlots ==
  ASSUME SlotsInv, NEW c \in Clients, Step(c)
  PROVE  SlotsInv'
<1>0. /\ cache \in [entries : SUBSET FileEntries, left : 0 .. CacheTTL]
      /\ fresh \in [Clients -> SUBSET Swapped] /\ failures \in 0 .. world.maxFailures
      /\ world.maxFailures \in Nat
  BY ClusterFacts DEF SlotsInv, ChecksOwned, TypeOK, WorldType
<1>1. CASE LookupAuth(c)
  <2>1. UNCHANGED <<world, cluster, secrets, age, edits, cache, fresh, failures, sem>>
    BY <1>1 DEF LookupAuth, authVars, ghosts, NoPageYet, pageVars
  <2>2. /\ Moves(c) /\ (req'[c].phase = "compare" <=> req[c].phase = "compare")
        /\ req'[c].phase = "fetch" => req'[c].secret \in Secrets
    BY <1>1, LookupFacts
  <2> QED BY <1>0, <2>1, <2>2, SlotsKept, StepSlotsFrom
<1>2. CASE FetchSecret(c)
  <2>1. UNCHANGED <<world, cluster, secrets, age, edits, cache, fresh, failures, sem>>
    BY <1>2 DEF FetchSecret, authVars, ghosts, pageVars
  <2>2. /\ Moves(c) /\ (req'[c].phase = "compare" <=> req[c].phase = "compare")
        /\ req'[c].phase # "fetch"
    BY <1>2, FetchFacts
  <2> QED BY <1>0, <2>1, <2>2, SlotsKept, StepSlotsFrom
<1>3. CASE StoreAuth(c)
  <2>1. UNCHANGED <<world, cluster, secrets, age, edits, fresh, failures, sem>>
    BY <1>3 DEF StoreAuth, ghosts, NoPageYet, pageVars
  <2>2. /\ Moves(c) /\ (req'[c].phase = "compare" <=> req[c].phase = "compare")
        /\ req'[c].phase # "fetch" /\ cache' \in [entries : SUBSET FileEntries, left : 0 .. CacheTTL]
    BY <1>3, StoreFacts
  <2> QED BY <1>0, <2>1, <2>2, SlotsKept, StepSlotsFrom
<1>4. CASE CheckCredential(c)
  <2>1. UNCHANGED <<world, cluster, secrets, age, edits, cache, fresh, failures>>
    BY <1>4 DEF CheckCredential, ghosts, pageVars
  <2>2. Moves(c) /\ req'[c].phase # "fetch"
    BY <1>4, CheckFacts
  <2> QED BY <1>0, <1>4, <2>1, <2>2, SlotTaken, StepSlotsFrom
<1>5. CASE CompareCredential(c)
  <2>1. UNCHANGED <<world, cluster, secrets, age, edits, cache, fresh, failures>>
    BY <1>5 DEF CompareCredential, ghosts, pageVars
  <2>2. Moves(c) /\ req'[c].phase # "fetch"
    BY <1>5, CompareFacts
  <2> QED BY <1>0, <1>5, <2>1, <2>2, SlotGiven, StepSlotsFrom
<1>6. CASE ServeStatic(c)
  <2>1. UNCHANGED <<world, cluster, secrets, age, edits, cache, fresh, failures, sem>>
    BY <1>6 DEF ServeStatic, authVars, ghosts, pageVars
  <2>2. /\ Moves(c) /\ (req'[c].phase = "compare" <=> req[c].phase = "compare")
        /\ req'[c].phase # "fetch"
    BY <1>6, EndsFacts
  <2> QED BY <1>0, <2>1, <2>2, SlotsKept, StepSlotsFrom
<1>7. CASE ReadStyle(c) \/ CountDashboards(c) \/ ListBookmarks(c) \/ ListInfoWidgets(c)
  <2>1. UNCHANGED <<world, cluster, secrets, age, edits, cache, fresh, failures, sem>>
    BY <1>7 DEF ReadStyle, CountDashboards, ListBookmarks, ListInfoWidgets,
                authVars, ghosts, NoPageYet, pageVars
  <2>2. /\ Moves(c) /\ (req'[c].phase = "compare" <=> req[c].phase = "compare")
        /\ req'[c].phase # "fetch"
    BY <1>7, ReadStyleFacts, CountFacts, BookmarkFacts, InfoFacts
  <2> QED BY <1>0, <2>1, <2>2, SlotsKept, StepSlotsFrom
<1>8. CASE ReadFails(c)
  <2>1. /\ UNCHANGED <<world, cluster, secrets, age, edits, cache, fresh, sem>>
        /\ failures' \in 0 .. world.maxFailures
    BY <1>0, <1>8 DEF ReadFails, authVars, pageVars
  <2>2. /\ Moves(c) /\ (req'[c].phase = "compare" <=> req[c].phase = "compare")
        /\ req'[c].phase # "fetch"
    BY <1>8, EndsFacts
  <2> QED BY <1>0, <2>1, <2>2, SlotsKept, StepSlotsFrom
<1>9. CASE Render(c)
  <2>1. UNCHANGED <<world, cluster, secrets, age, edits, cache, failures, sem>>
    BY <1>9 DEF Render, authVars, ghosts
  <2>2. /\ Moves(c) /\ (req'[c].phase = "compare" <=> req[c].phase = "compare")
        /\ req'[c].phase # "fetch"
    BY <1>9, EndsFacts
  <2> QED BY <1>0, <1>9, <2>1, <2>2, RenderFresh, SlotsKept, StepSlotsFrom
<1> QED BY <1>1, <1>2, <1>3, <1>4, <1>5, <1>6, <1>7, <1>8, <1>9 DEF Step

\* The steps of the rest of the system keep the slots and the phases.
LEMMA OtherSlotsFrom ==
  ASSUME SlotsInv, UNCHANGED <<world, sem, failures>>, cluster' \in ClusterType,
         secrets' \in [Secrets -> Files \cup {NoFile}],
         cache' \in [entries : SUBSET FileEntries, left : 0 .. CacheTTL],
         req' \in [Clients -> RequestType], fresh' \in [Clients -> SUBSET Swapped],
         age' \in Ages, edits' \in 0 .. world.maxEdits,
         \A c \in Clients : req'[c].phase = req[c].phase /\ req'[c].secret = req[c].secret
  PROVE  SlotsInv'
<1>1. TypeOK'
  BY DEF SlotsInv, ChecksOwned, TypeOK, Ages
<1>2. FetchNamed'
  BY DEF SlotsInv, FetchNamed
<1>3. world' \in Worlds /\ ChecksOwned'
  BY <1>1 DEF SlotsInv, ChecksOwned
<1> QED BY <1>2, <1>3 DEF SlotsInv

\* What a user does to a Secret or to basicAuthSecretRef.
LEMMA EditAuthFacts ==
  ASSUME SlotsInv, EditAuth
  PROVE  /\ cluster' \in ClusterType /\ secrets' \in [Secrets -> Files \cup {NoFile}]
         /\ cluster'.present = cluster.present /\ cluster'.style = cluster.style
         /\ cluster'.count = cluster.count /\ cluster'.bookmarks = cluster.bookmarks
         /\ cluster'.infos = cluster.infos /\ cluster'.cards = cluster.cards
<1>1. cluster \in ClusterType /\ secrets \in [Secrets -> Files \cup {NoFile}]
  BY DEF SlotsInv, ChecksOwned, TypeOK
<1>2. CASE \E s \in Secrets, f \in Files \cup {NoFile} :
             secrets' = [secrets EXCEPT ![s] = f] /\ UNCHANGED cluster
  BY <1>1, <1>2
<1>3. CASE \E s \in Secrets \cup {Unset} :
             cluster' = [cluster EXCEPT !.authRef = s] /\ UNCHANGED secrets
  BY <1>1, <1>3 DEF ClusterType
<1> QED BY <1>2, <1>3 DEF EditAuth

LEMMA AgeType ==
  ASSUME SlotsInv
  PROVE  age \in Ages
BY DEF SlotsInv, ChecksOwned, TypeOK, Ages

LEMMA InitSlots ==
  ASSUME Init
  PROVE  SlotsInv
<1> USE DEF Init
<1>1. world \in Worlds /\ world \in WorldType
  BY ServerAssumption
<1>2. /\ cluster \in ClusterType /\ secrets \in [Secrets -> Files \cup {NoFile}]
      /\ 0 \in 0 .. world.maxEdits /\ 0 \in 0 .. world.maxFailures
  BY <1>1 DEF WorldType
<1>3. cache \in [entries : SUBSET FileEntries, left : 0 .. CacheTTL] /\ sem \in 0 .. MaxAuthChecks
  BY ServerAssumption DEF NoCache
<1>4. req \in [Clients -> RequestType] /\ fresh \in [Clients -> SUBSET Swapped]
  BY IdleType
<1>5. Lag \in 0 .. Lag /\ 0 \in {0, 1}
  BY ServerAssumption DEF Lag
<1>6. /\ \A r \in Secrets \cup {Unset} : Since(r = InForce(cluster), Lag, 0) \in 0 .. Lag
      /\ \A r \in Secrets, k \in Creds : Since(Has(secrets[r], k), Lag, 0) \in 0 .. Lag
  BY <1>5, SinceFacts DEF Has
<1>7. ASSUME NEW r \in Secrets, NEW k \in Creds PROVE Since(~Has(secrets[r], k), Lag, 0) \in 0 .. Lag
  <2> DEFINE lacks == ~Has(secrets[r], k)
  <2>1. lacks \in BOOLEAN
    BY DEF Has
  <2> HIDE DEF lacks, Init
  <2>2. Since(lacks, Lag, 0) \in 0 .. Lag
    BY <1>5, <2>1, SinceFacts
  <2> QED BY <2>2 DEF lacks
<1>8. age \in [ref : [Secrets \cup {Unset} -> 0 .. Lag],
              in : [Secrets -> [Creds -> 0 .. Lag]], out : [Secrets -> [Creds -> 0 .. Lag]]]
  BY <1>6, <1>7
<1>9. TypeOK
  BY <1>2, <1>3, <1>4, <1>8 DEF TypeOK
<1>10. \A c \in Clients : req[c].phase = "idle"
  BY DEF Idle
<1>11. {c \in Clients : req[c].phase = "compare"} = {} /\ FetchNamed
  BY <1>10 DEF FetchNamed
<1> QED BY <1>1, <1>9, <1>11, FS_EmptySet DEF SlotsInv, ChecksOwned

LEMMA NextSlots ==
  ASSUME SlotsInv, [Next]_vars
  PROVE  SlotsInv'
<1>0. /\ cache \in [entries : SUBSET FileEntries, left : 0 .. CacheTTL]
      /\ secrets \in [Secrets -> Files \cup {NoFile}] /\ cluster \in ClusterType
      /\ fresh \in [Clients -> SUBSET Swapped] /\ failures \in 0 .. world.maxFailures
      /\ edits \in 0 .. world.maxEdits /\ world.maxEdits \in Nat
      /\ world.clients \subseteq Clients
  BY ClusterFacts DEF SlotsInv, ChecksOwned, TypeOK, WorldType
<1>1. CASE \E c \in world.clients, u \in Routes, k \in AllCreds : Arrive(c, u, k)
  <2>1. PICK c \in world.clients, u \in Routes, k \in AllCreds : Arrive(c, u, k)
    BY <1>1
  <2>2. c \in Clients
    BY <1>0
  <2>3. UNCHANGED <<world, cluster, secrets, age, edits, cache, fresh, failures, sem>>
    BY <2>1 DEF Arrive, authVars, ghosts, pageVars
  <2>4. /\ Moves(c) /\ (req'[c].phase = "compare" <=> req[c].phase = "compare")
        /\ req'[c].phase # "fetch"
    BY <2>1, <2>2, ArriveFacts
  <2> QED BY <1>0, <2>2, <2>3, <2>4, SlotsKept, StepSlotsFrom
<1>2. CASE \E c \in Clients : Step(c)
  BY <1>2, StepSlots
<1>3. CASE \E field \in DOMAIN cluster : Edit(field)
  <2>1. PICK field \in DOMAIN cluster : Edit(field)
    BY <1>3
  <2>2. UNCHANGED <<world, sem, failures, secrets, cache, edits>> /\ fresh' = [c \in Clients |-> {}]
    BY <2>1 DEF Edit, authVars
  <2>3. cluster' \in ClusterType
    BY <2>1, EditType DEF SlotsInv, ChecksOwned
  <2>4. age' \in Ages
    BY <2>1, <2>3, AgeType, AgedFacts DEF Edit
  <2>5. fresh' \in [Clients -> SUBSET Swapped]
    BY <2>2
  <2> QED BY <1>0, <2>1, <2>2, <2>3, <2>4, <2>5, EditFacts, OtherSlotsFrom
<1>4. CASE EditAuth
  <2>1. /\ UNCHANGED <<world, sem, failures, cache, fresh, req>> /\ edits' = edits + 1
        /\ edits < world.maxEdits /\ age' = Aged(cluster', secrets', 0)
    BY <1>4 DEF EditAuth, authVars, pageVars
  <2>2. cluster' \in ClusterType /\ secrets' \in [Secrets -> Files \cup {NoFile}]
    BY <1>4, EditAuthFacts
  <2>3. age' \in Ages
    BY <2>1, <2>2, AgeType, AgedFacts
  <2>4. edits' \in 0 .. world.maxEdits
    BY <1>0, <2>1
  <2>5. req' \in [Clients -> RequestType]
    BY <2>1 DEF SlotsInv, ChecksOwned, TypeOK
  <2> QED BY <1>0, <2>1, <2>2, <2>3, <2>4, <2>5, OtherSlotsFrom
<1>5. CASE Tick
  <2>1. UNCHANGED <<world, sem, failures, fresh, cluster, secrets, edits>>
        /\ age' = Aged(cluster, secrets, 1)
    BY <1>5 DEF Tick, pageVars
  <2>2. age' \in Ages
    BY <1>0, <2>1, AgeType, AgedFacts
  <2> QED BY <1>0, <1>5, <2>1, <2>2, TickFacts, OtherSlotsFrom
<1>6. CASE UNCHANGED vars
  <2>1. UNCHANGED <<world, sem, failures, cache, fresh, req, cluster, secrets, edits, age>>
    BY <1>6 DEF vars, authVars, pageVars, ghosts
  <2>2. req' \in [Clients -> RequestType] /\ age' \in Ages
    BY <2>1, AgeType DEF SlotsInv, ChecksOwned, TypeOK
  <2> QED BY <1>0, <2>1, <2>2, OtherSlotsFrom
<1> QED BY <1>1, <1>2, <1>3, <1>4, <1>5, <1>6 DEF Next

LEMMA SlotsAlways == Spec => []SlotsInv
<1>1. Init => SlotsInv
  BY InitSlots
<1>2. SlotsInv /\ [Next]_vars => SlotsInv'
  BY NextSlots
<1> QED BY <1>1, <1>2, PTL DEF Spec

\* However many logins are refused, time out or are let in, and whatever the
\* users do to the Secrets meanwhile, every slot of authCheckSem that is taken
\* is held by a request that is comparing a credential (basicAuthMiddleware).
THEOREM ChecksAlwaysOwned == Spec => []ChecksOwned
<1>1. SlotsInv => ChecksOwned
  BY DEF SlotsInv
<1> QED BY <1>1, SlotsAlways, PTL
-----------------------------------------------------------------------------
(***************************************************************************)
(* A verdict is recent.  The ages that hold now are zero; every set of     *)
(* entries on its way from a Secret to a verdict was in a Secret in force  *)
(* not long ago, and how long is bounded by what is left of the cache's    *)
(* entry and by the time its request has waited.                           *)
(***************************************************************************)
AgeNow ==
  /\ age.ref[InForce(cluster)] = 0
  /\ \A s \in Secrets, k \in Creds : /\ Has(secrets[s], k) => age.in[s][k] = 0
                                     /\ ~Has(secrets[s], k) => age.out[s][k] = 0

\* Within the last n ticks Secret s was in force, held each of the entries and
\* lacked each other credential.
HeldBy(ages, s, entries, n) ==
  /\ ages.ref[s] <= n
  /\ \A k \in Creds : /\ k \in entries => ages.in[s][k] <= n
                      /\ k \notin entries => ages.out[s][k] <= n
Recent(ages, entries, n) == \E s \in Secrets : HeldBy(ages, s, entries, n)

CacheRecent == cache.left > 0 => Recent(age, cache.entries, MaxDelay + CacheTTL - cache.left)
FetchRecent(c) == req[c].phase = "fetch" => age.ref[req[c].secret] <= req[c].waited
StoreRecent(c) == req[c].phase = "cache" => Recent(age, req[c].entries, req[c].waited)
CheckRecent(c) ==
  req[c].phase \in {"check", "compare"} =>
    Recent(age, req[c].entries, CacheTTL - 1 + MaxDelay + req[c].waited)
Named(c) == req[c].phase = "compare" => req[c].cred \in Creds

AuthInv ==
  /\ SlotsInv /\ AgeNow /\ CacheRecent
  /\ \A c \in Clients : FetchRecent(c) /\ StoreRecent(c) /\ CheckRecent(c) /\ Named(c)

LEMMA RecentGrows ==
  ASSUME NEW a \in Ages, NEW b \in Ages, NEW ticks \in Nat, Grown(a, b, ticks),
         NEW entries, NEW n \in Nat, NEW m \in Nat, n + ticks <= m, Recent(a, entries, n)
  PROVE  Recent(b, entries, m)
<1>1. PICK s \in Secrets : HeldBy(a, s, entries, n)
  BY DEF Recent
<1>2. /\ a.ref[s] \in Nat /\ b.ref[s] \in Nat
      /\ \A k \in Creds : /\ a.in[s][k] \in Nat /\ a.out[s][k] \in Nat
                          /\ b.in[s][k] \in Nat /\ b.out[s][k] \in Nat
  BY DEF Ages
<1>3. b.ref[s] <= m
  BY <1>1, <1>2 DEF HeldBy, Grown
<1>4. ASSUME NEW k \in Creds
      PROVE  /\ k \in entries => b.in[s][k] <= m
             /\ k \notin entries => b.out[s][k] <= m
  BY <1>1, <1>2 DEF HeldBy, Grown
<1> QED BY <1>3, <1>4 DEF HeldBy, Recent

LEMMA NotGrown ==
  ASSUME NEW a \in Ages
  PROVE  Grown(a, a, 0)
<1>1. /\ \A r \in Secrets \cup {Unset} : a.ref[r] \in Nat
      /\ \A r \in Secrets, k \in Creds : a.in[r][k] \in Nat /\ a.out[r][k] \in Nat
  BY DEF Ages
<1> QED BY <1>1 DEF Grown

\* The bounds are numbers.
LEMMA BoundFacts ==
  ASSUME SlotsInv, NEW c \in Clients
  PROVE  /\ req[c].waited \in Nat /\ req[c].waited <= MaxDelay
         /\ MaxDelay + CacheTTL - cache.left \in Nat
         /\ CacheTTL - 1 + MaxDelay + req[c].waited \in Nat
         /\ MaxDelay \in Nat /\ CacheTTL \in Nat \ {0} /\ cache.left \in Nat
BY RequestFacts, ServerAssumption

LEMMA AgeNowFacts ==
  ASSUME SlotsInv, SlotsInv', NEW ticks \in {0, 1}, age' = Aged(cluster', secrets', ticks)
  PROVE  AgeNow' /\ Grown(age, age', ticks)
<1>1. age \in Ages /\ cluster' \in ClusterType
  BY AgeType DEF SlotsInv, ChecksOwned, TypeOK
<1>2. Grown(age, age', ticks)
  BY <1>1, AgedFacts DEF Grown
<1>3. /\ InForce(cluster') \in Secrets \cup {Unset}
  BY <1>1 DEF InForce, Protected, ClusterType
<1>4. age'.ref[InForce(cluster')] = 0
  BY <1>1, <1>3, AgedFacts
<1>5. \A s \in Secrets, k \in Creds : /\ Has(secrets'[s], k) => age'.in[s][k] = 0
                                      /\ ~Has(secrets'[s], k) => age'.out[s][k] = 0
  BY <1>1, AgedFacts
<1> QED BY <1>2, <1>4, <1>5 DEF AgeNow, InForce, Protected, Has

\* What is left to show of a request's step, and of the others'.
LEMMA AuthStepFrom ==
  ASSUME AuthInv, SlotsInv', NEW c \in Clients, Moves(c), UNCHANGED <<age, cluster, secrets>>,
         CacheRecent', FetchRecent(c)', StoreRecent(c)', CheckRecent(c)', Named(c)'
  PROVE  AuthInv'
<1>1. AgeNow'
  BY DEF AuthInv, AgeNow
<1>2. ASSUME NEW d \in Clients PROVE FetchRecent(d)' /\ StoreRecent(d)' /\ CheckRecent(d)' /\ Named(d)'
  <2>1. CASE d = c
    BY <2>1
  <2>2. CASE d # c
    <3>1. req'[d] = req[d]
      BY <2>2 DEF Moves
    <3>2. FetchRecent(d) /\ StoreRecent(d) /\ CheckRecent(d) /\ Named(d)
      BY DEF AuthInv
    <3> QED BY <3>1, <3>2 DEF FetchRecent, StoreRecent, CheckRecent, Named
  <2> QED BY <2>1, <2>2
<1> QED BY <1>1, <1>2 DEF AuthInv

LEMMA AuthOthersFrom ==
  ASSUME AuthInv, SlotsInv', NEW ticks \in {0, 1}, age' = Aged(cluster', secrets', ticks),
         cache'.entries = cache.entries, cache'.left > 0 => cache.left = cache'.left + ticks,
         \A c \in Clients :
           /\ req'[c].phase = req[c].phase /\ req'[c].secret = req[c].secret
           /\ req'[c].entries = req[c].entries /\ req'[c].cred = req[c].cred
           /\ req[c].phase \in Guarded => req'[c].waited = req[c].waited + ticks
  PROVE  AuthInv'
<1>1. SlotsInv
  BY DEF AuthInv
<1>2. AgeNow' /\ Grown(age, age', ticks)
  BY <1>1, AgeNowFacts
<1>3. age \in Ages /\ age' \in Ages
  BY <1>1, AgeType DEF SlotsInv, ChecksOwned, TypeOK, Ages
<1>4. /\ cache.left \in 0 .. CacheTTL /\ cache'.left \in 0 .. CacheTTL
      /\ MaxDelay \in Nat /\ CacheTTL \in Nat \ {0}
  BY <1>1, ServerAssumption DEF SlotsInv, ChecksOwned, TypeOK
<1>5. CacheRecent'
  <2>1. SUFFICES ASSUME cache'.left > 0
                 PROVE  Recent(age', cache'.entries, MaxDelay + CacheTTL - cache'.left)
    BY DEF CacheRecent
  <2>2. cache.left > 0 /\ cache.left = cache'.left + ticks
    BY <1>4, <2>1
  <2>3. Recent(age, cache.entries, MaxDelay + CacheTTL - cache.left)
    BY <2>2 DEF AuthInv, CacheRecent
  <2>4. /\ MaxDelay + CacheTTL - cache.left \in Nat /\ MaxDelay + CacheTTL - cache'.left \in Nat
        /\ (MaxDelay + CacheTTL - cache.left) + ticks <= MaxDelay + CacheTTL - cache'.left
    BY <1>4, <2>2
  <2>5. Recent(age', cache.entries, MaxDelay + CacheTTL - cache'.left)
    BY <1>2, <1>3, <2>3, <2>4, RecentGrows
  <2> QED BY <2>5
<1>6. ASSUME NEW c \in Clients PROVE FetchRecent(c)' /\ StoreRecent(c)' /\ CheckRecent(c)' /\ Named(c)'
  <2>1. FetchRecent(c) /\ StoreRecent(c) /\ CheckRecent(c) /\ Named(c)
    BY DEF AuthInv
  <2>2. /\ req[c].waited \in Nat /\ CacheTTL - 1 + MaxDelay + req[c].waited \in Nat
    BY <1>1, BoundFacts
  <2>3. /\ req'[c].phase = req[c].phase /\ req'[c].secret = req[c].secret
        /\ req'[c].entries = req[c].entries /\ req'[c].cred = req[c].cred
        /\ req[c].phase \in Guarded => req'[c].waited = req[c].waited + ticks
    OBVIOUS
  <2>4. CASE req[c].phase = "fetch"
    <3>1. req'[c].waited = req[c].waited + ticks /\ req[c].secret \in Secrets
      BY <1>1, <2>3, <2>4 DEF Guarded, SlotsInv, FetchNamed
    <3>2. /\ age.ref[req[c].secret] <= req[c].waited
          /\ age'.ref[req[c].secret] <= age.ref[req[c].secret] + ticks
          /\ age.ref[req[c].secret] \in Nat /\ age'.ref[req[c].secret] \in Nat
      BY <1>2, <1>3, <2>1, <2>4, <3>1 DEF FetchRecent, Grown, Ages
    <3>3. age'.ref[req'[c].secret] <= req'[c].waited
      BY <2>2, <2>3, <3>1, <3>2
    <3> QED BY <2>3, <2>4, <3>3 DEF FetchRecent, StoreRecent, CheckRecent, Named
  <2>5. CASE req[c].phase = "cache"
    <3>1. req'[c].waited = req[c].waited + ticks /\ Recent(age, req[c].entries, req[c].waited)
      BY <2>1, <2>3, <2>5 DEF Guarded, StoreRecent
    <3>2. Recent(age', req[c].entries, req[c].waited + ticks)
      BY <1>2, <1>3, <2>2, <3>1, RecentGrows
    <3>3. Recent(age', req'[c].entries, req'[c].waited)
      BY <2>3, <3>1, <3>2
    <3> QED BY <2>3, <2>5, <3>3 DEF FetchRecent, StoreRecent, CheckRecent, Named
  <2>6. CASE req[c].phase \in {"check", "compare"}
    <3> DEFINE n == CacheTTL - 1 + MaxDelay + req[c].waited
               m == CacheTTL - 1 + MaxDelay + req'[c].waited
    <3>1. req'[c].waited = req[c].waited + ticks /\ Recent(age, req[c].entries, n)
      BY <2>1, <2>3, <2>6 DEF Guarded, CheckRecent
    <3>2. n \in Nat /\ m \in Nat /\ n + ticks <= m
      BY <1>4, <2>2, <3>1
    <3> HIDE DEF n
    <3>3. Recent(age', req[c].entries, m)
      <4> HIDE DEF m
      <4> QED BY <1>2, <1>3, <3>1, <3>2, RecentGrows
    <3>4. Recent(age', req'[c].entries, CacheTTL - 1 + MaxDelay + req'[c].waited)
      BY <2>3, <3>3
    <3> QED BY <2>1, <2>3, <2>6, <3>4 DEF FetchRecent, StoreRecent, CheckRecent, Named
  <2>7. CASE req[c].phase \notin {"fetch", "cache", "check", "compare"}
    BY <2>3, <2>7 DEF FetchRecent, StoreRecent, CheckRecent, Named
  <2> QED BY <2>4, <2>5, <2>6, <2>7
<1> QED BY <1>2, <1>5, <1>6 DEF AuthInv

LEMMA LookupAuthInv ==
  ASSUME AuthInv, SlotsInv', NEW c \in Clients, LookupAuth(c)
  PROVE  AuthInv'
<1>1. SlotsInv
  BY DEF AuthInv
<1>2. UNCHANGED <<age, cluster, secrets, cache>>
  BY DEF LookupAuth, authVars, ghosts
<1>3. Moves(c) /\ SameLogin(c)
  BY <1>1, LookupFacts
<1>4. CacheRecent'
  BY <1>2 DEF AuthInv, CacheRecent
<1>5. CASE req'[c].phase \in {"snapshot", "serve"}
  BY <1>2, <1>3, <1>4, <1>5, AuthStepFrom DEF FetchRecent, StoreRecent, CheckRecent, Named
<1>6. CASE CacheHit(cache) /\ req'[c].entries = cache.entries /\ req'[c].phase = "check"
  <2> DEFINE n == MaxDelay + CacheTTL - cache.left
             m == CacheTTL - 1 + MaxDelay + req[c].waited
  <2>1. cache.left > 0 /\ Recent(age, cache.entries, n)
    BY <1>6 DEF AuthInv, CacheRecent, CacheHit
  <2>2. n \in Nat /\ m \in Nat /\ n + 0 <= m
    BY <1>1, <2>1, BoundFacts
  <2> HIDE DEF n, m
  <2>3. Recent(age, cache.entries, m)
    BY <1>1, <2>1, <2>2, AgeType, NotGrown, RecentGrows
  <2>4. Recent(age', req'[c].entries, CacheTTL - 1 + MaxDelay + req'[c].waited)
    BY <1>2, <1>3, <1>6, <2>3 DEF SameLogin, m
  <2>5. FetchRecent(c)' /\ StoreRecent(c)' /\ CheckRecent(c)' /\ Named(c)'
    BY <1>6, <2>4 DEF FetchRecent, StoreRecent, CheckRecent, Named
  <2> QED BY <1>2, <1>3, <1>4, <2>5, AuthStepFrom
<1>7. CASE Protected(cluster) /\ req'[c].phase = "fetch" /\ req'[c].secret = cluster.authRef
  <2>1. age.ref[cluster.authRef] = 0
    BY <1>7 DEF AuthInv, AgeNow, InForce
  <2>2. age'.ref[req'[c].secret] <= req'[c].waited
    BY <1>1, <1>2, <1>3, <1>7, <2>1, BoundFacts DEF SameLogin
  <2>3. FetchRecent(c)' /\ StoreRecent(c)' /\ CheckRecent(c)' /\ Named(c)'
    BY <1>7, <2>2 DEF FetchRecent, StoreRecent, CheckRecent, Named
  <2> QED BY <1>2, <1>3, <1>4, <2>3, AuthStepFrom
<1> QED BY <1>1, <1>5, <1>6, <1>7, LookupFacts

LEMMA FetchAuthInv ==
  ASSUME AuthInv, SlotsInv', NEW c \in Clients, FetchSecret(c)
  PROVE  AuthInv'
<1>1. SlotsInv
  BY DEF AuthInv
<1>2. UNCHANGED <<age, cluster, secrets, cache>>
  BY DEF FetchSecret, authVars, ghosts
<1>3. Moves(c) /\ req[c].phase = "fetch" /\ req[c].secret \in Secrets
  BY <1>1, FetchFacts
<1>4. CacheRecent'
  BY <1>2 DEF AuthInv, CacheRecent
<1>5. CASE req'[c].phase = "idle"
  BY <1>2, <1>3, <1>4, <1>5, AuthStepFrom DEF FetchRecent, StoreRecent, CheckRecent, Named
<1>6. CASE /\ req'[c].phase = "cache" /\ SameLogin(c)
           /\ \A k \in Creds : k \in req'[c].entries <=> Has(secrets[req[c].secret], k)
  <2>1. age.ref[req[c].secret] <= req[c].waited /\ req[c].waited \in Nat
    BY <1>1, <1>3, BoundFacts DEF AuthInv, FetchRecent
  <2>2. \A k \in Creds : /\ Has(secrets[req[c].secret], k) => age.in[req[c].secret][k] = 0
                         /\ ~Has(secrets[req[c].secret], k) => age.out[req[c].secret][k] = 0
    BY <1>3 DEF AuthInv, AgeNow
  <2>3. HeldBy(age, req[c].secret, req'[c].entries, req[c].waited)
    BY <1>6, <2>1, <2>2 DEF HeldBy
  <2>4. Recent(age', req'[c].entries, req'[c].waited)
    BY <1>2, <1>3, <1>6, <2>3 DEF Recent, SameLogin
  <2>5. FetchRecent(c)' /\ StoreRecent(c)' /\ CheckRecent(c)' /\ Named(c)'
    BY <1>6, <2>4 DEF FetchRecent, StoreRecent, CheckRecent, Named
  <2> QED BY <1>2, <1>3, <1>4, <2>5, AuthStepFrom
<1> QED BY <1>1, <1>5, <1>6, FetchFacts

LEMMA StoreAuthInv ==
  ASSUME AuthInv, SlotsInv', NEW c \in Clients, StoreAuth(c)
  PROVE  AuthInv'
<1>1. SlotsInv
  BY DEF AuthInv
<1>2. UNCHANGED <<age, cluster, secrets>>
  BY DEF StoreAuth, ghosts
<1>3. /\ Moves(c) /\ SameLogin(c) /\ req[c].phase = "cache" /\ req'[c].entries = req[c].entries
      /\ req'[c].phase \in {"snapshot", "check"}
      /\ cache' = [entries |-> req[c].entries, left |-> CacheTTL]
  BY <1>1, StoreFacts
<1>4. /\ Recent(age, req[c].entries, req[c].waited) /\ req[c].waited \in Nat
      /\ req[c].waited <= MaxDelay /\ MaxDelay \in Nat /\ CacheTTL \in Nat \ {0}
  BY <1>1, <1>3, BoundFacts DEF AuthInv, StoreRecent
<1>5. Recent(age, req[c].entries, MaxDelay)
  BY <1>1, <1>4, AgeType, NotGrown, RecentGrows
<1>6. CacheRecent'
  <2>1. MaxDelay + CacheTTL - cache'.left = MaxDelay /\ cache'.entries = req[c].entries
    BY <1>3, <1>4
  <2> QED BY <1>2, <1>5, <2>1 DEF CacheRecent
<1>7. Recent(age', req'[c].entries, CacheTTL - 1 + MaxDelay + req'[c].waited)
  <2> DEFINE m == CacheTTL - 1 + MaxDelay + req[c].waited
  <2>1. m \in Nat /\ req[c].waited + 0 <= m
    BY <1>4
  <2> HIDE DEF m
  <2>2. Recent(age, req[c].entries, m)
    BY <1>1, <1>4, <2>1, AgeType, NotGrown, RecentGrows
  <2> QED BY <1>2, <1>3, <2>2 DEF SameLogin, m
<1>8. FetchRecent(c)' /\ StoreRecent(c)' /\ CheckRecent(c)' /\ Named(c)'
  BY <1>3, <1>7 DEF FetchRecent, StoreRecent, CheckRecent, Named
<1> QED BY <1>2, <1>3, <1>6, <1>8, AuthStepFrom

LEMMA CheckAuthInv ==
  ASSUME AuthInv, SlotsInv', NEW c \in Clients, CheckCredential(c)
  PROVE  AuthInv'
<1>1. SlotsInv
  BY DEF AuthInv
<1>2. UNCHANGED <<age, cluster, secrets, cache>>
  BY DEF CheckCredential, ghosts
<1>3. Moves(c) /\ req[c].phase = "check"
  BY <1>1, CheckFacts
<1>4. CacheRecent'
  BY <1>2 DEF AuthInv, CacheRecent
<1>5. CASE req'[c].phase = "idle"
  BY <1>2, <1>3, <1>4, <1>5, AuthStepFrom DEF FetchRecent, StoreRecent, CheckRecent, Named
<1>6. CASE /\ req'[c].phase = "compare" /\ req[c].cred # NoCred
           /\ req'[c].entries = req[c].entries /\ SameLogin(c)
  <2>1. Recent(age', req'[c].entries, CacheTTL - 1 + MaxDelay + req'[c].waited)
    BY <1>2, <1>3, <1>6 DEF AuthInv, CheckRecent, SameLogin
  <2>2. req'[c].cred \in Creds
    BY <1>1, <1>6, RequestFacts DEF SameLogin, AllCreds
  <2>3. FetchRecent(c)' /\ StoreRecent(c)' /\ CheckRecent(c)' /\ Named(c)'
    BY <1>6, <2>1, <2>2 DEF FetchRecent, StoreRecent, CheckRecent, Named
  <2> QED BY <1>2, <1>3, <1>4, <2>3, AuthStepFrom
<1> QED BY <1>1, <1>5, <1>6, CheckFacts

\* The other steps of a request leave it with no entries in hand.
LEMMA OutAuthInv ==
  ASSUME AuthInv, SlotsInv', NEW c \in Clients, Moves(c), UNCHANGED <<age, cluster, secrets, cache>>,
         req'[c].phase \notin {"fetch", "cache", "check", "compare"}
  PROVE  AuthInv'
<1>1. CacheRecent'
  BY DEF AuthInv, CacheRecent
<1>2. FetchRecent(c)' /\ StoreRecent(c)' /\ CheckRecent(c)' /\ Named(c)'
  BY DEF FetchRecent, StoreRecent, CheckRecent, Named
<1> QED BY <1>1, <1>2, AuthStepFrom

LEMMA StepAuthInv ==
  ASSUME AuthInv, SlotsInv', NEW c \in Clients, Step(c)
  PROVE  AuthInv'
<1>0. SlotsInv
  BY DEF AuthInv
<1>1. CASE CompareCredential(c) \/ ServeStatic(c) \/ ReadStyle(c) \/ CountDashboards(c)
             \/ ListBookmarks(c) \/ ListInfoWidgets(c) \/ ReadFails(c) \/ Render(c)
  <2>1. UNCHANGED <<age, cluster, secrets, cache>>
    BY <1>1 DEF CompareCredential, ServeStatic, ReadStyle, CountDashboards, ListBookmarks,
                ListInfoWidgets, ReadFails, Render, authVars, ghosts
  <2>2. Moves(c) /\ req'[c].phase \notin {"fetch", "cache", "check", "compare"}
    BY <1>0, <1>1, CompareFacts, EndsFacts, ReadStyleFacts, CountFacts, BookmarkFacts, InfoFacts
  <2> QED BY <2>1, <2>2, OutAuthInv
<1> QED BY <1>1, LookupAuthInv, FetchAuthInv, StoreAuthInv, CheckAuthInv DEF Step

LEMMA InitAuthInv ==
  ASSUME Init
  PROVE  AuthInv
<1>1. SlotsInv
  BY InitSlots
<1>2. Lag \in 0 .. Lag /\ 0 \in {0, 1}
  BY ServerAssumption DEF Lag
<1>3. InForce(cluster) \in Secrets \cup {Unset}
  BY <1>1, ClusterFacts
<1>4. age.ref[InForce(cluster)] = Since(InForce(cluster) = InForce(cluster), Lag, 0)
  BY <1>3 DEF Init
<1>5. age.ref[InForce(cluster)] = 0
  BY <1>2, <1>4, SinceFacts
<1>6. ASSUME NEW s \in Secrets, NEW k \in Creds
      PROVE  /\ Has(secrets[s], k) => age.in[s][k] = 0
             /\ ~Has(secrets[s], k) => age.out[s][k] = 0
  <2> DEFINE has == Has(secrets[s], k)
             lacks == ~Has(secrets[s], k)
  <2>1. has \in BOOLEAN /\ lacks \in BOOLEAN
    BY DEF Has
  <2>2. age.in[s][k] = Since(has, Lag, 0) /\ age.out[s][k] = Since(lacks, Lag, 0)
    BY DEF Init
  <2>3. lacks <=> ~has
    OBVIOUS
  <2> HIDE DEF has, lacks
  <2>4. (has => age.in[s][k] = 0) /\ (lacks => age.out[s][k] = 0)
    BY <1>2, <2>1, <2>2, SinceFacts
  <2> QED BY <2>4 DEF has, lacks
<1>7. AgeNow
  BY <1>5, <1>6 DEF AgeNow
<1>8. cache.left = 0 /\ \A c \in Clients : req[c].phase = "idle"
  BY DEF Init, NoCache, Idle
<1>9. CacheRecent
  BY <1>8 DEF CacheRecent
<1>10. \A c \in Clients : FetchRecent(c) /\ StoreRecent(c) /\ CheckRecent(c) /\ Named(c)
  BY <1>8 DEF FetchRecent, StoreRecent, CheckRecent, Named
<1> QED BY <1>1, <1>7, <1>9, <1>10 DEF AuthInv

LEMMA NextAuthInv ==
  ASSUME AuthInv, [Next]_vars
  PROVE  AuthInv'
<1>0. SlotsInv /\ SlotsInv'
  BY NextSlots DEF AuthInv
<1>1. CASE \E c \in world.clients, u \in Routes, k \in AllCreds : Arrive(c, u, k)
  <2>1. PICK c \in world.clients, u \in Routes, k \in AllCreds : Arrive(c, u, k)
    BY <1>1
  <2>2. c \in Clients
    BY <1>0, ClusterFacts DEF WorldType
  <2>3. UNCHANGED <<age, cluster, secrets, cache>>
    BY <2>1 DEF Arrive, authVars, ghosts
  <2>4. Moves(c) /\ req'[c].phase \notin {"fetch", "cache", "check", "compare"}
    BY <1>0, <2>1, <2>2, ArriveFacts
  <2> QED BY <1>0, <2>2, <2>3, <2>4, OutAuthInv
<1>2. CASE \E c \in Clients : Step(c)
  BY <1>0, <1>2, StepAuthInv
<1>3. cache.left \in 0 .. CacheTTL
  BY <1>0 DEF SlotsInv, ChecksOwned, TypeOK
<1>4. \A c \in Clients : req[c].waited \in Nat
  BY <1>0, BoundFacts
<1>5. CASE \E field \in DOMAIN cluster : Edit(field)
  <2>1. PICK field \in DOMAIN cluster : Edit(field)
    BY <1>5
  <2>2. UNCHANGED <<secrets, cache>> /\ age' = Aged(cluster', secrets, 0)
    BY <2>1 DEF Edit, authVars
  <2>3. age' = Aged(cluster', secrets', 0) /\ (cache'.left > 0 => cache.left = cache'.left + 0)
    BY <1>3, <2>2
  <2>4. ASSUME NEW c \in Clients
        PROVE  /\ req'[c].phase = req[c].phase /\ req'[c].secret = req[c].secret
               /\ req'[c].entries = req[c].entries /\ req'[c].cred = req[c].cred
               /\ req'[c].waited = req[c].waited + 0
    BY <1>0, <1>4, <2>1, EditFacts DEF SameLogin
  <2> QED BY <1>0, <2>2, <2>3, <2>4, AuthOthersFrom
<1>6. CASE EditAuth
  <2>1. UNCHANGED <<req, cache>> /\ age' = Aged(cluster', secrets', 0)
    BY <1>6 DEF EditAuth, authVars
  <2>2. cache'.left > 0 => cache.left = cache'.left + 0
    BY <1>3, <2>1
  <2>3. \A c \in Clients : req'[c].waited = req[c].waited + 0
    BY <1>4, <2>1
  <2> QED BY <1>0, <2>1, <2>2, <2>3, AuthOthersFrom
<1>7. CASE Tick
  <2>1. UNCHANGED <<cluster, secrets>> /\ age' = Aged(cluster, secrets, 1)
    BY <1>7 DEF Tick
  <2>2. age' = Aged(cluster', secrets', 1)
    BY <2>1
  <2> QED BY <1>0, <1>7, <2>2, TickFacts, AuthOthersFrom
<1>8. CASE UNCHANGED vars
  BY <1>0, <1>8 DEF vars, authVars, pageVars, ghosts, AuthInv, AgeNow, CacheRecent, FetchRecent,
                    StoreRecent, CheckRecent, Named
<1> QED BY <1>1, <1>2, <1>5, <1>6, <1>7, <1>8 DEF Next

LEMMA AuthAlways == Spec => []AuthInv
<1>1. Init => AuthInv
  BY InitAuthInv
<1>2. AuthInv /\ [Next]_vars => AuthInv'
  BY NextAuthInv
<1> QED BY <1>1, <1>2, PTL DEF Spec

\* What VerdictRecent says of one request's step.
Recently(s) == age.ref[s] < Lag
LetIn(c) == req[c].phase \in Guarded /\ req'[c].phase = "serve" =>
  \/ Recently(Unset)
  \/ /\ req[c].cred # NoCred
     /\ \E s \in Secrets : Recently(s) /\ age.in[s][req[c].cred] < Lag
Refused(c) == req[c].phase = "compare" /\ req'[c].phase = "idle" =>
  \E s \in Secrets : Recently(s) /\ age.out[s][req[c].cred] < Lag

LEMMA CompareVerdict ==
  ASSUME AuthInv, NEW c \in Clients, CompareCredential(c)
  PROVE  LetIn(c) /\ Refused(c)
<1>1. SlotsInv
  BY DEF AuthInv
<1>2. req[c].phase = "compare" /\ req[c].cred \in Creds /\ req[c].cred # NoCred
  BY <1>1, CompareFacts, ServerAssumption DEF AuthInv, Named
<1>3. PICK s \in Secrets : HeldBy(age, s, req[c].entries, CacheTTL - 1 + MaxDelay + req[c].waited)
  BY <1>2 DEF AuthInv, CheckRecent, Recent
<1>4. /\ age.ref[s] \in Nat /\ age.in[s][req[c].cred] \in Nat /\ age.out[s][req[c].cred] \in Nat
  BY <1>1, <1>2, AgeType DEF Ages
<1>5. CacheTTL - 1 + MaxDelay + req[c].waited < Lag /\ Lag \in Nat
  BY <1>1, BoundFacts DEF Lag
<1>6. Recently(s)
  BY <1>1, <1>3, <1>4, <1>5, BoundFacts DEF HeldBy, Recently
<1>7. CASE req'[c].phase = "idle" /\ req[c].cred \notin req[c].entries
  <2>1. age.out[s][req[c].cred] < Lag
    BY <1>1, <1>2, <1>3, <1>4, <1>5, <1>7, BoundFacts DEF HeldBy
  <2> QED BY <1>6, <1>7, <2>1 DEF LetIn, Refused
<1>8. CASE req'[c].phase = "serve" /\ req[c].cred \in req[c].entries
  <2>1. age.in[s][req[c].cred] < Lag
    BY <1>1, <1>2, <1>3, <1>4, <1>5, <1>8, BoundFacts DEF HeldBy
  <2> QED BY <1>2, <1>6, <1>8, <2>1 DEF LetIn, Refused
<1> QED BY <1>1, <1>7, <1>8, CompareFacts

LEMMA LookupVerdict ==
  ASSUME AuthInv, NEW c \in Clients, LookupAuth(c)
  PROVE  LetIn(c) /\ Refused(c)
<1>1. SlotsInv
  BY DEF AuthInv
<1>2. CASE ~Protected(cluster)
  <2>1. age.ref[Unset] = 0
    BY <1>2 DEF AuthInv, AgeNow, InForce
  <2>2. 0 < Lag
    BY ServerAssumption DEF Lag
  <2>3. req[c].phase = "auth"
    BY DEF LookupAuth
  <2> QED BY <2>1, <2>2, <2>3 DEF LetIn, Refused, Recently
<1>3. CASE Protected(cluster)
  BY <1>1, <1>3, LookupFacts DEF LetIn, Refused
<1> QED BY <1>2, <1>3

LEMMA StepVerdict ==
  ASSUME AuthInv, NEW c \in Clients, NEW d \in Clients, Step(d)
  PROVE  LetIn(c) /\ Refused(c)
<1>1. SlotsInv
  BY DEF AuthInv
<1>2. CASE c # d
  <2>1. Moves(d)
    BY <1>1, LookupFacts, FetchFacts, StoreFacts, CheckFacts, CompareFacts, EndsFacts,
       ReadStyleFacts, CountFacts, BookmarkFacts, InfoFacts DEF Step
  <2>2. req'[c] = req[c]
    BY <1>2, <2>1 DEF Moves
  <2> QED BY <2>2 DEF LetIn, Refused, Guarded
<1>3. CASE c = d /\ (FetchSecret(c) \/ StoreAuth(c) \/ CheckCredential(c))
  <2>1. req[c].phase # "compare" /\ req'[c].phase # "serve"
    BY <1>1, <1>3, FetchFacts, StoreFacts, CheckFacts
  <2> QED BY <2>1 DEF LetIn, Refused
<1>4. CASE c = d /\ (ServeStatic(c) \/ ReadFails(c) \/ Render(c) \/ ReadStyle(c)
                       \/ CountDashboards(c) \/ ListBookmarks(c) \/ ListInfoWidgets(c))
  <2>1. req[c].phase # "compare" /\ req'[c].phase # "serve"
    BY <1>1, <1>4, EndsFacts, ReadStyleFacts, CountFacts, BookmarkFacts, InfoFacts
  <2> QED BY <2>1 DEF LetIn, Refused
<1> QED BY <1>2, <1>3, <1>4, CompareVerdict, LookupVerdict DEF Step

LEMMA NextVerdict ==
  ASSUME AuthInv, [Next]_vars, NEW c \in Clients
  PROVE  LetIn(c) /\ Refused(c)
<1>0. SlotsInv
  BY DEF AuthInv
<1>1. CASE \E d \in world.clients, u \in Routes, k \in AllCreds : Arrive(d, u, k)
  <2>1. PICK d \in world.clients, u \in Routes, k \in AllCreds : Arrive(d, u, k)
    BY <1>1
  <2>2. d \in Clients
    BY <1>0, ClusterFacts DEF WorldType
  <2>3. Moves(d) /\ req[d].phase = "idle"
    BY <1>0, <2>1, <2>2, ArriveFacts
  <2> QED BY <2>3 DEF Moves, LetIn, Refused, Guarded
<1>2. CASE \E d \in Clients : Step(d)
  BY <1>2, StepVerdict
<1>3. CASE req'[c].phase = req[c].phase
  BY <1>3 DEF LetIn, Refused, Guarded
<1>4. CASE \E field \in DOMAIN cluster : Edit(field)
  BY <1>0, <1>3, <1>4, EditFacts
<1>5. CASE EditAuth
  BY <1>3, <1>5 DEF EditAuth
<1>6. CASE Tick
  BY <1>0, <1>3, <1>6, TickFacts
<1>7. CASE UNCHANGED vars
  BY <1>3, <1>7 DEF vars
<1> QED BY <1>1, <1>2, <1>4, <1>5, <1>6, <1>7 DEF Next

\* A credential is let in only if the Secret in force had it, and refused only
\* if that lacked it, within the cache's lifetime and the time the requests that
\* filled and read the cache took, whatever the order of their lookups, fetches
\* and stores and of the users' edits (loadBasicAuth, basicAuthMiddleware).
THEOREM VerdictAlwaysRecent == Spec => VerdictRecent
<1>1. ASSUME AuthInv, [Next]_vars
      PROVE  \A c \in Clients :
               LET k == req[c].cred
                   Near(s) == age.ref[s] < Lag
               IN  req[c].phase \in Guarded =>
                     /\ req'[c].phase = "serve" =>
                          \/ Near(Unset)
                          \/ k # NoCred /\ \E s \in Secrets : Near(s) /\ age.in[s][k] < Lag
                     /\ req[c].phase = "compare" /\ req'[c].phase = "idle" =>
                          \E s \in Secrets : Near(s) /\ age.out[s][k] < Lag
  BY <1>1, NextVerdict DEF LetIn, Refused, Recently
<1> QED BY <1>1, AuthAlways, PTL DEF Spec, VerdictRecent
-----------------------------------------------------------------------------
(***************************************************************************)
(* A page answered while nothing changes is current.  A request that no    *)
(* edit has overtaken has read, as far as it has come, what is there now;  *)
(* the ETag a browser holds is the hash of the body it holds; and what a   *)
(* page shows is current as long as no edit follows.                       *)
(***************************************************************************)
Read(c, phases) == req[c].again \/ req[c].phase \in phases
ReadNow(c) ==
  req[c].phase # "idle" /\ req[c].clean =>
    /\ Read(c, {"count", "bookmarks", "infos", "snapshot"}) => req[c].style = Now.style
    /\ Read(c, {"bookmarks", "infos", "snapshot"}) => req[c].count = cluster.count
    /\ Read(c, {"infos", "snapshot"}) => req[c].bookmarks = cluster.bookmarks
    /\ Read(c, {"snapshot"}) => req[c].infos = cluster.infos
TagOfBody ==
  \A c \in Clients, u \in Swapped :
    browser[c][u].tag = <<>> \/ browser[c][u].tag = <<u, browser[c][u].body>>
PageDomains ==
  /\ DOMAIN browser = Clients /\ DOMAIN shown = Clients
  /\ \A c \in Clients : DOMAIN browser[c] = Swapped /\ DOMAIN shown[c] = Swapped
PageInv ==
  /\ SlotsInv /\ PageDomains /\ TagOfBody /\ QuietAnswerCurrent
  /\ \A c \in Clients : ReadNow(c)

\* A part of the page depends on nothing but what LoadSite reads and the Store.
LEMMA PartOfPage ==
  ASSUME NEW u \in Swapped, NEW r, NEW now, ReadBy(r) = ReadBy(now), NEW cards
  PROVE  Page(u, r, cards) = Page(u, now, cards)
BY DEF Swapped, Page

LEMMA IndexPart ==
  ASSUME NEW r, NEW cards
  PROVE  Page("index", r, cards).fragment = Page("fragment", r, cards)
BY DEF Page

\* What a request that has read everything renders is current.
LEMMA RenderedNow ==
  ASSUME PageInv, NEW c \in Clients, req[c].phase = "snapshot", req[c].clean, NEW u \in Swapped
  PROVE  Page(u, req[c], cluster.cards) = Current(u)
<1>1. /\ req[c].style = Now.style /\ req[c].count = cluster.count
      /\ req[c].bookmarks = cluster.bookmarks /\ req[c].infos = cluster.infos
  BY DEF PageInv, ReadNow, Read
<1>2. ReadBy(req[c]) = ReadBy(Now)
  BY <1>1 DEF ReadBy, Now
<1> QED BY <1>2, PartOfPage DEF Current

\* A step that leaves the pages and the cluster alone.
LEMMA PageStepFrom ==
  ASSUME PageInv, SlotsInv', NEW c \in Clients, Moves(c),
         UNCHANGED <<cluster, pageVars>>, ReadNow(c)'
  PROVE  PageInv'
<1>1. ASSUME NEW d \in Clients PROVE ReadNow(d)'
  <2>1. CASE d = c
    BY <2>1
  <2>2. CASE d # c
    <3>1. req'[d] = req[d] /\ ReadNow(d)
      BY <2>2 DEF Moves, PageInv
    <3> QED BY <3>1 DEF ReadNow, Read, Now, Protected
  <2> QED BY <2>1, <2>2
<1>2. PageDomains' /\ TagOfBody'
  BY DEF PageInv, PageDomains, TagOfBody, pageVars
<1>3. QuietAnswerCurrent'
  BY DEF PageInv, QuietAnswerCurrent, pageVars, Current, Now, Protected
<1> QED BY <1>1, <1>2, <1>3 DEF PageInv

\* The steps that read nothing of the page keep what was read; those of LoadSite
\* read what is there now.
LEMMA ReadsKept ==
  ASSUME PageInv, NEW c \in Clients, SameReads(c), UNCHANGED cluster,
         req[c].phase \notin {"idle", "count", "bookmarks", "infos", "snapshot"},
         req'[c].phase \notin {"count", "bookmarks", "infos"},
         req'[c].phase = "snapshot" => req[c].again
  PROVE  ReadNow(c)'
BY DEF PageInv, SameReads, ReadNow, Read, Now, Protected

LEMMA ReadsIdle ==
  ASSUME NEW c \in Clients, req'[c].phase = "idle"
  PROVE  ReadNow(c)'
BY DEF ReadNow

LEMMA RenderPage ==
  ASSUME PageInv, SlotsInv', NEW c \in Clients, Render(c)
  PROVE  PageInv'
<1> DEFINE u == req[c].route
           page == Page(u, req[c], cluster.cards)
           part == IF u = "index" THEN "fragment" ELSE u
           body == IF u = "index" THEN page.fragment ELSE page
<1>0. SlotsInv
  BY DEF PageInv
<1>1. /\ Moves(c) /\ req'[c].phase = "idle" /\ UNCHANGED cluster /\ req[c].phase = "snapshot"
  BY <1>0, EndsFacts DEF Render
<1>2. ASSUME NEW d \in Clients PROVE ReadNow(d)'
  <2>1. CASE d = c
    BY <1>1, <2>1, ReadsIdle
  <2>2. CASE d # c
    <3>1. req'[d] = req[d] /\ ReadNow(d)
      BY <1>1, <2>2 DEF Moves, PageInv
    <3> QED BY <1>1, <3>1 DEF ReadNow, Read, Now, Protected
  <2> QED BY <2>1, <2>2
<1>3. /\ DOMAIN browser = Clients /\ DOMAIN shown = Clients
      /\ \A d \in Clients : DOMAIN browser[d] = Swapped /\ DOMAIN shown[d] = Swapped
      /\ \A d \in Clients, v \in Swapped :
           browser[d][v].tag = <<>> \/ browser[d][v].tag = <<v, browser[d][v].body>>
      /\ fresh \in [Clients -> SUBSET Swapped]
  BY DEF PageInv, PageDomains, TagOfBody, SlotsInv, ChecksOwned, TypeOK
\* What the page of this client shows, and what the others keep.
<1>4. /\ PageDomains' /\ TagOfBody'
      /\ u \in Swapped \cup {"index"} => shown'[c][part] = body
      /\ \A v \in Swapped : u # "index" /\ v # u => shown'[c][v] = shown[c][v]
      /\ \A d \in Clients \ {c} : shown'[d] = shown[d]
  <2>1. CASE /\ u \in Swapped /\ browser[c][u].tag = <<u, page>>
             /\ shown' = [shown EXCEPT ![c][u] = browser[c][u].body] /\ UNCHANGED browser
    <3>1. browser[c][u].body = page
      <4> HIDE DEF page, u
      <4>1. u \in Swapped /\ browser[c][u].tag = <<u, page>>
        BY <2>1
      <4>2. browser[c][u].tag = <<>> \/ browser[c][u].tag = <<u, browser[c][u].body>>
        BY <1>3, <4>1
      <4> DEFINE b == browser[c][u]
      <4>3. b.tag = <<u, page>> /\ (b.tag = <<>> \/ b.tag = <<u, b.body>>)
        BY <4>1, <4>2
      <4> HIDE DEF b
      <4>4. b.body = page
        BY <4>3
      <4> QED BY <4>4 DEF b
    <3>2. part = u /\ body = page /\ u # "index"
      BY <2>1 DEF Swapped
    <3> HIDE DEF page, u, part, body
    <3>3. /\ DOMAIN shown' = Clients /\ \A d \in Clients : DOMAIN shown'[d] = Swapped
          /\ shown'[c][u] = page /\ \A v \in Swapped : v # u => shown'[c][v] = shown[c][v]
          /\ \A d \in Clients \ {c} : shown'[d] = shown[d]
      BY <1>3, <2>1, <3>1
    <3> QED BY <1>3, <2>1, <3>2, <3>3 DEF PageDomains, TagOfBody
  <2>2. CASE /\ u \in Swapped
             /\ browser' = [browser EXCEPT ![c][u] = [tag |-> <<u, page>>, body |-> page]]
             /\ shown' = [shown EXCEPT ![c][u] = page]
    <3>2. part = u /\ body = page /\ u # "index"
      BY <2>2 DEF Swapped
    <3> HIDE DEF page, u, part, body
    <3>3. /\ DOMAIN shown' = Clients /\ \A d \in Clients : DOMAIN shown'[d] = Swapped
          /\ shown'[c][u] = page /\ \A v \in Swapped : v # u => shown'[c][v] = shown[c][v]
          /\ \A d \in Clients \ {c} : shown'[d] = shown[d]
      BY <1>3, <2>2
    <3>4. /\ DOMAIN browser' = Clients /\ \A d \in Clients : DOMAIN browser'[d] = Swapped
          /\ browser'[c][u] = [tag |-> <<u, page>>, body |-> page]
          /\ \A v \in Swapped : v # u => browser'[c][v] = browser[c][v]
          /\ \A d \in Clients \ {c} : browser'[d] = browser[d]
      BY <1>3, <2>2
    <3>5. TagOfBody'
      <4>1. ASSUME NEW d \in Clients, NEW v \in Swapped
            PROVE  browser'[d][v].tag = <<>> \/ browser'[d][v].tag = <<v, browser'[d][v].body>>
        <5>1. CASE d = c /\ v = u
          BY <3>4, <5>1
        <5>2. CASE ~(d = c /\ v = u)
          <6>1. browser'[d][v] = browser[d][v]
            BY <3>4, <5>2
          <6> QED BY <1>3, <6>1
        <5> QED BY <5>1, <5>2
      <4> QED BY <4>1 DEF TagOfBody
    <3> QED BY <3>2, <3>3, <3>4, <3>5 DEF PageDomains
  <2>3. CASE /\ u = "index" /\ UNCHANGED browser
             /\ shown' = [shown EXCEPT ![c] = [fragment |-> page.fragment, header |-> NoPage]]
    <3>1. part = "fragment" /\ body = page.fragment
      BY <2>3
    <3> HIDE DEF page, u, part, body
    <3>2. /\ DOMAIN shown' = Clients /\ shown'[c] = [fragment |-> page.fragment, header |-> NoPage]
          /\ \A d \in Clients \ {c} : shown'[d] = shown[d]
      BY <1>3, <2>3
    <3>3. DOMAIN shown'[c] = Swapped /\ shown'[c].fragment = page.fragment
      BY <3>2 DEF Swapped
    <3> QED BY <1>3, <2>3, <3>1, <3>2, <3>3 DEF PageDomains, TagOfBody
  <2>4. CASE u \notin Swapped \cup {"index"} /\ UNCHANGED <<browser, shown>>
    BY <1>3, <2>4 DEF PageDomains, TagOfBody
  <2> QED BY <2>1, <2>2, <2>3, <2>4 DEF Render, NotModified, etagFor
<1>5. /\ \A d \in Clients \ {c} : fresh'[d] = fresh[d]
      /\ u \in Swapped \cup {"index"} =>
           fresh'[c] = (IF u = "index" THEN {} ELSE fresh[c] \ {u})
                         \cup (IF req[c].clean THEN {part} ELSE {})
      /\ u \notin Swapped \cup {"index"} => fresh'[c] = fresh[c]
  BY <1>3 DEF Render
<1>6. ASSUME NEW v, Current(v)' # Current(v) PROVE FALSE
  BY <1>1, <1>6 DEF Current, Now, Protected
<1>7. u \in Swapped \cup {"index"} /\ req[c].clean => body = Current(part)
  <2>1. CASE u = "index"
    BY <1>1, <2>1, RenderedNow, IndexPart DEF Swapped
  <2>2. CASE u \in Swapped
    BY <1>1, <2>2, RenderedNow DEF Swapped
  <2> QED BY <2>1, <2>2
<1>8. QuietAnswerCurrent'
  <2>1. ASSUME NEW d \in Clients, NEW v \in fresh'[d] PROVE shown'[d][v] = Current(v)
    <3>1. \A e \in Clients : \A w \in fresh[e] : shown[e][w] = Current(w) /\ w \in Swapped
      BY <1>3 DEF PageInv, QuietAnswerCurrent
    <3> HIDE DEF page, u, part, body
    <3>2. CASE d # c
      BY <1>4, <1>5, <2>1, <3>1, <3>2
    <3>3. CASE d = c /\ u \notin Swapped \cup {"index"}
      BY <1>4, <1>5, <2>1, <3>1, <3>3 DEF Swapped
    <3>4. CASE d = c /\ u \in Swapped \cup {"index"}
      <4>1. CASE v = part /\ req[c].clean
        BY <1>4, <1>7, <3>4, <4>1
      <4>2. CASE u # "index" /\ v \in fresh[c] /\ v # u
        BY <1>4, <3>1, <3>4, <4>2
      <4> QED BY <1>5, <2>1, <3>4, <4>1, <4>2
    <3> QED BY <3>2, <3>3, <3>4
  <2> QED BY <1>6, <2>1 DEF QuietAnswerCurrent
<1> QED BY <1>2, <1>4, <1>8 DEF PageInv

LEMMA StepPage ==
  ASSUME PageInv, SlotsInv', NEW c \in Clients, Step(c)
  PROVE  PageInv'
<1>0. SlotsInv
  BY DEF PageInv
<1>1. CASE LookupAuth(c)
  <2>1. UNCHANGED <<cluster, pageVars>> /\ Moves(c) /\ SameReads(c) /\ req[c].phase = "auth"
    BY <1>0, <1>1, LookupFacts DEF LookupAuth, NoPageYet
  <2>2. /\ req'[c].phase \in {"snapshot", "serve", "check", "fetch"}
        /\ req'[c].phase = "snapshot" => req[c].again
    BY <1>0, <1>1, LookupFacts
  <2> QED BY <2>1, <2>2, ReadsKept, PageStepFrom
<1>2. CASE FetchSecret(c)
  <2>1. UNCHANGED <<cluster, pageVars>> /\ Moves(c) /\ req[c].phase = "fetch"
    BY <1>0, <1>2, FetchFacts DEF FetchSecret
  <2>2. CASE req'[c].phase = "idle"
    BY <2>1, <2>2, ReadsIdle, PageStepFrom
  <2>3. CASE req'[c].phase = "cache" /\ SameReads(c)
    BY <2>1, <2>3, ReadsKept, PageStepFrom
  <2> QED BY <1>0, <1>2, <2>2, <2>3, FetchFacts
<1>3. CASE StoreAuth(c)
  <2>1. UNCHANGED <<cluster, pageVars>> /\ Moves(c) /\ SameReads(c) /\ req[c].phase = "cache"
    BY <1>0, <1>3, StoreFacts DEF StoreAuth, NoPageYet
  <2>2. req'[c].phase \in {"snapshot", "check"} /\ (req'[c].phase = "snapshot" => req[c].again)
    BY <1>0, <1>3, StoreFacts
  <2> QED BY <2>1, <2>2, ReadsKept, PageStepFrom
<1>4. CASE CheckCredential(c)
  <2>1. UNCHANGED <<cluster, pageVars>> /\ Moves(c) /\ req[c].phase = "check"
    BY <1>0, <1>4, CheckFacts DEF CheckCredential
  <2>2. CASE req'[c].phase = "idle"
    BY <2>1, <2>2, ReadsIdle, PageStepFrom
  <2>3. CASE req'[c].phase = "compare" /\ SameReads(c)
    BY <2>1, <2>3, ReadsKept, PageStepFrom
  <2> QED BY <1>0, <1>4, <2>2, <2>3, CheckFacts
<1>5. CASE CompareCredential(c)
  <2>1. UNCHANGED <<cluster, pageVars>> /\ Moves(c) /\ req[c].phase = "compare"
    BY <1>0, <1>5, CompareFacts DEF CompareCredential
  <2>2. CASE req'[c].phase = "idle"
    BY <2>1, <2>2, ReadsIdle, PageStepFrom
  <2>3. CASE req'[c].phase = "serve" /\ SameReads(c)
    BY <2>1, <2>3, ReadsKept, PageStepFrom
  <2> QED BY <1>0, <1>5, <2>2, <2>3, CompareFacts
<1>6. CASE ServeStatic(c) \/ ReadFails(c)
  <2>1. UNCHANGED <<cluster, pageVars>> /\ Moves(c) /\ req'[c].phase = "idle"
    BY <1>0, <1>6, EndsFacts DEF ServeStatic, ReadFails
  <2> QED BY <2>1, ReadsIdle, PageStepFrom
\* What LoadSite reads.
<1>7. ReadNow(c)
  BY DEF PageInv
<1>8. CASE ReadStyle(c)
  <2>1. UNCHANGED <<cluster, pageVars>>
    BY <1>8 DEF ReadStyle, NoPageYet
  <2>2. ReadNow(c)'
    BY <1>0, <1>7, <1>8, <2>1, ReadStyleFacts DEF ReadNow, Read, Now, Protected
  <2> QED BY <1>0, <1>8, <2>1, <2>2, ReadStyleFacts, PageStepFrom
<1>9. CASE CountDashboards(c)
  <2>1. UNCHANGED <<cluster, pageVars>>
    BY <1>9 DEF CountDashboards, NoPageYet
  <2>2. ReadNow(c)'
    BY <1>0, <1>7, <1>9, <2>1, CountFacts DEF ReadNow, Read, Now, Protected
  <2> QED BY <1>0, <1>9, <2>1, <2>2, CountFacts, PageStepFrom
<1>10. CASE ListBookmarks(c)
  <2>1. UNCHANGED <<cluster, pageVars>>
    BY <1>10 DEF ListBookmarks, NoPageYet
  <2>2. ReadNow(c)'
    BY <1>0, <1>7, <1>10, <2>1, BookmarkFacts DEF ReadNow, Read, Now, Protected
  <2> QED BY <1>0, <1>10, <2>1, <2>2, BookmarkFacts, PageStepFrom
<1>11. CASE ListInfoWidgets(c)
  <2>1. UNCHANGED <<cluster, pageVars>>
    BY <1>11 DEF ListInfoWidgets, NoPageYet
  <2>2. ReadNow(c)'
    BY <1>0, <1>7, <1>11, <2>1, InfoFacts DEF ReadNow, Read, Now, Protected
  <2> QED BY <1>0, <1>11, <2>1, <2>2, InfoFacts, PageStepFrom
<1> QED BY <1>1, <1>2, <1>3, <1>4, <1>5, <1>6, <1>8, <1>9, <1>10, <1>11, RenderPage DEF Step

LEMMA InitPage ==
  ASSUME Init
  PROVE  PageInv
<1>1. SlotsInv
  BY InitSlots
<1>2. PageDomains /\ TagOfBody
  BY DEF Init, PageDomains, TagOfBody
<1>3. QuietAnswerCurrent
  BY DEF Init, QuietAnswerCurrent
<1>4. \A c \in Clients : ReadNow(c)
  BY DEF Init, Idle, ReadNow
<1> QED BY <1>1, <1>2, <1>3, <1>4 DEF PageInv

LEMMA NextPage ==
  ASSUME PageInv, [Next]_vars
  PROVE  PageInv'
<1>0. SlotsInv /\ SlotsInv'
  BY NextSlots DEF PageInv
<1>1. CASE \E c \in world.clients, u \in Routes, k \in AllCreds : Arrive(c, u, k)
  <2>1. PICK c \in world.clients, u \in Routes, k \in AllCreds : Arrive(c, u, k)
    BY <1>1
  <2>2. c \in Clients
    BY <1>0, ClusterFacts DEF WorldType
  <2>3. UNCHANGED <<cluster, pageVars>>
    BY <2>1 DEF Arrive
  <2>4. ReadNow(c)'
    BY <1>0, <2>1, <2>2, ArriveFacts DEF ReadNow, Read
  <2> QED BY <1>0, <2>1, <2>2, <2>3, <2>4, ArriveFacts, PageStepFrom
<1>2. CASE \E c \in Clients : Step(c)
  BY <1>0, <1>2, StepPage
<1>3. CASE \E field \in DOMAIN cluster : Edit(field)
  <2>1. PICK field \in DOMAIN cluster : Edit(field)
    BY <1>3
  <2>2. UNCHANGED <<browser, shown>> /\ fresh' = [c \in Clients |-> {}]
    BY <2>1 DEF Edit
  <2>3. PageDomains' /\ TagOfBody'
    BY <2>2 DEF PageInv, PageDomains, TagOfBody
  <2>4. QuietAnswerCurrent'
    BY <2>2 DEF QuietAnswerCurrent
  <2>5. \A c \in Clients : ReadNow(c)'
    BY <1>0, <2>1, EditFacts DEF ReadNow
  <2> QED BY <1>0, <2>3, <2>4, <2>5 DEF PageInv
\* No part of the page and nothing that LoadSite reads is about basicAuthSecretRef.
<1>4. ASSUME UNCHANGED <<pageVars, req>>, cluster'.present = cluster.present,
             cluster'.style = cluster.style, cluster'.count = cluster.count,
             cluster'.bookmarks = cluster.bookmarks, cluster'.infos = cluster.infos,
             cluster'.cards = cluster.cards
      PROVE  PageInv'
  <2>1. PageDomains' /\ TagOfBody'
    BY <1>4 DEF PageInv, PageDomains, TagOfBody, pageVars
  <2>2. \A c \in Clients : ReadNow(c)'
    BY <1>4 DEF PageInv, ReadNow, Read, Now
  <2>3. ASSUME NEW u \in Swapped PROVE Current(u)' = Current(u)
    <3>1. ReadBy(Now') = ReadBy(Now)
      BY <1>4 DEF ReadBy, Now
    <3> QED BY <1>4, <3>1, PartOfPage DEF Current
  <2>4. QuietAnswerCurrent'
    <3>1. \A c \in Clients : fresh[c] \subseteq Swapped
      BY <1>0 DEF SlotsInv, ChecksOwned, TypeOK
    <3> QED BY <1>4, <2>3, <3>1 DEF PageInv, QuietAnswerCurrent, pageVars
  <2> QED BY <1>0, <2>1, <2>2, <2>4 DEF PageInv
<1>5. CASE EditAuth
  <2>1. UNCHANGED <<pageVars, req>>
    BY <1>5 DEF EditAuth
  <2> QED BY <1>0, <1>4, <1>5, <2>1, EditAuthFacts
<1>6. CASE UNCHANGED vars
  BY <1>4, <1>6 DEF vars
<1>7. CASE Tick
  <2>1. UNCHANGED <<cluster, pageVars>>
    BY <1>7 DEF Tick
  <2>2. PageDomains' /\ TagOfBody'
    BY <2>1 DEF PageInv, PageDomains, TagOfBody, pageVars
  <2>3. QuietAnswerCurrent'
    BY <2>1 DEF PageInv, QuietAnswerCurrent, pageVars, Current, Now, Protected
  <2>4. ASSUME NEW c \in Clients PROVE ReadNow(c)'
    <3>1. ReadNow(c) /\ SameReads(c) /\ req'[c].phase = req[c].phase
      BY <1>0, <1>7, TickFacts DEF PageInv
    <3> QED BY <2>1, <3>1 DEF ReadNow, Read, SameReads, Now, Protected
  <2> QED BY <1>0, <2>2, <2>3, <2>4 DEF PageInv
<1> QED BY <1>1, <1>2, <1>3, <1>5, <1>6, <1>7 DEF Next

\* A page that was answered since the last change shows what the cluster and the
\* Store hold, whether it was rendered or a 304 sent the browser to a body that an
\* earlier answer left there, in whatever order the requests read and the users
\* and the poller write (writeCachedHTML, handleFragment, handleHeader, LoadSite).
THEOREM QuietAnswerAlwaysCurrent == Spec => []QuietAnswerCurrent
<1>1. Init => PageInv
  BY InitPage
<1>2. PageInv /\ [Next]_vars => PageInv'
  BY NextPage
<1>3. PageInv => QuietAnswerCurrent
  BY DEF PageInv
<1> QED BY <1>1, <1>2, <1>3, PTL DEF Spec

-----------------------------------------------------------------------------
(***************************************************************************)
(* Ranks in a finite set under a strict total order, a set of pairs.       *)
(***************************************************************************)
Orders(R, S) ==
    /\ \A x \in S : <<x, x>> \notin R
    /\ \A x, y, z \in S : <<x, y>> \in R /\ <<y, z>> \in R => <<x, z>> \in R
    /\ \A x, y \in S : x = y \/ <<x, y>> \in R \/ <<y, x>> \in R

BelowIn(S, R, x) == {y \in S : <<y, x>> \in R}
RankIn(S, R, x)  == Cardinality(BelowIn(S, R, x))
Nth(S, R, n)     == CHOOSE x \in S : RankIn(S, R, x) = n - 1

LEMMA BelowFinite ==
  ASSUME NEW S, IsFiniteSet(S), NEW R, NEW x
  PROVE  IsFiniteSet(BelowIn(S, R, x)) /\ RankIn(S, R, x) \in Nat
<1>1. BelowIn(S, R, x) \in SUBSET S
  BY DEF BelowIn
<1>2. IsFiniteSet(BelowIn(S, R, x))
  BY <1>1, FS_Subset
<1> QED  BY <1>2, FS_CardinalityType DEF RankIn

\* What comes before has the lower rank.
LEMMA RankGrows ==
  ASSUME NEW S, IsFiniteSet(S), NEW R, Orders(R, S),
         NEW x \in S, NEW y \in S, <<x, y>> \in R
  PROVE  RankIn(S, R, x) < RankIn(S, R, y)
<1> DEFINE B == BelowIn(S, R, x)
<1>1. x \notin B
  BY DEF BelowIn, Orders
<1>2. B \cup {x} \in SUBSET BelowIn(S, R, y)
  BY DEF BelowIn, Orders
<1>3. IsFiniteSet(B) /\ RankIn(S, R, x) \in Nat
  BY BelowFinite
<1>4. IsFiniteSet(BelowIn(S, R, y)) /\ RankIn(S, R, y) \in Nat
  BY BelowFinite
<1>5. Cardinality(B \cup {x}) = RankIn(S, R, x) + 1
  BY <1>1, <1>3, FS_AddElement DEF RankIn
<1>6. Cardinality(B \cup {x}) <= RankIn(S, R, y)
  BY <1>2, <1>4, FS_Subset DEF RankIn
<1> QED  BY <1>3, <1>4, <1>5, <1>6

LEMMA RankTells ==
  ASSUME NEW S, IsFiniteSet(S), NEW R, Orders(R, S),
         NEW x \in S, NEW y \in S, RankIn(S, R, x) = RankIn(S, R, y)
  PROVE  x = y
<1>1. RankIn(S, R, x) \in Nat
  BY BelowFinite
<1>2. <<x, y>> \notin R /\ <<y, x>> \notin R
  BY <1>1, RankGrows
<1> QED  BY <1>2 DEF Orders

\* The ranks are 0 to the number of elements less one: each is taken.
LEMMA RankOnto ==
  ASSUME NEW S, IsFiniteSet(S), NEW R, Orders(R, S), NEW n \in 1..Cardinality(S)
  PROVE  \E x \in S : RankIn(S, R, x) = n - 1
<1> DEFINE N == Cardinality(S)
           D == 0..(N - 1)
           f == [x \in S |-> RankIn(S, R, x)]
<1>1. N \in Nat
  BY FS_CardinalityType
<1>2. ASSUME NEW x \in S PROVE RankIn(S, R, x) \in D
  <2>1. BelowIn(S, R, x) \in SUBSET (S \ {x})
    BY DEF BelowIn, Orders
  <2>2. IsFiniteSet(S \ {x}) /\ Cardinality(S \ {x}) = N - 1
    BY FS_RemoveElement
  <2>3. RankIn(S, R, x) <= N - 1
    BY <2>1, <2>2, FS_Subset DEF RankIn
  <2>4. RankIn(S, R, x) \in Nat
    BY BelowFinite
  <2> QED  BY <1>1, <2>3, <2>4
<1>3. f \in [S -> D]
  BY <1>2
<1>4. IsInjective(f)
  BY RankTells DEF IsInjective
<1>5. f \in Injection(S, D)
  BY <1>3, <1>4 DEF Injection
<1>6. IsFiniteSet(D) /\ Cardinality(D) = N
  <2> HIDE DEF N
  <2>1. 0 \in Int /\ N - 1 \in Int
    BY <1>1
  <2>2. IsFiniteSet(0..(N - 1)) /\ Cardinality(0..(N - 1)) = IF 0 > N - 1 THEN 0 ELSE N - 1 - 0 + 1
    BY <2>1, FS_Interval
  <2> QED  BY <1>1, <2>2
<1>7. f \in Surjection(S, D)
  <2> HIDE DEF f, D
  <2>1. IsFiniteSet(D) /\ Cardinality(S) = Cardinality(D)
    BY <1>6
  <2> QED  BY <1>5, <2>1, FS_Injection
<1>8. n - 1 \in D
  BY <1>1
<1> QED  BY <1>7, <1>8 DEF Surjection

LEMMA NthFacts ==
  ASSUME NEW S, IsFiniteSet(S), NEW R, Orders(R, S), NEW n \in 1..Cardinality(S)
  PROVE  Nth(S, R, n) \in S /\ RankIn(S, R, Nth(S, R, n)) = n - 1
  BY RankOnto DEF Nth

\* Sets that correspond element by element, in their order too, have
\* corresponding n-th elements.
LEMMA NthMoves ==
  ASSUME NEW S, IsFiniteSet(S), NEW R, Orders(R, S),
         NEW T, NEW Q, NEW f \in Bijection(S, T),
         \A x, y \in S : <<x, y>> \in R <=> <<f[x], f[y]>> \in Q
  PROVE  /\ IsFiniteSet(T) /\ Cardinality(T) = Cardinality(S)
         /\ \A n \in 1..Cardinality(S) : f[Nth(S, R, n)] = Nth(T, Q, n)
<1>f. /\ f \in [S -> T]
      /\ \A x, y \in S : f[x] = f[y] => x = y
      /\ \A t \in T : \E x \in S : f[x] = t
  BY DEF Bijection, Injection, Surjection, IsInjective
<1>1. IsFiniteSet(T) /\ Cardinality(T) = Cardinality(S)
  <2>1. ExistsBijection(S, T)
    BY DEF ExistsBijection
  <2> QED  BY <2>1, FS_Bijection
<1>2. Orders(Q, T)
  <2>1. ASSUME NEW t \in T PROVE <<t, t>> \notin Q
    <3>1. PICK x \in S : f[x] = t
      BY <1>f
    <3> QED  BY <3>1 DEF Orders
  <2>2. ASSUME NEW t \in T, NEW u \in T, NEW v \in T, <<t, u>> \in Q, <<u, v>> \in Q
        PROVE  <<t, v>> \in Q
    <3>1. PICK x \in S : f[x] = t
      BY <1>f
    <3>2. PICK y \in S : f[y] = u
      BY <1>f
    <3>3. PICK z \in S : f[z] = v
      BY <1>f
    <3>4. <<x, y>> \in R /\ <<y, z>> \in R
      BY <2>2, <3>1, <3>2, <3>3
    <3>5. <<x, z>> \in R
      BY <3>4 DEF Orders
    <3> QED  BY <3>5, <3>1, <3>3
  <2>3. ASSUME NEW t \in T, NEW u \in T PROVE t = u \/ <<t, u>> \in Q \/ <<u, t>> \in Q
    <3>1. PICK x \in S : f[x] = t
      BY <1>f
    <3>2. PICK y \in S : f[y] = u
      BY <1>f
    <3>3. x = y \/ <<x, y>> \in R \/ <<y, x>> \in R
      BY DEF Orders
    <3> QED  BY <3>1, <3>2, <3>3
  <2> QED  BY <2>1, <2>2, <2>3 DEF Orders
<1>3. ASSUME NEW x \in S PROVE RankIn(T, Q, f[x]) = RankIn(S, R, x)
  <2> DEFINE B == BelowIn(S, R, x)
             C == BelowIn(T, Q, f[x])
             g == [y \in B |-> f[y]]
  <2>1. g \in [B -> C]
    BY <1>f DEF BelowIn
  <2>2. IsInjective(g)
    BY <1>f DEF BelowIn, IsInjective
  <2>3. ASSUME NEW t \in C PROVE \E y \in B : g[y] = t
    BY <1>f DEF BelowIn
  <2>4. g \in Bijection(B, C)
    BY <2>1, <2>2, <2>3 DEF Bijection, Injection, Surjection
  <2>5. IsFiniteSet(B)
    BY BelowFinite
  <2> QED  BY <2>4, <2>5, FS_Bijection DEF ExistsBijection, RankIn
<1>4. ASSUME NEW n \in 1..Cardinality(S) PROVE f[Nth(S, R, n)] = Nth(T, Q, n)
  <2>1. Nth(S, R, n) \in S /\ RankIn(S, R, Nth(S, R, n)) = n - 1
    BY NthFacts
  <2>2. f[Nth(S, R, n)] \in T /\ RankIn(T, Q, f[Nth(S, R, n)]) = n - 1
    BY <2>1, <1>3, <1>f
  <2>3. Nth(T, Q, n) \in T /\ RankIn(T, Q, Nth(T, Q, n)) = n - 1
    BY <1>1, <1>2, NthFacts
  <2> QED  BY <2>2, <2>3, <1>1, <1>2, RankTells
<1> QED  BY <1>1, <1>4
-----------------------------------------------------------------------------
(***************************************************************************)
(* A group's bookmarks, told by the objects that are listed and not by     *)
(* where they are in the listing.                                          *)
(***************************************************************************)
ObjectAt(items, p) == <<items[p[1]], p[2]>>
ObjectsIn(items, count, g) == {ObjectAt(items, p) : p \in PositionsIn(items, count, g)}
EntryIn(o) == o[1].entries[o[2]]

KeyBefore(e, f) == e.order < f.order \/ (e.order = f.order /\ e.name < f.name)
ByKey(O) == {q \in O \X O : KeyBefore(EntryIn(q[1]), EntryIn(q[2]))}
Sorted(O) == [n \in 1..Cardinality(O) |-> EntryIn(Nth(O, ByKey(O), n))] \o <<>>

ByText(items, count, g) ==
    {q \in PositionsIn(items, count, g) \X PositionsIn(items, count, g) :
       LexBefore(BookmarkText(items, q[1]), BookmarkText(items, q[2]))}

LEMMA PositionFacts ==
  ASSUME NEW items, NEW count, NEW p
  PROVE  p \in Positions(items, count) <=>
           /\ p = <<p[1], p[2]>> /\ p[1] \in DOMAIN items
           /\ BoundTo(items[p[1]].ref, Dashboard, count)
           /\ p[2] \in DOMAIN items[p[1]].entries
  BY DEF Positions

LEMMA PositionsFinite ==
  ASSUME NEW items, IsListing(items), NEW count, NEW g
  PROVE  IsFiniteSet(PositionsIn(items, count, g))
<1> DEFINE D == {n \in DOMAIN items : BoundTo(items[n].ref, Dashboard, count)}
           F == {{n} \X DOMAIN items[n].entries : n \in D}
           h == [n \in D |-> {n} \X DOMAIN items[n].entries]
<1>1. IsFiniteSet(D)
  <2>1. D \in SUBSET DOMAIN items
    OBVIOUS
  <2> QED  BY <2>1, FS_Subset DEF IsListing
<1>2. h \in Surjection(D, F)
  BY DEF Surjection
<1>3. IsFiniteSet(F)
  <2> HIDE DEF D, F, h
  <2> QED  BY <1>1, <1>2, FS_Surjection
<1>4. \A T \in F : IsFiniteSet(T)
  <2>1. ASSUME NEW n \in D PROVE IsFiniteSet({n} \X DOMAIN items[n].entries)
    <3>1. IsFiniteSet({n})
      BY FS_Singleton
    <3>2. IsFiniteSet(DOMAIN items[n].entries)
      BY DEF IsListing
    <3> QED  BY <3>1, <3>2, FS_Product
  <2> QED  BY <2>1
<1>5. IsFiniteSet(Positions(items, count))
  <2>1. Positions(items, count) = UNION F
    BY DEF Positions
  <2> HIDE DEF F
  <2> QED  BY <1>3, <1>4, <2>1, FS_UNION
<1>6. PositionsIn(items, count, g) \in SUBSET Positions(items, count)
  BY DEF PositionsIn
<1> QED  BY <1>5, <1>6, FS_Subset

\* Sequences of four, compared element by element.
LEMMA LexFour ==
  ASSUME NEW p, NEW q, Len(p) = 4, Len(q) = 4
  PROVE  LexBefore(p, q) <=>
           \/ p[1] < q[1]
           \/ p[1] = q[1] /\ p[2] < q[2]
           \/ p[1] = q[1] /\ p[2] = q[2] /\ p[3] < q[3]
           \/ p[1] = q[1] /\ p[2] = q[2] /\ p[3] = q[3] /\ p[4] < q[4]
<1> DEFINE Agree(n) == \A i \in 1..n : p[i] = q[i]
<1>1. LexBefore(p, q) <=> \E n \in {0, 1, 2, 3} : Agree(n) /\ p[n + 1] < q[n + 1]
  <2>1. \A n \in 0..4 : n < 4 <=> n \in {0, 1, 2, 3}
    OBVIOUS
  <2>2. \A n \in {0, 1, 2, 3} : n # 4 /\ n \in 0..4
    OBVIOUS
  <2> QED  BY <2>1, <2>2 DEF LexBefore
<1>2. /\ Agree(0) /\ (Agree(1) <=> p[1] = q[1])
      /\ Agree(2) <=> p[1] = q[1] /\ p[2] = q[2]
      /\ Agree(3) <=> p[1] = q[1] /\ p[2] = q[2] /\ p[3] = q[3]
  <2>1. 1..0 = {} /\ 1..1 = {1} /\ 1..2 = {1, 2} /\ 1..3 = {1, 2, 3}
    OBVIOUS
  <2> QED  BY <2>1
<1> HIDE DEF Agree
<1>3. LexBefore(p, q) <=> \/ Agree(0) /\ p[1] < q[1]
                          \/ Agree(1) /\ p[2] < q[2]
                          \/ Agree(2) /\ p[3] < q[3]
                          \/ Agree(3) /\ p[4] < q[4]
  <2>1. 0 + 1 = 1 /\ 1 + 1 = 2 /\ 2 + 1 = 3 /\ 3 + 1 = 4
    OBVIOUS
  <2> QED  BY <1>1, <2>1
<1> QED  BY <1>2, <1>3

LEMMA CatFour ==
  ASSUME NEW a \in Int, NEW b \in Int, NEW c \in Int, NEW d \in Int
  PROVE  <<a, b>> \o <<c, d>> = <<a, b, c, d>>
<1> DEFINE s == <<a, b>>
           t == <<c, d>>
           u == <<a, b, c, d>>
<1>1. s \in Seq(Int) /\ t \in Seq(Int) /\ u \in Seq(Int)
  OBVIOUS
<1>2. /\ Len(s) = 2 /\ Len(t) = 2 /\ Len(u) = 4
      /\ s[1] = u[1] /\ s[2] = u[2] /\ t[1] = u[3] /\ t[2] = u[4]
  OBVIOUS
<1> HIDE DEF s, t, u
<1>3. /\ s \o t \in Seq(Int) /\ Len(s \o t) = Len(s) + Len(t)
      /\ \A i \in 1 .. Len(s) + Len(t) :
           (s \o t)[i] = IF i <= Len(s) THEN s[i] ELSE t[i - Len(s)]
  BY <1>1, ConcatProperties
<1>4. Len(s \o t) = 4 /\ \A i \in 1..4 : (s \o t)[i] = u[i]
  <2>1. \A i \in 1..4 : i = 1 \/ i = 2 \/ i = 3 \/ i = 4
    OBVIOUS
  <2> QED  BY <1>2, <1>3, <2>1
<1>5. s \o t = u
  BY <1>1, <1>2, <1>3, <1>4, SeqEqual
<1> QED  BY <1>5 DEF s, t, u

\* Told apart, the bookmarks of a group are compared by order and name alone.
LEMMA TextByKey ==
  ASSUME NEW items, IsListing(items), NEW count, ToldApart(items, count), NEW g,
         NEW p \in PositionsIn(items, count, g), NEW q \in PositionsIn(items, count, g)
  PROVE  /\ LexBefore(BookmarkText(items, p), BookmarkText(items, q)) <=>
              KeyBefore(EntryAt(items, p), EntryAt(items, q))
         /\ p = q \/ KeyBefore(EntryAt(items, p), EntryAt(items, q))
                  \/ KeyBefore(EntryAt(items, q), EntryAt(items, p))
<1> DEFINE e == EntryAt(items, p)
           f == EntryAt(items, q)
<1>1. /\ p \in Positions(items, count) /\ q \in Positions(items, count)
      /\ e.group = g /\ f.group = g
  BY DEF PositionsIn
<1>2. /\ p = <<p[1], p[2]>> /\ p[1] \in Int /\ p[2] \in Int
      /\ e.order \in Int /\ e.name \in Int
  BY <1>1, PositionFacts DEF IsListing, EntryAt
<1>3. /\ q = <<q[1], q[2]>> /\ q[1] \in Int /\ q[2] \in Int
      /\ f.order \in Int /\ f.name \in Int
  BY <1>1, PositionFacts DEF IsListing, EntryAt
<1>4. e.order = f.order /\ e.name = f.name => p = q
  BY <1>1 DEF ToldApart
<1>5. /\ BookmarkText(items, p) = <<e.order, e.name, p[1], p[2]>>
      /\ BookmarkText(items, q) = <<f.order, f.name, q[1], q[2]>>
  <2>1. /\ BookmarkText(items, p) = <<e.order, e.name>> \o <<p[1], p[2]>>
        /\ BookmarkText(items, q) = <<f.order, f.name>> \o <<q[1], q[2]>>
    BY <1>2, <1>3 DEF BookmarkText
  <2>2. <<e.order, e.name>> \o <<p[1], p[2]>> = <<e.order, e.name, p[1], p[2]>>
    BY <1>2, CatFour
  <2>3. <<f.order, f.name>> \o <<q[1], q[2]>> = <<f.order, f.name, q[1], q[2]>>
    BY <1>3, CatFour
  <2> QED  BY <2>1, <2>2, <2>3
<1> HIDE DEF e, f
<1>6. LexBefore(BookmarkText(items, p), BookmarkText(items, q)) <=>
           \/ e.order < f.order
           \/ e.order = f.order /\ e.name < f.name
           \/ e.order = f.order /\ e.name = f.name /\ p[1] < q[1]
           \/ e.order = f.order /\ e.name = f.name /\ p[1] = q[1] /\ p[2] < q[2]
  <2> DEFINE t == BookmarkText(items, p)
             u == BookmarkText(items, q)
  <2>1. /\ Len(t) = 4 /\ t[1] = e.order /\ t[2] = e.name /\ t[3] = p[1] /\ t[4] = p[2]
        /\ Len(u) = 4 /\ u[1] = f.order /\ u[2] = f.name /\ u[3] = q[1] /\ u[4] = q[2]
    BY <1>5
  <2> HIDE DEF t, u
  <2>2. LexBefore(t, u) <=> \/ t[1] < u[1]
                            \/ t[1] = u[1] /\ t[2] < u[2]
                            \/ t[1] = u[1] /\ t[2] = u[2] /\ t[3] < u[3]
                            \/ t[1] = u[1] /\ t[2] = u[2] /\ t[3] = u[3] /\ t[4] < u[4]
    BY <2>1, LexFour
  <2> QED  BY <2>1, <2>2 DEF t, u
<1>7. LexBefore(BookmarkText(items, p), BookmarkText(items, q)) <=> KeyBefore(e, f)
  BY <1>2, <1>3, <1>4, <1>6 DEF KeyBefore
<1>8. p = q \/ KeyBefore(e, f) \/ KeyBefore(f, e)
  BY <1>2, <1>3, <1>4 DEF KeyBefore
<1> QED  BY <1>7, <1>8 DEF e, f

LEMMA TextOrders ==
  ASSUME NEW items, IsListing(items), NEW count, ToldApart(items, count), NEW g
  PROVE  Orders(ByText(items, count, g), PositionsIn(items, count, g))
<1> DEFINE P == PositionsIn(items, count, g)
           R == ByText(items, count, g)
           B(p, q) == KeyBefore(EntryAt(items, p), EntryAt(items, q))
<1>1. \A p, q \in P : <<p, q>> \in R <=> B(p, q)
  BY TextByKey DEF ByText
<1>2. \A p \in P : EntryAt(items, p).order \in Int /\ EntryAt(items, p).name \in Int
  BY PositionFacts DEF PositionsIn, IsListing, EntryAt
<1>3. \A p \in P : ~B(p, p)
  BY <1>2 DEF KeyBefore
<1>4. \A p, q, r \in P : B(p, q) /\ B(q, r) => B(p, r)
  BY <1>2 DEF KeyBefore
<1>5. \A p, q \in P : p = q \/ B(p, q) \/ B(q, p)
  BY TextByKey
<1> HIDE DEF P, R, B
<1>6. Orders(R, P)
  BY <1>1, <1>3, <1>4, <1>5 DEF Orders
<1> QED  BY <1>6 DEF R, P

\* The listing puts the object with the n-th key at n.
LEMMA ObjectsInOrder ==
  ASSUME NEW items, IsListing(items), NEW count, ToldApart(items, count), NEW g
  PROVE  LET P == PositionsIn(items, count, g)
             O == ObjectsIn(items, count, g)
         IN  /\ Cardinality(O) = Cardinality(P)
             /\ \A n \in 1..Cardinality(P) :
                  ObjectAt(items, Nth(P, ByText(items, count, g), n)) = Nth(O, ByKey(O), n)
<1> DEFINE P == PositionsIn(items, count, g)
           O == ObjectsIn(items, count, g)
           R == ByText(items, count, g)
           f == [p \in P |-> ObjectAt(items, p)]
<1>1. f \in [P -> O] /\ \A o \in O : \E p \in P : f[p] = o
  BY DEF ObjectsIn
<1>2. \A p \in P : EntryIn(f[p]) = EntryAt(items, p)
  BY DEF EntryIn, EntryAt, ObjectAt
<1>3. ASSUME NEW p \in P, NEW q \in P, f[p] = f[q] PROVE p = q
  <2>1. EntryAt(items, p) = EntryAt(items, q)
    BY <1>2, <1>3
  <2> QED  BY <2>1 DEF ToldApart, PositionsIn
<1>4. f \in Bijection(P, O)
  BY <1>1, <1>3, Fun_IsBij
<1>5. IsFiniteSet(P) /\ Orders(R, P)
  BY PositionsFinite, TextOrders
<1>6. ASSUME NEW p \in P, NEW q \in P
      PROVE  <<p, q>> \in R <=> <<f[p], f[q]>> \in ByKey(O)
  <2>1. <<p, q>> \in R <=> KeyBefore(EntryAt(items, p), EntryAt(items, q))
    BY TextByKey DEF ByText
  <2>2. <<f[p], f[q]>> \in ByKey(O) <=> KeyBefore(EntryIn(f[p]), EntryIn(f[q]))
    BY <1>1 DEF ByKey
  <2> QED  BY <2>1, <2>2, <1>2
<1>7. \A p \in P : f[p] = ObjectAt(items, p)
  OBVIOUS
<1>8. \A n \in 1..Cardinality(P) : Nth(P, R, n) \in P
  BY <1>5, NthFacts
<1> HIDE DEF P, O, R, f
<1>9. Cardinality(O) = Cardinality(P)
      /\ \A n \in 1..Cardinality(P) : f[Nth(P, R, n)] = Nth(O, ByKey(O), n)
  BY <1>4, <1>5, <1>6, NthMoves
<1>10. Cardinality(O) = Cardinality(P)
       /\ \A n \in 1..Cardinality(P) : ObjectAt(items, Nth(P, R, n)) = Nth(O, ByKey(O), n)
  BY <1>7, <1>8, <1>9
<1> QED  BY <1>10 DEF P, O, R

LEMMA BookmarksSorted ==
  ASSUME NEW items, IsListing(items), NEW count, ToldApart(items, count), NEW g
  PROVE  BookmarksOf(items, count, g) = Sorted(ObjectsIn(items, count, g))
<1> DEFINE P == PositionsIn(items, count, g)
           O == ObjectsIn(items, count, g)
           R == ByText(items, count, g)
           A == BookmarkOrder(items, count, g)
           ranks == {<<x, Cardinality({y \in P :
                       LexBefore(BookmarkText(items, y), BookmarkText(items, x))})>> : x \in P}
<1>1. IsFiniteSet(P) /\ Orders(R, P)
  BY PositionsFinite, TextOrders
<1>2. A = [n \in 1..Cardinality(P) |-> CHOOSE x \in P : <<x, n - 1>> \in ranks]
  BY DEF BookmarkOrder, Arrange
<1>3. ASSUME NEW x \in P, NEW m PROVE <<x, m>> \in ranks <=> RankIn(P, R, x) = m
  <2>1. {y \in P : LexBefore(BookmarkText(items, y), BookmarkText(items, x))} = BelowIn(P, R, x)
    BY DEF BelowIn, ByText
  <2> QED  BY <2>1 DEF RankIn
<1>4. ASSUME NEW n \in 1..Cardinality(P) PROVE A[n] = Nth(P, R, n)
  <2>1. Nth(P, R, n) \in P /\ RankIn(P, R, Nth(P, R, n)) = n - 1
    BY <1>1, NthFacts
  <2>2. A[n] = CHOOSE x \in P : <<x, n - 1>> \in ranks
    BY <1>2
  <2>3. A[n] \in P /\ <<A[n], n - 1>> \in ranks
    <3>1. \E x \in P : <<x, n - 1>> \in ranks
      BY <2>1, <1>3
    <3> HIDE DEF ranks, A, P
    <3> QED  BY <2>2, <3>1
  <2>4. RankIn(P, R, A[n]) = n - 1
    BY <1>3, <2>3
  <2> QED  BY <1>1, <2>1, <2>3, <2>4, RankTells
<1>5. Cardinality(O) = Cardinality(P)
      /\ \A n \in 1..Cardinality(P) : ObjectAt(items, Nth(P, R, n)) = Nth(O, ByKey(O), n)
  BY ObjectsInOrder
<1>6. \A p : EntryIn(ObjectAt(items, p)) = EntryAt(items, p)
  BY DEF EntryIn, ObjectAt, EntryAt
<1>7. DOMAIN A = 1..Cardinality(P)
  BY <1>2
<1>8. BookmarksOf(items, count, g) = [n \in DOMAIN A |-> EntryAt(items, A[n])] \o <<>>
  BY DEF BookmarksOf, Map
<1> HIDE DEF P, O, R, A, ranks
<1>9. [n \in DOMAIN A |-> EntryAt(items, A[n])]
        = [n \in 1..Cardinality(O) |-> EntryIn(Nth(O, ByKey(O), n))]
  <2>1. \A n \in 1..Cardinality(P) : EntryAt(items, A[n]) = EntryIn(Nth(O, ByKey(O), n))
    BY <1>4, <1>5, <1>6
  <2> QED  BY <1>5, <1>7, <2>1
<1>10. BookmarksOf(items, count, g) = Sorted(O)
  BY <1>8, <1>9 DEF Sorted
<1> QED  BY <1>10 DEF O

-----------------------------------------------------------------------------
(***************************************************************************)
(* Listings of the same objects.                                           *)
(***************************************************************************)
LEMMA ObjectsIncluded ==
  ASSUME NEW s, NEW t, ToSet(s) \subseteq ToSet(t), NEW count, NEW g
  PROVE  ObjectsIn(s, count, g) \subseteq ObjectsIn(t, count, g)
<1> SUFFICES ASSUME NEW p \in PositionsIn(s, count, g)
             PROVE  ObjectAt(s, p) \in ObjectsIn(t, count, g)
  BY DEF ObjectsIn
<1>1. /\ p[1] \in DOMAIN s /\ BoundTo(s[p[1]].ref, Dashboard, count)
      /\ p[2] \in DOMAIN s[p[1]].entries /\ s[p[1]].entries[p[2]].group = g
  BY PositionFacts DEF PositionsIn, EntryAt
<1>2. PICK m \in DOMAIN t : t[m] = s[p[1]]
  BY <1>1 DEF ToSet
<1> DEFINE q == <<m, p[2]>>
<1>3. q \in PositionsIn(t, count, g)
  <2>1. q[1] = m /\ q[2] = p[2] /\ q = <<q[1], q[2]>>
    OBVIOUS
  <2> HIDE DEF q
  <2> QED  BY <1>1, <1>2, <2>1, PositionFacts DEF PositionsIn, EntryAt
<1>4. ObjectAt(t, q) = ObjectAt(s, p)
  BY <1>2 DEF ObjectAt
<1> QED  BY <1>3, <1>4 DEF ObjectsIn

LEMMA SameObjects ==
  ASSUME NEW s, NEW t, ToSet(s) = ToSet(t), NEW count, NEW g
  PROVE  ObjectsIn(s, count, g) = ObjectsIn(t, count, g)
<1>1. ToSet(s) \subseteq ToSet(t) /\ ToSet(t) \subseteq ToSet(s)
  OBVIOUS
<1>2. ObjectsIn(s, count, g) \subseteq ObjectsIn(t, count, g)
  BY <1>1, ObjectsIncluded
<1>3. ObjectsIn(t, count, g) \subseteq ObjectsIn(s, count, g)
  BY <1>1, ObjectsIncluded
<1> QED  BY <1>2, <1>3

\* The least order of a group is one of its objects'.
LEMMA SameGroupOrder ==
  ASSUME NEW s, NEW t, ToSet(s) = ToSet(t), NEW count, NEW g
  PROVE  GroupOrder(s, count, g) = GroupOrder(t, count, g)
<1>1. ASSUME NEW items
      PROVE  GroupOrder(items, count, g)
               = Least({EntryIn(o).order : o \in ObjectsIn(items, count, g)})
  <2>1. \A p : EntryIn(ObjectAt(items, p)) = EntryAt(items, p)
    BY DEF EntryIn, ObjectAt, EntryAt
  <2>2. {EntryAt(items, p).order : p \in PositionsIn(items, count, g)}
          = {EntryIn(o).order : o \in ObjectsIn(items, count, g)}
    BY <2>1 DEF ObjectsIn
  <2> QED  BY <2>2 DEF GroupOrder
<1>2. ObjectsIn(s, count, g) = ObjectsIn(t, count, g)
  BY SameObjects
<1>3. /\ GroupOrder(s, count, g) = Least({EntryIn(o).order : o \in ObjectsIn(s, count, g)})
      /\ GroupOrder(t, count, g) = Least({EntryIn(o).order : o \in ObjectsIn(t, count, g)})
  BY <1>1
<1> QED  BY <1>2, <1>3

ArrangedBy(S, ranks) == [n \in 1..Cardinality(S) |-> CHOOSE x \in S : <<x, n - 1>> \in ranks]

LEMMA SameGroups ==
  ASSUME NEW s, NEW t, ToSet(s) = ToSet(t), NEW count
  PROVE  Groups(s, count) = Groups(t, count)
<1> DEFINE G(items) == {EntryAt(items, p).group : p \in Positions(items, count)}
           Text(items, g) == <<GroupOrder(items, count, g)>> \o g
           Ranks(items, S) == {<<x, Cardinality({y \in S :
                                 LexBefore(Text(items, y), Text(items, x))})>> : x \in S}
<1>1. \A items : Groups(items, count) = ArrangedBy(G(items), Ranks(items, G(items)))
  BY DEF Groups, Arrange, ArrangedBy
<1>2. \A items : G(items) = {g \in G(items) : ObjectsIn(items, count, g) # {}}
  BY DEF ObjectsIn, PositionsIn
<1>3. \A items, g : ObjectsIn(items, count, g) # {} => g \in G(items)
  BY DEF ObjectsIn, PositionsIn
<1>4. G(s) = G(t)
  <2>1. \A g : ObjectsIn(s, count, g) = ObjectsIn(t, count, g)
    BY SameObjects
  <2> HIDE DEF G
  <2>2. \A g : g \in G(s) <=> g \in G(t)
    BY <1>2, <1>3, <2>1
  <2> QED  BY <2>2 DEF G
<1>5. \A g : Text(s, g) = Text(t, g)
  BY SameGroupOrder
<1>6. \A S : Ranks(s, S) = Ranks(t, S)
  <2> SUFFICES ASSUME NEW S PROVE Ranks(s, S) = Ranks(t, S)  OBVIOUS
  <2> HIDE DEF Text
  <2>1. \A x : {y \in S : LexBefore(Text(s, y), Text(s, x))}
                 = {y \in S : LexBefore(Text(t, y), Text(t, x))}
    BY <1>5
  <2> QED  BY <2>1
<1> HIDE DEF G, Ranks
<1> QED  BY <1>1, <1>4, <1>6

\* groupBookmarks sees the objects and not where they are listed, for any two
\* listings of the same objects that it can tell apart.
LEMMA SameBookmarks ==
  ASSUME NEW s, IsListing(s), NEW count, ToldApart(s, count),
         NEW t, IsListing(t), ToldApart(t, count), ToSet(s) = ToSet(t), NEW site
  PROVE  groupBookmarks(s, count, site) = groupBookmarks(t, count, site)
<1> DEFINE A == Groups(s, count)
           F(items) == [i \in DOMAIN A |->
                          BookmarkGroup(A[i], BookmarksOf(items, count, A[i]), site)]
<1>1. A = Groups(t, count)
  BY SameGroups
<1>2. \A g : BookmarksOf(s, count, g) = BookmarksOf(t, count, g)
  BY BookmarksSorted, SameObjects
<1>3. F(s) = F(t)
  BY <1>2
<1>4. groupBookmarks(s, count, site) = F(s) \o <<>>
  BY DEF groupBookmarks, Map
<1>5. groupBookmarks(t, count, site) = F(t) \o <<>>
  BY <1>1 DEF groupBookmarks, Map
<1> QED  BY <1>3, <1>4, <1>5

LEMMA SameHeader ==
  ASSUME NEW s, NEW t, ToSet(s) = ToSet(t), NEW count
  PROVE  headerWidgets(s, count) = headerWidgets(t, count)
<1>1. \A items, x : x \in BoundEntries(items, count) <=>
        \E w \in ToSet(items) : BoundTo(w.ref, Dashboard, count) /\ x \in HeaderEntries(w)
  BY DEF BoundEntries, ToSet
<1>2. BoundEntries(s, count) = BoundEntries(t, count)
  BY <1>1
<1> QED  BY <1>2 DEF headerWidgets

\* A sequence of the listed objects lists all of them.
LEMMA Permuted ==
  ASSUME NEW t, IsFiniteSet(DOMAIN t), NEW s \in SetToSeqs(ToSet(t))
  PROVE  /\ DOMAIN s \subseteq Nat /\ IsFiniteSet(DOMAIN s)
         /\ ToSet(s) = ToSet(t)
         /\ \A m, n \in DOMAIN s : s[m] = s[n] => m = n
<1> DEFINE S == ToSet(t)
           N == Cardinality(S)
           h == [n \in DOMAIN t |-> t[n]]
<1>1. IsFiniteSet(S) /\ N \in Nat
  <2>1. h \in Surjection(DOMAIN t, S)
    BY DEF Surjection, ToSet
  <2>2. IsFiniteSet(S)
    <3> HIDE DEF h, S
    <3> QED  BY <2>1, FS_Surjection
  <2> QED  BY <2>2, FS_CardinalityType
<1>2. s \in [1..N -> S] /\ \A m, n \in 1..N : m # n => s[m] # s[n]
  BY DEF SetToSeqs
<1> HIDE DEF S, N
<1>3. IsFiniteSet(1..N) /\ Cardinality(1..N) = N
  <2>1. 1 \in Int /\ N \in Int
    BY <1>1
  <2>2. IsFiniteSet(1..N) /\ Cardinality(1..N) = IF 1 > N THEN 0 ELSE N - 1 + 1
    BY <2>1, FS_Interval
  <2> QED  BY <1>1, <2>2
<1>4. s \in Injection(1..N, S)
  BY <1>2, Fun_IsInj
<1>5. s \in Surjection(1..N, S)
  <2>1. Cardinality(1..N) = Cardinality(S)
    BY <1>3 DEF N
  <2> QED  BY <1>1, <1>4, <2>1, FS_Injection
<1>6. ToSet(s) = S
  BY <1>2, <1>5 DEF ToSet, Surjection
<1>7. DOMAIN s = 1..N /\ 1..N \subseteq Nat
  BY <1>1, <1>2
<1> QED  BY <1>2, <1>3, <1>6, <1>7 DEF S

LEMMA PermutedListing ==
  ASSUME NEW t, IsListing(t), NEW count, ToldApart(t, count), NEW s \in SetToSeqs(ToSet(t))
  PROVE  IsListing(s) /\ ToldApart(s, count) /\ ToSet(s) = ToSet(t)
<1>1. /\ DOMAIN s \subseteq Nat /\ IsFiniteSet(DOMAIN s)
      /\ ToSet(s) = ToSet(t)
      /\ \A m, n \in DOMAIN s : s[m] = s[n] => m = n
  BY Permuted DEF IsListing
<1>2. \A n \in DOMAIN s : \E m \in DOMAIN t : t[m] = s[n]
  BY <1>1 DEF ToSet
<1>3. IsListing(s)
  BY <1>1, <1>2 DEF IsListing
<1>4. ASSUME NEW p \in Positions(s, count), NEW q \in Positions(s, count),
             EntryAt(s, p).group = EntryAt(s, q).group,
             EntryAt(s, p).order = EntryAt(s, q).order,
             EntryAt(s, p).name = EntryAt(s, q).name
      PROVE  p = q
  <2>p. /\ p = <<p[1], p[2]>> /\ p[1] \in DOMAIN s
        /\ BoundTo(s[p[1]].ref, Dashboard, count) /\ p[2] \in DOMAIN s[p[1]].entries
    BY PositionFacts
  <2>q. /\ q = <<q[1], q[2]>> /\ q[1] \in DOMAIN s
        /\ BoundTo(s[q[1]].ref, Dashboard, count) /\ q[2] \in DOMAIN s[q[1]].entries
    BY PositionFacts
  <2>1. PICK m \in DOMAIN t : t[m] = s[p[1]]
    BY <1>2, <2>p
  <2>2. PICK n \in DOMAIN t : t[n] = s[q[1]]
    BY <1>2, <2>q
  <2> DEFINE u == <<m, p[2]>>
             v == <<n, q[2]>>
  <2>u. u = <<u[1], u[2]>> /\ u[1] = m /\ u[2] = p[2]
    OBVIOUS
  <2>v. v = <<v[1], v[2]>> /\ v[1] = n /\ v[2] = q[2]
    OBVIOUS
  <2> HIDE DEF u, v
  <2>3. u \in Positions(t, count) /\ v \in Positions(t, count)
    BY <2>p, <2>q, <2>1, <2>2, <2>u, <2>v, PositionFacts
  <2>4. EntryAt(t, u) = EntryAt(s, p) /\ EntryAt(t, v) = EntryAt(s, q)
    BY <2>1, <2>2, <2>u, <2>v DEF EntryAt
  <2>5. u = v
    BY <1>4, <2>3, <2>4 DEF ToldApart
  <2>6. p[2] = q[2] /\ s[p[1]] = s[q[1]]
    BY <2>1, <2>2, <2>5, <2>u, <2>v
  <2>7. p[1] = q[1]
    BY <1>1, <2>6, <2>p, <2>q
  <2> QED  BY <2>6, <2>7, <2>p, <2>q
<1>5. ToldApart(s, count)
  BY <1>4 DEF ToldApart
<1> QED  BY <1>1, <1>3, <1>5

\* Whatever the cluster holds, the order of its lists is hidden.
LEMMA TypedHides == TypeOK => ListingOrderHidden
<1> SUFFICES ASSUME TypeOK PROVE ListingOrderHidden  OBVIOUS
<1> DEFINE count == cluster.count
           site == SiteOf(Now.style)
<1>1. cluster.bookmarks \in Held("bookmarks") /\ cluster.infos \in Held("infos")
  BY DEF TypeOK, ClusterType
<1>2. IsListing(cluster.bookmarks) /\ IsFiniteSet(DOMAIN cluster.infos)
  BY <1>1, ListingAssumption
<1>3. ASSUME ToldApart(cluster.bookmarks, count), NEW s \in SetToSeqs(ToSet(cluster.bookmarks))
      PROVE  groupBookmarks(s, count, site) = groupBookmarks(cluster.bookmarks, count, site)
  <2>1. IsListing(s) /\ ToldApart(s, count) /\ ToSet(s) = ToSet(cluster.bookmarks)
    BY <1>2, <1>3, PermutedListing
  <2> HIDE DEF count, site
  <2> QED  BY <1>2, <1>3, <2>1, SameBookmarks
<1>4. ASSUME NEW s \in SetToSeqs(ToSet(cluster.infos))
      PROVE  headerWidgets(s, count) = headerWidgets(cluster.infos, count)
  <2>1. ToSet(s) = ToSet(cluster.infos)
    BY <1>2, Permuted
  <2> QED  BY <2>1, SameHeader
<1> QED  BY <1>3, <1>4 DEF ListingOrderHidden

\* The groups of bookmarks and the header strip of the page never depend on the
\* order of the lists, whatever is edited, for listings of any length in which no
\* two bookmarks of a group have one order and one name (groupBookmarks sorts by
\* order and name, headerWidgets by order, object name and index).
THEOREM ListingOrderAlwaysHidden == Spec => []ListingOrderHidden
<1>1. ChecksOwned => TypeOK
  BY DEF ChecksOwned
<1>2. ChecksOwned => ListingOrderHidden
  BY <1>1, TypedHides
<1> QED  BY <1>2, ChecksAlwaysOwned, PTL
=============================================================================

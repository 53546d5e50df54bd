-------------------------- MODULE DashboardServer --------------------------
(***************************************************************************)
(* The dashboard's HTTP server (internal/dashboard/server.go, auth.go and  *)
(* site.go's LoadSite): how a request is authenticated, reads the          *)
(* Dashboard, its config objects and the Store one after the other, and is *)
(* answered while all of them change, and what the browser then shows.     *)
(*                                                                         *)
(* A world is one deployment: the cluster it starts with, the cluster its  *)
(* users and the poller turn that into field by field, in any order, the   *)
(* htpasswd files its Secrets hold at first, the requests its browsers     *)
(* send, and bounds: how many reads may fail and how often a Secret or     *)
(* basicAuthSecretRef is changed.  How a page is laid out is a parameter   *)
(* here and defined in DashboardPages.                                     *)
(***************************************************************************)
EXTENDS Naturals, Sequences, FiniteSets, Binding

CONSTANTS
    SiteOf(_),          \* the site, from the Dashboard's style
    FragmentOf(_, _),   \* the cards and bookmarks, from what LoadSite read and the Store
    HeaderOf(_, _),     \* the header strip, from the same
    NoPage,             \* no body yet
    NoFile,             \* no Secret, or no .htpasswd in it
    Clients,            \* browsers, one request at a time each
    Worlds,
    Secrets, Files,     \* htpasswd Secrets, and the files a user may write
    Creds,              \* the credentials a browser may send
    MaxAuthChecks,      \* maxConcurrentAuthChecks
    CacheTTL,           \* basicAuthCacheTTL, in ticks
    MaxDelay            \* bound: ticks a request spends being authenticated

NoCred == [user |-> "", pass |-> ""]
AllCreds == Creds \cup {NoCred}
NoStyle == <<>>         \* no field is set

Swapped == {"fragment", "header"}           \* what htmx polls and swaps
Handled == Swapped \cup {"index", "manifest", "robots"}     \* handlers that load the site
Routes == Handled \cup {"static", "healthz"}

\* What the worlds put in a field of the cluster.
Held(field) == {w.first[field] : w \in Worlds} \cup {w.then[field] : w \in Worlds}

ClusterType ==
    [present : BOOLEAN, style : Held("style"), count : Held("count"),
     bookmarks : Held("bookmarks"), infos : Held("infos"), cards : Held("cards"),
     authRef : Secrets \cup {Unset}]
WorldType ==
    [first : ClusterType, then : ClusterType, locked : BOOLEAN,
     files : [Secrets -> Files \cup {NoFile}], clients : SUBSET Clients,
     creds : SUBSET AllCreds, routes : SUBSET Routes, maxFailures : Nat, maxEdits : Nat]

ASSUME ServerAssumption ==
    /\ IsFiniteSet(Clients) /\ Worlds \subseteq WorldType
    /\ NoCred \notin Creds /\ NoFile \notin Files
    /\ MaxAuthChecks \in Nat \ {0} /\ CacheTTL \in Nat \ {0} /\ MaxDelay \in Nat

VARIABLES
    world, cluster,
    secrets,    \* per Secret, its .htpasswd file
    cache,      \* authCache: the entries, and the ticks until they expire
    sem,        \* authCheckSem: slots taken
    req,        \* per client, its request
    browser,    \* per client and URL, the cached response: ETag and body
    shown,      \* per client and URL, what the page shows
    fresh,      \* ghost: per client, the URLs whose last answer nothing has
                \* changed since the request was sent
    age,        \* ghost: ticks since a Secret was the one in force, and since
                \* it had a credential, or lacked it
    edits, failures

authVars == <<cache, sem>>
pageVars == <<browser, shown, fresh>>
ghosts == <<age, edits, failures>>
vars == <<world, cluster, secrets, authVars, req, pageVars, ghosts>>

-----------------------------------------------------------------------------
(***************************************************************************)
(* Responses.                                                              *)
(***************************************************************************)
\* What LoadSite read for a request.
ReadBy(r) == [style |-> r.style, count |-> r.count, bookmarks |-> r.bookmarks,
              infos |-> r.infos]

\* The body for a route, from what its request read.
Page(route, r, cards) ==
    LET site == SiteOf(r.style)
    IN  CASE route = "fragment" -> FragmentOf(ReadBy(r), cards)
          [] route = "header"   -> HeaderOf(ReadBy(r), cards)
          [] route = "index"    -> [site |-> site, auth |-> r.enabled,
                                    fragment |-> FragmentOf(ReadBy(r), cards)]
          [] route = "manifest" -> <<site.title, site.theme, site.startURL>>
          [] route = "robots"   -> <<site.disableIndexing>>

\* Mutant: the ETag is a version of the Store.
EtagOfStore(route, page, cards) == <<route, cards>>

\* A hash of the rendered bytes, taken to be injective.
etagFor(route, page, cards) == <<route, page>>
-----------------------------------------------------------------------------
(***************************************************************************)
(* Credentials.                                                            *)
(***************************************************************************)
\* The bcrypt lines by user; a later line replaces an earlier one.
parseHtpasswd(file) ==
    {[user |-> file[i].user, pass |-> file[i].pass] :
       i \in {i \in DOMAIN file : /\ file[i].bcrypt
                                  /\ \A j \in DOMAIN file :
                                       j > i /\ file[j].user = file[i].user => ~file[j].bcrypt}}

Protected(cl) == cl.present /\ cl.authRef # Unset
InForce(cl) == IF Protected(cl) THEN cl.authRef ELSE Unset

Has(file, k) == file # NoFile /\ k \in parseHtpasswd(file)

\* Ticks since each fact held; Lag and more count as Lag.
Lag == CacheTTL + 2 * MaxDelay
Since(holds, n, ticks) ==
    CASE holds -> 0 [] ~holds /\ n + ticks < Lag -> n + ticks [] OTHER -> Lag
Aged(cl, s, ticks) ==
    [ref |-> [r \in Secrets \cup {Unset} |-> Since(r = InForce(cl), age.ref[r], ticks)],
     in  |-> [r \in Secrets |-> [k \in Creds |-> Since(Has(s[r], k), age.in[r][k], ticks)]],
     out |-> [r \in Secrets |-> [k \in Creds |-> Since(~Has(s[r], k), age.out[r][k], ticks)]]]

Idle == [phase |-> "idle", again |-> FALSE, route |-> "healthz", cred |-> NoCred,
         secret |-> Unset, enabled |-> FALSE, entries |-> {}, waited |-> 0, clean |-> TRUE,
         style |-> NoStyle, count |-> 0, bookmarks |-> <<>>, infos |-> <<>>]
NoCache == [entries |-> {}, left |-> 0]

Init ==
    /\ world \in Worlds /\ cluster = world.first
    /\ secrets = world.files
    /\ cache = NoCache /\ sem = 0
    /\ req = [c \in Clients |-> Idle]
    /\ browser = [c \in Clients |-> [u \in Swapped |-> [tag |-> <<>>, body |-> NoPage]]]
    /\ shown = [c \in Clients |-> [u \in Swapped |-> NoPage]]
    /\ fresh = [c \in Clients |-> {}]
    /\ age = [ref |-> [r \in Secrets \cup {Unset} |-> Since(r = InForce(cluster), Lag, 0)],
              in  |-> [r \in Secrets |-> [k \in Creds |-> Since(Has(secrets[r], k), Lag, 0)]],
              out |-> [r \in Secrets |-> [k \in Creds |-> Since(~Has(secrets[r], k), Lag, 0)]]]
    /\ edits = 0 /\ failures = 0

Go(c, r) == req' = [req EXCEPT ![c] = r]
End(c) == Go(c, Idle)                           \* the request is answered
NoPageYet == UNCHANGED pageVars
-----------------------------------------------------------------------------
(***************************************************************************)
(* basicAuthMiddleware and loadBasicAuth, which handleIndex calls again.   *)
(***************************************************************************)
Arrive(c, route, cred) ==
    /\ req[c].phase = "idle" /\ route \in world.routes /\ cred \in world.creds
    /\ Go(c, [Idle EXCEPT !.phase = IF route = "healthz" THEN "serve" ELSE "auth",
                           !.route = route, !.cred = cred])
    /\ UNCHANGED <<world, cluster, secrets, authVars, pageVars, ghosts>>

\* Mutant: a cached file is used for ever.
HitAtAnyAge(entry) == entry # NoCache

CacheHit(entry) == entry.left > 0

\* The lookup came to enabled, with these entries.
Looked(c, enabled, entries) ==
    Go(c, [req[c] EXCEPT !.phase = CASE req[c].again             -> "snapshot"
                                     [] ~req[c].again /\ enabled -> "check"
                                     [] OTHER                    -> "serve",
                         !.enabled = enabled, !.entries = entries])

LookupAuth(c) ==
    /\ req[c].phase = "auth"
    /\ CASE ~Protected(cluster) -> Looked(c, FALSE, {})
         [] Protected(cluster) /\ CacheHit(cache) -> Looked(c, TRUE, cache.entries)
         [] OTHER -> Go(c, [req[c] EXCEPT !.phase = "fetch", !.secret = cluster.authRef])
    /\ UNCHANGED <<world, cluster, secrets, authVars, ghosts>> /\ NoPageYet

FetchSecret(c) ==
    /\ req[c].phase = "fetch"
    /\ \/ /\ secrets[req[c].secret] # NoFile
          /\ Go(c, [req[c] EXCEPT !.phase = "cache", !.secret = Unset,
                                 !.entries = parseHtpasswd(secrets[req[c].secret])])
       \/ /\ secrets[req[c].secret] = NoFile        \* no Secret, or no .htpasswd in it
          /\ End(c)                                 \* 500
    /\ UNCHANGED <<world, cluster, secrets, authVars, pageVars, ghosts>>

NewEntry(entries) == [entries |-> entries, left |-> CacheTTL]

StoreAuth(c) ==
    /\ req[c].phase = "cache"
    /\ cache' = NewEntry(req[c].entries)
    /\ Looked(c, TRUE, req[c].entries)
    /\ UNCHANGED <<world, cluster, secrets, sem, ghosts>> /\ NoPageYet

CheckCredential(c) ==
    /\ req[c].phase = "check"
    /\ \/ req[c].cred = NoCred /\ End(c) /\ UNCHANGED sem                          \* 401
       \/ /\ req[c].cred # NoCred /\ sem < MaxAuthChecks
          /\ sem' = sem + 1
          /\ Go(c, [req[c] EXCEPT !.phase = "compare"])
       \/ req[c].cred # NoCred /\ sem = MaxAuthChecks /\ End(c) /\ UNCHANGED sem    \* 429
    /\ UNCHANGED <<world, cluster, secrets, cache, pageVars, ghosts>>

\* Mutant: a refused credential keeps its slot.
CompareLeaks(c) ==
    /\ req[c].phase = "compare"
    /\ IF req[c].cred \in req[c].entries
       THEN Go(c, [req[c] EXCEPT !.phase = "serve"]) /\ sem' = sem - 1
       ELSE End(c) /\ UNCHANGED sem
    /\ UNCHANGED <<world, cluster, secrets, cache, pageVars, ghosts>>

CompareCredential(c) ==
    /\ req[c].phase = "compare"
    /\ sem' = sem - 1
    /\ IF req[c].cred \in req[c].entries
       THEN Go(c, [req[c] EXCEPT !.phase = "serve", !.entries = {}])
       ELSE End(c)                                  \* 401
    /\ UNCHANGED <<world, cluster, secrets, cache, pageVars, ghosts>>
-----------------------------------------------------------------------------
(***************************************************************************)
(* The handlers.  LoadSite gets the Dashboard, counts the Dashboards and   *)
(* lists Bookmarks and InfoWidgets, each from an informer of its own.      *)
(***************************************************************************)
ServeStatic(c) ==
    /\ req[c].phase = "serve" /\ req[c].route \notin Handled
    /\ End(c)
    /\ UNCHANGED <<world, cluster, secrets, authVars, pageVars, ghosts>>

ReadStyle(c) ==
    /\ req[c].phase = "serve" /\ req[c].route \in Handled
    /\ Go(c, [req[c] EXCEPT !.phase = "count",
                           !.style = IF cluster.present THEN cluster.style ELSE NoStyle])
    /\ UNCHANGED <<world, cluster, secrets, authVars, ghosts>> /\ NoPageYet

CountDashboards(c) ==
    /\ req[c].phase = "count"
    /\ Go(c, [req[c] EXCEPT !.phase = "bookmarks", !.count = cluster.count])
    /\ UNCHANGED <<world, cluster, secrets, authVars, ghosts>> /\ NoPageYet

ListBookmarks(c) ==
    /\ req[c].phase = "bookmarks"
    /\ Go(c, [req[c] EXCEPT !.phase = "infos", !.bookmarks = cluster.bookmarks])
    /\ UNCHANGED <<world, cluster, secrets, authVars, ghosts>> /\ NoPageYet

ListInfoWidgets(c) ==
    /\ req[c].phase = "infos"
    /\ Go(c, [req[c] EXCEPT !.infos = cluster.infos, !.again = TRUE,
                           !.phase = IF req[c].route = "index" THEN "auth" ELSE "snapshot"])
    /\ UNCHANGED <<world, cluster, secrets, authVars, ghosts>> /\ NoPageYet

\* A read that fails ends the request, whichever it is.
ReadFails(c) ==
    /\ failures < world.maxFailures
    /\ \/ req[c].phase \in {"auth", "fetch", "count", "bookmarks", "infos"}
       \/ req[c].phase = "serve" /\ req[c].route \in Handled
    /\ End(c)
    /\ failures' = failures + 1
    /\ UNCHANGED <<world, cluster, secrets, authVars, pageVars, age, edits>>

NotModified(held, tag) == held.tag = tag

\* The Store's snapshot, the page, and its answer: writeCachedHTML for the
\* parts that htmx polls, a plain body for the others.
Render(c) ==
    LET r     == req[c]
        u     == r.route
        page  == Page(u, r, cluster.cards)
        tag   == etagFor(u, page, cluster.cards)
    IN  /\ r.phase = "snapshot" /\ End(c)
        /\ \/ /\ u \in Swapped /\ NotModified(browser[c][u], tag)
              /\ shown' = [shown EXCEPT ![c][u] = browser[c][u].body]     \* 304
              /\ UNCHANGED browser
           \/ /\ u \in Swapped /\ ~NotModified(browser[c][u], tag)
              /\ browser' = [browser EXCEPT ![c][u] = [tag |-> tag, body |-> page]]
              /\ shown' = [shown EXCEPT ![c][u] = page]
           \/ /\ u = "index"            \* the header comes with its first poll
              /\ shown' = [shown EXCEPT ![c] =
                             [fragment |-> page.fragment, header |-> NoPage]]
              /\ UNCHANGED browser
           \/ u \notin Swapped \cup {"index"} /\ UNCHANGED <<browser, shown>>
        /\ fresh' = [fresh EXCEPT ![c] =
             LET other == IF u = "index" THEN {} ELSE @ \ {u}
                 part  == IF u = "index" THEN "fragment" ELSE u
             IN  IF u \in Swapped \cup {"index"}
                 THEN other \cup (IF r.clean THEN {part} ELSE {}) ELSE @]
        /\ UNCHANGED <<world, cluster, secrets, authVars, ghosts>>
-----------------------------------------------------------------------------
(***************************************************************************)
(* The rest of the system: users and the poller, and time.                 *)
(***************************************************************************)
Disturbed == [c \in Clients |-> IF req[c].phase = "idle" THEN req[c]
                                ELSE [req[c] EXCEPT !.clean = FALSE]]

Edit(field) ==
    /\ cluster[field] # world.then[field]
    /\ cluster' = [cluster EXCEPT ![field] = world.then[field]]
    /\ age' = Aged(cluster', secrets, 0)
    /\ req' = Disturbed /\ fresh' = [c \in Clients |-> {}]
    /\ UNCHANGED <<world, secrets, authVars, browser, shown, edits, failures>>

EditAuth ==
    /\ world.locked /\ edits < world.maxEdits
    /\ edits' = edits + 1
    /\ \/ \E s \in Secrets, f \in Files \cup {NoFile} :
            f # secrets[s] /\ secrets' = [secrets EXCEPT ![s] = f] /\ UNCHANGED cluster
       \/ \E s \in Secrets \cup {Unset} :
            s # cluster.authRef /\ cluster' = [cluster EXCEPT !.authRef = s] /\ UNCHANGED secrets
    /\ age' = Aged(cluster', secrets', 0)
    /\ UNCHANGED <<world, authVars, req, pageVars, failures>>

Guarded == {"auth", "fetch", "cache", "check", "compare"}
Tick ==
    /\ world.locked
    /\ \A c \in Clients : req[c].phase \in Guarded => req[c].waited < MaxDelay
    /\ req' = [c \in Clients |->
                 IF req[c].phase \in Guarded THEN [req[c] EXCEPT !.waited = @ + 1] ELSE req[c]]
    /\ cache' = [cache EXCEPT !.left = IF @ > 0 THEN @ - 1 ELSE 0]
    /\ age' = Aged(cluster, secrets, 1)
    /\ UNCHANGED <<world, cluster, secrets, sem, pageVars, edits, failures>>

Step(c) ==
    \/ LookupAuth(c) \/ FetchSecret(c) \/ StoreAuth(c)
    \/ CheckCredential(c) \/ CompareCredential(c)
    \/ ServeStatic(c) \/ ReadStyle(c) \/ CountDashboards(c)
    \/ ListBookmarks(c) \/ ListInfoWidgets(c) \/ ReadFails(c) \/ Render(c)

Next ==
    \/ \E c \in world.clients, u \in Routes, k \in AllCreds : Arrive(c, u, k)
    \/ \E c \in Clients : Step(c)
    \/ \E field \in DOMAIN cluster : Edit(field)
    \/ EditAuth \/ Tick

Spec == Init /\ [][Next]_vars
-----------------------------------------------------------------------------
(***************************************************************************)
(* Properties.                                                             *)
(***************************************************************************)
Phases == Guarded \cup {"idle", "serve", "count", "bookmarks", "infos", "snapshot"}

\* The credentials of htpasswd files.
FileEntries == UNION {parseHtpasswd(f) : f \in Files}

RequestType ==
    [phase : Phases, again : BOOLEAN, route : Routes, cred : AllCreds,
     secret : Secrets \cup {Unset}, enabled : BOOLEAN, entries : SUBSET FileEntries,
     waited : 0..MaxDelay, clean : BOOLEAN, style : Held("style") \cup {NoStyle},
     count : Held("count") \cup {0}, bookmarks : Held("bookmarks") \cup {<<>>},
     infos : Held("infos") \cup {<<>>}]

TypeOK ==
    /\ cluster \in ClusterType
    /\ secrets \in [Secrets -> Files \cup {NoFile}]
    /\ cache \in [entries : SUBSET FileEntries, left : 0..CacheTTL]
    /\ sem \in 0..MaxAuthChecks
    /\ req \in [Clients -> RequestType]
    /\ fresh \in [Clients -> SUBSET Swapped]
    /\ age \in [ref : [Secrets \cup {Unset} -> 0..Lag],
                in : [Secrets -> [Creds -> 0..Lag]], out : [Secrets -> [Creds -> 0..Lag]]]
    /\ edits \in 0..world.maxEdits /\ failures \in 0..world.maxFailures

\* What a request would get that read everything at this moment.
Now == [style |-> IF cluster.present THEN cluster.style ELSE NoStyle, count |-> cluster.count,
        bookmarks |-> cluster.bookmarks, infos |-> cluster.infos,
        enabled |-> Protected(cluster)]
Current(u) == Page(u, Now, cluster.cards)

\* A slot of authCheckSem is held by a request that is comparing a credential,
\* also when the comparison fails: none is lost, however many logins are refused.
\* (The state being well typed is checked along with it.)
ChecksOwned == TypeOK /\ sem = Cardinality({c \in Clients : req[c].phase = "compare"})

\* If nothing changed from the request to now, the page shows what the cluster
\* and the Store hold, also when the answer was 304 and the body is one that an
\* earlier request of this browser got (writeCachedHTML).
QuietAnswerCurrent ==
    \A c \in Clients : \A u \in fresh[c] : shown[c][u] = Current(u)

\* A credential is let in only if the Secret in force had it, and refused only
\* if that lacked it, at moments of the last CacheTTL ticks, or while the requests
\* that filled and read the cache were being served; a request without one is
\* let in only if no Secret was in force.  So a revoked credential is out by
\* then and a new one in, whatever the interleaving (loadBasicAuth,
\* basicAuthMiddleware).
VerdictRecent ==
    [][\A c \in Clients :
        LET k == req[c].cred
            Recently(s) == age.ref[s] < Lag
        IN  req[c].phase \in Guarded =>
              /\ req'[c].phase = "serve" =>
                   \/ Recently(Unset)
                   \/ k # NoCred /\ \E s \in Secrets : Recently(s) /\ age.in[s][k] < Lag
              /\ req[c].phase = "compare" /\ req'[c].phase = "idle" =>
                   \E s \in Secrets : Recently(s) /\ age.out[s][k] < Lag]_vars
=============================================================================

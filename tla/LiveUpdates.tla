---------------------------- MODULE LiveUpdates ----------------------------
(***************************************************************************)
(* Push updates to open pages: the Broadcaster (internal/dashboard/sse.go),*)
(* the publishing end of a poll cycle (poller.go) and the handler of       *)
(* GET /events (server.go), with the browser's side of it.                 *)
(*                                                                         *)
(* What /fragment and /header render is a version number per part, and a   *)
(* content hash is that version; 0 stands for the empty hash of a failed   *)
(* LoadSite.  One client stands for one open page and its event stream.    *)
(***************************************************************************)
EXTENDS Integers, Sequences, FiniteSets

CONSTANTS
    Clients,
    MaxSubs,        \* maxSSESubscribers
    MaxChanges,     \* bound: how often what the parts render may change
    MaxFailures,    \* bound: how often LoadSite may fail in currentHashes
    PromptConnect   \* TRUE: nothing changes between a page's load and the
                    \* moment its event stream has taken its baseline

ASSUME LiveAssumption ==
    /\ IsFiniteSet(Clients)
    /\ MaxSubs \in Nat \ {0} /\ MaxChanges \in Nat /\ MaxFailures \in Nat
    /\ PromptConnect \in BOOLEAN

Parts  == {"fragment", "header"}
Hashes == [Parts -> 0..(MaxChanges + 1)]
NoHash == [p \in Parts |-> 0]       \* currentHashes after a LoadSite error

VARIABLES
    version,    \* what each part renders now
    failures,   \* how often LoadSite has failed
    \* The poller's goroutine:
    ppc,        \* "poll", "check", "hash" or "publish"
    pub,        \* the hashes being, or last, published
    todo,       \* channels Publish has not served yet
    at,         \* the channel Publish is serving, and its select statement
    \* The Broadcaster:
    subs,       \* Broadcaster.subs, one channel per client
    chan,       \* the contents of each channel, at most one value
    \* handleEvents, per connection:
    hpc,        \* "none", "sub", "loop", "write", "blocked" or "closing"
    last,       \* lastFragment, lastHeader
    got,        \* the value received last
    left,       \* parts of got the handler has still to compare
    \* The browser:
    stalled,    \* the client has stopped reading, for longer than sseWriteTimeout
    hidden,     \* the tab is not visible: requests are suppressed
    page,       \* the version of each part that the page shows
    events,     \* change events that the page has not acted on yet
    \* History, never read by the code:
    served      \* connections that the last Publish served

pollVars    == <<ppc, pub, todo, at>>
handlerVars == <<hpc, last, got, left>>
pageVars    == <<stalled, hidden, page, events>>
vars == <<version, failures, pollVars, subs, chan, handlerVars, pageVars, served>>

Nowhere == <<>>     \* at, when no channel is being served

Init ==
    /\ version = [p \in Parts |-> 1] /\ failures = 0
    /\ ppc = "poll" /\ pub = NoHash /\ todo = {} /\ at = Nowhere
    /\ subs = {} /\ chan = [c \in Clients |-> <<>>]
    /\ hpc = [c \in Clients |-> "none"]
    /\ last = [c \in Clients |-> NoHash] /\ got = [c \in Clients |-> NoHash]
    /\ left = [c \in Clients |-> {}]
    /\ stalled = [c \in Clients |-> FALSE]
    /\ hidden = [c \in Clients |-> FALSE]
    /\ page = [c \in Clients |-> version]
    /\ events = [c \in Clients |-> {}]
    /\ served = {}

\* The Broadcaster's mutex is held throughout Publish.
Unlocked == ppc # "publish"

\* A custom resource or a card in the Store changes what a part renders.
Change(p) ==
    /\ version["fragment"] + version["header"] < MaxChanges + 2
    /\ PromptConnect => \A c \in Clients : hpc[c] # "sub"
    /\ version' = [version EXCEPT ![p] = @ + 1]
    /\ UNCHANGED <<failures, pollVars, subs, chan, handlerVars, pageVars, served>>

\* currentHashes: the hashes of both parts, or none after a LoadSite error.
CurrentHashes(h) ==
    \/ h = version /\ UNCHANGED failures
    \/ h = NoHash /\ failures < MaxFailures /\ failures' = failures + 1
-----------------------------------------------------------------------------
(***************************************************************************)
(* The end of pollOnce.                                                    *)
(***************************************************************************)
PollerGoes(from, to) ==
    /\ ppc = from /\ ppc' = to
    /\ UNCHANGED <<version, failures, pub, todo, at, subs, chan, handlerVars, pageVars,
                   served>>

EndCycle == PollerGoes("poll", "check")     \* the prunes are done

HasSubscribers == PollerGoes("check", IF subs # {} THEN "hash" ELSE "poll")

Publish ==          \* currentHashes, then Publish takes the lock
    /\ ppc = "hash"
    /\ ppc' = "publish"
    /\ pub' \in {version, NoHash} /\ CurrentHashes(pub')
    /\ todo' = subs /\ at' = Nowhere /\ served' = {}
    /\ UNCHANGED <<version, subs, chan, handlerVars, pageVars>>

\* The first of Publish's selects on channel c: send, or find it full.
Deliver(c, stage) ==
    /\ chan' = [chan EXCEPT ![c] = <<pub>>]
    /\ served' = served \cup {c}
    /\ at' = stage
Serve(c) ==
    /\ ppc = "publish" /\ at = Nowhere /\ c \in todo
    /\ todo' = todo \ {c}
    /\ UNCHANGED <<version, failures, ppc, pub, subs, handlerVars, pageVars>>

\* Mutant: a channel that is still full keeps its old value.
OfferOrSkip(c) ==
    /\ Serve(c)
    /\ IF chan[c] = <<>> THEN Deliver(c, Nowhere)
       ELSE served' = served \cup {c} /\ UNCHANGED <<chan, at>>

\* Mutant: Publish waits for room in the channel.
OfferBlocking(c) == Serve(c) /\ chan[c] = <<>> /\ Deliver(c, Nowhere)

Offer(c) ==
    /\ Serve(c)
    /\ IF chan[c] = <<>> THEN Deliver(c, Nowhere)
       ELSE at' = <<c, "drain">> /\ UNCHANGED <<chan, served>>

Drain(c) ==         \* the second: take the old value if it is still there
    /\ at = <<c, "drain">>
    /\ chan' = [chan EXCEPT ![c] = <<>>]
    /\ at' = <<c, "send">>
    /\ UNCHANGED <<version, failures, ppc, pub, todo, subs, handlerVars, pageVars, served>>

Send(c) ==          \* the third: send, unless the channel is full
    /\ at = <<c, "send">>
    /\ IF chan[c] = <<>> THEN Deliver(c, Nowhere)
       ELSE at' = Nowhere /\ served' = served \cup {c} /\ UNCHANGED chan
    /\ UNCHANGED <<version, failures, ppc, pub, todo, subs, handlerVars, pageVars>>

Unlock == todo = {} /\ at = Nowhere /\ PollerGoes("publish", "poll")
-----------------------------------------------------------------------------
(***************************************************************************)
(* handleEvents.                                                           *)
(***************************************************************************)
Subscribe(c) ==
    /\ hpc[c] = "none" /\ ~stalled[c] /\ Unlocked
    /\ PromptConnect => page[c] = version
    /\ subs' = subs \cup {c}
    /\ chan' = [chan EXCEPT ![c] = <<>>]
    /\ hpc' = [hpc EXCEPT ![c] = "sub"]
    /\ got' = [got EXCEPT ![c] = NoHash]
    /\ events' = [events EXCEPT ![c] = {}]
    /\ served' = served \ {c}
    /\ UNCHANGED <<version, failures, pollVars, last, left, stalled, hidden, page>>

\* Mutant: the limit on streams is not checked.
ConnectUnbounded(c) == Subscribe(c)

Connect(c) == Subscribe(c) /\ Cardinality(subs) < MaxSubs

Baseline(c) ==      \* currentHashes, after the channel is registered
    /\ hpc[c] = "sub"
    /\ \E h \in {version, NoHash} :
         CurrentHashes(h) /\ last' = [last EXCEPT ![c] = h]
    /\ hpc' = [hpc EXCEPT ![c] = "loop"]
    /\ UNCHANGED <<version, pollVars, subs, chan, got, left, pageVars, served>>

Receive(c) ==
    /\ hpc[c] = "loop" /\ chan[c] # <<>>
    /\ got' = [got EXCEPT ![c] = Head(chan[c])]
    /\ chan' = [chan EXCEPT ![c] = <<>>]
    /\ left' = [left EXCEPT ![c] = Parts]
    /\ hpc' = [hpc EXCEPT ![c] = "write"]
    /\ UNCHANGED <<version, failures, pollVars, subs, last, pageVars, served>>

\* The part to compare next: the fragment, then the header.
NextPart(c) == IF "fragment" \in left[c] THEN "fragment" ELSE "header"
Changed(c)  == got[c][NextPart(c)] \notin {0, last[c][NextPart(c)]}

\* A changed part becomes the baseline and its event is written.
Write(c, baseline) ==
    /\ hpc[c] = "write" /\ left[c] # {}
    /\ left' = [left EXCEPT ![c] = @ \ {NextPart(c)}]
    /\ IF Changed(c)
         THEN /\ last' = [last EXCEPT ![c] = baseline]
              /\ IF stalled[c]
                   THEN hpc' = [hpc EXCEPT ![c] = "blocked"] /\ UNCHANGED events
                   ELSE /\ events' = [events EXCEPT ![c] = @ \cup {NextPart(c)}]
                        /\ UNCHANGED hpc
         ELSE UNCHANGED <<last, hpc, events>>
    /\ UNCHANGED <<version, failures, pollVars, subs, chan, got, stalled, hidden, page,
                   served>>

\* Mutant: one event stands for both parts.
ComparePairOnce(c) == Write(c, got[c])

Compare(c) == Write(c, [last[c] EXCEPT ![NextPart(c)] = got[c][NextPart(c)]])

HandlerGoes(c, from, to) ==
    /\ hpc[c] = from /\ hpc' = [hpc EXCEPT ![c] = to]
    /\ UNCHANGED <<version, failures, pollVars, subs, chan, last, got, left, pageVars,
                   served>>

Flushed(c) == left[c] = {} /\ HandlerGoes(c, "write", "loop")

Heartbeat(c) == stalled[c] /\ HandlerGoes(c, "loop", "blocked")  \* else no effect

\* Mutant: writes have no deadline.
NoWriteDeadline(c) == FALSE /\ HandlerGoes(c, "blocked", "closing")

\* sseWriteTimeout passes, or the write fails otherwise: the handler returns.
WriteTimeout(c) == HandlerGoes(c, "blocked", "closing")

Disconnect(c) == HandlerGoes(c, "loop", "closing")      \* the request's context ends

Release(c) ==
    /\ hpc[c] = "closing"
    /\ subs' = subs \ {c}
    /\ hpc' = [hpc EXCEPT ![c] = "none"]
    /\ left' = [left EXCEPT ![c] = {}]
    /\ UNCHANGED <<version, failures, pollVars, chan, last, got, pageVars, served>>

\* Mutant: Unsubscribe does not wait for the lock.
UnsubscribeUnlocked(c) == Release(c)

Unsubscribe(c) == Unlocked /\ Release(c)

-----------------------------------------------------------------------------
(***************************************************************************)
(* The browser: the page shell's script and htmx.                          *)
(***************************************************************************)
ServerIdle == UNCHANGED <<version, failures, pollVars, subs, chan, handlerVars, served>>

Stall(c) ==
    /\ hpc[c] # "none" /\ ~stalled[c]
    /\ stalled' = [stalled EXCEPT ![c] = TRUE]
    /\ ServerIdle /\ UNCHANGED <<hidden, page, events>>

Leave(c) ==         \* a stalled client whose stream has ended is closed
    /\ hpc[c] = "none" /\ stalled[c]
    /\ stalled' = [stalled EXCEPT ![c] = FALSE]
    /\ ServerIdle /\ UNCHANGED <<hidden, page, events>>

Load(c) ==          \* a full page load, before its script connects
    /\ hpc[c] = "none" /\ page[c] # version
    /\ page' = [page EXCEPT ![c] = version]
    /\ ServerIdle /\ UNCHANGED <<stalled, hidden, events>>

Fetch(c, p) ==      \* an event makes htmx fetch its part, unless the tab is hidden
    /\ p \in events[c]
    /\ page' = [page EXCEPT ![c][p] = IF hidden[c] THEN @ ELSE version[p]]
    /\ events' = [events EXCEPT ![c] = @ \ {p}]
    /\ ServerIdle /\ UNCHANGED <<stalled, hidden>>

Hide(c) ==
    /\ hpc[c] # "none" /\ ~hidden[c]
    /\ hidden' = [hidden EXCEPT ![c] = TRUE]
    /\ ServerIdle /\ UNCHANGED <<stalled, page, events>>

Visible(c, shown) ==
    /\ hidden[c]
    /\ hidden' = [hidden EXCEPT ![c] = FALSE]
    /\ page' = [page EXCEPT ![c] = shown]
    /\ ServerIdle /\ UNCHANGED <<stalled, events>>

\* Mutant: a tab that becomes visible waits for the next event.
ShowOnly(c) == Visible(c, page[c])

Show(c) == Visible(c, version)      \* it fetches both parts at once

Poll == \/ EndCycle \/ HasSubscribers \/ Publish \/ Unlock
        \/ \E c \in Clients : Offer(c) \/ Drain(c) \/ Send(c)

Handle(c) ==
    \/ Baseline(c) \/ Receive(c) \/ Compare(c) \/ Flushed(c)
    \/ WriteTimeout(c) \/ Unsubscribe(c)

Browse(c) ==
    \/ Stall(c) \/ Leave(c) \/ Load(c) \/ Hide(c) \/ Show(c)
    \/ \E p \in Parts : Fetch(c, p)

Next ==
    \/ \E p \in Parts : Change(p)
    \/ Poll
    \/ \E c \in Clients :
         Connect(c) \/ Handle(c) \/ Heartbeat(c) \/ Disconnect(c) \/ Browse(c)

Spec == Init /\ [][Next]_vars

(***************************************************************************)
(* Both goroutines keep running, the heartbeat ticks and a blocked write   *)
(* times out.  Go's mutex and select do not starve a waiting goroutine.    *)
(* The browser acts on an event it has received.  Nothing makes anybody    *)
(* connect, read or look.                                                  *)
(***************************************************************************)
FairSpec ==
    /\ Spec
    /\ WF_vars(Poll)
    /\ \A c \in Clients :
         /\ WF_vars(Handle(c)) /\ SF_vars(Unsubscribe(c)) /\ SF_vars(Receive(c))
         /\ SF_vars(Heartbeat(c))
         /\ \A p \in Parts : WF_vars(Fetch(c, p))
-----------------------------------------------------------------------------
(***************************************************************************)
(* The promise of LatestValue.  Publish's three selects are one Put: it    *)
(* happens at the first of them, or at the drain that empties the channel  *)
(* when the first found it full.                                           *)
(***************************************************************************)
Unserved == todo \cup {c \in Clients : at = <<c, "drain">>}

Unread(c) ==
    IF c \notin subs THEN <<>>
    ELSE IF at = <<c, "send">> THEN <<pub>> ELSE chan[c]
Box == [c \in Clients |-> Unread(c)]

Boxes ==
    INSTANCE LatestValue WITH
        Readers <- Clients, Values <- Hashes, Slots <- MaxSubs, Nothing <- NoHash,
        open <- subs, value <- pub, due <- Unserved,
        box <- Box, taken <- got

-----------------------------------------------------------------------------
(***************************************************************************)
(* Properties.                                                             *)
(***************************************************************************)
\* Every variable has its type; Publish only serves registered channels.
TypeOK ==
    /\ version \in Hashes /\ failures \in 0..MaxFailures /\ pub \in Hashes
    /\ ppc \in {"poll", "check", "hash", "publish"}
    /\ todo \subseteq subs /\ subs \subseteq Clients /\ served \subseteq Clients
    /\ at \in {Nowhere} \cup (subs \X {"drain", "send"})
    /\ chan \in [Clients -> {<<>>} \cup {<<h>> : h \in Hashes}]
    /\ hpc \in [Clients -> {"none", "sub", "loop", "write", "blocked", "closing"}]
    /\ last \in [Clients -> Hashes] /\ got \in [Clients -> Hashes]
    /\ left \in [Clients -> SUBSET Parts] /\ events \in [Clients -> SUBSET Parts]
    /\ page \in [Clients -> Hashes]
    /\ stalled \in [Clients -> BOOLEAN] /\ hidden \in [Clients -> BOOLEAN]

\* At most MaxSubs streams are open, and every slot of the Broadcaster belongs to
\* a handler that is still running: none is leaked and none given away twice.
\* (The state being well typed is checked along with it.)
SlotsOwned ==
    /\ TypeOK
    /\ subs = {c \in Clients : hpc[c] # "none"}
    /\ Cardinality(subs) <= MaxSubs

\* Once Publish returns, every connection it served has the newest hashes: they
\* wait in its channel or its handler has taken them, even when the handler was
\* reading while Publish replaced an older value.
NewestPending ==
    Unlocked => \A c \in served \cap subs :
                  chan[c] = <<pub>> \/ (chan[c] = <<>> /\ got[c] = pub)

\* However the handlers' receives fall between its three selects, Publish puts
\* its value into each connection's channel as if in one step: a handler never
\* receives an older value after a newer one, nor one value twice, no connection
\* that was registered is passed over, and none comes or goes in between.
ReplacesUnread == Boxes!Spec

\* When a handler has dealt with a published value, its page shows that content
\* or something newer, or an event telling it to refetch is on its way.
PublishReachesPage ==
    \A c \in Clients, p \in Parts :
      hpc[c] = "loop" /\ ~hidden[c] =>
        got[c][p] <= page[c][p] \/ p \in events[c]

\* A page whose stream stays open comes to show every change by push alone.
PagesConverge ==
    \A c \in Clients, p \in Parts, v \in 1..(MaxChanges + 1) :
      (hpc[c] = "loop" /\ version[p] = v) ~>
        (page[c][p] >= v \/ hidden[c] \/ hpc[c] \in {"closing", "none"})

\* A client that stops reading does not pin its slot.
StalledReleased ==
    \A c \in Clients : (stalled[c] /\ c \in subs) ~> (c \notin subs)

\* Publish always returns, so no reader and no writer can stop the poll cycle.
PublishEnds == (ppc = "publish") ~> (ppc # "publish")
=============================================================================

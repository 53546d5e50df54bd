------------------------- MODULE LiveUpdatesProofs -------------------------
(***************************************************************************)
(* The Broadcaster and its handlers, for any number of clients, slots and  *)
(* changes: no slot leaks, Publish leaves the newest hashes with every     *)
(* connection it has served, and a handler drops nothing its page lacks.   *)
(*                                                                         *)
(* Three inductive invariants, each resting on the one before: SlotsInv    *)
(* (who owns a slot, and what the lock protects), NewestInv (where the     *)
(* newest hashes are while Publish is still running) and PushInv (what a   *)
(* page has caught up with at each step of its handler).                   *)
(***************************************************************************)
EXTENDS LiveUpdates, FiniteSetTheorems, TLAPS

\* A slot is owned by a running handler, and Publish is at work on channels only
\* while it holds the lock: Unsubscribe, which needs the lock, cannot take away
\* the channel that is being served.
SlotsInv ==
    /\ SlotsOwned
    /\ \A p \in Parts : version[p] >= 1
    /\ Unlocked => todo = {} /\ at = Nowhere

LEMMA NoHashTyped == NoHash \in Hashes
  BY LiveAssumption DEF NoHash, Hashes

LEMMA InitSlots == Init => SlotsInv
<1> SUFFICES ASSUME Init PROVE SlotsInv  OBVIOUS
<1>1. version \in Hashes
  BY LiveAssumption DEF Init, Hashes
<1>2. TypeOK
  BY <1>1, NoHashTyped, LiveAssumption DEF Init, TypeOK
<1>3. subs = {c \in Clients : hpc[c] # "none"}
  BY DEF Init
<1>4. Cardinality(subs) <= MaxSubs
  BY FS_EmptySet, LiveAssumption DEF Init
<1> QED  BY <1>2, <1>3, <1>4 DEF Init, SlotsInv, SlotsOwned

\* A part changes.
LEMMA ChangeSlots ==
  ASSUME SlotsInv, NEW p \in Parts, Change(p) PROVE SlotsInv'
<1>1. version' \in Hashes /\ \A q \in Parts : version'[q] >= 1
  BY LiveAssumption DEF SlotsInv, SlotsOwned, TypeOK, Change, Hashes, Parts
<1>2. TypeOK'
  BY <1>1 DEF SlotsInv, SlotsOwned, TypeOK, Change, pollVars, handlerVars, pageVars
<1> QED
  BY <1>1, <1>2 DEF SlotsInv, SlotsOwned, Change, pollVars, handlerVars, pageVars, Unlocked

\* The poller changes no slot; what it is serving stays registered.
LEMMA PollSlots == ASSUME SlotsInv, Poll PROVE SlotsInv'
<1> USE DEF SlotsInv, SlotsOwned
<1>1. CASE EndCycle \/ HasSubscribers \/ Unlock
  BY <1>1 DEF EndCycle, HasSubscribers, Unlock, PollerGoes, TypeOK, Unlocked,
              handlerVars, pageVars
<1>2. CASE Publish
  <2>1. pub' \in Hashes /\ failures' \in 0..MaxFailures
    BY <1>2, NoHashTyped, LiveAssumption DEF Publish, CurrentHashes, TypeOK
  <2>2. TypeOK'
    BY <1>2, <2>1 DEF Publish, TypeOK, handlerVars, pageVars
  <2> QED  BY <1>2, <2>2 DEF Publish, handlerVars, pageVars, Unlocked
<1>3. ASSUME NEW c \in Clients, Offer(c) PROVE SlotsInv'
  <2>1. c \in subs
    BY <1>3 DEF Offer, Serve, TypeOK
  <2>2. TypeOK'
    BY <1>3, <2>1 DEF Offer, Serve, Deliver, TypeOK, handlerVars, pageVars
  <2> QED  BY <1>3, <2>2 DEF Offer, Serve, Deliver, handlerVars, pageVars, Unlocked
<1>4. ASSUME NEW c \in Clients, Drain(c) PROVE SlotsInv'
  <2>1. c \in subs
    BY <1>4 DEF Drain, TypeOK, Nowhere
  <2>2. TypeOK'
    BY <1>4, <2>1 DEF Drain, TypeOK, handlerVars, pageVars
  <2> QED  BY <1>4, <2>2 DEF Drain, handlerVars, pageVars, Unlocked, Nowhere
<1>5. ASSUME NEW c \in Clients, Send(c) PROVE SlotsInv'
  <2>2. TypeOK'
    BY <1>5 DEF Send, Deliver, TypeOK, handlerVars, pageVars
  <2> QED  BY <1>5, <2>2 DEF Send, Deliver, handlerVars, pageVars, Unlocked, Nowhere
<1> QED  BY <1>1, <1>2, <1>3, <1>4, <1>5 DEF Poll

\* A slot is taken.
LEMMA ConnectSlots ==
  ASSUME SlotsInv, NEW c \in Clients, Connect(c) PROVE SlotsInv'
<1> USE DEF Connect, Subscribe, SlotsInv, SlotsOwned
<1>1. TypeOK'
  BY NoHashTyped DEF TypeOK, pollVars, Unlocked
<1>2. subs' = {d \in Clients : hpc'[d] # "none"}
  BY DEF TypeOK
<1>3. IsFiniteSet(subs) /\ c \notin subs
  BY LiveAssumption, FS_Subset DEF TypeOK
<1>4. Cardinality(subs \cup {c}) = Cardinality(subs) + 1
  BY <1>3, FS_AddElement
<1>5. Cardinality(subs) \in Nat
  BY <1>3, FS_CardinalityType
<1>6. Cardinality(subs') <= MaxSubs
  BY <1>4, <1>5, LiveAssumption
<1> QED  BY <1>1, <1>2, <1>6 DEF pollVars, Unlocked

\* A slot is given back.
LEMMA UnsubscribeSlots ==
  ASSUME SlotsInv, NEW c \in Clients, Unsubscribe(c) PROVE SlotsInv'
<1> USE DEF Unsubscribe, Release, SlotsInv, SlotsOwned
<1>1. TypeOK'
  BY DEF TypeOK, pollVars, pageVars, Unlocked
<1>2. subs' = {d \in Clients : hpc'[d] # "none"}
  BY DEF TypeOK
<1>3. IsFiniteSet(subs)
  BY LiveAssumption, FS_Subset DEF TypeOK
<1>4. Cardinality(subs') <= MaxSubs
  BY <1>3, FS_Subset, FS_CardinalityType, LiveAssumption
<1> QED  BY <1>1, <1>2, <1>4 DEF pollVars, pageVars, Unlocked

\* A handler that keeps running.
LEMMA RunningSlots ==
  ASSUME SlotsInv, NEW c \in Clients,
         Baseline(c) \/ Receive(c) \/ Compare(c) \/ Flushed(c) \/ WriteTimeout(c)
           \/ Heartbeat(c) \/ Disconnect(c)
  PROVE  SlotsInv'
<1> USE DEF SlotsInv, SlotsOwned
<1>1. CASE Baseline(c)
  <2>1. failures' \in 0..MaxFailures /\ last' \in [Clients -> Hashes]
    BY <1>1, NoHashTyped, LiveAssumption DEF Baseline, CurrentHashes, TypeOK
  <2>2. TypeOK'
    BY <1>1, <2>1 DEF Baseline, TypeOK, pollVars, pageVars
  <2> QED  BY <1>1, <2>2 DEF Baseline, TypeOK, pollVars, pageVars, Unlocked
<1>2. CASE Receive(c)
  <2>1. Head(chan[c]) \in Hashes
    BY <1>2 DEF Receive, TypeOK
  <2>2. TypeOK'
    BY <1>2, <2>1 DEF Receive, TypeOK, pollVars, pageVars
  <2> QED  BY <1>2, <2>2 DEF Receive, TypeOK, pollVars, pageVars, Unlocked
<1>3. CASE Compare(c)
  <2>1. NextPart(c) \in Parts
    BY DEF NextPart, Parts
  <2>2. [last[c] EXCEPT ![NextPart(c)] = got[c][NextPart(c)]] \in Hashes
    BY <2>1 DEF TypeOK, Hashes
  <2>3. TypeOK'
    BY <1>3, <2>1, <2>2 DEF Compare, Write, TypeOK, pollVars
  <2> QED  BY <1>3, <2>3 DEF Compare, Write, TypeOK, pollVars, Unlocked
<1>4. CASE Flushed(c) \/ WriteTimeout(c) \/ Heartbeat(c) \/ Disconnect(c)
  <2>2. TypeOK'
    BY <1>4 DEF Flushed, WriteTimeout, Heartbeat, Disconnect, HandlerGoes, TypeOK, pollVars, pageVars
  <2> QED
    BY <1>4, <2>2 DEF Flushed, WriteTimeout, Heartbeat, Disconnect, HandlerGoes,
       TypeOK, pollVars, pageVars, Unlocked
<1> QED  BY <1>1, <1>2, <1>3, <1>4

\* A browser reaches the server's state only by its requests.
LEMMA BrowseSlots ==
  ASSUME SlotsInv, NEW c \in Clients, Browse(c) PROVE SlotsInv'
<1> USE DEF SlotsInv, SlotsOwned, ServerIdle, pollVars, handlerVars
<1>1. ASSUME NEW p \in Parts, Fetch(c, p)
      PROVE  page' \in [Clients -> Hashes] /\ events' \in [Clients -> SUBSET Parts]
  <2>1. [page[c] EXCEPT ![p] = IF hidden[c] THEN @ ELSE version[p]] \in Hashes
    BY DEF TypeOK, Hashes
  <2> QED  BY <1>1, <2>1 DEF Fetch, TypeOK
<1>2. /\ page' \in [Clients -> Hashes] /\ events' \in [Clients -> SUBSET Parts]
      /\ stalled' \in [Clients -> BOOLEAN] /\ hidden' \in [Clients -> BOOLEAN]
  <2>1. CASE \E p \in Parts : Fetch(c, p)
    <3>1. stalled' = stalled /\ hidden' = hidden
      BY <2>1 DEF Fetch
    <3> QED  BY <1>1, <2>1, <3>1 DEF TypeOK
  <2>2. CASE Stall(c) \/ Leave(c)
    BY <2>2 DEF Stall, Leave, TypeOK
  <2>3. CASE Load(c)
    BY <2>3 DEF Load, TypeOK
  <2>4. CASE Hide(c)
    BY <2>4 DEF Hide, TypeOK
  <2>5. CASE Show(c)
    BY <2>5 DEF Show, Visible, TypeOK
  <2> QED  BY <2>1, <2>2, <2>3, <2>4, <2>5 DEF Browse
<1>3. ServerIdle
  BY DEF Browse, Stall, Leave, Load, Hide, Show, Visible, Fetch
<1>4. TypeOK'
  BY <1>2, <1>3 DEF TypeOK
<1> QED  BY <1>3, <1>4 DEF Unlocked

LEMMA NextSlots == SlotsInv /\ [Next]_vars => SlotsInv'
<1> SUFFICES ASSUME SlotsInv, [Next]_vars PROVE SlotsInv'  OBVIOUS
<1>1. CASE UNCHANGED vars
  BY <1>1 DEF vars, pollVars, handlerVars, pageVars, SlotsInv, SlotsOwned, TypeOK, Unlocked
<1> QED
  BY <1>1, ChangeSlots, PollSlots, ConnectSlots, UnsubscribeSlots, RunningSlots,
     BrowseSlots DEF Next, Handle

\* handleEvents frees the slot on every way out and Subscribe refuses the stream
\* above the limit: for any number of clients and any limit, the open streams are
\* the running handlers and at most maxSSESubscribers of them.
THEOREM SlotsAlwaysOwned == Spec => []SlotsOwned
<1>1. SlotsInv => SlotsOwned
  BY DEF SlotsInv
<1> QED  BY <1>1, InitSlots, NextSlots, PTL DEF Spec
-----------------------------------------------------------------------------
(***************************************************************************)
(* Publish and the handlers' receives.                                     *)
(***************************************************************************)
\* The connection has the newest hashes, in its channel or received.
Held(c) == chan[c] = <<pub>> \/ (chan[c] = <<>> /\ got[c] = pub)

\* While Publish runs, the channel it is at has not been served; it was drained
\* before the third select, and only Publish sends, so that select finds room.
NewestInv ==
    /\ \A c \in served \cap subs : Held(c)
    /\ todo \cap served = {}
    /\ at # Nowhere => /\ at[1] \notin served \cup todo
                       /\ at[2] = "send" => chan[at[1]] = <<>>

LEMMA PollNewest == ASSUME SlotsInv, NewestInv, Poll PROVE NewestInv'
<1> USE DEF NewestInv, Held
<1>1. CASE EndCycle \/ HasSubscribers \/ Unlock
  BY <1>1 DEF EndCycle, HasSubscribers, Unlock, PollerGoes, handlerVars
<1>2. CASE Publish
  BY <1>2 DEF Publish
<1>3. ASSUME NEW c \in Clients, Offer(c) PROVE NewestInv'
  <2>1. CASE chan[c] = <<>>
    BY <1>3, <2>1 DEF Offer, Serve, Deliver, Nowhere, handlerVars,
                      SlotsInv, SlotsOwned, TypeOK
  <2>2. CASE chan[c] # <<>>
    BY <1>3, <2>2 DEF Offer, Serve, Nowhere, handlerVars
  <2> QED  BY <2>1, <2>2
<1>4. ASSUME NEW c \in Clients, Drain(c) PROVE NewestInv'
  BY <1>4 DEF Drain, Nowhere, handlerVars, SlotsInv, SlotsOwned, TypeOK
<1>5. ASSUME NEW c \in Clients, Send(c) PROVE NewestInv'
  BY <1>5 DEF Send, Deliver, Nowhere, handlerVars, SlotsInv, SlotsOwned, TypeOK
<1> QED  BY <1>1, <1>2, <1>3, <1>4, <1>5 DEF Poll

\* A receive moves the newest hashes from the channel to the handler.
LEMMA ReceiveNewest ==
  ASSUME SlotsInv, NewestInv, NEW c \in Clients, Receive(c) PROVE NewestInv'
<1>1. \A d \in served' \cap subs' : Held(d)'
  BY DEF Receive, NewestInv, Held, SlotsInv, SlotsOwned, TypeOK, pollVars
<1>2. at' # Nowhere => at'[1] \in Clients
  BY DEF Receive, SlotsInv, SlotsOwned, TypeOK, pollVars
<1> QED
  BY <1>1, <1>2 DEF Receive, NewestInv, SlotsInv, SlotsOwned, TypeOK, pollVars

LEMMA NextNewest == SlotsInv /\ NewestInv /\ [Next]_vars => NewestInv'
<1> SUFFICES ASSUME SlotsInv, NewestInv, [Next]_vars PROVE NewestInv'  OBVIOUS
<1>1. ASSUME NEW c \in Clients, Connect(c) PROVE NewestInv'
  BY <1>1 DEF Connect, Subscribe, NewestInv, Held, SlotsInv, SlotsOwned, TypeOK, pollVars
<1>2. ASSUME NEW c \in Clients, Unsubscribe(c) PROVE NewestInv'
  BY <1>2 DEF Unsubscribe, Release, NewestInv, Held, pollVars
<1>3. ASSUME UNCHANGED <<pollVars, subs, chan, got, served>> PROVE NewestInv'
  BY <1>3 DEF NewestInv, Held, pollVars
<1>4. CASE UNCHANGED vars
  BY <1>3, <1>4 DEF vars, handlerVars
<1>5. ASSUME NEW p \in Parts, Change(p) PROVE NewestInv'
  BY <1>3, <1>5 DEF Change, handlerVars
<1>6. ASSUME NEW c \in Clients, Baseline(c) \/ Compare(c) PROVE NewestInv'
  BY <1>3, <1>6 DEF Baseline, Compare, Write
<1>7. ASSUME NEW c \in Clients,
             Flushed(c) \/ WriteTimeout(c) \/ Heartbeat(c) \/ Disconnect(c)
      PROVE  NewestInv'
  BY <1>3, <1>7 DEF Flushed, WriteTimeout, Heartbeat, Disconnect, HandlerGoes
<1>8. ASSUME NEW c \in Clients, Browse(c) PROVE NewestInv'
  <2>1. ServerIdle
    BY <1>8 DEF Browse, Stall, Leave, Load, Hide, Show, Visible, Fetch
  <2> QED  BY <1>3, <2>1 DEF ServerIdle, handlerVars
<1> QED
  BY <1>1, <1>2, <1>4, <1>5, <1>6, <1>7, <1>8, PollNewest, ReceiveNewest
     DEF Next, Handle

\* Publish's drain and resend lose no publication: whatever a handler receives
\* between its selects, once Publish has returned every connection it served holds
\* the newest hashes.
THEOREM NewestAlwaysPending == Spec => []NewestPending
<1>1. Init => NewestInv
  BY DEF Init, NewestInv
<1>2. NewestInv => NewestPending
  BY DEF NewestInv, NewestPending, Held
<1> QED  BY <1>1, <1>2, InitSlots, NextSlots, NextNewest, PTL DEF Spec
-----------------------------------------------------------------------------
(***************************************************************************)
(* Publish's three selects are one step of LatestValue.                    *)
(***************************************************************************)
\* With the lock free, every reader's box is its channel and nothing is due.
LEMMA UnlockedBoxes ==
  ASSUME SlotsInv, Unlocked
  PROVE  /\ Unserved = {}
         /\ \A c \in Clients : Unread(c) = IF c \in subs THEN chan[c] ELSE <<>>
  BY DEF SlotsInv, Unserved, Unread, Nowhere

\* What neither Publish nor a handler's receive moves is not seen by the readers.
LEMMA SameBoxes ==
  ASSUME UNCHANGED <<todo, at, subs, pub, chan, got>> PROVE UNCHANGED Boxes!vars
<1>1. Unserved' = Unserved
  BY DEF Unserved
<1>2. Box' = Box
  BY DEF Box, Unread
<1> QED  BY <1>1, <1>2 DEF Boxes!vars

\* One box changes.
LEMMA BoxChanges ==
  ASSUME NEW c \in Clients, NEW v, Unread(c)' = v,
         \A d \in Clients \ {c} : Unread(d)' = Unread(d)
  PROVE  Box' = [Box EXCEPT ![c] = v]
  BY DEF Box

LEMMA OfferMaps ==
  ASSUME SlotsInv, NewestInv, NEW c \in Clients, Offer(c)
  PROVE  Boxes!Next \/ UNCHANGED Boxes!vars
<1> USE DEF Offer, Serve
<1>1. c \in subs /\ at = Nowhere /\ chan \in [Clients -> {<<>>} \cup {<<h>> : h \in Hashes}]
  BY DEF SlotsInv, SlotsOwned, TypeOK
<1>2. Unserved = todo
  BY <1>1 DEF Unserved, Nowhere
<1>3. \A d \in Clients : Unread(d) = IF d \in subs THEN chan[d] ELSE <<>>
  BY <1>1 DEF Unread, Nowhere
<1>4. CASE chan[c] = <<>>
  <2>1. at' = Nowhere /\ chan' = [chan EXCEPT ![c] = <<pub>>]
    BY <1>4 DEF Deliver
  <2>2. Unserved' = Unserved \ {c}
    BY <2>1, <1>2 DEF Unserved, Nowhere
  <2>3. Unread(c)' = <<pub>> /\ \A d \in Clients \ {c} : Unread(d)' = Unread(d)
    BY <2>1, <1>1, <1>3 DEF Unread, Nowhere
  <2>4. Box' = [Box EXCEPT ![c] = <<pub>>]
    BY <2>3, BoxChanges
  <2>5. Boxes!Put(c)
    BY <2>2, <2>4, <1>2 DEF Boxes!Put, handlerVars
  <2> QED  BY <2>5 DEF Boxes!Next
<1>5. CASE chan[c] # <<>>
  <2>1. at' = <<c, "drain">> /\ chan' = chan
    BY <1>5
  <2>2. Unserved' = Unserved
    BY <2>1, <1>2 DEF Unserved
  <2>3. Box' = Box
    BY <2>1, <1>3 DEF Box, Unread
  <2> QED  BY <2>2, <2>3 DEF Boxes!vars, handlerVars
<1> QED  BY <1>4, <1>5

\* The new value is there for the readers once the old one is gone.
LEMMA DrainMaps ==
  ASSUME SlotsInv, NewestInv, NEW c \in Clients, Drain(c)
  PROVE  Boxes!Next \/ UNCHANGED Boxes!vars
<1> USE DEF Drain
<1>1. c \in subs /\ c \notin todo
  BY DEF SlotsInv, SlotsOwned, TypeOK, NewestInv, Nowhere
<1>2. Unserved = todo \cup {c} /\ Unserved' = todo
  BY DEF Unserved
<1>3. Unread(c)' = <<pub>> /\ \A d \in Clients \ {c} : Unread(d)' = Unread(d)
  BY <1>1 DEF Unread, SlotsInv, SlotsOwned, TypeOK
<1>4. Box' = [Box EXCEPT ![c] = <<pub>>]
  BY <1>3, BoxChanges
<1>5. Boxes!Put(c)
  BY <1>1, <1>2, <1>4 DEF Boxes!Put, handlerVars
<1> QED  BY <1>5 DEF Boxes!Next

\* The third select finds room: the readers see nothing of it.
LEMMA SendMaps ==
  ASSUME SlotsInv, NewestInv, NEW c \in Clients, Send(c)
  PROVE  UNCHANGED Boxes!vars
<1> USE DEF Send
<1>1. chan[c] = <<>> /\ c \in subs
  BY DEF NewestInv, Nowhere, SlotsInv, SlotsOwned, TypeOK
<1>2. at' = Nowhere /\ chan' = [chan EXCEPT ![c] = <<pub>>]
  BY <1>1 DEF Deliver
<1>3. Unserved' = Unserved
  BY <1>2 DEF Unserved, Nowhere
<1>4. \A d \in Clients : Unread(d)' = Unread(d)
  BY <1>1, <1>2 DEF Unread, Nowhere, SlotsInv, SlotsOwned, TypeOK
<1>5. Box' = Box
  BY <1>4 DEF Box
<1> QED  BY <1>3, <1>5 DEF Boxes!vars, handlerVars

LEMMA PublishMaps == ASSUME SlotsInv, Publish PROVE Boxes!Next
<1> USE DEF Publish
<1>1. Unlocked /\ at = Nowhere
  BY DEF SlotsInv, Unlocked
<1>2. Unserved = {} /\ Unserved' = subs
  BY <1>1, UnlockedBoxes DEF Unserved, Nowhere
<1>3. Box' = Box
  BY <1>1 DEF Box, Unread, Nowhere
<1>4. pub' \in Hashes
  BY NoHashTyped DEF SlotsInv, SlotsOwned, TypeOK
<1> QED  BY <1>2, <1>3, <1>4 DEF Boxes!Publish, Boxes!Next, handlerVars

LEMMA ConnectMaps ==
  ASSUME SlotsInv, NEW c \in Clients, Connect(c) PROVE Boxes!Next
<1> USE DEF Connect, Subscribe
<1>1. c \notin subs /\ at = Nowhere
  BY DEF SlotsInv, SlotsOwned
<1>2. Unserved = {} /\ Unserved' = {}
  BY UnlockedBoxes DEF Unserved, pollVars
<1>3. \A d \in Clients : Unread(d)' = Unread(d)
  <2>1. Unread(c) = <<>> /\ Unread(c)' = <<>>
    BY <1>1 DEF Unread, Nowhere, pollVars, SlotsInv, SlotsOwned, TypeOK
  <2>2. \A d \in Clients \ {c} : Unread(d)' = Unread(d)
    BY <1>1 DEF Unread, Nowhere, pollVars, SlotsInv, SlotsOwned, TypeOK
  <2> QED  BY <2>1, <2>2
<1>4. Box' = Box
  BY <1>3 DEF Box
<1>5. Boxes!Open(c)
  <2>1. Cardinality(subs) < MaxSubs /\ subs' = subs \cup {c}
    OBVIOUS
  <2>2. got' = [got EXCEPT ![c] = NoHash] /\ pub' = pub
    BY DEF pollVars
  <2>3. Boxes!Cardinality(subs) = Cardinality(subs)
    BY DEF Cardinality, Boxes!Cardinality
  <2> QED  BY <1>1, <1>2, <1>4, <2>1, <2>2, <2>3 DEF Boxes!Open
<1> QED  BY <1>5 DEF Boxes!Next

LEMMA UnsubscribeMaps ==
  ASSUME SlotsInv, NEW c \in Clients, Unsubscribe(c) PROVE Boxes!Next
<1> USE DEF Unsubscribe, Release
<1>1. c \in subs /\ at = Nowhere
  BY DEF SlotsInv, SlotsOwned
<1>2. Unserved = {} /\ Unserved' = {}
  BY UnlockedBoxes DEF Unserved, pollVars
<1>3. Unread(c)' = <<>> /\ \A d \in Clients \ {c} : Unread(d)' = Unread(d)
  BY <1>1 DEF Unread, Nowhere, pollVars
<1>4. Box' = [Box EXCEPT ![c] = <<>>]
  BY <1>3, BoxChanges
<1>5. Boxes!Close(c)
  BY <1>1, <1>2, <1>4 DEF Boxes!Close, pollVars
<1> QED  BY <1>5 DEF Boxes!Next

\* Between the drain and the third select there is nothing to receive.
LEMMA ReceiveMaps ==
  ASSUME SlotsInv, NewestInv, NEW c \in Clients, Receive(c) PROVE Boxes!Next
<1> USE DEF Receive
<1>1. c \in subs
  BY DEF SlotsInv, SlotsOwned
<1>2. at # <<c, "send">>
  BY DEF NewestInv, Nowhere
<1>3. Unread(c) = chan[c] /\ Box[c] = chan[c]
  BY <1>1, <1>2 DEF Unread, Box
<1>4. Unserved' = Unserved
  BY DEF Unserved, pollVars
<1>5. Unread(c)' = <<>> /\ \A d \in Clients \ {c} : Unread(d)' = Unread(d)
  BY <1>1, <1>2 DEF Unread, pollVars, SlotsInv, SlotsOwned, TypeOK
<1>6. Box' = [Box EXCEPT ![c] = <<>>]
  BY <1>5, BoxChanges
<1>7. Head(chan[c]) = Box[c][1]
  BY <1>3 DEF SlotsInv, SlotsOwned, TypeOK
<1>8. Boxes!Take(c)
  BY <1>3, <1>4, <1>6, <1>7 DEF Boxes!Take, pollVars
<1> QED  BY <1>8 DEF Boxes!Next

LEMMA NextMaps ==
  ASSUME SlotsInv, NewestInv, [Next]_vars PROVE [Boxes!Next]_(Boxes!vars)
<1>1. CASE UNCHANGED vars
  BY <1>1, SameBoxes DEF vars, pollVars, handlerVars
<1>2. ASSUME NEW p \in Parts, Change(p) PROVE UNCHANGED Boxes!vars
  BY <1>2, SameBoxes DEF Change, pollVars, handlerVars
<1>3. CASE EndCycle \/ HasSubscribers \/ Unlock
  BY <1>3, SameBoxes DEF EndCycle, HasSubscribers, Unlock, PollerGoes, handlerVars
<1>4. ASSUME NEW c \in Clients,
             Baseline(c) \/ Compare(c) \/ Flushed(c) \/ WriteTimeout(c)
               \/ Heartbeat(c) \/ Disconnect(c)
      PROVE  UNCHANGED Boxes!vars
  BY <1>4, SameBoxes DEF Baseline, Compare, Write, Flushed, WriteTimeout, Heartbeat,
     Disconnect, HandlerGoes, pollVars
<1>5. ASSUME NEW c \in Clients, Browse(c) PROVE UNCHANGED Boxes!vars
  <2>1. ServerIdle
    BY <1>5 DEF Browse, Stall, Leave, Load, Hide, Show, Visible, Fetch
  <2> QED  BY <2>1, SameBoxes DEF ServerIdle, pollVars, handlerVars
<1> QED
  BY <1>1, <1>2, <1>3, <1>4, <1>5, OfferMaps, DrainMaps, SendMaps, PublishMaps,
     ConnectMaps, UnsubscribeMaps, ReceiveMaps DEF Next, Poll, Handle

\* Publish, Subscribe, Unsubscribe and the handlers' receives implement
\* LatestValue: whatever a handler does between Publish's selects, every
\* connection sees its unread value replaced in one step.
THEOREM UnreadAlwaysReplaced == Spec => ReplacesUnread
<1>1. Init => NewestInv
  BY DEF Init, NewestInv
<1>2. Init => Boxes!Init
  <2> SUFFICES ASSUME Init PROVE Boxes!Init  OBVIOUS
  <2>1. Unserved = {} /\ Box = [c \in Clients |-> <<>>]
    BY DEF Init, Unserved, Box, Unread, Nowhere
  <2> QED  BY <2>1 DEF Init, Boxes!Init
<1> QED
  BY <1>1, <1>2, InitSlots, NextSlots, NextNewest, NextMaps, PTL
     DEF Spec, ReplacesUnread, Boxes!Spec
-----------------------------------------------------------------------------
(***************************************************************************)
(* What a page has caught up with.                                         *)
(***************************************************************************)
\* The page shows version v of the part, will fetch it, or is not being looked at.
Caught(c, p, v) == v <= page[c][p] \/ p \in events[c] \/ hidden[c]
Upto(h) == \A p \in Parts : h[p] <= version[p]

\* No hash and no page is ahead of what is rendered now, so a fetch catches up.
NoneAhead ==
    /\ Upto(pub)
    /\ \A c \in Clients :
         /\ Upto(last[c]) /\ Upto(got[c]) /\ Upto(page[c])
         /\ chan[c] # <<>> => Upto(Head(chan[c]))

\* A page that connected promptly has what its baseline is about to record.
FreshBaseline ==
    \A c \in Clients : hpc[c] = "sub" => page[c] = version /\ got[c] = NoHash

\* A hash becomes the baseline only together with its event.
BaselineCaught ==
    \A c \in Clients, p \in Parts :
      hpc[c] \in {"loop", "write"} => Caught(c, p, last[c][p])

\* Nor is a part of a received value passed over that the page lacks.
ReceivedCaught ==
    \A c \in Clients, p \in Parts :
      hpc[c] = "loop" \/ (hpc[c] = "write" /\ p \notin left[c]) =>
        Caught(c, p, got[c][p])

PushInv == NoneAhead /\ FreshBaseline /\ BaselineCaught /\ ReceivedCaught

LEMMA HashesNat ==
  ASSUME NEW h \in Hashes, NEW p \in Parts PROVE h[p] \in Nat
  BY LiveAssumption DEF Hashes

\* Hashes are copied from what is rendered, or empty; versions only grow.
LEMMA NextAhead == ASSUME SlotsInv, NoneAhead, Next PROVE NoneAhead'
<1> USE DEF NoneAhead, Upto
<1>n. \A h \in Hashes, p \in Parts : h[p] \in Nat
  BY HashesNat
<1>t. TypeOK
  BY DEF SlotsInv, SlotsOwned
<1>z. \A p \in Parts : NoHash[p] = 0
  BY DEF NoHash
<1>1. ASSUME NEW p \in Parts, Change(p) PROVE NoneAhead'
  <2>1. \A q \in Parts : version[q] <= version'[q]
    BY <1>1, <1>n, <1>t DEF Change, TypeOK, Hashes
  <2>2. \A h \in Hashes : Upto(h) => Upto(h)'
    BY <1>n, <1>1, <2>1, <1>t DEF TypeOK, Hashes, Change
  <2>3. \A c \in Clients : chan[c] # <<>> => Head(chan[c]) \in Hashes
    BY <1>t DEF TypeOK
  <2> QED  BY <1>1, <1>t, <2>2, <2>3 DEF Change, TypeOK, pollVars, handlerVars, pageVars
<1>2. CASE EndCycle \/ HasSubscribers \/ Unlock
  BY <1>2 DEF EndCycle, HasSubscribers, Unlock, PollerGoes, handlerVars, pageVars
<1>3. CASE Publish
  BY <1>3, <1>n, <1>t, <1>z DEF Publish, handlerVars, pageVars, TypeOK
<1>4. ASSUME NEW c \in Clients, Offer(c) \/ Drain(c) \/ Send(c) PROVE NoneAhead'
  <2>1. UNCHANGED <<version, pub, handlerVars, pageVars>>
    BY <1>4 DEF Offer, Serve, Drain, Send
  <2>2. \A d \in Clients : chan'[d] \in {chan[d], <<>>, <<pub>>}
    BY <1>4, <1>t DEF Offer, Serve, Drain, Send, Deliver, TypeOK
  <2> QED  BY <2>1, <2>2 DEF handlerVars, pageVars
<1>5. ASSUME NEW c \in Clients, Connect(c) PROVE NoneAhead'
  BY <1>5, <1>n, <1>t, <1>z DEF Connect, Subscribe, pollVars, TypeOK
<1>6. ASSUME NEW c \in Clients, Baseline(c) PROVE NoneAhead'
  BY <1>6, <1>n, <1>t, <1>z DEF Baseline, pollVars, pageVars, TypeOK
<1>7. ASSUME NEW c \in Clients, Receive(c) PROVE NoneAhead'
  BY <1>7, <1>t DEF Receive, pollVars, pageVars, TypeOK
<1>8. ASSUME NEW c \in Clients, Compare(c) PROVE NoneAhead'
  <2>1. NextPart(c) \in Parts
    BY DEF NextPart, Parts
  <2>2. UNCHANGED <<version, pub, chan, got, page>>
    BY <1>8 DEF Compare, Write, pollVars
  <2>3. last' = last \/ last' = [last EXCEPT
                 ![c] = [last[c] EXCEPT ![NextPart(c)] = got[c][NextPart(c)]]]
    BY <1>8 DEF Compare, Write
  <2>4. Upto([last[c] EXCEPT ![NextPart(c)] = got[c][NextPart(c)]])
    BY <2>1, <1>t DEF TypeOK, Hashes
  <2>5. \A d \in Clients : Upto(last'[d])
    BY <2>3, <2>4, <1>t DEF TypeOK
  <2> QED  BY <2>2, <2>5
<1>9. ASSUME NEW c \in Clients,
             Flushed(c) \/ WriteTimeout(c) \/ Heartbeat(c) \/ Disconnect(c)
      PROVE  NoneAhead'
  BY <1>9 DEF Flushed, WriteTimeout, Heartbeat, Disconnect, HandlerGoes, pollVars, pageVars
<1>10. ASSUME NEW c \in Clients, Unsubscribe(c) PROVE NoneAhead'
  BY <1>10 DEF Unsubscribe, Release, pollVars, pageVars
<1>11. ASSUME NEW c \in Clients, Browse(c) PROVE NoneAhead'
  <2>1. ServerIdle
    BY <1>11 DEF Browse, Stall, Leave, Load, Hide, Show, Visible, Fetch
  <2>2. \A d \in Clients, p \in Parts : page'[d][p] \in {page[d][p], version[p]}
    <3>1. ASSUME NEW p \in Parts, Fetch(c, p)
          PROVE  \A d \in Clients, q \in Parts : page'[d][q] \in {page[d][q], version[q]}
      BY <3>1, <1>t DEF Fetch, TypeOK, Hashes
    <3> QED
      BY <1>11, <3>1, <1>t DEF Browse, Stall, Leave, Load, Hide, Show, Visible, TypeOK
  <2>3. \A d \in Clients, p \in Parts : page'[d][p] <= version[p]
    BY <2>2, <1>n, <1>t DEF TypeOK
  <2> QED  BY <2>1, <2>3 DEF ServerIdle, pollVars, handlerVars
<1> QED
  BY <1>1, <1>2, <1>3, <1>4, <1>5, <1>6, <1>7, <1>8, <1>9, <1>10, <1>11
     DEF Next, Poll, Handle

\* What a page has caught up with is not lost by a step that moves no page back
\* and takes no event away without fetching, unless the tab is hidden.
LEMMA NextPush ==
  ASSUME PromptConnect, SlotsInv, NoneAhead, FreshBaseline, BaselineCaught,
         ReceivedCaught, Next
  PROVE  FreshBaseline' /\ BaselineCaught' /\ ReceivedCaught'
<1> DEFINE Rest == FreshBaseline' /\ BaselineCaught' /\ ReceivedCaught'
<1> USE DEF FreshBaseline, BaselineCaught, ReceivedCaught, Caught
<1>n. \A h \in Hashes, p \in Parts : h[p] \in Nat
  BY HashesNat
<1>t. TypeOK
  BY DEF SlotsInv, SlotsOwned
<1>z. \A p \in Parts : NoHash[p] = 0
  BY DEF NoHash
<1>1. ASSUME NEW p \in Parts, Change(p) PROVE Rest
  BY <1>1 DEF Change, handlerVars, pageVars
<1>2. CASE Poll
  <2>1. UNCHANGED <<version, handlerVars, pageVars>>
    BY <1>2 DEF Poll, EndCycle, HasSubscribers, Unlock, PollerGoes, Publish,
                Offer, Serve, Drain, Send
  <2> QED  BY <2>1 DEF handlerVars, pageVars
<1>3. ASSUME NEW c \in Clients, Connect(c) PROVE Rest
  BY <1>3, <1>t DEF Connect, Subscribe, pollVars, TypeOK
<1>4. ASSUME NEW c \in Clients, Baseline(c) PROVE Rest
  <2>1. /\ hpc[c] = "sub" /\ hpc' = [hpc EXCEPT ![c] = "loop"]
        /\ last' = [last EXCEPT ![c] = version] \/ last' = [last EXCEPT ![c] = NoHash]
        /\ UNCHANGED <<version, got, left, hidden, page, events>>
    BY <1>4 DEF Baseline, pageVars
  <2>2. \A p \in Parts : last'[c][p] <= page[c][p] /\ got[c][p] <= page[c][p]
    BY <2>1, <1>n, <1>t, <1>z DEF TypeOK
  <2> QED  BY <2>1, <2>2, <1>t DEF TypeOK
<1>5. ASSUME NEW c \in Clients, Receive(c) PROVE Rest
  BY <1>5, <1>t DEF Receive, pageVars, TypeOK
<1>6. ASSUME NEW c \in Clients, Compare(c) PROVE Rest
  <2> DEFINE q == NextPart(c)
  <2>1. q \in Parts /\ q \in left[c]
    BY <1>6, <1>t DEF NextPart, Parts, Compare, Write, TypeOK
  <2>2. /\ hpc[c] = "write" /\ left' = [left EXCEPT ![c] = @ \ {q}]
        /\ UNCHANGED <<version, got, hidden, page>>
    BY <1>6 DEF Compare, Write
  <2>3. CASE ~Changed(c)
    <3>1. UNCHANGED <<last, hpc, events>>
      BY <1>6, <2>3 DEF Compare, Write
    <3>2. Caught(c, q, got[c][q])
      BY <2>1, <2>2, <2>3, <1>n, <1>t DEF Changed, TypeOK
    <3> QED  BY <2>1, <2>2, <3>1, <3>2, <1>t DEF TypeOK
  <2>4. CASE Changed(c) /\ stalled[c]
    <3>1. /\ hpc' = [hpc EXCEPT ![c] = "blocked"] /\ UNCHANGED events
          /\ \A d \in Clients \ {c} : last'[d] = last[d]
      BY <1>6, <2>4, <1>t DEF Compare, Write, TypeOK
    <3> QED  BY <2>1, <2>2, <3>1, <1>t DEF TypeOK
  <2>5. CASE Changed(c) /\ ~stalled[c]
    <3>1. /\ hpc' = hpc /\ events' = [events EXCEPT ![c] = @ \cup {q}]
          /\ last' = [last EXCEPT ![c] = [last[c] EXCEPT ![q] = got[c][q]]]
      BY <1>6, <2>5 DEF Compare, Write
    <3>2. \A p \in Parts \ {q} : last'[c][p] = last[c][p]
      BY <3>1, <1>t DEF TypeOK, Hashes
    <3> HIDE DEF q
    <3>3. \A p \in Parts : Caught(c, p, last[c][p])'
      BY <2>2, <3>1, <3>2, <1>t DEF TypeOK
    <3>4. \A p \in Parts : p \notin left'[c] => Caught(c, p, got[c][p])'
      BY <2>2, <3>1, <1>t DEF TypeOK
    <3> QED  BY <2>2, <3>1, <3>3, <3>4, <1>t DEF TypeOK
  <2> QED  BY <2>3, <2>4, <2>5
<1>7. ASSUME NEW c \in Clients,
             Flushed(c) \/ WriteTimeout(c) \/ Heartbeat(c) \/ Disconnect(c)
      PROVE  Rest
  BY <1>7, <1>t DEF Flushed, WriteTimeout, Heartbeat, Disconnect, HandlerGoes,
                    pageVars, TypeOK
<1>8. ASSUME NEW c \in Clients, Unsubscribe(c) PROVE Rest
  BY <1>8, <1>t DEF Unsubscribe, Release, pageVars, TypeOK
<1>9. ASSUME NEW c \in Clients, Stall(c) \/ Leave(c) \/ Hide(c) PROVE Rest
  BY <1>9, <1>t DEF Stall, Leave, Hide, ServerIdle, handlerVars, TypeOK
<1>10. ASSUME NEW c \in Clients, Load(c) PROVE Rest
  BY <1>10, <1>t DEF Load, ServerIdle, handlerVars, TypeOK
<1>11. ASSUME NEW c \in Clients, Show(c) PROVE Rest
  BY <1>11, <1>t, <1>n DEF Show, Visible, ServerIdle, handlerVars, TypeOK,
                           NoneAhead, Upto
<1>12. ASSUME NEW c \in Clients, NEW p \in Parts, Fetch(c, p) PROVE Rest
  <2>1. ServerIdle /\ hidden' = hidden
    BY <1>12 DEF Fetch
  <2>2. \A d \in Clients, r \in Parts : <<d, r>> # <<c, p>> =>
          page'[d][r] = page[d][r] /\ (r \in events[d] => r \in events'[d])
    BY <1>12, <1>t DEF Fetch, TypeOK, Hashes
  <2>3. ~hidden[c] => page'[c][p] = version[p]
    BY <1>12, <1>t DEF Fetch, TypeOK, Hashes
  <2>4. \A d \in Clients : hpc[d] = "sub" => page'[d] = version
    BY <1>12, <1>t DEF Fetch, TypeOK, Hashes
  <2>5. \A d \in Clients, r \in Parts, h \in Hashes :
          Upto(h) /\ Caught(d, r, h[r]) => Caught(d, r, h[r])'
    BY <2>1, <2>2, <2>3 DEF Upto
  <2> QED
    BY <2>1, <2>4, <2>5, <1>t DEF ServerIdle, handlerVars, NoneAhead, TypeOK
<1> QED
  BY <1>1, <1>2, <1>3, <1>4, <1>5, <1>6, <1>7, <1>8, <1>9, <1>10, <1>11, <1>12
     DEF Next, Handle, Browse

\* Every value a handler has dealt with is shown by its page or announced to it,
\* for any number of clients and of changes, when pages connect promptly: the
\* comparison of a part with the connection's baseline in handleEvents skips no
\* content that the page does not have.
THEOREM PublishAlwaysReachesPage ==
  ASSUME PromptConnect PROVE Spec => []PublishReachesPage
<1>1. Init => PushInv
  BY LiveAssumption DEF Init, PushInv, NoneAhead, FreshBaseline, BaselineCaught,
                        ReceivedCaught, Upto, NoHash
<1>2. SlotsInv /\ PushInv /\ [Next]_vars => PushInv'
  <2> SUFFICES ASSUME SlotsInv, PushInv, [Next]_vars PROVE PushInv'  OBVIOUS
  <2>1. CASE Next
    BY <2>1, NextAhead, NextPush DEF PushInv
  <2>2. CASE UNCHANGED vars
    BY <2>2 DEF vars, pollVars, handlerVars, pageVars, PushInv, NoneAhead,
                FreshBaseline, BaselineCaught, ReceivedCaught, Caught, Upto
  <2> QED  BY <2>1, <2>2
<1>3. PushInv => PublishReachesPage
  BY DEF PushInv, ReceivedCaught, Caught, PublishReachesPage
<1> QED  BY <1>1, <1>2, <1>3, InitSlots, NextSlots, PTL DEF Spec
=============================================================================

---------------------------- MODULE LatestValue ----------------------------
(***************************************************************************)
(* What the Broadcaster promises its subscribers, without saying how: each *)
(* reader has a box with at most one value in it, and putting a new value  *)
(* replaces an unread one in a single step.  A publication reaches every   *)
(* reader that was open when it began, nobody waits for a reader, and      *)
(* readers come and go between publications.                               *)
(***************************************************************************)
EXTENDS Integers, FiniteSets

CONSTANTS
    Readers,
    Values,
    Slots,      \* the most readers that may be open at once
    Nothing     \* what a reader has read before its first value

VARIABLES
    open,       \* the readers that are subscribed
    value,      \* the value published last
    due,        \* the readers whose box it has not been put in yet
    box,        \* each reader's unread value, if any
    taken       \* the value each reader read last

vars == <<open, value, due, box, taken>>

Init ==
    /\ open = {} /\ due = {}
    /\ value = Nothing
    /\ box = [r \in Readers |-> <<>>]
    /\ taken = [r \in Readers |-> Nothing]

Open(r) ==
    /\ due = {} /\ r \notin open /\ Cardinality(open) < Slots
    /\ open' = open \cup {r}
    /\ taken' = [taken EXCEPT ![r] = Nothing]
    /\ UNCHANGED <<value, due, box>>

Close(r) ==         \* what it has not read is lost
    /\ due = {} /\ r \in open
    /\ open' = open \ {r}
    /\ box' = [box EXCEPT ![r] = <<>>]
    /\ UNCHANGED <<value, due, taken>>

Publish ==
    /\ due = {}
    /\ value' \in Values
    /\ due' = open
    /\ UNCHANGED <<open, box, taken>>

Put(r) ==
    /\ r \in due
    /\ due' = due \ {r}
    /\ box' = [box EXCEPT ![r] = <<value>>]
    /\ UNCHANGED <<open, value, taken>>

Take(r) ==
    /\ box[r] # <<>>
    /\ taken' = [taken EXCEPT ![r] = box[r][1]]
    /\ box' = [box EXCEPT ![r] = <<>>]
    /\ UNCHANGED <<open, value, due>>

Next ==
    \/ Publish
    \/ \E r \in Readers : Open(r) \/ Close(r) \/ Put(r) \/ Take(r)

Spec == Init /\ [][Next]_vars
=============================================================================

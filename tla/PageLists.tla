----------------------------- MODULE PageLists ------------------------------
(***************************************************************************)
(* What a page takes from the lists of Bookmarks and InfoWidgets, which    *)
(* come in any order: the groups of bookmarks and the widgets of the       *)
(* header strip (internal/dashboard/site.go).                              *)
(*                                                                         *)
(* A string the code only compares is its rank in alphabetical order.      *)
(***************************************************************************)
EXTENDS Integers, Sequences, FiniteSets, SequencesExt, Binding

CONSTANTS
    Dashboard,          \* the Dashboard whose page this is
    Nil                 \* an unset optional field

NoOrder == 100          \* an unset order, which sorts after every other

\* The elements of S in order: each comes after the ones that are before it.
Arrange(S, Before(_, _)) ==
    LET ranks == {<<x, Cardinality({y \in S : Before(y, x)})>> : x \in S}
    IN  [n \in 1..Cardinality(S) |-> CHOOSE x \in S : <<x, n - 1>> \in ranks]

Map(s, F(_)) == [i \in DOMAIN s |-> F(s[i])] \o <<>>   \* a tuple, evaluated once

LexBefore(p, q) ==
    \E n \in 0..Len(p) :
       /\ n < Len(q) /\ \A i \in 1..n : p[i] = q[i]
       /\ n = Len(p) \/ p[n + 1] < q[n + 1]

OrNil(x, default) == IF x = Nil THEN default ELSE x

NewGroup(path, cards, site) ==
    [path |-> path, cards |-> cards, look |-> Nil, header |-> TRUE,
     collapsed |-> site.groupsInitiallyCollapsed, equal |-> site.useEqualHeights,
     subgroups |-> <<>>]

applyLayoutStyle(g, lg) ==
    [g EXCEPT !.look = lg.look, !.header = OrNil(lg.header, @),
              !.collapsed = OrNil(lg.collapsed, @), !.equal = OrNil(lg.equal, @)]
-----------------------------------------------------------------------------
(***************************************************************************)
(* Bookmarks.                                                              *)
(***************************************************************************)
\* Where the entries of the bound Bookmarks are: an object and an index in it.
Positions(items, count) ==
    UNION {{n} \X DOMAIN items[n].entries :
             n \in {n \in DOMAIN items : BoundTo(items[n].ref, Dashboard, count)}}
EntryAt(items, p) == items[p[1]].entries[p[2]]
PositionsIn(items, count, group) == {p \in Positions(items, count) : EntryAt(items, p).group = group}

\* Mutant: a group has the order of the first bookmark listed in it.
OrderOfFirst(items, count, group) ==
    LET own == PositionsIn(items, count, group)
    IN  EntryAt(items, CHOOSE p \in own : \A q \in own : ~LexBefore(q, p)).order

\* The least order of a group's bookmarks.
Least(orders) == CHOOSE m \in orders : \A o \in orders : m <= o
GroupOrder(items, count, group) ==
    Least({EntryAt(items, p).order : p \in PositionsIn(items, count, group)})

\* By order, then by name.
Groups(items, count) ==
    Arrange({EntryAt(items, p).group : p \in Positions(items, count)},
      LAMBDA g, h : LexBefore(<<GroupOrder(items, count, g)>> \o g,
                              <<GroupOrder(items, count, h)>> \o h))

\* By order and name; two that have both in common stay as they are listed (the
\* sort of the library keeps them so in lists of up to twelve).
BookmarkText(items, p) == <<EntryAt(items, p).order, EntryAt(items, p).name>> \o p
BookmarkOrder(items, count, group) ==
    Arrange(PositionsIn(items, count, group),
      LAMBDA p, q : LexBefore(BookmarkText(items, p), BookmarkText(items, q)))
BookmarksOf(items, count, group) ==
    Map(BookmarkOrder(items, count, group), LAMBDA p : EntryAt(items, p))

\* The first entry for the name in any tab, as a style; none if there is none.
layoutGroupsByName(layout, name) ==
    LET all == FlattenSeq(Map(layout, LAMBDA t : t.groups))
        own == SelectSeq(all, LAMBDA lg : lg.name = name)
    IN  IF own = <<>> THEN <<>> ELSE <<own[1]>>

BookmarkGroup(group, cards, site) ==
    LET lg  == layoutGroupsByName(site.layout, group)
        new == NewGroup(group, cards, site)
    IN  IF lg = <<>> THEN new ELSE applyLayoutStyle(new, lg[1])

groupBookmarks(items, count, site) ==
    Map(Groups(items, count), LAMBDA g : BookmarkGroup(g, BookmarksOf(items, count, g), site))
-----------------------------------------------------------------------------
(***************************************************************************)
(* Header widgets.                                                         *)
(***************************************************************************)
defaultHeaderAlign(type) == IF type \in {"greeting", "datetime"} THEN "left" ELSE "right"

\* The entries of an InfoWidget, each with the key of its card in the Store.
HeaderEntries(w) ==
    {[key |-> [kind |-> "header", obj |-> w.name, entry |-> n - 1, widget |-> 0],
      entry |-> w.entries[n]] : n \in DOMAIN w.entries}

BoundEntries(items, count) ==
    UNION {HeaderEntries(items[i]) :
             i \in {i \in DOMAIN items : BoundTo(items[i].ref, Dashboard, count)}}

\* By order, object name and entry index.
HeaderText(w) == <<w.entry.order, w.key.obj, w.key.entry>>
HeaderDefs(flat) ==
    Map(Arrange(flat, LAMBDA v, w : LexBefore(HeaderText(v), HeaderText(w))), LAMBDA w :
          [key |-> w.key, type |-> w.entry.type, icon |-> w.entry.icon, text |-> w.entry.text,
           align |-> OrNil(w.entry.align, defaultHeaderAlign(w.entry.type))])

headerWidgets(items, count) == HeaderDefs(BoundEntries(items, count))
=============================================================================

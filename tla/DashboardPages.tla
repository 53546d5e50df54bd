--------------------------- MODULE DashboardPages ---------------------------
(***************************************************************************)
(* DashboardListings with the pages that PageLayout lays out.              *)
(***************************************************************************)
EXTENDS DashboardListings, PageLayout

Site(style) == applyStyle(DefaultSite, style)

buildFragmentData(cards, site, bookmarks) ==
    [tabs |-> layoutTabs(mergeServiceCards(serviceCards(cards)), site),
     bookmarkGroups |-> bookmarks, target |-> site.target,
     disableCollapse |-> site.disableCollapse]

\* handleFragment's and handleHeader's data, from what LoadSite read.
Fragment(read, cards) ==
    LET site == Site(read.style)
    IN  buildFragmentData(Snapshot(cards), site,
                          groupBookmarks(read.bookmarks, read.count, site))

Header(read, cards) ==
    buildHeader(headerWidgets(read.infos, read.count), Snapshot(cards))
-----------------------------------------------------------------------------
(***************************************************************************)
(* Properties of the page of this moment.                                  *)
(***************************************************************************)
Tabs == Current("fragment").tabs

\* The groups of a tree of them; the CRD bounds a group's path to three segments.
Below(groups) == FlattenSeq(Map(groups, LAMBDA g : g.subgroups))
Nodes(groups) == groups \o Below(groups) \o Below(Below(groups))
NodesIn(tabs) == Nodes(FlattenSeq(Map(tabs, LAMBDA t : t.groups)))

\* Whatever the layout lists, leaves out or lists twice, and wherever two polls
\* have left the widgets of one entry, every field in the Store is shown in one
\* place, in the group of its entry, under that group's parents, and no group
\* is shown twice (layoutTabs, nestGroups, mergeServiceCards).  The widgets of an
\* entry are one card, its fields in the order of the entry's list also from the
\* eleventh on (mergeCards).
EveryFieldOnce ==
    LET stored == {c \in cluster.cards : c.key.kind # "header"}
        Shows(n, c) == {<<i, j>> \in (DOMAIN n.cards) \X (1..10) :
                          /\ j \in DOMAIN n.cards[i].fields
                          /\ n.cards[i].fields[j] \in ToSet(c.fields)}
    IN  \A tabs \in {Tabs} : \A nodes \in {NodesIn(tabs)} :     \* each evaluated once
          /\ \A m, n \in DOMAIN nodes : nodes[m].path = nodes[n].path => m = n
          /\ \A c \in stored : c.fields # <<>> =>
               \E n \in DOMAIN nodes :
                  /\ Cardinality(Shows(nodes[n], c)) = Len(c.fields)
                  /\ \A m \in DOMAIN nodes \ {n} : Shows(nodes[m], c) = {}
          /\ \A n \in DOMAIN nodes :
               /\ \A c \in ToSet(nodes[n].cards) :
                    /\ c.group = nodes[n].path
                    /\ \A i, j \in DOMAIN c.fields :
                         i < j => c.fields[i].widget <= c.fields[j].widget
               /\ \A g \in ToSet(nodes[n].subgroups) : Front(g.path) = nodes[n].path

\* Below a placed group and in its tab, what the layout lists comes first and
\* as it is listed; the others keep the order of their first cards, and a group
\* the layout does not place is in the last tab (orderSubgroups, layoutTabs).
SiblingsAsListed ==
    LET layout == Site(Now.style).layout
        First(cards, p) == CHOOSE i \in DOMAIN cards :
                             /\ IsPrefix(p, cards[i].group)
                             /\ \A j \in 1..(i - 1) : ~IsPrefix(p, cards[j].group)
        Listed(t, p) == IF t > Len(layout) THEN {} ELSE Entries(layout[t].groups, p)
        Ordered(t, cards, gs) == \A i, j \in DOMAIN gs : i < j =>
            \A p \in {gs[i].path}, q \in {gs[j].path} :
               \/ Listed(t, p) # {} /\ Listed(t, q) = {}
               \/ \E m \in Listed(t, p), n \in Listed(t, q) : m < n
               \/ Listed(t, p) = {} /\ Listed(t, q) = {} /\ First(cards, p) < First(cards, q)
    IN  \A tabs \in {Tabs}, cards \in {mergeServiceCards(serviceCards(Snapshot(cluster.cards)))} :
          \A t \in DOMAIN tabs :
            /\ Ordered(t, cards, tabs[t].groups)
            /\ \A g \in ToSet(Nodes(tabs[t].groups)) : Ordered(t, cards, g.subgroups)
            /\ tabs[t].name = "Other" => \A g \in ToSet(tabs[t].groups) :
                 \A u \in DOMAIN layout : Listed(u, g.path) = {}
=============================================================================

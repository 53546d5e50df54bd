------------------------- MODULE DashboardListings -------------------------
(***************************************************************************)
(* DashboardServer with the lists of PageLists on its pages.               *)
(***************************************************************************)
EXTENDS DashboardServer, PageLists

\* Lists, whose entries have an order and a name to sort by.
IsListing(items) ==
    /\ DOMAIN items \subseteq Nat /\ IsFiniteSet(DOMAIN items)
    /\ \A n \in DOMAIN items :
         LET entries == items[n].entries
         IN  /\ DOMAIN entries \subseteq Nat /\ IsFiniteSet(DOMAIN entries)
             /\ \A k \in DOMAIN entries : entries[k].order \in Int /\ entries[k].name \in Int

ASSUME ListingAssumption ==
    /\ \A items \in Held("bookmarks") : IsListing(items)
    /\ \A items \in Held("infos") : IsFiniteSet(DOMAIN items)

\* No two bookmarks of a group have one order and one name.
ToldApart(items, count) ==
    \A p, q \in Positions(items, count) :
      /\ EntryAt(items, p).group = EntryAt(items, q).group
      /\ EntryAt(items, p).order = EntryAt(items, q).order
      /\ EntryAt(items, p).name = EntryAt(items, q).name
      => p = q

\* The order in which an informer lists the objects is not seen on the page, so
\* it never makes a new ETag of a page that did not change (groupBookmarks,
\* headerWidgets).  Two bookmarks of a group with one name and one order are not
\* told apart by the code, nor is their order hidden.
ListingOrderHidden ==
    /\ ToldApart(cluster.bookmarks, cluster.count) =>
         \A s \in SetToSeqs(ToSet(cluster.bookmarks)) :
           groupBookmarks(s, cluster.count, SiteOf(Now.style))
             = groupBookmarks(cluster.bookmarks, cluster.count, SiteOf(Now.style))
    /\ \A s \in SetToSeqs(ToSet(cluster.infos)) :
         headerWidgets(s, cluster.count) = headerWidgets(cluster.infos, cluster.count)
=============================================================================

------------------------- MODULE MCDashboardServer -------------------------
(***************************************************************************)
(* Worlds for DashboardServer: many pages that do not change, a few that   *)
(* change while they are requested, and one behind a password.             *)
(***************************************************************************)
EXTENDS DashboardPages

CONSTANTS c1, c2

Key(kind, o, e, w) == [kind |-> kind, obj |-> o, entry |-> e, widget |-> w]
Field(l, key) == [label |-> l, value |-> key, widget |-> key.widget]
Card(key, group, order, name) ==
    [key |-> key, group |-> group, order |-> order, name |-> name,
     fields |-> <<Field("CPU", key), Field("Load", key)>>, err |-> <<>>]

\* Two widgets of one entry, one of them still in the group it had before an
\* edit; entries with a subgroup's path and with no parent; a discovered route.
Many == {Card(Key("widget", 1, 0, 2), <<1, 2>>, 1, 1),
         Card(Key("widget", 1, 0, 10), <<1, 2>>, 1, 1),
         Card(Key("widget", 1, 0, 0), <<2>>, 1, 1),
         Card(Key("monitor", 1, 1, 0), <<1, 1>>, 2, 2),
         Card(Key("widget", 2, 0, 0), <<1>>, NoOrder, 3),
         Card(Key("found", 1, 0, 0), <<3, 1, 1>>, NoOrder, 4),
         Card(Key("widget", 2, 1, 0), <<1, 3>>, 1, 5)}

LG(name) == [name |-> name, look |-> Nil, header |-> Nil, collapsed |-> Nil, equal |-> Nil]
LGStyled(name) == [LG(name) EXCEPT !.look = "row", !.header = FALSE, !.collapsed = TRUE]
Tab(name, groups) == [name |-> name, groups |-> groups]
Layouts == {<<>>,
            <<Tab("x", <<LG(<<1>>), LG(<<1, 3>>), LGStyled(<<1, 2>>)>>)>>,
            <<Tab("x", <<LG(<<3>>), LG(<<2>>)>>), Tab("y", <<LG(<<2>>), LGStyled(<<1>>)>>)>>,
            <<Tab("x", <<LGStyled(<<3>>), LG(<<3, 1>>)>>),
              Tab("y", <<LG(<<3>>), LG(<<1>>), LG(<<1, 2>>), LG(<<2>>)>>)>>}

Entry(g, o, n) == [group |-> g, order |-> o, name |-> n]
Marks == {<<>>,
          <<[ref |-> Unset, entries |-> <<Entry(<<2>>, 3, 1), Entry(<<1>>, 2, 2)>>],
            [ref |-> "d", entries |-> <<Entry(<<2>>, 1, 3)>>],
            [ref |-> "other", entries |-> <<Entry(<<1>>, 0, 4)>>]>>}

Info(type, order, align) ==
    [type |-> type, order |-> order, align |-> align, icon |-> <<>>, text |-> type]
Infos == {<<>>,
          <<[ref |-> Unset, name |-> 1,
             entries |-> <<Info("kubemetrics", 1, Nil), Info("greeting", 2, Nil)>>],
            [ref |-> "d", name |-> 2,
             entries |-> <<Info("openmeteo", 1, "left"), Info("logo", NoOrder, Nil)>>]>>}

HeaderCard == [Card(Key("header", 1, 0, 0), <<>>, 1, 1) EXCEPT !.err = <<"timeout">>]

Cluster(style, marks, infos, cards) ==
    [present |-> TRUE, style |-> style, count |-> 1, bookmarks |-> marks,
     infos |-> infos, cards |-> cards, authRef |-> Unset]
NoFiles == [s \in Secrets |-> NoFile]
Still(cl) == [first |-> cl, then |-> cl, locked |-> FALSE, files |-> NoFiles, clients |-> {c1},
              creds |-> {NoCred}, routes |-> {"fragment"}, maxFailures |-> 0, maxEdits |-> 0]

Pages == {Still(Cluster([layout |-> l], <<>>, <<>>, cs)) : l \in Layouts, cs \in SUBSET Many}
Strips == {Still(Cluster([layout |-> l, groupsInitiallyCollapsed |-> TRUE], m, i, {HeaderCard})) :
             l \in Layouts, m \in Marks, i \in Infos}

One == Card(Key("widget", 2, 0, 0), <<1>>, NoOrder, 3)
Two == [One EXCEPT !.fields = <<>>, !.err = <<"timeout">>]
Base == Cluster(NoStyle, CHOOSE m \in Marks : m # <<>>, CHOOSE i \in Infos : i # <<>>,
                {One, HeaderCard})
Changes == {[Base EXCEPT !.style = [title |-> "t", target |-> "_self"], !.cards = {Two}],
            [Base EXCEPT !.count = 2, !.bookmarks = <<>>],
            [Base EXCEPT !.infos = <<>>, !.cards = {Two, HeaderCard}],
            [Base EXCEPT !.present = FALSE, !.count = 0]}
Moving == {[first |-> Base, then |-> cl, locked |-> FALSE, files |-> NoFiles, clients |-> {c1},
            creds |-> {NoCred}, routes |-> Handled, maxFailures |-> 1, maxEdits |-> 0] : cl \in Changes}

Line(u, p, b) == [user |-> u, pass |-> p, bcrypt |-> b]
File1 == <<Line("u", "old", TRUE), Line("v", "any", FALSE)>>
File2 == <<Line("u", "old", TRUE), Line("u", "new", TRUE)>>
HtpasswdFiles == {File1, File2}
Logins == {[user |-> "u", pass |-> "old"], [user |-> "u", pass |-> "new"]}
Bare == [Base EXCEPT !.authRef = "s1", !.cards = {}, !.bookmarks = <<>>, !.infos = <<>>]
Locked(clients, creds, routes, failing, changes) ==
    [first |-> Bare, then |-> Bare, locked |-> TRUE, clients |-> clients, creds |-> creds,
     routes |-> routes, files |-> [s1 |-> File1, s2 |-> File2],
     maxFailures |-> failing, maxEdits |-> changes]

AllWorlds == Pages \cup Strips \cup Moving
               \cup {Locked({c1, c2}, Logins, {"static"}, 0, 1),
                     Locked({c1, c2}, {[user |-> "u", pass |-> "old"]}, {"static"}, 0, 2),
                     Locked({c1}, Logins \cup {NoCred}, {"index", "healthz"}, 1, 1)}
=============================================================================

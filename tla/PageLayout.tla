----------------------------- MODULE PageLayout -----------------------------
(***************************************************************************)
(* What the dashboard shows: the Store's cards, the Dashboard's style and   *)
(* the lists of PageLists, arranged into tabs, nested groups and a header   *)
(* (internal/dashboard/store.go, site.go and server.go).                    *)
(*                                                                         *)
(* A group path is the sequence of its "/"-separated segments, and a key    *)
(* the sequence of ranks and digits that its text compares as.  Names in    *)
(* one place differ before either ends, so segments compare one by one.     *)
(***************************************************************************)
EXTENDS PageLists

Arranged(S) == Arrange(S, LAMBDA i, j : i < j)
-----------------------------------------------------------------------------
(***************************************************************************)
(* The Store.  A card is stored under the key of a widget of a ServiceCard  *)
(* entry, of an entry with only a monitor, of a discovered route, or of a   *)
(* header widget.                                                          *)
(***************************************************************************)
Digits(n) == IF n < 10 THEN <<n>> ELSE <<n \div 10, n % 10>>    \* n < 100

\* "discovery/" and "header/" sort before this Dashboard's namespace, "/"
\* before a digit and a digit before "monitor".
KeyText(key) ==
    CASE key.kind = "found"   -> <<1, key.obj>>
      [] key.kind = "header"  -> <<2, key.obj, -1>> \o Digits(key.entry)
      [] key.kind = "widget"  -> <<3, key.obj, -1>> \o Digits(key.entry)
                                   \o <<-1>> \o Digits(key.widget)
      [] key.kind = "monitor" -> <<3, key.obj, -1>> \o Digits(key.entry) \o <<-1, 10>>

\* By group, order, name and key; a group sorts before its subgroups.
SortText(c) == c.group \o <<-1, c.order, c.name>> \o KeyText(c.key)

Snapshot(cards) == Arrange(cards, LAMBDA c, d : LexBefore(SortText(c), SortText(d)))

serviceCards(cards) == SelectSeq(cards, LAMBDA c : c.key.kind # "header")

mergeCardGroupKey(key) ==
    IF key.kind \in {"widget", "monitor"}
    THEN [kind |-> "entry", obj |-> key.obj, entry |-> key.entry, widget |-> 0]
    ELSE key

mergeWidgetIndex(key) == IF key.kind = "widget" THEN key.widget ELSE 0

\* One card out of the cards of an entry's widgets.
mergeCards(cards) ==
    LET Index(i) == mergeWidgetIndex(cards[i].key)
        order    == Arrange(DOMAIN cards, LAMBDA i, j :
                      LexBefore(<<Index(i), i>>, <<Index(j), j>>))
    IN  [cards[order[1]] EXCEPT
           !.fields = FlattenSeq(Map(order, LAMBDA i : cards[i].fields)),
           !.err = FlattenSeq(Map(order, LAMBDA i : cards[i].err))]

mergeServiceCards(cards) ==
    LET Key(i) == mergeCardGroupKey(cards[i].key)
        firsts == Arranged({i \in DOMAIN cards : \A j \in 1..(i - 1) : Key(j) # Key(i)})
        Of(i)  == SelectSeq(cards, LAMBDA c : mergeCardGroupKey(c.key) = Key(i))
    IN  Map(firsts, LAMBDA i : mergeCards(Of(i)))
-----------------------------------------------------------------------------
(***************************************************************************)
(* Groups of cards, nested by path.                                        *)
(***************************************************************************)
groupCards(cards, site) ==
    LET firsts == Arranged({i \in DOMAIN cards :
                              \A j \in 1..(i - 1) : cards[j].group # cards[i].group})
        Of(p)  == SelectSeq(cards, LAMBDA c : c.group = p)
    IN  Map(firsts, LAMBDA i : NewGroup(cards[i].group, Of(cards[i].group), site))

\* The group at path p with all that is below it, siblings in the order in
\* which flat first has a card for one of them.
RECURSIVE Nested(_, _, _)
Nested(flat, p, site) ==
    LET own     == {i \in DOMAIN flat : flat[i].path = p}
        below   == {i \in DOMAIN flat : IsStrictPrefix(p, flat[i].path)}
        Child(i) == SubSeq(flat[i].path, 1, Len(p) + 1)
        firsts  == Arranged({i \in below : \A j \in below : j < i => Child(j) # Child(i)})
        subs    == Map(firsts, LAMBDA i : Nested(flat, Child(i), site))
        group   == IF own = {} THEN NewGroup(p, <<>>, site)
                               ELSE flat[CHOOSE i \in own : TRUE]
    IN  [group EXCEPT !.subgroups = subs]

nestGroups(flat, site) == Nested(flat, <<>>, site).subgroups

\* The entry a tab has for a path: the last one, as a map built in order has.
Entries(groups, path) == {i \in DOMAIN groups : groups[i].name = path}
EntryFor(groups, path) == CHOOSE i \in Entries(groups, path) :
                             \A j \in Entries(groups, path) : j <= i

RECURSIVE applyLayoutStyles(_, _)
applyLayoutStyles(g, groups) ==
    LET styled == IF Entries(groups, g.path) = {} THEN g
                  ELSE applyLayoutStyle(g, groups[EntryFor(groups, g.path)])
    IN  [styled EXCEPT !.subgroups = Map(@, LAMBDA h : applyLayoutStyles(h, groups))]

\* Mutant: a subgroup that is not listed comes first.
UnlistedFirst(groups, path) ==
    IF Entries(groups, path) = {} THEN -1 ELSE EntryFor(groups, path) - 1

Rank(groups, path) ==
    IF Entries(groups, path) = {} THEN Cardinality({groups[i].name : i \in DOMAIN groups})
                                  ELSE EntryFor(groups, path) - 1

RECURSIVE orderSubgroups(_, _)
orderSubgroups(g, groups) ==
    LET subs    == g.subgroups
        R(i)    == Rank(groups, subs[i].path)
        order   == Arrange(DOMAIN subs, LAMBDA i, j : LexBefore(<<R(i), i>>, <<R(j), j>>))
    IN  [g EXCEPT !.subgroups =
           Map(order, LAMBDA i : orderSubgroups(subs[i], groups))]

\* Mutant: every tab that lists a group shows it.
PlacesAgain(layout, t, i) == Len(layout[t].groups[i].name) = 1

\* Entry i of tab t puts its group there: it names a top-level group, and no
\* entry before it does.
Places(layout, t, i) ==
    LET name == layout[t].groups[i].name
    IN  /\ Len(name) = 1
        /\ \A u \in 1..(t - 1) : Entries(layout[u].groups, name) = {}
        /\ \A j \in 1..(i - 1) : layout[t].groups[j].name # name

layoutTabs(cards, site) ==
    LET tree   == nestGroups(groupCards(cards, site), site)
        layout == site.layout
        At(p)  == SelectSeq(tree, LAMBDA g : g.path = p)
        Placed(t, i) == IF ~Places(layout, t, i) THEN <<>>
            ELSE LET gs == layout[t].groups
                 IN  Map(At(gs[i].name), LAMBDA g :
                           orderSubgroups(applyLayoutStyles(g, gs), gs))
        Tab(t) == [name |-> layout[t].name,
                   groups |-> FlattenSeq([i \in DOMAIN layout[t].groups |-> Placed(t, i)])]
        tabs   == [t \in DOMAIN layout |-> Tab(t)] \o <<>>
        other  == SelectSeq(tree, LAMBDA g :
                     \A t \in DOMAIN layout : Entries(layout[t].groups, g.path) = {})
    IN  IF layout = <<>> THEN <<[name |-> "", groups |-> tree]>>
        ELSE tabs \o (IF other = <<>> THEN <<>>
                      ELSE <<[name |-> "Other", groups |-> other]>>)
-----------------------------------------------------------------------------
(***************************************************************************)
(* The site: the Dashboard's style over the built-in defaults.  A style is  *)
(* a function from the names of the fields that are set.                    *)
(***************************************************************************)
DefaultSite ==
    [title |-> "kubepage", theme |-> "dark", themeFixed |-> FALSE, target |-> "_blank",
     startURL |-> "/", searchURL |-> "", layout |-> <<>>, disableCollapse |-> FALSE,
     groupsInitiallyCollapsed |-> FALSE, useEqualHeights |-> FALSE,
     disableIndexing |-> FALSE, hideErrors |-> FALSE]

Set(spec, field, default) == IF field \in DOMAIN spec THEN spec[field] ELSE default
SetNot(spec, field, default) == IF field \in DOMAIN spec THEN ~spec[field] ELSE default

applyLookFields(site, spec) ==
    [site EXCEPT !.title = Set(spec, "title", @), !.target = Set(spec, "target", @),
                 !.theme = Set(spec, "theme", @), !.themeFixed = @ \/ "theme" \in DOMAIN spec]
applySearch(site, spec) ==      \* "other": a URL of another scheme
    [site EXCEPT !.searchURL =
        IF Set(spec, "searchURL", "other") = "other" THEN @ ELSE spec.searchURL]
applyLayout(site, spec) == [site EXCEPT !.layout = Set(spec, "layout", @)]
applyBehaviorFields(site, spec) ==
    [site EXCEPT
        !.disableCollapse = SetNot(spec, "collapse", @),
        !.groupsInitiallyCollapsed = Set(spec, "groupsInitiallyCollapsed", @),
        !.useEqualHeights = Set(spec, "useEqualHeights", @),
        !.disableIndexing = SetNot(spec, "indexing", @),
        !.startURL = Set(spec, "startURL", @),
        !.hideErrors = SetNot(spec, "errorDisplay", @)]

applyStyle(site, spec) ==
    applyBehaviorFields(applyLayout(applySearch(applyLookFields(site, spec), spec), spec), spec)
-----------------------------------------------------------------------------
(***************************************************************************)
(* The header strip.                                                       *)
(***************************************************************************)
StaticTypes == {"greeting", "datetime", "logo"}
WeatherTypes == {"openmeteo", "openweathermap"}
IconLabels == {"CPU", "Memory", "Storage"}

\* A weather widget's icon follows the condition it polled, in "Conditions".
defaultHeaderWidgetIcon(type, fields) ==
    LET condition == SelectSeq(fields, LAMBDA f : f.label = "Conditions")
    IN  CASE type \in WeatherTypes /\ condition # <<>> -> <<"wi", condition[1].value>>
          [] type \in WeatherTypes /\ condition = <<>> -> <<"wi", "day-sunny">>
          [] type \in {"kubemetrics", "longhorn"}      -> <<type>>
          [] OTHER                                     -> <<>>

headerFields(type, fields) ==
    Map(fields, LAMBDA f :
       [value |-> f.value, iconOnly |-> f.label \in IconLabels,
        label |-> IF f.label \in IconLabels \/ type \in WeatherTypes THEN "" ELSE f.label])

\* Every left-aligned widget before every right-aligned one, the first of
\* which pushes the rest to the edge.
partitionHeaderAlign(views) ==
    LET left  == SelectSeq(views, LAMBDA v : v.align # "right")
        right == SelectSeq(views, LAMBDA v : v.align = "right")
    IN  left \o [i \in DOMAIN right |-> [right[i] EXCEPT !.pushRight = (i = 1)]]

buildHeader(defs, cards) ==
    LET Live(d) == SelectSeq(cards, LAMBDA c : c.key = d.key)
        Fields(d) == IF Live(d) = <<>> THEN <<>> ELSE Live(d)[1].fields
        View(d) ==
          IF d.type \in StaticTypes
          THEN [key |-> d.key, align |-> d.align, pushRight |-> FALSE, text |-> d.text,
                icon |-> IF d.type = "logo" THEN d.icon ELSE <<>>,
                fields |-> <<>>, err |-> <<>>]
          ELSE [key |-> d.key, align |-> d.align, pushRight |-> FALSE, text |-> "",
                icon |-> IF d.icon # <<>> THEN d.icon
                         ELSE defaultHeaderWidgetIcon(d.type, Fields(d)),
                fields |-> headerFields(d.type, Fields(d)),
                err |-> IF Live(d) = <<>> THEN <<>> ELSE Live(d)[1].err]
    IN  partitionHeaderAlign(Map(defs, View))
=============================================================================

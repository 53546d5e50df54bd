------------------------------ MODULE MCPoller ------------------------------
(***************************************************************************)
(* Small clusters for Poller: what each may hold is chosen so that every   *)
(* kind of entry, and the removal of each, occur.                          *)
(***************************************************************************)
EXTENDS Poller, TLC

W(o)   == [override |-> o, url |-> TRUE, ca |-> FALSE]
E(name, url, monitor, pods, widgets) ==
    [name |-> name, url |-> url, monitor |-> monitor, pods |-> pods,
     hide |-> FALSE, widgets |-> widgets]
H(name, o) == [name |-> name, widget |-> W(o)]
C(services, headers) ==
    [services |-> services, headers |-> headers, discovery |-> NoDiscovery, routes |-> {},
     allow |-> TRUE]

InCluster == [SampleData |-> FALSE, Preview |-> FALSE, GatewayAPIEnabled |-> TRUE]
InPreview == [SampleData |-> FALSE, Preview |-> TRUE, GatewayAPIEnabled |-> FALSE]
Sample    == [SampleData |-> TRUE, Preview |-> TRUE, GatewayAPIEnabled |-> FALSE]
ClusterMode == {InCluster}
AllModes    == {InCluster, InPreview, Sample}

Ann(name, monitor, ping) ==
    [NoAnnotations EXCEPT !.enabled = "true", !.name = name, !.monitor = monitor, !.ping = ping]
Route(source, namespace, name, annotations) ==
    [source |-> source, namespace |-> namespace, name |-> name, hosts |-> <<"h1">>, tls |-> {"h1"},
     annotations |-> annotations]

\* Two routes: one in another namespace that still has homepage's annotations
\* beside its own, one without a title.
Everywhere == [enabled |-> TRUE, sources |-> {}, namespaces |-> {Own, "other"},
               prefix |-> "", homepageCompat |-> TRUE]
Routes == {Route("Ingress", "other", "r1",
                 Native :> Ann("x", "", "") @@ Homepage :> Ann("y", "", "true")),
           Route("Ingress", Own, "r2", Homepage :> Ann("", "", ""))}

\* A monitored widget whose URL is looked up and a header item, against routes.
CardConfigs ==
    {C(<<E("a", "auto", "self", "none", <<W(2)>>)>>, <<H("h", 2)>>),
     [C(<<>>, <<>>) EXCEPT
        !.discovery = Everywhere, !.routes = Routes]}

\* A discovered route with a monitor and a monitored widget with only an internal
\* URL, which preview mode ignores, against a widget with a CA bundle and pods.
RouteConfigs ==
    {[C(<<E("a", "internal", "self", "none",
           <<[override |-> 2, url |-> FALSE, ca |-> FALSE]>>)>>, <<>>) EXCEPT
        !.discovery = [Everywhere EXCEPT !.sources = {"HTTPRoute"}, !.namespaces = {}],
        !.routes = {Route("HTTPRoute", Own, "r3", Native :> Ann("", "true", ""))}],
     C(<<E("b", "none", "none", "foreign",
           <<[override |-> 0, url |-> TRUE, ca |-> TRUE]>>)>>, <<>>)}
=============================================================================

----------------------------- MODULE Discovery -----------------------------
(***************************************************************************)
(* Discovery of services by annotation (internal/dashboard/discovery.go):  *)
(* the Ingresses and HTTPRoutes that opt in, in the Dashboard's namespace  *)
(* and in those its spec names.                                            *)
(*                                                                         *)
(* An object has, per annotation prefix, what the keys below that prefix   *)
(* say ("" where a key is absent), and the hosts it serves (<<>> where an  *)
(* Ingress's first rule has none).                                         *)
(***************************************************************************)
EXTENDS Sequences

Own == "own"                            \* the Dashboard's namespace
Native == "kubepage.io/"                \* the default annotation prefix
Homepage == "gethomepage.dev/"
NoAnnotations == [enabled |-> "", name |-> "", monitor |-> "", ping |-> "", href |-> <<>>]
NoDiscovery == [enabled |-> FALSE, sources |-> {}, namespaces |-> {}, prefix |-> "",
                homepageCompat |-> FALSE]

HasSource(spec, source) ==
    IF spec.sources = {} THEN source = "Ingress" ELSE source \in spec.sources

extraDiscoveryNamespaces(spec) == spec.namespaces \ {Own}

Prefix(spec) == IF spec.prefix = "" THEN Native ELSE spec.prefix

stripAnnotationPrefix(annotations, prefix) ==
    IF prefix \in DOMAIN annotations THEN annotations[prefix] ELSE NoAnnotations

\* The convention that opts the object in, if one does; never two of them.
discoveryAnnotations(annotations, spec) ==
    LET native == stripAnnotationPrefix(annotations, Prefix(spec))
        compat == stripAnnotationPrefix(annotations, Homepage)
    IN  CASE native.enabled = "true" -> {native}
          [] native.enabled # "true" /\ spec.homepageCompat /\ compat.enabled = "true" -> {compat}
          [] OTHER -> {}

discoveryMonitorEnabled(ann) == ann.monitor = "true" \/ ann.ping = "true"

ingressHref(o) ==
    CASE o.hosts = <<>> -> <<>>
      [] o.hosts # <<>> /\ o.hosts[1] \in o.tls -> <<"https", o.hosts[1]>>
      [] OTHER -> <<"http", o.hosts[1]>>

httpRouteHref(o) == IF o.hosts = <<>> THEN <<>> ELSE <<"https", o.hosts[1]>>

discoveredService(o, ann) ==
    [source |-> o.source, namespace |-> o.namespace, id |-> o.name,
     name |-> IF ann.name # "" THEN ann.name ELSE o.name,
     href |-> CASE ann.href # <<>> -> ann.href
                [] ann.href = <<>> /\ o.source = "Ingress" -> ingressHref(o)
                [] OTHER -> httpRouteHref(o),
     monitor |-> discoveryMonitorEnabled(ann)]

\* Mutant: one namespace that cannot be listed fails the whole source.
DiscoverAllOrNothing(source, objects, listed, spec) ==
    IF ~(({Own} \cup extraDiscoveryNamespaces(spec)) \subseteq listed) THEN {}
    ELSE UNION {{discoveredService(o, ann) : ann \in discoveryAnnotations(o.annotations, spec)} :
                   o \in {o \in objects : /\ o.source = source
                                          /\ o.namespace \in {Own} \cup extraDiscoveryNamespaces(spec)}}

\* What one source finds when the namespaces in listed can be listed: nothing
\* at all without the Dashboard's own, else whatever the others give.
discoverServices(source, objects, listed, spec) ==
    LET read == listed \cap ({Own} \cup extraDiscoveryNamespaces(spec))
    IN  IF Own \notin listed THEN {}
        ELSE UNION {{discoveredService(o, ann) : ann \in discoveryAnnotations(o.annotations, spec)} :
                       o \in {o \in objects : o.source = source /\ o.namespace \in read}}
=============================================================================

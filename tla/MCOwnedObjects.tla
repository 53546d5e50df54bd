--------------------------- MODULE MCOwnedObjects ---------------------------
(***************************************************************************)
(* Two or three specs that differ in every field that matters, so that an  *)
(* edit switches each object on and off.                                   *)
(***************************************************************************)
EXTENDS OwnedObjects

Base ==
    [replicas |-> Nil, template |-> "t1", probe |-> "unset", metrics |-> FALSE,
     policy |-> FALSE, routes |-> FALSE, ingress |-> Off, gateway |-> Off,
     keys |-> [k \in Annotated |-> {}]]

\* An annotated Ingress, then a second replica behind a Gateway instead.
TwoSpecs ==
    {[Base EXCEPT !.ingress = "i1", !.keys["Service"] = {"a"}, !.keys["Ingress"] = {"a"}],
     [Base EXCEPT !.replicas = 2, !.template = "t2", !.metrics = TRUE, !.policy = TRUE,
                  !.routes = TRUE, !.gateway = "g1"]}

\* A probe of the user's own that leaves its period to the API server.
PartialProbe == {[Base EXCEPT !.probe = p] : p \in {"full", "partial"}}
=============================================================================

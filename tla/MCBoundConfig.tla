--------------------------- MODULE MCBoundConfig ---------------------------
(***************************************************************************)
(* Two Dashboards, one of which only lets widgets read labelled Secrets; a *)
(* ServiceCard and a Bookmark.                                             *)
(***************************************************************************)
EXTENDS BoundConfig

TwoDashboards ==
    [d \in {"d1", "d2"} |->
       IF d = "d1" THEN [labeled |-> TRUE, auth |-> {"s2"}, defaults |-> {}]
                   ELSE [labeled |-> FALSE, auth |-> {}, defaults |-> {"s2"}]]

W(keys) == [type |-> "api", object |-> TRUE, keys |-> keys]

\* A card that names no Dashboard and one Secret; one that names d2, the other
\* Secret, and a config with a key missing and one too many.
Specs ==
    [o \in {"card", "mark"} |->
       IF o = "card"
       THEN {[ref |-> Unset, secrets |-> {"s1"}, widgets |-> {W({"url"}), W({"url", "x"})}],
             [ref |-> "d2", secrets |-> {"s2"}, widgets |-> {W({"y"}), W({"url", "path"})}]}
       ELSE {[ref |-> Unset, secrets |-> {}, widgets |-> {}]}]

Schemas == [t \in {"api"} |-> [required |-> {"url"}, optional |-> {"path"}]]
=============================================================================

----------------------------- MODULE GrantLedger -----------------------------
(***************************************************************************)
(* What the operator promises about the RBAC it creates outside a          *)
(* Dashboard's namespace, without saying how: the guard (the finalizer on  *)
(* the stored Dashboard), a ledger (the namespaces its status names) and   *)
(* the grants that exist.  A grant in a namespace exists only while the    *)
(* ledger names it, a cluster-wide one only under the guard, and the guard *)
(* is given up only when nothing is granted any more.                      *)
(***************************************************************************)
CONSTANTS
  Places,     \* where a RoleBinding may be: a family and a namespace
  ClusterWide \* the objects without a namespace

VARIABLES
  guarded, \* does the finalizer hold the Dashboard?
  ledger,  \* the places the stored status names
  bound,   \* the places that hold a RoleBinding
  wide     \* the cluster-wide objects that exist

vars == <<guarded, ledger, bound, wide>>

Init ==
  /\ guarded = FALSE
  /\ ledger = {}
  /\ bound = {}
  /\ wide = {}

\* The finalizer is added, before anything is granted.
Guard ==
  /\ ~guarded
  /\ guarded' = TRUE
  /\ UNCHANGED <<ledger, bound, wide>>

\* The status is written; no existing RoleBinding drops out of it.
Rewrite ==
  /\ guarded
  /\ ledger' \in SUBSET Places
  /\ bound \subseteq ledger'
  /\ UNCHANGED <<guarded, bound, wide>>

Bind ==
  /\ guarded
  /\ \E p \in ledger : bound' = bound \cup {p}
  /\ UNCHANGED <<guarded, ledger, wide>>

Unbind ==
  /\ \E p \in bound : bound' = bound \ {p}
  /\ UNCHANGED <<guarded, ledger, wide>>

Widen ==
  /\ guarded
  /\ \E o \in ClusterWide : wide' = wide \cup {o}
  /\ UNCHANGED <<guarded, ledger, bound>>

Narrow ==
  /\ \E o \in wide : wide' = wide \ {o}
  /\ UNCHANGED <<guarded, ledger, bound>>

\* The finalizer is removed.
Release ==
  /\ guarded
  /\ bound = {} /\ wide = {}
  /\ guarded' = FALSE
  /\ ledger' = {}
  /\ UNCHANGED <<bound, wide>>

Next == Guard \/ Rewrite \/ Bind \/ Unbind \/ Widen \/ Narrow \/ Release

Spec == Init /\ [][Next]_vars
=============================================================================

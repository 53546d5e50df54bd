------------------------------ MODULE Binding ------------------------------
(***************************************************************************)
(* Which Dashboard a config object belongs to (api/v1alpha1/               *)
(* common_types.go): the rule the controllers and the dashboard pod share. *)
(***************************************************************************)
EXTENDS Naturals

Unset == ""         \* RefName of an object without dashboardRef

BoundTo(ref, name, dashboardCount) ==
    IF ref # Unset THEN ref = name ELSE dashboardCount = 1
=============================================================================

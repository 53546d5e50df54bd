------------------------ MODULE MCDashboardLifecycle ------------------------
(* Instances of DashboardLifecycle for TLC. *)
EXTENDS DashboardLifecycle, TLC

CONSTANTS own, n1, n2

Namespaces == {own, n1, n2}

SpecOf(on, disc, mon) ==
  [enabled |-> on,
   namespaces |-> ("disc" :> disc @@ "mon" :> mon)]

\* Grants in both families, a shift of namespaces, the own namespace (which
\* needs no grant), and discovery turned off with its namespaces still listed.
ManySpecs ==
  {SpecOf(TRUE, {n1, n2}, {}), SpecOf(TRUE, {own, n2}, {n1}), SpecOf(FALSE, {n1}, {})}

\* A grant in n1, and a list naming the missing n2.
FewSpecs == {SpecOf(TRUE, {n1}, {}), SpecOf(FALSE, {n1}, {n1, n2})}

\* A grant in n1, or none.
OnOff == {SpecOf(TRUE, {n1}, {}), SpecOf(FALSE, {n1}, {own})}

OneMissing == {n2}
=============================================================================

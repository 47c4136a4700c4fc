--------------------------- MODULE MCPiholePoller ---------------------------
(* Model-checking instances of PiholePoller. *)
EXTENDS PiholePoller

\* Symmetry of the Pi-holes, for the runs without a temporal property.
HostSymmetry == Permutations(Hosts)
=============================================================================

------------------------- MODULE MCTelescopeControl -------------------------
(* Instances of TelescopeControl for TLC. *)
EXTENDS TelescopeControl, TLC

\* Clients are interchangeable.
Symmetry == Permutations(Clients)
=============================================================================

---------------------------- MODULE MCVideoRelay ----------------------------
(* Instances of VideoRelay for TLC. *)
EXTENDS VideoRelay, TLC

\* Subscribers and producer tasks are interchangeable.
Symmetry == Permutations(Subscribers) \cup Permutations(Producers)
=============================================================================

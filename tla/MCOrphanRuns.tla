---------------------------- MODULE MCOrphanRuns ----------------------------
(* Small instances of OrphanRuns for TLC. *)
EXTENDS OrphanRuns, TLC

CONSTANTS c1, c2

\* Request threads are interchangeable: they only differ in their name.
Symmetry == Permutations(Clients)
=============================================================================

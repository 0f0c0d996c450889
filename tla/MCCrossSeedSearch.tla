------------------------- MODULE MCCrossSeedSearch -------------------------
(* Two torrents and a release for TLC. *)
EXTENDS CrossSeedSearch

CONSTANTS a, b, r1

MCTorrents == {a, b}
MCResults == {r1}
MCNone == {}
MCOne == {b}
=============================================================================

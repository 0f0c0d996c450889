-------------------------- MODULE MCSearchScheduler --------------------------
(***************************************************************************)
(* Instances of SearchScheduler for TLC.  A tick stands for some 15        *)
(* seconds: an interactive search waits 1 tick after the last request, an  *)
(* RSS search 2, of which it accepts to wait for 1.                        *)
(***************************************************************************)
EXTENDS SearchScheduler, TLC

MCRank == [p \in Priorities |-> IF p = RSS THEN 1 ELSE 0]
MCInterval == [p \in Priorities |-> IF p = RSS THEN 2 ELSE 1]
MCMaxWait == [p \in Priorities |-> IF p = RSS THEN 1 ELSE 0]
MCShortCooldown == <<2>>
MCOneLevel == <<3>>
MCSymmetry == Permutations(Indexers)
=============================================================================

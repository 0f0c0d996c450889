------------------------------- MODULE Keeping -------------------------------
(***************************************************************************)
(* Array.prototype.filter, for a test that is membership in a set. It is   *)
(* SelectSeq of module Sequences, written out because the provers do not   *)
(* see into SelectSeq. KeepingProofs has its laws.                         *)
(***************************************************************************)
EXTENDS Integers, Sequences

\* The members of s that are in S, in the order of s.
Keep(s, S) ==
  LET kept[n \in 0 .. Len(s)] ==
        IF n = 0 THEN <<>>
        ELSE IF s[n] \in S THEN Append(kept[n - 1], s[n]) ELSE kept[n - 1]
  IN  kept[Len(s)]
=============================================================================

--------------------------- MODULE CrossSeedPromise ---------------------------
(***************************************************************************)
(* What the manual cross-seed search promises of the torrents it adds: a   *)
(* release is added beside a torrent only after a search for that very     *)
(* torrent found it, and only if that result was still the server's latest *)
(* when the user's choice was accepted.  Who asks, how often answers are   *)
(* lost and which torrent a browser shows do not matter here.              *)
(***************************************************************************)
CONSTANTS Torrents, Results

VARIABLES fresh,      \* per torrent, the results of the latest search that found any
          accepted,   \* the <<torrent, result>> pairs whose adding is under way
          added       \* the pairs that were added

vars == <<fresh, accepted, added>>

Pairs == Torrents \X Results

Init ==
    /\ fresh = [t \in Torrents |-> {}]
    /\ accepted = {}
    /\ added = {}

\* A search for t found the results found.
Find(t, found) ==
    /\ found # {}
    /\ fresh' = [fresh EXCEPT ![t] = found]
    /\ UNCHANGED <<accepted, added>>

\* The results of some torrents are forgotten, and so may be what is under way.
Forget ==
    /\ \E lost \in SUBSET Torrents : fresh' = [t \in Torrents |-> IF t \in lost THEN {} ELSE fresh[t]]
    /\ accepted' \in SUBSET accepted
    /\ UNCHANGED added

\* The user's choice of results for t is accepted, as far as they are fresh.
Accept(t, chosen) ==
    /\ chosen \subseteq fresh[t]
    /\ accepted' = accepted \cup ({t} \X chosen)
    /\ UNCHANGED <<fresh, added>>

\* One accepted pair is added, or fails; another request may still hold it.
Finish(p) ==
    /\ p \in accepted
    /\ added' \in {added, added \cup {p}}
    /\ accepted' \in {accepted, accepted \ {p}}
    /\ UNCHANGED fresh

Next ==
    \/ \E t \in Torrents : \/ \E found \in SUBSET Results : Find(t, found)
                           \/ \E chosen \in SUBSET Results : Accept(t, chosen)
    \/ Forget
    \/ \E p \in Pairs : Finish(p)

Spec == Init /\ [][Next]_vars
===============================================================================

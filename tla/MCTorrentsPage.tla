---------------------------- MODULE MCTorrentsPage ----------------------------
(***************************************************************************)
(* The page of torrents: its list, or the filters beside it, one of the    *)
(* two at a time. The other one rests where it began.                      *)
(***************************************************************************)
EXTENDS MCTorrentsList, TorrentFilters

VARIABLE part \* "list", "filters"

pageVars == <<part, vars, filterVars>>

\* A status, a category with a subcategory, two trackers and their merger.
Box(g, S) == [group |-> g, values |-> S]

MCBoxes ==
  {Box("status", {"seeding"}), Box("categories", {"tv"}), Box("categories", {"tv/hd"}),
   Box("trackers", {"t1"}), Box("trackers", {"t1", "t2"})}
MCBelow  == {<<"tv", "tv/hd">>}
MCSorted == <<"tv", "tv/hd">>

PageInit ==
  /\ Init /\ FiltersInit
  /\ \/ part = "list" /\ inst = 1
     \/ part = "filters" /\ criteria = all /\ ~cross

PageNext ==
  /\ part' = part
  /\ \/ part = "list" /\ Next /\ UNCHANGED filterVars
     \/ part = "filters" /\ FiltersNext /\ UNCHANGED vars

\* The fairness of the part that is in use.
InList(A) == part = "list" /\ A

PageSpec ==
  /\ PageInit /\ [][PageNext]_pageVars
  /\ WF_vars(InList(Commit)) /\ WF_vars(InList(Poll)) /\ WF_vars(InList(Refetch))
  /\ WF_vars(InList(Reconnect)) /\ WF_vars(InList(DeleteSuccess)) /\ WF_vars(InList(ServerDelete))
  /\ \A k \in Keys : WF_vars(InList(Serve(k))) /\ WF_vars(InList(Arrive(k)))
  /\ WF_filterVars(part = "filters" /\ RunEffects)

\* The variables of both parts range over their sets (the two TypeOK); no
\* value is both included and excluded (set*State of FilterSidebar).
PageTypeOK == TypeOK /\ FiltersTypeOK /\ NeverBoth

(***************************************************************************)
(* While the list is in use, staying on the first page brings it to the    *)
(* server's state (FirstPageConverges of TorrentsList).                    *)
(***************************************************************************)
ListConverges == part = "list" => FirstPageConverges

(***************************************************************************)
(* The effects of the sidebar settle, with the expanded categories those   *)
(* of the chosen ones (Settles of TorrentFilters).                         *)
(***************************************************************************)
FiltersSettle == part = "filters" => Settles
=============================================================================

-------------------------- MODULE TorrentSelection --------------------------
(***************************************************************************)
(* The selection of the torrent table and the actions taken on it:         *)
(* TorrentTableOptimized, its context menu, the dialogs of                 *)
(* useTorrentActions, and the way BulkAction of the server resolves a      *)
(* request to torrents.                                                    *)
(*                                                                         *)
(* A row is a torrent on an instance; the same hash may be on several. The *)
(* table shows the rows loaded so far of the torrents that match the       *)
(* filters, and a poll may change them under the user's hands at any time. *)
(* A dialog keeps the hashes and torrents it was opened with, and reads    *)
(* whether everything is selected when it is confirmed.                    *)
(*                                                                         *)
(* Several requests may be under way. Those of one mutation share an       *)
(* observer, which follows the latest only, and isPending is that of the   *)
(* observers: it does not see a request another has taken the place of,    *)
(* nor a deletion that still waits for the blocklist.                      *)
(***************************************************************************)
EXTENDS Integers, Sequences, FiniteSets, SequencesExt, Keeping

CONSTANTS
  Rows,        \* the torrents: records [inst, hash]
  Unified,     \* the view of all instances (one instance otherwise)
  Orders,      \* the orders the server may list the torrents in
  ColMatch,    \* the torrents the column filters let through
  ExprMatch,   \* the torrents the cross-seed expression names
  SameFiles,   \* the torrents of its instance that share a torrent's files
  PageSize,    \* rows loaded
  MaxEvents,   \* bound: changes of the server's rows and of the filters
  MaxClicks,   \* bound: gestures that change the selection
  MaxRequests, \* bound: requests sent, searches for cross-seeds among them
  MaxSteps     \* bound: all of these together

ASSUME SelectionAssumption ==
  /\ IsFiniteSet(Rows) /\ \A r \in Rows : {"inst", "hash"} \subseteq DOMAIN r
  /\ Unified \in BOOLEAN
  /\ ~Unified => \A r, t \in Rows : r.hash = t.hash => r = t
  /\ \A o \in Orders : o \in Seq(Rows)
  /\ ColMatch \subseteq Rows /\ ExprMatch \subseteq Rows
  /\ SameFiles \in [Rows -> SUBSET Rows]
  /\ \A r \in Rows : \A t \in SameFiles[r] : t.inst = r.inst
  /\ {PageSize, MaxEvents, MaxClicks, MaxRequests, MaxSteps} \subseteq Nat

VARIABLES
  server,           \* the torrents the server has
  order,            \* the order it lists them in
  columnFilters,    \* a column filter is set
  expr,             \* the cross-seed expression is set
  sortedTorrents,   \* the rows of the table
  totalCount,       \* how many torrents match, by the last answer
  rowSelection, isAllSelected, excludedFromSelectAll,
  anchor,           \* lastSelectedIndexRef, 0 for null
  dialog,           \* "none" or the kind of the open dialog
  contextHashes, contextTorrents,
  deleteCrossSeeds, affectedTorrents, searchState,
  checking,         \* the torrents of a search for cross-seeds under way
  pending,          \* the requests under way
  events, clicks, requests,
  opened            \* what the open dialog was opened for, and beside what

table  == <<sortedTorrents, totalCount>>
sel    == <<rowSelection, isAllSelected, excludedFromSelectAll, anchor>>
scope  == <<columnFilters, expr>>
ctx    == <<contextHashes, contextTorrents>>
warning == <<affectedTorrents, searchState, checking>>
server_ == <<server, order>>
bounds == <<events, clicks, requests>>
dialogs == <<dialog, ctx, deleteCrossSeeds, warning, opened>>
vars   == <<server_, scope, table, sel, dialogs, pending, bounds>>

Within(n) == events + clicks + requests + n <= MaxSteps

Disturbance ==
  /\ events < MaxEvents /\ Within(1)
  /\ events' = events + 1 /\ UNCHANGED <<clicks, requests>>

Click ==
  /\ clicks < MaxClicks /\ Within(1)
  /\ clicks' = clicks + 1 /\ UNCHANGED <<events, requests>>

HashesOf(S) == {r.hash : r \in S}

\* The dialogs that keep their torrents, and those that keep their hashes only.
Keepers == {"delete", "tags", "limits", "edit"}
Kinds   == Keepers \cup {"recheck", "tmm"}

\* beside: the requests under way that isPending did not see when the dialog was
\* opened; emptied: one of them has been answered since.
Nothing == [all |-> FALSE, rows |-> {}, beside |-> {}, emptied |-> FALSE]

isPending == \E q \in pending : q.seen

(***************************************************************************)
(* The rows the server answers: with the cross-seed expression the column  *)
(* filters are left to the client, otherwise both go to the server.        *)
(***************************************************************************)
Listed == {r \in server : /\ expr => r \in ExprMatch
                          /\ ~expr /\ columnFilters => r \in ColMatch}

\* Mutant: the rows beyond the page are taken too.
AnswerUnlimited(S, o) == Keep(o, S)

Answer(S, o) ==
  LET all == Keep(o, S)
  IN  SubSeq(all, 1, IF Len(all) < PageSize THEN Len(all) ELSE PageSize)

Visible == ToSet(sortedTorrents)

IsRowSelected(r) ==
  IF isAllSelected THEN r \notin excludedFromSelectAll ELSE r \in rowSelection

\* selectedTorrents, and selectedHashes by their hashes.
Selected == {r \in Visible : IsRowSelected(r)}

effectiveSelectionCount ==
  IF ~isAllSelected THEN Cardinality(rowSelection)
  ELSE IF totalCount > Cardinality(excludedFromSelectAll)
       THEN totalCount - Cardinality(excludedFromSelectAll) ELSE 0

\* What the checkboxes say: under select-all also the rows not loaded yet.
Shown ==
  IF isAllSelected THEN Listed \ excludedFromSelectAll ELSE rowSelection

(***************************************************************************)
(* The effects that follow a change of the rows: a selected row or an      *)
(* exclusion that is no longer in the table, or an empty table, resets the *)
(* selection.                                                              *)
(***************************************************************************)
\* Mutant: only an empty table resets the selection.
InvalidSelectionTableOnly(rows, all, picked, out) == rows = {} /\ (all \/ picked # {})

InvalidSelection(rows, all, picked, out) ==
  \/ all /\ ~(out \subseteq rows)
  \/ ~all /\ ~(picked \subseteq rows)
  \/ rows = {} /\ (all \/ picked # {})

Select(rows, all, picked, out, at) ==
  LET bad == InvalidSelection(rows, all, picked, out)
  IN  /\ isAllSelected' = (all /\ ~bad)
      /\ rowSelection' = IF bad THEN {} ELSE picked
      /\ excludedFromSelectAll' = IF bad THEN {} ELSE out
      /\ anchor' = IF bad THEN 0 ELSE at

Init ==
  /\ server = Rows /\ order \in Orders
  /\ columnFilters = FALSE /\ expr \in BOOLEAN
  /\ sortedTorrents = Answer(Listed, order) /\ totalCount = Cardinality(Listed)
  /\ rowSelection = {} /\ isAllSelected = FALSE
  /\ excludedFromSelectAll = {} /\ anchor = 0
  /\ dialog = "none" /\ contextHashes = {} /\ contextTorrents = {}
  /\ deleteCrossSeeds = FALSE /\ affectedTorrents = {}
  /\ searchState = "idle" /\ checking = {}
  /\ pending = {} /\ events = 0 /\ clicks = 0 /\ requests = 0
  /\ opened = Nothing

(***************************************************************************)
(* The server's answer to a poll, a scroll or a changed column filter.     *)
(***************************************************************************)
Refresh ==
  /\ sortedTorrents' = Answer(Listed, order)
  /\ totalCount' = Cardinality(Listed)
  /\ table' # table
  /\ Select(ToSet(sortedTorrents'), isAllSelected, rowSelection,
            excludedFromSelectAll, anchor)
  /\ UNCHANGED <<server_, scope, dialogs, pending, bounds>>

ServerChange ==
  /\ Disturbance
  /\ \/ \E r \in server : server' = server \ {r} /\ order' = order
     \/ \E o \in Orders \ {order} : order' = o /\ server' = server
  /\ UNCHANGED <<scope, table, sel, dialogs, pending>>

\* A column filter does not count as a user action: the selection stays.
SetColumnFilter ==
  /\ Disturbance
  /\ dialog = "none" /\ columnFilters' = ~columnFilters
  /\ UNCHANGED <<server_, expr, table, sel, dialogs, pending>>

\* Filters, search and instance do, and reset it.
SetFilter ==
  /\ Disturbance
  /\ dialog = "none" /\ expr' = ~expr
  /\ Select(Visible, FALSE, {}, {}, 0)
  /\ UNCHANGED <<server_, columnFilters, table, dialogs, pending>>

(***************************************************************************)
(* Selecting. Toggling a row goes to the exclusions under select-all.      *)
(***************************************************************************)
Toggled(S, checked, at) ==
  Select(Visible, isAllSelected,
         IF isAllSelected THEN rowSelection
         ELSE IF checked THEN rowSelection \cup S ELSE rowSelection \ S,
         IF ~isAllSelected THEN excludedFromSelectAll
         ELSE IF checked THEN excludedFromSelectAll \ S
                         ELSE excludedFromSelectAll \cup S, at)

Between(i, j) ==
  {sortedTorrents[k] : k \in {n \in DOMAIN sortedTorrents :
                                (i <= n /\ n <= j) \/ (j <= n /\ n <= i)}}

Gesture ==
  Click /\ UNCHANGED <<server_, scope, table, dialogs, pending>>

handleSelectAll ==
  /\ Gesture
  /\ dialog = "none"
  /\ IF isAllSelected \/ rowSelection # {}
     THEN Select(Visible, FALSE, {}, {}, 0)
     ELSE Select(Visible, TRUE, {}, {}, anchor)

\* The hotkey looks for role="dialog" around the focused element, and the dialog
\* of a deletion has the role "alertdialog".
selectAllWithShortcut ==
  /\ Gesture
  /\ dialog \in {"none", "delete"}
  /\ sortedTorrents # <<>>
  /\ Select(Visible, TRUE, {}, {}, 0)

\* A checkbox, or a click with Ctrl: with Shift the rows from the anchor on.
handleCheckbox(i, shift) ==
  /\ Gesture
  /\ dialog = "none"
  /\ Toggled(IF shift /\ anchor # 0 THEN Between(anchor, i) ELSE {sortedTorrents[i]},
             ~IsRowSelected(sortedTorrents[i]), i)

\* A click with Shift selects from the anchor, which it keeps.
shiftClick(i) ==
  /\ Gesture
  /\ dialog = "none"
  /\ Toggled(IF anchor # 0 THEN Between(anchor, i) ELSE {sortedTorrents[i]}, TRUE,
             IF anchor # 0 THEN anchor ELSE i)

\* A plain click on a row that is not selected makes it the selection.
rowClick(i) ==
  /\ Gesture
  /\ dialog = "none"
  /\ ~IsRowSelected(sortedTorrents[i])
  /\ Select(Visible, FALSE, {sortedTorrents[i]}, {}, i)

\* A plain click on the row whose details are open closes them and deselects it.
detailsClick(i) ==
  /\ Gesture
  /\ dialog = "none"
  /\ IsRowSelected(sortedTorrents[i])
  /\ Toggled({sortedTorrents[i]}, FALSE,
             IF ~isAllSelected /\ Cardinality(rowSelection) <= 1 THEN 0 ELSE anchor)

clickEmptySpace ==
  /\ Gesture
  /\ dialog = "none"
  /\ isAllSelected \/ rowSelection # {}
  /\ Select(Visible, FALSE, {}, {}, 0)

(***************************************************************************)
(* The context menu works on the selection if its row is part of it or     *)
(* everything is selected, otherwise on its row, which becomes the         *)
(* selection when at most one row was.                                     *)
(***************************************************************************)
useSelection(r) == IsRowSelected(r) \/ isAllSelected

MenuTorrents(r) == IF useSelection(r) THEN Selected ELSE {r}

MenuShown(r) == IF useSelection(r) THEN Shown ELSE {r}

onContextMenu(r) ==
  IF ~IsRowSelected(r) /\ Cardinality(Selected) <= 1
  THEN Select(Visible, isAllSelected, {r}, excludedFromSelectAll, anchor)
  ELSE UNCHANGED sel

(***************************************************************************)
(* BulkAction. Explicit targets win in the unified view; hashes without    *)
(* targets are looked up on every instance there. Under select-all the     *)
(* filters are resolved again, without the exclusions; the column filters  *)
(* take the place of the expression. A request that names nothing is       *)
(* refused.                                                                *)
(***************************************************************************)
shouldResolveCrossInstanceHashes(req) ==
  Unified /\ ~req.selectAll /\ req.hashes # {} /\ req.targets = {}

selectAllFilters(req) ==
  {r \in server : IF req.columns THEN r \in ColMatch ELSE req.expr => r \in ExprMatch}

Named(req) ==
  IF req.selectAll THEN selectAllFilters(req) \ req.excludeTargets
  ELSE req.targets
       \cup IF ~Unified THEN {r \in Rows : r.hash \in req.hashes}
            ELSE IF shouldResolveCrossInstanceHashes(req)
                 THEN {r \in server : r.hash \in req.hashes} ELSE {}

selectAllExcludedTargets == excludedFromSelectAll \cap Visible

\* bare: neither targets nor, in the unified view, exclusions are sent.
Request(hashes, targets, bare) ==
  [selectAll |-> isAllSelected, columns |-> columnFilters, expr |-> expr,
   hashes  |-> IF isAllSelected THEN {} ELSE hashes,
   targets |-> IF isAllSelected \/ bare THEN {} ELSE targets,
   excludeTargets |->
     IF isAllSelected /\ ~(bare /\ Unified) THEN selectAllExcludedTargets ELSE {}]

\* handleAction without options.
HashesOnly(hashes) ==
  [selectAll |-> FALSE, columns |-> FALSE, expr |-> FALSE, hashes |-> hashes,
   targets |-> {}, excludeTargets |-> {}]

(***************************************************************************)
(* A request as its handler captures it: its kind, what it is meant for,   *)
(* and the hashes the table drops when a deletion has succeeded. Once sent *)
(* it also has what is left of that and what it reaches, and the observer  *)
(* follows it.                                                             *)
(***************************************************************************)
Captured(by, mode, want, client, cross, req) ==
  [id |-> requests + 1, by |-> by, stage |-> "blocking", seen |-> FALSE,
   mode |-> mode, cross |-> cross, emptied |-> opened.emptied, client |-> client,
   req |-> req, want |-> want, left |-> want, got |-> {}, refused |-> FALSE]

Sent(q) ==
  [q EXCEPT !.stage = "sent", !.seen = TRUE, !.left = q.want \cap server,
            !.got = Named(q.req) \cap server, !.refused = Named(q.req) = {}]

Observer(q) == IF q.by = "tags" THEN "updateTagsMutation" ELSE "mutation"

\* The requests the observer followed before q is sent are no longer seen.
Superseded(q) ==
  {IF Observer(p) = Observer(q) THEN [p EXCEPT !.seen = FALSE] ELSE p
     : p \in pending \ {q}}

Count(n) ==
  /\ requests + n <= MaxRequests /\ Within(n)
  /\ requests' = requests + n /\ UNCHANGED <<events, clicks>>

Send(q) == Count(1) /\ pending' = Superseded(q) \cup {Sent(q)}

\* Both limits: two mutations of one observer, which follows the second.
SendBoth(q) ==
  /\ Count(2)
  /\ pending' = Superseded(q) \cup {[Sent(q) EXCEPT !.seen = FALSE],
                                    [Sent(q) EXCEPT !.id = q.id + 1]}

(***************************************************************************)
(* runAction: pause, resume, priorities and the like, without a dialog.    *)
(***************************************************************************)
\* Mutant: the targets of the menu are not sent.
RunActionUntargeted(r) ==
  /\ dialog = "none" /\ ~isPending
  /\ onContextMenu(r)
  /\ Send(Captured("run", "same", MenuShown(r), {}, FALSE,
                   Request(HashesOf(MenuTorrents(r)), {}, FALSE)))
  /\ UNCHANGED <<server_, scope, table, dialogs>>

RunAction(r) ==
  /\ dialog = "none" /\ ~isPending
  /\ onContextMenu(r)
  /\ Send(Captured("run", "same", MenuShown(r), {}, FALSE,
                   Request(HashesOf(MenuTorrents(r)), MenuTorrents(r), FALSE)))
  /\ UNCHANGED <<server_, scope, table, dialogs>>

(***************************************************************************)
(* The dialogs. Deleting and editing (tags, speed limits; "edit" for       *)
(* category, share limits and location) keep hashes and torrents;          *)
(* rechecking, reannouncing and automatic management keep the hashes only, *)
(* and a single torrent is rechecked or reannounced without a dialog.      *)
(***************************************************************************)
MenuCount(r) ==
  IF isAllSelected THEN effectiveSelectionCount ELSE Cardinality(MenuTorrents(r))

Opened(rows) ==
  [all |-> isAllSelected, rows |-> rows, emptied |-> FALSE,
   beside |-> {q.id : q \in {p \in pending : ~p.seen}}]

Open(kind, r) ==
  /\ kind = "recheck" => MenuCount(r) > 1
  /\ dialog' = kind
  /\ contextHashes' = HashesOf(MenuTorrents(r))
  /\ contextTorrents' = IF kind \in Keepers THEN MenuTorrents(r) ELSE contextTorrents
  /\ deleteCrossSeeds' = (deleteCrossSeeds /\ kind # "delete")
  /\ opened' = Opened(MenuShown(r) \cup MenuTorrents(r))
  /\ UNCHANGED warning

\* Mutant: a dialog may be opened while a request is under way.
PrepareWhilePending(kind, r) ==
  /\ dialog = "none"
  /\ MenuTorrents(r) # {}
  /\ onContextMenu(r)
  /\ Open(kind, r)
  /\ UNCHANGED <<server_, scope, table, pending, bounds>>

Prepare(kind, r) ==
  /\ dialog = "none" /\ ~isPending
  /\ MenuTorrents(r) # {}
  /\ onContextMenu(r)
  /\ Open(kind, r)
  /\ UNCHANGED <<server_, scope, table, pending, bounds>>

prepareRecheckDirect(r) ==
  /\ dialog = "none" /\ ~isPending
  /\ MenuCount(r) = 1
  /\ onContextMenu(r)
  /\ contextHashes' = HashesOf(MenuTorrents(r))
  /\ Send(Captured("single", "same", MenuShown(r), {}, FALSE,
                   HashesOnly(HashesOf(MenuTorrents(r)))))
  /\ UNCHANGED <<server_, scope, table, dialog, contextTorrents, deleteCrossSeeds,
                 warning, opened>>

\* The Delete key opens the dialog for the selection.
handleDeleteHotkey ==
  /\ dialog = "none" /\ ~isPending
  /\ effectiveSelectionCount > 0
  /\ dialog' = "delete" /\ deleteCrossSeeds' = FALSE
  /\ contextHashes' = HashesOf(Selected) /\ contextTorrents' = Selected
  /\ opened' = Opened(Shown \cup Selected)
  /\ UNCHANGED <<server_, scope, table, sel, warning, pending, bounds>>

(***************************************************************************)
(* useCrossSeedWarning: on demand, the torrents that share files with those*)
(* of the dialog. Closing the dialog resets the result but not the search: *)
(* its answer is shown in whatever dialog is open then. One search at a    *)
(* time (a bound).                                                         *)
(***************************************************************************)
CheckCrossSeeds ==
  /\ dialog = "delete" /\ searchState = "idle" /\ checking = {}
  /\ contextTorrents # {} /\ checking' = contextTorrents
  /\ searchState' = "searching" /\ affectedTorrents' = {}
  /\ Count(1)
  /\ UNCHANGED <<server_, scope, table, sel, dialog, ctx, deleteCrossSeeds, pending,
                 opened>>

\* After an error the search can be started again.
CrossSeedsChecked ==
  /\ checking # {} /\ checking' = {}
  /\ \/ /\ affectedTorrents' = {t \in server \cap UNION {SameFiles[r] : r \in checking} :
                                  t.hash \notin HashesOf(checking)}
        /\ searchState' = "complete"
     \/ searchState' = "idle" /\ affectedTorrents' = affectedTorrents
  /\ UNCHANGED <<server_, scope, table, sel, dialog, ctx, deleteCrossSeeds, pending,
                 bounds, opened>>

setDeleteCrossSeeds ==
  /\ dialog = "delete" /\ searchState = "complete" /\ affectedTorrents # {}
  /\ deleteCrossSeeds' = ~deleteCrossSeeds
  /\ UNCHANGED <<server_, scope, table, sel, dialog, ctx, warning, pending, bounds,
                 opened>>

\* Closing the dialog of a deletion, with the reset of its warning.
CloseDelete ==
  /\ dialog' = "none" /\ deleteCrossSeeds' = FALSE /\ opened' = Nothing
  /\ affectedTorrents' = {} /\ searchState' = "idle" /\ checking' = checking

Mode ==
  CASE isAllSelected = opened.all   -> "same"
    [] isAllSelected /\ ~opened.all -> "widened"
    [] ~isAllSelected /\ opened.all -> "narrowed"

Meant == IF isAllSelected /\ opened.all THEN Shown ELSE opened.rows

(***************************************************************************)
(* handleDeleteWrapper. With the cross-seeds only hashes are sent. When    *)
(* they are to be blocked too, the request waits for that with the dialog  *)
(* closed; blocking never fails it.                                        *)
(***************************************************************************)
Also == IF deleteCrossSeeds THEN affectedTorrents ELSE {}

Deletion ==
  LET hashes == contextHashes \cup HashesOf(Also)
  IN  Captured("delete", Mode, Meant \cup (IF isAllSelected THEN {} ELSE Also),
               hashes, deleteCrossSeeds,
               Request(hashes, contextTorrents, deleteCrossSeeds))

ConfirmDelete ==
  /\ dialog = "delete"
  /\ \/ Send(Deletion)
     \/ /\ contextTorrents \cup Also # {}
        /\ Count(1) /\ pending' = pending \cup {Deletion}
  /\ CloseDelete
  /\ UNCHANGED <<server_, scope, table, sel, ctx>>

BlockingDone(q) ==
  /\ q.stage = "blocking"
  /\ pending' = Superseded(q) \cup {Sent(q)}
  /\ UNCHANGED <<server_, scope, table, sel, dialogs, bounds>>

\* The other dialogs wait for isPending; that of automatic management closes.
Confirm ==
  LET q == Captured(dialog, Mode, Meant, contextHashes, FALSE,
                    Request(contextHashes, contextTorrents, FALSE))
  IN  /\ dialog \notin {"none", "delete"} /\ ~isPending
      /\ \/ Send(q)
         \/ dialog = "limits" /\ SendBoth(q)
      /\ IF dialog = "tmm"
         THEN dialog' = "none" /\ contextHashes' = {} /\ opened' = Nothing
         ELSE UNCHANGED <<dialog, contextHashes, opened>>
      /\ UNCHANGED <<server_, scope, table, sel, contextTorrents, deleteCrossSeeds, warning>>

Cancel ==
  /\ dialog # "none"
  /\ IF dialog = "delete" THEN CloseDelete
     ELSE dialog' = "none" /\ opened' = Nothing /\ UNCHANGED <<deleteCrossSeeds, warning>>
  /\ UNCHANGED <<server_, scope, table, sel, ctx, pending, bounds>>

(***************************************************************************)
(* The answer. Every success forgets the torrents of the dialog, whichever *)
(* is open, and closes the dialog of its own action; that of a deletion    *)
(* also takes the rows away and resets the selection.                      *)
(***************************************************************************)
\* "edit", "recheck" and "run" stand for several actions: the answer to a request
\* made before the dialog was opened may be of another one, and then it stays.
Closes(q) ==
  \/ q.by = dialog /\ q.by # "tmm"
  \/ q.by = "single" /\ dialog = "recheck"
  \/ q.by = "run" /\ dialog = "edit"

Surely(q) ==
  q.by = dialog /\ (q.by \in {"delete", "tags", "limits"} \/ q.id \notin opened.beside)

Forget(q) ==
  /\ contextHashes' = {} /\ contextTorrents' = {}
  /\ \/ Closes(q) /\ dialog' = "none" /\ opened' = Nothing
     \/ /\ ~(Closes(q) /\ Surely(q)) /\ dialog' = dialog
        /\ opened' = [opened EXCEPT !.emptied = @ \/ q.id \in opened.beside]

OnSuccess(q) ==
  /\ q.stage = "sent" /\ ~q.refused
  /\ pending' = pending \ {q}
  /\ Forget(q)
  /\ IF q.by = "delete"
     THEN /\ server' = server \ q.got
          /\ sortedTorrents' = Keep(sortedTorrents, {r \in Rows : r.hash \notin q.client})
          /\ Select(ToSet(sortedTorrents'), FALSE, {}, {}, 0)
          /\ deleteCrossSeeds' = FALSE
     ELSE UNCHANGED <<server, sortedTorrents, sel, deleteCrossSeeds>>
  /\ UNCHANGED <<order, scope, totalCount, warning, bounds>>

\* After a failure the dialog stays, but that of the tags closes as on success.
OnError(q) ==
  /\ q.stage = "sent"
  /\ pending' = pending \ {q}
  /\ IF q.by = "tags" THEN Forget(q) ELSE UNCHANGED <<dialog, ctx, opened>>
  /\ UNCHANGED <<server_, scope, table, sel, deleteCrossSeeds, warning, bounds>>

Select_ ==
  \/ handleSelectAll \/ selectAllWithShortcut \/ clickEmptySpace
  \/ \E i \in DOMAIN sortedTorrents :
       \/ \E shift \in BOOLEAN : handleCheckbox(i, shift)
       \/ shiftClick(i) \/ rowClick(i) \/ detailsClick(i)

Act ==
  \/ \E r \in Visible :
       \/ RunAction(r) \/ prepareRecheckDirect(r)
       \/ \E kind \in Kinds : Prepare(kind, r)
  \/ handleDeleteHotkey \/ CheckCrossSeeds \/ CrossSeedsChecked \/ setDeleteCrossSeeds
  \/ ConfirmDelete \/ Confirm \/ Cancel
  \/ \E q \in pending : BlockingDone(q) \/ OnSuccess(q) \/ OnError(q)

Next == Refresh \/ ServerChange \/ SetColumnFilter \/ SetFilter \/ Select_ \/ Act

Spec == Init /\ [][Next]_vars
-----------------------------------------------------------------------------
Requests ==
  [id : 1 .. MaxRequests, by : Kinds \cup {"run", "single"}, stage : {"blocking", "sent"},
   seen : BOOLEAN, mode : {"same", "widened", "narrowed"}, cross : BOOLEAN,
   emptied : BOOLEAN, client : SUBSET HashesOf(Rows),
   req : [selectAll : BOOLEAN, columns : BOOLEAN, expr : BOOLEAN,
          hashes : SUBSET HashesOf(Rows), targets : SUBSET Rows,
          excludeTargets : SUBSET Rows],
   want : SUBSET Rows, left : SUBSET Rows, got : SUBSET Rows, refused : BOOLEAN]

(* The variables range over these sets. *)
TypeOK ==
  /\ server \subseteq Rows /\ order \in Orders
  /\ columnFilters \in BOOLEAN /\ expr \in BOOLEAN
  /\ sortedTorrents \in Seq(Rows) /\ Len(sortedTorrents) <= PageSize
  /\ totalCount \in 0 .. Cardinality(Rows)
  /\ rowSelection \subseteq Rows /\ isAllSelected \in BOOLEAN
  /\ excludedFromSelectAll \subseteq Rows /\ anchor \in 0 .. PageSize
  /\ dialog \in Kinds \cup {"none"}
  /\ contextHashes \subseteq HashesOf(Rows) /\ contextTorrents \subseteq Rows
  /\ deleteCrossSeeds \in BOOLEAN /\ affectedTorrents \subseteq Rows
  /\ searchState \in {"idle", "searching", "complete"} /\ checking \subseteq Rows
  /\ pending \subseteq Requests
  /\ events \in 0 .. MaxEvents /\ clicks \in 0 .. MaxClicks
  /\ requests \in 0 .. MaxRequests
  /\ opened \in [all : BOOLEAN, rows : SUBSET Rows, beside : SUBSET (1 .. MaxRequests),
                 emptied : BOOLEAN]

(***************************************************************************)
(* Whatever the polls do to the rows, what is selected one by one and what *)
(* is excluded one by one is on screen, and the two are never in force     *)
(* together: no action reaches a row the user cannot see as selected.      *)
(***************************************************************************)
SelectionOnScreen ==
  /\ ~isAllSelected => rowSelection \subseteq Visible
  /\ isAllSelected => excludedFromSelectAll \subseteq Visible
  /\ ~isAllSelected => excludedFromSelectAll = {}

(***************************************************************************)
(* What a request of the context menu or of a dialog that keeps its        *)
(* torrents reaches, although rows come and go while the dialog is open or *)
(* the blocklist is awaited. Left out are the shortcut that selects        *)
(* everything under an open dialog (widened) and the filters that the      *)
(* cross-seed expression and the columns set together.                     *)
(*  - It reaches exactly what is left of what was chosen, on its own       *)
(*    instance, if everything is still selected where it was, no answer    *)
(*    has emptied the dialog, and it is not a bare request: a deletion     *)
(*    with cross-seeds in the view of all instances;                       *)
(*  - otherwise fewer of them, and nothing else;                           *)
(*  - a bare request reaches nothing but copies of what was chosen;        *)
(*  - under select-all a request reaches at least what was chosen.         *)
(***************************************************************************)
Bare(q) == q.cross /\ Unified
Clear(q) == q.mode # "widened" /\ ~(q.req.selectAll /\ q.req.columns /\ q.req.expr)
Chosen == {q \in pending : q.stage = "sent" /\ q.by \in Keepers \cup {"run"} /\ Clear(q)}

Reaches(q) ==
  /\ q.mode = "same" /\ ~Bare(q) /\ (q.req.selectAll \/ ~q.emptied) => q.got = q.left
  /\ ~q.req.selectAll /\ ~Bare(q) => q.got \subseteq q.want
  /\ ~q.req.selectAll => HashesOf(q.got) \subseteq HashesOf(q.want)
  /\ q.req.selectAll => q.left \subseteq q.got

RequestReachesSelection == \A q \in Chosen : Reaches(q)

(***************************************************************************)
(* What every deletion should do, and one with cross-seeds does not in the *)
(* view of all instances: it reaches only what was chosen for it.          *)
(***************************************************************************)
DeletionReachesSelection ==
  \A q \in Chosen : q.by = "delete" => q.got \subseteq q.want

(***************************************************************************)
(* While a dialog of the first kind is open its torrents stay those it was *)
(* opened with: no answer replaces them, and only the answer to a request  *)
(* that was under way when it was opened and that isPending did not see    *)
(* (the first of two limits, a deletion waiting for the blocklist, or one  *)
(* another request has taken the observer from) empties them.              *)
(***************************************************************************)
Intact ==
  /\ ~opened.all => contextTorrents # {}
  /\ contextHashes = HashesOf(contextTorrents)
  /\ contextTorrents \subseteq opened.rows

DialogKeepsTorrents ==
  dialog \in Keepers =>
    \/ Intact
    \/ opened.emptied /\ contextHashes = {} /\ contextTorrents = {}

(***************************************************************************)
(* The same without the exception, which the code does not keep.           *)
(***************************************************************************)
DialogNeverEmptied == dialog \in Keepers => Intact

(***************************************************************************)
(* A recheck of several torrents reaches the torrents it was chosen for.   *)
(***************************************************************************)
RecheckReachesSelection ==
  \A q \in pending :
    q.by = "recheck" /\ q.stage = "sent" /\ q.mode = "same" /\ ~q.req.selectAll =>
      q.got = q.left
=============================================================================

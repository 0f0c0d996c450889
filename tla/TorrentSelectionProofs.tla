------------------------ MODULE TorrentSelectionProofs ------------------------
(***************************************************************************)
(* Theorems about the selection of the torrent table, its dialogs and the  *)
(* requests made from them, for any rows, orders, filters, page size and   *)
(* bounds, in the view of one instance and in that of all.                 *)
(***************************************************************************)
EXTENDS TorrentSelection, KeepingProofs, FiniteSetTheorems, TLAPS

\* Polls, filters and gestures leave the dialogs and the requests alone, and the
\* server only loses torrents by them.
LEMMA QuietSteps ==
  ASSUME Refresh \/ ServerChange \/ SetColumnFilter \/ SetFilter \/ Select_
  PROVE  UNCHANGED <<dialog, contextHashes, contextTorrents, deleteCrossSeeds,
                     affectedTorrents, searchState, checking, opened, pending, requests>>
         /\ server' \subseteq server
<1>1. CASE Refresh \/ ServerChange \/ SetColumnFilter \/ SetFilter
  BY <1>1 DEF Refresh, ServerChange, SetColumnFilter, SetFilter, Disturbance, dialogs, ctx,
       warning, server_, bounds
<1>2. CASE Select_
  BY <1>2 DEF Select_, handleSelectAll, selectAllWithShortcut, clickEmptySpace,
       handleCheckbox, shiftClick, rowClick, detailsClick, Gesture, Click, dialogs, ctx,
       warning, server_
<1> QED BY <1>1, <1>2

-----------------------------------------------------------------------------
(***************************************************************************)
(* The variables range over their sets.                                    *)
(***************************************************************************)
ServerTypes == server \subseteq Rows /\ order \in Orders
ScopeTypes == columnFilters \in BOOLEAN /\ expr \in BOOLEAN
TableTypes ==
  /\ sortedTorrents \in Seq(Rows) /\ Len(sortedTorrents) <= PageSize
  /\ totalCount \in 0 .. Cardinality(Rows)
SelTypes ==
  /\ rowSelection \subseteq Rows /\ isAllSelected \in BOOLEAN
  /\ excludedFromSelectAll \subseteq Rows /\ anchor \in 0 .. PageSize
OpenedType == [all : BOOLEAN, rows : SUBSET Rows, beside : SUBSET (1 .. MaxRequests),
               emptied : BOOLEAN]
DialogTypes ==
  /\ dialog \in Kinds \cup {"none"}
  /\ contextHashes \subseteq HashesOf(Rows) /\ contextTorrents \subseteq Rows
  /\ deleteCrossSeeds \in BOOLEAN /\ opened \in OpenedType
WarningTypes ==
  /\ affectedTorrents \subseteq Rows /\ checking \subseteq Rows
  /\ searchState \in {"idle", "searching", "complete"}
RequestTypes == pending \subseteq Requests
BoundTypes ==
  events \in 0 .. MaxEvents /\ clicks \in 0 .. MaxClicks /\ requests \in 0 .. MaxRequests

LEMMA TypesAre ==
  TypeOK <=> /\ ServerTypes /\ ScopeTypes /\ TableTypes /\ SelTypes /\ DialogTypes
             /\ WarningTypes /\ RequestTypes /\ BoundTypes
BY DEF TypeOK, ServerTypes, ScopeTypes, TableTypes, SelTypes, DialogTypes, WarningTypes,
       RequestTypes, BoundTypes, OpenedType

LEMMA TypesAreNext ==
  (/\ ServerTypes /\ ScopeTypes /\ TableTypes /\ SelTypes /\ DialogTypes
   /\ WarningTypes /\ RequestTypes /\ BoundTypes)' => TypeOK'
BY DEF TypeOK, ServerTypes, ScopeTypes, TableTypes, SelTypes, DialogTypes, WarningTypes,
       RequestTypes, BoundTypes, OpenedType

LEMMA BoundsAre ==
  /\ PageSize \in Nat /\ MaxEvents \in Nat /\ MaxClicks \in Nat /\ MaxRequests \in Nat
  /\ MaxSteps \in Nat
  /\ IsFiniteSet(Rows) /\ \A o \in Orders : o \in Seq(Rows)
  /\ SameFiles \in [Rows -> SUBSET Rows]
BY SelectionAssumption

LEMMA AnswerTypes ==
  ASSUME ServerTypes
  PROVE  /\ Answer(Listed, order) \in Seq(Rows) /\ Len(Answer(Listed, order)) <= PageSize
         /\ Cardinality(Listed) \in 0 .. Cardinality(Rows)
<1>1. Cardinality(Listed) \in 0 .. Cardinality(Rows)
  <2>1. Listed \subseteq Rows
    BY DEF ServerTypes, Listed
  <2>2. IsFiniteSet(Listed) /\ Cardinality(Listed) <= Cardinality(Rows)
    BY <2>1, BoundsAre, FS_Subset
  <2>3. Cardinality(Listed) \in Nat /\ Cardinality(Rows) \in Nat
    BY <2>2, BoundsAre, FS_CardinalityType
  <2> QED
    BY <2>2, <2>3
<1>2. Answer(Listed, order) \in Seq(Rows) /\ Len(Answer(Listed, order)) <= PageSize
  <2> DEFINE kept == Keep(order, Listed)
             n == IF Len(kept) < PageSize THEN Len(kept) ELSE PageSize
  <2>1. kept \in Seq(Rows)
    BY BoundsAre, KeepFilters DEF ServerTypes
  <2>2. Answer(Listed, order) = SubSeq(kept, 1, n)
    BY DEF Answer
  <2> HIDE DEF kept
  <2>3. n \in 0 .. Len(kept) /\ n <= PageSize
    BY <2>1, BoundsAre
  <2> HIDE DEF n
  <2>4. SubSeq(kept, 1, n) \in Seq(Rows) /\ Len(SubSeq(kept, 1, n)) = n
    BY <2>1, <2>3
  <2> QED
    BY <2>2, <2>3, <2>4
<1> QED
  BY <1>1, <1>2

LEMMA SelectTypes ==
  ASSUME NEW rows, NEW all \in BOOLEAN, NEW picked \in SUBSET Rows, NEW out \in SUBSET Rows,
         NEW at \in 0 .. PageSize, Select(rows, all, picked, out, at)
  PROVE  SelTypes'
BY BoundsAre DEF Select, InvalidSelection, SelTypes

LEMMA VisibleTypes ==
  ASSUME TableTypes
  PROVE  /\ Visible \subseteq Rows /\ \A i \in DOMAIN sortedTorrents : sortedTorrents[i] \in Rows
         /\ \A i \in DOMAIN sortedTorrents : i \in 0 .. PageSize
         /\ \A i, j : Between(i, j) \subseteq Rows
BY BoundsAre DEF TableTypes, Visible, ToSet, Between

LEMMA ToggledTypes ==
  ASSUME SelTypes, NEW S \in SUBSET Rows, NEW checked, NEW at \in 0 .. PageSize,
         Toggled(S, checked, at)
  PROVE  SelTypes'
<1> DEFINE picked == IF isAllSelected THEN rowSelection
                     ELSE IF checked THEN rowSelection \cup S ELSE rowSelection \ S
           out == IF ~isAllSelected THEN excludedFromSelectAll
                  ELSE IF checked THEN excludedFromSelectAll \ S
                                  ELSE excludedFromSelectAll \cup S
<1>1. picked \in SUBSET Rows /\ out \in SUBSET Rows /\ isAllSelected \in BOOLEAN
  BY DEF SelTypes
<1>2. Select(Visible, isAllSelected, picked, out, at)
  BY DEF Toggled
<1> HIDE DEF picked, out
<1> QED
  BY <1>1, <1>2, SelectTypes

LEMMA GestureTypes ==
  ASSUME TypeOK, Gesture
  PROVE  /\ ServerTypes' /\ ScopeTypes' /\ TableTypes' /\ DialogTypes' /\ WarningTypes'
         /\ RequestTypes' /\ BoundTypes'
<1>1. UNCHANGED <<server, order, scope, table, dialogs, pending>>
  BY DEF Gesture, server_
<1>2. BoundTypes'
  BY BoundsAre, TypesAre DEF Gesture, Click, BoundTypes
<1> QED
  BY <1>1, <1>2, TypesAre DEF ServerTypes, ScopeTypes, TableTypes, DialogTypes, WarningTypes,
     RequestTypes, scope, table, dialogs, ctx, warning

LEMMA SelectStepTypes ==
  ASSUME TypeOK, Select_
  PROVE  TypeOK'
<1> USE TypesAre, TypesAreNext, VisibleTypes
<1>1. Gesture
  BY DEF Select_, handleSelectAll, selectAllWithShortcut, clickEmptySpace, handleCheckbox,
         shiftClick, rowClick, detailsClick
<1>0. 0 \in 0 .. PageSize /\ {} \in SUBSET Rows
  BY BoundsAre
<1>2. SelTypes'
  <2>1. CASE handleSelectAll
    BY <2>1, <1>0, SelectTypes DEF handleSelectAll, SelTypes
  <2>2. CASE selectAllWithShortcut \/ clickEmptySpace
    BY <2>2, <1>0, SelectTypes DEF selectAllWithShortcut, clickEmptySpace
  <2>3. ASSUME NEW i \in DOMAIN sortedTorrents, NEW shift \in BOOLEAN, handleCheckbox(i, shift)
        PROVE  SelTypes'
    <3> DEFINE S == IF shift /\ anchor # 0 THEN Between(anchor, i) ELSE {sortedTorrents[i]}
    <3>1. S \in SUBSET Rows /\ i \in 0 .. PageSize
      OBVIOUS
    <3>2. Toggled(S, ~IsRowSelected(sortedTorrents[i]), i)
      BY <2>3 DEF handleCheckbox
    <3> HIDE DEF S
    <3> QED
      BY <3>1, <3>2, ToggledTypes
  <2>4. ASSUME NEW i \in DOMAIN sortedTorrents, shiftClick(i) PROVE SelTypes'
    <3> DEFINE S == IF anchor # 0 THEN Between(anchor, i) ELSE {sortedTorrents[i]}
               at == IF anchor # 0 THEN anchor ELSE i
    <3>1. S \in SUBSET Rows /\ at \in 0 .. PageSize
      BY DEF SelTypes
    <3>2. Toggled(S, TRUE, at)
      BY <2>4 DEF shiftClick
    <3> HIDE DEF S, at
    <3> QED
      BY <3>1, <3>2, ToggledTypes
  <2>5. ASSUME NEW i \in DOMAIN sortedTorrents, rowClick(i) PROVE SelTypes'
    <3>1. {sortedTorrents[i]} \in SUBSET Rows /\ i \in 0 .. PageSize
      OBVIOUS
    <3>2. Select(Visible, FALSE, {sortedTorrents[i]}, {}, i)
      BY <2>5 DEF rowClick
    <3> QED
      BY <1>0, <3>1, <3>2, SelectTypes
  <2>6. ASSUME NEW i \in DOMAIN sortedTorrents, detailsClick(i) PROVE SelTypes'
    <3> DEFINE at == IF ~isAllSelected /\ Cardinality(rowSelection) <= 1 THEN 0 ELSE anchor
    <3>1. {sortedTorrents[i]} \in SUBSET Rows /\ at \in 0 .. PageSize
      BY <1>0 DEF SelTypes
    <3>2. Toggled({sortedTorrents[i]}, FALSE, at)
      BY <2>6 DEF detailsClick
    <3> HIDE DEF at
    <3> QED
      BY <3>1, <3>2, ToggledTypes
  <2> QED
    BY <2>1, <2>2, <2>3, <2>4, <2>5, <2>6 DEF Select_
<1> QED
  BY <1>1, <1>2, GestureTypes

\* What the menu, and a request made from it, are about.
LEMMA MenuTypes ==
  ASSUME ServerTypes, TableTypes, SelTypes, NEW r \in Visible
  PROVE  /\ MenuTorrents(r) \subseteq Rows /\ MenuShown(r) \subseteq Rows
         /\ HashesOf(MenuTorrents(r)) \subseteq HashesOf(Rows)
         /\ Selected \subseteq Rows /\ Shown \subseteq Rows
<1>1. Visible \subseteq Rows
  BY VisibleTypes
<1>2. Selected \subseteq Rows /\ Shown \subseteq Rows
  BY <1>1 DEF Selected, Shown, Listed, ServerTypes, SelTypes
<1>3. MenuTorrents(r) \subseteq Rows /\ MenuShown(r) \subseteq Rows
  BY <1>1, <1>2 DEF MenuTorrents, MenuShown
<1> QED
  BY <1>2, <1>3 DEF HashesOf

LEMMA ContextTypes ==
  ASSUME TableTypes, SelTypes, NEW r \in Visible, onContextMenu(r)
  PROVE  SelTypes'
<1>1. CASE UNCHANGED sel
  BY <1>1 DEF sel, SelTypes
<1>2. CASE Select(Visible, isAllSelected, {r}, excludedFromSelectAll, anchor)
  <2>1. {r} \in SUBSET Rows /\ isAllSelected \in BOOLEAN
        /\ excludedFromSelectAll \in SUBSET Rows /\ anchor \in 0 .. PageSize
    BY VisibleTypes DEF SelTypes
  <2> QED
    BY <1>2, <2>1, SelectTypes
<1> QED
  BY <1>1, <1>2 DEF onContextMenu

\* A request that is captured, sent or no longer seen is a request.
LEMMA RequestIs ==
  ASSUME TypeOK, NEW hashes \in SUBSET HashesOf(Rows), NEW targets \in SUBSET Rows,
         NEW bare \in BOOLEAN
  PROVE  Request(hashes, targets, bare) \in
           [selectAll : BOOLEAN, columns : BOOLEAN, expr : BOOLEAN,
            hashes : SUBSET HashesOf(Rows), targets : SUBSET Rows,
            excludeTargets : SUBSET Rows]
<1>1. selectAllExcludedTargets \in SUBSET Rows
  BY DEF TypeOK, selectAllExcludedTargets
<1>2. /\ isAllSelected \in BOOLEAN /\ columnFilters \in BOOLEAN /\ expr \in BOOLEAN
  BY DEF TypeOK
<1> HIDE DEF selectAllExcludedTargets
<1> QED BY <1>1, <1>2 DEF Request

LEMMA CapturedIs ==
  ASSUME TypeOK, requests + 1 <= MaxRequests,
         NEW by \in Kinds \cup {"run", "single"}, NEW mode \in {"same", "widened", "narrowed"},
         NEW want \in SUBSET Rows, NEW client \in SUBSET HashesOf(Rows), NEW cross \in BOOLEAN,
         NEW req \in [selectAll : BOOLEAN, columns : BOOLEAN, expr : BOOLEAN,
                      hashes : SUBSET HashesOf(Rows), targets : SUBSET Rows,
                      excludeTargets : SUBSET Rows]
  PROVE  Captured(by, mode, want, client, cross, req) \in Requests
<1>1. requests + 1 \in 1 .. MaxRequests /\ opened.emptied \in BOOLEAN
  BY BoundsAre DEF TypeOK
<1> QED BY <1>1 DEF Captured, Requests

LEMMA SentIs ==
  ASSUME NEW q \in Requests, server \subseteq Rows
  PROVE  /\ Sent(q) \in Requests
         /\ [Sent(q) EXCEPT !.seen = FALSE] \in Requests
         /\ q.id + 1 <= MaxRequests => [Sent(q) EXCEPT !.id = q.id + 1] \in Requests
<1> DEFINE named == Named(q.req)
           left == q.want \cap server
           got == named \cap server
           asked == [selectAll : BOOLEAN, columns : BOOLEAN, expr : BOOLEAN,
                     hashes : SUBSET HashesOf(Rows), targets : SUBSET Rows,
                     excludeTargets : SUBSET Rows]
<1>1. left \in SUBSET Rows /\ got \in SUBSET Rows /\ (named = {}) \in BOOLEAN
  OBVIOUS
<1>2. /\ q.id \in 1 .. MaxRequests /\ q.id + 1 <= MaxRequests => q.id + 1 \in 1 .. MaxRequests
  BY BoundsAre DEF Requests
<1>3. Sent(q) = [q EXCEPT !.stage = "sent", !.seen = TRUE, !.left = left, !.got = got,
                          !.refused = (named = {})]
  BY DEF Sent
<1>a. Requests =
        [id : 1 .. MaxRequests, by : Kinds \cup {"run", "single"}, stage : {"blocking", "sent"},
         seen : BOOLEAN, mode : {"same", "widened", "narrowed"}, cross : BOOLEAN,
         emptied : BOOLEAN, client : SUBSET HashesOf(Rows), req : asked,
         want : SUBSET Rows, left : SUBSET Rows, got : SUBSET Rows, refused : BOOLEAN]
  BY DEF Requests
<1> HIDE DEF named, left, got, asked
<1>4. Sent(q) \in Requests /\ Sent(q).id = q.id
  BY <1>1, <1>3, <1>a
<1>5. [Sent(q) EXCEPT !.seen = FALSE] \in Requests
  BY <1>4 DEF Requests
<1>6. q.id + 1 <= MaxRequests => [Sent(q) EXCEPT !.id = q.id + 1] \in Requests
  BY <1>2, <1>4 DEF Requests
<1> QED BY <1>4, <1>5, <1>6

LEMMA SupersededAre ==
  ASSUME RequestTypes, NEW q PROVE Superseded(q) \subseteq Requests
<1>1. \A p \in Requests : [p EXCEPT !.seen = FALSE] \in Requests
  BY DEF Requests
<1> QED BY <1>1 DEF RequestTypes, Superseded

LEMMA SendTypes ==
  ASSUME TypeOK, NEW q \in Requests, q.id = requests + 1, Send(q) \/ SendBoth(q)
  PROVE  RequestTypes' /\ BoundTypes'
<1>1. Superseded(q) \subseteq Requests /\ server \subseteq Rows
  BY SupersededAre, TypesAre DEF ServerTypes
<1>2. CASE Send(q)
  <2>1. pending' = Superseded(q) \cup {Sent(q)} /\ Sent(q) \in Requests
    BY <1>1, <1>2, SentIs DEF Send
  <2>2. BoundTypes'
    BY <1>2, BoundsAre, TypesAre DEF Send, Count, BoundTypes
  <2> QED BY <1>1, <2>1, <2>2 DEF RequestTypes
<1>3. CASE SendBoth(q)
  <2>1. requests + 2 <= MaxRequests /\ requests \in Nat /\ MaxRequests \in Nat
    BY <1>3, BoundsAre DEF SendBoth, Count, TypeOK
  <2>2. q.id + 1 <= MaxRequests
    BY <2>1
  <2>3. BoundTypes'
    BY <1>3, BoundsAre, TypesAre DEF SendBoth, Count, BoundTypes
  <2>4. pending' = Superseded(q) \cup {[Sent(q) EXCEPT !.seen = FALSE],
                                      [Sent(q) EXCEPT !.id = q.id + 1]}
    BY <1>3 DEF SendBoth
  <2>5. /\ [Sent(q) EXCEPT !.seen = FALSE] \in Requests
        /\ [Sent(q) EXCEPT !.id = q.id + 1] \in Requests
    BY <1>1, <2>2, SentIs
  <2> QED BY <1>1, <2>3, <2>4, <2>5 DEF RequestTypes
<1> QED BY <1>2, <1>3

\* What a request meant for the menu's torrents or for those of a dialog carries.
LEMMA OpenedIs ==
  ASSUME TypeOK, NEW rows \in SUBSET Rows PROVE Opened(rows) \in OpenedType
<1>1. {q.id : q \in {p \in pending : ~p.seen}} \in SUBSET (1 .. MaxRequests)
  BY DEF TypeOK, Requests
<1>2. isAllSelected \in BOOLEAN
  BY DEF TypeOK
<1> QED BY <1>1, <1>2 DEF Opened, OpenedType

LEMMA ShownIs ==
  ASSUME TypeOK
  PROVE  /\ Selected \subseteq Rows /\ Shown \subseteq Rows /\ Meant \subseteq Rows
         /\ Also \subseteq Rows /\ Mode \in {"same", "widened", "narrowed"}
<1>1. Visible \subseteq Rows
  BY TypesAre, VisibleTypes
<1>2. Selected \subseteq Rows /\ Shown \subseteq Rows
  BY <1>1 DEF Selected, Shown, Listed, TypeOK
<1>3. Meant \subseteq Rows /\ Also \subseteq Rows
  BY <1>2 DEF Meant, Also, TypeOK
<1>4. isAllSelected \in BOOLEAN /\ opened.all \in BOOLEAN
  BY DEF TypeOK
<1> QED BY <1>2, <1>3, <1>4 DEF Mode

LEMMA HashesWithin ==
  ASSUME NEW S \in SUBSET Rows PROVE HashesOf(S) \in SUBSET HashesOf(Rows)
BY DEF HashesOf

\* The requests made by the actions.
LEMMA RunIs ==
  ASSUME TypeOK, requests + 1 <= MaxRequests, NEW r \in Visible
  PROVE  Captured("run", "same", MenuShown(r), {}, FALSE,
                  Request(HashesOf(MenuTorrents(r)), MenuTorrents(r), FALSE)) \in Requests
<1>1. MenuTorrents(r) \in SUBSET Rows /\ MenuShown(r) \in SUBSET Rows
  BY TypesAre, MenuTypes
<1> QED BY <1>1, HashesWithin, RequestIs, CapturedIs

LEMMA SingleIs ==
  ASSUME TypeOK, requests + 1 <= MaxRequests, NEW r \in Visible
  PROVE  Captured("single", "same", MenuShown(r), {}, FALSE,
                  HashesOnly(HashesOf(MenuTorrents(r)))) \in Requests
<1>1. HashesOf(MenuTorrents(r)) \in SUBSET HashesOf(Rows) /\ MenuShown(r) \in SUBSET Rows
  BY TypesAre, MenuTypes
<1> DEFINE h == HashesOf(MenuTorrents(r))
<1>2. HashesOnly(h) \in [selectAll : BOOLEAN, columns : BOOLEAN, expr : BOOLEAN,
                         hashes : SUBSET HashesOf(Rows), targets : SUBSET Rows,
                         excludeTargets : SUBSET Rows]
  <2> HIDE DEF h
  <2> QED BY <1>1 DEF HashesOnly, h
<1> HIDE DEF h
<1> QED BY <1>1, <1>2, CapturedIs DEF h

LEMMA DeletionIs ==
  ASSUME TypeOK, requests + 1 <= MaxRequests PROVE Deletion \in Requests
<1> DEFINE hashes == contextHashes \cup HashesOf(Also)
           want == Meant \cup (IF isAllSelected THEN {} ELSE Also)
<1>1. hashes \in SUBSET HashesOf(Rows) /\ want \in SUBSET Rows
      /\ contextTorrents \in SUBSET Rows /\ deleteCrossSeeds \in BOOLEAN
  BY ShownIs, HashesWithin DEF TypeOK
<1>2. Deletion = Captured("delete", Mode, want, hashes, deleteCrossSeeds,
                          Request(hashes, contextTorrents, deleteCrossSeeds))
  BY DEF Deletion
<1> HIDE DEF hashes, want
<1>3. Request(hashes, contextTorrents, deleteCrossSeeds) \in
        [selectAll : BOOLEAN, columns : BOOLEAN, expr : BOOLEAN,
         hashes : SUBSET HashesOf(Rows), targets : SUBSET Rows, excludeTargets : SUBSET Rows]
  BY <1>1, RequestIs
<1>4. "delete" \in Kinds
  BY DEF Kinds, Keepers
<1> QED BY <1>1, <1>2, <1>3, <1>4, ShownIs, CapturedIs

Editing == Captured(dialog, Mode, Meant, contextHashes, FALSE,
                    Request(contextHashes, contextTorrents, FALSE))

LEMMA EditingIs ==
  ASSUME TypeOK, requests + 1 <= MaxRequests, dialog # "none" PROVE Editing \in Requests
<1>1. Request(contextHashes, contextTorrents, FALSE) \in
        [selectAll : BOOLEAN, columns : BOOLEAN, expr : BOOLEAN,
         hashes : SUBSET HashesOf(Rows), targets : SUBSET Rows, excludeTargets : SUBSET Rows]
  BY RequestIs DEF TypeOK
<1>2. contextHashes \in SUBSET HashesOf(Rows) /\ dialog \in Kinds
  BY DEF TypeOK
<1> QED BY <1>1, <1>2, ShownIs, CapturedIs DEF Editing

LEMMA CountIs ==
  ASSUME TypeOK, NEW n \in {1, 2}, Count(n)
  PROVE  requests + 1 <= MaxRequests /\ BoundTypes'
BY BoundsAre, TypesAre DEF Count, BoundTypes

LEMMA ForgetTypes ==
  ASSUME TypeOK, NEW q, Forget(q), deleteCrossSeeds' \in BOOLEAN PROVE DialogTypes'
<1>1. /\ contextHashes' = {} /\ contextTorrents' = {}
      /\ dialog' \in {dialog, "none"}
  BY DEF Forget
<1>2. opened' \in OpenedType
  <2>1. opened \in OpenedType
    BY DEF TypeOK, OpenedType
  <2>2. opened' = Nothing \/ opened' = [opened EXCEPT !.emptied = @ \/ q.id \in opened.beside]
    BY DEF Forget
  <2>3. Nothing \in OpenedType
    BY DEF Nothing, OpenedType
  <2>4. [opened EXCEPT !.emptied = @ \/ q.id \in opened.beside] \in OpenedType
    BY <2>1 DEF OpenedType
  <2> QED BY <2>2, <2>3, <2>4
<1> QED BY <1>1, <1>2 DEF DialogTypes, TypeOK

LEMMA TypeStep == TypeOK /\ [Next]_vars => TypeOK'
<1> SUFFICES ASSUME TypeOK, [Next]_vars PROVE TypeOK'
  OBVIOUS
<1> USE TypesAre, TypesAreNext
<1>0. 0 \in 0 .. PageSize /\ {} \in SUBSET Rows
  BY BoundsAre
<1>a. ASSUME UNCHANGED <<server, order, scope, table>>
      PROVE  ServerTypes' /\ ScopeTypes' /\ TableTypes'
  BY <1>a DEF ServerTypes, ScopeTypes, TableTypes, scope, table
<1>b. ASSUME UNCHANGED sel PROVE SelTypes'
  BY <1>b DEF SelTypes, sel
<1>c. ASSUME UNCHANGED dialogs PROVE DialogTypes' /\ WarningTypes'
  BY <1>c DEF DialogTypes, WarningTypes, dialogs, ctx, warning
<1>d. ASSUME UNCHANGED <<bounds, pending>> PROVE RequestTypes' /\ BoundTypes'
  BY <1>d DEF RequestTypes, BoundTypes, bounds
<1>e. ASSUME UNCHANGED warning PROVE WarningTypes'
  BY <1>e DEF WarningTypes, warning
<1>f. ASSUME CloseDelete, UNCHANGED ctx PROVE DialogTypes' /\ WarningTypes'
  BY <1>f DEF CloseDelete, DialogTypes, WarningTypes, OpenedType, Nothing, ctx
<1>1. CASE Refresh
  <2>1. UNCHANGED <<server, order, scope, dialogs, pending, bounds>>
    BY <1>1 DEF Refresh, server_
  <2>2. TableTypes'
    BY <1>1, AnswerTypes DEF Refresh, TableTypes
  <2>3. SelTypes'
    <3>1. Select(ToSet(sortedTorrents'), isAllSelected, rowSelection, excludedFromSelectAll, anchor)
      BY <1>1 DEF Refresh
    <3>2. /\ isAllSelected \in BOOLEAN /\ rowSelection \in SUBSET Rows
          /\ excludedFromSelectAll \in SUBSET Rows /\ anchor \in 0 .. PageSize
      BY DEF SelTypes
    <3> QED
      BY <3>1, <3>2, SelectTypes
  <2>4. ServerTypes' /\ ScopeTypes'
    BY <2>1 DEF ServerTypes, ScopeTypes, scope
  <2> QED
    BY <2>1, <2>2, <2>3, <2>4, <1>c, <1>d
<1>2. CASE ServerChange \/ SetColumnFilter \/ SetFilter
  <2>1. ServerTypes' /\ ScopeTypes'
    <3>1. ServerTypes'
      BY <1>2 DEF ServerChange, SetColumnFilter, SetFilter, ServerTypes, server_
    <3>2. columnFilters' \in {columnFilters, ~columnFilters} /\ expr' \in {expr, ~expr}
      BY <1>2 DEF ServerChange, SetColumnFilter, SetFilter, scope
    <3> QED
      BY <3>1, <3>2 DEF ScopeTypes
  <2>2. BoundTypes'
    <3>1. Disturbance
      BY <1>2 DEF ServerChange, SetColumnFilter, SetFilter
    <3> QED
      BY <3>1, BoundsAre DEF Disturbance, BoundTypes
  <2>3. SelTypes'
    BY <1>2, <1>0, SelectTypes DEF ServerChange, SetColumnFilter, SetFilter, SelTypes, sel
  <2>4. UNCHANGED <<table, dialogs, pending>>
    BY <1>2 DEF ServerChange, SetColumnFilter, SetFilter
  <2> QED
    BY <2>1, <2>2, <2>3, <2>4, <1>c DEF TableTypes, RequestTypes, table
<1>3. CASE Select_
  BY <1>3, SelectStepTypes
<1>4. ASSUME NEW r \in Visible, RunAction(r) PROVE TypeOK'
  <2> DEFINE q == Captured("run", "same", MenuShown(r), {}, FALSE,
                           Request(HashesOf(MenuTorrents(r)), MenuTorrents(r), FALSE))
  <2>1. Send(q) /\ UNCHANGED <<server, order, scope, table, dialogs>>
    BY <1>4 DEF RunAction, server_
  <2>2. q \in Requests /\ q.id = requests + 1
    <3>1. requests + 1 <= MaxRequests
      BY <2>1, CountIs DEF Send
    <3>2. q.id = requests + 1
      BY DEF Captured
    <3> QED BY <3>1, <3>2, RunIs
  <2> HIDE DEF q
  <2>3. SelTypes'
    BY <1>4, ContextTypes DEF RunAction
  <2> QED
    BY <2>1, <2>2, <2>3, SendTypes, <1>a, <1>c
<1>5. ASSUME NEW r \in Visible, prepareRecheckDirect(r) PROVE TypeOK'
  <2> DEFINE q == Captured("single", "same", MenuShown(r), {}, FALSE,
                           HashesOnly(HashesOf(MenuTorrents(r))))
  <2>1. Send(q) /\ UNCHANGED <<server, order, scope, table, warning>>
    BY <1>5 DEF prepareRecheckDirect, server_
  <2>2. q \in Requests /\ q.id = requests + 1
    <3>1. requests + 1 <= MaxRequests
      BY <2>1, CountIs DEF Send
    <3>2. q.id = requests + 1
      BY DEF Captured
    <3> QED BY <3>1, <3>2, SingleIs
  <2> HIDE DEF q
  <2>3. SelTypes'
    BY <1>5, ContextTypes DEF prepareRecheckDirect
  <2>4. DialogTypes'
    <3>1. HashesOf(MenuTorrents(r)) \subseteq HashesOf(Rows)
      BY MenuTypes
    <3> QED BY <1>5, <3>1 DEF prepareRecheckDirect, DialogTypes
  <2> QED
    BY <2>1, <2>2, <2>3, <2>4, SendTypes, <1>a, <1>e
<1>6. ASSUME NEW r \in Visible, NEW kind \in Kinds, Prepare(kind, r) PROVE TypeOK'
  <2>1. SelTypes'
    BY <1>6, ContextTypes DEF Prepare
  <2>2. DialogTypes'
    <3>1. /\ MenuTorrents(r) \in SUBSET Rows /\ MenuShown(r) \cup MenuTorrents(r) \in SUBSET Rows
          /\ HashesOf(MenuTorrents(r)) \subseteq HashesOf(Rows)
      BY MenuTypes
    <3>2. opened' \in OpenedType
      BY <1>6, <3>1, OpenedIs DEF Prepare, Open
    <3> QED BY <1>6, <3>1, <3>2 DEF Prepare, Open, DialogTypes
  <2>3. UNCHANGED <<server, order, scope, table, pending, bounds, warning>>
    BY <1>6 DEF Prepare, server_, Open
  <2> QED
    BY <2>1, <2>2, <2>3, <1>a, <1>d, <1>e
<1>7. CASE handleDeleteHotkey
  <2>1. Selected \in SUBSET Rows /\ Shown \cup Selected \in SUBSET Rows
    BY ShownIs
  <2>2. DialogTypes'
    BY <1>7, <2>1, OpenedIs, HashesWithin
    DEF handleDeleteHotkey, DialogTypes, Kinds, Keepers
  <2>3. UNCHANGED <<server, order, scope, table, sel, pending, bounds, warning>>
    BY <1>7 DEF handleDeleteHotkey, server_
  <2> QED
    BY <2>2, <2>3, <1>a, <1>b, <1>d, <1>e
<1>8. CASE CheckCrossSeeds \/ CrossSeedsChecked \/ setDeleteCrossSeeds
  <2>1. UNCHANGED <<server, order, scope, table, sel, pending>>
    BY <1>8 DEF CheckCrossSeeds, CrossSeedsChecked, setDeleteCrossSeeds, server_
  <2>2. DialogTypes'
    BY <1>8 DEF CheckCrossSeeds, CrossSeedsChecked, setDeleteCrossSeeds, DialogTypes, ctx
  <2>3. WarningTypes'
    <3>1. CASE CheckCrossSeeds
      BY <3>1 DEF CheckCrossSeeds, WarningTypes, DialogTypes
    <3>2. CASE CrossSeedsChecked
      <4> DEFINE same == UNION {SameFiles[r] : r \in checking}
                 known == HashesOf(checking)
                 found == {t \in server \cap same : t.hash \notin known}
      <4>0. affectedTorrents' = found \/ affectedTorrents' = affectedTorrents
        BY <3>2 DEF CrossSeedsChecked
      <4> HIDE DEF same, known
      <4>1. found \subseteq Rows
        BY DEF ServerTypes
      <4> HIDE DEF found
      <4>2. checking' = {} /\ searchState' \in {"complete", "idle"}
        BY <3>2 DEF CrossSeedsChecked
      <4> QED BY <3>2, <4>0, <4>1, <4>2 DEF WarningTypes
    <3>3. CASE setDeleteCrossSeeds
      BY <3>3, <1>e DEF setDeleteCrossSeeds
    <3> QED BY <1>8, <3>1, <3>2, <3>3
  <2>4. BoundTypes'
    BY <1>8, CountIs
    DEF CheckCrossSeeds, CrossSeedsChecked, setDeleteCrossSeeds, BoundTypes, bounds
  <2> QED BY <2>1, <2>2, <2>3, <2>4, <1>a, <1>b DEF RequestTypes
<1>9. CASE ConfirmDelete
  <2>1. Count(1) /\ requests + 1 <= MaxRequests /\ BoundTypes'
    BY <1>9, CountIs DEF ConfirmDelete, Send
  <2>2. Deletion \in Requests /\ Deletion.id = requests + 1
    BY <2>1, DeletionIs DEF Deletion, Captured
  <2>3. RequestTypes'
    BY <1>9, <2>2, SendTypes DEF ConfirmDelete, RequestTypes
  <2>4. DialogTypes' /\ WarningTypes'
    BY <1>9, <1>f DEF ConfirmDelete, dialogs
  <2> QED BY <1>9, <2>1, <2>3, <2>4, <1>a, <1>b DEF ConfirmDelete, server_
<1>10. CASE Confirm
  <2>1. /\ dialog # "none"
        /\ Send(Editing) \/ SendBoth(Editing)
        /\ UNCHANGED <<server, order, scope, table, sel, warning>>
    BY <1>10 DEF Confirm, Editing, server_
  <2>2. requests + 1 <= MaxRequests
    BY <2>1, CountIs DEF Send, SendBoth
  <2>3. Editing \in Requests /\ Editing.id = requests + 1
    BY <2>1, <2>2, EditingIs DEF Editing, Captured
  <2>4. DialogTypes'
    <3>1. Nothing \in OpenedType
      BY DEF OpenedType, Nothing
    <3>2. \/ UNCHANGED <<dialog, contextHashes, opened>>
          \/ dialog' = "none" /\ contextHashes' = {} /\ opened' = Nothing
      BY <1>10 DEF Confirm
    <3>3. UNCHANGED <<contextTorrents, deleteCrossSeeds>>
      BY <1>10 DEF Confirm
    <3> QED BY <3>1, <3>2, <3>3 DEF DialogTypes
  <2> QED BY <2>1, <2>3, <2>4, SendTypes, <1>a, <1>b, <1>e
<1>11. CASE Cancel
  <2>1. DialogTypes' /\ WarningTypes'
    <3>1. CASE dialog = "delete"
      BY <3>1, <1>11, <1>f DEF Cancel
    <3>2. CASE dialog # "delete"
      <4>1. Nothing \in OpenedType
        BY DEF OpenedType, Nothing
      <4>2. /\ dialog' = "none" /\ opened' = Nothing
            /\ UNCHANGED <<deleteCrossSeeds, warning, ctx>>
        BY <3>2, <1>11 DEF Cancel
      <4> QED BY <4>1, <4>2, <1>e DEF DialogTypes, ctx
    <3> QED BY <3>1, <3>2
  <2> QED BY <2>1, <1>11, <1>a, <1>b, <1>d DEF Cancel, server_
<1>12. ASSUME NEW q \in pending, BlockingDone(q) PROVE TypeOK'
  <2>1. Superseded(q) \cup {Sent(q)} \subseteq Requests
    BY SupersededAre, SentIs DEF RequestTypes, ServerTypes
  <2>2. RequestTypes'
    BY <1>12, <2>1 DEF BlockingDone, RequestTypes
  <2>3. BoundTypes'
    BY <1>12 DEF BlockingDone, BoundTypes, bounds
  <2> QED BY <1>12, <2>2, <2>3, <1>a, <1>b, <1>c DEF BlockingDone, server_
<1>13. ASSUME NEW q \in pending, OnSuccess(q) PROVE TypeOK'
  <2>1. DialogTypes'
    <3>1. deleteCrossSeeds' \in BOOLEAN /\ Forget(q)
      BY <1>13 DEF OnSuccess, DialogTypes
    <3> QED BY <3>1, ForgetTypes
  <2>2. RequestTypes'
    BY <1>13 DEF OnSuccess, RequestTypes
  <2>3. ServerTypes' /\ TableTypes' /\ SelTypes'
    <3>1. CASE q.by = "delete"
      <4> DEFINE kept == {r \in Rows : r.hash \notin q.client}
      <4>1. sortedTorrents' = Keep(sortedTorrents, kept) /\ totalCount' = totalCount
            /\ server' = server \ q.got /\ order' = order
            /\ Select(ToSet(sortedTorrents'), FALSE, {}, {}, 0)
        BY <1>13, <3>1 DEF OnSuccess
      <4> HIDE DEF kept
      <4>2. TableTypes'
        <5> DEFINE k == Keep(sortedTorrents, kept)
        <5>1. k \in Seq(Rows) /\ Len(k) \in 0 .. Len(sortedTorrents)
          BY KeepFilters DEF TableTypes
        <5> HIDE DEF k
        <5>2. k \in Seq(Rows) /\ Len(k) <= PageSize
          BY <5>1, BoundsAre DEF TableTypes
        <5> QED
          BY <4>1, <5>2 DEF TableTypes, k
      <4>3. SelTypes'
        BY <4>1, <1>0, SelectTypes
      <4> QED
        BY <4>1, <4>2, <4>3 DEF ServerTypes
    <3>2. CASE q.by # "delete"
      BY <1>13, <3>2 DEF OnSuccess, ServerTypes, TableTypes, SelTypes, sel
    <3> QED
      BY <3>1, <3>2
  <2>4. UNCHANGED <<scope, bounds, warning>>
    BY <1>13 DEF OnSuccess
  <2> QED
    BY <2>1, <2>2, <2>3, <2>4, <1>e DEF ScopeTypes, BoundTypes, scope, bounds
<1>14. ASSUME NEW q \in pending, OnError(q) PROVE TypeOK'
  <2>1. UNCHANGED <<server, order, scope, table, sel, deleteCrossSeeds, warning, bounds>>
    BY <1>14 DEF OnError, server_
  <2>2. RequestTypes' /\ BoundTypes'
    BY <1>14, <2>1 DEF OnError, RequestTypes, BoundTypes, bounds
  <2>3. DialogTypes'
    <3>1. CASE q.by = "tags"
      BY <3>1, <1>14, <2>1, ForgetTypes DEF OnError, DialogTypes
    <3>2. CASE q.by # "tags"
      BY <3>2, <1>14, <2>1 DEF OnError, DialogTypes, ctx
    <3> QED BY <3>1, <3>2
  <2> QED BY <2>1, <2>2, <2>3, <1>a, <1>b, <1>e
<1>15. CASE UNCHANGED vars
  BY <1>15, <1>a, <1>b, <1>c, <1>d DEF vars, server_
<1> QED
  BY <1>1, <1>2, <1>3, <1>4, <1>5, <1>6, <1>7, <1>8, <1>9, <1>10, <1>11, <1>12, <1>13, <1>14,
     <1>15
  DEF Next, Act

\* The variables of the table, its selection, dialogs and requests range over their
\* sets: the anchor of a range is a row of the page, no page exceeds its size, the
\* count is never more than the torrents there are.
THEOREM SelectionTyped == Spec => []TypeOK
<1>1. Init => TypeOK
  <2> SUFFICES ASSUME Init PROVE TypeOK
    OBVIOUS
  <2>1. ServerTypes
    BY DEF Init, ServerTypes
  <2>2. TableTypes
    BY <2>1, AnswerTypes DEF Init, TableTypes
  <2>3. SelTypes /\ BoundTypes
    <3>1. 0 \in 0 .. PageSize /\ 0 \in 0 .. MaxEvents /\ 0 \in 0 .. MaxClicks /\ 0 \in 0 .. MaxRequests
      BY BoundsAre
    <3> QED
      BY <3>1 DEF Init, SelTypes, BoundTypes
  <2>4. ScopeTypes /\ WarningTypes /\ RequestTypes
    BY DEF Init, ScopeTypes, WarningTypes, RequestTypes
  <2>5. DialogTypes
    BY DEF Init, DialogTypes, Nothing, OpenedType, HashesOf
  <2> QED
    BY <2>1, <2>2, <2>3, <2>4, <2>5, TypesAre
<1> QED
  BY <1>1, TypeStep, PTL DEF Spec

-----------------------------------------------------------------------------
(***************************************************************************)
(* The selection is on screen.                                             *)
(***************************************************************************)
LEMMA SelectOnScreen ==
  ASSUME NEW rows, NEW all, NEW picked, NEW out, NEW at,
         Select(rows, all, picked, out, at), all \/ out = {}
  PROVE  /\ ~isAllSelected' => rowSelection' \subseteq rows
         /\ isAllSelected' => excludedFromSelectAll' \subseteq rows
         /\ ~isAllSelected' => excludedFromSelectAll' = {}
BY DEF Select, InvalidSelection

LEMMA SelectionStep == SelectionOnScreen /\ [Next]_vars => SelectionOnScreen'
<1> SUFFICES ASSUME SelectionOnScreen, [Next]_vars PROVE SelectionOnScreen'
  OBVIOUS
<1>1. ASSUME UNCHANGED <<sel, table>> PROVE SelectionOnScreen'
  BY <1>1 DEF SelectionOnScreen, sel, table, Visible
<1>2. ASSUME NEW all, NEW picked, NEW out, NEW at, all \/ out = {},
             Select(Visible', all, picked, out, at)
      PROVE  SelectionOnScreen'
  BY <1>2, SelectOnScreen DEF SelectionOnScreen
<1>3. isAllSelected \/ excludedFromSelectAll = {}
  BY DEF SelectionOnScreen
<1>4. ASSUME NEW S, NEW checked, NEW at, Toggled(S, checked, at), UNCHANGED table
      PROVE  SelectionOnScreen'
  <2> DEFINE picked == IF isAllSelected THEN rowSelection
                       ELSE IF checked THEN rowSelection \cup S ELSE rowSelection \ S
             out == IF ~isAllSelected THEN excludedFromSelectAll
                    ELSE IF checked THEN excludedFromSelectAll \ S
                                    ELSE excludedFromSelectAll \cup S
  <2>1. Visible' = Visible
    BY <1>4 DEF Visible, table
  <2>2. Select(Visible', isAllSelected, picked, out, at)
    BY <1>4, <2>1 DEF Toggled
  <2>3. isAllSelected \/ out = {}
    BY <1>3
  <2> HIDE DEF picked, out
  <2> QED BY <2>2, <2>3, <1>2
<1>5. ASSUME NEW all, NEW picked, NEW out, NEW at, all \/ out = {},
             Select(Visible, all, picked, out, at), UNCHANGED table
      PROVE  SelectionOnScreen'
  <2>1. Visible' = Visible
    BY <1>5 DEF Visible, table
  <2> QED BY <1>5, <2>1, <1>2
<1>6. ASSUME NEW r, onContextMenu(r), UNCHANGED table PROVE SelectionOnScreen'
  BY <1>6, <1>1, <1>3, <1>5 DEF onContextMenu
<1>a. CASE Refresh
  BY <1>a, <1>2, <1>3 DEF Refresh, Visible
<1>b. CASE ServerChange \/ SetColumnFilter
  BY <1>b, <1>1 DEF ServerChange, SetColumnFilter
<1>c. CASE SetFilter
  BY <1>c, <1>5 DEF SetFilter
<1>d. CASE handleSelectAll \/ selectAllWithShortcut \/ clickEmptySpace
  BY <1>d, <1>5 DEF handleSelectAll, selectAllWithShortcut, clickEmptySpace, Gesture
<1>e. ASSUME NEW i \in DOMAIN sortedTorrents, NEW shift \in BOOLEAN, handleCheckbox(i, shift)
      PROVE  SelectionOnScreen'
  BY <1>e, <1>4 DEF handleCheckbox, Gesture
<1>f. ASSUME NEW i \in DOMAIN sortedTorrents, shiftClick(i) \/ detailsClick(i)
      PROVE  SelectionOnScreen'
  BY <1>f, <1>4 DEF shiftClick, detailsClick, Gesture
<1>g. ASSUME NEW i \in DOMAIN sortedTorrents, rowClick(i) PROVE SelectionOnScreen'
  BY <1>g, <1>5 DEF rowClick, Gesture
<1>h. ASSUME NEW r \in Visible, NEW kind \in Kinds,
             RunAction(r) \/ prepareRecheckDirect(r) \/ Prepare(kind, r)
      PROVE  SelectionOnScreen'
  BY <1>h, <1>6 DEF RunAction, prepareRecheckDirect, Prepare
<1>i. CASE handleDeleteHotkey \/ CheckCrossSeeds \/ CrossSeedsChecked \/ setDeleteCrossSeeds
  BY <1>i, <1>1 DEF handleDeleteHotkey, CheckCrossSeeds, CrossSeedsChecked, setDeleteCrossSeeds
<1>j. CASE ConfirmDelete \/ Confirm \/ Cancel
  BY <1>j, <1>1 DEF ConfirmDelete, Confirm, Cancel
<1>k. ASSUME NEW q \in pending, BlockingDone(q) \/ OnError(q) PROVE SelectionOnScreen'
  BY <1>k, <1>1 DEF BlockingDone, OnError
<1>l. ASSUME NEW q \in pending, OnSuccess(q) PROVE SelectionOnScreen'
  <2>1. CASE q.by = "delete"
    BY <2>1, <1>l, <1>2 DEF OnSuccess, Visible
  <2>2. CASE q.by # "delete"
    BY <2>2, <1>l, <1>1 DEF OnSuccess, table
  <2> QED BY <2>1, <2>2
<1>m. CASE UNCHANGED vars
  BY <1>m, <1>1 DEF vars
<1>n. "delete" \in Kinds
  BY DEF Kinds, Keepers
<1> QED BY <1>a, <1>b, <1>c, <1>d, <1>e, <1>f, <1>g, <1>h, <1>i, <1>j, <1>k, <1>l, <1>m, <1>n
        DEF Next, Select_, Act

\* What is selected, or excluded, one by one is on screen, whatever the polls do
\* to the rows of the table.
THEOREM SelectionStaysOnScreen == Spec => []SelectionOnScreen
<1>1. Init => SelectionOnScreen
  BY DEF Init, SelectionOnScreen
<1> QED BY <1>1, SelectionStep, PTL DEF Spec

-----------------------------------------------------------------------------
(***************************************************************************)
(* What the requests under way become.                                     *)
(***************************************************************************)
\* A request another has taken the observer from is the same but for that.
LEMMA SupersededFrom ==
  ASSUME NEW q, NEW p \in Superseded(q)
  PROVE  \E o \in pending : p = o \/ p = [o EXCEPT !.seen = FALSE]
BY DEF Superseded

LEMMA SameRequest ==
  ASSUME NEW o \in Requests, NEW p, p = o \/ p = [o EXCEPT !.seen = FALSE]
  PROVE  /\ p.id = o.id /\ p.by = o.by /\ p.stage = o.stage /\ p.mode = o.mode
         /\ p.cross = o.cross /\ p.emptied = o.emptied /\ p.req = o.req
         /\ p.want = o.want /\ p.left = o.left /\ p.got = o.got
BY DEF Requests

LEMMA SentHas ==
  ASSUME NEW q \in Requests, NEW p,
         \/ p = Sent(q)
         \/ p = [Sent(q) EXCEPT !.seen = FALSE]
         \/ p = [Sent(q) EXCEPT !.id = q.id + 1]
  PROVE  /\ p.by = q.by /\ p.stage = "sent" /\ p.mode = q.mode /\ p.cross = q.cross
         /\ p.emptied = q.emptied /\ p.req = q.req /\ p.want = q.want
         /\ p.left = q.want \cap server /\ p.got = Named(q.req) \cap server
         /\ p = Sent(q) => p.id = q.id
<1> DEFINE got == Named(q.req) \cap server
           left == q.want \cap server
           none == Named(q.req) = {}
           s == [q EXCEPT !.stage = "sent", !.seen = TRUE, !.left = left, !.got = got,
                          !.refused = none]
<1>1. Sent(q) = s
  BY DEF Sent
<1> HIDE DEF got, left, none
<1>2. /\ s.id = q.id /\ s.by = q.by /\ s.stage = "sent" /\ s.mode = q.mode
      /\ s.cross = q.cross /\ s.emptied = q.emptied /\ s.req = q.req /\ s.want = q.want
      /\ s.left = left /\ s.got = got
  BY DEF Requests
<1>3. s = [s EXCEPT !.seen = TRUE]
      /\ DOMAIN s = {"id", "by", "stage", "seen", "mode", "cross", "emptied", "client", "req",
                     "want", "left", "got", "refused"}
  BY DEF Requests
<1> HIDE DEF s
<1> QED BY <1>1, <1>2, <1>3 DEF got, left

\* A request under way after q is sent was under way before, or is q.
Sending(q) ==
  pending' \subseteq Superseded(q) \cup {Sent(q), [Sent(q) EXCEPT !.seen = FALSE],
                                         [Sent(q) EXCEPT !.id = q.id + 1]}

LEMMA SendIsSending == \A q : Send(q) \/ SendBoth(q) \/ BlockingDone(q) => Sending(q)
BY DEF Send, SendBoth, BlockingDone, Sending

LEMMA AfterSend ==
  ASSUME NEW q, Sending(q), NEW p \in pending'
  PROVE  \/ \E o \in pending : p = o \/ p = [o EXCEPT !.seen = FALSE]
         \/ p = Sent(q)
         \/ p = [Sent(q) EXCEPT !.seen = FALSE]
         \/ p = [Sent(q) EXCEPT !.id = q.id + 1]
<1>1. CASE p \in Superseded(q)
  BY <1>1, SupersededFrom
<1> QED BY <1>1 DEF Sending

-----------------------------------------------------------------------------
(***************************************************************************)
(* The dialogs.                                                            *)
(***************************************************************************)
\* A request under way beside an open dialog is the dialog's own, whose answer
\* closes it, or one that isPending did not see when the dialog was opened.
Own ==
  dialog # "none" =>
    \A q \in pending : q.id \in opened.beside \/ (q.by = dialog /\ dialog # "tmm")

\* The dialogs that keep their torrents were opened for them, and for everything
\* that was selected if not for everything there is.
Held ==
  /\ contextHashes = HashesOf(contextTorrents)
  /\ contextTorrents \subseteq opened.rows
  /\ ~opened.all => contextTorrents = opened.rows /\ contextTorrents # {}

DialogFits ==
  dialog \in Keepers =>
    Held \/ (opened.emptied /\ contextHashes = {} /\ contextTorrents = {})

\* What the context menu works on is what is shown as chosen, one by one.
LEMMA MenuIsShown ==
  ASSUME SelectionOnScreen, TypeOK, ~isAllSelected
  PROVE  /\ Selected = rowSelection /\ Shown = rowSelection
         /\ \A r : MenuShown(r) = MenuTorrents(r)
<1>1. Selected = rowSelection /\ Shown = rowSelection
  BY DEF SelectionOnScreen, Selected, IsRowSelected, Shown
<1> QED BY <1>1 DEF MenuShown, MenuTorrents

\* A dialog is opened beside requests that isPending does not see.
LEMMA OpenedOwn ==
  ASSUME ~isPending, NEW rows, opened' = Opened(rows), UNCHANGED pending
  PROVE  Own'
<1>1. \A q \in pending : q.id \in {p.id : p \in {o \in pending : ~o.seen}}
  BY DEF isPending
<1> QED BY <1>1 DEF Own, Opened

LEMMA OwnStep == TypeOK /\ Own /\ [Next]_vars => Own'
<1> SUFFICES ASSUME TypeOK, Own, [Next]_vars PROVE Own'
  OBVIOUS
<1>a. CASE UNCHANGED <<dialog, opened, pending>>
  BY <1>a DEF Own
<1>z. CASE dialog' = "none"
  BY <1>z DEF Own
<1>1. CASE Refresh \/ ServerChange \/ SetColumnFilter \/ SetFilter \/ Select_
  BY <1>1, <1>a, QuietSteps
<1>2. ASSUME NEW r \in Visible, RunAction(r) \/ prepareRecheckDirect(r) PROVE Own'
  BY <1>2, <1>z DEF RunAction, prepareRecheckDirect, dialogs
<1>3. ASSUME NEW r \in Visible, NEW kind \in Kinds, Prepare(kind, r) PROVE Own'
  BY <1>3, OpenedOwn DEF Prepare, Open
<1>4. CASE handleDeleteHotkey
  BY <1>4, OpenedOwn DEF handleDeleteHotkey
<1>5. CASE CheckCrossSeeds \/ CrossSeedsChecked \/ setDeleteCrossSeeds
  BY <1>5, <1>a DEF CheckCrossSeeds, CrossSeedsChecked, setDeleteCrossSeeds
<1>6. CASE ConfirmDelete \/ Cancel
  BY <1>6, <1>z DEF ConfirmDelete, Cancel, CloseDelete
<1>7. CASE Confirm
  <2>1. CASE dialog = "tmm"
    BY <2>1, <1>7, <1>z DEF Confirm
  <2>2. CASE dialog # "tmm"
    <3>1. /\ dialog # "none" /\ UNCHANGED <<dialog, opened>>
          /\ (Send(Editing) \/ SendBoth(Editing))
      BY <1>7, <2>2 DEF Confirm, Editing
    <3>2. Editing \in Requests /\ Editing.by = dialog
      <4>1. requests + 1 <= MaxRequests
        BY <3>1, CountIs DEF Send, SendBoth
      <4> QED BY <3>1, <4>1, EditingIs DEF Editing, Captured
    <3> SUFFICES ASSUME NEW p \in pending'
                 PROVE  p.id \in opened.beside \/ p.by = dialog
      BY <2>2, <3>1 DEF Own
    <3>3. CASE \E o \in pending : p = o \/ p = [o EXCEPT !.seen = FALSE]
      <4>1. PICK o \in pending : p = o \/ p = [o EXCEPT !.seen = FALSE]
        BY <3>3
      <4>2. p.id = o.id /\ p.by = o.by
        BY <4>1, SameRequest DEF TypeOK
      <4> QED BY <3>1, <4>2 DEF Own
    <3>4. CASE \/ p = Sent(Editing) \/ p = [Sent(Editing) EXCEPT !.seen = FALSE]
               \/ p = [Sent(Editing) EXCEPT !.id = Editing.id + 1]
      BY <3>2, <3>4, SentHas
    <3> QED BY <3>1, <3>3, <3>4, AfterSend, SendIsSending
  <2> QED BY <2>1, <2>2
<1>8. ASSUME NEW q \in pending, BlockingDone(q) PROVE Own'
  <2>1. UNCHANGED <<dialog, opened>> /\ pending' = Superseded(q) \cup {Sent(q)}
    BY <1>8 DEF BlockingDone, dialogs
  <2>2. ASSUME NEW p \in pending' PROVE \E o \in pending : p.id = o.id /\ p.by = o.by
    <3>1. CASE p = Sent(q)
      BY <3>1, SentHas DEF TypeOK
    <3>2. CASE p \in Superseded(q)
      BY <3>2, SupersededFrom, SameRequest DEF TypeOK
    <3> QED BY <2>1, <3>1, <3>2
  <2> QED BY <2>1, <2>2 DEF Own
<1>9. ASSUME NEW q \in pending, OnSuccess(q) \/ OnError(q) PROVE Own'
  <2>1. pending' \subseteq pending
    BY <1>9 DEF OnSuccess, OnError
  <2>2. \/ UNCHANGED <<dialog, opened>> \/ dialog' = "none"
        \/ dialog' = dialog /\ opened' = [opened EXCEPT !.emptied = @ \/ q.id \in opened.beside]
    BY <1>9 DEF OnSuccess, OnError, Forget
  <2>3. dialog' = "none" \/ (dialog' = dialog /\ opened'.beside = opened.beside)
    BY <2>2 DEF TypeOK
  <2> QED BY <2>1, <2>3 DEF Own
<1>10. CASE UNCHANGED vars
  BY <1>10, <1>a DEF vars, dialogs
<1> QED BY <1>1, <1>2, <1>3, <1>4, <1>5, <1>6, <1>7, <1>8, <1>9, <1>10 DEF Next, Act

LEMMA DialogFitsStep ==
  TypeOK /\ SelectionOnScreen /\ Own /\ DialogFits /\ [Next]_vars => DialogFits'
<1> SUFFICES ASSUME TypeOK, SelectionOnScreen, Own, DialogFits, [Next]_vars PROVE DialogFits'
  OBVIOUS
<1>a. CASE UNCHANGED <<dialog, contextHashes, contextTorrents, opened>>
  BY <1>a DEF DialogFits, Held, HashesOf
<1>z. CASE dialog' \notin Keepers
  BY <1>z DEF DialogFits
<1>y. "none" \notin Keepers /\ "tmm" \notin Keepers
  BY DEF Keepers
<1>1. CASE Refresh \/ ServerChange \/ SetColumnFilter \/ SetFilter \/ Select_
  BY <1>1, <1>a, QuietSteps
<1>2. ASSUME NEW r \in Visible, RunAction(r) \/ prepareRecheckDirect(r) PROVE DialogFits'
  BY <1>2, <1>y, <1>z DEF RunAction, prepareRecheckDirect, dialogs
<1>3. ASSUME NEW r \in Visible, NEW kind \in Kinds, Prepare(kind, r) PROVE DialogFits'
  <2>1. CASE kind \notin Keepers
    BY <2>1, <1>3, <1>z DEF Prepare, Open
  <2>2. CASE kind \in Keepers
    <3>1. /\ contextTorrents' = MenuTorrents(r) /\ MenuTorrents(r) # {}
          /\ contextHashes' = HashesOf(MenuTorrents(r))
          /\ opened' = Opened(MenuShown(r) \cup MenuTorrents(r))
      BY <2>2, <1>3 DEF Prepare, Open
    <3>2. ~isAllSelected => MenuShown(r) = MenuTorrents(r)
      BY MenuIsShown
    <3>3. HashesOf(contextTorrents)' = HashesOf(MenuTorrents(r))
      BY <3>1 DEF HashesOf
    <3>4. opened'.all = isAllSelected /\ opened'.rows = MenuShown(r) \cup MenuTorrents(r)
      BY <3>1 DEF Opened
    <3> QED BY <3>1, <3>2, <3>3, <3>4 DEF DialogFits, Held
  <2> QED BY <2>1, <2>2
<1>4. CASE handleDeleteHotkey
  <2>1. /\ contextTorrents' = Selected /\ contextHashes' = HashesOf(Selected)
        /\ opened' = Opened(Shown \cup Selected) /\ effectiveSelectionCount > 0
    BY <1>4 DEF handleDeleteHotkey
  <2>2. ~isAllSelected => Shown = Selected /\ Selected # {}
    <3> SUFFICES ASSUME ~isAllSelected PROVE Shown = Selected /\ Selected # {}
      OBVIOUS
    <3>1. Selected = rowSelection /\ Shown = rowSelection
      BY MenuIsShown
    <3>2. Cardinality(rowSelection) > 0
      BY <2>1 DEF effectiveSelectionCount
    <3>3. rowSelection # {}
      BY <3>2, FS_EmptySet
    <3> QED BY <3>1, <3>3
  <2>3. HashesOf(contextTorrents)' = HashesOf(Selected)
    BY <2>1 DEF HashesOf
  <2>4. opened'.all = isAllSelected /\ opened'.rows = Shown \cup Selected
    BY <2>1 DEF Opened
  <2> QED BY <2>1, <2>2, <2>3, <2>4 DEF DialogFits, Held
<1>5. CASE CheckCrossSeeds \/ CrossSeedsChecked \/ setDeleteCrossSeeds
  BY <1>5, <1>a DEF CheckCrossSeeds, CrossSeedsChecked, setDeleteCrossSeeds, ctx
<1>6. CASE ConfirmDelete \/ Cancel
  BY <1>6, <1>y, <1>z DEF ConfirmDelete, Cancel, CloseDelete
<1>7. CASE Confirm
  BY <1>7, <1>y, <1>a, <1>z DEF Confirm
<1>8. ASSUME NEW q \in pending, BlockingDone(q) PROVE DialogFits'
  BY <1>8, <1>a DEF BlockingDone, dialogs, ctx
<1>9. ASSUME NEW q \in pending, Forget(q) PROVE DialogFits'
  <2>1. CASE dialog' = "none"
    BY <2>1, <1>y, <1>z
  <2>2. CASE dialog = "none" /\ dialog' = dialog
    BY <2>2, <1>y, <1>z
  <2>3. CASE dialog # "none" /\ dialog' # "none"
    <3>1. /\ ~(Closes(q) /\ Surely(q)) /\ dialog' = dialog
          /\ opened' = [opened EXCEPT !.emptied = @ \/ q.id \in opened.beside]
          /\ contextHashes' = {} /\ contextTorrents' = {}
      BY <1>9, <2>3 DEF Forget
    <3>2. q.id \in opened.beside
      BY <2>3, <3>1 DEF Own, Closes, Surely
    <3>3. opened'.emptied = TRUE
      BY <3>1, <3>2 DEF TypeOK
    <3> QED BY <3>1, <3>3 DEF DialogFits
  <2> QED BY <1>9, <2>1, <2>2, <2>3 DEF Forget
<1>10. ASSUME NEW q \in pending, OnSuccess(q) \/ OnError(q) PROVE DialogFits'
  BY <1>10, <1>9, <1>a DEF OnSuccess, OnError, ctx
<1>11. CASE UNCHANGED vars
  BY <1>11, <1>a DEF vars, dialogs, ctx
<1> QED BY <1>1, <1>2, <1>3, <1>4, <1>5, <1>6, <1>7, <1>8, <1>10, <1>11 DEF Next, Act

-----------------------------------------------------------------------------
(***************************************************************************)
(* The requests.                                                           *)
(***************************************************************************)
\* What a request names, whether or not it is on the server.
Names(req) ==
  req.targets \cup {r \in Rows : r.hash \in req.hashes /\ (Unified => req.targets = {})}

LEMMA NamesReached ==
  ASSUME server \subseteq Rows, NEW req, ~req.selectAll, req.selectAll \in BOOLEAN
  PROVE  Named(req) \cap server = Names(req) \cap server
<1>1. CASE ~Unified
  BY <1>1 DEF Named, Names
<1>2. CASE Unified /\ req.targets = {}
  BY <1>2 DEF Named, Names, shouldResolveCrossInstanceHashes
<1>3. CASE Unified /\ req.targets # {}
  BY <1>3 DEF Named, Names, shouldResolveCrossInstanceHashes
<1> QED BY <1>1, <1>2, <1>3

\* A request that keeps what Reaches asks of it until it is sent.
Ready(q) ==
  IF q.req.selectAll
  THEN /\ q.mode = "same"
       /\ q.want \cap server \subseteq selectAllFilters(q.req) \ q.req.excludeTargets
       /\ ~Bare(q) => selectAllFilters(q.req) \ q.req.excludeTargets = q.want \cap server
  ELSE /\ ~Bare(q) => Names(q.req) \subseteq q.want
       /\ ~Bare(q) /\ q.mode = "same" /\ ~q.emptied => Names(q.req) = q.want
       /\ HashesOf(Names(q.req)) \subseteq HashesOf(q.want)

LEMMA ReadyReaches ==
  ASSUME TypeOK, NEW q \in Requests, Ready(q), NEW p,
         \/ p = Sent(q)
         \/ p = [Sent(q) EXCEPT !.seen = FALSE]
         \/ p = [Sent(q) EXCEPT !.id = q.id + 1]
  PROVE  Reaches(p)
<1>1. /\ p.mode = q.mode /\ p.cross = q.cross /\ p.emptied = q.emptied /\ p.req = q.req
      /\ p.want = q.want /\ p.left = q.want \cap server /\ p.got = Named(q.req) \cap server
  BY SentHas
<1>2. q.req.selectAll \in BOOLEAN
  BY DEF Requests
<1>3. CASE q.req.selectAll
  <2>1. Named(q.req) = selectAllFilters(q.req) \ q.req.excludeTargets
    BY <1>3 DEF Named
  <2>2. Named(q.req) \cap server = selectAllFilters(q.req) \ q.req.excludeTargets
    BY <2>1 DEF selectAllFilters
  <2>3. p.left \subseteq p.got /\ (~Bare(q) => p.got = p.left)
    BY <1>1, <1>3, <2>2 DEF Ready
  <2> QED BY <1>1, <1>3, <2>3 DEF Reaches, Bare
<1>4. CASE ~q.req.selectAll
  <2>1. p.got = Names(q.req) \cap server
    BY <1>1, <1>2, <1>4, NamesReached DEF TypeOK
  <2>2. HashesOf(p.got) \subseteq HashesOf(p.want)
    BY <1>1, <1>4, <2>1 DEF Ready, HashesOf
  <2>3. /\ ~Bare(q) => p.got \subseteq p.want
        /\ ~Bare(q) /\ q.mode = "same" /\ ~q.emptied => p.got = p.left
    BY <1>1, <1>4, <2>1 DEF Ready
  <2> QED BY <1>1, <1>4, <2>2, <2>3 DEF Reaches, Bare
<1> QED BY <1>2, <1>3, <1>4

\* While the blocklist is awaited torrents only go.
LEMMA ReadyStays ==
  ASSUME server' \subseteq server, NEW q, Ready(q) PROVE Ready(q)'
<1>1. selectAllFilters(q.req)' = selectAllFilters(q.req) \cap server'
  BY DEF selectAllFilters
<1>2. CASE q.req.selectAll
  BY <1>1, <1>2 DEF Ready, Bare
<1>3. CASE ~q.req.selectAll
  BY <1>3 DEF Ready, Bare, Names, HashesOf
<1> QED BY <1>2, <1>3

Fits(q) ==
  Clear(q) =>
    /\ q.stage = "blocking" => Ready(q)
    /\ q.stage = "sent" /\ q.by \in Keepers \cup {"run"} => Reaches(q)

RequestsFit == \A q \in pending : Fits(q)

LEMMA FitsStays ==
  ASSUME server' \subseteq server, NEW q, Fits(q) PROVE Fits(q)'
BY ReadyStays DEF Fits, Clear, Reaches, Bare, HashesOf

LEMMA FitsSuperseded ==
  ASSUME NEW o \in Requests, NEW p, p = o \/ p = [o EXCEPT !.seen = FALSE], Fits(o)
  PROVE  Fits(p)
<1>1. /\ p.by = o.by /\ p.stage = o.stage /\ p.mode = o.mode
      /\ p.cross = o.cross /\ p.emptied = o.emptied /\ p.req = o.req
      /\ p.want = o.want /\ p.left = o.left /\ p.got = o.got
  BY SameRequest
<1> QED BY <1>1 DEF Fits, Clear, Ready, Reaches, Bare

\* A request that is ready when it is sent, if it is one the property is about.
LEMMA SendFits ==
  ASSUME TypeOK, RequestsFit, NEW q \in Requests, Sending(q), UNCHANGED server,
         Clear(q) /\ q.by \in Keepers \cup {"run"} => Ready(q)
  PROVE  RequestsFit'
<1> SUFFICES ASSUME NEW p \in pending' PROVE Fits(p)'
  BY DEF RequestsFit
<1> SUFFICES Fits(p)
  BY FitsStays
<1>1. CASE \E o \in pending : p = o \/ p = [o EXCEPT !.seen = FALSE]
  BY <1>1, FitsSuperseded DEF RequestsFit, TypeOK
<1>2. CASE \/ p = Sent(q) \/ p = [Sent(q) EXCEPT !.seen = FALSE]
           \/ p = [Sent(q) EXCEPT !.id = q.id + 1]
  <2>1. p.stage = "sent" /\ p.by = q.by /\ p.mode = q.mode /\ p.req = q.req
    BY <1>2, SentHas
  <2>2. Clear(p) <=> Clear(q)
    BY <2>1 DEF Clear
  <2>3. Clear(p) /\ p.by \in Keepers \cup {"run"} => Reaches(p)
    BY <1>2, <2>1, <2>2, ReadyReaches
  <2> QED BY <2>1, <2>3 DEF Fits
<1> QED BY <1>1, <1>2, AfterSend

\* Under select-all the filters sent name what is listed, unless the cross-seed
\* expression and the column filters are both set.
LEMMA AllReached ==
  ASSUME TypeOK, SelectionOnScreen, isAllSelected, ~(columnFilters /\ expr),
         NEW hashes, NEW targets, NEW bare \in BOOLEAN
  PROVE  LET req == Request(hashes, targets, bare)
         IN  /\ req.selectAll = TRUE
             /\ Shown \subseteq selectAllFilters(req) \ req.excludeTargets
             /\ ~(bare /\ Unified) => selectAllFilters(req) \ req.excludeTargets = Shown
<1> DEFINE req == Request(hashes, targets, bare)
<1>1. /\ req.selectAll = TRUE /\ req.columns = columnFilters /\ req.expr = expr
      /\ req.excludeTargets = IF bare /\ Unified THEN {} ELSE excludedFromSelectAll \cap Visible
  BY DEF Request, selectAllExcludedTargets
<1>2. excludedFromSelectAll \cap Visible = excludedFromSelectAll
  BY DEF SelectionOnScreen
<1> HIDE DEF req
<1>3. selectAllFilters(req) = Listed
  BY <1>1 DEF selectAllFilters, Listed, TypeOK
<1>4. Shown = Listed \ excludedFromSelectAll
  BY DEF Shown
<1> SUFFICES /\ req.selectAll = TRUE
             /\ Shown \subseteq selectAllFilters(req) \ req.excludeTargets
             /\ ~(bare /\ Unified) => selectAllFilters(req) \ req.excludeTargets = Shown
  BY DEF req
<1> QED BY <1>1, <1>2, <1>3, <1>4

\* What is named one by one: the torrents of the menu or of the dialog, and the
\* cross-seeds to be deleted with them.
LEMMA SomeReached ==
  ASSUME NEW C, NEW A, C \subseteq Rows, A \subseteq Rows, NEW bare, bare \in BOOLEAN,
         ~bare => A = {}, NEW req, req.hashes = HashesOf(C) \cup HashesOf(A),
         req.targets = IF bare THEN {} ELSE C
  PROVE  /\ ~(bare /\ Unified) => Names(req) = C \cup A
         /\ HashesOf(Names(req)) \subseteq HashesOf(C \cup A)
<1>1. /\ req.hashes = HashesOf(C) \cup HashesOf(A)
      /\ req.targets = IF bare THEN {} ELSE C
  OBVIOUS
<1>2. HashesOf(C) \cup HashesOf(A) = HashesOf(C \cup A)
  BY DEF HashesOf
<1>3. CASE ~Unified
  <2>1. {r \in Rows : r.hash \in HashesOf(C \cup A)} = C \cup A
    BY <1>3, SelectionAssumption DEF HashesOf
  <2>2. Names(req) = C \cup A
    BY <1>1, <1>2, <1>3, <2>1 DEF Names
  <2> QED BY <1>1, <2>2
<1>4. CASE Unified /\ bare
  <2>1. HashesOf(Names(req)) \subseteq HashesOf(C \cup A)
    BY <1>1, <1>2, <1>4 DEF Names, HashesOf
  <2> QED BY <1>1, <1>4, <2>1
<1>5. CASE Unified /\ ~bare
  <2>1. req.targets = C /\ req.hashes = HashesOf(C) /\ A = {} /\ C \cup A = C
    BY <1>1, <1>2, <1>5
  <2>2. CASE C = {}
    <3>1. HashesOf(C) = {}
      BY <2>2 DEF HashesOf
    <3>2. Names(req) = {}
      BY <2>1, <2>2, <3>1 DEF Names
    <3> QED BY <1>1, <2>1, <2>2, <3>2
  <2>3. CASE C # {}
    <3>1. Names(req) = C
      BY <1>5, <2>1, <2>3 DEF Names
    <3> QED BY <1>1, <2>1, <3>1
  <2> QED BY <2>2, <2>3
<1> QED BY <1>3, <1>4, <1>5

\* Under select-all nothing that is not on the server is shown as chosen.
LEMMA AllReady ==
  ASSUME TypeOK, SelectionOnScreen, isAllSelected, NEW q, Clear(q), NEW hashes, NEW targets,
         q.cross \in BOOLEAN, q.req = Request(hashes, targets, q.cross), q.want = Shown,
         q.mode = "same"
  PROVE  Ready(q)
<1>1. q.req.selectAll = TRUE /\ ~(columnFilters /\ expr)
  BY DEF Clear, Request
<1>2. Shown \cap server = Shown
  BY DEF Shown, Listed
<1>3. /\ Shown \subseteq selectAllFilters(q.req) \ q.req.excludeTargets
      /\ ~Bare(q) => selectAllFilters(q.req) \ q.req.excludeTargets = Shown
  BY <1>1, AllReached DEF Bare
<1> QED BY <1>1, <1>2, <1>3 DEF Ready

LEMMA MenuReady ==
  ASSUME TypeOK, SelectionOnScreen, NEW r \in Visible, NEW q, Clear(q), q.mode = "same",
         q.want = MenuShown(r), q.cross = FALSE,
         q.req = Request(HashesOf(MenuTorrents(r)), MenuTorrents(r), FALSE)
  PROVE  Ready(q)
<1>2. CASE isAllSelected
  <2>1. MenuShown(r) = Shown
    BY <1>2 DEF MenuShown, useSelection
  <2>2. /\ q.cross \in BOOLEAN /\ q.want = Shown
        /\ q.req = Request(HashesOf(MenuTorrents(r)), MenuTorrents(r), q.cross)
    BY <2>1
  <2> QED BY <1>2, <2>2, AllReady
<1>3. CASE ~isAllSelected
  <2> DEFINE C == MenuTorrents(r)
  <2>1. MenuShown(r) = C /\ C \in SUBSET Rows
    BY <1>3, MenuIsShown, MenuTypes, TypesAre
  <2>2. HashesOf(C) \cup HashesOf({}) = HashesOf(C) /\ C \cup {} = C
    BY DEF HashesOf
  <2>3. q.req = Request(HashesOf(C), C, FALSE) /\ q.want = C
    BY <2>1, <2>2
  <2> HIDE DEF C
  <2>4. /\ q.req.selectAll = FALSE /\ q.req.targets = C
        /\ q.req.hashes = HashesOf(C) \cup HashesOf({})
    BY <1>3, <2>2, <2>3 DEF Request
  <2> DEFINE req == q.req
             A == {}
             bare == FALSE
  <2>a. /\ req.hashes = HashesOf(C) \cup HashesOf(A) /\ bare \in BOOLEAN
        /\ req.targets = (IF bare THEN {} ELSE C) /\ (~bare => A = {})
        /\ C \subseteq Rows /\ A \subseteq Rows
    BY <2>1, <2>4
  <2> HIDE DEF req, A, bare
  <2>b. ~(bare /\ Unified) => Names(req) = C \cup A
    BY <2>a, SomeReached
  <2>5. Names(q.req) = q.want /\ q.req.selectAll = FALSE
    BY <2>2, <2>3, <2>4, <2>b DEF req, A, bare
  <2> QED BY <2>5 DEF Ready
<1> QED BY <1>2, <1>3 DEF TypeOK

LEMMA DialogReady ==
  ASSUME TypeOK, SelectionOnScreen, DialogFits, dialog \in Keepers, NEW q, Clear(q),
         NEW A \in SUBSET Rows, q.cross \in BOOLEAN, ~q.cross => A = {},
         q.mode = Mode, q.emptied = opened.emptied,
         q.want = Meant \cup (IF isAllSelected THEN {} ELSE A),
         q.req = Request(contextHashes \cup HashesOf(A), contextTorrents, q.cross)
  PROVE  Ready(q)
<1>0. isAllSelected \in BOOLEAN /\ opened.all \in BOOLEAN
  BY DEF TypeOK
<1>1. CASE isAllSelected
  <2>1. Mode # "widened"
    BY DEF Clear
  <2>2. opened.all /\ q.mode = "same"
    BY <1>0, <1>1, <2>1 DEF Mode
  <2>3. q.want = Shown
    BY <1>1, <2>2 DEF Meant
  <2> QED BY <1>1, <2>2, <2>3, AllReady
<1>2. CASE ~isAllSelected
  <2> DEFINE C == contextTorrents
  <2>1. C \in SUBSET Rows /\ opened.rows \in SUBSET Rows
    BY DEF TypeOK
  <2>2. contextHashes = HashesOf(C) /\ C \subseteq opened.rows
    BY DEF DialogFits, Held, HashesOf
  <2>3. q.want = opened.rows \cup A
    BY <1>2 DEF Meant
  <2>4. q.req = Request(HashesOf(C) \cup HashesOf(A), C, q.cross)
    BY <2>2
  <2>5. q.mode = "same" /\ ~q.emptied => C = opened.rows
    BY <1>0, <1>2 DEF Mode, DialogFits, Held
  <2> HIDE DEF C
  <2>6. /\ q.req.selectAll = FALSE
        /\ ~Bare(q) => Names(q.req) = C \cup A
        /\ HashesOf(Names(q.req)) \subseteq HashesOf(C \cup A)
    <3> DEFINE req == q.req
               bare == q.cross
    <3>1. /\ req.hashes = HashesOf(C) \cup HashesOf(A) /\ bare \in BOOLEAN
          /\ req.targets = (IF bare THEN {} ELSE C) /\ (~bare => A = {})
          /\ req.selectAll = FALSE /\ C \subseteq Rows /\ A \subseteq Rows
      BY <1>2, <2>1, <2>4 DEF Request
    <3> HIDE DEF req, bare
    <3>2. /\ req.selectAll = FALSE
          /\ ~(bare /\ Unified) => Names(req) = C \cup A
          /\ HashesOf(Names(req)) \subseteq HashesOf(C \cup A)
      BY <3>1, SomeReached
    <3> QED BY <3>2 DEF Bare, bare, req
  <2>7. HashesOf(C \cup A) \subseteq HashesOf(q.want)
    BY <2>2, <2>3 DEF HashesOf
  <2>8. /\ ~Bare(q) => Names(q.req) \subseteq q.want
        /\ ~Bare(q) /\ q.mode = "same" /\ ~q.emptied => Names(q.req) = q.want
    BY <2>2, <2>3, <2>5, <2>6
  <2>9. HashesOf(Names(q.req)) \subseteq HashesOf(q.want)
    BY <2>6, <2>7
  <2> QED BY <2>6, <2>8, <2>9 DEF Ready
<1> QED BY <1>0, <1>1, <1>2

LEMMA DeletionReady ==
  ASSUME TypeOK, SelectionOnScreen, DialogFits, dialog = "delete", Clear(Deletion)
  PROVE  Ready(Deletion)
<1> DEFINE q == Deletion
<1>1. /\ q.mode = Mode /\ q.emptied = opened.emptied /\ q.cross = deleteCrossSeeds
      /\ q.want = Meant \cup (IF isAllSelected THEN {} ELSE Also)
      /\ q.req = Request(contextHashes \cup HashesOf(Also), contextTorrents, q.cross)
  BY DEF Deletion, Captured
<1>2. Also \in SUBSET Rows /\ q.cross \in BOOLEAN /\ (~q.cross => Also = {})
  BY <1>1 DEF Also, TypeOK
<1>3. dialog \in Keepers
  BY DEF Keepers
<1> HIDE DEF q
<1>4. Clear(q) => Ready(q)
  BY <1>1, <1>2, <1>3, DialogReady
<1> QED BY <1>4 DEF q

LEMMA EditingReady ==
  ASSUME TypeOK, SelectionOnScreen, DialogFits, dialog \in Keepers, Clear(Editing)
  PROVE  Ready(Editing)
<1> DEFINE q == Editing
<1>1. /\ q.mode = Mode /\ q.emptied = opened.emptied /\ q.cross = FALSE /\ q.want = Meant
      /\ q.req = Request(contextHashes, contextTorrents, FALSE)
  BY DEF Editing, Captured
<1>2. contextHashes \cup HashesOf({}) = contextHashes
      /\ Meant \cup (IF isAllSelected THEN {} ELSE {}) = Meant
  BY DEF HashesOf
<1> HIDE DEF q
<1>3. /\ q.req = Request(contextHashes \cup HashesOf({}), contextTorrents, q.cross)
      /\ q.want = Meant \cup (IF isAllSelected THEN {} ELSE {})
  BY <1>1, <1>2
<1>4. Clear(q) => Ready(q)
  BY <1>1, <1>3, DialogReady
<1> QED BY <1>4 DEF q

LEMMA RequestStep ==
  TypeOK /\ SelectionOnScreen /\ DialogFits /\ RequestsFit /\ [Next]_vars => RequestsFit'
<1> SUFFICES ASSUME TypeOK, SelectionOnScreen, DialogFits, RequestsFit, [Next]_vars
             PROVE  RequestsFit'
  OBVIOUS
<1>a. CASE pending' \subseteq pending /\ server' \subseteq server
  BY <1>a, FitsStays DEF RequestsFit
<1>1. CASE Refresh \/ ServerChange \/ SetColumnFilter \/ SetFilter \/ Select_
  BY <1>1, <1>a, QuietSteps
<1>2. ASSUME NEW r \in Visible, RunAction(r) PROVE RequestsFit'
  <2> DEFINE q == Captured("run", "same", MenuShown(r), {}, FALSE,
                           Request(HashesOf(MenuTorrents(r)), MenuTorrents(r), FALSE))
  <2>1. Send(q) /\ UNCHANGED server
    BY <1>2 DEF RunAction, server_
  <2>2. q \in Requests
    <3>1. requests + 1 <= MaxRequests
      BY <2>1, CountIs DEF Send
    <3> QED BY <3>1, RunIs
  <2>3. Clear(q) => Ready(q)
    <3>1. /\ q.mode = "same" /\ q.want = MenuShown(r) /\ q.cross = FALSE
          /\ q.req = Request(HashesOf(MenuTorrents(r)), MenuTorrents(r), FALSE)
      BY DEF Captured
    <3> HIDE DEF q
    <3> QED BY <3>1, MenuReady
  <2> HIDE DEF q
  <2> QED BY <2>1, <2>2, <2>3, SendFits, SendIsSending
<1>3. ASSUME NEW r \in Visible, prepareRecheckDirect(r) PROVE RequestsFit'
  <2> DEFINE q == Captured("single", "same", MenuShown(r), {}, FALSE,
                           HashesOnly(HashesOf(MenuTorrents(r))))
  <2>1. Send(q) /\ UNCHANGED server
    BY <1>3 DEF prepareRecheckDirect, server_
  <2>2. q \in Requests
    <3>1. requests + 1 <= MaxRequests
      BY <2>1, CountIs DEF Send
    <3> QED BY <3>1, SingleIs
  <2>3. q.by \notin Keepers \cup {"run"}
    BY DEF Captured, Keepers
  <2> HIDE DEF q
  <2> QED BY <2>1, <2>2, <2>3, SendFits, SendIsSending
<1>4. ASSUME NEW r \in Visible, NEW kind \in Kinds, Prepare(kind, r) PROVE RequestsFit'
  BY <1>4, <1>a DEF Prepare, server_
<1>5. CASE handleDeleteHotkey \/ CheckCrossSeeds \/ CrossSeedsChecked \/ setDeleteCrossSeeds
           \/ Cancel
  BY <1>5, <1>a
  DEF handleDeleteHotkey, CheckCrossSeeds, CrossSeedsChecked, setDeleteCrossSeeds, Cancel, server_
<1>6. CASE ConfirmDelete
  <2>1. dialog = "delete" /\ UNCHANGED server
    BY <1>6 DEF ConfirmDelete, server_
  <2>2. Clear(Deletion) => Ready(Deletion)
    BY <2>1, DeletionReady
  <2>3. CASE Send(Deletion)
    <3>1. requests + 1 <= MaxRequests
      BY <2>3, CountIs DEF Send
    <3> QED BY <2>1, <2>2, <2>3, <3>1, DeletionIs, SendFits, SendIsSending
  <2>4. CASE pending' = pending \cup {Deletion}
    <3>1. Fits(Deletion)
      BY <2>2 DEF Fits, Deletion, Captured
    <3> QED BY <2>1, <2>4, <3>1, FitsStays DEF RequestsFit
  <2> QED BY <1>6, <2>3, <2>4 DEF ConfirmDelete
<1>7. CASE Confirm
  <2>1. /\ dialog # "none" /\ UNCHANGED server
        /\ Send(Editing) \/ SendBoth(Editing)
    BY <1>7 DEF Confirm, Editing, server_
  <2>2. Editing \in Requests /\ Editing.by = dialog
    <3>1. requests + 1 <= MaxRequests
      BY <2>1, CountIs DEF Send, SendBoth
    <3> QED BY <2>1, <3>1, EditingIs DEF Editing, Captured
  <2>3. dialog # "run"
    BY DEF TypeOK, Kinds, Keepers
  <2>4. Clear(Editing) /\ Editing.by \in Keepers \cup {"run"} => Ready(Editing)
    BY <2>2, <2>3, EditingReady
  <2> QED BY <2>1, <2>2, <2>4, SendFits, SendIsSending
<1>8. ASSUME NEW q \in pending, BlockingDone(q) PROVE RequestsFit'
  <2>1. UNCHANGED server /\ q \in Requests /\ q.stage = "blocking"
    BY <1>8 DEF BlockingDone, server_, TypeOK
  <2>2. Clear(q) => Ready(q)
    BY <2>1 DEF RequestsFit, Fits
  <2> QED BY <1>8, <2>1, <2>2, SendFits, SendIsSending
<1>9. ASSUME NEW q \in pending, OnSuccess(q) \/ OnError(q) PROVE RequestsFit'
  BY <1>9, <1>a DEF OnSuccess, OnError, server_
<1>10. CASE UNCHANGED vars
  BY <1>10, <1>a DEF vars, server_
<1> QED BY <1>1, <1>2, <1>3, <1>4, <1>5, <1>6, <1>7, <1>8, <1>9, <1>10 DEF Next, Act

-----------------------------------------------------------------------------
Inductive == TypeOK /\ SelectionOnScreen /\ Own /\ DialogFits /\ RequestsFit

\* The selection is on screen, an open dialog is about what it was opened for, and
\* a request under way about what it was made for.
THEOREM InductiveInvariant == Spec => []Inductive
<1>1. Init => Own /\ DialogFits /\ RequestsFit /\ SelectionOnScreen
  BY DEF Init, Own, DialogFits, RequestsFit, Keepers, SelectionOnScreen
<1>2. TypeOK /\ Inductive /\ [Next]_vars => (TypeOK' => Inductive')
  BY SelectionStep, OwnStep, DialogFitsStep, RequestStep DEF Inductive
<1>3. Init /\ TypeOK => Inductive
  BY <1>1 DEF Inductive
<1> QED BY <1>2, <1>3, SelectionTyped, PTL DEF Spec

\* While a dialog that keeps its torrents is open no answer replaces them, and only
\* one to a request isPending did not see when it was opened empties them.
THEOREM DialogsKeepTheirTorrents == Spec => []DialogKeepsTorrents
<1>1. Inductive => DialogKeepsTorrents
  BY DEF Inductive, DialogFits, Held, DialogKeepsTorrents, Intact
<1> QED BY <1>1, InductiveInvariant, PTL

\* A request of the menu, or of a dialog that keeps its torrents, reaches the
\* torrents it was meant for: all that are left of them and nothing else, but in
\* the cases the property names.
THEOREM RequestsReachTheSelection == Spec => []RequestReachesSelection
<1>1. Inductive => RequestReachesSelection
  BY DEF Inductive, RequestsFit, Fits, RequestReachesSelection, Chosen
<1> QED BY <1>1, InductiveInvariant, PTL
================================================================================

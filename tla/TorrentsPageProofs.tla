-------------------------- MODULE TorrentsPageProofs --------------------------
(***************************************************************************)
(* Theorems about the page of torrents, for any instances, torrents,       *)
(* criteria, values, checkboxes and bounds: the rows of its list are of    *)
(* the chosen criteria and follow the server, its filters belong to their  *)
(* instance and include nothing they exclude.                              *)
(***************************************************************************)
EXTENDS MCTorrentsPage, KeepingProofs, FiniteSetTheorems, SequenceTheorems, TLAPS

(***************************************************************************)
(* The list.                                                               *)
(***************************************************************************)
(***************************************************************************)
(* Torrents still to be deleted, changes and delayed refetches come from   *)
(* actions; the server's list grows by its own changes only.               *)
(***************************************************************************)
Counted ==
  /\ IsFiniteSet(leaving) /\ Cardinality(leaving) <= actions
  /\ version + Cardinality(leaving) <= MaxChanges + actions
  /\ due + (IF deleting = None THEN 0 ELSE 1) <= actions
  /\ Len(server) <= Len(Start) + version
  /\ Len(server) <= Len(Start) + MaxChanges

\* An answer is there once it was given.
Replied == \A k \in Keys : fetch[k] = "answered" => reply[k] # NoData

\* At rest the effects have seen what is on screen.
Committed == stage = "rest" => seen = criteria /\ observed = Key

RowsOf(k) == ToSet(cache[k].rows) \cup ToSet(reply[k].rows)

\* Answers match the criteria they were asked for.
AnswersMatch == \A k \in Keys : RowsOf(k) \subseteq Match[k[1]]

\* With the network up, a query that is observed and has neither data nor an
\* error is under way; so its placeholder is never taken for its answer.
Asked ==
  outages = 0 =>
    /\ online /\ \A k \in Keys : fetch[k] # "paused"
    /\ observed \in Keys /\ cache[observed] = NoData /\ observed \notin error
         => InFlight(observed)

Shown ==
  outages = 0 /\ allTorrents # <<>> => ToSet(allTorrents) \subseteq Match[seen]

\* An answer of the present version is the present answer.
Current(d, k) == d.ver <= version /\ (d.ver = version => d = Answer(k))

AnswersCurrent == \A k \in Keys : Current(cache[k], k) /\ Current(reply[k], k)

\* A list that begins with its first page has the pages that follow, and one
\* more is asked for while isLoadingMore.
FromFirst == taken # <<>> /\ taken[1].page = 0

PagesInOrder ==
  FromFirst =>
    /\ \/ lastProcessedPage = Len(taken) - 1
       \/ /\ lastProcessedPage = -1 /\ Len(taken) = 1
          /\ stage = "effects" /\ currentPage = 0 /\ cache[<<seen, 0>>] # NoData
    /\ currentPage \in {Len(taken) - 1, Len(taken)}
    /\ currentPage = Len(taken) => isLoadingMore

TakenBefore == \A i \in DOMAIN taken : taken[i].ver <= version

\* Its rows are those of the server if the answers are.
RowsInOrder ==
  FromFirst /\ (\A i \in DOMAIN taken : taken[i].ver = version) =>
    LET kept == Filtered(seen)
        end == Len(taken) * PageSize
    IN  /\ allTorrents = SubSeq(kept, 1, IF Len(kept) < end THEN Len(kept) ELSE end)
        /\ hasLoadedAll = (Len(kept) <= end)

ListInv ==
  /\ TypeOK /\ Counted /\ Replied /\ Committed
  /\ AnswersMatch /\ Asked /\ Shown
  /\ AnswersCurrent /\ PagesInOrder /\ TakenBefore /\ RowsInOrder
-----------------------------------------------------------------------------
(***************************************************************************)
(* Operators.                                                              *)
(***************************************************************************)
LEMMA ConstantsAre ==
  /\ PageSize \in Nat /\ PageSize > 0 /\ Len(Start) \in Nat /\ Start \in Seq(Torrents)
  /\ MaxPage \in Nat /\ MaxSwitches \in Nat /\ MaxChanges \in Nat /\ MaxFailures \in Nat
  /\ MaxOutages \in Nat /\ MaxActions \in Nat /\ MaxEvents \in Nat
BY ListAssumption DEF ListAssumption

\* The sequences of at most PageSize torrents.
LEMMA ListsAre ==
  UNION {[1 .. n -> Torrents] : n \in 0 .. PageSize} = {s \in Seq(Torrents) : Len(s) <= PageSize}
<1>1. ASSUME NEW s \in Seq(Torrents), Len(s) <= PageSize
      PROVE  s \in UNION {[1 .. n -> Torrents] : n \in 0 .. PageSize}
  <2>1. s \in [1 .. Len(s) -> Torrents] /\ Len(s) \in 0 .. PageSize
    BY <1>1, LenProperties, ConstantsAre
  <2> QED
    BY <2>1
<1>2. ASSUME NEW n \in 0 .. PageSize, NEW s \in [1 .. n -> Torrents]
      PROVE  s \in Seq(Torrents) /\ Len(s) <= PageSize
  BY <1>2, ConstantsAre
<1> QED
  BY <1>1, <1>2

\* The part of a list between two positions.
LEMMA PartOf ==
  ASSUME NEW X, NEW s \in Seq(X), NEW q \in Nat, NEW w \in Nat
  PROVE  LET end == IF Len(s) < q + w THEN Len(s) ELSE q + w
         IN  SubSeq(s, q + 1, end) \in Seq(X) /\ Len(SubSeq(s, q + 1, end)) <= w
<1> DEFINE end == IF Len(s) < q + w THEN Len(s) ELSE q + w
<1>1. end \in Int /\ end <= Len(s) /\ end <= q + w
  OBVIOUS
<1> HIDE DEF end
<1>2. \A i \in q + 1 .. end : s[i] \in X
  BY <1>1
<1>3. /\ SubSeq(s, q + 1, end) \in Seq(X)
      /\ Len(SubSeq(s, q + 1, end)) = IF q + 1 <= end THEN end - (q + 1) + 1 ELSE 0
  BY <1>1, <1>2, SubSeqProperties
<1> QED
  BY <1>1, <1>3 DEF end

LEMMA InSeq ==
  ASSUME NEW X, NEW s \in Seq(X)
  PROVE  ToSet(s) \subseteq X
BY DEF ToSet

LEMMA FilteredKeeps ==
  ASSUME server \in Seq(Torrents), NEW c
  PROVE  /\ Filtered(c) \in Seq(Torrents) /\ Filtered(c) \in Seq(Match[c])
         /\ Len(Filtered(c)) \in 0 .. Len(server)
<1>1. /\ Filtered(c) \in Seq(Torrents) /\ Len(Filtered(c)) \in 0 .. Len(server)
  BY KeepFilters DEF Filtered
<1>2. Filtered(c) \in Seq(Torrents \cap Match[c])
  BY KeepIn DEF Filtered
<1>3. Filtered(c) \in Seq(Match[c])
  BY <1>2, SeqMonotonic
<1> QED
  BY <1>1, <1>3

\* An answer is one, of torrents that match, and of the present version.
LEMMA AnswerIs ==
  ASSUME TypeOK, Counted, NEW k \in Keys
  PROVE  /\ Answer(k) \in Answers /\ Answer(k).ver = version
         /\ ToSet(Answer(k).rows) \subseteq Match[k[1]]
<1> DEFINE kept == Filtered(k[1])
           q == k[2] * PageSize
           rows == SubSeq(kept, q + 1, IF Len(kept) < q + PageSize THEN Len(kept) ELSE q + PageSize)
<1>0. k[1] \in Criteria /\ k[2] \in Nat /\ PageSize \in Nat
  BY ConstantsAre DEF Keys
<1>1. q \in Nat /\ (k[2] + 1) * PageSize = q + PageSize
  BY <1>0
<1>2. /\ kept \in Seq(Torrents) /\ kept \in Seq(Match[k[1]])
      /\ Len(kept) \in 0 .. Len(server)
  BY FilteredKeeps DEF TypeOK
<1>3. Answer(k) = [rows |-> rows, total |-> Len(kept), hasMore |-> Len(kept) > (k[2] + 1) * PageSize,
                   ver |-> version]
  BY <1>1 DEF Answer
<1> HIDE DEF kept, q
<1>4. rows \in Seq(Torrents) /\ Len(rows) <= PageSize
  BY <1>0, <1>1, <1>2, PartOf
<1>5. rows \in Seq(Match[k[1]])
  BY <1>0, <1>1, <1>2, PartOf
<1>6. rows \in UNION {[1 .. n -> Torrents] : n \in 0 .. PageSize}
  BY <1>4, ListsAre
<1>7. ToSet(rows) \subseteq Match[k[1]]
  BY <1>5, InSeq
<1> HIDE DEF rows
<1>8. Len(kept) \in 0 .. Len(Start) + MaxChanges
  BY <1>2, ConstantsAre DEF Counted
<1>9. version \in -1 .. MaxChanges + MaxActions
  BY ConstantsAre DEF TypeOK
<1> QED
  BY <1>3, <1>6, <1>7, <1>8, <1>9 DEF Answers

LEMMA NoDataIs ==
  /\ NoData \notin Answers /\ NoData.rows = <<>> /\ NoData.ver = -1
  /\ NoKey \notin Keys
<1>1. NoKey \notin Keys
  BY DEF NoKey, Keys
<1> QED
  BY <1>1 DEF NoData, Answers

\* The optimistic removal leaves an answer one, of no more torrents.
LEMMA WithoutIs ==
  ASSUME TypeOK, NEW d \in Answers \cup {NoData}, NEW t
  PROVE  /\ Without(d, t) \in Answers \cup {NoData}
         /\ Without(d, t) = NoData <=> d = NoData
         /\ \A X : ToSet(d.rows) \subseteq X => ToSet(Without(d, t).rows) \subseteq X
         /\ Without(d, t).ver = -1
<1>1. CASE d = NoData
  BY <1>1, NoDataIs DEF Without
<1>2. CASE d # NoData
  <2> DEFINE rest == IF cross THEN d.rows ELSE Keep(d.rows, Torrents \ {t})
             left == IF d.total > 0 THEN d.total - 1 ELSE 0
  <2>0. /\ d \in Answers /\ d.rows \in Seq(Torrents) /\ Len(d.rows) <= PageSize
    <3>1. d \in Answers
      BY <1>2
    <3>2. d.rows \in UNION {[1 .. n -> Torrents] : n \in 0 .. PageSize}
      BY <3>1 DEF Answers
    <3> QED
      BY <3>1, <3>2, ListsAre
  <2>1. Without(d, t) = [d EXCEPT !.rows = rest, !.total = left, !.ver = Edited]
    BY <1>2 DEF Without
  <2>2. rest \in Seq(Torrents) /\ Len(rest) \in 0 .. PageSize /\ ToSet(rest) \subseteq ToSet(d.rows)
    <3>1. CASE cross
      BY <2>0, <3>1, LenProperties, ConstantsAre
    <3>2. CASE ~cross
      <4>1. d.rows \in Seq(ToSet(d.rows))
        BY <2>0 DEF ToSet
      <4>2. rest \in Seq(Torrents) /\ Len(rest) \in 0 .. PageSize
        BY <2>0, <3>2, KeepFilters, ConstantsAre
      <4>3. rest \in Seq(ToSet(d.rows))
        BY <4>1, <3>2, KeepFilters
      <4>4. ToSet(rest) \subseteq ToSet(d.rows)
        BY <4>3, InSeq
      <4> QED
        BY <4>2, <4>4
    <3> QED
      BY <3>1, <3>2
  <2> HIDE DEF rest
  <2>3. rest \in UNION {[1 .. n -> Torrents] : n \in 0 .. PageSize}
    <3>1. rest \in {s \in Seq(Torrents) : Len(s) <= PageSize}
      BY <2>2, ConstantsAre
    <3> QED
      BY <3>1, ListsAre
  <2>4. left \in 0 .. Len(Start) + MaxChanges
    <3>1. d.total \in 0 .. Len(Start) + MaxChanges
      BY <2>0 DEF Answers
    <3> QED
      BY <3>1, ConstantsAre
  <2> HIDE DEF left
  <2>5. Edited = -1 /\ -1 \in -1 .. MaxChanges + MaxActions
    BY ConstantsAre DEF Edited
  <2>6. Without(d, t) \in Answers
    BY <2>0, <2>1, <2>3, <2>4, <2>5 DEF Answers
  <2>7. Without(d, t).rows = rest /\ Without(d, t).ver = -1
    BY <2>0, <2>1, <2>5 DEF Answers
  <2> QED
    BY <1>2, <2>2, <2>6, <2>7, NoDataIs
<1> QED
  BY <1>1, <1>2
-----------------------------------------------------------------------------
(***************************************************************************)
(* The variables range over their sets.                                    *)
(***************************************************************************)
WorldTypes ==
  /\ server \in Seq(Torrents) /\ version \in 0 .. MaxChanges + MaxActions
  /\ leaving \subseteq Torrents
  /\ online \in BOOLEAN /\ outages \in 0 .. MaxOutages
  /\ failures \in 0 .. MaxFailures
  /\ criteria \in Criteria /\ switches \in 0 .. MaxSwitches
  /\ cross \in BOOLEAN /\ deleting \in Torrents \cup {None}
  /\ actions \in 0 .. MaxActions /\ due \in 0 .. MaxActions

HookTypes ==
  /\ seen \in Criteria \cup {None}
  /\ currentPage \in 0 .. MaxPage /\ lastProcessedPage \in -1 .. MaxPage
  /\ allTorrents \in Seq(Torrents)
  /\ hasLoadedAll \in BOOLEAN /\ isLoadingMore \in BOOLEAN
  /\ taken \in Seq([page : 0 .. MaxPage, ver : -1 .. MaxChanges + MaxActions])
  /\ stage \in {"rest", "effects"}
  /\ observed \in Keys \cup {NoKey} /\ defined \in Keys \cup {NoKey}

QueryTypes ==
  /\ cache \in [Keys -> Answers \cup {NoData}]
  /\ error \subseteq Keys
  /\ fetch \in [Keys -> {"idle", "paused", "sent", "answered"}]
  /\ reply \in [Keys -> Answers \cup {NoData}]

LEMMA TypesAre == TypeOK <=> WorldTypes /\ HookTypes /\ QueryTypes
BY DEF TypeOK, WorldTypes, HookTypes, QueryTypes

LEMMA WorldStep ==
  ASSUME WorldTypes, Counted, [Next]_vars
  PROVE  WorldTypes' /\ Counted'
<1> USE ConstantsAre
<1>0. Cardinality(leaving) \in Nat
  BY FS_CardinalityType DEF Counted
<1>a. ASSUME UNCHANGED <<server, version, leaving, cross, deleting, actions, due>>,
             online' \in BOOLEAN, outages' \in 0 .. MaxOutages, failures' \in 0 .. MaxFailures,
             criteria' \in Criteria, switches' \in 0 .. MaxSwitches
      PROVE  WorldTypes' /\ Counted'
  BY <1>a DEF WorldTypes, Counted
<1>b. CASE Commit \/ loadMore \/ Poll
  <2>1. UNCHANGED <<server, version, leaving, cross, deleting, actions, due, net, criteria, switches>>
    BY <1>b DEF Commit, loadMore, Poll, user
  <2> QED
    BY <2>1, <1>a DEF net, WorldTypes
<1>c. CASE Requests
  <2>1. PICK k \in Keys : Serve(k) \/ Arrive(k) \/ Fail(k) \/ Collect(k)
    BY <1>c DEF Requests
  <2>2. CASE Serve(k) \/ Arrive(k) \/ Collect(k)
    <3>1. UNCHANGED <<server, version, leaving, cross, deleting, actions, due, net, criteria, switches>>
      BY <2>2 DEF Serve, Arrive, Collect, user
    <3> QED
      BY <3>1, <1>a DEF net, WorldTypes
  <2>3. CASE Fail(k)
    <3>1. /\ UNCHANGED <<server, version, leaving, cross, deleting, actions, due, online, outages,
                         criteria, switches>>
          /\ failures < MaxFailures /\ failures' = failures + 1
      BY <2>3 DEF Fail, user
    <3>2. failures' \in 0 .. MaxFailures
      BY <3>1 DEF WorldTypes
    <3> QED
      BY <3>1, <3>2, <1>a DEF WorldTypes
  <2> QED
    BY <2>1, <2>2, <2>3
<1>d. CASE ChangeCriteria
  <2>1. /\ UNCHANGED <<server, version, leaving, cross, deleting, actions, due, net>>
        /\ criteria' \in Criteria /\ switches < MaxSwitches /\ switches' = switches + 1
    BY <1>d DEF ChangeCriteria
  <2>2. switches' \in 0 .. MaxSwitches
    BY <2>1 DEF WorldTypes
  <2> QED
    BY <2>1, <2>2, <1>a DEF net, WorldTypes
<1>e. CASE LoseNetwork \/ Reconnect
  <2>1. /\ UNCHANGED <<server, version, leaving, cross, deleting, actions, due, failures, criteria,
                       switches>>
        /\ online' \in BOOLEAN
        /\ \/ outages' = outages
           \/ outages < MaxOutages /\ outages' = outages + 1
    BY <1>e DEF LoseNetwork, Reconnect, user
  <2>2. outages' \in 0 .. MaxOutages
    BY <2>1 DEF WorldTypes
  <2> QED
    BY <2>1, <2>2, <1>a DEF WorldTypes
<1>f. CASE Refetch
  <2>1. /\ UNCHANGED <<server, version, leaving, cross, deleting, actions, net, criteria, switches>>
        /\ due > 0 /\ due' = due - 1
    BY <1>f DEF Refetch
  <2> QED
    BY <2>1 DEF net, WorldTypes, Counted
<1>g. CASE \E t \in Torrents : DeleteRequest(t)
  <2>1. PICK t \in Torrents : DeleteRequest(t)
    BY <1>g
  <2>2. /\ UNCHANGED <<server, version, cross, due, net, criteria, switches>>
        /\ deleting = None /\ actions < MaxActions /\ deleting' = t /\ actions' = actions + 1
        /\ leaving' = leaving \cup {t}
    BY <2>1 DEF DeleteRequest
  <2>3. /\ IsFiniteSet(leaving \cup {t})
        /\ Cardinality(leaving \cup {t}) = IF t \in leaving THEN Cardinality(leaving)
                                           ELSE Cardinality(leaving) + 1
    BY FS_AddElement DEF Counted
  <2> QED
    BY <1>0, <2>2, <2>3 DEF net, WorldTypes, Counted
<1>h. CASE DeleteSuccess \/ OtherAction
  <2>1. /\ UNCHANGED <<server, version, leaving, cross, net, criteria, switches>>
        /\ due' = due + 1
        /\ \/ deleting # None /\ deleting' = None /\ actions' = actions
           \/ deleting' = deleting /\ actions < MaxActions /\ actions' = actions + 1
    BY <1>h DEF DeleteSuccess, OtherAction
  <2> QED
    BY <1>0, <2>1 DEF net, WorldTypes, Counted
<1>i. CASE ServerDelete
  <2>1. PICK t \in leaving : /\ server' = Keep(server, Torrents \ {t})
                             /\ leaving' = leaving \ {t}
    BY <1>i DEF ServerDelete
  <2>2. version' = version + 1 /\ UNCHANGED <<cross, deleting, actions, due, net, criteria, switches>>
    BY <1>i DEF ServerDelete, user
  <2>3. server' \in Seq(Torrents) /\ Len(server') \in 0 .. Len(server)
    BY <2>1, KeepFilters DEF WorldTypes
  <2>4. IsFiniteSet(leaving') /\ Cardinality(leaving') = Cardinality(leaving) - 1
    BY <2>1, FS_RemoveElement DEF Counted
  <2>5. Len(server) \in Nat
    BY LenProperties DEF WorldTypes
  <2>6. Cardinality(leaving) >= 1
    BY <2>4, <1>0, FS_CardinalityType
  <2> QED
    BY <1>0, <2>1, <2>2, <2>3, <2>4, <2>5, <2>6 DEF net, WorldTypes, Counted
<1>j. CASE ServerChange
  <2>0. /\ version < MaxChanges /\ version' = version + 1
        /\ UNCHANGED <<leaving, cross, deleting, actions, due, net, criteria, switches>>
    BY <1>j DEF ServerChange, user
  <2>5. Len(server) \in Nat
    BY LenProperties DEF WorldTypes
  <2>1. server' \in Seq(Torrents) /\ Len(server') \in 0 .. Len(server) + 1
    <3>1. CASE \E t \in Torrents \ (ToSet(server) \cup leaving) : server' = <<t>> \o server
      BY <3>1, <2>5 DEF WorldTypes
    <3>2. CASE \E t \in ToSet(server) \ leaving : server' = Keep(server, Torrents \ {t})
      BY <3>2, <2>5, KeepFilters DEF WorldTypes
    <3> QED
      BY <1>j, <3>1, <3>2 DEF ServerChange
  <2> QED
    BY <1>0, <2>0, <2>1, <2>5 DEF net, WorldTypes, Counted
<1>k. CASE UNCHANGED vars
  <2>1. UNCHANGED <<server, version, leaving, cross, deleting, actions, due, net, criteria, switches>>
    BY <1>k DEF vars, user
  <2> QED
    BY <2>1, <1>a DEF net, WorldTypes
<1> QED
  BY <1>b, <1>c, <1>d, <1>e, <1>f, <1>g, <1>h, <1>i, <1>j, <1>k DEF Next
\* What a commit makes of the list.
Resets == criteria # seen

NothingTaken ==
  /\ \/ SkipData /\ isLoadingMore' = isLoadingMore
     \/ currentPage > 0 /\ currentPage = lastProcessedPage /\ isLoadingMore' = FALSE
  /\ currentPage' = (IF Resets THEN 0 ELSE currentPage)
  /\ allTorrents' = (IF Resets THEN <<>> ELSE allTorrents)
  /\ hasLoadedAll' = (IF Resets THEN FALSE ELSE hasLoadedAll)
  /\ lastProcessedPage' = (IF Resets THEN -1 ELSE lastProcessedPage)
  /\ taken' = (IF Resets THEN <<>> ELSE taken)

FirstTaken ==
  /\ ~SkipData /\ currentPage = 0 /\ currentPage' = 0
  /\ allTorrents' = (IF data.total = 0 THEN <<>> ELSE data.rows)
  /\ hasLoadedAll' = (IF data.total = 0 THEN TRUE ELSE ~data.hasMore)
  /\ isLoadingMore' = FALSE
  /\ \/ lastProcessedPage' = 0
     \/ Resets /\ lastProcessedPage' = -1
  /\ taken' = <<Taken>>

NextTaken ==
  /\ ~SkipData /\ currentPage > 0 /\ currentPage # lastProcessedPage
  /\ currentPage' = (IF Resets THEN 0 ELSE currentPage)
  /\ allTorrents' = (IF Resets THEN <<>> ELSE allTorrents) \o data.rows
  /\ hasLoadedAll' = ((~Resets /\ hasLoadedAll) \/ ~data.hasMore)
  /\ isLoadingMore' = FALSE
  /\ lastProcessedPage' = currentPage
  /\ taken' = Append(IF Resets THEN <<>> ELSE taken, Taken)

LEMMA CommitCases ==
  ASSUME HookTypes, Commit
  PROVE  NothingTaken \/ FirstTaken \/ NextTaken
<1> DEFINE r == ResetEffect(Rendered)
           s == DataEffect(r)
<1>0. /\ currentPage' = s.page /\ allTorrents' = s.rows /\ hasLoadedAll' = s.whole
      /\ isLoadingMore' = s.more /\ lastProcessedPage' = s.last /\ taken' = s.from
  BY DEF Commit
<1>1. r = [page |-> IF Resets THEN 0 ELSE currentPage, rows |-> IF Resets THEN <<>> ELSE allTorrents,
           whole |-> IF Resets THEN FALSE ELSE hasLoadedAll, more |-> isLoadingMore,
           last |-> IF Resets THEN -1 ELSE lastProcessedPage, from |-> IF Resets THEN <<>> ELSE taken]
  BY DEF ResetEffect, Rendered, Resets
<1> HIDE DEF r
<1>2. CASE SkipData
  <2>1. s = r
    BY <1>2 DEF DataEffect
  <2> HIDE DEF s
  <2> QED
    BY <1>0, <1>1, <1>2, <2>1 DEF NothingTaken
<1>3. CASE ~SkipData /\ currentPage = 0
  <2>1. s = FirstPage(r)
    BY <1>3 DEF DataEffect
  <2> HIDE DEF s
  <2>2. /\ s.page = 0 /\ s.more = FALSE /\ s.from = <<Taken>>
        /\ s.rows = (IF data.total = 0 THEN <<>> ELSE data.rows)
        /\ s.whole = (IF data.total = 0 THEN TRUE ELSE ~data.hasMore)
    BY <1>1, <1>3, <2>1 DEF FirstPage
  <2>3. s.last = 0 \/ (Resets /\ s.last = -1)
    BY <1>1, <1>3, <2>1 DEF FirstPage
  <2> QED
    BY <1>0, <1>3, <2>2, <2>3 DEF FirstTaken
<1>4. CASE ~SkipData /\ currentPage > 0 /\ currentPage # lastProcessedPage
  <2>1. s = NextPage(r)
    BY <1>4 DEF DataEffect
  <2> HIDE DEF s
  <2>2. /\ s.page = (IF Resets THEN 0 ELSE currentPage) /\ s.more = FALSE
        /\ s.rows = (IF Resets THEN <<>> ELSE allTorrents) \o data.rows
        /\ s.whole = ((~Resets /\ hasLoadedAll) \/ ~data.hasMore)
        /\ s.last = currentPage
        /\ s.from = Append(IF Resets THEN <<>> ELSE taken, Taken)
    BY <1>1, <2>1 DEF NextPage, HookTypes
  <2> QED
    BY <1>0, <1>4, <2>2 DEF NextTaken
<1>5. CASE ~SkipData /\ currentPage > 0 /\ currentPage = lastProcessedPage
  <2>1. s = [r EXCEPT !.more = FALSE]
    BY <1>5 DEF DataEffect
  <2> HIDE DEF s
  <2> QED
    BY <1>0, <1>1, <1>5, <2>1 DEF NothingTaken
<1> QED
  BY <1>2, <1>3, <1>4, <1>5 DEF HookTypes

\* The data of a commit is an answer, of the query the hook observes unless it is
\* a placeholder.
LEMMA DataIs ==
  ASSUME WorldTypes, HookTypes, QueryTypes
  PROVE  /\ Key \in Keys /\ Key[1] = criteria /\ Key[2] = currentPage
         /\ data \in Answers \cup {NoData}
         /\ ~SkipData => data \in Answers
         /\ ~isPlaceholderData => data = cache[Key]
<1>1. Key \in Keys /\ Key[1] = criteria /\ Key[2] = currentPage
  BY DEF Key, Keys, WorldTypes, HookTypes
<1>2. isPlaceholderData => defined \in Keys
  BY DEF isPlaceholderData, HookTypes
<1>3. data \in Answers \cup {NoData}
  BY <1>1, <1>2 DEF data, QueryTypes
<1> QED
  BY <1>1, <1>3 DEF SkipData, data

LEMMA AnswerFields ==
  ASSUME NEW d \in Answers
  PROVE  /\ d.rows \in Seq(Torrents) /\ d.hasMore \in BOOLEAN
         /\ d.total \in 0 .. Len(Start) + MaxChanges
         /\ d.ver \in -1 .. MaxChanges + MaxActions
<1>1. d.rows \in UNION {[1 .. n -> Torrents] : n \in 0 .. PageSize}
  BY DEF Answers
<1> QED
  BY <1>1, ListsAre DEF Answers

LEMMA HookStep ==
  ASSUME WorldTypes, HookTypes, QueryTypes, [Next]_vars
  PROVE  HookTypes'
<1> USE ConstantsAre
<1>a. ASSUME UNCHANGED <<seen, hook, observed, defined>>, stage' \in {stage, "rest", "effects"}
      PROVE  HookTypes'
  BY <1>a DEF HookTypes, hook, Keys, NoKey, Answers, NoData
<1>b. CASE Commit
  <2>0. Key \in Keys /\ criteria \in Criteria
    BY DataIs DEF WorldTypes
  <2>1. /\ seen' = criteria /\ stage' \in {"rest", "effects"} /\ observed' = Key
        /\ defined' \in {Key, defined}
    BY <1>b DEF Commit
  <2>2. Taken \in [page : 0 .. MaxPage, ver : -1 .. MaxChanges + MaxActions]
    <3>1. data.ver \in -1 .. MaxChanges + MaxActions
      BY DataIs, AnswerFields, NoDataIs
    <3> QED
      BY <3>1 DEF Taken, Edited, HookTypes
  <2>3. ~SkipData => data.rows \in Seq(Torrents) /\ data.hasMore \in BOOLEAN
    BY DataIs, AnswerFields
  <2>4. /\ currentPage' \in 0 .. MaxPage /\ lastProcessedPage' \in -1 .. MaxPage
        /\ allTorrents' \in Seq(Torrents)
        /\ hasLoadedAll' \in BOOLEAN /\ isLoadingMore' \in BOOLEAN
        /\ taken' \in Seq([page : 0 .. MaxPage, ver : -1 .. MaxChanges + MaxActions])
    <3> DEFINE T == [page : 0 .. MaxPage, ver : -1 .. MaxChanges + MaxActions]
    <3>0. taken \in Seq(T) /\ Taken \in T /\ allTorrents \in Seq(Torrents)
      BY <2>2 DEF HookTypes
    <3> HIDE DEF T
    <3>c. NothingTaken \/ FirstTaken \/ NextTaken
      BY <1>b, CommitCases
    <3>1. currentPage' \in 0 .. MaxPage /\ lastProcessedPage' \in -1 .. MaxPage
      <4>1. /\ currentPage' = 0 \/ currentPage' = currentPage
            /\ \/ lastProcessedPage' = -1
               \/ lastProcessedPage' = 0
               \/ lastProcessedPage' = lastProcessedPage
               \/ lastProcessedPage' = currentPage
        BY <3>c, Zenon DEF NothingTaken, FirstTaken, NextTaken
      <4> QED
        BY <4>1 DEF HookTypes
    <3>2. hasLoadedAll' \in BOOLEAN /\ isLoadingMore' \in BOOLEAN
      BY <3>c, Zenon DEF NothingTaken, FirstTaken, NextTaken, HookTypes
    <3>3. allTorrents' \in Seq(Torrents)
      <4>1. CASE NothingTaken
        BY <3>0, <4>1, EmptySeq DEF NothingTaken
      <4>2. CASE FirstTaken
        BY <3>0, <2>3, <4>2, EmptySeq DEF FirstTaken
      <4>3. CASE NextTaken
        BY <3>0, <2>3, <4>3, EmptySeq, ConcatProperties DEF NextTaken
      <4> QED
        BY <3>c, <4>1, <4>2, <4>3
    <3>4. taken' \in Seq(T)
      <4>1. CASE NothingTaken
        BY <3>0, <4>1, EmptySeq DEF NothingTaken
      <4>2. CASE FirstTaken
        BY <3>0, <4>2 DEF FirstTaken
      <4>3. CASE NextTaken
        BY <3>0, <4>3, EmptySeq, AppendProperties DEF NextTaken
      <4> QED
        BY <3>c, <4>1, <4>2, <4>3
    <3> QED
      BY <3>1, <3>2, <3>3, <3>4 DEF T
  <2> QED
    BY <2>0, <2>1, <2>4 DEF HookTypes
<1>c. CASE loadMore
  <2>1. /\ currentPage < MaxPage /\ currentPage' = currentPage + 1 /\ isLoadingMore' = TRUE
        /\ stage' = "effects"
        /\ UNCHANGED <<seen, allTorrents, hasLoadedAll, lastProcessedPage, taken, observed, defined>>
    BY <1>c DEF loadMore
  <2> QED
    BY <2>1 DEF HookTypes, Keys, NoKey
<1>d. CASE Requests
  <2>1. PICK k \in Keys : Serve(k) \/ Arrive(k) \/ Fail(k) \/ Collect(k)
    BY <1>d DEF Requests
  <2>2. UNCHANGED <<seen, hook, observed, defined>> /\ stage' \in {stage, "rest", "effects"}
    BY <2>1 DEF Serve, Arrive, Fail, Collect
  <2> QED
    BY <2>2, <1>a
<1>e. CASE ChangeCriteria \/ Poll \/ Refetch \/ LoseNetwork \/ Reconnect
  BY <1>e, <1>a DEF ChangeCriteria, Poll, Refetch, LoseNetwork, Reconnect
<1>f. CASE \E t \in Torrents : DeleteRequest(t)
  <2>1. PICK t \in Torrents : DeleteRequest(t)
    BY <1>f
  <2> QED
    BY <2>1, <1>a DEF DeleteRequest
<1>g. CASE DeleteSuccess \/ OtherAction \/ ServerDelete \/ ServerChange
  BY <1>g, <1>a DEF DeleteSuccess, OtherAction, ServerDelete, ServerChange
<1>h. CASE UNCHANGED vars
  BY <1>h, <1>a DEF vars
<1> QED
  BY <1>b, <1>c, <1>d, <1>e, <1>f, <1>g, <1>h DEF Next
\* How a step changes what the query cache has of a query.
LEMMA ReplyTypes ==
  ASSUME WorldTypes, HookTypes, QueryTypes, Counted, NEW k \in Keys
  PROVE  Answer(k) \in Answers
BY AnswerIs, TypesAre

LEMMA StartedIs ==
  ASSUME QueryTypes, online \in BOOLEAN, NEW k \in Keys
  PROVE  /\ Started(fetch, k) \in [Keys -> {"idle", "paused", "sent", "answered"}]
         /\ \A j \in Keys : j # k => Started(fetch, k)[j] = fetch[j]
         /\ Started(fetch, k)[k] = IF fetch[k] # "idle" THEN fetch[k]
                                   ELSE IF online THEN "sent" ELSE "paused"
BY DEF Started, QueryTypes

LEMMA QueryStep ==
  ASSUME WorldTypes, HookTypes, QueryTypes, Counted, [Next]_vars
  PROVE  QueryTypes'
<1> USE DEF QueryTypes
<1>0. /\ Key \in Keys /\ Keys' = Keys /\ Answers' = Answers /\ NoData' = NoData
      /\ online \in BOOLEAN /\ NoData \in Answers \cup {NoData}
      /\ ErrorsAfterStart(Key) \subseteq Keys
  BY DataIs DEF Keys, Answers, NoData, WorldTypes, ErrorsAfterStart
<1>s. Started(fetch, Key) \in [Keys -> {"idle", "paused", "sent", "answered"}]
  BY <1>0, StartedIs
<1>a. CASE UNCHANGED query
  BY <1>a, <1>0 DEF query
<1>b. CASE Commit
  BY <1>b, <1>0, <1>s DEF Commit
<1>c. CASE Poll
  BY <1>c, <1>0, <1>s DEF Poll
<1>d. CASE Refetch
  <2>1. fetch' \in [Keys -> {"idle", "paused", "sent", "answered"}]
    BY <1>d, <1>0, <1>s DEF Refetch
  <2>2. reply' \in [Keys -> Answers \cup {NoData}] /\ error' \subseteq Keys /\ cache' = cache
    BY <1>d, <1>0 DEF Refetch
  <2> QED
    BY <2>1, <2>2, <1>0
<1>e. CASE Requests
  <2>1. PICK k \in Keys : Serve(k) \/ Arrive(k) \/ Fail(k) \/ Collect(k)
    BY <1>e DEF Requests
  <2>2. CASE Serve(k)
    <3>1. Answer(k) \in Answers
      BY ReplyTypes
    <3> HIDE DEF Keys, Answers
    <3>2. /\ fetch' = [fetch EXCEPT ![k] = "answered"] /\ reply' = [reply EXCEPT ![k] = Answer(k)]
          /\ cache' = cache /\ error' = error
      BY <2>2 DEF Serve
    <3> QED
      BY <3>1, <3>2, <1>0
  <2>3. CASE Arrive(k)
    BY <2>3, <1>0 DEF Arrive
  <2>4. CASE Fail(k)
    BY <2>4, <1>0 DEF Fail
  <2>5. CASE Collect(k)
    BY <2>5, <1>0 DEF Collect
  <2> QED
    BY <2>1, <2>2, <2>3, <2>4, <2>5
<1>f. CASE Reconnect
  <2>1. /\ cache' = cache /\ reply' = reply /\ error' = ErrorsAfterStart(Key)
        /\ fetch' = [k \in Keys |-> IF fetch[k] = "paused" \/ (k = Key /\ fetch[k] = "idle")
                                    THEN "sent" ELSE fetch[k]]
    BY <1>f DEF Reconnect
  <2> QED
    BY <2>1, <1>0
<1>g. CASE DeleteSuccess
  <2>1. /\ fetch' = fetch /\ reply' = reply /\ error' = error
        /\ cache' = [k \in Keys |-> Without(cache[k], deleting)]
    BY <1>g DEF DeleteSuccess
  <2>2. \A k \in Keys : Without(cache[k], deleting) \in Answers \cup {NoData}
    BY WithoutIs, TypesAre
  <2> QED
    BY <2>1, <2>2, <1>0
<1>h. CASE ChangeCriteria \/ loadMore \/ LoseNetwork \/ OtherAction \/ ServerDelete \/ ServerChange
           \/ (\E t \in Torrents : DeleteRequest(t)) \/ UNCHANGED vars
  <2>1. UNCHANGED query
    BY <1>h DEF ChangeCriteria, loadMore, LoseNetwork, OtherAction, ServerDelete, ServerChange,
                DeleteRequest, vars
  <2> QED
    BY <2>1, <1>a
<1> QED
  BY <1>b, <1>c, <1>d, <1>e, <1>f, <1>g, <1>h DEF Next

LEMMA TypesInit == Init => TypeOK /\ Counted
<1> SUFFICES ASSUME Init PROVE TypeOK /\ Counted
  OBVIOUS
<1> USE ConstantsAre
<1>0. WorldTypes
  BY DEF Init, WorldTypes
<1>1. HookTypes
  <2>1. /\ allTorrents \in Seq(Torrents)
        /\ taken \in Seq([page : 0 .. MaxPage, ver : -1 .. MaxChanges + MaxActions])
    BY EmptySeq DEF Init
  <2>2. currentPage \in 0 .. MaxPage /\ lastProcessedPage \in -1 .. MaxPage
    BY DEF Init
  <2> QED
    BY <2>1, <2>2 DEF Init, HookTypes
<1>2. QueryTypes
  BY DEF Init, QueryTypes
<1>3. Counted
  BY FS_EmptySet DEF Init, Counted
<1> QED
  BY <1>0, <1>1, <1>2, <1>3, TypesAre

LEMMA TypesStep == TypeOK /\ Counted /\ [Next]_vars => (TypeOK /\ Counted)'
<1> SUFFICES ASSUME TypeOK, Counted, [Next]_vars PROVE (TypeOK /\ Counted)'
  OBVIOUS
<1>1. WorldTypes' /\ Counted' /\ HookTypes' /\ QueryTypes'
  BY TypesAre, WorldStep, HookStep, QueryStep
<1>2. TypeOK' <=> (WorldTypes /\ HookTypes /\ QueryTypes)'
  BY DEF TypeOK, WorldTypes, HookTypes, QueryTypes
<1> QED
  BY <1>1, <1>2
-----------------------------------------------------------------------------
(***************************************************************************)
(* The rows match the criteria.                                            *)
(***************************************************************************)
Typed == TypeOK /\ Counted

\* The steps that leave queries and answers alone.
LEMMA QuietSteps ==
  ASSUME [Next]_vars
  PROVE  \/ Commit \/ Poll \/ Refetch \/ Reconnect \/ DeleteSuccess
         \/ \E k \in Keys : Serve(k) \/ Arrive(k) \/ Fail(k) \/ Collect(k)
         \/ UNCHANGED query /\ (ChangeCriteria \/ loadMore)
         \/ UNCHANGED query /\ LoseNetwork
         \/ UNCHANGED <<query, hook, online, outages, criteria, seen, stage, observed, defined>>
BY DEF Next, Requests, vars, ChangeCriteria, loadMore, LoseNetwork, OtherAction, ServerDelete,
       ServerChange, DeleteRequest, net

LEMMA RepliedStep ==
  ASSUME Typed, Replied, [Next]_vars
  PROVE  Replied'
<1> USE DEF Replied
<1>0. /\ Key \in Keys /\ Keys' = Keys /\ NoData' = NoData /\ QueryTypes /\ online \in BOOLEAN
  BY DataIs, TypesAre DEF Typed, Keys, NoData, WorldTypes
<1>s. \A j \in Keys : Started(fetch, Key)[j] = "answered" => fetch[j] = "answered"
  BY <1>0, StartedIs
<1>1. CASE Commit \/ Poll
  <2>1. reply' = reply /\ fetch' \in {fetch, Started(fetch, Key)}
    BY <1>1 DEF Commit, Poll
  <2> QED
    BY <2>1, <1>0, <1>s
<1>2. CASE Refetch
  <2>1. CASE InFlight(Key) /\ cache[Key] # NoData
    <3>1. \A j \in Keys : fetch'[j] = "answered" => j # Key /\ fetch[j] = "answered"
      BY <1>2, <2>1, <1>0 DEF Refetch, QueryTypes
    <3>2. \A j \in Keys : j # Key => reply'[j] = reply[j]
      BY <1>2, <2>1, <1>0 DEF Refetch, QueryTypes
    <3> QED
      BY <3>1, <3>2, <1>0
  <2>2. CASE ~(InFlight(Key) /\ cache[Key] # NoData)
    BY <1>2, <2>2, <1>0, <1>s DEF Refetch
  <2> QED
    BY <2>1, <2>2
<1>3. CASE Reconnect
  BY <1>3, <1>0 DEF Reconnect, QueryTypes
<1>4. CASE DeleteSuccess
  BY <1>4, <1>0 DEF DeleteSuccess
<1>5. CASE \E k \in Keys : Serve(k) \/ Arrive(k) \/ Fail(k) \/ Collect(k)
  <2>1. PICK k \in Keys : Serve(k) \/ Arrive(k) \/ Fail(k) \/ Collect(k)
    BY <1>5
  <2>2. Answer(k) # NoData
    BY AnswerIs, NoDataIs DEF Typed
  <2>3. \/ fetch' = [fetch EXCEPT ![k] = "answered"] /\ reply' = [reply EXCEPT ![k] = Answer(k)]
        \/ /\ fetch' = [fetch EXCEPT ![k] = "idle"] \/ fetch' = [fetch EXCEPT ![k] = "paused"]
           /\ reply' = [reply EXCEPT ![k] = NoData]
        \/ fetch' = fetch /\ reply' = reply
    BY <2>1 DEF Serve, Arrive, Fail, Collect
  <2> QED
    BY <2>2, <2>3, <1>0 DEF QueryTypes
<1>6. CASE UNCHANGED query
  BY <1>6, <1>0 DEF query
<1> QED
  BY <1>1, <1>2, <1>3, <1>4, <1>5, <1>6, QuietSteps

LEMMA AnswersMatchStep ==
  ASSUME Typed, AnswersMatch, [Next]_vars
  PROVE  AnswersMatch'
<1> DEFINE Good(d, k) == ToSet(d.rows) \subseteq Match[k[1]]
<1>0. /\ Key \in Keys /\ Keys' = Keys /\ NoData' = NoData /\ QueryTypes
  BY DataIs, TypesAre DEF Typed, Keys, NoData
<1>g. (\A k \in Keys : Good(cache[k], k) /\ Good(reply[k], k)) <=> AnswersMatch
  BY DEF AnswersMatch, RowsOf
<1>h. (\A k \in Keys : Good(cache'[k], k) /\ Good(reply'[k], k)) <=> AnswersMatch'
  BY <1>0 DEF AnswersMatch, RowsOf
<1>n. \A k \in Keys : Good(NoData, k)
  BY NoDataIs, EmptySeq, InSeq
<1> HIDE DEF Good
<1>a. ASSUME cache' = cache, reply' \in {reply, [reply EXCEPT ![Key] = NoData]}
      PROVE  AnswersMatch'
  BY <1>a, <1>0, <1>g, <1>h, <1>n DEF QueryTypes
<1>1. CASE Commit \/ Poll \/ Refetch \/ Reconnect
  <2>1. cache' = cache /\ reply' \in {reply, [reply EXCEPT ![Key] = NoData]}
    BY <1>1 DEF Commit, Poll, Refetch, Reconnect
  <2> QED
    BY <2>1, <1>a
<1>2. CASE DeleteSuccess
  <2>1. reply' = reply /\ cache' = [k \in Keys |-> Without(cache[k], deleting)]
    BY <1>2 DEF DeleteSuccess
  <2>2. \A k \in Keys : Good(cache[k], k) => Good(Without(cache[k], deleting), k)
    BY <1>0, WithoutIs DEF Typed, QueryTypes, Good
  <2> QED
    BY <2>1, <2>2, <1>g, <1>h
<1>3. CASE \E k \in Keys : Serve(k) \/ Arrive(k) \/ Fail(k) \/ Collect(k)
  <2>1. PICK k \in Keys : Serve(k) \/ Arrive(k) \/ Fail(k) \/ Collect(k)
    BY <1>3
  <2>2. Good(Answer(k), k)
    BY AnswerIs DEF Typed, Good
  <2>3. /\ cache' = cache \/ cache' = [cache EXCEPT ![k] = reply[k]] \/ cache' = [cache EXCEPT ![k] = NoData]
        /\ reply' = reply \/ reply' = [reply EXCEPT ![k] = Answer(k)] \/ reply' = [reply EXCEPT ![k] = NoData]
    BY <2>1 DEF Serve, Arrive, Fail, Collect
  <2> QED
    BY <2>2, <2>3, <1>0, <1>g, <1>h, <1>n DEF QueryTypes
<1>4. CASE UNCHANGED query
  BY <1>4, <1>a DEF query
<1> QED
  BY <1>1, <1>2, <1>3, <1>4, QuietSteps

LEMMA CommittedStep ==
  ASSUME Typed, Committed, [Next]_vars
  PROVE  Committed'
<1> USE DEF Committed
<1>1. CASE Commit
  <2>1. CASE stage' = "rest"
    <3>1. DataEffect(ResetEffect(Rendered)) = Rendered /\ criteria = seen /\ Key = observed
      BY <1>1, <2>1 DEF Commit
    <3>2. /\ currentPage' = Rendered.page /\ criteria' = criteria /\ seen' = criteria
          /\ observed' = Key
      BY <1>1, <3>1 DEF Commit
    <3> QED
      BY <3>2 DEF Rendered, Key
  <2>2. CASE stage' # "rest"
    BY <2>2
  <2> QED
    BY <2>1, <2>2
<1>a. ASSUME UNCHANGED <<criteria, currentPage, seen, observed>>,
             stage' = "rest" => stage = "rest"
      PROVE  Committed'
  BY <1>a DEF Key
<1>2. CASE Poll \/ Refetch \/ Reconnect \/ DeleteSuccess
  BY <1>2, <1>a DEF Poll, Refetch, Reconnect, DeleteSuccess, hook
<1>3. CASE \E k \in Keys : Serve(k) \/ Arrive(k) \/ Fail(k) \/ Collect(k)
  BY <1>3, <1>a DEF Serve, Arrive, Fail, Collect, hook
<1>4. CASE ChangeCriteria \/ loadMore
  BY <1>4 DEF ChangeCriteria, loadMore
<1>5. CASE LoseNetwork
  BY <1>5, <1>a DEF LoseNetwork, hook
<1>6. CASE UNCHANGED <<query, hook, online, outages, criteria, seen, stage, observed, defined>>
  BY <1>6, <1>a DEF hook
<1> QED
  BY <1>1, <1>2, <1>3, <1>4, <1>5, <1>6, QuietSteps
LEMMA AskedStep ==
  ASSUME Typed, Replied, Committed, Asked, [Next]_vars
  PROVE  Asked'
<1> SUFFICES ASSUME outages' = 0
             PROVE  /\ online' /\ \A k \in Keys : fetch'[k] # "paused"
                    /\ observed' \in Keys /\ cache'[observed'] = NoData /\ observed' \notin error'
                         => fetch'[observed'] \notin {"idle", "paused"}
  BY DEF Asked, InFlight, Keys, NoData
<1> DEFINE On == /\ online /\ \A k \in Keys : fetch[k] # "paused"
           Going == observed \in Keys /\ cache[observed] = NoData /\ observed \notin error
                      => fetch[observed] \notin {"idle", "paused"}
<1>t. /\ Key \in Keys /\ QueryTypes /\ online \in BOOLEAN /\ outages \in Nat
  BY DataIs, TypesAre, ConstantsAre DEF Typed, WorldTypes
<1>o. outages = 0 => On /\ Going
  BY DEF Asked, InFlight
<1>s. /\ online => \A k \in Keys : fetch[k] # "paused" => Started(fetch, Key)[k] # "paused"
      /\ \A k \in Keys : fetch[k] \notin {"idle", "paused"}
                           => Started(fetch, Key)[k] \notin {"idle", "paused"}
      /\ online /\ fetch[Key] # "paused" => Started(fetch, Key)[Key] \notin {"idle", "paused"}
      /\ \A k \in Keys : k # Key => Started(fetch, Key)[k] = fetch[k]
  BY <1>t, StartedIs
<1>e. \A k \in Keys : k # Key => (k \in ErrorsAfterStart(Key) <=> k \in error)
  BY DEF ErrorsAfterStart
<1>1. CASE Commit
  <2>0. /\ observed' = Key /\ cache' = cache /\ On /\ Going /\ online' = online
        /\ fetch' = (IF Key # observed THEN Started(fetch, Key) ELSE fetch)
        /\ error' = (IF Key # observed THEN ErrorsAfterStart(Key) ELSE error)
    BY <1>1, <1>o DEF Commit, net
  <2> QED
    BY <2>0, <1>t, <1>s
<1>2. CASE Poll
  <2>0. /\ observed' = observed /\ cache' = cache /\ On /\ Going /\ online' = online
        /\ fetch' = Started(fetch, Key) /\ error' = ErrorsAfterStart(Key)
    BY <1>2, <1>o DEF Poll, net
  <2> QED
    BY <2>0, <1>t, <1>s, <1>e
<1>3. CASE Refetch
  <2>0. /\ observed' = observed /\ cache' = cache /\ On /\ Going /\ online' = online
        /\ \/ fetch' = [fetch EXCEPT ![Key] = "sent"]
           \/ fetch' = Started(fetch, Key)
        /\ error' = ErrorsAfterStart(Key)
    BY <1>3, <1>o DEF Refetch, net
  <2> QED
    BY <2>0, <1>t, <1>s, <1>e DEF QueryTypes
<1>4. CASE Reconnect
  <2>1. ~online /\ outages' = outages
    BY <1>4 DEF Reconnect
  <2> QED
    BY <2>1, <1>o
<1>5. CASE DeleteSuccess
  <2>0. /\ On /\ Going /\ UNCHANGED <<observed, error, fetch, online>>
        /\ cache' = [k \in Keys |-> Without(cache[k], deleting)]
    BY <1>5, <1>o DEF DeleteSuccess, net
  <2>1. \A k \in Keys : cache'[k] = NoData => cache[k] = NoData
    BY <2>0, <1>t, WithoutIs DEF Typed, QueryTypes
  <2> QED
    BY <2>0, <2>1
<1>6. CASE \E k \in Keys : Serve(k) \/ Arrive(k) \/ Fail(k) \/ Collect(k)
  <2>1. PICK k \in Keys : Serve(k) \/ Arrive(k) \/ Fail(k) \/ Collect(k)
    BY <1>6
  <2>0. On /\ Going /\ observed' = observed /\ online' = online
    BY <2>1, <1>o DEF Serve, Arrive, Fail, Collect, net
  <2>2. CASE Serve(k)
    BY <2>0, <2>2, <1>t DEF Serve, QueryTypes
  <2>3. CASE Arrive(k)
    <3>1. /\ reply[k] # NoData /\ cache' = [cache EXCEPT ![k] = reply[k]]
          /\ fetch' = [fetch EXCEPT ![k] = "idle"] /\ error' = error \ {k}
      BY <2>3 DEF Arrive, Replied
    <3> QED
      BY <2>0, <3>1, <1>t DEF QueryTypes
  <2>4. CASE Fail(k)
    <3>1. /\ cache' = cache /\ fetch' = [fetch EXCEPT ![k] = "idle"]
          /\ error' = IF cache[k] = NoData THEN error \cup {k} ELSE error
      BY <2>0, <2>4 DEF Fail
    <3> QED
      BY <2>0, <3>1, <1>t DEF QueryTypes
  <2>5. CASE Collect(k)
    <3>1. /\ k # observed /\ cache' = [cache EXCEPT ![k] = NoData] /\ fetch' = fetch
          /\ error' = error \ {k}
      BY <2>5 DEF Collect, Committed
    <3> QED
      BY <2>0, <3>1, <1>t DEF QueryTypes
  <2> QED
    BY <2>1, <2>2, <2>3, <2>4, <2>5
<1>7. CASE UNCHANGED query /\ (ChangeCriteria \/ loadMore)
  BY <1>7, <1>o DEF ChangeCriteria, loadMore, query, net
<1>8. CASE LoseNetwork
  BY <1>8, <1>t DEF LoseNetwork
<1>9. CASE UNCHANGED <<query, hook, online, outages, criteria, seen, stage, observed, defined>>
  BY <1>9, <1>o DEF query
<1> QED
  BY <1>1, <1>2, <1>3, <1>4, <1>5, <1>6, <1>7, <1>8, <1>9, QuietSteps

\* Without an outage a placeholder is never taken for an answer.
LEMMA NoPlaceholderTaken ==
  ASSUME Typed, Asked, outages = 0, isPlaceholderData
  PROVE  SkipData
<1>1. Key \in Keys /\ fetch[Key] \in {"idle", "paused", "sent", "answered"} /\ currentPage \in Nat
  BY DataIs, TypesAre DEF Typed, QueryTypes, HookTypes
<1>2. cache[Key] = NoData /\ Key \notin error /\ currentPage > 0
  BY DEF isPlaceholderData
<1>3. online /\ fetch[Key] # "paused" /\ (Key = observed => InFlight(Key))
  BY <1>1, <1>2 DEF Asked
<1>4. isFetching
  BY <1>1, <1>3 DEF isFetching, InFlight
<1> QED
  BY <1>2, <1>4 DEF SkipData

LEMMA ShownStep ==
  ASSUME Typed, AnswersMatch, Asked, Shown, [Next]_vars
  PROVE  Shown'
<1> SUFFICES ASSUME outages' = 0, allTorrents' # <<>>
             PROVE  ToSet(allTorrents') \subseteq Match[seen']
  BY DEF Shown
<1>1. CASE Commit
  <2>0. seen' = criteria /\ outages = 0
    BY <1>1 DEF Commit, net
  <2>1. ~SkipData => data \in Answers /\ data.rows \in Seq(Match[criteria])
    <3>1. SUFFICES ASSUME ~SkipData PROVE data \in Answers /\ data.rows \in Seq(Match[criteria])
      OBVIOUS
    <3>2. data \in Answers /\ data = cache[Key] /\ Key \in Keys /\ Key[1] = criteria
      BY <3>1, <2>0, DataIs, TypesAre, NoPlaceholderTaken DEF Typed
    <3>3. ToSet(data.rows) \subseteq Match[criteria] /\ data.rows \in Seq(Torrents)
      BY <3>2, AnswerFields DEF AnswersMatch, RowsOf
    <3> QED
      BY <3>2, <3>3 DEF ToSet
  <2>2. ~Resets => allTorrents \in Seq(Match[criteria])
    <3>1. SUFFICES ASSUME ~Resets, allTorrents # <<>> PROVE allTorrents \in Seq(Match[criteria])
      BY EmptySeq
    <3>2. ToSet(allTorrents) \subseteq Match[criteria] /\ allTorrents \in Seq(Torrents)
      BY <3>1, <2>0, TypesAre DEF Typed, Shown, Resets, HookTypes
    <3> QED
      BY <3>2 DEF ToSet
  <2>3. allTorrents' \in Seq(Match[criteria])
    <3>1. CASE NothingTaken
      BY <3>1, <2>2, EmptySeq DEF NothingTaken
    <3>2. CASE FirstTaken
      BY <3>2, <2>1, EmptySeq DEF FirstTaken
    <3>3. CASE NextTaken
      BY <3>3, <2>1, <2>2, EmptySeq, ConcatProperties DEF NextTaken
    <3> QED
      BY <1>1, <3>1, <3>2, <3>3, CommitCases, TypesAre DEF Typed
  <2> QED
    BY <2>0, <2>3, InSeq
<1>a. ASSUME UNCHANGED <<allTorrents, seen, outages>>
      PROVE  ToSet(allTorrents') \subseteq Match[seen']
  BY <1>a DEF Shown
<1>2. CASE Poll \/ Refetch \/ Reconnect \/ DeleteSuccess
  BY <1>2, <1>a DEF Poll, Refetch, Reconnect, DeleteSuccess, hook, net
<1>3. CASE \E k \in Keys : Serve(k) \/ Arrive(k) \/ Fail(k) \/ Collect(k)
  BY <1>3, <1>a DEF Serve, Arrive, Fail, Collect, hook, net
<1>4. CASE ChangeCriteria \/ loadMore
  BY <1>4, <1>a DEF ChangeCriteria, loadMore, hook, net
<1>5. CASE LoseNetwork
  <2>1. outages' = outages + 1 /\ outages \in Nat
    BY <1>5, TypesAre, ConstantsAre DEF LoseNetwork, Typed, WorldTypes
  <2> QED
    BY <2>1
<1>6. CASE UNCHANGED <<query, hook, online, outages, criteria, seen, stage, observed, defined>>
  BY <1>6, <1>a DEF hook
<1> QED
  BY <1>1, <1>2, <1>3, <1>4, <1>5, <1>6, QuietSteps
-----------------------------------------------------------------------------
(***************************************************************************)
(* The list is the beginning of the server's.                              *)
(***************************************************************************)
LEMMA VersionSteps ==
  ASSUME [Next]_vars
  PROVE  \/ UNCHANGED <<server, version>>
         \/ version' = version + 1 /\ UNCHANGED <<query, hook, criteria, seen, stage, observed>>
BY DEF Next, Requests, vars, Commit, ChangeCriteria, loadMore, Poll, Refetch, LoseNetwork, Reconnect,
       DeleteRequest, DeleteSuccess, OtherAction, ServerDelete, ServerChange, Serve, Arrive, Fail, Collect

LEMMA AnswersCurrentStep ==
  ASSUME Typed, AnswersCurrent, [Next]_vars
  PROVE  AnswersCurrent'
<1>0. /\ Key \in Keys /\ Keys' = Keys /\ QueryTypes /\ version \in Nat
  BY DataIs, TypesAre, ConstantsAre DEF Typed, Keys, WorldTypes
<1>v. \A d \in Answers \cup {NoData} : d.ver \in Int
  BY AnswerFields, NoDataIs, ConstantsAre
<1>n. \A k \in Keys : Current(NoData, k)
  BY <1>0, NoDataIs DEF Current
<1>1. CASE UNCHANGED <<server, version>>
  <2> DEFINE Good(d, k) == Current(d, k)
  <2>h. AnswersCurrent' <=> \A k \in Keys : Good(cache'[k], k) /\ Good(reply'[k], k)
    BY <1>1, <1>0 DEF AnswersCurrent, Current, Answer, Filtered
  <2>g. \A k \in Keys : Good(cache[k], k) /\ Good(reply[k], k)
    BY DEF AnswersCurrent
  <2>n. \A k \in Keys : Good(NoData, k)
    BY <1>n
  <2>b. \A k \in Keys : \A d : d.ver = -1 => Good(d, k)
    BY <1>0 DEF Current
  <2>c. \A k \in Keys : Good(Answer(k), k)
    BY <1>0, AnswerIs DEF Typed, Current
  <2> HIDE DEF Good
  <2>a. ASSUME cache' = cache, reply' \in {reply, [reply EXCEPT ![Key] = NoData]}
        PROVE  AnswersCurrent'
    BY <2>a, <1>0, <2>g, <2>h, <2>n DEF QueryTypes
  <2>1. CASE Commit \/ Poll \/ Refetch \/ Reconnect
    <3>1. cache' = cache /\ reply' \in {reply, [reply EXCEPT ![Key] = NoData]}
      BY <2>1 DEF Commit, Poll, Refetch, Reconnect
    <3> QED
      BY <3>1, <2>a
  <2>2. CASE DeleteSuccess
    <3>1. reply' = reply /\ cache' = [k \in Keys |-> Without(cache[k], deleting)]
      BY <2>2 DEF DeleteSuccess
    <3>2. \A k \in Keys : Without(cache[k], deleting).ver = -1
      BY <1>0, WithoutIs DEF Typed, QueryTypes
    <3> QED
      BY <3>1, <3>2, <2>b, <2>g, <2>h
  <2>3. CASE \E k \in Keys : Serve(k) \/ Arrive(k) \/ Fail(k) \/ Collect(k)
    <3>1. PICK k \in Keys : Serve(k) \/ Arrive(k) \/ Fail(k) \/ Collect(k)
      BY <2>3
    <3>2. /\ cache' = cache \/ cache' = [cache EXCEPT ![k] = reply[k]] \/ cache' = [cache EXCEPT ![k] = NoData]
          /\ reply' = reply \/ reply' = [reply EXCEPT ![k] = Answer(k)] \/ reply' = [reply EXCEPT ![k] = NoData]
      BY <3>1 DEF Serve, Arrive, Fail, Collect
    <3> QED
      BY <3>2, <2>c, <1>0, <2>g, <2>h, <2>n DEF QueryTypes
  <2>4. CASE UNCHANGED query
    BY <2>4, <2>a DEF query
  <2> QED
    BY <2>1, <2>2, <2>3, <2>4, QuietSteps
<1>2. CASE version' = version + 1 /\ UNCHANGED query
  <2>1. ASSUME NEW k \in Keys
        PROVE  /\ cache'[k].ver <= version' /\ cache'[k].ver # version'
               /\ reply'[k].ver <= version' /\ reply'[k].ver # version'
    <3>1. cache' = cache /\ reply' = reply
      BY <1>2 DEF query
    <3>2. Current(cache[k], k) /\ Current(reply[k], k) /\ cache[k].ver \in Int /\ reply[k].ver \in Int
      BY <1>0, <1>v DEF AnswersCurrent, QueryTypes
    <3> QED
      BY <1>0, <1>2, <3>1, <3>2 DEF Current
  <2> QED
    BY <2>1, <1>0 DEF AnswersCurrent, Current
<1> QED
  BY <1>1, <1>2, VersionSteps

LEMMA TakenBeforeStep ==
  ASSUME Typed, AnswersCurrent, TakenBefore, [Next]_vars
  PROVE  TakenBefore'
<1> DEFINE T == [page : 0 .. MaxPage, ver : -1 .. MaxChanges + MaxActions]
<1>0. taken \in Seq(T) /\ version \in Nat /\ \A t \in T : t.ver \in Int
  BY TypesAre, ConstantsAre DEF Typed, HookTypes, WorldTypes
<1>1. version' \in Nat /\ version <= version'
  BY <1>0, VersionSteps
<1> HIDE DEF T
<1>2. \A i \in 1 .. Len(taken) : taken[i].ver \in Int /\ taken[i].ver <= version'
  <2>1. DOMAIN taken = 1 .. Len(taken) /\ \A i \in 1 .. Len(taken) : taken[i] \in T
    BY <1>0
  <2> QED
    BY <2>1, <1>0, <1>1 DEF TakenBefore
<1>3. CASE Commit
  <2>1. Taken.ver <= version /\ version' = version
    <3>1. CASE isPlaceholderData
      BY <1>0, <1>3, <3>1 DEF Taken, Edited, Commit
    <3>2. CASE ~isPlaceholderData
      BY <1>3, <3>2, DataIs, TypesAre DEF Typed, Taken, Commit, AnswersCurrent, Current
    <3> QED
      BY <3>1, <3>2
  <2> HIDE DEF T
  <2>2. Taken.ver \in Int => Taken.ver <= version'
    BY <2>1
  <2>3. CASE NothingTaken
    BY <1>0, <1>2, <2>3 DEF NothingTaken, TakenBefore
  <2>4. CASE FirstTaken
    BY <2>1, <2>4 DEF FirstTaken, TakenBefore
  <2>5. CASE NextTaken
    BY <1>0, <1>2, <2>1, <2>5 DEF NextTaken, TakenBefore
  <2> QED
    BY <1>3, <2>3, <2>4, <2>5, CommitCases, TypesAre DEF Typed
<1>4. CASE taken' = taken
  BY <1>4, <1>0, <1>2 DEF TakenBefore
<1>5. Commit \/ taken' = taken
  BY QuietSteps DEF Poll, Refetch, Reconnect, DeleteSuccess, Serve, Arrive, Fail, Collect,
                    ChangeCriteria, loadMore, LoseNetwork, hook
<1> QED
  BY <1>3, <1>4, <1>5
\* Outside of commits a page is asked for at rest only, and data change at rest only.
LEMMA OtherSteps ==
  ASSUME [Next]_vars, ~Commit
  PROVE  /\ UNCHANGED <<taken, allTorrents, hasLoadedAll, lastProcessedPage, seen>>
         /\ \/ UNCHANGED <<currentPage, isLoadingMore>>
            \/ /\ stage = "rest" /\ ~isLoadingMore
               /\ currentPage' = currentPage + 1 /\ isLoadingMore' = TRUE
         /\ stage = "rest" \/ UNCHANGED <<cache, currentPage, isLoadingMore, stage>>
BY DEF Next, Requests, vars, ChangeCriteria, loadMore, Poll, Refetch, LoseNetwork, Reconnect,
       DeleteRequest, DeleteSuccess, OtherAction, ServerDelete, ServerChange, Serve, Arrive, Fail,
       Collect, hook, query

LEMMA PagesStep ==
  ASSUME Typed, PagesInOrder, [Next]_vars
  PROVE  PagesInOrder'
<1> DEFINE n == Len(taken)
           T == [page : 0 .. MaxPage, ver : -1 .. MaxChanges + MaxActions]
<1>0. /\ taken \in Seq(T) /\ n \in Nat /\ currentPage \in Nat /\ lastProcessedPage \in Int
      /\ Taken.page = currentPage /\ Key = <<criteria, currentPage>>
      /\ stage \in {"rest", "effects"}
  BY TypesAre, ConstantsAre DEF Typed, HookTypes, Taken, Key
<1> HIDE DEF T
<1>d. FromFirst => n > 0
  BY <1>0, EmptySeq DEF FromFirst
<1>1. CASE Commit
  <2>0. /\ seen' = criteria /\ cache' = cache /\ criteria' = criteria
        /\ criteria # seen => stage' = "effects"
    BY <1>1 DEF Commit
  <2>1. CASE NothingTaken
    <3>1. CASE Resets
      BY <2>1, <3>1 DEF NothingTaken, PagesInOrder, FromFirst
    <3>2. CASE ~Resets /\ FromFirst
      <4>1. lastProcessedPage # -1
        <5>1. SUFFICES ASSUME lastProcessedPage = -1 PROVE FALSE
          OBVIOUS
        <5>2. currentPage = 0 /\ cache[<<criteria, 0>>] # NoData
          BY <1>d, <3>2, <5>1, <1>0 DEF PagesInOrder, Resets
        <5>3. ~SkipData
          BY <5>2, <1>0 DEF SkipData, isPlaceholderData, data, Key
        <5> QED
          BY <2>1, <5>2, <5>3 DEF NothingTaken
      <4>2. /\ lastProcessedPage = n - 1 /\ currentPage \in {n - 1, n}
            /\ currentPage = n => isLoadingMore
        BY <4>1, <3>2 DEF PagesInOrder
      <4>3. /\ UNCHANGED <<taken, lastProcessedPage, currentPage>>
            /\ isLoadingMore' = isLoadingMore \/ currentPage = lastProcessedPage
        BY <2>1, <3>2 DEF NothingTaken
      <4> QED
        BY <4>2, <4>3, <1>0 DEF PagesInOrder
    <3>3. CASE ~Resets /\ ~FromFirst
      BY <2>1, <3>3 DEF NothingTaken, PagesInOrder, FromFirst
    <3> QED
      BY <3>1, <3>2, <3>3
  <2>2. CASE FirstTaken
    <3>1. taken' = <<Taken>> /\ currentPage' = 0 /\ isLoadingMore' = FALSE /\ currentPage = 0
      BY <2>2 DEF FirstTaken
    <3>2. Len(taken') = 1
      BY <3>1
    <3>3. cache'[<<criteria, 0>>] # NoData
      BY <1>0, <2>0, <2>2, <3>1 DEF FirstTaken, SkipData, data, isPlaceholderData
    <3>4. lastProcessedPage' = 0 \/ (lastProcessedPage' = -1 /\ stage' = "effects")
      BY <2>0, <2>2 DEF FirstTaken, Resets
    <3> QED
      BY <2>0, <3>1, <3>2, <3>3, <3>4 DEF PagesInOrder, NoData
  <2>3. CASE NextTaken
    <3>0. /\ lastProcessedPage' = currentPage /\ isLoadingMore' = FALSE /\ currentPage > 0
          /\ currentPage # lastProcessedPage
      BY <2>3 DEF NextTaken
    <3>1. CASE Resets \/ taken = <<>>
      <4>1. taken' = <<Taken>>
        <5>1. taken' = Append(<<>>, Taken)
          BY <2>3, <3>1, Zenon DEF NextTaken
        <5>2. Append(<<>>, Taken) = <<Taken>>
          OBVIOUS
        <5> QED
          BY <5>1, <5>2
      <4> QED
        BY <4>1, <3>0, <1>0 DEF PagesInOrder, FromFirst
    <3>2. CASE ~Resets /\ taken # <<>>
      <4>1. taken' = Append(taken, Taken) /\ currentPage' = currentPage
        BY <2>3, <3>2 DEF NextTaken
      <4>2. Len(taken') = n + 1 /\ (FromFirst' => FromFirst)
        BY <4>1, <3>2, <1>0 DEF FromFirst
      <4>3. FromFirst => currentPage = n
        BY <3>0, <1>0 DEF PagesInOrder
      <4> QED
        BY <4>1, <4>2, <4>3, <3>0, <1>0 DEF PagesInOrder
    <3> QED
      BY <3>1, <3>2
  <2> QED
    BY <1>1, <2>1, <2>2, <2>3, CommitCases, TypesAre DEF Typed
<1>2. CASE ~Commit
  <2>1. UNCHANGED <<taken, lastProcessedPage, seen>> /\ (FromFirst' <=> FromFirst)
    BY <1>2, OtherSteps DEF FromFirst
  <2>2. CASE stage = "rest"
    <3>1. FromFirst => lastProcessedPage = n - 1 /\ currentPage \in {n - 1, n} /\ (currentPage = n => isLoadingMore)
      BY <2>2 DEF PagesInOrder
    <3>2. \/ UNCHANGED <<currentPage, isLoadingMore>>
          \/ ~isLoadingMore /\ currentPage' = currentPage + 1 /\ isLoadingMore' = TRUE
      BY <1>2, OtherSteps
    <3> QED
      BY <2>1, <3>1, <3>2, <1>0 DEF PagesInOrder
  <2>3. CASE stage # "rest"
    <3>1. UNCHANGED <<cache, currentPage, isLoadingMore, stage>>
      BY <1>2, <2>3, OtherSteps
    <3> QED
      BY <2>1, <3>1 DEF PagesInOrder, NoData
  <2> QED
    BY <2>2, <2>3
<1> QED
  BY <1>1, <1>2
LEMMA JoinPages ==
  ASSUME NEW X, NEW s \in Seq(X), NEW q \in Nat, NEW w \in Nat
  PROVE  LET upTo(n) == IF Len(s) < n THEN Len(s) ELSE n
         IN  SubSeq(s, 1, upTo(q)) \o SubSeq(s, q + 1, upTo(q + w)) = SubSeq(s, 1, upTo(q + w))
<1> DEFINE upTo(n) == IF Len(s) < n THEN Len(s) ELSE n
<1>0. Len(s) \in Nat
  BY LenProperties
<1>1. CASE Len(s) < q
  <2>1. upTo(q) = Len(s) /\ upTo(q + w) = Len(s)
    BY <1>0, <1>1
  <2>2. SubSeq(s, q + 1, Len(s)) = <<>>
    BY <1>0, <1>1, SubSeqEmpty
  <2>3. SubSeq(s, 1, Len(s)) \o <<>> = SubSeq(s, 1, Len(s))
    BY SubSeqFull, ConcatEmptySeq
  <2> QED
    BY <2>1, <2>2, <2>3
<1>2. CASE ~(Len(s) < q)
  <2>1. /\ upTo(q) = q /\ 1 \in 1 .. Len(s) + 1 /\ q \in 1 - 1 .. Len(s)
        /\ upTo(q + w) \in q .. Len(s)
    BY <1>0, <1>2
  <2> HIDE DEF upTo
  <2>2. SubSeq(s, 1, q) \o SubSeq(s, q + 1, upTo(q + w)) = SubSeq(s, 1, upTo(q + w))
    BY <1>0, <2>1, ConcatAdjacentSubSeq
  <2> QED
    BY <2>1, <2>2 DEF upTo
<1> QED
  BY <1>1, <1>2

LEMMA RowsInOrderStep ==
  ASSUME Typed, AnswersCurrent, PagesInOrder, TakenBefore, RowsInOrder, [Next]_vars
  PROVE  RowsInOrder'
<1> DEFINE n == Len(taken)
           T == [page : 0 .. MaxPage, ver : -1 .. MaxChanges + MaxActions]
           kept == Filtered(criteria)
           upTo(m) == IF Len(kept) < m THEN Len(kept) ELSE m
           q == n * PageSize
<1>0. /\ taken \in Seq(T) /\ n \in Nat /\ currentPage \in Nat /\ lastProcessedPage \in Int
      /\ Taken.page = currentPage /\ Key = <<criteria, currentPage>> /\ Key \in Keys
      /\ version \in Nat /\ kept \in Seq(Torrents) /\ Len(kept) \in Nat
      /\ PageSize \in Nat /\ hasLoadedAll \in BOOLEAN
  BY TypesAre, ConstantsAre, DataIs, FilteredKeeps, LenProperties
     DEF Typed, HookTypes, WorldTypes, Taken, Key, TypeOK
<1>q. q \in Nat /\ (n + 1) * PageSize = q + PageSize
  BY <1>0
<1> HIDE DEF T
<1>d. FromFirst => n > 0
  BY <1>0, EmptySeq DEF FromFirst
<1>1. CASE Commit
  <2> SUFFICES ASSUME FromFirst', \A i \in DOMAIN taken' : taken'[i].ver = version'
               PROVE  LET end == Len(taken') * PageSize
                      IN  allTorrents' = SubSeq(kept, 1, upTo(end)) /\ hasLoadedAll' = (Len(kept) <= end)
    BY <1>1 DEF RowsInOrder, Commit, Filtered
  <2>0. version' = version /\ (~Resets => criteria = seen)
    BY <1>1 DEF Commit, Resets
  \* Data of the present version are the answer to the query that is observed.
  <2>t. Taken.ver = version /\ ~SkipData
          => data = Answer(<<criteria, currentPage>>) /\ data \in Answers
    <3>1. SUFFICES ASSUME Taken.ver = version, ~SkipData
                   PROVE  data = Answer(<<criteria, currentPage>>) /\ data \in Answers
      OBVIOUS
    <3>2. ~isPlaceholderData /\ data.ver = version
      BY <1>0, <3>1 DEF Taken, Edited
    <3>3. data = cache[Key] /\ data \in Answers
      BY <3>1, <3>2, DataIs, TypesAre DEF Typed
    <3> QED
      BY <3>2, <3>3, <1>0 DEF AnswersCurrent, Current
  <2>1. CASE NothingTaken
    <3>1. ~Resets
      BY <2>1 DEF NothingTaken, FromFirst
    <3>2. UNCHANGED <<allTorrents, hasLoadedAll, taken>>
      BY <2>1, <3>1 DEF NothingTaken
    <3> QED
      BY <2>0, <3>1, <3>2 DEF RowsInOrder, FromFirst
  <2>2. CASE FirstTaken
    <3>0. /\ taken' = <<Taken>> /\ Len(taken') = 1 /\ currentPage = 0 /\ ~SkipData
          /\ allTorrents' = (IF data.total = 0 THEN <<>> ELSE data.rows)
          /\ hasLoadedAll' = (IF data.total = 0 THEN TRUE ELSE ~data.hasMore)
      BY <2>2 DEF FirstTaken
    <3>1. Taken.ver = version
      BY <2>0, <3>0
    <3>2. data = Answer(<<criteria, 0>>)
      BY <2>t, <3>0, <3>1
    <3>3. /\ data.total = Len(kept) /\ data.hasMore = (Len(kept) > PageSize)
          /\ data.rows = SubSeq(kept, 1, upTo(PageSize))
      <4>1. 0 * PageSize + 1 = 1 /\ (0 + 1) * PageSize = PageSize
        BY <1>0
      <4> QED
        BY <3>2, <4>1 DEF Answer
    <3> HIDE DEF kept
    <3>4. Len(taken') * PageSize = PageSize
      BY <3>0, <1>0
    <3>5. allTorrents' = SubSeq(kept, 1, upTo(PageSize))
      <4>1. CASE Len(kept) = 0
        BY <3>0, <3>3, <4>1, <1>0, SubSeqEmpty
      <4>2. CASE Len(kept) # 0
        BY <3>0, <3>3, <4>2
      <4> QED
        BY <4>1, <4>2
    <3>6. hasLoadedAll' = (Len(kept) <= PageSize)
      <4>1. (Len(kept) <= PageSize) = ~(Len(kept) > PageSize) /\ (Len(kept) = 0 => Len(kept) <= PageSize)
        BY <1>0
      <4> QED
        BY <3>0, <3>3, <4>1, Zenon
    <3> QED
      BY <3>4, <3>5, <3>6
  <2>3. CASE NextTaken
    <3>0. /\ ~SkipData /\ currentPage > 0 /\ currentPage # lastProcessedPage
      BY <2>3 DEF NextTaken
    <3>1. ~Resets /\ taken # <<>>
      <4>1. SUFFICES ASSUME Resets \/ taken = <<>> PROVE FALSE
        OBVIOUS
      <4>2. taken' = Append(<<>>, Taken)
        BY <2>3, <4>1, Zenon DEF NextTaken
      <4>3. taken'[1] = Taken
        BY <4>2
      <4> QED
        BY <4>3, <3>0, <1>0 DEF FromFirst
    <3>2. /\ taken' = Append(taken, Taken) /\ allTorrents' = allTorrents \o data.rows
          /\ hasLoadedAll' = (hasLoadedAll \/ ~data.hasMore)
      BY <2>3, <3>1, Zenon DEF NextTaken
    <3>3. /\ Len(taken') = n + 1 /\ taken'[n + 1] = Taken /\ FromFirst /\ n + 1 \in DOMAIN taken'
          /\ \A i \in DOMAIN taken : taken[i].ver = version
      <4>1. /\ Len(taken') = n + 1 /\ taken'[n + 1] = Taken /\ DOMAIN taken' = 1 .. n + 1
            /\ DOMAIN taken = 1 .. n /\ \A i \in 1 .. n : taken'[i] = taken[i]
        BY <3>2, <1>0
      <4>2. n > 0
        BY <3>1, <1>0, EmptySeq
      <4> QED
        BY <4>1, <4>2, <2>0, <3>1, <1>0 DEF FromFirst
    <3>4. currentPage = n /\ Taken.ver = version
      <4>1. Taken.ver = version
        BY <3>2, <3>3, <2>0, <1>0
      <4>2. currentPage = n
        BY <3>0, <3>3, <1>0 DEF PagesInOrder
      <4> QED
        BY <4>1, <4>2
    <3>5. data = Answer(<<criteria, n>>)
      BY <2>t, <3>0, <3>4
    <3>6. /\ data.hasMore = (Len(kept) > q + PageSize)
          /\ data.rows = SubSeq(kept, q + 1, upTo(q + PageSize))
      BY <3>5, <1>q DEF Answer
    <3>7. allTorrents = SubSeq(kept, 1, upTo(q)) /\ hasLoadedAll = (Len(kept) <= q)
      BY <2>0, <3>1, <3>3 DEF RowsInOrder
    <3> HIDE DEF kept, q
    <3>8. allTorrents' = SubSeq(kept, 1, upTo(q + PageSize))
      <4>1. SubSeq(kept, 1, upTo(q)) \o SubSeq(kept, q + 1, upTo(q + PageSize))
              = SubSeq(kept, 1, upTo(q + PageSize))
        BY <1>0, <1>q, JoinPages
      <4> QED
        BY <3>2, <3>6, <3>7, <4>1
    <3>9. hasLoadedAll' = (Len(kept) <= q + PageSize)
      <4>1. (Len(kept) <= q + PageSize) = (Len(kept) <= q \/ ~(Len(kept) > q + PageSize))
        BY <1>0, <1>q
      <4> QED
        BY <3>2, <3>6, <3>7, <4>1, Zenon
    <3> QED
      BY <3>3, <3>8, <3>9, <1>q
  <2> QED
    BY <1>1, <2>1, <2>2, <2>3, CommitCases, TypesAre DEF Typed
<1>2. CASE ~Commit
  <2>1. UNCHANGED <<taken, allTorrents, hasLoadedAll, seen>>
    BY <1>2, OtherSteps
  <2>2. CASE UNCHANGED <<server, version>>
    BY <2>1, <2>2 DEF RowsInOrder, FromFirst, Filtered
  <2>3. CASE version' = version + 1
    <3>1. FromFirst => 1 \in DOMAIN taken /\ taken[1].ver \in Int
      <4>1. \A t \in T : t.ver \in Int
        BY ConstantsAre DEF T
      <4>2. \A i \in 1 .. n : taken[i] \in T
        BY <1>0
      <4> QED
        BY <4>1, <4>2, <1>0, <1>d
    <3>2. FromFirst => taken[1].ver <= version
      BY <3>1 DEF TakenBefore
    <3> QED
      BY <2>1, <2>3, <3>1, <3>2, <1>0 DEF RowsInOrder, FromFirst
  <2> QED
    BY <2>2, <2>3, VersionSteps
<1> QED
  BY <1>1, <1>2
-----------------------------------------------------------------------------
(***************************************************************************)
(* The theorems.                                                           *)
(***************************************************************************)
LEMMA ListInvInit == Init => ListInv
<1> SUFFICES ASSUME Init PROVE ListInv
  OBVIOUS
<1>1. TypeOK /\ Counted
  BY TypesInit
<1>2. Replied /\ Committed
  BY DEF Init, Replied, Committed
<1>3. AnswersMatch /\ AnswersCurrent
  <2>1. \A k \in Keys : cache[k] = NoData /\ reply[k] = NoData
    BY DEF Init
  <2>2. \A X : ToSet(NoData.rows) \subseteq X
    BY NoDataIs, EmptySeq, InSeq
  <2>3. version = 0 /\ \A k \in Keys : NoData.ver = -1
    BY NoDataIs DEF Init
  <2> QED
    BY <2>1, <2>2, <2>3 DEF AnswersMatch, RowsOf, AnswersCurrent, Current
<1>4. Asked /\ Shown
  BY NoDataIs DEF Init, Asked, Shown
<1>5. PagesInOrder /\ TakenBefore /\ RowsInOrder
  BY EmptySeq DEF Init, PagesInOrder, TakenBefore, RowsInOrder, FromFirst
<1> QED
  BY <1>1, <1>2, <1>3, <1>4, <1>5 DEF ListInv

LEMMA ListInvStep == ListInv /\ [Next]_vars => ListInv'
<1> SUFFICES ASSUME ListInv, [Next]_vars PROVE ListInv'
  OBVIOUS
<1>1. TypeOK' /\ Counted'
  BY TypesStep DEF ListInv
<1>2. Replied' /\ Committed' /\ Asked'
  BY RepliedStep, CommittedStep, AskedStep DEF ListInv, Typed
<1>3. AnswersMatch' /\ Shown'
  BY AnswersMatchStep, ShownStep DEF ListInv, Typed
<1>4. AnswersCurrent' /\ PagesInOrder' /\ TakenBefore' /\ RowsInOrder'
  BY AnswersCurrentStep, PagesStep, TakenBeforeStep, RowsInOrderStep DEF ListInv, Typed
<1> QED
  BY <1>1, <1>2, <1>3, <1>4 DEF ListInv

\* The inductive invariant of the list.
THEOREM ListInvHolds == Spec => []ListInv
BY ListInvInit, ListInvStep, PTL DEF Spec

\* As long as the network was not lost, the rows of a list at rest match the
\* criteria on screen: the skipped placeholders of the data effect suffice.
THEOREM ListRowsMatch == Spec => []RowsMatchCriteria
<1>1. ListInv => RowsMatchCriteria
  BY EmptySeq, InSeq DEF ListInv, Committed, Shown, RowsMatchCriteria, RowsMatch
<1> QED
  BY <1>1, ListInvHolds, PTL

\* A list that begins with its first page, and whose pages were answered from the
\* server's present list, is the beginning of that list, and hasLoadedAll says
\* whether it is all of it: for any number of rows, pages, polls and failures.
THEOREM ListFollowsServer == Spec => []ListIsPrefix
<1>1. ListInv => ListIsPrefix
  <2> SUFFICES ASSUME ListInv, stage = "rest", currentPage = lastProcessedPage,
                      taken # <<>>, taken[1].page = 0,
                      \A i \in DOMAIN taken : taken[i].ver = version
               PROVE  LET kept == Filtered(criteria)
                          end == (currentPage + 1) * PageSize
                      IN  /\ allTorrents = SubSeq(kept, 1, IF Len(kept) < end THEN Len(kept) ELSE end)
                          /\ hasLoadedAll = (Len(kept) <= end)
    BY DEF ListIsPrefix
  <2>1. seen = criteria /\ FromFirst
    BY DEF ListInv, Committed, FromFirst
  <2>2. Len(taken) \in Nat /\ lastProcessedPage = Len(taken) - 1
    BY <2>1, TypesAre, LenProperties DEF ListInv, HookTypes, PagesInOrder
  <2>3. currentPage + 1 = Len(taken)
    BY <2>2
  <2> QED
    BY <2>1, <2>3 DEF ListInv, RowsInOrder
<1> QED
  BY <1>1, ListInvHolds, PTL

-----------------------------------------------------------------------------
(***************************************************************************)
(* The filters.                                                            *)
(***************************************************************************)
OwnGroups == Groups \ {"status"}

\* The shapes of filters, of what is stored of them and of a press.
IsFilters(f) == {"inc", "exc", "expr", "exp", "expx"} \subseteq DOMAIN f

IsOwn(o) == o = [inc |-> [g \in OwnGroups |-> o.inc[g]],
                 exc |-> [g \in OwnGroups |-> o.exc[g]], expr |-> o.expr]

IsStatus(s) == s = [inc |-> s.inc, exc |-> s.exc]

Types ==
  /\ inst \in Insts /\ IsFilters(filters) /\ (press.timer => IsFilters(press.was))
  /\ DOMAIN stored = Insts /\ DOMAIN chosen.own = Insts
  /\ \A i \in Insts : IsOwn(stored[i])
  /\ IsStatus(storedStatus)
  /\ {"box", "timer", "was", "toggles"} \subseteq DOMAIN press
  /\ commit \in {"rest", "commit"} /\ switched \in BOOLEAN /\ press.timer \in BOOLEAN
  /\ chosen.torn \in BOOLEAN

StoredIsChosen ==
  storedStatus = chosen.status /\ \A i \in Insts : stored[i] = chosen.own[i]

FiltersAreChosen ==
  /\ Own(filters) = chosen.own[inst] /\ Status(filters) = chosen.status
  /\ \A i \in Insts \ {inst} : stored[i] = chosen.own[i]

\* Between a switch and its effects only localStorage has what was chosen for the
\* instance; from then on the page has it, and at rest both have. A page that was loaded
\* anew in between may have neither.
Settled ==
  /\ switched => commit = "commit" /\ ~press.timer
  /\ ~chosen.torn => /\ switched => StoredIsChosen
                     /\ ~switched => FiltersAreChosen
                     /\ commit = "rest" => StoredIsChosen

\* A press that has toggled has set skipNextToggleRef for its click.
PressArmed ==
  /\ press.toggles \in {0, 1}
  /\ press.timer => press.toggles = 0
  /\ press.box # NoBox /\ press.toggles = 1 => skipNext = press.box

-----------------------------------------------------------------------------
(***************************************************************************)
(* Operators.                                                              *)
(***************************************************************************)
LEMMA ExpandKeeps ==
  ASSUME NEW f, IsFilters(f)
  PROVE  IsFilters(Expand(f)) /\ Own(Expand(f)) = Own(f) /\ Status(Expand(f)) = Status(f)
BY DEF Expand, IsFilters, Own, Status

LEMMA ToggleKeeps ==
  ASSUME NEW f, NEW b, IsFilters(f)
  PROVE  IsFilters(ExcludeToggle(f, b)) /\ IsFilters(IncludeToggle(f, b))
BY DEF ExcludeToggle, IncludeToggle, setState, IsFilters

LEMMA OwnIsOwn == \A f : IsOwn(Own(f)) /\ IsStatus(Status(f))
BY DEF IsOwn, Own, IsStatus, Status, OwnGroups

LEMMA LoadIsStored ==
  ASSUME NEW i \in Insts, IsOwn(stored[i]), IsStatus(storedStatus)
  PROVE  IsFilters(Load(i)) /\ Own(Load(i)) = stored[i] /\ Status(Load(i)) = storedStatus
<1>1. IsFilters(Load(i))
  BY DEF IsFilters, Load
<1>2. Status(Load(i)) = storedStatus
  BY DEF IsStatus, Status, Load, Groups
<1>3. Own(Load(i)) = [inc |-> [g \in OwnGroups |-> stored[i].inc[g]],
                      exc |-> [g \in OwnGroups |-> stored[i].exc[g]], expr |-> stored[i].expr]
  BY DEF Own, Load, OwnGroups, Groups
<1>4. Own(Load(i)) = stored[i]
  BY <1>3 DEF IsOwn
<1> QED BY <1>1, <1>2, <1>4

\* New filters are chosen for the instance they are set under.
LEMMA SetKeeps ==
  ASSUME Types, Settled, ~switched, switched' = switched, NEW f, IsFilters(f), SetFilters(f),
         UNCHANGED <<inst, persist>>
  PROVE  /\ IsFilters(filters') /\ DOMAIN chosen'.own = Insts /\ chosen'.torn = chosen.torn
         /\ commit' = "commit" /\ (~chosen.torn => FiltersAreChosen')
BY DEF Types, Settled, SetFilters, FiltersAreChosen, persist

LEMMA ClearedIsFilters ==
  /\ IsFilters(Empty) /\ IsFilters([Empty EXCEPT !.expr = TRUE])
  /\ \A f, g : IsFilters(f) => /\ IsFilters([f EXCEPT !.inc[g] = <<>>, !.exc[g] = <<>>])
                               /\ IsFilters([f EXCEPT !.expr = FALSE])
BY DEF IsFilters, Empty

-----------------------------------------------------------------------------
(***************************************************************************)
(* A press toggles once.                                                   *)
(***************************************************************************)
LEMMA PressStep ==
  ASSUME Types, PressArmed, [FiltersNext]_filterVars
  PROVE  PressArmed'
<1> USE DEF PressArmed
<1>a. CASE UNCHANGED touch
  BY <1>a DEF touch
<1>b. CASE press' = NoPress
  BY <1>b DEF NoPress
<1>c. CASE RunEffects \/ Clear \/ FilteredDataUpdate \/ CapabilitiesArrive \/ CategoryChange
           \/ filterCrossSeeds \/ CrossSeedAnswer
  BY <1>c, <1>a DEF RunEffects, Clear, FilteredDataUpdate, CapabilitiesArrive, CategoryChange,
                    filterCrossSeeds, CrossSeedAnswer
<1>d. CASE SwitchInstance \/ Reload
  BY <1>d, <1>b DEF SwitchInstance, Reload
<1>e. CASE PointerDown
  BY <1>e DEF PointerDown
<1>f. CASE LongPress
  BY <1>f DEF LongPress, Types
<1>g. CASE PointerEnd
  BY <1>g DEF PointerEnd, Types
<1>h. CASE Click
  <2>1. CASE press' = NoPress
    BY <2>1, <1>b
  <2>2. CASE /\ CheckboxChange(press.box)
             /\ press' = [press EXCEPT !.box = NoBox,
                            !.toggles = IF skipNext = press.box THEN @ ELSE @ + 1]
    BY <2>2, <1>h DEF Click, Types
  <2> QED BY <1>h, <2>1, <2>2 DEF Click
<1>i. CASE UNCHANGED filterVars
  BY <1>i, <1>a DEF filterVars
<1> QED BY <1>c, <1>d, <1>e, <1>f, <1>g, <1>h, <1>i DEF FiltersNext

-----------------------------------------------------------------------------
(***************************************************************************)
(* Filters belong to their instance.                                       *)
(***************************************************************************)
LEMMA SettledStep ==
  ASSUME Types, Settled, [FiltersNext]_filterVars
  PROVE  Types' /\ Settled'
<1>0. commit = "rest" => ~switched
  BY DEF Settled
<1>a. ASSUME UNCHANGED <<inst, filters, persist, switched, chosen, press>>,
             commit' \in {commit, "commit"}
      PROVE  Types' /\ Settled'
  BY <1>a DEF Types, Settled, StoredIsChosen, FiltersAreChosen, persist
<1>s. ASSUME ~switched, UNCHANGED <<inst, persist, switched>>, NEW f, IsFilters(f), SetFilters(f),
             {"box", "timer", "was", "toggles"} \subseteq DOMAIN press', press'.timer = FALSE
      PROVE  Types' /\ Settled'
  <2>1. /\ IsFilters(filters') /\ DOMAIN chosen'.own = Insts /\ chosen'.torn = chosen.torn
        /\ commit' = "commit" /\ (~chosen.torn => FiltersAreChosen')
    BY <1>s, SetKeeps
  <2>2. Types'
    BY <1>s, <2>1 DEF Types, persist
  <2>3. Settled'
    BY <1>s, <2>1 DEF Settled
  <2> QED BY <2>2, <2>3
<1>c. CASE RunEffects
  <2>0. /\ filters' = (IF switched THEN Load(inst) ELSE Expand(filters))
        /\ switched' = FALSE /\ UNCHANGED <<inst, press, chosen>>
        /\ storedStatus' = Status(filters)
        /\ stored' = [stored EXCEPT ![inst] = Own(filters)]
        /\ commit' = IF switched \/ filters' # filters THEN "commit" ELSE "rest"
    BY <1>c DEF RunEffects, Save, touch
  <2>1. CASE switched
    <3>1. IsFilters(filters') /\ Own(filters') = stored[inst] /\ Status(filters') = storedStatus
      BY <2>0, <2>1, LoadIsStored DEF Types
    <3>2. Types'
      BY <2>0, <2>1, <3>1, OwnIsOwn DEF Types
    <3>3. Settled'
      BY <2>0, <2>1, <3>1 DEF Types, Settled, StoredIsChosen, FiltersAreChosen
    <3> QED BY <3>2, <3>3
  <2>2. CASE ~switched
    <3>1. /\ IsFilters(filters') /\ Own(filters') = Own(filters)
          /\ Status(filters') = Status(filters)
      BY <2>0, <2>2, ExpandKeeps DEF Types
    <3>2. Types'
      BY <2>0, <2>2, <3>1, OwnIsOwn DEF Types
    <3>3. ~chosen.torn => FiltersAreChosen' /\ StoredIsChosen'
      BY <2>0, <2>2, <3>1 DEF Types, Settled, StoredIsChosen, FiltersAreChosen
    <3>4. Settled'
      BY <2>0, <3>3 DEF Settled
    <3> QED BY <3>2, <3>4
  <2> QED BY <2>1, <2>2 DEF Types
<1>d. CASE SwitchInstance
  <2>1. /\ inst' \in Insts /\ commit = "rest" /\ commit' = "commit" /\ switched' = TRUE
        /\ press' = NoPress /\ UNCHANGED <<filters, stored, storedStatus, chosen>>
    BY <1>d DEF SwitchInstance, persist
  <2>2. Types'
    BY <2>1 DEF Types, NoPress
  <2>3. Settled'
    BY <2>1 DEF Settled, StoredIsChosen, NoPress
  <2> QED BY <2>2, <2>3
<1>e. CASE Reload
  <2>1. /\ commit' = "commit" /\ switched' = TRUE /\ filters' = Load(inst)
        /\ press' = NoPress /\ UNCHANGED <<inst, stored, storedStatus>>
        /\ chosen'.status = chosen.status /\ chosen'.own = chosen.own
        /\ chosen'.torn = (chosen.torn \/ (commit = "commit" /\ ~switched))
    BY <1>e DEF Reload, persist
  <2>2. IsFilters(filters')
    BY <2>1, LoadIsStored DEF Types
  <2>3. Types'
    BY <2>1, <2>2 DEF Types, NoPress
  <2>4. Settled'
    BY <2>1 DEF Settled, StoredIsChosen, NoPress, Types
  <2> QED BY <2>3, <2>4
<1>f. CASE Clear
  <2>1. PICK f : IsFilters(f) /\ SetFilters(f)
    BY <1>f, ClearedIsFilters, ExpandKeeps DEF Clear, Types
  <2>2. /\ ~switched /\ press' = press /\ UNCHANGED <<inst, persist, switched>>
    BY <1>f, <1>0 DEF Clear, touch
  <2>3. CASE press.timer
    <3>1. Types' /\ Settled'
      <4>1. /\ IsFilters(filters') /\ DOMAIN chosen'.own = Insts /\ chosen'.torn = chosen.torn
            /\ commit' = "commit" /\ (~chosen.torn => FiltersAreChosen')
        BY <2>1, <2>2, SetKeeps
      <4> QED BY <4>1, <2>2 DEF Types, Settled, persist
    <3> QED BY <3>1
  <2>4. CASE ~press.timer
    <3>1. press'.timer = FALSE
      BY <2>2, <2>4 DEF Types
    <3> QED BY <2>1, <2>2, <3>1, <1>s DEF Types
  <2> QED BY <2>3, <2>4
<1>g. CASE PointerDown
  <2>0. ~switched /\ UNCHANGED <<inst, persist, switched>>
    BY <1>g, <1>0 DEF PointerDown
  <2>1. PICK b \in Boxes :
          \/ /\ SetFilters(Expand(ExcludeToggle(filters, b)))
             /\ press' = [box |-> b, timer |-> FALSE, was |-> 0, toggles |-> 1]
          \/ /\ press' = [box |-> b, timer |-> FALSE, was |-> 0, toggles |-> 0]
             /\ UNCHANGED <<filters, commit, chosen>>
          \/ /\ press' = [box |-> b, timer |-> TRUE, was |-> filters, toggles |-> 0]
             /\ UNCHANGED <<filters, commit, chosen>>
    BY <1>g DEF PointerDown
  <2>2. CASE /\ SetFilters(Expand(ExcludeToggle(filters, b)))
             /\ press' = [box |-> b, timer |-> FALSE, was |-> 0, toggles |-> 1]
    <3>1. IsFilters(Expand(ExcludeToggle(filters, b)))
      BY ToggleKeeps, ExpandKeeps DEF Types
    <3>2. {"box", "timer", "was", "toggles"} \subseteq DOMAIN press' /\ press'.timer = FALSE
      BY <2>2
    <3> QED BY <2>0, <2>2, <3>1, <3>2, <1>s
  <2>3. CASE /\ press' = [box |-> b, timer |-> FALSE, was |-> 0, toggles |-> 0]
             /\ UNCHANGED <<filters, commit, chosen>>
    BY <2>0, <2>3 DEF Types, Settled, StoredIsChosen, FiltersAreChosen, persist
  <2>4. CASE /\ press' = [box |-> b, timer |-> TRUE, was |-> filters, toggles |-> 0]
             /\ UNCHANGED <<filters, commit, chosen>>
    BY <2>0, <2>4 DEF Types, Settled, StoredIsChosen, FiltersAreChosen, persist
  <2> QED BY <2>1, <2>2, <2>3, <2>4
<1>h. CASE LongPress
  <2>0. ~switched /\ IsFilters(press.was) /\ UNCHANGED <<inst, persist, switched>>
    BY <1>h DEF LongPress, Settled, Types
  <2>1. IsFilters(Expand(ExcludeToggle(press.was, press.box)))
    BY <2>0, ToggleKeeps, ExpandKeeps
  <2>2. {"box", "timer", "was", "toggles"} \subseteq DOMAIN press' /\ press'.timer = FALSE
    BY <1>h DEF LongPress, Types
  <2>3. SetFilters(Expand(ExcludeToggle(press.was, press.box)))
    BY <1>h DEF LongPress
  <2> QED BY <2>0, <2>1, <2>2, <2>3, <1>s
<1>i. CASE PointerEnd
  <2>1. /\ UNCHANGED <<inst, filters, persist, commit, switched, chosen>> /\ press'.timer = FALSE
        /\ {"box", "timer", "was", "toggles"} \subseteq DOMAIN press'
    BY <1>i DEF PointerEnd, Types
  <2> QED BY <2>1 DEF Types, Settled, StoredIsChosen, FiltersAreChosen, persist
<1>j. CASE Click
  <2>0. /\ ~switched /\ press.timer = FALSE /\ UNCHANGED <<inst, persist, switched>>
    BY <1>j, <1>0 DEF Click, Types
  <2>1. press'.timer = FALSE /\ {"box", "timer", "was", "toggles"} \subseteq DOMAIN press'
    <3>1. CASE press' = NoPress
      BY <3>1 DEF NoPress
    <3>2. CASE press' = [press EXCEPT !.box = NoBox,
                           !.toggles = IF skipNext = press.box THEN @ ELSE @ + 1]
      BY <2>0, <3>2 DEF Types
    <3> QED BY <1>j, <3>1, <3>2 DEF Click
  <2>2. CASE UNCHANGED <<filters, commit, chosen>>
    BY <2>0, <2>1, <2>2 DEF Types, Settled, StoredIsChosen, FiltersAreChosen, persist
  <2>3. CASE SetFilters(Expand(IncludeToggle(filters, press.box)))
    <3>1. IsFilters(Expand(IncludeToggle(filters, press.box)))
      BY ToggleKeeps, ExpandKeeps DEF Types
    <3> QED BY <2>0, <2>1, <2>3, <3>1, <1>s
  <2> QED BY <1>j, <2>2, <2>3 DEF Click, CheckboxChange
<1>k. CASE FilteredDataUpdate \/ CapabilitiesArrive \/ CategoryChange \/ filterCrossSeeds
  BY <1>k, <1>a DEF FilteredDataUpdate, CapabilitiesArrive, CategoryChange, filterCrossSeeds,
                    touch, sidebar
<1>l. CASE CrossSeedAnswer
  <2>0. press' = press /\ UNCHANGED <<inst, persist, switched>>
    BY <1>l DEF CrossSeedAnswer, touch
  <2>1. CASE UNCHANGED <<filters, commit, chosen>>
    BY <2>0, <2>1, <1>a
  <2>2. CASE ~switched /\ SetFilters([Empty EXCEPT !.expr = TRUE])
    <3>1. /\ IsFilters(filters') /\ DOMAIN chosen'.own = Insts /\ chosen'.torn = chosen.torn
          /\ commit' = "commit" /\ (~chosen.torn => FiltersAreChosen')
      BY <2>0, <2>2, ClearedIsFilters, SetKeeps
    <3> QED BY <2>0, <2>2, <3>1 DEF Types, Settled, persist
  <2> QED BY <1>l, <2>1, <2>2 DEF CrossSeedAnswer
<1>m. CASE UNCHANGED filterVars
  BY <1>m, <1>a DEF filterVars, touch
<1> QED BY <1>c, <1>d, <1>e, <1>f, <1>g, <1>h, <1>i, <1>j, <1>k, <1>l, <1>m DEF FiltersNext

LEMMA ExpansionStep ==
  ASSUME Types, ExpansionFollows, [FiltersNext]_filterVars
  PROVE  ExpansionFollows'
<1> USE DEF ExpansionFollows
<1>a. ASSUME UNCHANGED <<filters, inst, names, capable>>, commit' \in {commit, "commit"}
      PROVE  ExpansionFollows'
  BY <1>a DEF expandCategoryList, allowSubcategories, categoryEntries
<1>b. CASE commit' = "commit"
  BY <1>b
<1>c. CASE RunEffects
  <2>1. CASE commit' = "commit"
    BY <2>1, <1>b
  <2>2. CASE commit' # "commit"
    <3>1. filters = Expand(filters) /\ UNCHANGED <<filters, inst, names, capable>>
      BY <2>2, <1>c DEF RunEffects, sidebar
    <3>2. /\ filters.exp = expandCategoryList(filters.inc["categories"])
          /\ filters.expx = expandCategoryList(filters.exc["categories"])
      BY <3>1 DEF Expand, Types, IsFilters
    <3> QED BY <3>1, <3>2 DEF expandCategoryList, allowSubcategories, categoryEntries
  <2> QED BY <2>1, <2>2
<1>d. CASE SwitchInstance \/ Reload \/ Clear \/ LongPress \/ FilteredDataUpdate \/ CapabilitiesArrive
  BY <1>d, <1>b DEF SwitchInstance, Reload, Clear, LongPress, FilteredDataUpdate,
                    CapabilitiesArrive, SetFilters
<1>e. CASE PointerDown \/ Click \/ CrossSeedAnswer
  BY <1>e, <1>a, <1>b DEF PointerDown, Click, CheckboxChange, CrossSeedAnswer, SetFilters, sidebar
<1>f. CASE PointerEnd \/ CategoryChange \/ filterCrossSeeds
  BY <1>f, <1>a DEF PointerEnd, CategoryChange, filterCrossSeeds, sidebar
<1>g. CASE UNCHANGED filterVars
  BY <1>g, <1>a DEF filterVars, sidebar
<1> QED BY <1>c, <1>d, <1>e, <1>f, <1>g DEF FiltersNext

LEMMA InvariantsInit == FiltersInit => Types /\ Settled /\ PressArmed /\ ExpansionFollows
<1> SUFFICES ASSUME FiltersInit PROVE Types /\ Settled /\ PressArmed /\ ExpansionFollows
  OBVIOUS
<1>1. Types
  BY OwnIsOwn, ClearedIsFilters DEF FiltersInit, Types, NoPress
<1>2. Settled
  BY DEF FiltersInit, Settled, StoredIsChosen, NoPress
<1>3. PressArmed
  BY DEF FiltersInit, PressArmed, NoPress
<1>4. ExpansionFollows
  BY DEF FiltersInit, ExpansionFollows
<1> QED BY <1>1, <1>2, <1>3, <1>4

\* The effects that load and save filters keep, for every instance, what was
\* chosen under it; presses toggle once; the expanded lists follow.
THEOREM InductiveInvariant == FiltersSpec => [](Types /\ Settled /\ PressArmed /\ ExpansionFollows)
<1>1. /\ Types /\ Settled /\ PressArmed /\ ExpansionFollows
      /\ [FiltersNext]_filterVars
      => (Types /\ Settled /\ PressArmed /\ ExpansionFollows)'
  BY SettledStep, PressStep, ExpansionStep
<1> QED BY <1>1, InvariantsInit, PTL DEF FiltersSpec

\* Once the effects have run the filters shown and stored are those last set for
\* each instance, unless the page was loaded anew before they had (usePersistedFilters).
THEOREM FiltersStayWithTheirInstance == FiltersSpec => []FiltersBelongToInstance
<1>1. Types /\ Settled => FiltersBelongToInstance
  BY DEF Types, Settled, StoredIsChosen, FiltersAreChosen, FiltersBelongToInstance
<1> QED BY <1>1, InductiveInvariant, PTL

\* A long press or a Ctrl press is not undone by its own click.
THEOREM PressesToggleOnce == FiltersSpec => []PressTogglesOnce
<1>1. PressArmed => PressTogglesOnce
  BY DEF PressArmed, PressTogglesOnce
<1> QED BY <1>1, InductiveInvariant, PTL

\* At rest the categories sent to the server are those chosen, with the
\* subcategories that are known.
THEOREM ExpansionFollowsTheCategories == FiltersSpec => []ExpansionFollows
BY InductiveInvariant, PTL
-----------------------------------------------------------------------------
(***************************************************************************)
(* The filters are lists of known values without doubles, and no value is  *)
(* both included and excluded.                                             *)
(***************************************************************************)
AllValues == Statuses \cup Categories \cup Trackers

ListsOf(g) == {s \in Seq(ValuesOf[g]) : Distinct(s)}

Apart(a, b, g) == a \in ListsOf(g) /\ b \in ListsOf(g) /\ ToSet(a) \cap ToSet(b) = {}

GoodFilters(f) ==
  /\ IsFilters(f)
  /\ f.inc \in [Groups -> Seq(AllValues)] /\ f.exc \in [Groups -> Seq(AllValues)]
  /\ \A g \in Groups : Apart(f.inc[g], f.exc[g], g)
  /\ ToSet(f.exp) \subseteq Categories /\ ToSet(f.expx) \subseteq Categories

GoodStore ==
  /\ \A i \in Insts : \A g \in OwnGroups : Apart(stored[i].inc[g], stored[i].exc[g], g)
  /\ Apart(storedStatus.inc, storedStatus.exc, "status")

Good ==
  /\ GoodFilters(filters) /\ GoodStore
  /\ press.timer => GoodFilters(press.was) /\ press.box \in Boxes
  /\ press.box \in Boxes \cup {NoBox} /\ skipNext \in Boxes \cup {NoBox}
  /\ names \subseteq Categories /\ \A i \in Insts : served[i] \subseteq Categories
  /\ DOMAIN served = Insts
  /\ lastInstanceId \in Insts \cup {0} /\ capable \in BOOLEAN /\ crossSeed \in Nat

LEMMA ValuesAre ==
  \A g \in Groups : ValuesOf[g] \subseteq AllValues /\ ListsOf(g) \subseteq Seq(AllValues)
<1>1. \A g \in Groups : ValuesOf[g] \subseteq AllValues
  BY DEF Groups, ValuesOf, AllValues
<1> QED
  BY <1>1, SeqMonotonic DEF ListsOf

LEMMA EmptyApart == \A g : Apart(<<>>, <<>>, g)
BY EmptySeq DEF Apart, ListsOf, Distinct, ToSet

\* Every finite set has a list of its members.
LEMMA SetHasList ==
  ASSUME NEW S, IsFiniteSet(S)
  PROVE  /\ SetToSeq(S) \in Seq(S) /\ Distinct(SetToSeq(S))
         /\ ToSet(SetToSeq(S)) \subseteq S
<1>1. PICK f \in [1 .. Cardinality(S) -> S] : IsInjective(f)
  <2>1. ExistsBijection(1 .. Cardinality(S), S)
    BY FS_CardinalityType
  <2> QED
    BY <2>1 DEF ExistsBijection, Bijection, Injection, IsInjective
<1>2. SetToSeq(S) \in [1 .. Cardinality(S) -> S] /\ IsInjective(SetToSeq(S))
  BY <1>1 DEF SetToSeq
<1>3. Cardinality(S) \in Nat
  BY FS_CardinalityType
<1> HIDE DEF SetToSeq
<1>4. SetToSeq(S) \in Seq(S) /\ Len(SetToSeq(S)) = Cardinality(S)
  BY <1>2, <1>3
<1> QED
  BY <1>2, <1>3, <1>4 DEF IsInjective, Distinct, ToSet

LEMMA WithAdds ==
  ASSUME NEW X, NEW s \in Seq(X), Distinct(s), NEW S \in SUBSET X, IsFiniteSet(S)
  PROVE  /\ With(s, S) \in Seq(X) /\ Distinct(With(s, S))
         /\ ToSet(With(s, S)) \subseteq ToSet(s) \cup S
<1> DEFINE R == S \ ToSet(s)
           t == SetToSeq(R)
<1>1. t \in Seq(R) /\ Distinct(t) /\ R \subseteq X
  <2>1. IsFiniteSet(R)
    BY FS_Subset
  <2> QED
    BY <2>1, SetHasList
<1>3. With(s, S) = s \o t
  BY DEF With
<1>r. \A x \in R : x \in S /\ x \notin ToSet(s)
  OBVIOUS
<1> HIDE DEF t, R
<1>2. t \in Seq(X) /\ \A j \in 1 .. Len(t) : t[j] \in S /\ t[j] \notin ToSet(s)
  <2>1. \A j \in 1 .. Len(t) : t[j] \in R
    BY <1>1
  <2>2. t \in Seq(X)
    BY <1>1, SeqMonotonic
  <2> QED
    BY <1>r, <2>1, <2>2
<1> DEFINE w == s \o t
<1>4. /\ w \in Seq(X) /\ Len(w) = Len(s) + Len(t) /\ Len(s) \in Nat /\ Len(t) \in Nat
      /\ \A i \in 1 .. Len(s) + Len(t) : w[i] = IF i <= Len(s) THEN s[i] ELSE t[i - Len(s)]
  BY <1>2, ConcatProperties, LenProperties
<1>5. \A i \in 1 .. Len(s) : s[i] \in ToSet(s)
  BY DEF ToSet
<1> HIDE DEF w
<1>6. Distinct(w)
  <2> SUFFICES ASSUME NEW i \in 1 .. Len(w), NEW j \in 1 .. Len(w), w[i] = w[j] PROVE i = j
    BY DEF Distinct
  <2>1. CASE i <= Len(s) /\ j <= Len(s)
    BY <1>4, <2>1 DEF Distinct
  <2>2. CASE i <= Len(s) /\ ~(j <= Len(s))
    <3>1. w[i] \in ToSet(s) /\ j - Len(s) \in 1 .. Len(t) /\ w[j] = t[j - Len(s)]
      BY <1>4, <1>5, <2>2
    <3> QED
      BY <1>2, <3>1
  <2>3. CASE ~(i <= Len(s)) /\ j <= Len(s)
    <3>1. w[j] \in ToSet(s) /\ i - Len(s) \in 1 .. Len(t) /\ w[i] = t[i - Len(s)]
      BY <1>4, <1>5, <2>3
    <3> QED
      BY <1>2, <3>1
  <2>4. CASE ~(i <= Len(s)) /\ ~(j <= Len(s))
    <3>1. /\ i - Len(s) \in 1 .. Len(t) /\ w[i] = t[i - Len(s)]
          /\ j - Len(s) \in 1 .. Len(t) /\ w[j] = t[j - Len(s)]
      BY <1>4, <2>4
    <3>2. i - Len(s) = j - Len(s)
      BY <1>1, <3>1 DEF Distinct
    <3> QED
      BY <3>2, <1>4
  <2> QED
    BY <2>1, <2>2, <2>3, <2>4
<1>7. ToSet(w) \subseteq ToSet(s) \cup S
  <2> SUFFICES ASSUME NEW i \in 1 .. Len(w) PROVE w[i] \in ToSet(s) \cup S
    BY <1>4 DEF ToSet
  <2>1. CASE i <= Len(s)
    BY <1>4, <1>5, <2>1
  <2>2. CASE ~(i <= Len(s))
    <3>1. i - Len(s) \in 1 .. Len(t) /\ w[i] = t[i - Len(s)]
      BY <1>4, <2>2
    <3> QED
      BY <1>2, <3>1
  <2> QED
    BY <2>1, <2>2
<1> QED
  BY <1>3, <1>4, <1>6, <1>7 DEF w

LEMMA DroppingRemoves ==
  ASSUME NEW X, NEW s \in Seq(X), Distinct(s), NEW S
  PROVE  /\ Dropping(s, S) \in Seq(X) /\ Distinct(Dropping(s, S))
         /\ ToSet(Dropping(s, S)) \subseteq ToSet(s) \ S
<1>1. Dropping(s, S) \in Seq(X) /\ Distinct(Dropping(s, S))
  BY KeepFilters, KeepDistinct DEF Dropping
<1>2. Dropping(s, S) \in Seq(X \cap (ToSet(s) \ S))
  BY KeepIn DEF Dropping
<1>3. ToSet(Dropping(s, S)) \subseteq X \cap (ToSet(s) \ S)
  BY <1>2 DEF ToSet
<1> QED
  BY <1>1, <1>3
-----------------------------------------------------------------------------
(***************************************************************************)
(* What the handlers make of good filters.                                 *)
(***************************************************************************)
LEMMA GoodToggle ==
  ASSUME NEW f, GoodFilters(f), NEW b \in Boxes, NEW state
  PROVE  GoodFilters(setState(f, b, state))
<1> DEFINE g == b.group
           S == b.values
           r == setState(f, b, state)
           newInc == IF state = "include" THEN With(f.inc[g], S) ELSE Dropping(f.inc[g], S)
           newExc == IF state = "exclude" THEN With(f.exc[g], S) ELSE Dropping(f.exc[g], S)
<1>1. g \in Groups /\ S \in SUBSET ValuesOf[g] /\ IsFiniteSet(S)
  BY FiltersAssumption
<1>2. /\ IsFilters(r)
      /\ r.inc = [f.inc EXCEPT ![g] = newInc] /\ r.exc = [f.exc EXCEPT ![g] = newExc]
      /\ r.exp = f.exp /\ r.expx = f.expx
  BY <1>1 DEF setState, GoodFilters, IsFilters
<1>3. /\ f.inc[g] \in Seq(ValuesOf[g]) /\ Distinct(f.inc[g])
      /\ f.exc[g] \in Seq(ValuesOf[g]) /\ Distinct(f.exc[g])
      /\ ToSet(f.inc[g]) \cap ToSet(f.exc[g]) = {}
  BY <1>1 DEF GoodFilters, Apart, ListsOf
<1>4. /\ newInc \in ListsOf(g)
      /\ ToSet(newInc) \subseteq IF state = "include" THEN ToSet(f.inc[g]) \cup S ELSE ToSet(f.inc[g]) \ S
  BY <1>1, <1>3, WithAdds, DroppingRemoves DEF ListsOf
<1>5. /\ newExc \in ListsOf(g)
      /\ ToSet(newExc) \subseteq IF state = "exclude" THEN ToSet(f.exc[g]) \cup S ELSE ToSet(f.exc[g]) \ S
  BY <1>1, <1>3, WithAdds, DroppingRemoves DEF ListsOf
<1> HIDE DEF newInc, newExc, r, g, S
<1>6. ToSet(newInc) \cap ToSet(newExc) = {}
  <2>1. CASE state = "include"
    BY <1>3, <1>4, <1>5, <2>1
  <2>2. CASE state # "include"
    BY <1>3, <1>4, <1>5, <2>2
  <2> QED
    BY <2>1, <2>2
<1>7. newInc \in Seq(AllValues) /\ newExc \in Seq(AllValues)
  BY <1>1, <1>4, <1>5, ValuesAre
<1>8. r.inc \in [Groups -> Seq(AllValues)] /\ r.exc \in [Groups -> Seq(AllValues)]
  BY <1>1, <1>2, <1>7 DEF GoodFilters
<1>9. \A h \in Groups : Apart(r.inc[h], r.exc[h], h)
  <2>1. ASSUME NEW h \in Groups, h = g PROVE Apart(r.inc[h], r.exc[h], h)
    BY <1>2, <1>4, <1>5, <1>6, <2>1 DEF Apart, GoodFilters
  <2>2. ASSUME NEW h \in Groups, h # g PROVE Apart(r.inc[h], r.exc[h], h)
    <3>1. r.inc[h] = f.inc[h] /\ r.exc[h] = f.exc[h]
      BY <1>2, <2>2 DEF GoodFilters
    <3> QED
      BY <3>1 DEF GoodFilters
  <2> QED
    BY <2>1, <2>2
<1> QED
  BY <1>2, <1>8, <1>9 DEF GoodFilters, r

LEMMA GoodToggles ==
  ASSUME NEW f, GoodFilters(f), NEW b \in Boxes
  PROVE  GoodFilters(IncludeToggle(f, b)) /\ GoodFilters(ExcludeToggle(f, b))
BY GoodToggle DEF IncludeToggle, ExcludeToggle

LEMMA GoodExpansion ==
  ASSUME NEW f, GoodFilters(f)
  PROVE  GoodFilters(Expand(f))
<1> DEFINE C == "categories"
<1>1. \A list \in Seq(Categories) : ToSet(expandCategoryList(list)) \subseteq Categories
  <2> SUFFICES ASSUME NEW list \in Seq(Categories)
               PROVE  ToSet(expandCategoryList(list)) \subseteq Categories
    OBVIOUS
  <2>1. categoryEntries \in Seq(Categories)
    BY FiltersAssumption, KeepFilters DEF categoryEntries, EntriesOf
  <2>2. Subcategories(categoryEntries, list) \in Seq(Categories)
    BY <2>1, KeepFilters DEF Subcategories
  <2>3. expandCategoryList(list) \in Seq(Categories)
    <3> DEFINE more == Subcategories(categoryEntries, list)
    <3> HIDE DEF more
    <3>1. list \o more \in Seq(Categories)
      BY <2>2 DEF more
    <3> QED
      BY <3>1, EmptySeq DEF expandCategoryList, more
  <2> QED
    BY <2>3 DEF ToSet
<1>2. f.inc[C] \in Seq(Categories) /\ f.exc[C] \in Seq(Categories)
  <2>1. C \in Groups /\ ValuesOf[C] = Categories
    BY DEF Groups, ValuesOf
  <2> QED
    BY <2>1 DEF GoodFilters, Apart, ListsOf
<1>3. /\ IsFilters(Expand(f)) /\ Expand(f).inc = f.inc /\ Expand(f).exc = f.exc
      /\ Expand(f).exp = expandCategoryList(f.inc[C])
      /\ Expand(f).expx = expandCategoryList(f.exc[C])
  BY DEF Expand, GoodFilters, IsFilters
<1> QED
  BY <1>1, <1>2, <1>3 DEF GoodFilters

LEMMA GoodCleared ==
  /\ GoodFilters(Empty) /\ GoodFilters([Empty EXCEPT !.expr = TRUE])
  /\ \A f : GoodFilters(f) =>
       /\ \A g \in Groups : GoodFilters([f EXCEPT !.inc[g] = <<>>, !.exc[g] = <<>>])
       /\ GoodFilters([f EXCEPT !.expr = FALSE])
<1>1. <<>> \in Seq(AllValues) /\ ToSet(<<>>) = {}
  BY EmptySeq DEF ToSet
<1>2. GoodFilters(Empty)
  BY <1>1, EmptyApart DEF GoodFilters, Empty, IsFilters
<1>3. GoodFilters([Empty EXCEPT !.expr = TRUE])
  BY <1>1, EmptyApart DEF GoodFilters, Empty, IsFilters
<1>4. ASSUME NEW f, GoodFilters(f), NEW g \in Groups
      PROVE  GoodFilters([f EXCEPT !.inc[g] = <<>>, !.exc[g] = <<>>])
  <2> DEFINE r == [f EXCEPT !.inc[g] = <<>>, !.exc[g] = <<>>]
  <2>1. /\ IsFilters(r) /\ r.exp = f.exp /\ r.expx = f.expx
        /\ r.inc = [f.inc EXCEPT ![g] = <<>>] /\ r.exc = [f.exc EXCEPT ![g] = <<>>]
    BY <1>4 DEF GoodFilters, IsFilters
  <2> HIDE DEF r
  <2>2. r.inc \in [Groups -> Seq(AllValues)] /\ r.exc \in [Groups -> Seq(AllValues)]
    BY <1>1, <1>4, <2>1 DEF GoodFilters
  <2>3. \A h \in Groups : Apart(r.inc[h], r.exc[h], h)
    BY <1>4, <2>1, EmptyApart DEF GoodFilters
  <2> QED
    BY <1>4, <2>1, <2>2, <2>3 DEF GoodFilters, r
<1>5. ASSUME NEW f, GoodFilters(f) PROVE GoodFilters([f EXCEPT !.expr = FALSE])
  BY <1>5 DEF GoodFilters, IsFilters
<1> QED
  BY <1>2, <1>3, <1>4, <1>5

LEMMA GoodLoad ==
  ASSUME GoodStore, NEW i \in Insts
  PROVE  GoodFilters(Load(i))
<1>1. \A g \in Groups : Apart(Load(i).inc[g], Load(i).exc[g], g)
  BY DEF GoodStore, Load, OwnGroups
<1>2. \A g \in Groups : Load(i).inc[g] \in Seq(AllValues) /\ Load(i).exc[g] \in Seq(AllValues)
  BY <1>1, ValuesAre DEF Apart
<1>3. Load(i).inc \in [Groups -> Seq(AllValues)] /\ Load(i).exc \in [Groups -> Seq(AllValues)]
  BY <1>2 DEF Load
<1>4. ToSet(Load(i).exp) = {} /\ ToSet(Load(i).expx) = {} /\ IsFilters(Load(i))
  BY DEF Load, ToSet, IsFilters
<1> QED
  BY <1>1, <1>3, <1>4 DEF GoodFilters

LEMMA GoodSave ==
  ASSUME GoodStore, DOMAIN stored = Insts, inst \in Insts, NEW f, GoodFilters(f), Save(f)
  PROVE  GoodStore'
<1>1. Apart(storedStatus'.inc, storedStatus'.exc, "status")
  BY DEF Save, Status, GoodFilters, Groups
<1>2. \A g \in OwnGroups : Apart(Own(f).inc[g], Own(f).exc[g], g)
  BY DEF Own, GoodFilters, OwnGroups
<1>3. \A i \in Insts : stored'[i] = IF i = inst THEN Own(f) ELSE stored[i]
  BY DEF Save
<1> QED
  BY <1>1, <1>2, <1>3 DEF GoodStore
\* One step keeps the filters good: what a press captured was good then.
LEMMA GoodStep ==
  ASSUME Types, Settled, Good, [FiltersNext]_filterVars
  PROVE  Good'
<1>0. (commit = "rest" => ~switched) /\ (switched => ~press.timer)
  BY DEF Settled
<1>p. NoPress.timer = FALSE /\ NoPress.box = NoBox
  BY DEF NoPress
<1>f. GoodFilters(filters)
  BY DEF Good
<1>a. ASSUME UNCHANGED <<filters, persist, touch>>,
             UNCHANGED <<names, served, lastInstanceId, capable, crossSeed>>
      PROVE  Good'
  BY <1>a DEF Good, GoodStore, persist, touch
<1>s. ASSUME NEW f, GoodFilters(f), filters' = f, UNCHANGED persist,
             UNCHANGED <<names, served, lastInstanceId, capable>>, crossSeed' \in Nat,
             press'.timer => GoodFilters(press'.was) /\ press'.box \in Boxes,
             press'.box \in Boxes \cup {NoBox}, skipNext' \in Boxes \cup {NoBox}
      PROVE  Good'
  BY <1>s DEF Good, GoodStore, persist
<1>1. CASE RunEffects
  <2>1. GoodFilters(filters')
    <3>1. CASE switched
      BY <1>1, <3>1, GoodLoad DEF RunEffects, Types, Good
    <3>2. CASE ~switched
      BY <1>1, <3>2, GoodExpansion DEF RunEffects, Good
    <3> QED
      BY <3>1, <3>2
  <2>2. GoodStore'
    BY <1>1, GoodSave DEF RunEffects, Types, Good
  <2>3. UNCHANGED <<press, skipNext, names, served, lastInstanceId, capable, crossSeed>>
    BY <1>1 DEF RunEffects, sidebar, touch
  <2> QED
    BY <2>1, <2>2, <2>3 DEF Good
<1>2. CASE SwitchInstance
  <2>1. /\ UNCHANGED <<filters, persist, lastInstanceId, names, served, crossSeed>>
        /\ capable' \in BOOLEAN /\ press' = NoPress /\ skipNext' = NoBox
    BY <1>2 DEF SwitchInstance
  <2>2. GoodStore'
    BY <2>1 DEF Good, GoodStore, persist
  <2> QED
    BY <1>p, <2>1, <2>2 DEF Good
<1>3. CASE Reload
  <2>1. /\ filters' = Load(inst) /\ UNCHANGED <<persist, served>>
        /\ lastInstanceId' = 0 /\ names' = {} /\ capable' = FALSE
        /\ press' = NoPress /\ skipNext' = NoBox /\ crossSeed' = 0
    BY <1>3 DEF Reload
  <2>2. GoodFilters(filters') /\ GoodStore'
    BY <2>1, GoodLoad DEF Good, GoodStore, persist, Types
  <2> QED
    BY <1>p, <2>1, <2>2 DEF Good
<1>4. CASE Clear
  <2>1. PICK f : GoodFilters(f) /\ SetFilters(f)
    BY <1>4, <1>f, GoodCleared, GoodExpansion DEF Clear
  <2>2. UNCHANGED <<persist, sidebar, served, touch, crossSeed>>
    BY <1>4 DEF Clear
  <2> QED
    BY <2>1, <2>2, <1>s DEF SetFilters, sidebar, touch, Good
<1>5. CASE PointerDown
  <2>u. UNCHANGED <<persist, sidebar, served, crossSeed>>
    BY <1>5 DEF PointerDown
  <2>1. PICK b \in Boxes :
       \/ /\ SetFilters(Expand(ExcludeToggle(filters, b)))
          /\ press' = [box |-> b, timer |-> FALSE, was |-> 0, toggles |-> 1]
          /\ skipNext' = b
       \/ /\ press' = [box |-> b, timer |-> FALSE, was |-> 0, toggles |-> 0]
          /\ skipNext' = NoBox /\ UNCHANGED <<filters, commit, chosen>>
       \/ /\ press' = [box |-> b, timer |-> TRUE, was |-> filters, toggles |-> 0]
          /\ skipNext' = NoBox /\ UNCHANGED <<filters, commit, chosen>>
    BY <1>5 DEF PointerDown
  <2>2. GoodFilters(Expand(ExcludeToggle(filters, b)))
    BY <1>f, GoodToggles, GoodExpansion
  <2>3. /\ GoodFilters(filters')
        /\ press'.timer => GoodFilters(press'.was) /\ press'.box \in Boxes
        /\ press'.box \in Boxes \cup {NoBox} /\ skipNext' \in Boxes \cup {NoBox}
    BY <1>f, <2>1, <2>2 DEF SetFilters
  <2> QED
    BY <2>u, <2>3, <1>s DEF sidebar, Good
<1>6. CASE LongPress
  <2>1. /\ press.timer /\ SetFilters(Expand(ExcludeToggle(press.was, press.box)))
        /\ skipNext' = press.box /\ UNCHANGED <<persist, sidebar, served, crossSeed>>
        /\ press'.timer = FALSE /\ press'.box = press.box
    BY <1>6 DEF LongPress, Types
  <2>2. GoodFilters(Expand(ExcludeToggle(press.was, press.box)))
    BY <2>1, GoodToggles, GoodExpansion DEF Good
  <2> QED
    BY <2>1, <2>2, <1>s DEF SetFilters, sidebar, Good
<1>7. CASE PointerEnd
  <2>1. /\ UNCHANGED <<filters, persist, sidebar, served, skipNext, crossSeed>>
        /\ press'.timer = FALSE /\ press'.box = press.box
    BY <1>7 DEF PointerEnd, Types
  <2> QED
    BY <2>1, <1>f, <1>s DEF sidebar, Good
<1>8. CASE Click
  <2>u. UNCHANGED <<persist, sidebar, served, crossSeed>> /\ press.box # NoBox /\ ~press.timer
    BY <1>8 DEF Click
  <2>1. CASE /\ CheckboxChange(press.box)
             /\ press' = [press EXCEPT !.box = NoBox,
                            !.toggles = IF skipNext = press.box THEN @ ELSE @ + 1]
    <3>1. press'.timer = FALSE /\ press'.box = NoBox
      BY <2>u, <2>1 DEF Types
    <3>2. GoodFilters(filters') /\ skipNext' = NoBox
      <4>1. GoodFilters(Expand(IncludeToggle(filters, press.box)))
        BY <1>f, <2>u, GoodToggles, GoodExpansion DEF Good
      <4> QED
        BY <1>f, <2>1, <4>1 DEF CheckboxChange, SetFilters
    <3> QED
      BY <2>u, <3>1, <3>2, <1>s DEF sidebar, Good
  <2>2. CASE press' = NoPress /\ UNCHANGED <<filters, commit, skipNext, chosen>>
    BY <1>f, <1>p, <2>u, <2>2, <1>s DEF sidebar, Good
  <2> QED
    BY <1>8, <2>1, <2>2 DEF Click
<1>9. CASE FilteredDataUpdate
  BY <1>9 DEF FilteredDataUpdate, Good, GoodStore, persist, touch, Types
<1>10. CASE CapabilitiesArrive
  BY <1>10 DEF CapabilitiesArrive, Good, GoodStore, persist, touch
<1>11. CASE CategoryChange
  <2>1. UNCHANGED <<filters, persist, sidebar, touch, crossSeed>>
    BY <1>11 DEF CategoryChange
  <2>2. DOMAIN served' = Insts /\ \A i \in Insts : served'[i] \subseteq Categories
    BY <1>11 DEF CategoryChange, Good
  <2> QED
    BY <2>1, <2>2 DEF Good, GoodStore, persist, sidebar, touch
<1>12. CASE filterCrossSeeds
  BY <1>12, <1>f, <1>s DEF filterCrossSeeds, sidebar, touch, Good
<1>13. CASE CrossSeedAnswer
  <2>1. GoodFilters(filters')
    BY <1>13, <1>f, GoodCleared DEF CrossSeedAnswer, SetFilters
  <2> QED
    BY <1>13, <2>1, <1>s DEF CrossSeedAnswer, sidebar, touch, Good
<1>14. CASE UNCHANGED filterVars
  BY <1>14, <1>a DEF filterVars, sidebar, Good
<1> QED
  BY <1>1, <1>2, <1>3, <1>4, <1>5, <1>6, <1>7, <1>8, <1>9, <1>10, <1>11, <1>12, <1>13, <1>14
  DEF FiltersNext

LEMMA GoodInit == FiltersInit => Good
<1> SUFFICES ASSUME FiltersInit PROVE Good
  OBVIOUS
<1>1. GoodStore
  <2>1. \A g \in Groups : Empty.inc[g] = <<>> /\ Empty.exc[g] = <<>>
    BY DEF Empty
  <2>2. \A g \in OwnGroups : Own(Empty).inc[g] = <<>> /\ Own(Empty).exc[g] = <<>>
    BY <2>1 DEF Own, OwnGroups
  <2>3. Status(Empty).inc = <<>> /\ Status(Empty).exc = <<>>
    BY <2>1 DEF Status, Groups
  <2> QED
    BY <2>2, <2>3, EmptyApart DEF FiltersInit, GoodStore
<1> QED
  BY <1>1, GoodCleared DEF FiltersInit, Good, NoPress

LEMMA GoodIsTyped == Types /\ Good => FiltersTypeOK /\ NeverBoth
<1> SUFFICES ASSUME Types, Good PROVE FiltersTypeOK /\ NeverBoth
  OBVIOUS
<1>1. \A list \in Seq(AllValues) : Distinct(list) => IsInjective(list)
  BY DEF Distinct, IsInjective
<1>2. \A g \in Groups : \A list \in {filters.inc[g], filters.exc[g]} :
         list \in Seq(AllValues) /\ IsInjective(list)
  BY <1>1, ValuesAre DEF Good, GoodFilters, Apart, ListsOf
<1>3. NeverBoth
  BY DEF NeverBoth, Good, GoodFilters, GoodStore, Apart, OwnGroups
<1>4. FiltersTypeOK
  BY <1>2 DEF FiltersTypeOK, Types, Good, GoodFilters, AllValues
<1> QED
  BY <1>3, <1>4

\* The filters, those stored and those a press has captured are lists without
\* doubles of the values of their group, and none is included and excluded.
THEOREM FiltersAreGood == FiltersSpec => []Good
<1>1. Good /\ (Types /\ Settled /\ PressArmed /\ ExpansionFollows) /\ [FiltersNext]_filterVars => Good'
  BY GoodStep
<1> QED
  BY <1>1, GoodInit, InductiveInvariant, PTL DEF FiltersSpec

\* The filters are lists of known values without doubles (setTrackerGroupState).
THEOREM FiltersTyped == FiltersSpec => []FiltersTypeOK
BY FiltersAreGood, InductiveInvariant, GoodIsTyped, PTL

\* No checkbox includes what another excludes (setTrackerGroupState, set*State).
THEOREM NeverIncludedAndExcluded == FiltersSpec => []NeverBoth
BY FiltersAreGood, InductiveInvariant, GoodIsTyped, PTL

-----------------------------------------------------------------------------
(***************************************************************************)
(* The page: a step of it is one of the list or one of the filters.        *)
(***************************************************************************)
LEMMA PageSteps == [PageNext]_pageVars => [Next]_vars /\ [FiltersNext]_filterVars
BY DEF PageNext, pageVars

\* The variables of the page range over their sets, and no value is both
\* included and excluded (setTrackerGroupState, set*State).
THEOREM PageTyped == PageSpec => []PageTypeOK
<1> DEFINE Inv == TypeOK /\ Counted /\ Types /\ Settled /\ PressArmed /\ ExpansionFollows /\ Good
<1>1. PageInit => Inv
  BY TypesInit, InvariantsInit, GoodInit DEF PageInit
<1>2. Inv /\ [PageNext]_pageVars => Inv'
  <2> SUFFICES ASSUME Inv, [Next]_vars, [FiltersNext]_filterVars PROVE Inv'
    BY PageSteps
  <2>1. (TypeOK /\ Counted)'
    BY TypesStep
  <2>2. (Types /\ Settled /\ PressArmed /\ ExpansionFollows)'
    BY SettledStep, PressStep, ExpansionStep
  <2>3. Good'
    BY GoodStep
  <2> QED
    BY <2>1, <2>2, <2>3
<1>3. Inv => PageTypeOK
  BY GoodIsTyped DEF PageTypeOK
<1> QED
  BY <1>1, <1>2, <1>3, PTL DEF PageSpec
================================================================================

---------------------------- MODULE TorrentsList ----------------------------
(***************************************************************************)
(* The paginated torrent list of the web interface: the hook               *)
(* useTorrentsList, the query cache of TanStack Query it reads (external), *)
(* and the optimistic deletion that useTorrentActions writes to that cache.*)
(*                                                                         *)
(* A query is keyed by the criteria (instance, filters, search and sort)   *)
(* and the page. React runs the two effects of the hook after every commit *)
(* and commits again while they change state: stage is "effects" from an   *)
(* event until the commits have come to rest, and no event is handled      *)
(* meanwhile. Answers are computed by the server at one moment and arrive  *)
(* at another, and the server's list moves on in between.                  *)
(***************************************************************************)
EXTENDS Integers, Sequences, SequencesExt, Keeping

CONSTANTS
  Torrents,      \* the torrents the server may know
  Start,         \* the server's list in the beginning, in display order
  Criteria,      \* the combinations of filters, search and sort
  Match,         \* Match[c]: the torrents criteria c lets through
  PageSize,      \* rows of a page (300 in the code)
  MaxPage,       \* bound: the last page the user scrolls to
  MaxSwitches,   \* bound: changes of the criteria
  MaxChanges,    \* bound: torrents the server gains or loses by itself
  MaxFailures,   \* bound: requests that fail after their retries
  MaxOutages,    \* bound: losses of the network
  MaxActions,    \* bound: torrent actions the user takes
  MaxEvents      \* bound: all of these together

ASSUME ListAssumption ==
  /\ \A c \in Criteria : Match[c] \subseteq Torrents
  /\ Start \in Seq(Torrents)
  /\ PageSize \in Nat \ {0}
  /\ {MaxPage, MaxSwitches, MaxChanges, MaxFailures, MaxOutages, MaxActions,
      MaxEvents} \subseteq Nat

VARIABLES
  server,        \* the server's list of torrents, in display order
  version,       \* how often it changed
  leaving,       \* torrents deleted by the user that the server still lists
  online, outages, failures,
  criteria,      \* what the page asks the hook for
  switches,      \* how often that changed
  seen,          \* the criteria the reset effect ran for last
  currentPage, allTorrents, hasLoadedAll, isLoadingMore, lastProcessedPage,
  taken,         \* history: page and version of the answers allTorrents is made of
  stage,         \* "rest" | "effects"
  cache,         \* cache[k]: the data of query k, or NoData
  error,         \* the queries that failed and have no data
  fetch,         \* fetch[k]: "idle" | "paused" | "sent" | "answered"
  reply,         \* reply[k]: the answer under way, or NoData
  observed,      \* the query the hook observes
  defined,       \* the last observed query that had data
  cross,         \* the unified view, whose answers carry crossInstanceTorrents
  deleting,      \* the row of the delete request under way, or None
  actions, due   \* torrent actions taken, and their delayed refetches to come

net    == <<online, outages, failures>>
hook   == <<currentPage, allTorrents, hasLoadedAll, isLoadingMore,
            lastProcessedPage, taken>>
query  == <<cache, error, fetch, reply>>
user   == <<switches, deleting, actions, due>>
vars   == <<server, version, leaving, net, criteria, seen, hook, stage, query,
            observed, defined, cross, user>>

Keys   == Criteria \X (0 .. MaxPage)
None   == "none"
NoKey  == <<None, -1>>
NoData == [rows |-> <<>>, total |-> -1, hasMore |-> FALSE, ver |-> -1]
Edited == -1     \* the version of a placeholder or an answer changed optimistically

(***************************************************************************)
(* What the server answers for a key, now.                                 *)
(***************************************************************************)
Filtered(c) == Keep(server, Match[c])

Answer(k) ==
  LET kept == Filtered(k[1])
  IN  [rows    |-> SubSeq(kept, k[2] * PageSize + 1,
                          IF Len(kept) < (k[2] + 1) * PageSize THEN Len(kept)
                          ELSE (k[2] + 1) * PageSize),
       total   |-> Len(kept),
       hasMore |-> Len(kept) > (k[2] + 1) * PageSize,
       ver     |-> version]

Answers ==
  [rows : UNION {[1 .. n -> Torrents] : n \in 0 .. PageSize},
   total : 0 .. Len(Start) + MaxChanges, hasMore : BOOLEAN,
   ver : -1 .. MaxChanges + MaxActions]

(***************************************************************************)
(* The query the hook observes. While a page after the first has no data   *)
(* and no error, the data of the last query that had some stands in.       *)
(***************************************************************************)
Key == <<criteria, currentPage>>

InFlight(k) == fetch[k] \notin {"idle", "paused"}

isPlaceholderData ==
  /\ cache[Key] = NoData
  /\ currentPage > 0
  /\ Key \notin error
  /\ defined # NoKey

data == IF isPlaceholderData THEN cache[defined] ELSE cache[Key]

isFetching == InFlight(Key) \/ (Key # observed /\ fetch[Key] = "idle" /\ online)

(***************************************************************************)
(* A fetch starts, or waits for the network, unless one is under way.      *)
(***************************************************************************)
Started(f, k) ==
  IF f[k] # "idle" THEN f
  ELSE [f EXCEPT ![k] = IF online THEN "sent" ELSE "paused"]

ErrorsAfterStart(k) ==
  IF fetch[k] = "idle" /\ cache[k] = NoData THEN error \ {k} ELSE error

More == version + failures + outages + actions < MaxEvents

Init ==
  /\ server = Start /\ version = 0 /\ leaving = {}
  /\ online = TRUE /\ outages = 0 /\ failures = 0
  /\ criteria \in Criteria /\ switches = 0 /\ seen = None
  /\ currentPage = 0 /\ allTorrents = <<>> /\ hasLoadedAll = FALSE
  /\ isLoadingMore = FALSE /\ lastProcessedPage = -1 /\ taken = <<>>
  /\ stage = "effects"
  /\ cache = [k \in Keys |-> NoData] /\ error = {}
  /\ fetch = [k \in Keys |-> "idle"] /\ reply = [k \in Keys |-> NoData]
  /\ observed = NoKey /\ defined = NoKey
  /\ cross \in BOOLEAN
  /\ deleting = None /\ actions = 0 /\ due = 0

(***************************************************************************)
(* The commit's effects, in the order of the hook: the reset, the          *)
(* subscription of useQuery, the data effect. All three see the state of   *)
(* the render; their updates are applied one after the other.              *)
(***************************************************************************)
Rendered == [page |-> currentPage, rows |-> allTorrents, whole |-> hasLoadedAll,
             more |-> isLoadingMore, last |-> lastProcessedPage, from |-> taken]

\* Mutant: the rows stay when the criteria change.
ResetEffectKeeping(s) ==
  IF criteria = seen THEN s ELSE [s EXCEPT !.page = 0, !.whole = FALSE, !.last = -1]

ResetEffect(s) ==
  IF criteria = seen THEN s
  ELSE [s EXCEPT !.page = 0, !.rows = <<>>, !.whole = FALSE, !.last = -1,
                 !.from = <<>>]

SkipData ==
  \/ isPlaceholderData /\ (lastProcessedPage = -1 \/ currentPage = 0)
  \/ currentPage > 0 /\ isFetching /\ isPlaceholderData
  \/ data = NoData

Taken == [page |-> currentPage, ver |-> IF isPlaceholderData THEN Edited ELSE data.ver]

\* Mutant: the first page leaves isLoadingMore set.
FirstPageStillLoading(s) ==
  [s EXCEPT !.rows = IF data.total = 0 THEN <<>> ELSE data.rows,
            !.whole = ~data.hasMore, !.last = 0, !.from = <<Taken>>]

FirstPage(s) ==
  IF data.total = 0
  THEN [s EXCEPT !.rows = <<>>, !.whole = TRUE, !.last = 0, !.more = FALSE,
                 !.from = <<Taken>>]
  ELSE [s EXCEPT !.rows = data.rows, !.whole = ~data.hasMore, !.more = FALSE,
                 !.last = IF lastProcessedPage # 0 THEN 0 ELSE @,
                 !.from = <<Taken>>]

\* Mutant: the last page does not end the list.
NextPageNeverWhole(s) ==
  [s EXCEPT !.last = currentPage, !.rows = @ \o data.rows, !.more = FALSE,
            !.from = Append(@, Taken)]

NextPage(s) ==
  [s EXCEPT !.last = currentPage, !.rows = @ \o data.rows, !.more = FALSE,
            !.whole = @ \/ ~data.hasMore,
            !.from = Append(@, Taken)]

\* Mutant: a page is taken once only, the first page too.
DataEffectOnce(s) ==
  CASE SkipData                                       -> s
    [] ~SkipData /\ currentPage = lastProcessedPage   -> [s EXCEPT !.more = FALSE]
    [] ~SkipData /\ currentPage # lastProcessedPage
       /\ currentPage = 0                             -> FirstPage(s)
    [] OTHER                                          -> NextPage(s)

DataEffect(s) ==
  CASE SkipData                         -> s
    [] ~SkipData /\ currentPage = 0     -> FirstPage(s)
    [] ~SkipData /\ currentPage > 0
       /\ currentPage # lastProcessedPage -> NextPage(s)
    [] OTHER                            -> [s EXCEPT !.more = FALSE]

Commit ==
  LET s == DataEffect(ResetEffect(Rendered))
  IN  /\ stage = "effects"
      /\ seen' = criteria
      /\ currentPage' = s.page /\ allTorrents' = s.rows /\ hasLoadedAll' = s.whole
      /\ isLoadingMore' = s.more /\ lastProcessedPage' = s.last /\ taken' = s.from
      /\ observed' = Key
      /\ defined' = IF cache[Key] # NoData THEN Key ELSE defined
      /\ fetch' = IF Key # observed THEN Started(fetch, Key) ELSE fetch
      /\ error' = IF Key # observed THEN ErrorsAfterStart(Key) ELSE error
      /\ stage' = IF s # Rendered \/ criteria # seen \/ Key # observed
                  THEN "effects" ELSE "rest"
      /\ UNCHANGED <<server, version, leaving, net, criteria, cache, reply, cross,
                     user>>

(***************************************************************************)
(* The user.                                                               *)
(***************************************************************************)
ChangeCriteria ==
  /\ stage = "rest"
  /\ switches < MaxSwitches /\ switches' = switches + 1
  /\ \E c \in Criteria \ {criteria} : criteria' = c
  /\ stage' = "effects"
  /\ UNCHANGED <<server, version, leaving, net, seen, hook, query, observed,
                 defined, cross, deleting, actions, due>>

\* The table and the cards ask for more when their last rendered row comes into
\* sight, so never while the list is empty.
LastRowInSight == allTorrents # <<>>

loadMore ==
  /\ stage = "rest" /\ LastRowInSight
  /\ ~hasLoadedAll
  /\ ~(isLoadingMore \/ isFetching)
  /\ currentPage < MaxPage
  /\ isLoadingMore' = TRUE
  /\ currentPage' = currentPage + 1
  /\ stage' = "effects"
  /\ UNCHANGED <<server, version, leaving, net, criteria, seen, allTorrents,
                 hasLoadedAll, lastProcessedPage, taken, query, observed, defined,
                 cross, user>>

(***************************************************************************)
(* Requests: the poll and the focus of the first page, the refetch that    *)
(* follows a torrent action, and the way of a request and its answer.      *)
(***************************************************************************)
Poll ==
  /\ stage = "rest"
  /\ currentPage = 0
  /\ fetch[Key] = "idle"
  /\ fetch' = Started(fetch, Key) /\ error' = ErrorsAfterStart(Key)
  /\ UNCHANGED <<server, version, leaving, net, criteria, seen, hook, stage, cache,
                 reply, observed, defined, cross, user>>

Refetch ==
  /\ stage = "rest"
  /\ due > 0
  /\ due' = due - 1
  /\ fetch' = IF InFlight(Key) /\ cache[Key] # NoData
              THEN [fetch EXCEPT ![Key] = IF online THEN "sent" ELSE "paused"]
              ELSE Started(fetch, Key)
  /\ reply' = IF InFlight(Key) /\ cache[Key] # NoData
              THEN [reply EXCEPT ![Key] = NoData] ELSE reply
  /\ error' = ErrorsAfterStart(Key)
  /\ stage' = "effects"
  /\ UNCHANGED <<server, version, leaving, net, criteria, seen, hook, cache,
                 observed, defined, cross, switches, deleting, actions>>

Serve(k) ==
  /\ fetch[k] = "sent" /\ online
  /\ fetch' = [fetch EXCEPT ![k] = "answered"]
  /\ reply' = [reply EXCEPT ![k] = Answer(k)]
  /\ UNCHANGED <<server, version, leaving, net, criteria, seen, hook, stage, cache,
                 error, observed, defined, cross, user>>

Arrive(k) ==
  /\ stage = "rest"
  /\ fetch[k] = "answered"
  /\ cache' = [cache EXCEPT ![k] = reply[k]]
  /\ error' = error \ {k}
  /\ fetch' = [fetch EXCEPT ![k] = "idle"] /\ reply' = [reply EXCEPT ![k] = NoData]
  /\ stage' = IF k = Key THEN "effects" ELSE "rest"
  /\ UNCHANGED <<server, version, leaving, net, criteria, seen, hook, observed,
                 defined, cross, user>>

Fail(k) ==
  /\ stage = "rest"
  /\ InFlight(k)
  /\ failures < MaxFailures /\ More
  /\ failures' = failures + 1
  /\ fetch' = [fetch EXCEPT ![k] = IF online THEN "idle" ELSE "paused"]
  /\ reply' = [reply EXCEPT ![k] = NoData]
  /\ error' = IF online /\ cache[k] = NoData THEN error \cup {k} ELSE error
  /\ stage' = IF k = Key THEN "effects" ELSE "rest"
  /\ UNCHANGED <<server, version, leaving, online, outages, criteria, seen, hook,
                 cache, observed, defined, cross, user>>

Collect(k) ==
  /\ stage = "rest"
  /\ k \notin {Key, defined} /\ fetch[k] = "idle" /\ cache[k] # NoData
  /\ cache' = [cache EXCEPT ![k] = NoData] /\ error' = error \ {k}
  /\ UNCHANGED <<server, version, leaving, net, criteria, seen, hook, stage, fetch,
                 reply, observed, defined, cross, user>>

LoseNetwork ==
  /\ online /\ outages < MaxOutages /\ More
  /\ online' = FALSE /\ outages' = outages + 1
  /\ UNCHANGED <<server, version, leaving, failures, criteria, seen, hook, stage,
                 query, observed, defined, cross, user>>

Reconnect ==
  /\ stage = "rest" /\ ~online
  /\ online' = TRUE
  /\ fetch' = [k \in Keys |-> IF fetch[k] = "paused"
                                \/ (k = Key /\ fetch[k] = "idle")
                              THEN "sent" ELSE fetch[k]]
  /\ error' = ErrorsAfterStart(Key)
  /\ stage' = "effects"
  /\ UNCHANGED <<server, version, leaving, outages, failures, criteria, seen, hook,
                 cache, reply, observed, defined, cross, user>>

(***************************************************************************)
(* Torrent actions: the request, the optimistic removal from every cached  *)
(* list when a deletion succeeds, and the delayed refetch. The list of the *)
(* server loses the torrent when qBittorrent's next sync says so.          *)
(***************************************************************************)
DeleteRequest(t) ==
  /\ stage = "rest" /\ deleting = None /\ actions < MaxActions /\ More
  /\ t \in ToSet(allTorrents)
  /\ deleting' = t /\ actions' = actions + 1
  /\ leaving' = leaving \cup {t}
  /\ UNCHANGED <<server, version, net, criteria, seen, hook, stage, query, observed,
                 defined, cross, switches, due>>

Without(d, t) ==
  IF d = NoData THEN d
  ELSE [d EXCEPT !.rows = IF cross THEN @ ELSE Keep(@, Torrents \ {t}),
                 !.total = IF @ > 0 THEN @ - 1 ELSE 0, !.ver = Edited]

DeleteSuccess ==
  /\ stage = "rest" /\ deleting # None
  /\ cache' = [k \in Keys |-> Without(cache[k], deleting)]
  /\ deleting' = None /\ due' = due + 1
  /\ stage' = "effects"
  /\ UNCHANGED <<server, version, leaving, net, criteria, seen, hook, error, fetch,
                 reply, observed, defined, cross, switches, actions>>

OtherAction ==
  /\ stage = "rest" /\ actions < MaxActions /\ More
  /\ actions' = actions + 1 /\ due' = due + 1
  /\ UNCHANGED <<server, version, leaving, net, criteria, seen, hook, stage, query,
                 observed, defined, cross, switches, deleting>>

(***************************************************************************)
(* The server's list moves: a deletion takes effect, a torrent is added in *)
(* front of the others (the default order is newest first) or goes away.   *)
(***************************************************************************)
ServerDelete ==
  /\ \E t \in leaving :
       /\ server' = Keep(server, Torrents \ {t})
       /\ leaving' = leaving \ {t}
  /\ version' = version + 1
  /\ UNCHANGED <<net, criteria, seen, hook, stage, query, observed, defined, cross,
                 user>>

ServerChange ==
  /\ version < MaxChanges /\ More
  /\ \/ \E t \in Torrents \ (ToSet(server) \cup leaving) : server' = <<t>> \o server
     \/ \E t \in ToSet(server) \ leaving :
          server' = Keep(server, Torrents \ {t})
  /\ version' = version + 1
  /\ UNCHANGED <<leaving, net, criteria, seen, hook, stage, query, observed, defined,
                 cross, user>>

Requests == \E k \in Keys : Serve(k) \/ Arrive(k) \/ Fail(k) \/ Collect(k)

Next ==
  \/ Commit \/ ChangeCriteria \/ loadMore \/ Poll \/ Refetch \/ Requests
  \/ LoseNetwork \/ Reconnect
  \/ \E t \in Torrents : DeleteRequest(t)
  \/ DeleteSuccess \/ OtherAction \/ ServerDelete \/ ServerChange

(***************************************************************************)
(* React commits, timers fire, requests end, the network comes back and a  *)
(* deletion takes effect. Nothing obliges the user or the server's clients.*)
(***************************************************************************)
Fairness ==
  /\ WF_vars(Commit) /\ WF_vars(Poll) /\ WF_vars(Refetch) /\ WF_vars(Reconnect)
  /\ WF_vars(DeleteSuccess) /\ WF_vars(ServerDelete)
  /\ \A k \in Keys : WF_vars(Serve(k)) /\ WF_vars(Arrive(k))

Spec == Init /\ [][Next]_vars /\ Fairness
-----------------------------------------------------------------------------
(* The variables range over these sets. *)
TypeOK ==
  /\ server \in Seq(Torrents) /\ version \in 0 .. MaxChanges + MaxActions
  /\ leaving \subseteq Torrents
  /\ online \in BOOLEAN /\ outages \in 0 .. MaxOutages
  /\ failures \in 0 .. MaxFailures
  /\ criteria \in Criteria /\ switches \in 0 .. MaxSwitches /\ seen \in Criteria \cup {None}
  /\ currentPage \in 0 .. MaxPage /\ lastProcessedPage \in -1 .. MaxPage
  /\ allTorrents \in Seq(Torrents)
  /\ hasLoadedAll \in BOOLEAN /\ isLoadingMore \in BOOLEAN
  /\ taken \in Seq([page : 0 .. MaxPage, ver : -1 .. MaxChanges + MaxActions])
  /\ stage \in {"rest", "effects"}
  /\ cache \in [Keys -> Answers \cup {NoData}]
  /\ error \subseteq Keys
  /\ fetch \in [Keys -> {"idle", "paused", "sent", "answered"}]
  /\ reply \in [Keys -> Answers \cup {NoData}]
  /\ observed \in Keys \cup {NoKey} /\ defined \in Keys \cup {NoKey}
  /\ cross \in BOOLEAN /\ deleting \in Torrents \cup {None}
  /\ actions \in 0 .. MaxActions /\ due \in 0 .. MaxActions

(***************************************************************************)
(* Once the commits are at rest every row of the list matches the criteria *)
(* on screen, whatever answers of earlier criteria are cached or under way *)
(* (the comment on the data effect).                                       *)
(***************************************************************************)
RowsMatch == stage = "rest" => ToSet(allTorrents) \subseteq Match[criteria]

(***************************************************************************)
(* That is so as long as the network was never lost.                       *)
(***************************************************************************)
RowsMatchCriteria == outages = 0 => RowsMatch

(***************************************************************************)
(* A list that begins with its first page is the beginning of the server's *)
(* list, without gap or repetition, when all its pages were answered from  *)
(* the present one, and hasLoadedAll says exactly whether anything is left:*)
(* for any order of polls, further pages, failures and outages.            *)
(***************************************************************************)
ListIsPrefix ==
  (/\ stage = "rest" /\ currentPage = lastProcessedPage
   /\ taken # <<>> /\ taken[1].page = 0
   /\ \A i \in DOMAIN taken : taken[i].ver = version) =>
      LET kept == Filtered(criteria)
          end == (currentPage + 1) * PageSize
      IN  /\ allTorrents = SubSeq(kept, 1, IF Len(kept) < end THEN Len(kept) ELSE end)
          /\ hasLoadedAll = (Len(kept) <= end)

(***************************************************************************)
(* A list begins with its first page.                                      *)
(***************************************************************************)
FirstPageFirst == stage = "rest" /\ taken # <<>> => taken[1].page = 0

(***************************************************************************)
(* A load that began ends, unless the request of its page failed: no       *)
(* change of criteria, no cancelled answer and no outage leaves the flag   *)
(* set that loadMore waits for.                                            *)
(***************************************************************************)
LoadingEnds == isLoadingMore ~> (~isLoadingMore \/ Key \in error)

(***************************************************************************)
(* While the user stays on the first page, the poll brings the list to the *)
(* server's state and keeps it there.                                      *)
(***************************************************************************)
FirstPageConverges ==
  <>[](currentPage = 0) => <>[](allTorrents = Answer(<<criteria, 0>>).rows)

(***************************************************************************)
(* A deleted torrent leaves the list, as the optimistic update and the     *)
(* refetch that follow a deletion intend.                                  *)
(***************************************************************************)
DeletedRowsLeave ==
  \A t \in Torrents :
    (deleting = t) ~> (t \notin ToSet(allTorrents) \/ t \in ToSet(server) \ leaving)
=============================================================================

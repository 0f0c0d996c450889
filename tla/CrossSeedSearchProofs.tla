------------------------- MODULE CrossSeedSearchProofs -------------------------
(***************************************************************************)
(* Theorems about the manual cross-seed search: the dialog, its requests   *)
(* and the server's caches implement CrossSeedPromise, for any number of   *)
(* torrents, results, requests, clicks and faults.                         *)
(***************************************************************************)
EXTENDS CrossSeedSearch, TLAPS

Kinds == {"idle", "analyze", "search", "apply", "status", "refine"}
Stages == {"sent", "answered", "failed", "adding"}

Requests == [kind : Kinds, torrent : Torrents \cup {NoTorrent}, stage : Stages,
             picks : SUBSET Results, done : BOOLEAN]

Responses == [src : Torrents \cup {NoTorrent}, done : BOOLEAN, results : SUBSET Results]

Types ==
    /\ open \in BOOLEAN /\ torrent \in Torrents \cup {NoTorrent}
    /\ resp \in Responses /\ selected \subseteq Results
    /\ polling \in Torrents \cup {NoTorrent}
    /\ reqs \in [Slots -> Requests]
    /\ cache \in [Torrents -> SUBSET Results]

\* An open dialog and every request under way are about a torrent.
AboutTorrents ==
    /\ open => torrent \in Torrents
    /\ \A i \in Slots : reqs[i].kind # "idle" => reqs[i].torrent \in Torrents

\* Only the request of Add Selected adds anything.
OnlyApplyAdds == \A i \in Slots : reqs[i].stage = "adding" => reqs[i].kind = "apply"

Inductive == Types /\ AboutTorrents /\ OnlyApplyAdds

-----------------------------------------------------------------------------
(***************************************************************************)
(* The invariant.                                                          *)
(***************************************************************************)
LEMMA InductiveInit == Init => Inductive
<1> SUFFICES ASSUME Init PROVE Inductive
  OBVIOUS
<1>1. NoResp \in Responses /\ Idle \in Requests
  BY DEF NoResp, Responses, Idle, Requests, Kinds, Stages
<1>2. Types
  BY <1>1 DEF Init, Types
<1>3. \A i \in Slots : reqs[i] = Idle
  BY DEF Init
<1>4. AboutTorrents /\ OnlyApplyAdds
  BY <1>3 DEF Init, AboutTorrents, OnlyApplyAdds, Idle
<1> QED BY <1>2, <1>4 DEF Inductive

LEMMA RequestIsNew ==
  ASSUME NEW kind \in Kinds, NEW t \in Torrents, NEW picks \in SUBSET Results
  PROVE  /\ Request(kind, t, picks) \in Requests
         /\ Request(kind, t, picks).torrent = t
         /\ Request(kind, t, picks).stage = "sent"
BY DEF Request, Idle, Requests, Kinds, Stages

\* A request that is sent.
LEMMA SendKeeps ==
  ASSUME Inductive, NEW i \in Slots, NEW kind \in Kinds, NEW t \in Torrents,
         NEW picks \in SUBSET Results, Send(i, kind, t, picks)
  PROVE  /\ reqs' \in [Slots -> Requests]
         /\ \A j \in Slots : reqs'[j].kind # "idle" => reqs'[j].torrent \in Torrents
         /\ OnlyApplyAdds'
<1> DEFINE q == Request(kind, t, picks)
<1>1. q \in Requests /\ q.torrent = t /\ q.stage = "sent"
  BY RequestIsNew
<1> HIDE DEF q
<1>2. reqs' = [reqs EXCEPT ![i] = q] /\ reqs \in [Slots -> Requests]
  BY DEF Send, Inductive, Types, q
<1>3. reqs' \in [Slots -> Requests]
  BY <1>1, <1>2
<1>4. \A j \in Slots : reqs'[j] = IF j = i THEN q ELSE reqs[j]
  BY <1>2
<1>5. \A j \in Slots : reqs'[j].kind # "idle" => reqs'[j].torrent \in Torrents
  BY <1>1, <1>4 DEF Inductive, AboutTorrents
<1>6. OnlyApplyAdds'
  BY <1>1, <1>4 DEF Inductive, OnlyApplyAdds
<1> QED BY <1>3, <1>5, <1>6

\* A request that the server has gone on with.
LEMMA ServeKeeps ==
  ASSUME Inductive, NEW i \in Slots, NEW q \in Requests,
         reqs' = [reqs EXCEPT ![i] = q],
         q.kind = reqs[i].kind, q.torrent = reqs[i].torrent,
         q.stage = "adding" => q.kind = "apply"
  PROVE  /\ reqs' \in [Slots -> Requests]
         /\ \A j \in Slots : reqs'[j].kind # "idle" => reqs'[j].torrent \in Torrents
         /\ OnlyApplyAdds'
<1>2. reqs \in [Slots -> Requests]
  BY DEF Inductive, Types
<1>3. reqs' \in [Slots -> Requests]
  BY <1>2
<1>4. \A j \in Slots : reqs'[j] = IF j = i THEN q ELSE reqs[j]
  BY <1>2
<1>5. \A j \in Slots : reqs'[j].kind # "idle" => reqs'[j].torrent \in Torrents
  BY <1>4 DEF Inductive, AboutTorrents
<1>6. OnlyApplyAdds'
  BY <1>4 DEF Inductive, OnlyApplyAdds
<1> QED BY <1>3, <1>5, <1>6

\* An answered request.
LEMMA AnswerKeeps ==
  ASSUME Inductive, NEW i \in Slots, NEW done \in BOOLEAN, NEW picks \in SUBSET Results,
         Answer(i, done, picks)
  PROVE  /\ reqs' \in [Slots -> Requests]
         /\ \A j \in Slots : reqs'[j].kind # "idle" => reqs'[j].torrent \in Torrents
         /\ OnlyApplyAdds'
<1> DEFINE q == [reqs[i] EXCEPT !.stage = "answered", !.done = done, !.picks = picks]
<1>0. reqs \in [Slots -> Requests] /\ reqs[i] \in Requests
  BY DEF Inductive, Types
<1>1. /\ q \in Requests /\ q.kind = reqs[i].kind /\ q.torrent = reqs[i].torrent
      /\ q.stage = "answered"
  BY <1>0 DEF Requests, Stages
<1>2. reqs' = [reqs EXCEPT ![i] = q]
  BY <1>0 DEF Answer
<1> HIDE DEF q
<1> QED BY <1>1, <1>2, ServeKeeps

LEMMA PollKeeps ==
  ASSUME PollEffect, resp' \in Responses
  PROVE  polling' \in Torrents \cup {NoTorrent}
BY DEF PollEffect, Responses

LEMMA UserKeeps == Inductive /\ User => Inductive'
<1> SUFFICES ASSUME Inductive, User PROVE Inductive'
  OBVIOUS
<1> USE DEF Inductive
<1>0. NoResp \in Responses
  BY DEF NoResp, Responses
<1>1. ASSUME NEW i \in Slots, NEW t \in Torrents, handleCrossSeedSearch(t, i) PROVE Inductive'
  <2>1. /\ reqs' \in [Slots -> Requests] /\ OnlyApplyAdds'
        /\ \A j \in Slots : reqs'[j].kind # "idle" => reqs'[j].torrent \in Torrents
    BY <1>1, SendKeeps DEF handleCrossSeedSearch, Kinds
  <2>2. /\ open' = TRUE /\ torrent' = t /\ resp' = NoResp /\ selected' = {} /\ cache' = cache
        /\ PollEffect
    BY <1>1 DEF handleCrossSeedSearch, server
  <2>3. polling' \in Torrents \cup {NoTorrent}
    BY <2>2, <1>0, PollKeeps
  <2>4. Types'
    BY <2>1, <2>2, <2>3, <1>0 DEF Types
  <2> QED BY <2>1, <2>2, <2>4 DEF AboutTorrents
<1>2. ASSUME NEW i \in Slots, runCrossSeedSearch(i) PROVE Inductive'
  <2>0. torrent \in Torrents
    BY <1>2 DEF runCrossSeedSearch, CanSearch, AboutTorrents
  <2>1. /\ reqs' \in [Slots -> Requests] /\ OnlyApplyAdds'
        /\ \A j \in Slots : reqs'[j].kind # "idle" => reqs'[j].torrent \in Torrents
    BY <1>2, <2>0, SendKeeps DEF runCrossSeedSearch, Kinds
  <2>2. /\ open' = open /\ torrent' = torrent /\ resp' = NoResp /\ selected' = selected
        /\ cache' = cache /\ PollEffect
    BY <1>2 DEF runCrossSeedSearch, server
  <2>3. polling' \in Torrents \cup {NoTorrent}
    BY <2>2, <1>0, PollKeeps
  <2>4. Types'
    BY <2>1, <2>2, <2>3, <1>0 DEF Types
  <2> QED BY <2>1, <2>2, <2>4 DEF AboutTorrents
<1>3. ASSUME NEW i \in Slots, handleApplyCrossSeed(i) PROVE Inductive'
  <2>0. torrent \in Torrents /\ resp.results \cap selected \in SUBSET Results
    BY <1>3 DEF handleApplyCrossSeed, AboutTorrents, Types
  <2>1. /\ reqs' \in [Slots -> Requests] /\ OnlyApplyAdds'
        /\ \A j \in Slots : reqs'[j].kind # "idle" => reqs'[j].torrent \in Torrents
    BY <1>3, <2>0, SendKeeps DEF handleApplyCrossSeed, Kinds
  <2>2. UNCHANGED <<open, torrent, resp, selected, polling, cache>>
    BY <1>3 DEF handleApplyCrossSeed, server
  <2>3. Types'
    BY <2>1, <2>2 DEF Types
  <2> QED BY <2>1, <2>2, <2>3 DEF AboutTorrents
<1>4. ASSUME NEW r \in Results, toggleCrossSeedSelection(r) PROVE Inductive'
  <2>1. UNCHANGED <<open, torrent, resp, polling, reqs, cache>> /\ selected' \subseteq Results
    BY <1>4 DEF toggleCrossSeedSelection, server, Types
  <2> QED BY <2>1 DEF Types, AboutTorrents, OnlyApplyAdds
<1>5. ASSUME closeCrossSeedDialog PROVE Inductive'
  <2>1. /\ open' = FALSE /\ torrent' = NoTorrent /\ resp' = NoResp /\ selected' = {}
        /\ PollEffect /\ UNCHANGED <<reqs, cache>>
    BY <1>5 DEF closeCrossSeedDialog, server
  <2>2. polling' \in Torrents \cup {NoTorrent}
    BY <2>1, <1>0, PollKeeps
  <2> QED BY <2>1, <2>2, <1>0 DEF Types, AboutTorrents, OnlyApplyAdds
<1> QED BY <1>1, <1>2, <1>3, <1>4, <1>5 DEF User

LEMMA PollStepKeeps ==
  ASSUME Inductive, NEW i \in Slots, pollForUpdates(i)
  PROVE  Inductive'
<1>0. polling \in Torrents
  BY DEF pollForUpdates, Inductive, Types
<1>1. /\ reqs' \in [Slots -> Requests] /\ OnlyApplyAdds'
      /\ \A j \in Slots : reqs'[j].kind # "idle" => reqs'[j].torrent \in Torrents
  BY <1>0, SendKeeps DEF pollForUpdates, Kinds
<1>2. UNCHANGED <<open, torrent, resp, selected, polling, cache>>
  BY DEF pollForUpdates, server
<1> QED BY <1>1, <1>2 DEF Inductive, Types, AboutTorrents

LEMMA DeliverKeeps ==
  ASSUME Inductive, NEW i \in Slots, Deliver(i)
  PROVE  Inductive'
<1> DEFINE q == reqs[i]
<1>0. /\ q \in Requests /\ reqs \in [Slots -> Requests] /\ resp \in Responses
      /\ selected \subseteq Results /\ polling \in Torrents \cup {NoTorrent}
      /\ q.kind # "idle" => q.torrent \in Torrents
  BY DEF Inductive, Types, AboutTorrents
<1>1. cache' = cache /\ open' = open /\ torrent' = torrent
  BY DEF Deliver, server, dialog
<1>2. /\ reqs' \in [Slots -> Requests] /\ OnlyApplyAdds'
      /\ \A j \in Slots : reqs'[j].kind # "idle" => reqs'[j].torrent \in Torrents
  <2>1. CASE q.kind = "status" /\ q.stage = "answered" /\ q.done
    <3> DEFINE n == Request("refine", q.torrent, {})
    <3>1. n \in Requests /\ n.torrent = q.torrent /\ n.stage = "sent" /\ q.torrent \in Torrents
      BY <1>0, <2>1, RequestIsNew DEF Kinds
    <3>2. reqs' = [reqs EXCEPT ![i] = n]
      BY <2>1 DEF Deliver
    <3> HIDE DEF n
    <3>3. \A j \in Slots : reqs'[j] = IF j = i THEN n ELSE reqs[j]
      BY <3>2, <1>0
    <3> QED BY <3>1, <3>2, <3>3, <1>0 DEF Inductive, AboutTorrents, OnlyApplyAdds
  <2>2. CASE ~(q.kind = "status" /\ q.stage = "answered" /\ q.done)
    <3>1. reqs' = [reqs EXCEPT ![i] = Idle]
      BY <2>2 DEF Deliver
    <3>2. Idle \in Requests /\ Idle.kind = "idle" /\ Idle.stage = "sent"
      BY DEF Idle, Requests, Kinds, Stages
    <3>3. \A j \in Slots : reqs'[j] = IF j = i THEN Idle ELSE reqs[j]
      BY <3>1, <1>0
    <3> QED BY <3>1, <3>2, <3>3, <1>0 DEF Inductive, AboutTorrents, OnlyApplyAdds
  <2> QED BY <2>1, <2>2
<1>3. resp' \in Responses /\ selected' \subseteq Results /\ polling' \in Torrents \cup {NoTorrent}
  <2>1. CASE UNCHANGED dialog
    BY <2>1, <1>0 DEF dialog
  <2>2. CASE TakeAnalysis(q)
    <3>1. CASE q.stage = "failed"
      BY <3>1, <2>2, <1>0 DEF TakeAnalysis
    <3>2. CASE q.stage # "failed"
      <4>1. resp' \in Responses
        BY <3>2, <2>2, <1>0 DEF TakeAnalysis, Responses, Requests
      <4> QED BY <4>1, <3>2, <2>2, <1>0, PollKeeps DEF TakeAnalysis
    <3> QED BY <3>1, <3>2
  <2>3. CASE TakeSearch(q)
    <3>1. CASE q.stage = "failed"
      BY <3>1, <2>3, <1>0 DEF TakeSearch
    <3>2. CASE q.stage # "failed"
      <4>1. resp' \in Responses /\ selected' \subseteq Results
        BY <3>2, <2>3, <1>0 DEF TakeSearch, Responses, Requests
      <4> QED BY <4>1, <3>2, <2>3, PollKeeps DEF TakeSearch
    <3> QED BY <3>1, <3>2
  <2>4. CASE TakeApplied(q)
    BY <2>4, <1>0 DEF TakeApplied
  <2>5. CASE TakeStatus(q)
    BY <2>5, <1>0 DEF TakeStatus
  <2>6. CASE TakeRefinement(q)
    <3>1. CASE q.stage = "failed" \/ resp.src = NoTorrent
      BY <3>1, <2>6, <1>0 DEF TakeRefinement
    <3>2. CASE ~(q.stage = "failed" \/ resp.src = NoTorrent)
      <4>1. resp' \in Responses
        BY <3>2, <2>6, <1>0 DEF TakeRefinement, Responses, Requests
      <4> QED BY <4>1, <3>2, <2>6, <1>0, PollKeeps DEF TakeRefinement
    <3> QED BY <3>1, <3>2
  <2> QED BY <2>1, <2>2, <2>3, <2>4, <2>5, <2>6 DEF Deliver
<1> QED BY <1>1, <1>2, <1>3 DEF Inductive, Types, AboutTorrents

LEMMA ServerKeeps ==
  ASSUME Inductive, NEW i \in Slots, Serve(i)
  PROVE  Inductive'
<1>0. reqs \in [Slots -> Requests] /\ reqs[i] \in Requests /\ cache \in [Torrents -> SUBSET Results]
  BY DEF Inductive, Types
<1>1. ASSUME UNCHANGED dialog, cache' \in [Torrents -> SUBSET Results],
             reqs' \in [Slots -> Requests], OnlyApplyAdds',
             \A j \in Slots : reqs'[j].kind # "idle" => reqs'[j].torrent \in Torrents
      PROVE  Inductive'
  BY <1>1 DEF Inductive, Types, AboutTorrents, dialog
<1>2. CASE AnalyzeTorrentForSearch(i)
  <2> DEFINE done == filt[reqs[i].torrent] = "done" \/ reqs[i].torrent \in NoCapable
  <2>1. UNCHANGED <<dialog, cache>> /\ Answer(i, done, {}) /\ done \in BOOLEAN
    BY <1>2 DEF AnalyzeTorrentForSearch
  <2> HIDE DEF done
  <2> QED BY <2>1, <1>0, <1>1, AnswerKeeps
<1>3. CASE GetAsyncFilteringStatus(i)
  <2>1. UNCHANGED <<dialog, cache>>
    BY <1>3 DEF GetAsyncFilteringStatus
  <2>2. PICK done \in BOOLEAN : Answer(i, done, {})
    <3>1. CASE filt[reqs[i].torrent] = "none"
      <4>1. Answer(i, reqs[i].torrent \in NoCapable, {})
        BY <1>3, <3>1 DEF GetAsyncFilteringStatus
      <4>2. (reqs[i].torrent \in NoCapable) \in BOOLEAN
        OBVIOUS
      <4> QED BY <4>1, <4>2, Zenon
    <3>2. CASE filt[reqs[i].torrent] # "none"
      <4>1. Answer(i, filt[reqs[i].torrent] = "done", {})
        BY <1>3, <3>2 DEF GetAsyncFilteringStatus
      <4> QED BY <4>1
    <3> QED BY <3>1, <3>2
  <2> QED BY <2>1, <2>2, <1>0, <1>1, AnswerKeeps
<1>4. ASSUME NEW found \in SUBSET Results, SearchTorrentMatches(i, found) PROVE Inductive'
  <2>1. UNCHANGED dialog /\ Answer(i, FALSE, found) /\ cacheSearchResults(reqs[i].torrent, found)
    BY <1>4 DEF SearchTorrentMatches
  <2>2. cache' \in [Torrents -> SUBSET Results]
    BY <2>1, <1>0 DEF cacheSearchResults
  <2> QED BY <2>1, <2>2, <1>1, AnswerKeeps
<1>5. CASE ApplyTorrentSearchResults(i)
  <2>1. UNCHANGED <<dialog, cache>> /\ reqs[i].kind = "apply"
    BY <1>5 DEF ApplyTorrentSearchResults, server
  <2>2. PICK q \in Requests : /\ reqs' = [reqs EXCEPT ![i] = q]
                              /\ q.kind = reqs[i].kind /\ q.torrent = reqs[i].torrent
    <3>1. CASE cache[reqs[i].torrent] = {}
      <4> DEFINE q == [reqs[i] EXCEPT !.stage = "failed"]
      <4>1. q \in Requests /\ q.kind = reqs[i].kind /\ q.torrent = reqs[i].torrent
        BY <1>0 DEF Requests, Stages
      <4>2. reqs' = [reqs EXCEPT ![i] = q]
        BY <1>5, <3>1, <1>0 DEF ApplyTorrentSearchResults
      <4> QED BY <4>1, <4>2
    <3>2. CASE cache[reqs[i].torrent] # {}
      <4> DEFINE q == [reqs[i] EXCEPT !.stage = "adding",
                                      !.picks = @ \cap cache[reqs[i].torrent]]
      <4>1. q \in Requests /\ q.kind = reqs[i].kind /\ q.torrent = reqs[i].torrent
        BY <1>0 DEF Requests, Stages
      <4>2. reqs' = [reqs EXCEPT ![i] = q]
        BY <1>5, <3>2, <1>0 DEF ApplyTorrentSearchResults
      <4> QED BY <4>1, <4>2
    <3> QED BY <3>1, <3>2
  <2> QED BY <2>1, <2>2, <1>0, <1>1, ServeKeeps
<1>6. ASSUME NEW r \in Results, AddSelection(i, r) PROVE Inductive'
  <2> DEFINE q == [reqs[i] EXCEPT !.picks = @ \ {r}]
  <2>1. UNCHANGED <<dialog, cache>> /\ reqs[i].stage = "adding"
    BY <1>6 DEF AddSelection
  <2>2. q \in Requests /\ q.kind = reqs[i].kind /\ q.torrent = reqs[i].torrent
    BY <1>0 DEF Requests
  <2>3. reqs' = [reqs EXCEPT ![i] = q]
    BY <1>6, <1>0 DEF AddSelection
  <2>4. reqs[i].kind = "apply"
    BY <2>1 DEF Inductive, OnlyApplyAdds
  <2> HIDE DEF q
  <2> QED BY <2>1, <2>2, <2>3, <2>4, <1>0, <1>1, ServeKeeps
<1>7. CASE AllAdded(i)
  BY <1>7, <1>0, <1>1, AnswerKeeps DEF AllAdded, server
<1> QED BY <1>2, <1>3, <1>4, <1>5, <1>6, <1>7 DEF Serve

LEMMA FailKeeps ==
  ASSUME Inductive, NEW i \in Slots, Fail(i)
  PROVE  Inductive'
<1> DEFINE q == [reqs[i] EXCEPT !.stage = "failed"]
<1>0. reqs \in [Slots -> Requests] /\ reqs[i] \in Requests
  BY DEF Inductive, Types
<1>1. /\ q \in Requests /\ q.kind = reqs[i].kind /\ q.torrent = reqs[i].torrent
      /\ q.stage = "failed"
  BY <1>0 DEF Requests, Stages
<1>2. reqs' = [reqs EXCEPT ![i] = q] /\ UNCHANGED <<dialog, cache>>
  BY <1>0 DEF Fail, server
<1> HIDE DEF q
<1>3. /\ reqs' \in [Slots -> Requests] /\ OnlyApplyAdds'
      /\ \A j \in Slots : reqs'[j].kind # "idle" => reqs'[j].torrent \in Torrents
  BY <1>1, <1>2, ServeKeeps
<1> QED BY <1>2, <1>3 DEF Inductive, Types, AboutTorrents, dialog

LEMMA RestartKeeps == Inductive /\ Restart => Inductive'
<1> SUFFICES ASSUME Inductive, Restart PROVE Inductive'
  OBVIOUS
<1>0. reqs \in [Slots -> Requests]
  BY DEF Inductive, Types
<1>1. \A j \in Slots :
        /\ reqs'[j] \in Requests
        /\ reqs'[j].kind = reqs[j].kind /\ reqs'[j].torrent = reqs[j].torrent
        /\ reqs'[j].stage = "adding" => reqs[j].stage = "adding"
  <2> SUFFICES ASSUME NEW j \in Slots
               PROVE  /\ reqs'[j] \in Requests
                      /\ reqs'[j].kind = reqs[j].kind /\ reqs'[j].torrent = reqs[j].torrent
                      /\ reqs'[j].stage = "adding" => reqs[j].stage = "adding"
    OBVIOUS
  <2> DEFINE q == [reqs[j] EXCEPT !.stage = "failed", !.picks = {}]
  <2>1. reqs[j] \in Requests
    BY <1>0
  <2>2. /\ q \in Requests /\ q.kind = reqs[j].kind /\ q.torrent = reqs[j].torrent
        /\ q.stage = "failed"
    BY <2>1 DEF Requests, Stages
  <2>3. reqs'[j] = q \/ reqs'[j] = reqs[j]
    BY DEF Restart
  <2> HIDE DEF q
  <2> QED BY <2>1, <2>2, <2>3
<1>2. reqs' \in [Slots -> Requests]
  <2>1. reqs' = [j \in Slots |-> reqs'[j]]
    BY DEF Restart
  <2> QED BY <2>1, <1>1
<1>3. cache' \in [Torrents -> SUBSET Results] /\ UNCHANGED dialog
  BY DEF Restart
<1> QED BY <1>1, <1>2, <1>3 DEF Inductive, Types, AboutTorrents, OnlyApplyAdds, dialog

LEMMA InductiveStep == Inductive /\ [Next]_vars => Inductive'
<1> SUFFICES ASSUME Inductive, [Next]_vars PROVE Inductive'
  OBVIOUS
<1>1. CASE User
  BY <1>1, UserKeeps
<1>2. ASSUME NEW i \in Slots, pollForUpdates(i) \/ Serve(i) \/ Deliver(i) \/ Fail(i) PROVE Inductive'
  BY <1>2, PollStepKeeps, ServerKeeps, DeliverKeeps, FailKeeps
<1>3. ASSUME NEW t \in Torrents, performAsyncContentFiltering(t) PROVE Inductive'
  BY <1>3 DEF performAsyncContentFiltering, Inductive, Types, AboutTorrents, OnlyApplyAdds, dialog
<1>4. ASSUME NEW t \in Torrents, Expire(t) PROVE Inductive'
  <2>1. UNCHANGED <<dialog, reqs>> /\ cache' \in [Torrents -> SUBSET Results]
    BY <1>4 DEF Expire, Inductive, Types
  <2> QED BY <2>1 DEF Inductive, Types, AboutTorrents, OnlyApplyAdds, dialog
<1>5. CASE Restart
  BY <1>5, RestartKeeps
<1>6. CASE UNCHANGED vars
  BY <1>6 DEF vars, dialog, server, Inductive, Types, AboutTorrents, OnlyApplyAdds
<1> QED BY <1>1, <1>2, <1>3, <1>4, <1>5, <1>6 DEF Next

\* Open dialogs and requests are about torrents, and only the request of
\* Add Selected adds anything.
THEOREM InductiveInvariant == Spec => []Inductive
BY InductiveInit, InductiveStep, PTL DEF Spec

-----------------------------------------------------------------------------
(***************************************************************************)
(* The refinement.  What is being added changes when a choice is accepted, *)
(* when a selection is done and when the server restarts.                  *)
(***************************************************************************)
AddedBy(i, p) == reqs[i].stage = "adding" /\ p \in {reqs[i].torrent} \X reqs[i].picks

LEMMA AddingMembers ==
  /\ \A p : p \in Adding <=> \E i \in Slots : AddedBy(i, p)
  /\ \A p : p \in Adding' <=> \E i \in Slots : AddedBy(i, p)'
BY DEF Adding, AddedBy

\* A step that leaves what each request is adding leaves Adding.
LEMMA SameAdding ==
  ASSUME \A i \in Slots : \A p : AddedBy(i, p)' <=> AddedBy(i, p)
  PROVE  Adding' = Adding
BY AddingMembers

\* A request that was not adding anything is replaced by another of the kind.
LEMMA NoNewAdding ==
  ASSUME Inductive, NEW i \in Slots, NEW q, reqs' = [reqs EXCEPT ![i] = q],
         reqs[i].stage # "adding" \/ reqs[i].picks = {}, q.stage # "adding"
  PROVE  Adding' = Adding
<1>1. \A j \in Slots : reqs'[j] = IF j = i THEN q ELSE reqs[j]
  BY DEF Inductive, Types
<1>2. ASSUME NEW j \in Slots, NEW p PROVE AddedBy(j, p)' <=> AddedBy(j, p)
  <2>1. CASE j = i
    BY <2>1, <1>1 DEF AddedBy
  <2>2. CASE j # i
    BY <2>2, <1>1 DEF AddedBy
  <2> QED BY <2>1, <2>2
<1> QED BY <1>2, SameAdding

\* A free slot adds nothing, and neither does what is sent from it.
LEMMA SendAddsNothing ==
  ASSUME Inductive, NEW i \in Slots, NEW kind, NEW t, NEW picks, Send(i, kind, t, picks)
  PROVE  Adding' = Adding
<1> DEFINE q == Request(kind, t, picks)
<1>1. q.stage = "sent"
  BY DEF Request, Idle
<1>2. reqs' = [reqs EXCEPT ![i] = q] /\ reqs[i].stage # "adding"
  BY DEF Send, Free, Inductive, OnlyApplyAdds
<1> HIDE DEF q
<1> QED BY <1>1, <1>2, NoNewAdding

\* An answer adds nothing more.
LEMMA AnswerAddsNothing ==
  ASSUME Inductive, NEW i \in Slots, NEW done, NEW picks, Answer(i, done, picks),
         reqs[i].stage # "adding" \/ reqs[i].picks = {}
  PROVE  Adding' = Adding
<1> DEFINE q == [reqs[i] EXCEPT !.stage = "answered", !.done = done, !.picks = picks]
<1>0. reqs \in [Slots -> Requests] /\ reqs[i] \in Requests
  BY DEF Inductive, Types
<1>1. q.stage = "answered"
  BY <1>0 DEF Requests
<1>2. reqs' = [reqs EXCEPT ![i] = q]
  BY <1>0 DEF Answer
<1> HIDE DEF q
<1> QED BY <1>1, <1>2, NoNewAdding

LEMMA StartsAsPromised == Init => Promise!Init
<1> SUFFICES ASSUME Init PROVE Promise!Init
  OBVIOUS
<1>1. \A i \in Slots : reqs[i].stage # "adding"
  BY DEF Init, Idle
<1>2. Adding = {}
  BY <1>1, AddingMembers DEF AddedBy
<1> QED BY <1>2 DEF Init, Promise!Init

\* The choice that is accepted is looked up in the results of its torrent.
LEMMA ApplyAccepts ==
  ASSUME Inductive, NEW i \in Slots, ApplyTorrentSearchResults(i)
  PROVE  [Promise!Next]_Promise!vars
<1> DEFINE t == reqs[i].torrent
<1>0. /\ reqs \in [Slots -> Requests] /\ reqs[i] \in Requests
      /\ cache \in [Torrents -> SUBSET Results]
  BY DEF Inductive, Types
<1>1. /\ t \in Torrents /\ reqs[i].stage = "sent" /\ UNCHANGED <<cache, added>>
  BY DEF ApplyTorrentSearchResults, Inductive, AboutTorrents, server
<1>2. CASE cache[t] = {}
  <2> DEFINE q == [reqs[i] EXCEPT !.stage = "failed"]
  <2>1. q.stage = "failed"
    BY <1>0 DEF Requests
  <2>2. reqs' = [reqs EXCEPT ![i] = q]
    BY <1>2, <1>0 DEF ApplyTorrentSearchResults
  <2> HIDE DEF q
  <2>3. Adding' = Adding
    BY <2>1, <2>2, <1>1, NoNewAdding
  <2> QED BY <2>3, <1>1 DEF Promise!vars
<1>3. CASE cache[t] # {}
  <2> DEFINE chosen == reqs[i].picks \cap cache[t]
             q == [reqs[i] EXCEPT !.stage = "adding", !.picks = chosen]
  <2>1. q.stage = "adding" /\ q.torrent = t /\ q.picks = chosen
    BY <1>0 DEF Requests
  <2>2. reqs' = [reqs EXCEPT ![i] = q]
    BY <1>3, <1>0 DEF ApplyTorrentSearchResults
  <2>3. chosen \in SUBSET Results /\ chosen \subseteq cache[t]
    BY <1>0, <1>1
  <2> HIDE DEF chosen, q
  <2>4. \A j \in Slots : reqs'[j] = IF j = i THEN q ELSE reqs[j]
    BY <2>2, <1>0
  <2>5. Adding' = Adding \cup ({t} \X chosen)
    <3>1. ASSUME NEW p PROVE p \in Adding' <=> p \in Adding \/ p \in {t} \X chosen
      <4>1. ASSUME NEW j \in Slots, j # i PROVE AddedBy(j, p)' <=> AddedBy(j, p)
        BY <4>1, <2>4 DEF AddedBy
      <4>2. AddedBy(i, p)' <=> p \in {t} \X chosen
        BY <2>1, <2>4 DEF AddedBy
      <4>3. ~AddedBy(i, p)
        BY <1>1 DEF AddedBy
      <4> HIDE DEF t
      <4> QED BY <4>1, <4>2, <4>3, AddingMembers
    <3> HIDE DEF t
    <3> QED BY <3>1
  <2>6. Promise!Accept(t, chosen)
    BY <2>3, <2>5, <1>1 DEF Promise!Accept
  <2> QED BY <2>6, <2>3, <1>1 DEF Promise!Next
<1> QED BY <1>2, <1>3

\* A selection that is done, unless another request still holds it, is finished.
LEMMA AddFinishes ==
  ASSUME Inductive, NEW i \in Slots, NEW r \in Results, AddSelection(i, r)
  PROVE  [Promise!Next]_Promise!vars
<1> DEFINE t == reqs[i].torrent
           pair == <<t, r>>
           q == [reqs[i] EXCEPT !.picks = @ \ {r}]
<1>0. reqs \in [Slots -> Requests] /\ reqs[i] \in Requests
  BY DEF Inductive, Types
<1>1. /\ reqs[i].stage = "adding" /\ r \in reqs[i].picks /\ cache' = cache
      /\ added' \in {added, added \cup {pair}}
  BY DEF AddSelection
<1>2. t \in Torrents
  BY <1>1 DEF Inductive, OnlyApplyAdds, AboutTorrents
<1>3. q.stage = "adding" /\ q.torrent = t /\ q.picks = reqs[i].picks \ {r}
  BY <1>0, <1>1 DEF Requests
<1>4. reqs' = [reqs EXCEPT ![i] = q]
  BY <1>0 DEF AddSelection
<1> HIDE DEF q
<1>5. \A j \in Slots : reqs'[j] = IF j = i THEN q ELSE reqs[j]
  BY <1>4, <1>0
<1>6. pair \in Adding /\ pair \in Promise!Pairs
  <2>1. AddedBy(i, pair)
    BY <1>1 DEF AddedBy
  <2> QED BY <2>1, <1>2, AddingMembers DEF Promise!Pairs
<1>7. \A p : p # pair => (p \in Adding' <=> p \in Adding)
  <2> SUFFICES ASSUME NEW p, p # pair PROVE p \in Adding' <=> p \in Adding
    OBVIOUS
  <2>1. ASSUME NEW j \in Slots PROVE AddedBy(j, p)' <=> AddedBy(j, p)
    <3>1. CASE j = i
      BY <3>1, <1>1, <1>3, <1>5 DEF AddedBy
    <3>2. CASE j # i
      BY <3>2, <1>5 DEF AddedBy
    <3> QED BY <3>1, <3>2
  <2> QED BY <2>1, AddingMembers
<1> HIDE DEF t, pair
<1>8. Adding' \in {Adding, Adding \ {pair}}
  <2>1. CASE pair \in Adding'
    <3>1. \A p : p \in Adding' <=> p \in Adding
      BY <2>1, <1>6, <1>7
    <3> QED BY <3>1
  <2>2. CASE pair \notin Adding'
    <3>1. \A p : p \in Adding' <=> p \in Adding \ {pair}
      BY <2>2, <1>6, <1>7
    <3> QED BY <3>1
  <2> QED BY <2>1, <2>2
<1>9. Promise!Finish(pair)
  BY <1>1, <1>6, <1>8 DEF Promise!Finish
<1> QED BY <1>6, <1>9 DEF Promise!Next

\* A restart forgets every result and whatever is being added.
LEMMA RestartForgets == Inductive /\ Restart => [Promise!Next]_Promise!vars
<1> SUFFICES ASSUME Inductive, Restart PROVE [Promise!Next]_Promise!vars
  OBVIOUS
<1>1. ASSUME NEW j \in Slots PROVE reqs'[j].stage # "adding"
  <2>0. reqs[j] \in Requests
    BY DEF Inductive, Types
  <2>1. CASE reqs[j].stage = "adding"
    <3>1. reqs[j].kind # "idle"
      BY <2>1 DEF Inductive, OnlyApplyAdds
    <3>2. reqs'[j] = [reqs[j] EXCEPT !.stage = "failed", !.picks = {}]
      BY <2>1, <3>1 DEF Restart
    <3> QED BY <3>2, <2>0 DEF Requests
  <2>2. CASE reqs[j].stage # "adding"
    <3>1. \/ reqs'[j] = [reqs[j] EXCEPT !.stage = "failed", !.picks = {}]
          \/ reqs'[j] = reqs[j]
      BY DEF Restart
    <3> QED BY <3>1, <2>0, <2>2 DEF Requests
  <2> QED BY <2>1, <2>2
<1>2. Adding' \in SUBSET Adding
  BY <1>1, AddingMembers DEF AddedBy
<1>3. /\ cache' = [t \in Torrents |-> IF t \in Torrents THEN {} ELSE cache[t]]
      /\ added' = added
  BY DEF Restart
<1>4. Promise!Forget
  BY <1>2, <1>3 DEF Promise!Forget
<1> QED BY <1>4 DEF Promise!Next

\* The promise does not see what the user does.
LEMMA UserStutters ==
  ASSUME Inductive, User
  PROVE  UNCHANGED Promise!vars
<1>1. UNCHANGED <<cache, added>>
  BY DEF User, handleCrossSeedSearch, runCrossSeedSearch, handleApplyCrossSeed,
              toggleCrossSeedSelection, closeCrossSeedDialog, server
<1>2. \/ reqs' = reqs
      \/ \E j \in Slots : \E kind, t, picks : Send(j, kind, t, picks)
  BY DEF User, handleCrossSeedSearch, runCrossSeedSearch, handleApplyCrossSeed,
              toggleCrossSeedSelection, closeCrossSeedDialog
<1>3. Adding' = Adding
  BY <1>2, SendAddsNothing DEF Adding
<1> QED BY <1>1, <1>3 DEF Promise!vars

\* Nor the polls, the answers and most of what the server does.
LEMMA OtherStepsStutter ==
  ASSUME Inductive, NEW i \in Slots,
         \/ pollForUpdates(i) \/ Deliver(i) \/ Fail(i)
         \/ AnalyzeTorrentForSearch(i) \/ GetAsyncFilteringStatus(i) \/ AllAdded(i)
  PROVE  UNCHANGED Promise!vars
<1>0. reqs \in [Slots -> Requests] /\ reqs[i] \in Requests
  BY DEF Inductive, Types
<1>1. CASE pollForUpdates(i)
  <2>1. Adding' = Adding
    BY <1>1, SendAddsNothing DEF pollForUpdates
  <2> QED BY <1>1, <2>1 DEF pollForUpdates, server, Promise!vars
<1>2. CASE Deliver(i)
  <2> DEFINE n == Request("refine", reqs[i].torrent, {})
  <2>1. n.stage = "sent" /\ Idle.stage = "sent"
    BY DEF Request, Idle
  <2>2. reqs' = [reqs EXCEPT ![i] = n] \/ reqs' = [reqs EXCEPT ![i] = Idle]
    BY <1>2 DEF Deliver
  <2> HIDE DEF n
  <2>3. Adding' = Adding
    BY <1>2, <2>1, <2>2, NoNewAdding DEF Deliver
  <2> QED BY <1>2, <2>3 DEF Deliver, server, Promise!vars
<1>3. CASE Fail(i)
  <2> DEFINE q == [reqs[i] EXCEPT !.stage = "failed"]
  <2>1. q.stage = "failed"
    BY <1>0 DEF Requests
  <2>2. reqs' = [reqs EXCEPT ![i] = q] /\ reqs[i].stage = "sent"
    BY <1>3, <1>0 DEF Fail
  <2> HIDE DEF q
  <2>3. Adding' = Adding
    BY <2>1, <2>2, NoNewAdding
  <2> QED BY <1>3, <2>3 DEF Fail, server, Promise!vars
<1>4. CASE AnalyzeTorrentForSearch(i)
  <2>1. Adding' = Adding
    BY <1>4, AnswerAddsNothing DEF AnalyzeTorrentForSearch
  <2> QED BY <1>4, <2>1 DEF AnalyzeTorrentForSearch, Promise!vars
<1>5. CASE GetAsyncFilteringStatus(i)
  <2>1. \E done : Answer(i, done, {})
    <3>1. CASE filt[reqs[i].torrent] = "none"
      <4>1. Answer(i, reqs[i].torrent \in NoCapable, {})
        BY <1>5, <3>1 DEF GetAsyncFilteringStatus
      <4> QED BY <4>1
    <3>2. CASE filt[reqs[i].torrent] # "none"
      <4>1. Answer(i, filt[reqs[i].torrent] = "done", {})
        BY <1>5, <3>2 DEF GetAsyncFilteringStatus
      <4> QED BY <4>1
    <3> QED BY <3>1, <3>2
  <2>2. Adding' = Adding
    BY <1>5, <2>1, AnswerAddsNothing DEF GetAsyncFilteringStatus
  <2> QED BY <1>5, <2>2 DEF GetAsyncFilteringStatus, Promise!vars
<1>6. CASE AllAdded(i)
  <2>1. Adding' = Adding
    BY <1>6, AnswerAddsNothing DEF AllAdded
  <2> QED BY <1>6, <2>1 DEF AllAdded, server, Promise!vars
<1> QED BY <1>1, <1>2, <1>3, <1>4, <1>5, <1>6

\* A search that found something gives its torrent new results.
LEMMA SearchFinds ==
  ASSUME Inductive, NEW i \in Slots, NEW found \in SUBSET Results, SearchTorrentMatches(i, found)
  PROVE  [Promise!Next]_Promise!vars
<1>1. /\ reqs[i].torrent \in Torrents /\ added' = added
      /\ cacheSearchResults(reqs[i].torrent, found)
  BY DEF SearchTorrentMatches, Inductive, AboutTorrents
<1>2. Adding' = Adding
  BY AnswerAddsNothing DEF SearchTorrentMatches
<1>3. CASE found = {}
  BY <1>1, <1>2, <1>3 DEF cacheSearchResults, Promise!vars
<1>4. CASE found # {}
  <2>1. Promise!Find(reqs[i].torrent, found)
    BY <1>1, <1>2, <1>4 DEF cacheSearchResults, Promise!Find
  <2> QED BY <1>1, <2>1 DEF Promise!Next
<1> QED BY <1>3, <1>4

\* An entry of a cache that runs out is forgotten.
LEMMA ExpiryForgets ==
  ASSUME Inductive, NEW t \in Torrents, Expire(t)
  PROVE  [Promise!Next]_Promise!vars
<1>1. Adding' = Adding /\ added' = added
  BY DEF Expire, Adding
<1>2. CASE cache' = cache
  BY <1>1, <1>2 DEF Promise!vars
<1>3. CASE cache' = [cache EXCEPT ![t] = {}]
  <2>1. cache' = [u \in Torrents |-> IF u \in {t} THEN {} ELSE cache[u]]
    BY <1>3 DEF Inductive, Types
  <2>2. Promise!Forget
    BY <1>1, <2>1 DEF Promise!Forget
  <2> QED BY <2>2 DEF Promise!Next
<1> QED BY <1>2, <1>3 DEF Expire

LEMMA StepsKeepPromise == Inductive /\ [Next]_vars => [Promise!Next]_Promise!vars
<1> SUFFICES ASSUME Inductive, [Next]_vars PROVE [Promise!Next]_Promise!vars
  OBVIOUS
<1>1. CASE User
  BY <1>1, UserStutters
<1>2. ASSUME NEW i \in Slots, pollForUpdates(i) \/ Deliver(i) \/ Fail(i)
      PROVE  [Promise!Next]_Promise!vars
  BY <1>2, OtherStepsStutter
<1>3. ASSUME NEW i \in Slots, Serve(i) PROVE [Promise!Next]_Promise!vars
  BY <1>3, OtherStepsStutter, SearchFinds, ApplyAccepts, AddFinishes DEF Serve
<1>4. ASSUME NEW t \in Torrents, Expire(t) PROVE [Promise!Next]_Promise!vars
  BY <1>4, ExpiryForgets
<1>5. CASE Restart
  BY <1>5, RestartForgets
<1>6. ASSUME NEW t \in Torrents, performAsyncContentFiltering(t) PROVE UNCHANGED Promise!vars
  BY <1>6 DEF performAsyncContentFiltering, Promise!vars, Adding
<1>7. CASE UNCHANGED vars
  BY <1>7 DEF vars, server, Promise!vars, Adding
<1> QED BY <1>1, <1>2, <1>3, <1>4, <1>5, <1>6, <1>7 DEF Next

\* The dialog, its requests and the caches of the server keep the promise: a release
\* is added beside a torrent only if that torrent's own latest search had found it
\* when the user's choice was accepted (resolveSelectionFromCache), whichever
\* torrent's results the dialog shows by then.
THEOREM PromiseIsKept == Spec => KeepsPromise
BY StepsKeepPromise, InductiveInvariant, StartsAsPromised, PTL DEF Spec, KeepsPromise, Promise!Spec
-----------------------------------------------------------------------------
(***************************************************************************)
(* The shapes.  The interval runs only in an open dialog that shows an     *)
(* answer about its torrent, whose filtering is not complete.              *)
(***************************************************************************)
Flags == {open, searched, loading, failed, submitting, inFlight} \subseteq BOOLEAN
OpenOnTorrent == open <=> torrent # NoTorrent
PollsWhatIsShown == polling # NoTorrent => open /\ resp.src = polling /\ ~resp.done

ServerTypes ==
    /\ filt \in [Torrents -> {"none", "initial", "done"}]
    /\ running \subseteq Torrents /\ added \subseteq Torrents \X Results

CountTypes ==
    /\ acts \in 0 .. MaxActs
    /\ expiries \in Nat /\ failures \in Nat /\ expiries + failures \in 0 .. MaxFaults

DialogShape == Flags /\ OpenOnTorrent /\ PollsWhatIsShown
Shape == DialogShape /\ ServerTypes /\ CountTypes

LEMMA BoundsAre ==
  MaxActs \in Nat /\ MaxFaults \in Nat /\ NoTorrent \notin Torrents
BY CrossSeedAssumption

LEMMA PollEffectShows ==
  ASSUME PollEffect
  PROVE  inFlight' \in BOOLEAN /\ PollsWhatIsShown'
BY DEF PollEffect, PollsWhatIsShown

LEMMA SameDialog ==
  ASSUME DialogShape, UNCHANGED dialog
  PROVE  DialogShape'
BY DEF dialog, DialogShape, Flags, OpenOnTorrent, PollsWhatIsShown

LEMMA ClickCounts ==
  ASSUME CountTypes, Click, UNCHANGED <<expiries, failures>>
  PROVE  CountTypes'
BY BoundsAre DEF CountTypes, Click

LEMMA SameCounts ==
  ASSUME CountTypes, UNCHANGED bounds
  PROVE  CountTypes'
BY DEF CountTypes, bounds

LEMMA FaultCounts ==
  ASSUME CountTypes, expiries + failures < MaxFaults, UNCHANGED acts,
         \/ expiries' = expiries + 1 /\ UNCHANGED failures
         \/ failures' = failures + 1 /\ UNCHANGED expiries
  PROVE  CountTypes'
BY BoundsAre DEF CountTypes

LEMMA SameServer ==
  ASSUME ServerTypes, UNCHANGED server
  PROVE  ServerTypes'
BY DEF ServerTypes, server

LEMMA UserShapes ==
  ASSUME Inductive, Shape, User
  PROVE  Shape'
<1>0. DialogShape /\ ServerTypes /\ CountTypes
  BY DEF Shape
<1>1. ASSUME NEW i \in Slots, NEW t \in Torrents, handleCrossSeedSearch(t, i) PROVE Shape'
  <2>1. /\ open' = TRUE /\ torrent' = t /\ searched' = FALSE /\ failed' = FALSE
        /\ UNCHANGED <<loading, submitting>> /\ PollEffect
    BY <1>1 DEF handleCrossSeedSearch
  <2>2. DialogShape'
    BY <1>0, <2>1, BoundsAre, PollEffectShows DEF DialogShape, Flags, OpenOnTorrent
  <2>3. UNCHANGED server /\ Click /\ UNCHANGED <<expiries, failures>>
    BY <1>1 DEF handleCrossSeedSearch
  <2> QED
    BY <1>0, <2>2, <2>3, SameServer, ClickCounts DEF Shape
<1>2. ASSUME NEW i \in Slots, runCrossSeedSearch(i) PROVE Shape'
  <2>1. /\ loading' = TRUE /\ failed' = FALSE /\ searched' = TRUE
        /\ UNCHANGED <<open, torrent, submitting>> /\ PollEffect
    BY <1>2 DEF runCrossSeedSearch
  <2>2. DialogShape'
    BY <1>0, <2>1, PollEffectShows DEF DialogShape, Flags, OpenOnTorrent
  <2>3. UNCHANGED server /\ Click /\ UNCHANGED <<expiries, failures>>
    BY <1>2 DEF runCrossSeedSearch
  <2> QED
    BY <1>0, <2>2, <2>3, SameServer, ClickCounts DEF Shape
<1>3. ASSUME NEW i \in Slots, handleApplyCrossSeed(i) PROVE Shape'
  <2>1. /\ submitting' = TRUE
        /\ UNCHANGED <<open, torrent, resp, searched, loading, failed, polling, inFlight>>
    BY <1>3 DEF handleApplyCrossSeed
  <2>2. DialogShape'
    BY <1>0, <2>1 DEF DialogShape, Flags, OpenOnTorrent, PollsWhatIsShown
  <2>3. UNCHANGED server /\ Click /\ UNCHANGED <<expiries, failures>>
    BY <1>3 DEF handleApplyCrossSeed
  <2> QED
    BY <1>0, <2>2, <2>3, SameServer, ClickCounts DEF Shape
<1>4. ASSUME NEW r \in Results, toggleCrossSeedSelection(r) PROVE Shape'
  <2>1. UNCHANGED <<open, torrent, resp, searched, loading, failed, submitting, polling, inFlight>>
    BY <1>4 DEF toggleCrossSeedSelection
  <2>2. DialogShape'
    BY <1>0, <2>1 DEF DialogShape, Flags, OpenOnTorrent, PollsWhatIsShown
  <2>3. UNCHANGED server /\ Click /\ UNCHANGED <<expiries, failures>>
    BY <1>4 DEF toggleCrossSeedSelection
  <2> QED
    BY <1>0, <2>2, <2>3, SameServer, ClickCounts DEF Shape
<1>5. ASSUME closeCrossSeedDialog PROVE Shape'
  <2>1. /\ open' = FALSE /\ torrent' = NoTorrent /\ searched' = FALSE /\ loading' = FALSE
        /\ failed' = FALSE /\ submitting' = FALSE /\ PollEffect
    BY <1>5 DEF closeCrossSeedDialog
  <2>2. DialogShape'
    BY <1>0, <2>1, PollEffectShows DEF DialogShape, Flags, OpenOnTorrent
  <2>3. UNCHANGED server /\ Click /\ UNCHANGED <<expiries, failures>>
    BY <1>5 DEF closeCrossSeedDialog
  <2> QED
    BY <1>0, <2>2, <2>3, SameServer, ClickCounts DEF Shape
<1> QED
  BY <1>1, <1>2, <1>3, <1>4, <1>5 DEF User

LEMMA DeliverShapes ==
  ASSUME Inductive, Shape, NEW i \in Slots, Deliver(i)
  PROVE  Shape'
<1> DEFINE q == reqs[i]
<1>0. DialogShape /\ ServerTypes /\ CountTypes
  BY DEF Shape
<1>1. ServerTypes' /\ CountTypes'
  BY <1>0, SameServer, SameCounts DEF Deliver
<1>2. CASE UNCHANGED dialog
  BY <1>0, <1>1, <1>2, SameDialog DEF Shape
<1>3. ASSUME UNCHANGED <<open, torrent, searched>>, loading' \in BOOLEAN, failed' \in BOOLEAN,
             submitting' \in BOOLEAN, inFlight' \in BOOLEAN, PollsWhatIsShown'
      PROVE  Shape'
  BY <1>0, <1>1, <1>3 DEF Shape, DialogShape, Flags, OpenOnTorrent
<1>4. /\ {loading, failed, submitting, inFlight} \subseteq BOOLEAN /\ PollsWhatIsShown
  BY <1>0 DEF DialogShape, Flags
<1>5. ASSUME UNCHANGED <<open, torrent, searched>>, TakeAnalysis(q) \/ TakeSearch(q) PROVE Shape'
  <2>1. CASE q.stage = "failed"
    BY <1>3, <1>4, <1>5, <2>1 DEF TakeAnalysis, TakeSearch, PollsWhatIsShown
  <2>2. CASE q.stage # "failed"
    <3>1. PollEffect /\ loading' \in BOOLEAN /\ failed' \in BOOLEAN /\ submitting' \in BOOLEAN
      BY <1>4, <1>5, <2>2 DEF TakeAnalysis, TakeSearch
    <3> QED
      BY <1>3, <1>5, <3>1, PollEffectShows
  <2> QED
    BY <2>1, <2>2
<1>6. ASSUME UNCHANGED <<open, torrent, searched>>, TakeApplied(q) \/ TakeStatus(q) PROVE Shape'
  <2>1. /\ UNCHANGED <<resp, loading, failed>> /\ submitting' \in BOOLEAN /\ inFlight' \in BOOLEAN
        /\ polling' = polling \/ polling' = NoTorrent
    BY <1>4, <1>6 DEF TakeApplied, TakeStatus
  <2>2. PollsWhatIsShown'
    BY <1>4, <1>6, <2>1 DEF PollsWhatIsShown
  <2> QED
    BY <1>3, <1>4, <1>6, <2>1, <2>2
<1>7. ASSUME UNCHANGED <<open, torrent, searched>>, TakeRefinement(q) PROVE Shape'
  <2>1. UNCHANGED <<loading, failed, submitting>>
    BY <1>7 DEF TakeRefinement
  <2>2. inFlight' \in BOOLEAN /\ PollsWhatIsShown'
    BY <1>7, PollEffectShows DEF TakeRefinement, PollsWhatIsShown
  <2> QED
    BY <1>3, <1>4, <1>7, <2>1, <2>2
<1> QED
  BY <1>2, <1>5, <1>6, <1>7 DEF Deliver

LEMMA AsyncTypes ==
  ASSUME ServerTypes, NEW t \in Torrents, AnalyzeTorrentForSearchAsync(t), UNCHANGED added
  PROVE  ServerTypes'
BY DEF ServerTypes, AnalyzeTorrentForSearchAsync

LEMMA ServeShapes ==
  ASSUME Inductive, Shape, NEW i \in Slots, Serve(i)
  PROVE  Shape'
<1> DEFINE t == reqs[i].torrent
<1>0. DialogShape /\ ServerTypes /\ CountTypes
  BY DEF Shape
<1>1. DialogShape' /\ CountTypes'
  BY <1>0, SameDialog, SameCounts DEF Serve, AnalyzeTorrentForSearch, GetAsyncFilteringStatus,
     SearchTorrentMatches, ApplyTorrentSearchResults, AddSelection, AllAdded
<1>2. reqs[i].kind # "idle" => t \in Torrents
  BY DEF Inductive, AboutTorrents
<1>3. CASE AnalyzeTorrentForSearch(i)
  <2>1. t \in Torrents /\ AnalyzeTorrentForSearchAsync(t) /\ UNCHANGED added
    BY <1>2, <1>3 DEF AnalyzeTorrentForSearch
  <2> HIDE DEF t
  <2> QED
    BY <1>0, <1>1, <2>1, AsyncTypes DEF Shape
<1>4. CASE GetAsyncFilteringStatus(i) \/ \E found \in SUBSET Results : SearchTorrentMatches(i, found)
  <2>1. /\ t \in Torrents /\ UNCHANGED added
        /\ AnalyzeTorrentForSearchAsync(t) \/ UNCHANGED <<filt, running>>
    BY <1>2, <1>4 DEF GetAsyncFilteringStatus, SearchTorrentMatches
  <2> HIDE DEF t
  <2>2. ServerTypes'
    BY <1>0, <2>1, AsyncTypes DEF ServerTypes
  <2> QED
    BY <1>1, <2>2 DEF Shape
<1>5. CASE ApplyTorrentSearchResults(i) \/ AllAdded(i)
  BY <1>0, <1>1, <1>5, SameServer DEF ApplyTorrentSearchResults, AllAdded, Shape
<1>6. ASSUME NEW r \in Results, AddSelection(i, r) PROVE Shape'
  <2>1. /\ UNCHANGED <<filt, running>> /\ reqs[i].stage = "adding"
        /\ added' \in {added, added \cup {<<t, r>>}}
    BY <1>6 DEF AddSelection
  <2>2. t \in Torrents
    BY <1>2, <2>1 DEF Inductive, OnlyApplyAdds
  <2> HIDE DEF t
  <2>3. ServerTypes'
    BY <1>0, <2>1, <2>2 DEF ServerTypes
  <2> QED
    BY <1>1, <2>3 DEF Shape
<1> QED
  BY <1>3, <1>4, <1>5, <1>6 DEF Serve

LEMMA ShapeInit == Init => Shape
<1> SUFFICES ASSUME Init PROVE Shape
  OBVIOUS
<1>1. DialogShape /\ ServerTypes
  BY DEF Init, DialogShape, Flags, OpenOnTorrent, PollsWhatIsShown, ServerTypes
<1>2. CountTypes
  BY BoundsAre DEF Init, CountTypes
<1> QED
  BY <1>1, <1>2 DEF Shape

LEMMA ShapeStep == Inductive /\ Shape /\ [Next]_vars => Shape'
<1> SUFFICES ASSUME Inductive, Shape, [Next]_vars PROVE Shape'
  OBVIOUS
<1>0. DialogShape /\ ServerTypes /\ CountTypes
  BY DEF Shape
<1>1. ASSUME NEW i \in Slots, pollForUpdates(i) PROVE Shape'
  <2>1. /\ UNCHANGED <<open, torrent, resp, searched, loading, failed, submitting, polling>>
        /\ inFlight' = TRUE /\ UNCHANGED server /\ UNCHANGED bounds
    BY <1>1 DEF pollForUpdates
  <2>2. DialogShape'
    BY <1>0, <2>1 DEF DialogShape, Flags, OpenOnTorrent, PollsWhatIsShown
  <2> QED
    BY <1>0, <2>1, <2>2, SameServer, SameCounts DEF Shape
<1>2. ASSUME NEW i \in Slots, Fail(i) PROVE Shape'
  BY <1>0, <1>2, SameDialog, SameServer, FaultCounts DEF Fail, Shape
<1>3. ASSUME NEW t \in Torrents, performAsyncContentFiltering(t) PROVE Shape'
  <2>1. UNCHANGED <<dialog, added, bounds>> /\ running' = running \ {t}
        /\ filt' = [filt EXCEPT ![t] = "done"]
    BY <1>3 DEF performAsyncContentFiltering
  <2>2. ServerTypes'
    BY <1>0, <2>1 DEF ServerTypes
  <2> QED
    BY <1>0, <2>1, <2>2, SameDialog, SameCounts DEF Shape
<1>4. ASSUME NEW t \in Torrents, Expire(t) PROVE Shape'
  <2>1. /\ UNCHANGED <<dialog, added, running>>
        /\ filt' = filt \/ filt' = [filt EXCEPT ![t] = "none"]
    BY <1>4 DEF Expire
  <2>2. ServerTypes'
    BY <1>0, <2>1 DEF ServerTypes
  <2>3. CountTypes'
    BY <1>0, <1>4, FaultCounts DEF Expire
  <2> QED
    BY <1>0, <2>1, <2>2, <2>3, SameDialog DEF Shape
<1>5. CASE Restart
  <2>1. UNCHANGED <<dialog, added>> /\ running' = {} /\ filt' = [t \in Torrents |-> "none"]
    BY <1>5 DEF Restart
  <2>2. ServerTypes'
    BY <1>0, <2>1 DEF ServerTypes
  <2>3. CountTypes'
    BY <1>0, <1>5, FaultCounts DEF Restart
  <2> QED
    BY <1>0, <2>1, <2>2, <2>3, SameDialog DEF Shape
<1>6. CASE UNCHANGED vars
  BY <1>0, <1>6, SameDialog, SameServer, SameCounts DEF vars, Shape
<1> QED
  BY <1>1, <1>2, <1>3, <1>4, <1>5, <1>6, UserShapes, ServeShapes, DeliverShapes DEF Next

LEMMA ShapeIsTypeOK == Inductive /\ Shape => TypeOK
BY DEF Inductive, Types, AboutTorrents, Responses, Shape, DialogShape, Flags, OpenOnTorrent,
       PollsWhatIsShown, ServerTypes, CountTypes, TypeOK

\* The variables of the search keep their shapes, requests belong to torrents, and the
\* interval runs only in an open dialog whose filtering is not complete (useCrossSeedSearch).
THEOREM SearchTyped == Spec => []TypeOK
<1>1. Init => Inductive /\ Shape
  BY InductiveInit, ShapeInit
<1>2. Inductive /\ Shape /\ [Next]_vars => (Inductive /\ Shape)'
  BY InductiveStep, ShapeStep
<1> QED
  BY <1>1, <1>2, ShapeIsTypeOK, PTL DEF Spec
================================================================================

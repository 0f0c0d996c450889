---------------------------- MODULE CrossSeedSearch ----------------------------
(***************************************************************************)
(* The manual cross-seed search: the dialog of the web client              *)
(* (useCrossSeedSearch, CrossSeedDialog), the requests it has under way,   *)
(* and the two caches of the server behind them (service.go): the results  *)
(* of the latest search of a torrent, from which alone selections are      *)
(* added, and the state of the content filtering that runs in the          *)
(* background after a torrent was analysed.                                *)
(*                                                                         *)
(* Nothing cancels a request: an answer may come after the dialog was      *)
(* closed or opened for another torrent, and the client takes it then.     *)
(* The server handles one request at a time up to its answer; a caller may *)
(* read its caches between any two of them.                                *)
(***************************************************************************)
EXTENDS Naturals, FiniteSets

CONSTANTS
    Torrents,      \* completed torrents of one instance
    Results,       \* releases a search may find
    NoCapable,     \* torrents that no indexer has the capabilities for
    MaxRequests,   \* bound: requests under way at once
    MaxActs,       \* bound: clicks of the user
    MaxFaults      \* bound: cache entries that run out of time, failing requests, restarts

NoTorrent == "no torrent"

ASSUME CrossSeedAssumption ==
    /\ NoCapable \subseteq Torrents /\ NoTorrent \notin Torrents
    /\ {MaxRequests, MaxActs, MaxFaults} \subseteq Nat

VARIABLES
    open, torrent,         \* the dialog
    resp,                  \* crossSeedSearchResponse
    searched, loading, failed,   \* hasSearched, searchLoading, searchError
    selected, submitting,  \* selectedKeys, submitting
    polling, inFlight,     \* the interval (the torrent it asks for) and its flag
    reqs,                  \* requests under way, by slot
    cache, filt, running,  \* the server: results, filtering state, background filtering
    added,                 \* <<torrent, result>> pairs added to qBittorrent
    acts, expiries, failures

dialog == <<open, torrent, resp, searched, loading, failed, selected, submitting, polling, inFlight>>
server == <<cache, filt, running, added>>
bounds == <<acts, expiries, failures>>
vars == <<dialog, reqs, server, bounds>>

NoResp == [src |-> NoTorrent, done |-> FALSE, results |-> {}]
Slots == 1..MaxRequests
Idle == [kind |-> "idle", torrent |-> NoTorrent, stage |-> "sent", picks |-> {}, done |-> FALSE]
Request(kind, t, picks) == [Idle EXCEPT !.kind = kind, !.torrent = t, !.picks = picks]

Init ==
    /\ open = FALSE /\ torrent = NoTorrent /\ resp = NoResp
    /\ searched = FALSE /\ loading = FALSE /\ failed = FALSE
    /\ selected = {} /\ submitting = FALSE
    /\ polling = NoTorrent /\ inFlight = FALSE
    /\ reqs = [i \in Slots |-> Idle]
    /\ cache = [t \in Torrents |-> {}] /\ filt = [t \in Torrents |-> "none"]
    /\ running = {} /\ added = {}
    /\ acts = 0 /\ expiries = 0 /\ failures = 0

-----------------------------------------------------------------------------
(* The client *)

Free(i) == reqs[i].kind = "idle" /\ \A j \in 1..(i - 1) : reqs[j].kind # "idle"
Send(i, kind, t, picks) == Free(i) /\ reqs' = [reqs EXCEPT ![i] = Request(kind, t, picks)]
Click == acts < MaxActs /\ acts' = acts + 1

\* The polling effect of a commit that set the response or opened the dialog:
\* the old interval is cleared with its flag, and one starts while filtering goes on.
PollEffect ==
    /\ polling' = IF open' /\ resp'.src # NoTorrent /\ ~resp'.done THEN resp'.src ELSE NoTorrent
    /\ inFlight' = FALSE

\* A search cross-seeds item of a torrent's menu, which is off while a request loads.
handleCrossSeedSearch(t, i) ==
    /\ ~open /\ ~loading /\ ~submitting /\ Click
    /\ Send(i, "analyze", t, {})
    /\ open' = TRUE /\ torrent' = t /\ resp' = NoResp
    /\ searched' = FALSE /\ failed' = FALSE /\ selected' = {}
    /\ PollEffect
    /\ UNCHANGED <<loading, submitting, server, expiries, failures>>

\* Search waits for the filtering, Retry is shown with an error, and Refresh with the answer
\* of a search. That the answer tells of the cache, and that the cooldown of the last
\* Refresh is over, are left open: either may be so at any time.
CanSearch ==
    /\ open /\ ~loading
    /\ \/ resp.src # NoTorrent /\ resp.done
       \/ searched /\ failed
       \/ searched /\ resp.src # NoTorrent

runCrossSeedSearch(i) ==
    /\ CanSearch /\ Click
    /\ Send(i, "search", torrent, {})
    /\ loading' = TRUE /\ failed' = FALSE /\ resp' = NoResp /\ searched' = TRUE
    /\ UNCHANGED <<open, torrent, selected, submitting, server, expiries, failures>>
    /\ PollEffect

ResultsShown == open /\ searched /\ ~loading /\ ~failed /\ resp.results # {}

toggleCrossSeedSelection(r) ==
    /\ ResultsShown /\ r \in resp.results /\ Click
    /\ selected' = IF r \in selected THEN selected \ {r} ELSE selected \cup {r}
    /\ UNCHANGED <<open, torrent, resp, searched, loading, failed, submitting, polling, inFlight,
                   reqs, server, expiries, failures>>

\* Add Selected: what is selected among the results shown is sent for the dialog's torrent.
handleApplyCrossSeed(i) ==
    /\ open /\ ~loading /\ ~submitting /\ resp.results \cap selected # {} /\ Click
    /\ Send(i, "apply", torrent, resp.results \cap selected)
    /\ submitting' = TRUE
    /\ UNCHANGED <<open, torrent, resp, searched, loading, failed, selected, polling, inFlight,
                   server, expiries, failures>>

\* Mutant: the torrent of the dialog is kept.
closeKeepingTorrent ==
    /\ open /\ Click
    /\ open' = FALSE /\ resp' = NoResp
    /\ searched' = FALSE /\ loading' = FALSE /\ failed' = FALSE
    /\ selected' = {} /\ submitting' = FALSE
    /\ PollEffect
    /\ UNCHANGED <<torrent, reqs, server, expiries, failures>>

closeCrossSeedDialog ==
    /\ open /\ Click
    /\ open' = FALSE /\ torrent' = NoTorrent /\ resp' = NoResp
    /\ searched' = FALSE /\ loading' = FALSE /\ failed' = FALSE
    /\ selected' = {} /\ submitting' = FALSE
    /\ PollEffect
    /\ UNCHANGED <<reqs, server, expiries, failures>>

\* One tick of the interval; it does nothing while a poll is in flight.
pollForUpdates(i) ==
    /\ polling # NoTorrent /\ ~inFlight
    /\ Send(i, "status", polling, {})
    /\ inFlight' = TRUE
    /\ UNCHANGED <<open, torrent, resp, searched, loading, failed, selected, submitting, polling,
                   server, bounds>>

\* The answer of the analysis made when the dialog opened, whatever the dialog shows by now.
TakeAnalysis(q) ==
    /\ q.kind = "analyze"
    /\ IF q.stage = "failed"
       THEN failed' = TRUE /\ UNCHANGED <<resp, polling, inFlight>>
       ELSE /\ resp' = [src |-> q.torrent, done |-> q.done, results |-> {}]
            /\ PollEffect
            /\ UNCHANGED failed
    /\ UNCHANGED <<selected, loading, submitting>>

TakeSearch(q) ==
    /\ q.kind = "search"
    /\ loading' = FALSE
    /\ IF q.stage = "failed"
       THEN failed' = TRUE /\ UNCHANGED <<resp, selected, polling, inFlight>>
       ELSE /\ resp' = [src |-> q.torrent, done |-> q.done, results |-> q.picks]
            /\ selected' = q.picks
            /\ PollEffect
            /\ UNCHANGED failed
    /\ UNCHANGED submitting

\* Messages and lists refreshed after an apply are left out.
TakeApplied(q) ==
    /\ q.kind = "apply"
    /\ submitting' = FALSE
    /\ UNCHANGED <<resp, selected, loading, failed, polling, inFlight>>

\* A poll that ends: an error or a filtering not complete yet.
TakeStatus(q) ==
    /\ q.kind = "status" /\ (q.stage = "failed" \/ ~q.done)
    /\ polling' = IF q.stage = "failed" THEN NoTorrent ELSE polling
    /\ inFlight' = FALSE
    /\ UNCHANGED <<resp, selected, loading, failed, submitting>>

\* The analysis that follows a complete status goes into the response on show.
TakeRefinement(q) ==
    /\ q.kind = "refine"
    /\ IF q.stage = "failed" \/ resp.src = NoTorrent
       THEN polling' = NoTorrent /\ inFlight' = FALSE /\ UNCHANGED resp
       ELSE resp' = [resp EXCEPT !.src = q.torrent, !.done = q.done] /\ PollEffect
    /\ UNCHANGED <<selected, loading, failed, submitting>>

Deliver(i) ==
    LET q == reqs[i] IN
    /\ q.stage \in {"answered", "failed"}
    /\ IF q.kind = "status" /\ q.stage = "answered" /\ q.done
       THEN /\ reqs' = [reqs EXCEPT ![i] = Request("refine", q.torrent, {})]
            /\ UNCHANGED dialog
       ELSE /\ reqs' = [reqs EXCEPT ![i] = Idle]
            /\ UNCHANGED <<open, torrent, searched>>
            /\ \/ TakeAnalysis(q) \/ TakeSearch(q) \/ TakeApplied(q)
               \/ TakeStatus(q) \/ TakeRefinement(q)
    /\ UNCHANGED <<server, bounds>>

-----------------------------------------------------------------------------
(* The server *)

Answer(i, done, picks) ==
    reqs' = [reqs EXCEPT ![i].stage = "answered", ![i].done = done, ![i].picks = picks]

\* AnalyzeTorrentForSearchAsync with content filtering: the state that is cached is
\* incomplete, and without capable indexers nothing will ever complete it.
AnalyzeTorrentForSearchAsync(t) ==
    IF filt[t] = "done"
    THEN UNCHANGED <<filt, running>>
    ELSE /\ filt' = [filt EXCEPT ![t] = "initial"]
         /\ running' = IF t \in NoCapable THEN running ELSE running \cup {t}

AnalyzeTorrentForSearch(i) ==
    LET t == reqs[i].torrent IN
    /\ reqs[i].kind \in {"analyze", "refine"} /\ reqs[i].stage = "sent"
    /\ AnalyzeTorrentForSearchAsync(t)
    /\ Answer(i, filt[t] = "done" \/ t \in NoCapable, {})
    /\ UNCHANGED <<dialog, cache, added, bounds>>

\* Mutant: without a cached state the filtering is reported, but not started again.
StatusNoRestart(i) ==
    /\ reqs[i].kind = "status" /\ reqs[i].stage = "sent"
    /\ Answer(i, filt[reqs[i].torrent] = "done", {})
    /\ UNCHANGED <<dialog, server, bounds>>

GetAsyncFilteringStatus(i) ==
    LET t == reqs[i].torrent IN
    /\ reqs[i].kind = "status" /\ reqs[i].stage = "sent"
    /\ IF filt[t] = "none"
       THEN AnalyzeTorrentForSearchAsync(t) /\ Answer(i, t \in NoCapable, {})
       ELSE UNCHANGED <<filt, running>> /\ Answer(i, filt[t] = "done", {})
    /\ UNCHANGED <<dialog, cache, added, bounds>>

\* performAsyncContentFiltering: it ends with the complete state, or with an error in it.
performAsyncContentFiltering(t) ==
    /\ t \in running
    /\ running' = running \ {t}
    /\ filt' = [filt EXCEPT ![t] = "done"]
    /\ UNCHANGED <<dialog, reqs, cache, added, bounds>>

\* cacheSearchResults: a search that found nothing leaves the results before it.
cacheSearchResults(t, found) ==
    cache' = IF found = {} THEN cache ELSE [cache EXCEPT ![t] = found]

\* SearchTorrentMatches: filtering starts when nothing usable is cached; the answer
\* never says that the filtering is complete.
SearchTorrentMatches(i, found) ==
    LET t == reqs[i].torrent IN
    /\ reqs[i].kind = "search" /\ reqs[i].stage = "sent"
    /\ IF filt[t] = "none" \/ t \in NoCapable
       THEN AnalyzeTorrentForSearchAsync(t)
       ELSE UNCHANGED <<filt, running>>
    /\ cacheSearchResults(t, found)
    /\ Answer(i, FALSE, found)
    /\ UNCHANGED <<dialog, added, bounds>>

\* Mutant: the selections are added as the client sends them.
ApplyUnresolved(i) ==
    /\ reqs[i].kind = "apply" /\ reqs[i].stage = "sent"
    /\ reqs' = [reqs EXCEPT ![i].stage = "adding"]
    /\ UNCHANGED <<dialog, server, bounds>>

\* ApplyTorrentSearchResults: the selections that resolve from the results cached for
\* this torrent are downloaded and added, in parallel; without any it is refused.
ApplyTorrentSearchResults(i) ==
    LET t == reqs[i].torrent IN
    /\ reqs[i].kind = "apply" /\ reqs[i].stage = "sent"
    /\ reqs' = IF cache[t] = {}
               THEN [reqs EXCEPT ![i].stage = "failed"]
               ELSE [reqs EXCEPT ![i].stage = "adding", ![i].picks = @ \cap cache[t]]
    /\ UNCHANGED <<dialog, server, bounds>>

\* One selection is added, or its download or its injection fails.
AddSelection(i, r) ==
    /\ reqs[i].stage = "adding" /\ r \in reqs[i].picks
    /\ added' \in {added, added \cup {<<reqs[i].torrent, r>>}}
    /\ reqs' = [reqs EXCEPT ![i].picks = @ \ {r}]
    /\ UNCHANGED <<dialog, cache, filt, running, bounds>>

AllAdded(i) ==
    /\ reqs[i].stage = "adding" /\ reqs[i].picks = {}
    /\ Answer(i, FALSE, {})
    /\ UNCHANGED <<dialog, server, bounds>>

-----------------------------------------------------------------------------
(* Time and faults *)

Expire(t) ==
    /\ expiries + failures < MaxFaults /\ expiries' = expiries + 1
    /\ \/ cache[t] # {} /\ cache' = [cache EXCEPT ![t] = {}] /\ UNCHANGED filt
       \/ filt[t] # "none" /\ filt' = [filt EXCEPT ![t] = "none"] /\ UNCHANGED cache
    /\ UNCHANGED <<dialog, reqs, running, added, acts, failures>>

Fail(i) ==
    /\ expiries + failures < MaxFaults /\ failures' = failures + 1
    /\ reqs[i].kind # "idle" /\ reqs[i].stage = "sent"
    /\ reqs' = [reqs EXCEPT ![i].stage = "failed"]
    /\ UNCHANGED <<dialog, server, acts, expiries>>

\* Both caches live in memory, and so does every request under way.
Restart ==
    /\ expiries + failures < MaxFaults /\ failures' = failures + 1
    /\ cache' = [t \in Torrents |-> {}] /\ filt' = [t \in Torrents |-> "none"] /\ running' = {}
    /\ reqs' = [i \in Slots |-> IF reqs[i].stage \in {"sent", "adding"} /\ reqs[i].kind # "idle"
                                THEN [reqs[i] EXCEPT !.stage = "failed", !.picks = {}] ELSE reqs[i]]
    /\ UNCHANGED <<dialog, added, acts, expiries>>

Serve(i) ==
    \/ AnalyzeTorrentForSearch(i)
    \/ GetAsyncFilteringStatus(i)
    \/ \E found \in SUBSET Results : SearchTorrentMatches(i, found)
    \/ ApplyTorrentSearchResults(i)
    \/ \E r \in Results : AddSelection(i, r)
    \/ AllAdded(i)

User ==
    \/ \E i \in Slots : \/ \E t \in Torrents : handleCrossSeedSearch(t, i)
                        \/ runCrossSeedSearch(i)
                        \/ handleApplyCrossSeed(i)
    \/ \E r \in Results : toggleCrossSeedSelection(r)
    \/ closeCrossSeedDialog

Next ==
    \/ User
    \/ \E i \in Slots : pollForUpdates(i) \/ Serve(i) \/ Deliver(i) \/ Fail(i)
    \/ \E t \in Torrents : performAsyncContentFiltering(t) \/ Expire(t)
    \/ Restart

\* The interval ticks, requests are served and answered, and the background filtering
\* ends; nobody has to click, and nothing has to expire or to fail.
Fairness ==
    /\ WF_vars(\E i \in Slots : pollForUpdates(i))
    /\ \A i \in Slots : WF_vars(Serve(i)) /\ WF_vars(Deliver(i))
    /\ \A t \in Torrents : WF_vars(performAsyncContentFiltering(t))

Spec == Init /\ [][Next]_vars /\ Fairness

-----------------------------------------------------------------------------
(* Properties *)

\* The variables keep their shapes, requests under way belong to a torrent and
\* the interval only runs in an open dialog whose filtering is not complete.
TypeOK ==
    /\ {open, searched, loading, failed, submitting, inFlight} \subseteq BOOLEAN
    /\ torrent \in Torrents \cup {NoTorrent}
    /\ open <=> torrent # NoTorrent
    /\ resp \in [src : Torrents \cup {NoTorrent}, done : BOOLEAN, results : SUBSET Results]
    /\ selected \subseteq Results
    /\ polling # NoTorrent => open /\ resp.src = polling /\ ~resp.done
    /\ \A i \in Slots : reqs[i].kind = "idle" \/ reqs[i].torrent \in Torrents
    /\ cache \in [Torrents -> SUBSET Results]
    /\ filt \in [Torrents -> {"none", "initial", "done"}]
    /\ running \subseteq Torrents /\ added \subseteq Torrents \X Results
    /\ acts \in 0..MaxActs /\ expiries + failures \in 0..MaxFaults

\* The dialog says that indexers are being filtered, which turns Search off.
Filtering == open /\ ~loading /\ ~(searched /\ failed) /\ (resp.src # NoTorrent => ~resp.done)

\* As long as no request fails the filtering the dialog waits for ends, although
\* entries of the cache expire, answers of other torrents come in and old polls
\* clear the new interval (useCrossSeedSearch polling effect, GetAsyncFilteringStatus).
FilteringEnds == [](Filtering => <>(~Filtering \/ failures > 0))

\* What is being added and was added by the server, seen as the promise sees it:
\* a release is only added beside a torrent whose own latest search found it
\* (resolveSelectionFromCache), even if the dialog shows another torrent's results.
Adding == UNION {{reqs[i].torrent} \X reqs[i].picks : i \in {j \in Slots : reqs[j].stage = "adding"}}
Promise == INSTANCE CrossSeedPromise WITH fresh <- cache, accepted <- Adding, added <- added
KeepsPromise == Promise!Spec
===============================================================================

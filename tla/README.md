# A formal model of qui

qui is a web front end for one or more qBittorrent instances: a server in Go
with services of its own beside the proxying of the qBittorrent API (it finds
and deletes orphaned files, schedules Torznab searches, backs up torrents,
cross-seeds, reannounces, and runs automations), and a React client that shows
and acts on lists of torrents that change under the user's hands. This directory
holds TLA+ specifications of the parts of both whose correctness depends on
interleavings, stale reads, failures and time; TLC configurations that check them
on small instances; and TLAPS proofs of the main safety properties for every
instance.

`PROJECT.json` ties the definitions to the source: `map` names the lines each
definition stands for, `runs` the configurations, `mutants` a plausible bug for
each checked property that TLC then finds, `theorems` the proved results,
`hazards` what is hard to test in the code, and `findings` the places where the
code and what it says of itself disagree.

## 1. Inventory

| Component | Source | State | Operations | What makes it correct |
|---|---|---|---|---|
| Orphan scan: run life cycle | `internal/services/orphanscan/service.go`, `internal/models/orphan_scan.go` | rows of `orphan_scan_runs` and `orphan_scan_files`; `cancelFuncs`, `instanceMu`, contexts, two goroutines per run | TriggerScan, CancelRun, ConfirmDeletion, executeScan, executeDeletion, maybeAutoCleanup, startup recovery | deletions of an instance exclude each other, only authorised runs delete, no row or lock is stranded, every run ends |
| Orphan scan: files | same service, `walker.go`, `delete.go` | the file map, scan roots, ignore paths, preview rows; torrents and files on disk | buildFileMap, walk, safeDelete | no file of a torrent and nothing ignored is erased |
| Torznab scheduler and rate limiter | `internal/services/jackett/scheduler.go`, part of `service.go` | heap of tasks, jobs, in-flight indexers, RSS marks, worker pool, wake-up channels, retry timer, request times and cool-downs | Submit, dispatch, executeTask, timers, callbacks, DownloadTorrent | one request per indexer and interval, exact bookkeeping, every task ends |
| Backups | `internal/backups/service.go`, `internal/models/backups.go` | `backup_runs` and items, blob files shared between runs, job queue, one in-flight run per instance | QueueRun, worker, retention, DeleteRun, recovery of incomplete and missed runs | an item's blob exists while a run references it; one run per instance; no lost claim |
| Backup restore | `internal/backups/restore_*.go` | none of its own | plan, execute | the plan turns the live state into the manifest |
| Reannounce | `internal/services/reannounce/service.go` | job table per instance, history, settings cache | scan loop, RequestReannounce, executeJob, finishJob | at most one job per torrent, debounce and cool-down kept |
| Directory scan | `internal/services/dirscan/` | runs, queued webhook runs, cancel functions | start, cancel, webhook, inject | one run per directory, no queued run lost |
| Cross-seed | `internal/services/crossseed/` | search and automation runs, completion queue, recheck-and-resume queue | start, cancel, match, add, resume | a torrent resumes only after its recheck |
| Automations | `internal/services/automations/` | last-applied times, activity | evaluate rules, apply actions in batches | rules act in order, once |
| qBittorrent client pool | `internal/qbittorrent/pool.go` | clients, failure counts, locks per instance | get, create, health check, back-off | one client per instance; back-off grows and resets |
| Sync manager | `internal/qbittorrent/sync_manager.go` | caches of torrents and trackers | filter, sort, forward | the answer agrees with the cached state |
| Reverse proxy | `internal/proxy/` | buffers, sessions | forward, retry | only idempotent requests are repeated |
| Database | `internal/database/` | one writer, statement caches, string pool | exec, transactions, clean-up of strings | no string is deleted that a row refers to |
| Debouncer | `pkg/debounce/debounce.go` | submission channel, timer | Do, Stop | the last function submitted runs |
| Notifications | `internal/services/notifications/service.go` | bounded queue, workers | Notify | an event is delivered or dropped, never blocks |
| Link trees | `pkg/hardlinktree`, `pkg/reflinktree` | files | create, roll back | a failed creation leaves nothing behind |
| Licensing, external programs, file cache, tracker icons, *arr, HTTP API, authentication, releases and names | see `PROJECT.json` | little or none | | |
| Web: torrent list | `web/src/hooks/useTorrentsList.ts`, `lib/api.ts`, TanStack Query | cached pages, rows shown, page and loading flags, optimistic deletions | poll, scroll, change filters, delete, lose the network | rows belong to the criteria on screen, no gap or repetition, loading ends, the list follows the server |
| Web: selection and actions | `components/torrents/TorrentTableOptimized.tsx`, its context menu, `hooks/useTorrentActions.ts` | selected and excluded rows, "all selected", the open dialog and its torrents | click, Shift and Ctrl click, select all, act, confirm | an action reaches exactly what was selected |
| Web: filters | `hooks/usePersistedFilters.ts`, `components/torrents/FilterSidebar.tsx`, `hooks/useCrossSeedFilter.ts` | filters on screen and in localStorage, long-press timer | include, exclude, switch instance, reload | filters stay with their instance, presses count once, effects settle |
| Web: cross-seed dialog | `hooks/useCrossSeedSearch.tsx`, `components/torrents/CrossSeedDialog.tsx`, and the two caches in `internal/services/crossseed/service.go` | dialog, poll, requests under way; results and filtering state per torrent | open, search, select, apply, close; analyse, filter in the background, search, add | only a torrent's own fresh results are added; filtering ends |
| Web: workflow form and editor | `components/instances/preferences/WorkflowDialog.tsx`, `WorkflowsOverview.tsx`, `internal/api/handlers/automations.go` | form, previews, requests under way, list of rules | edit, submit, preview, confirm, toggle | a form survives storing, what is accepted is valid, nothing destructive is enabled unseen |
| Web: the rest | pages, settings, dialogs, types | one query or one form each | | |

How they interact. HTTP handlers call one service each. The services share the
database (one statement or transaction at a time) and the client pool, through
the sync manager, whose cache of torrents is a snapshot that changes between any
two reads. Long work runs in goroutines the request does not wait for; what ties
them together is a status column, a map of cancel functions and a mutex per
instance, and these are read and written in separate steps. The scheduler talks
to its callers by callbacks, each in a goroutine of its own, and to itself by
bounded channels whose sends are dropped when they are full.

The client holds no authority: it shows answers and sends requests. But an
answer finds the page as it is when it comes (another instance, other filters,
another dialog), React runs effects after each commit in an order that matters,
and nothing cancels a request whose dialog was closed.

What is hard here: an action that follows from a status read earlier
(CancelRun, ConfirmDeletion, the deletion after its preview); two goroutines
that use one map entry; a crash between two statements; a clock that moves
between two looks at it; wake-ups that must not be lost; bookkeeping that is set
in one place and cleared in five; in the client, state that outlives the thing
it is about, and answers that outlive the question. `hazards` in `PROJECT.json` lists each at its
line, with the properties that watch it.

## 2. Modules

| Module | Contents |
|---|---|
| `OrphanRuns` | the life of orphan-scan runs: requests, scan and deletion goroutines, recovery, crash |
| `OrphanRunsProofs` | its theorems |
| `MCOrphanRuns` | constants for TLC |
| `OrphanFiles` | which files one run erases, while the world changes |
| `OrphanFilesProofs`, `MCOrphanFiles` | theorems; a small file system |
| `SearchScheduler` | scheduler, rate limiter and collection of results |
| `SearchSchedulerProofs`, `MCSearchScheduler` | theorems; constants |
| `TorrentsList`, `MCTorrentsList` | the infinite list: hook, query cache, server |
| `TorrentFilters` | persisted filters, presses, effects of the sidebar |
| `Keeping`, `KeepingProofs` | Array.prototype.filter, which list and filters are built with, and its laws |
| `MCTorrentsPage`, `TorrentsPageProofs` | the page: the list and the filters for TLC; theorems about both |
| `TorrentSelection`, `TorrentSelectionProofs`, `MCTorrentSelection` | selection, actions and dialogs of the table |
| `CrossSeedPromise` | abstract: which releases may be added beside which torrent |
| `CrossSeedSearch`, `CrossSeedSearchProofs`, `MCCrossSeedSearch` | the search dialog and the server's caches; it implements `CrossSeedPromise` |
| `WorkflowForm` | the fields of a workflow: edits, effects, payload, hydration, validation |
| `WorkflowEditor` | list and editor of workflows as processes |
| `MCDialogs`, `DialogsProofs` | the three dialogs for TLC; theorems about the form, the editor and all three together |

Definitions whose comment begins with "Mutant:" are not part of a
specification: each is a wrong variant of the definition after it, used to see
that a property can fail.

### OrphanRuns

One step is one database statement or one critical section. A request thread
(`op[t]`) is an API handler or a jitter goroutine of the scheduler: TriggerScan
is `TriggerCreate` (CreateRunIfNoActive) then `TriggerRegister` (the cancel
function and the goroutine); CancelRun is `CancelRead`, then `CancelCall` for an
open run or `CancelCheck` for a deleting one, then `CancelWrite`;
ConfirmDeletion is `ConfirmRead` and `ConfirmLock`. `scan[r]` and `del[r]` are
program counters of executeScan and executeDeletion, whose deferred calls
(`ScanExit`, `DelExit`, `DelUnlock`) are steps too. A statement may fail
(`DbFault`), also because its context was canceled; `Crash` erases everything in
memory and keeps the rows; `RecoverDeleting` and `RecoverStuck` are the startup
recovery, which runs beside the first requests. Which files a run finds is
reduced to their number.

### OrphanFiles

The steps of one run of instance `Me`: `ListTorrents` and `BuildOwn` (torrents,
then file lists), `OtherInstances`, `CheckOverlap`, `ConfirmDisjoint` and
`MergeOther` (the other active instances), `Walk`, and for the deletion
`StartDeletion`, the same construction of the map again, `LoadIgnorePaths`, and
for each row `SkipRow` or `CheckRow` and `RemoveRow`. Between any two of them a
torrent may appear, lose or gain its file list or vanish, an instance may be
switched, files may be written or removed and ignore paths edited. A path is the
set of its ancestors, so the normalised prefix tests of the code become
membership. Which torrents and files have been there "all along" is kept in
history variables (`watch`, `watchDel`, `old`, `oldDel`, `shield`) that no step
of the run reads.

### SearchScheduler

`state[t]` follows the task of one job at one indexer from Submit through
channel, heap and worker. The loop's `select` is the choice between `TakeBatch`,
`TakeToken` and `CoalesceFire`; a dispatch holds the mutex from the drain of the
heap to `ScheduleRetryTimer`, and takes the tasks in heap order, one step each
(`DispatchDead`, `DispatchSkip`, `DispatchBlocked`, `DispatchRun`). Contexts, the
worker pool, the rate limiter and downloads do not wait for that mutex. A worker
records its request, gets an answer, completes its task under the mutex, gives
back its slot and notifies the loop, in that order. `OnJobDone` is the goroutine
of searchIndexersWithScheduler that waits for its completions. Time is relative
(age of the last request, rest of a cool-down, rest of the timer), so
behaviours are infinite though states are finite. `ClockInDispatch` says whether
a tick may fall inside a dispatch, `Downloads` whether torrents are downloaded from
the indexers too. A download may ask to be paced (`req.Pace`); then it records a
request, otherwise only its answer touches the limiter. Two history variables say
where that matters: `missed`, the tasks whose wait ended inside the dispatch that had
put them back, and `overtaken`, the tasks at a worker whose indexer a download has
used or paused before the worker recorded its request.

### The web client

All five modules share three conventions. A *commit*: React runs the effects of a
component after each render and renders again while they change state, so one
step of a module is one commit with all its effects in their order (`Commit`,
`RunEffects`), and no event is handled between two of them. A *request*: it is
sent, computed by the server at one moment and answered at another; answers of
different requests overtake each other, and an answer acts on the state it finds.
*TanStack Query* (external) is modelled by what the client relies on: one cache
entry and at most one fetch per key, placeholder data of the former key, the
observer of a mutation that follows its latest call.

**TorrentsList.** The page asks for criteria (instance, filters, search, sort);
`Commit` is the reset effect (`ResetEffect`) and the data effect (`FirstPage`,
`NextPage`, `SkipData`) of useTorrentsList. `loadMore`, `Poll`, `Refetch`, `Serve`,
`Arrive` and `Fail`, `LoseNetwork` and `Reconnect`, and the deletion with its
optimistic update of every cached page (`DeleteSuccess`) and its delayed refetch
are the other actions. Rows are torrents; sorting is the order of the server's list.

**TorrentFilters.** `RunEffects` brings the filters to their normal form (children
first), loads the filters of an instance that was switched to, and saves. The
three states of a checkbox, merged trackers with several values, the long-press
timer and the click after it (`PointerDown`, `LongPress`, `PointerEnd`, `Click`), and
the answers that change what the sidebar knows are actions. The page may be loaded anew at any commit
(`Reload`). The cross-seed filter belongs to each row's menu, so several of its answers
may be under way (`crossSeed` counts them). `chosen` is history: what was last set while
each instance was shown, and whether a page was torn down before its effects had saved
that (`torn`).

**TorrentSelection.** A row is a hash on an instance, and the same hash may be on
two. `Refresh` is a poll with the effects that prune the selection. A dialog keeps
hashes and torrents; a handler makes a request of them (`Captured`: what it carries and
what it is meant for), which is sent (`Sent`) at once or, for a deletion whose cross-seeds
are to be blocked first, after the dialog has closed (`BlockingDone`). Speed limits may be
two requests (`SendBoth`). The requests of one mutation share an observer that follows the
latest (`Superseded`), and `isPending` sees only what an observer follows; so a dialog may
be opened beside requests it does not wait for, and their answers forget its torrents
(`Forget`). The server resolves a request as BulkAction does it (`Named`): from targets,
from hashes, or from filters with exclusions. The search for cross-seeds in the dialog of a
deletion (`CheckCrossSeeds`), the choice to delete them, and the request of that deletion,
which in the view of all instances has neither targets nor exclusions (`Bare`), are
modelled. `opened` is history: what a dialog was opened for and beside which requests.

**CrossSeedSearch.** The dialog, a few slots for requests under way, and on the
server the results of the latest search per torrent, the filtering state per torrent
and the background filtering. Entries of the caches may expire between any two
requests, requests may fail, the server may restart; in the server, a request is
handled whole except that adding releases is a step per release. What of the dialog only
delays a search (the cooldown after a refresh, the metadata of the server's cache) is left
open: a search may start at any time the other conditions allow. `CrossSeedPromise` has
no dialog and no requests: `KeepsPromise` is the refinement, with the mapping
`fresh <- cache`, `accepted <- Adding` (the pairs that requests hold in hand) and
`added <- added`.

**WorkflowForm** looks inside a form: a value that may be undefined is a set of at
most one value, `buildPayload` and the hydration (`hydrateLimit` and its like) translate
between form and rule field by field, `Settled` applies the effects that correct a
form, `Accepted` is the validation by Submit and `validatePayload` the server's.
`mapDomainsToOptionValues` merges the domains of a customization of trackers. The form is
hydrated when it opens and again when the customizations arrive (`Hydration`); capabilities
and customizations may be under way when it opens, and are again once the page was left;
the local access of the instance may be switched at any time, also below a stored rule that
needs it. A path for the free space is one the server takes or not; of the fields of a
condition only one is looked at (the free space, a group of the rule's own, a field that
needs local access, or a plain one); the user's own groups are one group, and
customizations have no domain in common (with one, the order of the customizations says
which of them it is merged into). The page and the server
learn of a switch of the access together. A closed form is reset, because opening hydrates
it anew. `Unchecked` names the faults the server refuses and Submit does not look for.

**WorkflowEditor** takes the form as one value and looks at the processes around it:
Submit with its check of regular expressions, the preview before saving, the
confirmation, the live preview with its timer, the switches in the list with a
preview of their own, and the answers, which find the dialog open, closed or showing
another rule. The server stores a rule in one step (`ServeRule`), some time before
its answer arrives.

In `MCTorrentsPage` and `MCDialogs` one part is in use at a time while the others
rest: the parts share no state, and a run of each is a run of the composite.

## 3. Runs

| Run | Instance | Shows |
|---|---|---|
| `orphan_runs_overlap` | 2 runs, 1 user, 1 scheduled job, 1 failing statement | `TypeOK`, `MutexIsDeletion`, `OneRunAtATime`, `RegisteredIsAlive` |
| `orphan_runs_progress` | 1 run, 2 users, 1 scheduled job, 2 files, 1 crash, fair | `DeletionAuthorized`, `NoZombieDeleting`, `FinishedStable`, `ScansEnd`, `DeletionsEnd` |
| `orphan_files_safe` | 5 directories, 4 files, a torrent in each of 2 instances, 2 changes | `TypeOK`, `SteadyFilesSafe`, `OwnListedSafe`, `IgnoredSafe` |
| `orphan_files_shared` | as `orphan_files_safe` | violation of `OtherInstancesSafe` |
| `scheduler_safe` | 2 jobs, 2 indexers, 2 workers, a clock that moves inside a dispatch | `TypeOK`, `InFlightExact`, `JobDoneOnce`, `NoLostWakeup` |
| `scheduler_progress` | 2 jobs, 1 indexer, 1 event, downloads, fair | `RssPendingExact`, `RequestAllowed`, `TasksFinish`, `WholeJobsDelivered` |
| `torrents_page` | list: 3 torrents, pages of 1 row, 1 disturbance; filters: 2 instances, 5 checkboxes, 3 events; fair | `PageTypeOK`, `RowsMatchCriteria`, `ListIsPrefix`, `LoadingEnds`, `ListConverges`, `FiltersBelongToInstance`, `PressTogglesOnce`, `FiltersSettle` |
| `torrents_list_offline` | list: as `torrents_page`, 1 outage and nothing else | violation of `RowsMatch` |
| `torrent_selection` | 3 torrents (one hash on both of 2 instances, two torrents that share files), 2 rows loaded, opened on one of 2 orders, 2 gestures, 1 change, 2 requests, 4 of these together | `TypeOK`, `SelectionOnScreen`, `RequestReachesSelection`, `DialogKeepsTorrents` |
| `torrent_recheck` | as `torrent_selection` | violation of `RecheckReachesSelection` |
| `web_dialogs` | search: 2 torrents, 1 release, 2 requests at once, 5 clicks, 1 fault; form: the delete and category rules, 2 edits; editor: 1 rule, 4 acts, 1 fault; fair | `DialogsTypeOK`, `FilteringEnds`, `KeepsPromise`, `ReopenKeeps`, `FormFits`, `NoSilentActivation`, `LivePreviewCurrent` |
| `cross_seed_no_capable` | 2 torrents, one without capable indexers, no faults, fair | violation of `FilteringEnds` |

Bounds, and why they are enough. *Runs*: an instance has at most one active
run, so overlap needs two; everything else about a run involves only that run
and the threads that hold a stale view of it, and two users beside the scheduler
give every pair of requests. Two files with a threshold of one put a scan on
either side of `AutoCleanupMaxFiles` and let a deletion stop half way. One
failing statement and one crash can fall anywhere; a second of either repeats
the situation after the first. *Files*: the tree has a disc folder with
its marker two levels down, a torrent whose save path is not where its payload
is, a file beside the marker that belongs to one instance while the disc belongs
to the other, and a file nobody claims. Every combination of torrent states and
files is a start. Two changes allow "add, then lose the list" and "change here,
change there". That several torrents of one instance shield each other's files
is left to the proofs. *Scheduler*: two jobs of either priority collide in every way at one
indexer; with two indexers a job has more than one completion to count. The
channels have capacity 1, so that a notification is dropped early. A tick is
some 15 seconds: the intervals are 1 and 2 ticks, the accepted wait 1, a
cool-down 3 (2 with two indexers), and the timer limit 2. An event is the end of a
caller's context or the start of a download; that a context given to a queued task ends is
not counted, since it happens once per task. *Page*: three torrents in pages of one row give a list that is not whole
after two pages, so that a torrent that comes or goes shifts the rows of a page
that is cached; one of {change of the server, failed request, outage, action} at a
time, at any moment, beside any number of polls and one change of the criteria. The
checkboxes are one of each kind and a tracker that is in two of them; with three
events a filter is set, the instance switched and switched back. *Selection*: two
of three torrents are loaded, so that "all selected" means more than the table shows;
two gestures select and exclude, one change falls between opening and confirming, and two
requests (a search for cross-seeds counts as one, a pair of limits as two) put one under
way beside the dialog of another; the page opens on one order of the torrents
(`MCSpec`) and a change may bring the other. *Search*: five clicks close the dialog of a torrent with requests under
way and open and use that of another. *Form*: the delete and category rules of every kind that the server accepts are
starts, every control is an action, and what is under way arrives at any time, so two edits
combine any two controls, or one with a switch of the access; a rule that was saved can be
opened, edited and saved again.
*Editor*: four acts open, edit, submit and interfere; that the number of rules and of
contents does not matter is proved.

Two more configurations hold and are kept beside the runs: `SchedulerContexts.cfg` (module
`MCSearchScheduler`; three events, cool-downs restored at the start, 3 million states) for the invariants of
`scheduler_progress`, and `TorrentsListSafe.cfg` (`MCTorrentsList`; three pages and two changes
of the criteria, so that the second comes back to cached pages) for `RowsMatchCriteria` and
`ListIsPrefix`.

`CHECK_DEADLOCK FALSE` is set where bounded counters end the behaviour: the orphan
scan, and the client, whose user has a bounded number of events. The scheduler runs
for ever and is checked for deadlock.

Fairness is weak only. For the runs: a goroutine or a started request goes on
while it can, which the Go scheduler and the database guarantee; nobody is
obliged to send a request, to crash or to change anything. `ScansEnd` excepts
failing statements and crashes, because the recovery deliberately spares young
rows; `DeletionsEnd` excepts failing statements only. For the scheduler: the loop
takes some ready case (no case is promised in particular), the clock advances,
every search ends because its context and its HTTP client have timeouts, and
callback goroutines run. Submitting, the end of contexts and downloads are not
fair. For the client: React runs
its effects; the polling interval fires, an online client's requests are served and
answered or fail, a lost network comes back, and the background filtering, which has a
timeout, ends. What the user does, and that anything expires or fails, is never
promised. `LoadingEnds` excepts a page whose request failed and `FilteringEnds` a failed
request, as described in section 5.

## 4. Proofs

Every invariant and every action property of the passing runs, and the refinement
`KeepsPromise`, is a theorem, and none has a hypothesis beyond the named assumptions on
the constants. The theorems hold for any number of runs, threads, instances,
files, torrents, jobs, indexers, workers, rows, filters, rules, requests, faults, crashes and
changes, under the named assumptions of the modules: bounds are natural numbers;
`TreeAssumption` says that the ancestors of a path form a chain; `EscalationAssumption` that
every escalation period is positive, and cool-downs restored at the start are natural numbers; `ListAssumption` that a page has at least one row and the
first list of the server is a sequence of torrents; `FiltersAssumption` that the values of a
checkbox are finitely many of its group; `SelectionAssumption` that there are finitely many
rows, in some order, that a hash is of one row unless the view is of all instances, and that
torrents which share files are of one instance; `CrossSeedAssumption` and `EditorAssumption` that the values for "no
torrent", "no rule" and "no content" are none of those there are; `FormAssumption` that
"delete" is none of the actions that combine and that no domain is in two customizations. Each proof has an inductive invariant, which
holds at first and of which every action preserves every part: one lemma per part and one
step per action, or, where the parts need each other, one lemma per action.

**OrphanRuns** (`TypeCorrect`, `MutualExclusion`, `NoLeakedCancelFunc`,
`OnlyAuthorizedDeletions`, `OneRunPerInstance`, `NoStrandedDeletion`,
`FinishedRunsStayPut`). Mutual exclusion is not inductive: a second goroutine
for a run would break it. `RegisterOnce` and `ScanBeforeDeletion` say that a run
gets one scan and that no deletion of it can be asked for before the scan is
through; `NothingAhead` that an id not yet handed out has nothing;
`MutexOfInstance` that a mutex names a run of its own instance. `AutoChecked`
carries maybeAutoCleanup's two checks to the lock taken a step later.
`OneRunAtATime` says that runs of an instance that were never finished do not overlap,
unless the older one is a preview whose count of orphans was lost to a failed statement: its
row says 0 files, so CreateRunIfNoActive starts a second run beside it, and it may be
confirmed later. It needs `StatusFollowsWork` (as long as a row was never finished, its
status is the one its goroutine believes) and `CountsStored` (a preview has its count unless
a statement failed). `NoZombieDeleting` needs the
stronger `DeletingHasWriter`: the deletion behind a "deleting" row is one that
will still write, with a context nobody has canceled.

**OrphanFiles** (`SteadyFilesAreSafe`, `OwnListedFilesAreSafe`,
`IgnoredFilesAreSafe`, `TypesStay`). `Watching` ties what the history says of a torrent to
what the listing in hand says. `MapShields` is the heart: for every instance
buildFileMap is through with, a watched torrent's files are in the map, or its
save path is a skipped root, or its roots do not overlap the scan's. The walk
turns it into `RowsClear`: no row of the preview is or contains such a file, and
none of them changes afterwards. `MapOwn` is the same for the second map and this
instance's listed torrents, `RowsAllowed` for ignore paths; `CheckedClear` carries
the check of a row to its removal.

**SearchScheduler** (`TypesHold`, `OneSearchPerIndexer`,
`DeduplicationIsExact`, `WakeupsAreNotLost`, `RequestsAreAllowed`,
`EachJobDoneOnce`). The exactness
of `inFlight`, the pool and `pendingRSS` is proved with the types (what is still
to dispatch is queued) and `NotBegun`. `WakeupsAreNotLost` needs `PutBack`: a
task a dispatch has put back waits for a positive time, or its wait has ended inside the
dispatch (`missed`), or some worker will notify or has notified the loop. Ticks inside a
dispatch are allowed for; what is excepted is only the queue in which every task is `missed`.
`RequestsAreAllowed` carries the dispatch's finding to the worker (`StillReady`); a download
may break it, for the tasks in `overtaken` and no others. `EachJobDoneOnce` counts: a registered job has completed what it was
registered with less its pending tasks (`JobCounted`), so the last completion is
recognised exactly once, and a pending task always has its job in the table.

**Keeping.** TorrentsList and TorrentFilters filter sequences, with a recursive function
(`Keep`) in place of SelectSeq, which the provers do not see into. Its laws (`KeepFilters`,
`KeepDistinct`, `KeepIn`, `KeepAll`: the result has the same members of the set, in a
sequence no longer and without new doubles) need an induction over the length. It is done
with a set: `InductiveSet` says that a set of naturals with 0 and every successor is all of
them, and follows from `NatLessThanWellFounded` and `WFMin`; the set in question is that of
the lengths for which the law holds.

**TorrentsList** (`ListInvHolds`, `ListRowsMatch`, `ListFollowsServer`, and the list's share
of `PageTyped`). Rows come from answers, so `AnswersMatch` (an answer matches the criteria of
its key) carries the first property to the data effect; that the effect does not take a
placeholder needs `Asked`: with the network up, an observed query without data is under way,
so `isFetching` says so. Without a network this fails, which is finding 4, and
`RowsMatchCriteria` speaks of behaviours without an outage. For the second,
`AnswersCurrent` says that an answer of the present version of the server's list is the
present answer, `PagesInOrder` that the pages taken are 0, 1, ... as far as `lastProcessedPage`
or, right after the first, one commit ahead of it, and `RowsInOrder` that rows joined from
such pages are a beginning of the list (`JoinPages`). `Counted` bounds what the server's list
can grow to, as `TypeOK` asks.

**TorrentFilters** (`FiltersStayWithTheirInstance`, `PressesToggleOnce`,
`ExpansionFollowsTheCategories`, `FiltersTyped`, `NeverIncludedAndExcluded`, all in
`TorrentsPageProofs`). `Settled` says what differs between two commits of a
switch: until the load has run, the filters on screen are those of the former instance
and only the stored ones can be trusted; then the save writes what was just loaded. A page
loaded anew between the two commits keeps the wrong ones, and `torn` excepts what follows.
`PressArmed`: a press whose timer still runs has not toggled, and one that has toggled
has set skipNextToggleRef for its click. The third theorem is the
safety half of `FiltersSettle`. `Good` says of the filters shown, stored and captured by a
press that included and excluded values are lists without doubles and have none in common;
all three are needed, since each becomes what is shown. The heart is that setting
the merged values of a checkbox takes them out of one list before it adds them to the other
(`GoodToggle`, from `DroppingRemoves` and `WithAdds`).

**TorrentSelection** (`SelectionTyped`, `SelectionStaysOnScreen`, `DialogsKeepTheirTorrents`,
`RequestsReachTheSelection`). That the selection is on screen is inductive as it stands;
for the dialogs the invariant says that a request under way beside an open dialog is the
dialog's own, whose answer closes it, or one that isPending did not see when the dialog was
opened (`Own`), so no other answer can empty it, and that a dialog's torrents are what was
selected when it was opened, or none (`DialogFits`). A request, once captured, keeps what is
asked of it until it is sent (`Ready`), while the blocklist is awaited and torrents go
(`ReadyStays`). The theorem then says what a request reaches in each case: exactly what is
left of what was chosen, or less when the dialog was emptied, or, for a deletion with
cross-seeds in the view of all instances, copies of what was chosen on any instance. It
holds in both views (`Unified`).

**CrossSeedSearch** (`PromiseIsKept`, `SearchTyped`). The refinement is proved, not only
checked: the invariant is the types, that every request is about a torrent (`AboutTorrents`)
and that only a request to apply adds anything (`OnlyApplyAdds`); then each action is a step
of `CrossSeedPromise` or leaves its variables alone (`StepsKeepPromise`). The only one that
makes releases appear in `Adding` is ApplyTorrentSearchResults, which takes them from the
cache entry of the request's own torrent, whichever torrent the dialog shows. The part of
`TypeOK` that could be wrong is `PollsWhatIsShown`: a torrent is polled only while the dialog
is open, shows it, and knows it to be incomplete; every step that replaces what is
shown ends with the effect that says so.

**WorkflowForm** (`FormKeepsFit`, `ReopeningKeepsTheRule`, `FormsFitTheServer`, `FormTyped`).
`FormInv` says that the form has its fields (`Shaped`), that delete stays alone (`Fit`), that no effect has anything left to correct
(`Rests`), and that a rule this editor stored is the payload of a form that was corrected
(`MineIsPayload`). `ReopenReturns` is the round trip, a lemma about the operators alone:
the payload of a corrected form, hydrated, corrected by the effects and built again, is the
same payload but for its trackers, which are what `mapDomainsToOptionValues` makes of them,
and for the path of its free space if the capabilities were not known. It goes field by field; a field that is not sent (`Opt`) must come back as the
default that is not sent again, and the limits through `hydrateLimit` (`AmountReturns`).
`Rests` is needed, because the effects would change a form that is not. `AcceptedIsServed` is
the other lemma: of the forms that Submit accepts the server accepts those that have none of
the faults of `Unchecked`, and no others. The controls keep
`Shaped` and `Fit`, and the effects then make the form rest; so neither bound on edits nor
number of tag actions matters.

**WorkflowEditor** (`NothingEnabledUnseen`, `LivePreviewFollows`, `EditorTyped`).
`PreviewsWarn` and `ConfirmWarns` carry the need of a preview from the request through the
answer to the dialog that can be confirmed; `LiveFollows` says that the live request that
counts and the timer are for the form as it is, so a late answer of another is discarded.
`FormsInv` says where `NoForm` may stand: in lists, timers and as the base of a new rule,
but never as the form of the editor or of a request, nor in a confirmation that is open.

**The dialogs together** (`DialogsTyped`, `DialogsKeepTheirPromises`, `DialogsKeepPromise`).
A step of one part leaves the variables of the others alone, so the conjunction of the three
invariants (`DialogsInv`) is inductive for the composite, and each step of it is a step or a
stutter of `CrossSeedPromise`.

Only model-checked: liveness (`ScansEnd`, `DeletionsEnd`, `TasksFinish`,
`WholeJobsDelivered`, `LoadingEnds`, `ListConverges`, `FiltersSettle`, `FilteringEnds`), which
needs fairness and ENABLED and is out of the prover's reach. The violations of section 5 are
counterexamples and need no proof.

## 5. Findings

Four runs show the code and what it says of itself apart:

1. `orphan_files_shared`: other instances are compared with roots from which
   those under a transient torrent have been filtered, so a recheck here makes
   files of another instance erasable.
2. `torrent_recheck`: the dialogs for recheck, reannounce and automatic management keep
   hashes but no torrents, so in the unified view the request carries no instance, or
   the torrents of a dialog that was cancelled before.
3. `cross_seed_no_capable`: without capable indexers the cached filtering state is
   never marked complete, and after a search the dialog polls for ever.
4. `torrents_list_offline`: the criteria change while the network is lost; the query of the
   new ones is paused, which is not fetching, so its placeholder, the rows of the old
   criteria, is taken for its answer and fills the list that was just emptied.

### Counterexamples outside the runs

These configurations are kept beside the runs. Each ends with a violation; to replay
one, `tlc -config X.cfg M`.

| Configuration | Module | Property | What happens |
|---|---|---|---|
| `OrphanRunsUnregistered.cfg` | `MCOrphanRuns` | `DeletionRegistered` | the scan goroutine's deferred `delete(s.cancelFuncs, runID)` removes the function of the deletion that auto-cleanup has started meanwhile; CancelRun takes the running deletion for a leftover, answers success, and a new scan may start beside it |
| `OrphanRunsCanceled.cfg` | `MCOrphanRuns` | `CanceledErasesNothing` | CancelRun and ConfirmDeletion act on statuses read earlier and the update has no guard, so a run reported as canceled may still erase files |
| `OrphanRunsUncounted.cfg` | `MCOrphanRuns` | `NeverTwoActive` | the failure of UpdateRunFoundStats is only logged: the preview keeps `files_found = 0`, CreateRunIfNoActive does not count it, a second scan starts, and the preview is confirmed and deletes beside it (orphan_scan.go:177 says the check prevents two active runs) |
| `OrphanFilesAdded.cfg` | `MCOrphanFiles` | `AddedSinceScanSafe` | the deletion drops the skipped roots of its second map; a torrent added since the scan without a file list does not protect its files |
| `SchedulerStall.cfg` | `MCSearchScheduler` | `TasksFinish` | the retry timer asks for the wait a second time; if it has just ended no timer is set and nothing wakes the loop for the queued task |
| `SchedulerDedup.cfg` | `MCSearchScheduler` | `JobsDelivered` | a search that lost an indexer to RSS deduplication waits for ever for a completion that Submit never announces |
| `SchedulerDownloads.cfg` | `MCSearchScheduler` | `NeverTooEarly` | a download is recorded between the dispatch of a search and the record of its request, so that two requests fall into one interval |
| `TorrentsListDeleted.cfg` | `MCTorrentsList` | `DeletedRowsLeave` | the data effect skips an answer whose rows it has taken before (`lastProcessedPage`), so rows deleted optimistically on a later page stay |
| `TorrentsListFirstPage.cfg` | `MCTorrentsList` | `FirstPageFirst` | the criteria change on the second page: the data effect of that commit sees the page number of before the reset and takes a page 1 of the new criteria that is cached, while page 0 is no longer; a list without its first page is shown until page 0 arrives. `ListIsPrefix` speaks of lists that begin with page 0 |
| `TorrentsPageReload.cfg` | `MCTorrentsPage` | `FiltersNeverMix` | the page is loaded anew between the two commits of a switch of the instance: the filters of the old instance have been saved under the new one |
| `TorrentSelectionCrossSeeds.cfg` | `MCTorrentSelection` | `DeletionReachesSelection` | a deletion with cross-seeds drops targets and, in the view of all instances, exclusions (TorrentTableOptimized.tsx:2129): the same hash is deleted on an instance that was not selected |
| `TorrentSelectionEmptied.cfg` | `MCTorrentSelection` | `DialogNeverEmptied` | the answer to a request that isPending does not see (the first of two speed limits, a deletion that waits for the blocklist, a request whose observer follows another) clears the torrents of the dialog opened meanwhile |
| `WorkflowFormTrackers.cfg` | `WorkflowForm` | `ReopenKeepsAll` | a rule for one domain is opened with the merged customization of the domain, and saving it unchanged extends it to all its domains |
| `WorkflowFormRefused.cfg` | `WorkflowForm` | `SubmitSuffices` | Submit lets through what the server refuses: a path that is not absolute or has "..", a condition on a group that was removed, fields or hard links that need an access that is gone, a delete group under another mode, a score sort whose rules have all been dropped |
| `WorkflowFormRehydrated.cfg` | `WorkflowForm` | `EditsKept` | the customizations of the trackers arrive while the form is open: it is hydrated again and the edits are lost |
| `WorkflowFormCold.cfg` | `WorkflowForm` | `SourceKeptOffWindows` | a rule opened before the capabilities have arrived is taken for one on Windows, and its free-space source "path" becomes "qbittorrent" (WorkflowDialog.tsx:1191 speaks of Windows only) |
| `WorkflowEditorConfirm.cfg` | `WorkflowEditor` | `ConfirmMatchesPreview` | an edit between Submit and the answer to its check of regular expressions: the preview is of the old form, what is confirmed is the new one (comments at WorkflowDialog.tsx:1523 and :1992) |

Each of the properties that these violate has a weaker form which the runs check and the
proofs prove, and which says in what case the strong one fails: `OneRunAtATime`,
`RequestAllowed`, `NoLostWakeup`, `FiltersBelongToInstance`, `RequestReachesSelection`,
`DialogKeepsTorrents`, `ReopenKeeps` and `FormFits`.

### Observed while modelling

Of these no property is checked, or one excepts them. The one marked with (*) was read in
the code but is outside the models.

*Torrent list and selection.* A page that failed while loading more leaves
`isLoadingMore` set (`LoadingEnds` excepts it); scrolling while offline appends the
placeholder page again. Ctrl+A is still heard under the deletion dialog, and confirming
then deletes everything (`RequestReachesSelection` leaves out the mode "widened"). The
server resolves "all selected" with the cross-seed expression *or* the column filters,
while the list shows what passes both. Upload and
download limits are two requests, either of which may fail alone. (*) Tags are updated by a
removal and an addition, which the model takes for one request. Under select-all the
cross-seeds found for the loaded torrents are announced in the dialog of a deletion but not
part of its request, and the property does not ask for them.

*Filters.* A long press acts on the filters of the render that started it and can
overwrite newer ones. The cross-seed filter's answer is applied to whichever instance
is shown. A long press without a click leaves `skipNextToggleRef` set, and the next click
on that box is lost.

*Cross-seed dialog.* A failed analysis, or a failed poll, leaves "Filtering..." with Search
off until the dialog is opened again (`FilteringEnds` excepts failures). A late answer for
another torrent replaces the source shown, and an apply of one torrent may show its result
in the dialog of another; what is *added* is still right, which is what `KeepsPromise`
says. Closing the dialog resets `submitting`, so an apply can be sent twice.

*Workflows.* The answer to the check of regular expressions saves the form into the rule
the dialog shows by then; Submit pressed again meanwhile saves twice; the answer to a save
closes the editor of another rule. The switch of the editor saves without the
validation of Submit. Cancelling its confirmation restores the value of a stale closure,
and a failing preview closes it without restoring any. The interval effect corrects a form
on opening, although its comment (WorkflowDialog.tsx:1180) says "Only switch on user
edits, not during initial hydration". A delete group stored with a rule has no control and
can make it unsavable once its mode is changed.

*Server.* One failing status write leaves a row pending or scanning until the next start.
A directory is checked in one walk and removed in another, and a file written between is
erased unseen.

## 6. Not modelled

In the modelled components: the scheduler's `Stop` (only tests call it), search history
and the contents of results. In the orphan scan, the folders and files allowed beside a
disc marker, the ignored names, and the removal of empty directories, which takes no
file. In the client, the card list of phones, which has a selection of its own; counts of
tracker URLs; payloads of actions; views, paging and export of a workflow preview; order,
import and duplication of workflows; layout, wording and translation everywhere.

Of the rest of the inventory, each component with the status `not_modelled` has its reason
in `PROJECT.json`. By far the largest part of the source is the client's markup: a
component of two or three thousand lines is, for the most part, one expression that lays
out what its state says, and the modules here stand for its hooks, effects and handlers
only. Type declarations (`types/index.ts`), the list of endpoints (`lib/api.ts`), settings
forms with one mutation each and pages that show one query have no behaviour that a model
would tell apart. The definitions therefore map some six percent of the client's lines,
and, in Go, the parts of the orphan scan and of the scheduler that keep state.

## 7. What could follow

1. `Backups`: run queue, claim and recovery; then the blob cache: a run that
   reuses a blob of an older run while that run is deleted. Abstract
   specification: a set of complete runs whose items all have their blobs.
2. `Reannounce`: job table, debounce and cool-down; a job that outlives the
   window is forgotten with its time of completion.
3. `Debouncer`: channel, timer and stop; a full buffer drops the newest function.
4. Directory scan and cross-seed runs, which follow the pattern of OrphanRuns
   with queues behind them; the client pool's back-off; proxy retries; the string
   pool's clean-up; link trees with roll-back.
5. In the client: the card list's selection against the same requests, and the optimistic
   updates of the other mutations of useTorrentActions.

--------------------------- MODULE SearchScheduler ---------------------------
(***************************************************************************)
(* Torznab searches: the RateLimiter, the searchScheduler with its loop,   *)
(* queue, workers and retry timer (internal/services/jackett/scheduler.go) *)
(* and the collection of a search's results (searchIndexersWithScheduler   *)
(* in service.go).                                                         *)
(*                                                                         *)
(* A job is one call of Submit; a task is the part of a job for one        *)
(* indexer.  Time is counted in ticks, as the time since the last request  *)
(* and the time left until a cooldown or the retry timer ends, so that     *)
(* behaviours may go on for ever.  The loop holds the scheduler's mutex    *)
(* from the drain of the queue to the setting of the timer; the contexts,  *)
(* the worker pool and the rate limiter's own mutex do not wait for it.    *)
(***************************************************************************)
EXTENDS Naturals, FiniteSets, Sequences

CONSTANTS Indexers,
          MaxJobs,      \* bound: calls of Submit
          Priorities, Rank,
          RSS,          \* the priority that is deduplicated
          Interval,     \* minInterval times the priority's multiplier, in ticks
          MaxWait,      \* getMaxWait, 0 for none
          Escalation,   \* escalationPeriods, in ticks
          Restored,     \* cooldowns that LoadCooldowns may find, 0 for none
          MaxRetry,     \* maxRetryTimerInterval
          MaxWorkers,
          ChanCap,      \* capacity of submitCh and of completeCh
          MaxEvents,    \* bound: contexts of callers that end, downloads that start
          Downloads,    \* whether torrents are downloaded from the indexers too
          ClockInDispatch  \* whether a tick may fall within dispatchTasks

ASSUME PrioritiesAssumption ==
  /\ RSS \in Priorities
  /\ Rank \in [Priorities -> Nat]
  /\ Interval \in [Priorities -> Nat \ {0}]
  /\ MaxWait \in [Priorities -> Nat]
  /\ \E p \in Priorities : \A q \in Priorities : Interval[q] <= Interval[p]
ASSUME IndexersAssumption == IsFiniteSet(Indexers)
ASSUME BoundsAssumption ==
  /\ MaxJobs \in Nat /\ MaxEvents \in Nat
  /\ MaxRetry \in Nat \ {0} /\ MaxWorkers \in Nat \ {0} /\ ChanCap \in Nat \ {0}
  /\ Downloads \in BOOLEAN /\ ClockInDispatch \in BOOLEAN
ASSUME EscalationAssumption ==
  /\ \A n \in DOMAIN Escalation : n \in Nat \ {0} /\ Escalation[n] \in Nat \ {0}
  /\ Restored \subseteq Nat

Jobs == 1..MaxJobs
Tasks == Jobs \X Indexers
JobOf(t) == t[1]
IndexerOf(t) == t[2]
TasksOf(j) == {t \in Tasks : JobOf(t) = j}

VARIABLES
  \* Submit
  jpc,        \* none, collect, send, accepted or refused
  prio,       \* the job's priority
  want,       \* indexers the caller asked for
  ctx,        \* the caller's context: live, canceled or expired
  sent,       \* jobs sent to submitCh, in order
  taken,      \* how many of them the loop has received
  \* tasks
  state,      \* see Stages
  fresh,      \* tasks given a context of their own ...
  stale,      \* ... that has expired too
  \* scheduler
  pendingRSS, inFlight, workers,
  total, completed,   \* jobState; total is 0 when the job is not in s.jobs
  lpc,        \* the loop: select or dispatch
  coalesce,
  todo,       \* tasks the dispatch has not come to
  tokens,     \* completeCh
  timer,      \* ticks until retryTimer fires, 0 for none
  \* rate limiter
  age,        \* ticks since the last request, up to the longest interval
  cool,       \* ticks until cooldownUntil
  level,      \* escalationLevel
  download,   \* none, checked or sent
  \* callbacks of searchIndexersWithScheduler
  jobDone,    \* number of OnJobDone calls
  delivered,  \* jobs whose resultCallback has been called
  \* environment and history
  events,
  missed,     \* tasks put back by the last dispatch whose wait ended inside it
  overtaken   \* tasks at a worker whose indexer a download has used or paused since

submit == <<jpc, prio, want, sent>>
contexts == <<ctx, fresh, stale>>
jobstate == <<total, completed, jobDone>>
loop == <<lpc, coalesce, todo, missed>>
wakeups == <<tokens, timer>>
limiter == <<age, cool, level, overtaken>>
vars == <<submit, taken, contexts, state, pendingRSS, inFlight, workers, jobstate, loop,
          wakeups, limiter, download, delivered, events>>

\* The life of a task: absent or not yet reached by Submit; dropped as a duplicate or with
\* its job; in Submit's list; in submitCh; in the queue; with a worker that has not yet
\* recorded the request, waits for the answer, has it, has reported it and has given back
\* its slot; and done.
Stages == {"none", "dropped", "collected", "batched", "queued", "dispatched", "running",
           "answered", "finished", "released", "done"}
AtIndexer == {"dispatched", "running", "answered"}
Pending == {"collected", "batched", "queued"} \cup AtIndexer
Completed == {"finished", "released", "done"}

IsRSS(t) == prio[JobOf(t)] = RSS
Queued == {t \in Tasks : state[t] = "queued"}
AtIndexers == {t \in Tasks : state[t] \in AtIndexer}
SlotHolders == {t \in Tasks : state[t] \in AtIndexer \cup {"finished"}}
RssOnTheWay == {t \in Tasks : IsRSS(t) /\ state[t] \in Pending}
Notifiers == {t \in Tasks : state[t] \in AtIndexer \cup {"finished", "released"}}
Collected(j) == {t \in TasksOf(j) : state[t] = "collected"}
Longest == CHOOSE n \in {Interval[p] : p \in Priorities} :
              \A p \in Priorities : Interval[p] <= n
Least(S) == CHOOSE n \in S : \A k \in S : n <= k

Init ==
  /\ jpc = [j \in Jobs |-> "none"] /\ prio = [j \in Jobs |-> RSS]
  /\ want = [j \in Jobs |-> {}] /\ ctx = [j \in Jobs |-> "live"]
  /\ sent = <<>> /\ taken = 0
  /\ state = [t \in Tasks |-> "none"]
  /\ fresh = {} /\ stale = {}
  /\ pendingRSS = {} /\ inFlight = {} /\ workers = 0
  /\ total = [j \in Jobs |-> 0] /\ completed = [j \in Jobs |-> 0]
  /\ lpc = "select" /\ coalesce = FALSE /\ todo = {}
  /\ tokens = 0 /\ timer = 0
  /\ age = [i \in Indexers |-> Longest]
  /\ cool \in [Indexers -> Restored]
  /\ level = [i \in Indexers |-> 0]
  /\ download = [i \in Indexers |-> "none"]
  /\ jobDone = [j \in Jobs |-> 0] /\ delivered = {}
  /\ events = 0 /\ missed = {} /\ overtaken = {}

\* s.mu is free: the loop is in its select.
Unlocked == lpc = "select"

-----------------------------------------------------------------------------
(* Submit *)

\* searchIndexersWithScheduler calls Submit for some indexers.
SubmitBegin(j, p, I) ==
  /\ jpc[j] = "none" /\ \A k \in 1..j - 1 : jpc[k] # "none"
  /\ jpc' = [jpc EXCEPT ![j] = "collect"]
  /\ prio' = [prio EXCEPT ![j] = p]
  /\ want' = [want EXCEPT ![j] = I]
  /\ UNCHANGED <<sent, taken, contexts, state, pendingRSS, inFlight, workers, jobstate,
                 loop, wakeups, limiter, download, delivered, events>>

\* One indexer.  An RSS task is dropped when one is pending for the indexer.
SubmitCollect(j, i) ==
  /\ jpc[j] = "collect" /\ i \in want[j] /\ state[<<j, i>>] = "none" /\ Unlocked
  /\ IF prio[j] = RSS /\ i \in pendingRSS
     THEN state' = [state EXCEPT ![<<j, i>>] = "dropped"] /\ UNCHANGED pendingRSS
     ELSE /\ state' = [state EXCEPT ![<<j, i>>] = "collected"]
          /\ pendingRSS' = IF prio[j] = RSS THEN pendingRSS \cup {i} ELSE pendingRSS
  /\ UNCHANGED <<submit, taken, contexts, inFlight, workers, jobstate, loop, wakeups,
                 limiter, download, delivered, events>>

\* Mutant: the job waits for every indexer of the request, the dropped ones too.
SubmitRegisterAll(j) ==
  /\ jpc[j] = "collect" /\ \A i \in want[j] : state[<<j, i>>] # "none"
  /\ \/ /\ Collected(j) = {}
        /\ jobDone' = [jobDone EXCEPT ![j] = @ + 1]
        /\ jpc' = [jpc EXCEPT ![j] = "accepted"]
        /\ UNCHANGED total
     \/ /\ Collected(j) # {} /\ Unlocked
        /\ total' = [total EXCEPT ![j] = Cardinality(want[j])]
        /\ jpc' = [jpc EXCEPT ![j] = "send"]
        /\ UNCHANGED jobDone
  /\ UNCHANGED <<prio, want, sent, taken, contexts, state, pendingRSS, inFlight, workers,
                 completed, loop, wakeups, limiter, download, delivered, events>>

\* The job is registered, or done at once if nothing is left of it.
SubmitRegister(j) ==
  /\ jpc[j] = "collect" /\ \A i \in want[j] : state[<<j, i>>] # "none"
  /\ \/ /\ Collected(j) = {}
        /\ jobDone' = [jobDone EXCEPT ![j] = @ + 1]
        /\ jpc' = [jpc EXCEPT ![j] = "accepted"]
        /\ UNCHANGED total
     \/ /\ Collected(j) # {} /\ Unlocked
        /\ total' = [total EXCEPT ![j] = Cardinality(Collected(j))]
        /\ jpc' = [jpc EXCEPT ![j] = "send"]
        /\ UNCHANGED jobDone
  /\ UNCHANGED <<prio, want, sent, taken, contexts, state, pendingRSS, inFlight, workers,
                 completed, loop, wakeups, limiter, download, delivered, events>>

\* The batch goes to submitCh ...
SubmitSend(j) ==
  /\ jpc[j] = "send" /\ Len(sent) - taken < ChanCap
  /\ jpc' = [jpc EXCEPT ![j] = "accepted"]
  /\ sent' = Append(sent, j)
  /\ state' = [t \in Tasks |-> IF t \in Collected(j) THEN "batched" ELSE state[t]]
  /\ UNCHANGED <<prio, want, taken, contexts, pendingRSS, inFlight, workers, jobstate,
                 loop, wakeups, limiter, download, delivered, events>>

\* Mutant: the deduplication marks of a refused job stay behind.
SubmitRefuseLeaky(j) ==
  /\ jpc[j] = "send" /\ ctx[j] # "live" /\ Unlocked
  /\ jpc' = [jpc EXCEPT ![j] = "refused"]
  /\ total' = [total EXCEPT ![j] = 0]
  /\ state' = [t \in Tasks |-> IF t \in Collected(j) THEN "dropped" ELSE state[t]]
  /\ UNCHANGED <<prio, want, sent, taken, contexts, pendingRSS, inFlight, workers, completed,
                 jobDone, loop, wakeups, limiter, download, delivered, events>>

\* ... or the context ends first, and Submit takes everything back.
SubmitRefuse(j) ==
  /\ jpc[j] = "send" /\ ctx[j] # "live" /\ Unlocked
  /\ jpc' = [jpc EXCEPT ![j] = "refused"]
  /\ total' = [total EXCEPT ![j] = 0]
  /\ state' = [t \in Tasks |-> IF t \in Collected(j) THEN "dropped" ELSE state[t]]
  /\ pendingRSS' = IF prio[j] = RSS THEN pendingRSS \ {IndexerOf(t) : t \in Collected(j)}
                   ELSE pendingRSS
  /\ UNCHANGED <<prio, want, sent, taken, contexts, inFlight, workers, completed, jobDone,
                 loop, wakeups, limiter, download, delivered, events>>

-----------------------------------------------------------------------------
(* RateLimiter *)

\* Mutant: the cooldown and the interval are taken to be over together.
WaitEither(i, p) ==
  LET rest == IF age[i] < Interval[p] THEN Interval[p] - age[i] ELSE 0
  IN IF cool[i] < rest THEN cool[i] ELSE rest

\* computeWaitLocked: the cooldown or the rest of the interval, whichever is longer.
Wait(i, p) ==
  LET rest == IF age[i] < Interval[p] THEN Interval[p] - age[i] ELSE 0
  IN IF cool[i] > rest THEN cool[i] ELSE rest

TaskWait(t) == Wait(IndexerOf(t), prio[JobOf(t)])

\* RecordFailure
Escalated(i) == IF level[i] + 1 \in DOMAIN Escalation THEN level[i] + 1 ELSE level[i]

\* What an answer does to the indexer's state: RecordSuccess, RecordFailure or nothing.
RecordAnswer(i, outcome) ==
  \/ /\ outcome = "success"
     /\ level' = [level EXCEPT ![i] = 0]
     /\ UNCHANGED cool
  \/ /\ outcome = "limited"
     /\ level' = [level EXCEPT ![i] = Escalated(i)]
     /\ cool' = IF Escalated(i) = 0 THEN cool ELSE [cool EXCEPT ![i] = Escalation[Escalated(i)]]
  \/ /\ outcome = "error"
     /\ UNCHANGED <<level, cool>>

-----------------------------------------------------------------------------
(* The loop *)

\* dispatchTasks returns at once when the queue is empty, and drains it otherwise.
BeginDispatch ==
  /\ IF Queued = {} THEN UNCHANGED <<lpc, todo>> ELSE lpc' = "dispatch" /\ todo' = Queued
  /\ missed' = {}

TakeBatch ==
  /\ lpc = "select" /\ taken < Len(sent)
  /\ state' = [t \in Tasks |-> IF JobOf(t) = sent[taken + 1] /\ state[t] = "batched"
                               THEN "queued" ELSE state[t]]
  /\ taken' = taken + 1
  /\ coalesce' = TRUE
  /\ UNCHANGED <<submit, contexts, pendingRSS, inFlight, workers, jobstate, lpc, todo,
                 missed, wakeups, limiter, download, delivered, events>>

TakeToken ==
  /\ lpc = "select" /\ tokens > 0
  /\ tokens' = tokens - 1
  /\ BeginDispatch
  /\ UNCHANGED <<submit, taken, contexts, state, pendingRSS, inFlight, workers, jobstate,
                 coalesce, timer, limiter, download, delivered, events>>

CoalesceFire ==
  /\ lpc = "select" /\ coalesce
  /\ coalesce' = FALSE
  /\ BeginDispatch
  /\ UNCHANGED <<submit, taken, contexts, state, pendingRSS, inFlight, workers, jobstate,
                 wakeups, limiter, download, delivered, events>>

\* taskHeap.Less: by priority, then by the time of enqueueTasks.
Position(j) == CHOOSE n \in 1..Len(sent) : sent[n] = j
jobPriority(t) == Rank[prio[JobOf(t)]]
Before(t, u) ==
  \/ jobPriority(t) < jobPriority(u)
  \/ jobPriority(t) = jobPriority(u) /\ Position(JobOf(t)) < Position(JobOf(u))
First(t) == t \in todo /\ \A u \in todo : ~Before(u, t)

\* handleTaskCompleteLocked, and the end of the deduplication that follows each call of it.
Complete(t, s) ==
  LET j == JobOf(t)
      last == completed[j] + 1 >= total[j]
  IN /\ state' = [state EXCEPT ![t] = s]
     /\ pendingRSS' = IF IsRSS(t) THEN pendingRSS \ {IndexerOf(t)} ELSE pendingRSS
     /\ IF total[j] = 0
        THEN UNCHANGED jobstate
        ELSE /\ completed' = [completed EXCEPT ![j] = IF last THEN 0 ELSE @ + 1]
             /\ total' = [total EXCEPT ![j] = IF last THEN 0 ELSE @]
             /\ jobDone' = [jobDone EXCEPT ![j] = IF last THEN @ + 1 ELSE @]

Canceled(t) == t \notin fresh /\ ctx[JobOf(t)] = "canceled"
Expired(t) == t \notin fresh /\ ctx[JobOf(t)] = "expired"
Skipped(t) == MaxWait[prio[JobOf(t)]] > 0 /\ TaskWait(t) > MaxWait[prio[JobOf(t)]]

\* Once a task leaves the queue no decision depends on which context it has.
LeaveQueue(t) == todo' = todo \ {t} /\ fresh' = fresh \ {t} /\ stale' = stale \ {t}

\* The context was canceled, or the second one has expired too.
DispatchDead(t) ==
  /\ lpc = "dispatch" /\ First(t)
  /\ Canceled(t) \/ t \in stale
  /\ LeaveQueue(t)
  /\ Complete(t, "done")
  /\ UNCHANGED <<submit, taken, ctx, inFlight, workers, lpc, coalesce, missed, wakeups,
                 limiter, download, delivered, events>>

Live(t) == ~Canceled(t) /\ t \notin stale
\* The wait is more than the priority allows: RateLimitWaitError.
DispatchSkip(t) ==
  /\ lpc = "dispatch" /\ First(t) /\ Live(t)
  /\ IndexerOf(t) \notin inFlight /\ Skipped(t)
  /\ LeaveQueue(t)
  /\ Complete(t, "done")
  /\ UNCHANGED <<submit, taken, ctx, inFlight, workers, lpc, coalesce, missed, wakeups,
                 limiter, download, delivered, events>>

Blocked(t) ==
  \/ IndexerOf(t) \in inFlight
  \/ TaskWait(t) > 0
  \/ workers = MaxWorkers

\* The task goes back to the queue; if its deadline had passed, with a fresh context.
DispatchBlocked(t) ==
  /\ lpc = "dispatch" /\ First(t) /\ Live(t)
  /\ Blocked(t) /\ (IndexerOf(t) \in inFlight \/ ~Skipped(t))
  /\ todo' = todo \ {t}
  /\ fresh' = IF Expired(t) THEN fresh \cup {t} ELSE fresh
  /\ UNCHANGED <<submit, taken, ctx, stale, state, pendingRSS, inFlight, workers, jobstate,
                 lpc, coalesce, missed, wakeups, limiter, download, delivered, events>>

\* Mutant: only the rate limiter keeps two requests to an indexer apart.
DispatchRunBusy(t) ==
  /\ lpc = "dispatch" /\ First(t) /\ Live(t)
  /\ TaskWait(t) = 0 /\ workers < MaxWorkers
  /\ LeaveQueue(t)
  /\ state' = [state EXCEPT ![t] = "dispatched"]
  /\ inFlight' = inFlight \cup {IndexerOf(t)}
  /\ workers' = workers + 1
  /\ UNCHANGED <<submit, taken, ctx, pendingRSS, jobstate, lpc, coalesce, missed, wakeups,
                 limiter, download, delivered, events>>

\* The task gets a worker.
DispatchRun(t) ==
  /\ lpc = "dispatch" /\ First(t) /\ Live(t) /\ ~Blocked(t)
  /\ LeaveQueue(t)
  /\ state' = [state EXCEPT ![t] = "dispatched"]
  /\ inFlight' = inFlight \cup {IndexerOf(t)}
  /\ workers' = workers + 1
  /\ UNCHANGED <<submit, taken, ctx, pendingRSS, jobstate, lpc, coalesce, missed, wakeups,
                 limiter, download, delivered, events>>

Waits == {TaskWait(t) : t \in Queued} \ {0}

\* Mutant: waits longer than the limit are left to a later dispatch.
RetryShortOnly ==
  IF \E w \in Waits : w <= MaxRetry THEN Least(Waits) ELSE timer

\* The delay the timer is set to, or what is left of the timer there is.
RetryDelay ==
  IF Waits = {} THEN timer
  ELSE IF Least(Waits) > MaxRetry THEN MaxRetry ELSE Least(Waits)

ScheduleRetryTimer ==
  /\ lpc = "dispatch" /\ todo = {}
  /\ lpc' = "select"
  /\ timer' = RetryDelay
  /\ UNCHANGED <<submit, taken, contexts, state, pendingRSS, inFlight, workers, jobstate,
                 coalesce, todo, missed, tokens, limiter, download, delivered, events>>

-----------------------------------------------------------------------------
(* Workers: executeTask *)

RecordRequest(t) ==
  /\ state[t] = "dispatched"
  /\ state' = [state EXCEPT ![t] = "running"]
  /\ age' = [age EXCEPT ![IndexerOf(t)] = 0]
  /\ overtaken' = overtaken \ {t}
  /\ UNCHANGED <<submit, taken, contexts, pendingRSS, inFlight, workers, jobstate, loop,
                 wakeups, cool, level, download, delivered, events>>

\* The search ends: with results, a rate limit, or an error, a timeout or a panic.
Answer(t, outcome) ==
  /\ state[t] = "running"
  /\ state' = [state EXCEPT ![t] = "answered"]
  /\ RecordAnswer(IndexerOf(t), outcome)
  /\ UNCHANGED <<submit, taken, contexts, pendingRSS, inFlight, workers, jobstate, loop,
                 wakeups, age, overtaken, download, delivered, events>>

Finish(t) ==
  /\ state[t] = "answered" /\ Unlocked
  /\ Complete(t, "finished")
  /\ inFlight' = inFlight \ {IndexerOf(t)}
  /\ UNCHANGED <<submit, taken, contexts, workers, loop, wakeups, limiter, download,
                 delivered, events>>

\* Mutant: a full channel is not noticed.
WokenAlways == tokens + 1

\* A send to completeCh is dropped when the channel is full.
Woken == IF tokens < ChanCap THEN tokens + 1 ELSE tokens

\* Mutant: the loop is notified before the slot is free.
LeaveNotifyFirst(t) ==
  /\ \/ /\ state[t] = "finished"
        /\ state' = [state EXCEPT ![t] = "released"]
        /\ tokens' = Woken
        /\ UNCHANGED workers
     \/ /\ state[t] = "released"
        /\ state' = [state EXCEPT ![t] = "done"]
        /\ workers' = workers - 1
        /\ UNCHANGED tokens
  /\ UNCHANGED <<submit, taken, contexts, pendingRSS, inFlight, jobstate, loop, timer,
                 limiter, download, delivered, events>>

\* The worker's slot is given back, then the loop is notified.
Leave(t) ==
  /\ \/ /\ state[t] = "finished"
        /\ state' = [state EXCEPT ![t] = "released"]
        /\ workers' = workers - 1
        /\ UNCHANGED tokens
     \/ /\ state[t] = "released"
        /\ state' = [state EXCEPT ![t] = "done"]
        /\ tokens' = Woken
        /\ UNCHANGED workers
  /\ UNCHANGED <<submit, taken, contexts, pendingRSS, inFlight, jobstate, loop, timer,
                 limiter, download, delivered, events>>

-----------------------------------------------------------------------------
(* The result of a search *)

\* OnJobDone waits until OnComplete has run for every indexer of the search (completionWG
\* counts the indexers of the request), then hands over what was collected.
OnJobDone(j) ==
  /\ jobDone[j] > 0 /\ j \notin delivered
  /\ \A i \in want[j] : state[<<j, i>>] \in Completed
  /\ delivered' = delivered \cup {j}
  /\ UNCHANGED <<submit, taken, contexts, state, pendingRSS, inFlight, workers, jobstate,
                 loop, wakeups, limiter, download, events>>

-----------------------------------------------------------------------------
(* Time, contexts and downloads *)

Tick ==
  /\ ClockInDispatch \/ lpc = "select"
  /\ age' = [i \in Indexers |-> IF age[i] < Longest THEN age[i] + 1 ELSE age[i]]
  /\ cool' = [i \in Indexers |-> IF cool[i] > 0 THEN cool[i] - 1 ELSE 0]
  /\ timer' = IF timer > 0 THEN timer - 1 ELSE 0
  /\ tokens' = IF timer = 1 THEN Woken ELSE tokens
  /\ missed' = IF lpc = "dispatch" THEN missed \cup {t \in Queued \ todo : TaskWait(t) = 1}
               ELSE missed
  /\ UNCHANGED <<submit, taken, contexts, state, pendingRSS, inFlight, workers, jobstate,
                 lpc, coalesce, todo, level, overtaken, download, delivered, events>>

\* The caller's context is canceled or passes its deadline.
EndContext(j, how) ==
  /\ events < MaxEvents /\ events' = events + 1
  /\ jpc[j] \notin {"none", "refused"} /\ ctx[j] = "live"
  /\ ctx' = [ctx EXCEPT ![j] = how]
  /\ UNCHANGED <<submit, taken, fresh, stale, state, pendingRSS, inFlight, workers, jobstate,
                 loop, wakeups, limiter, download, delivered>>

\* getExecutionTimeout passes in the queue, once for a task that got a fresh context.
FreshExpires(t) ==
  /\ t \in fresh /\ t \notin stale /\ state[t] = "queued"
  /\ stale' = stale \cup {t}
  /\ UNCHANGED <<submit, taken, ctx, fresh, state, pendingRSS, inFlight, workers, jobstate,
                 loop, wakeups, limiter, download, delivered, events>>

\* DownloadTorrent goes on only if the indexer is not in cooldown.
DownloadCheck(i) ==
  /\ Downloads
  /\ events < MaxEvents /\ events' = events + 1
  /\ download[i] = "none" /\ cool[i] = 0
  /\ download' = [download EXCEPT ![i] = "checked"]
  /\ UNCHANGED <<submit, taken, contexts, state, pendingRSS, inFlight, workers, jobstate,
                 loop, wakeups, limiter, delivered>>

\* The searches a worker has taken for an indexer and not yet recorded.
AboutToAsk(i) == {t \in Tasks : state[t] = "dispatched" /\ IndexerOf(t) = i}

\* WaitForMinInterval, for a download that asks to be paced: the wait is over and the
\* request is recorded.  Other downloads neither wait nor are recorded.
DownloadRequest(i, p) ==
  /\ download[i] = "checked"
  /\ download' = [download EXCEPT ![i] = "sent"]
  /\ \/ /\ age[i] >= Interval[p]
        /\ age' = [age EXCEPT ![i] = 0]
        /\ overtaken' = overtaken \cup AboutToAsk(i)
     \/ UNCHANGED <<age, overtaken>>
  /\ UNCHANGED <<submit, taken, contexts, state, pendingRSS, inFlight, workers, jobstate,
                 loop, wakeups, cool, level, delivered, events>>

DownloadAnswer(i, outcome) ==
  /\ download[i] = "sent"
  /\ download' = [download EXCEPT ![i] = "none"]
  /\ RecordAnswer(i, outcome)
  /\ overtaken' = IF outcome = "limited" THEN overtaken \cup AboutToAsk(i) ELSE overtaken
  /\ UNCHANGED <<submit, taken, contexts, state, pendingRSS, inFlight, workers, jobstate,
                 loop, wakeups, age, delivered, events>>

-----------------------------------------------------------------------------
Outcomes == {"success", "limited", "error"}

Submits(j) ==
  \/ \E p \in Priorities, I \in (SUBSET Indexers) \ {{}} : SubmitBegin(j, p, I)
  \/ \E i \in Indexers : SubmitCollect(j, i)
  \/ SubmitRegister(j) \/ SubmitSend(j) \/ SubmitRefuse(j)

Dispatch(t) == DispatchDead(t) \/ DispatchSkip(t) \/ DispatchBlocked(t) \/ DispatchRun(t)

Loop ==
  \/ TakeBatch \/ TakeToken \/ CoalesceFire \/ ScheduleRetryTimer
  \/ \E t \in Tasks : Dispatch(t)

Worker(t) ==
  RecordRequest(t) \/ (\E o \in Outcomes : Answer(t, o)) \/ Finish(t) \/ Leave(t)

Download(i) ==
  \/ DownloadCheck(i)
  \/ \E p \in Priorities : DownloadRequest(i, p)
  \/ \E o \in Outcomes : DownloadAnswer(i, o)

Next ==
  \/ \E j \in Jobs : Submits(j) \/ OnJobDone(j)
  \/ \E j \in Jobs, how \in {"canceled", "expired"} : EndContext(j, how)
  \/ Loop
  \/ \E t \in Tasks : Worker(t) \/ FreshExpires(t)
  \/ \E i \in Indexers : Download(i)
  \/ Tick

\* The loop goes on while one of its cases is ready, whichever its select prefers; time
\* passes; searches end, because their contexts and the HTTP client have timeouts;
\* goroutines run.  Nothing makes a caller submit, a context end or a download start.
Fairness ==
  /\ WF_vars(Loop) /\ WF_vars(Tick)
  /\ \A t \in Tasks : WF_vars(Worker(t))
  /\ \A j \in Jobs : WF_vars(OnJobDone(j))

Spec == Init /\ [][Next]_vars
FairSpec == Spec /\ Fairness

-----------------------------------------------------------------------------
(* Properties *)

SubmitTypes ==
  /\ jpc \in [Jobs -> {"none", "collect", "send", "accepted", "refused"}]
  /\ prio \in [Jobs -> Priorities] /\ want \in [Jobs -> SUBSET Indexers]
  /\ ctx \in [Jobs -> {"live", "canceled", "expired"}]
  /\ sent \in Seq(Jobs) /\ taken \in 0..Len(sent)
TaskTypes ==
  /\ state \in [Tasks -> Stages] /\ todo \subseteq Queued
  /\ fresh \subseteq Queued /\ stale \subseteq fresh
JobTypes ==
  /\ total \in [Jobs -> Nat] /\ completed \in [Jobs -> Nat] /\ jobDone \in [Jobs -> Nat]
  /\ delivered \subseteq Jobs /\ events \in 0..MaxEvents
LoopTypes ==
  /\ pendingRSS \subseteq Indexers /\ inFlight \subseteq Indexers /\ workers \in Nat
  /\ lpc \in {"select", "dispatch"} /\ coalesce \in BOOLEAN
  /\ tokens \in 0..ChanCap /\ timer \in Nat /\ missed \subseteq Tasks
LimiterTypes ==
  /\ age \in [Indexers -> 0..Longest] /\ cool \in [Indexers -> Nat]
  /\ level \in [Indexers -> {0} \cup DOMAIN Escalation]
  /\ download \in [Indexers -> {"none", "checked", "sent"}] /\ overtaken \subseteq Tasks

\* The state has the shape of the scheduler's, the limiter's and the callers' data; what the
\* dispatch still has to look at, and the tasks with a second context, are in the queue.
TypeOK == SubmitTypes /\ TaskTypes /\ JobTypes /\ LoopTypes /\ LimiterTypes

\* At most one search runs at an indexer, inFlight names exactly the indexers with one, and
\* the tasks that hold a slot of the worker pool are as many as the pool counts (executeTask
\* and dispatchTasks, which change these at different times and under different locks).
InFlightExact ==
  /\ \A t, u \in AtIndexers : IndexerOf(t) = IndexerOf(u) => t = u
  /\ inFlight = {IndexerOf(t) : t \in AtIndexers}
  /\ workers = Cardinality(SlotHolders) /\ workers <= MaxWorkers

\* An indexer is marked in pendingRSS exactly while one RSS task for it is on its way, in
\* Submit, the channel, the queue or a worker: a mark left behind would silence the
\* indexer's feed for ever, a lost one would search it twice.
RssPendingExact ==
  /\ \A t, u \in RssOnTheWay : IndexerOf(t) = IndexerOf(u) => t = u
  /\ pendingRSS = {IndexerOf(t) : t \in RssOnTheWay}

\* OnJobDone is called once for a job whose tasks have all completed, and not before
\* (JobCallbacks: "fires once after ALL indexers complete"); a refused job is forgotten.
JobDoneOnce ==
  \A j \in Jobs :
    LET over == \A t \in TasksOf(j) : state[t] \notin Pending
    IN /\ jobDone[j] = IF jpc[j] = "accepted" /\ over THEN 1 ELSE 0
       /\ total[j] # 0 <=> jpc[j] \in {"send", "accepted"} /\ ~over

\* The loop, a token, the retry timer or a worker is left to look at the queue again.
WillWake == lpc # "select" \/ coalesce \/ tokens > 0 \/ timer > 0 \/ Notifiers # {}

\* While a task waits in the queue something will make the loop look at it again: a dispatch
\* under way or about to start, the retry timer, or a worker that will notify the loop.  The
\* one way to lose the wakeup is that the wait of every queued task ends inside the dispatch
\* that has put it back: scheduleRetryTimerLocked then finds no wait to set a timer for.
NoLostWakeup == Queued \ missed # {} => WillWake

\* The indexer's cooldown is over, and the interval of the task's priority too.
MayAsk(t) == /\ cool[IndexerOf(t)] = 0
             /\ age[IndexerOf(t)] >= Interval[prio[JobOf(t)]]

\* A search reaches its indexer only outside its cooldown and after the interval of its
\* priority: what dispatchTasks found still holds when the worker sends the request, unless
\* a download from that indexer was recorded or rate limited in between.
RequestAllowed ==
  [][\A t \in Tasks \ overtaken : state[t] = "dispatched" /\ state'[t] = "running"
        => MayAsk(t)]_vars

\* The same without the exception.
NeverTooEarly ==
  [][\A t \in Tasks : state[t] = "dispatched" /\ state'[t] = "running" => MayAsk(t)]_vars

\* Every queued task is in the end searched, skipped, failed or canceled.
TasksFinish ==
  \A t \in Tasks : state[t] = "queued" ~> state[t] = "done"

Whole(j) == jpc[j] = "accepted" /\ \A t \in TasksOf(j) : state[t] # "dropped"

\* A search that lost no indexer to deduplication delivers its result.
WholeJobsDelivered == \A j \in Jobs : Whole(j) ~> j \in delivered

\* Every search that Submit accepted delivers its result (TorznabSearchRequest:
\* "OnAllComplete is called when all search jobs complete with the final results").
JobsDelivered == \A j \in Jobs : jpc[j] = "accepted" ~> j \in delivered

-----------------------------------------------------------------------------
(* The inductive invariant *)

\* Submit has done nothing yet for a job that has not begun.
NotBegun == \A t \in Tasks : jpc[JobOf(t)] = "none" => state[t] = "none"

\* What dispatchTasks found of an indexer stays true until its worker has recorded the
\* request, but for downloads.
StillReady == \A t \in Tasks \ overtaken : state[t] = "dispatched" => MayAsk(t)

\* A task the dispatch has put back still has to wait, or has just ceased to, or a worker
\* will notify the loop, or has done so.
PutBack ==
  lpc = "dispatch" =>
    \A t \in Queued \ todo :
      TaskWait(t) > 0 \/ t \in missed \/ Notifiers # {} \/ tokens > 0

\* The reasons why TypeOK, InFlightExact, RssPendingExact, NoLostWakeup and RequestAllowed
\* hold after every step.
Inductive ==
  /\ TypeOK /\ NotBegun /\ InFlightExact /\ RssPendingExact /\ StillReady
  /\ PutBack /\ NoLostWakeup

=============================================================================

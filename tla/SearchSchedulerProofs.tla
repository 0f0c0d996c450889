------------------------ MODULE SearchSchedulerProofs ------------------------
(***************************************************************************)
(* The inductive invariant of SearchScheduler is kept by every step, for   *)
(* any number of indexers, jobs, workers and events; what the runs check   *)
(* of the scheduler's bookkeeping, of its wake-ups and of the rate limits  *)
(* follows from it.                                                        *)
(***************************************************************************)
EXTENDS SearchScheduler, FiniteSetTheorems, WellFoundedInduction, TLAPS

-----------------------------------------------------------------------------
(* Tasks, waits and the longest interval *)

\* A task is the pair of a job and an indexer.
LEMMA TaskParts ==
  /\ \A t \in Tasks : JobOf(t) \in Jobs /\ IndexerOf(t) \in Indexers
  /\ \A j \in Jobs, i \in Indexers :
        <<j, i>> \in Tasks /\ JobOf(<<j, i>>) = j /\ IndexerOf(<<j, i>>) = i
BY DEF Tasks, JobOf, IndexerOf

\* The age of a request is counted up to a natural number.
LEMMA LongestNat == Longest \in Nat
<1>1. PICK p \in Priorities : \A q \in Priorities : Interval[q] <= Interval[p]
  BY PrioritiesAssumption
<1> DEFINE S == {Interval[q] : q \in Priorities}
<1>2. \E n \in S : \A q \in Priorities : Interval[q] <= n
  BY <1>1
<1>3. Longest \in S
  BY <1>2 DEF Longest
<1> QED
  BY <1>3, PrioritiesAssumption

\* No interval is longer than the longest.
LEMMA IntervalUpToLongest == \A p \in Priorities : Interval[p] <= Longest
<1>1. PICK p \in Priorities : \A q \in Priorities : Interval[q] <= Interval[p]
  BY PrioritiesAssumption
<1>2. \E n \in {Interval[q] : q \in Priorities} : \A q \in Priorities : Interval[q] <= n
  BY <1>1
<1> QED
  BY <1>2 DEF Longest

\* A set of waits has a least member (scheduleRetryTimerLocked takes the minimum).
LEMMA LeastMember ==
  ASSUME NEW S \in SUBSET Nat, S # {}
  PROVE  Least(S) \in S
<1>1. PICK n \in S : \A k \in S : ~(<<k, n>> \in OpToRel(<, Nat))
  BY NatLessThanWellFounded, WFMin
<1>2. \A k \in S : n <= k
  <2> SUFFICES ASSUME NEW k \in S, k < n PROVE FALSE
    OBVIOUS
  <2>1. <<k, n>> \in {ss \in Nat \X Nat : ss[1] < ss[2]}
    OBVIOUS
  <2>2. <<k, n>> \in OpToRel(<, Nat)
    BY <2>1, Zenon DEF OpToRel
  <2> QED
    BY <1>1, <2>2
<1> QED
  BY <1>1, <1>2 DEF Least

\* There are finitely many tasks.
LEMMA FinitelyManyTasks == IsFiniteSet(Tasks)
<1>1. IsFiniteSet(1..MaxJobs)
  BY FS_Interval, BoundsAssumption
<1> QED
  BY <1>1, FS_Product, IndexersAssumption DEF Tasks, Jobs

\* Any set of tasks is finite and has a number of members.
LEMMA TaskSetsFinite ==
  ASSUME NEW S \in SUBSET Tasks
  PROVE  IsFiniteSet(S) /\ Cardinality(S) \in Nat
BY FinitelyManyTasks, FS_Subset, FS_CardinalityType

\* A wait is a natural number.
LEMMA WaitNat ==
  ASSUME SubmitTypes, LimiterTypes, NEW t \in Tasks
  PROVE  TaskWait(t) \in Nat
BY TaskParts, LongestNat, PrioritiesAssumption
DEF SubmitTypes, LimiterTypes, TaskWait, Wait

-----------------------------------------------------------------------------
(* Every part of the invariant is kept by every step *)

\* The data of the callers keeps its shape.
LEMMA SubmitTypesStep ==
  Inductive /\ [Next]_vars => SubmitTypes'
<1> SUFFICES ASSUME Inductive, [Next]_vars PROVE SubmitTypes'
  OBVIOUS
<1>a. SubmitTypes
  BY DEF Inductive, TypeOK
<1>1. ASSUME NEW j \in Jobs, NEW p \in Priorities, NEW I \in (SUBSET Indexers) \ {{}}, SubmitBegin(j, p, I) PROVE SubmitTypes'
  BY <1>a, <1>1 DEF SubmitBegin, contexts, jobstate, loop, wakeups, limiter, SubmitTypes
<1>2. ASSUME NEW j \in Jobs, NEW i \in Indexers, SubmitCollect(j, i) PROVE SubmitTypes'
  BY <1>a, <1>2 DEF SubmitCollect, submit, contexts, jobstate, loop, wakeups, limiter, SubmitTypes
<1>3. ASSUME NEW j \in Jobs, SubmitRegister(j) PROVE SubmitTypes'
  BY <1>a, <1>3 DEF SubmitRegister, contexts, loop, wakeups, limiter, SubmitTypes
<1>4. ASSUME NEW j \in Jobs, SubmitSend(j) PROVE SubmitTypes'
  BY <1>a, <1>4 DEF SubmitSend, contexts, jobstate, loop, wakeups, limiter, SubmitTypes
<1>5. ASSUME NEW j \in Jobs, SubmitRefuse(j) PROVE SubmitTypes'
  BY <1>a, <1>5 DEF SubmitRefuse, contexts, loop, wakeups, limiter, SubmitTypes
<1>6. ASSUME NEW j \in Jobs, OnJobDone(j) PROVE SubmitTypes'
  BY <1>a, <1>6 DEF OnJobDone, submit, contexts, jobstate, loop, wakeups, limiter, SubmitTypes
<1>7. ASSUME NEW j \in Jobs, NEW how \in {"canceled", "expired"}, EndContext(j, how) PROVE SubmitTypes'
  BY <1>a, <1>7 DEF EndContext, submit, jobstate, loop, wakeups, limiter, SubmitTypes
<1>8. ASSUME TakeBatch PROVE SubmitTypes'
  BY <1>a, <1>8 DEF TakeBatch, submit, contexts, jobstate, wakeups, limiter, SubmitTypes
<1>9. ASSUME TakeToken PROVE SubmitTypes'
  BY <1>a, <1>9 DEF TakeToken, submit, contexts, jobstate, limiter, SubmitTypes
<1>10. ASSUME CoalesceFire PROVE SubmitTypes'
  BY <1>a, <1>10 DEF CoalesceFire, submit, contexts, jobstate, wakeups, limiter, SubmitTypes
<1>11. ASSUME ScheduleRetryTimer PROVE SubmitTypes'
  BY <1>a, <1>11 DEF ScheduleRetryTimer, submit, contexts, jobstate, limiter, SubmitTypes
<1>12. ASSUME NEW t \in Tasks, DispatchDead(t) PROVE SubmitTypes'
  BY <1>a, <1>12 DEF DispatchDead, submit, wakeups, limiter, SubmitTypes
<1>13. ASSUME NEW t \in Tasks, DispatchSkip(t) PROVE SubmitTypes'
  BY <1>a, <1>13 DEF DispatchSkip, submit, wakeups, limiter, SubmitTypes
<1>14. ASSUME NEW t \in Tasks, DispatchBlocked(t) PROVE SubmitTypes'
  BY <1>a, <1>14 DEF DispatchBlocked, submit, jobstate, wakeups, limiter, SubmitTypes
<1>15. ASSUME NEW t \in Tasks, DispatchRun(t) PROVE SubmitTypes'
  BY <1>a, <1>15 DEF DispatchRun, submit, jobstate, wakeups, limiter, SubmitTypes
<1>16. ASSUME NEW t \in Tasks, RecordRequest(t) PROVE SubmitTypes'
  BY <1>a, <1>16 DEF RecordRequest, submit, contexts, jobstate, loop, wakeups, SubmitTypes
<1>17. ASSUME NEW t \in Tasks, NEW o \in Outcomes, Answer(t, o) PROVE SubmitTypes'
  BY <1>a, <1>17 DEF Answer, submit, contexts, jobstate, loop, wakeups, SubmitTypes
<1>18. ASSUME NEW t \in Tasks, Finish(t) PROVE SubmitTypes'
  BY <1>a, <1>18 DEF Finish, submit, contexts, loop, wakeups, limiter, SubmitTypes
<1>19. ASSUME NEW t \in Tasks, Leave(t) PROVE SubmitTypes'
  BY <1>a, <1>19 DEF Leave, submit, contexts, jobstate, loop, limiter, SubmitTypes
<1>20. ASSUME NEW t \in Tasks, FreshExpires(t) PROVE SubmitTypes'
  BY <1>a, <1>20 DEF FreshExpires, submit, jobstate, loop, wakeups, limiter, SubmitTypes
<1>21. ASSUME NEW i \in Indexers, DownloadCheck(i) PROVE SubmitTypes'
  BY <1>a, <1>21 DEF DownloadCheck, submit, contexts, jobstate, loop, wakeups, limiter, SubmitTypes
<1>22. ASSUME NEW i \in Indexers, NEW p \in Priorities, DownloadRequest(i, p) PROVE SubmitTypes'
  BY <1>a, <1>22 DEF DownloadRequest, submit, contexts, jobstate, loop, wakeups, SubmitTypes
<1>23. ASSUME NEW i \in Indexers, NEW o \in Outcomes, DownloadAnswer(i, o) PROVE SubmitTypes'
  BY <1>a, <1>23 DEF DownloadAnswer, submit, contexts, jobstate, loop, wakeups, SubmitTypes
<1>24. ASSUME Tick PROVE SubmitTypes'
  BY <1>a, <1>24 DEF Tick, submit, contexts, jobstate, loop, SubmitTypes
<1>25. CASE UNCHANGED vars
  BY <1>a, <1>25 DEF vars, submit, contexts, jobstate, loop, wakeups, limiter, SubmitTypes
<1> QED
  BY <1>1, <1>2, <1>3, <1>4, <1>5, <1>6, <1>7, <1>8, <1>9, <1>10, <1>11, <1>12,
     <1>13, <1>14, <1>15, <1>16, <1>17, <1>18, <1>19, <1>20, <1>21, <1>22, <1>23, <1>24, <1>25
  DEF Next, Submits, Loop, Dispatch, Worker, Download

\* The tasks keep their stages, and those that wait are in the queue.
LEMMA TaskTypesStep ==
  Inductive /\ [Next]_vars => TaskTypes'
<1> SUFFICES ASSUME Inductive, [Next]_vars PROVE TaskTypes'
  OBVIOUS
<1>a. TaskTypes
  BY DEF Inductive, TypeOK
<1>1. ASSUME NEW j \in Jobs, NEW p \in Priorities, NEW I \in (SUBSET Indexers) \ {{}}, SubmitBegin(j, p, I) PROVE TaskTypes'
  BY <1>a, <1>1 DEF SubmitBegin, contexts, jobstate, loop, wakeups, limiter, TaskTypes, Queued
<1>2. ASSUME NEW j \in Jobs, NEW i \in Indexers, SubmitCollect(j, i) PROVE TaskTypes'
  BY <1>a, <1>2, TaskParts DEF SubmitCollect, submit, contexts, jobstate, loop, wakeups, limiter, TaskTypes, Queued, Stages, Collected, TasksOf, First
<1>3. ASSUME NEW j \in Jobs, SubmitRegister(j) PROVE TaskTypes'
  BY <1>a, <1>3 DEF SubmitRegister, contexts, loop, wakeups, limiter, TaskTypes, Queued
<1>4. ASSUME NEW j \in Jobs, SubmitSend(j) PROVE TaskTypes'
  BY <1>a, <1>4, TaskParts DEF SubmitSend, contexts, jobstate, loop, wakeups, limiter, TaskTypes, Queued, Stages, Collected, TasksOf, First
<1>5. ASSUME NEW j \in Jobs, SubmitRefuse(j) PROVE TaskTypes'
  BY <1>a, <1>5, TaskParts DEF SubmitRefuse, contexts, loop, wakeups, limiter, TaskTypes, Queued, Stages, Collected, TasksOf, First
<1>6. ASSUME NEW j \in Jobs, OnJobDone(j) PROVE TaskTypes'
  BY <1>a, <1>6 DEF OnJobDone, submit, contexts, jobstate, loop, wakeups, limiter, TaskTypes, Queued
<1>7. ASSUME NEW j \in Jobs, NEW how \in {"canceled", "expired"}, EndContext(j, how) PROVE TaskTypes'
  BY <1>a, <1>7 DEF EndContext, submit, jobstate, loop, wakeups, limiter, TaskTypes, Queued
<1>8. ASSUME TakeBatch PROVE TaskTypes'
  BY <1>a, <1>8, TaskParts DEF TakeBatch, submit, contexts, jobstate, wakeups, limiter, TaskTypes, Queued, Stages, Collected, TasksOf, First
<1>9. ASSUME TakeToken PROVE TaskTypes'
  BY <1>a, <1>9, TaskParts DEF TakeToken, submit, contexts, jobstate, limiter, BeginDispatch, TaskTypes, Queued, Stages, Collected, TasksOf, First
<1>10. ASSUME CoalesceFire PROVE TaskTypes'
  BY <1>a, <1>10, TaskParts DEF CoalesceFire, submit, contexts, jobstate, wakeups, limiter, BeginDispatch, TaskTypes, Queued, Stages, Collected, TasksOf, First
<1>11. ASSUME ScheduleRetryTimer PROVE TaskTypes'
  BY <1>a, <1>11 DEF ScheduleRetryTimer, submit, contexts, jobstate, limiter, TaskTypes, Queued
<1>12. ASSUME NEW t \in Tasks, DispatchDead(t) PROVE TaskTypes'
  BY <1>a, <1>12, TaskParts DEF DispatchDead, submit, wakeups, limiter, Complete, jobstate, LeaveQueue, TaskTypes, Queued, Stages, Collected, TasksOf, First
<1>13. ASSUME NEW t \in Tasks, DispatchSkip(t) PROVE TaskTypes'
  BY <1>a, <1>13, TaskParts DEF DispatchSkip, submit, wakeups, limiter, Complete, jobstate, LeaveQueue, TaskTypes, Queued, Stages, Collected, TasksOf, First
<1>14. ASSUME NEW t \in Tasks, DispatchBlocked(t) PROVE TaskTypes'
  BY <1>a, <1>14, TaskParts DEF DispatchBlocked, submit, jobstate, wakeups, limiter, TaskTypes, Queued, Stages, Collected, TasksOf, First
<1>15. ASSUME NEW t \in Tasks, DispatchRun(t) PROVE TaskTypes'
  BY <1>a, <1>15, TaskParts DEF DispatchRun, submit, jobstate, wakeups, limiter, LeaveQueue, TaskTypes, Queued, Stages, Collected, TasksOf, First
<1>16. ASSUME NEW t \in Tasks, RecordRequest(t) PROVE TaskTypes'
  BY <1>a, <1>16, TaskParts DEF RecordRequest, submit, contexts, jobstate, loop, wakeups, TaskTypes, Queued, Stages, Collected, TasksOf, First
<1>17. ASSUME NEW t \in Tasks, NEW o \in Outcomes, Answer(t, o) PROVE TaskTypes'
  BY <1>a, <1>17, TaskParts DEF Answer, submit, contexts, jobstate, loop, wakeups, RecordAnswer, TaskTypes, Queued, Stages, Collected, TasksOf, First
<1>18. ASSUME NEW t \in Tasks, Finish(t) PROVE TaskTypes'
  BY <1>a, <1>18, TaskParts DEF Finish, submit, contexts, loop, wakeups, limiter, Complete, jobstate, TaskTypes, Queued, Stages, Collected, TasksOf, First
<1>19. ASSUME NEW t \in Tasks, Leave(t) PROVE TaskTypes'
  BY <1>a, <1>19, TaskParts DEF Leave, submit, contexts, jobstate, loop, limiter, TaskTypes, Queued, Stages, Collected, TasksOf, First
<1>20. ASSUME NEW t \in Tasks, FreshExpires(t) PROVE TaskTypes'
  BY <1>a, <1>20, TaskParts DEF FreshExpires, submit, jobstate, loop, wakeups, limiter, TaskTypes, Queued, Stages, Collected, TasksOf, First
<1>21. ASSUME NEW i \in Indexers, DownloadCheck(i) PROVE TaskTypes'
  BY <1>a, <1>21 DEF DownloadCheck, submit, contexts, jobstate, loop, wakeups, limiter, TaskTypes, Queued
<1>22. ASSUME NEW i \in Indexers, NEW p \in Priorities, DownloadRequest(i, p) PROVE TaskTypes'
  BY <1>a, <1>22 DEF DownloadRequest, submit, contexts, jobstate, loop, wakeups, TaskTypes, Queued
<1>23. ASSUME NEW i \in Indexers, NEW o \in Outcomes, DownloadAnswer(i, o) PROVE TaskTypes'
  BY <1>a, <1>23 DEF DownloadAnswer, submit, contexts, jobstate, loop, wakeups, TaskTypes, Queued
<1>24. ASSUME Tick PROVE TaskTypes'
  BY <1>a, <1>24 DEF Tick, submit, contexts, jobstate, loop, TaskTypes, Queued
<1>25. CASE UNCHANGED vars
  BY <1>a, <1>25 DEF vars, submit, contexts, jobstate, loop, wakeups, limiter, TaskTypes, Queued
<1> QED
  BY <1>1, <1>2, <1>3, <1>4, <1>5, <1>6, <1>7, <1>8, <1>9, <1>10, <1>11, <1>12,
     <1>13, <1>14, <1>15, <1>16, <1>17, <1>18, <1>19, <1>20, <1>21, <1>22, <1>23, <1>24, <1>25
  DEF Next, Submits, Loop, Dispatch, Worker, Download

\* The data of the jobs keeps its shape.
LEMMA JobTypesStep ==
  Inductive /\ [Next]_vars => JobTypes'
<1> SUFFICES ASSUME Inductive, [Next]_vars PROVE JobTypes'
  OBVIOUS
<1>a. JobTypes
  BY DEF Inductive, TypeOK
<1>1. ASSUME NEW j \in Jobs, NEW p \in Priorities, NEW I \in (SUBSET Indexers) \ {{}}, SubmitBegin(j, p, I) PROVE JobTypes'
  BY <1>a, <1>1 DEF SubmitBegin, contexts, jobstate, loop, wakeups, limiter, JobTypes
<1>2. ASSUME NEW j \in Jobs, NEW i \in Indexers, SubmitCollect(j, i) PROVE JobTypes'
  BY <1>a, <1>2 DEF SubmitCollect, submit, contexts, jobstate, loop, wakeups, limiter, JobTypes
<1>3. ASSUME NEW j \in Jobs, SubmitRegister(j) PROVE JobTypes'
  <2>1. Cardinality(Collected(j)) \in Nat
    BY TaskSetsFinite DEF Collected, TasksOf
  <2> QED
    BY <1>a, <2>1, <1>3 DEF SubmitRegister, JobTypes
<1>4. ASSUME NEW j \in Jobs, SubmitSend(j) PROVE JobTypes'
  BY <1>a, <1>4 DEF SubmitSend, contexts, jobstate, loop, wakeups, limiter, JobTypes
<1>5. ASSUME NEW j \in Jobs, SubmitRefuse(j) PROVE JobTypes'
  BY <1>a, <1>5, BoundsAssumption DEF SubmitRefuse, contexts, loop, wakeups, limiter, JobTypes
<1>6. ASSUME NEW j \in Jobs, OnJobDone(j) PROVE JobTypes'
  BY <1>a, <1>6, BoundsAssumption DEF OnJobDone, submit, contexts, jobstate, loop, wakeups, limiter, JobTypes
<1>7. ASSUME NEW j \in Jobs, NEW how \in {"canceled", "expired"}, EndContext(j, how) PROVE JobTypes'
  BY <1>a, <1>7, BoundsAssumption DEF EndContext, submit, jobstate, loop, wakeups, limiter, JobTypes
<1>8. ASSUME TakeBatch PROVE JobTypes'
  BY <1>a, <1>8 DEF TakeBatch, submit, contexts, jobstate, wakeups, limiter, JobTypes
<1>9. ASSUME TakeToken PROVE JobTypes'
  BY <1>a, <1>9 DEF TakeToken, submit, contexts, jobstate, limiter, JobTypes
<1>10. ASSUME CoalesceFire PROVE JobTypes'
  BY <1>a, <1>10 DEF CoalesceFire, submit, contexts, jobstate, wakeups, limiter, JobTypes
<1>11. ASSUME ScheduleRetryTimer PROVE JobTypes'
  BY <1>a, <1>11 DEF ScheduleRetryTimer, submit, contexts, jobstate, limiter, JobTypes
<1>12. ASSUME NEW t \in Tasks, DispatchDead(t) PROVE JobTypes'
  BY <1>a, <1>12, BoundsAssumption DEF DispatchDead, submit, wakeups, limiter, Complete, jobstate, LeaveQueue, JobTypes
<1>13. ASSUME NEW t \in Tasks, DispatchSkip(t) PROVE JobTypes'
  BY <1>a, <1>13, BoundsAssumption DEF DispatchSkip, submit, wakeups, limiter, Complete, jobstate, LeaveQueue, JobTypes
<1>14. ASSUME NEW t \in Tasks, DispatchBlocked(t) PROVE JobTypes'
  BY <1>a, <1>14 DEF DispatchBlocked, submit, jobstate, wakeups, limiter, JobTypes
<1>15. ASSUME NEW t \in Tasks, DispatchRun(t) PROVE JobTypes'
  BY <1>a, <1>15 DEF DispatchRun, submit, jobstate, wakeups, limiter, JobTypes
<1>16. ASSUME NEW t \in Tasks, RecordRequest(t) PROVE JobTypes'
  BY <1>a, <1>16 DEF RecordRequest, submit, contexts, jobstate, loop, wakeups, JobTypes
<1>17. ASSUME NEW t \in Tasks, NEW o \in Outcomes, Answer(t, o) PROVE JobTypes'
  BY <1>a, <1>17 DEF Answer, submit, contexts, jobstate, loop, wakeups, JobTypes
<1>18. ASSUME NEW t \in Tasks, Finish(t) PROVE JobTypes'
  BY <1>a, <1>18, BoundsAssumption DEF Finish, submit, contexts, loop, wakeups, limiter, Complete, jobstate, JobTypes
<1>19. ASSUME NEW t \in Tasks, Leave(t) PROVE JobTypes'
  BY <1>a, <1>19 DEF Leave, submit, contexts, jobstate, loop, limiter, JobTypes
<1>20. ASSUME NEW t \in Tasks, FreshExpires(t) PROVE JobTypes'
  BY <1>a, <1>20, BoundsAssumption DEF FreshExpires, submit, jobstate, loop, wakeups, limiter, JobTypes
<1>21. ASSUME NEW i \in Indexers, DownloadCheck(i) PROVE JobTypes'
  BY <1>a, <1>21, BoundsAssumption DEF DownloadCheck, submit, contexts, jobstate, loop, wakeups, limiter, JobTypes
<1>22. ASSUME NEW i \in Indexers, NEW p \in Priorities, DownloadRequest(i, p) PROVE JobTypes'
  BY <1>a, <1>22 DEF DownloadRequest, submit, contexts, jobstate, loop, wakeups, JobTypes
<1>23. ASSUME NEW i \in Indexers, NEW o \in Outcomes, DownloadAnswer(i, o) PROVE JobTypes'
  BY <1>a, <1>23 DEF DownloadAnswer, submit, contexts, jobstate, loop, wakeups, JobTypes
<1>24. ASSUME Tick PROVE JobTypes'
  BY <1>a, <1>24 DEF Tick, submit, contexts, jobstate, loop, JobTypes
<1>25. CASE UNCHANGED vars
  BY <1>a, <1>25 DEF vars, submit, contexts, jobstate, loop, wakeups, limiter, JobTypes
<1> QED
  BY <1>1, <1>2, <1>3, <1>4, <1>5, <1>6, <1>7, <1>8, <1>9, <1>10, <1>11, <1>12,
     <1>13, <1>14, <1>15, <1>16, <1>17, <1>18, <1>19, <1>20, <1>21, <1>22, <1>23, <1>24, <1>25
  DEF Next, Submits, Loop, Dispatch, Worker, Download

\* The data of the loop keeps its shape.
LEMMA LoopTypesStep ==
  Inductive /\ [Next]_vars => LoopTypes'
<1> SUFFICES ASSUME Inductive, [Next]_vars PROVE LoopTypes'
  OBVIOUS
<1>a. LoopTypes /\ SubmitTypes /\ LimiterTypes /\ InFlightExact
  BY DEF Inductive, TypeOK
<1>1. ASSUME NEW j \in Jobs, NEW p \in Priorities, NEW I \in (SUBSET Indexers) \ {{}}, SubmitBegin(j, p, I) PROVE LoopTypes'
  BY <1>a, <1>1 DEF SubmitBegin, contexts, jobstate, loop, wakeups, limiter, LoopTypes
<1>2. ASSUME NEW j \in Jobs, NEW i \in Indexers, SubmitCollect(j, i) PROVE LoopTypes'
  BY <1>a, <1>2, BoundsAssumption, TaskParts DEF SubmitCollect, submit, contexts, jobstate, loop, wakeups, limiter, LoopTypes, Woken
<1>3. ASSUME NEW j \in Jobs, SubmitRegister(j) PROVE LoopTypes'
  BY <1>a, <1>3 DEF SubmitRegister, contexts, loop, wakeups, limiter, LoopTypes
<1>4. ASSUME NEW j \in Jobs, SubmitSend(j) PROVE LoopTypes'
  BY <1>a, <1>4 DEF SubmitSend, contexts, jobstate, loop, wakeups, limiter, LoopTypes
<1>5. ASSUME NEW j \in Jobs, SubmitRefuse(j) PROVE LoopTypes'
  BY <1>a, <1>5, BoundsAssumption, TaskParts DEF SubmitRefuse, contexts, loop, wakeups, limiter, LoopTypes, Woken
<1>6. ASSUME NEW j \in Jobs, OnJobDone(j) PROVE LoopTypes'
  BY <1>a, <1>6 DEF OnJobDone, submit, contexts, jobstate, loop, wakeups, limiter, LoopTypes
<1>7. ASSUME NEW j \in Jobs, NEW how \in {"canceled", "expired"}, EndContext(j, how) PROVE LoopTypes'
  BY <1>a, <1>7 DEF EndContext, submit, jobstate, loop, wakeups, limiter, LoopTypes
<1>8. ASSUME TakeBatch PROVE LoopTypes'
  BY <1>a, <1>8, BoundsAssumption, TaskParts DEF TakeBatch, submit, contexts, jobstate, wakeups, limiter, LoopTypes, Woken
<1>9. ASSUME TakeToken PROVE LoopTypes'
  BY <1>a, <1>9, BoundsAssumption, TaskParts DEF TakeToken, submit, contexts, jobstate, limiter, BeginDispatch, LoopTypes, Woken
<1>10. ASSUME CoalesceFire PROVE LoopTypes'
  BY <1>a, <1>10, BoundsAssumption, TaskParts DEF CoalesceFire, submit, contexts, jobstate, wakeups, limiter, BeginDispatch, LoopTypes, Woken
<1>11. ASSUME ScheduleRetryTimer PROVE LoopTypes'
  <2>1. Waits \in SUBSET Nat
    BY <1>a, WaitNat DEF Waits, Queued
  <2>2. Waits # {} => Least(Waits) \in Nat
    BY <2>1, LeastMember
  <2>3. RetryDelay \in Nat
    BY <1>a, <2>2, BoundsAssumption DEF RetryDelay, LoopTypes
  <2> QED
    BY <1>a, <2>3, <1>11 DEF ScheduleRetryTimer, LoopTypes
<1>12. ASSUME NEW t \in Tasks, DispatchDead(t) PROVE LoopTypes'
  BY <1>a, <1>12, BoundsAssumption, TaskParts DEF DispatchDead, submit, wakeups, limiter, Complete, jobstate, LeaveQueue, LoopTypes, Woken
<1>13. ASSUME NEW t \in Tasks, DispatchSkip(t) PROVE LoopTypes'
  BY <1>a, <1>13, BoundsAssumption, TaskParts DEF DispatchSkip, submit, wakeups, limiter, Complete, jobstate, LeaveQueue, LoopTypes, Woken
<1>14. ASSUME NEW t \in Tasks, DispatchBlocked(t) PROVE LoopTypes'
  BY <1>a, <1>14 DEF DispatchBlocked, submit, jobstate, wakeups, limiter, LoopTypes
<1>15. ASSUME NEW t \in Tasks, DispatchRun(t) PROVE LoopTypes'
  BY <1>a, <1>15, BoundsAssumption, TaskParts DEF DispatchRun, submit, jobstate, wakeups, limiter, LeaveQueue, LoopTypes, Woken
<1>16. ASSUME NEW t \in Tasks, RecordRequest(t) PROVE LoopTypes'
  BY <1>a, <1>16 DEF RecordRequest, submit, contexts, jobstate, loop, wakeups, LoopTypes
<1>17. ASSUME NEW t \in Tasks, NEW o \in Outcomes, Answer(t, o) PROVE LoopTypes'
  BY <1>a, <1>17 DEF Answer, submit, contexts, jobstate, loop, wakeups, LoopTypes
<1>18. ASSUME NEW t \in Tasks, Finish(t) PROVE LoopTypes'
  BY <1>a, <1>18, BoundsAssumption, TaskParts DEF Finish, submit, contexts, loop, wakeups, limiter, Complete, jobstate, LoopTypes, Woken
<1>19. ASSUME NEW t \in Tasks, Leave(t) PROVE LoopTypes'
  <2>1. state[t] = "finished" => workers # 0
    <3>1. SlotHolders \in SUBSET Tasks
      BY DEF SlotHolders
    <3>2. state[t] = "finished" => SlotHolders # {}
      BY DEF SlotHolders
    <3> QED
      BY <1>a, <3>1, <3>2, TaskSetsFinite, FS_EmptySet DEF InFlightExact
  <2> QED
    BY <1>a, <2>1, <1>19, BoundsAssumption DEF Leave, loop, Woken, LoopTypes
<1>20. ASSUME NEW t \in Tasks, FreshExpires(t) PROVE LoopTypes'
  BY <1>a, <1>20 DEF FreshExpires, submit, jobstate, loop, wakeups, limiter, LoopTypes
<1>21. ASSUME NEW i \in Indexers, DownloadCheck(i) PROVE LoopTypes'
  BY <1>a, <1>21 DEF DownloadCheck, submit, contexts, jobstate, loop, wakeups, limiter, LoopTypes
<1>22. ASSUME NEW i \in Indexers, NEW p \in Priorities, DownloadRequest(i, p) PROVE LoopTypes'
  BY <1>a, <1>22 DEF DownloadRequest, submit, contexts, jobstate, loop, wakeups, LoopTypes
<1>23. ASSUME NEW i \in Indexers, NEW o \in Outcomes, DownloadAnswer(i, o) PROVE LoopTypes'
  BY <1>a, <1>23 DEF DownloadAnswer, submit, contexts, jobstate, loop, wakeups, LoopTypes
<1>24. ASSUME Tick PROVE LoopTypes'
  <2>1. missed' \subseteq Tasks
    BY <1>a, <1>24 DEF Tick, LoopTypes, Queued
  <2>2. tokens' \in 0..ChanCap /\ timer' \in Nat
    BY <1>a, <1>24, BoundsAssumption DEF Tick, LoopTypes, Woken
  <2> QED
    BY <1>a, <1>24, <2>1, <2>2 DEF Tick, LoopTypes
<1>25. CASE UNCHANGED vars
  BY <1>a, <1>25 DEF vars, submit, contexts, jobstate, loop, wakeups, limiter, LoopTypes
<1> QED
  BY <1>1, <1>2, <1>3, <1>4, <1>5, <1>6, <1>7, <1>8, <1>9, <1>10, <1>11, <1>12,
     <1>13, <1>14, <1>15, <1>16, <1>17, <1>18, <1>19, <1>20, <1>21, <1>22, <1>23, <1>24, <1>25
  DEF Next, Submits, Loop, Dispatch, Worker, Download

\* The data of the rate limiter keeps its shape.
LEMMA LimiterTypesStep ==
  Inductive /\ [Next]_vars => LimiterTypes'
<1> SUFFICES ASSUME Inductive, [Next]_vars PROVE LimiterTypes'
  OBVIOUS
<1>a. LimiterTypes
  BY DEF Inductive, TypeOK
<1>1. ASSUME NEW j \in Jobs, NEW p \in Priorities, NEW I \in (SUBSET Indexers) \ {{}}, SubmitBegin(j, p, I) PROVE LimiterTypes'
  BY <1>a, <1>1 DEF SubmitBegin, contexts, jobstate, loop, wakeups, limiter, LimiterTypes
<1>2. ASSUME NEW j \in Jobs, NEW i \in Indexers, SubmitCollect(j, i) PROVE LimiterTypes'
  BY <1>a, <1>2 DEF SubmitCollect, submit, contexts, jobstate, loop, wakeups, limiter, LimiterTypes
<1>3. ASSUME NEW j \in Jobs, SubmitRegister(j) PROVE LimiterTypes'
  BY <1>a, <1>3 DEF SubmitRegister, contexts, loop, wakeups, limiter, LimiterTypes
<1>4. ASSUME NEW j \in Jobs, SubmitSend(j) PROVE LimiterTypes'
  BY <1>a, <1>4 DEF SubmitSend, contexts, jobstate, loop, wakeups, limiter, LimiterTypes
<1>5. ASSUME NEW j \in Jobs, SubmitRefuse(j) PROVE LimiterTypes'
  BY <1>a, <1>5 DEF SubmitRefuse, contexts, loop, wakeups, limiter, LimiterTypes
<1>6. ASSUME NEW j \in Jobs, OnJobDone(j) PROVE LimiterTypes'
  BY <1>a, <1>6 DEF OnJobDone, submit, contexts, jobstate, loop, wakeups, limiter, LimiterTypes
<1>7. ASSUME NEW j \in Jobs, NEW how \in {"canceled", "expired"}, EndContext(j, how) PROVE LimiterTypes'
  BY <1>a, <1>7 DEF EndContext, submit, jobstate, loop, wakeups, limiter, LimiterTypes
<1>8. ASSUME TakeBatch PROVE LimiterTypes'
  BY <1>a, <1>8 DEF TakeBatch, submit, contexts, jobstate, wakeups, limiter, LimiterTypes
<1>9. ASSUME TakeToken PROVE LimiterTypes'
  BY <1>a, <1>9 DEF TakeToken, submit, contexts, jobstate, limiter, LimiterTypes
<1>10. ASSUME CoalesceFire PROVE LimiterTypes'
  BY <1>a, <1>10 DEF CoalesceFire, submit, contexts, jobstate, wakeups, limiter, LimiterTypes
<1>11. ASSUME ScheduleRetryTimer PROVE LimiterTypes'
  BY <1>a, <1>11 DEF ScheduleRetryTimer, submit, contexts, jobstate, limiter, LimiterTypes
<1>12. ASSUME NEW t \in Tasks, DispatchDead(t) PROVE LimiterTypes'
  BY <1>a, <1>12 DEF DispatchDead, submit, wakeups, limiter, LimiterTypes
<1>13. ASSUME NEW t \in Tasks, DispatchSkip(t) PROVE LimiterTypes'
  BY <1>a, <1>13 DEF DispatchSkip, submit, wakeups, limiter, LimiterTypes
<1>14. ASSUME NEW t \in Tasks, DispatchBlocked(t) PROVE LimiterTypes'
  BY <1>a, <1>14 DEF DispatchBlocked, submit, jobstate, wakeups, limiter, LimiterTypes
<1>15. ASSUME NEW t \in Tasks, DispatchRun(t) PROVE LimiterTypes'
  BY <1>a, <1>15 DEF DispatchRun, submit, jobstate, wakeups, limiter, LimiterTypes
<1>16. ASSUME NEW t \in Tasks, RecordRequest(t) PROVE LimiterTypes'
  BY <1>a, <1>16, LongestNat, TaskParts, EscalationAssumption DEF RecordRequest, submit, contexts, jobstate, loop, wakeups, LimiterTypes, Escalated, Outcomes
<1>17. ASSUME NEW t \in Tasks, NEW o \in Outcomes, Answer(t, o) PROVE LimiterTypes'
  BY <1>a, <1>17, LongestNat, TaskParts, EscalationAssumption DEF Answer, submit, contexts, jobstate, loop, wakeups, RecordAnswer, LimiterTypes, Escalated, Outcomes
<1>18. ASSUME NEW t \in Tasks, Finish(t) PROVE LimiterTypes'
  BY <1>a, <1>18 DEF Finish, submit, contexts, loop, wakeups, limiter, LimiterTypes
<1>19. ASSUME NEW t \in Tasks, Leave(t) PROVE LimiterTypes'
  BY <1>a, <1>19 DEF Leave, submit, contexts, jobstate, loop, limiter, LimiterTypes
<1>20. ASSUME NEW t \in Tasks, FreshExpires(t) PROVE LimiterTypes'
  BY <1>a, <1>20 DEF FreshExpires, submit, jobstate, loop, wakeups, limiter, LimiterTypes
<1>21. ASSUME NEW i \in Indexers, DownloadCheck(i) PROVE LimiterTypes'
  BY <1>a, <1>21, LongestNat, TaskParts, EscalationAssumption DEF DownloadCheck, submit, contexts, jobstate, loop, wakeups, limiter, LimiterTypes, Escalated, Outcomes
<1>22. ASSUME NEW i \in Indexers, NEW p \in Priorities, DownloadRequest(i, p) PROVE LimiterTypes'
  <2>1. overtaken' \subseteq Tasks
    BY <1>a, <1>22 DEF DownloadRequest, LimiterTypes, AboutToAsk
  <2>2. age' \in [Indexers -> 0..Longest]
    BY <1>a, <1>22, LongestNat DEF DownloadRequest, LimiterTypes
  <2> QED
    BY <1>a, <1>22, <2>1, <2>2 DEF DownloadRequest, LimiterTypes
<1>23. ASSUME NEW i \in Indexers, NEW o \in Outcomes, DownloadAnswer(i, o) PROVE LimiterTypes'
  <2>1. overtaken' \subseteq Tasks
    BY <1>a, <1>23 DEF DownloadAnswer, LimiterTypes, AboutToAsk
  <2>2. /\ cool' \in [Indexers -> Nat]
        /\ level' \in [Indexers -> {0} \cup DOMAIN Escalation]
    BY <1>a, <1>23, EscalationAssumption DEF DownloadAnswer, RecordAnswer, LimiterTypes, Escalated
  <2> QED
    BY <1>a, <1>23, <2>1, <2>2 DEF DownloadAnswer, LimiterTypes
<1>24. ASSUME Tick PROVE LimiterTypes'
  BY <1>a, <1>24, LongestNat, TaskParts, EscalationAssumption DEF Tick, submit, contexts, jobstate, loop, LimiterTypes, Escalated, Outcomes
<1>25. CASE UNCHANGED vars
  BY <1>a, <1>25 DEF vars, submit, contexts, jobstate, loop, wakeups, limiter, LimiterTypes
<1> QED
  BY <1>1, <1>2, <1>3, <1>4, <1>5, <1>6, <1>7, <1>8, <1>9, <1>10, <1>11, <1>12,
     <1>13, <1>14, <1>15, <1>16, <1>17, <1>18, <1>19, <1>20, <1>21, <1>22, <1>23, <1>24, <1>25
  DEF Next, Submits, Loop, Dispatch, Worker, Download

\* A job that has not begun has no tasks.
LEMMA NotBegunStep ==
  Inductive /\ [Next]_vars => NotBegun'
<1> SUFFICES ASSUME Inductive, [Next]_vars PROVE NotBegun'
  OBVIOUS
<1>a. NotBegun /\ SubmitTypes /\ TaskTypes
  BY DEF Inductive, TypeOK
<1>1. ASSUME NEW j \in Jobs, NEW p \in Priorities, NEW I \in (SUBSET Indexers) \ {{}}, SubmitBegin(j, p, I) PROVE NotBegun'
  BY <1>a, <1>1, TaskParts DEF SubmitBegin, contexts, jobstate, loop, wakeups, limiter, NotBegun, SubmitTypes, TaskTypes, Queued, Collected, TasksOf, First
<1>2. ASSUME NEW j \in Jobs, NEW i \in Indexers, SubmitCollect(j, i) PROVE NotBegun'
  BY <1>a, <1>2, TaskParts DEF SubmitCollect, submit, contexts, jobstate, loop, wakeups, limiter, NotBegun, SubmitTypes, TaskTypes, Queued, Collected, TasksOf, First
<1>3. ASSUME NEW j \in Jobs, SubmitRegister(j) PROVE NotBegun'
  BY <1>a, <1>3, TaskParts DEF SubmitRegister, contexts, loop, wakeups, limiter, NotBegun, SubmitTypes, TaskTypes, Queued, Collected, TasksOf, First
<1>4. ASSUME NEW j \in Jobs, SubmitSend(j) PROVE NotBegun'
  BY <1>a, <1>4, TaskParts DEF SubmitSend, contexts, jobstate, loop, wakeups, limiter, NotBegun, SubmitTypes, TaskTypes, Queued, Collected, TasksOf, First
<1>5. ASSUME NEW j \in Jobs, SubmitRefuse(j) PROVE NotBegun'
  BY <1>a, <1>5, TaskParts DEF SubmitRefuse, contexts, loop, wakeups, limiter, NotBegun, SubmitTypes, TaskTypes, Queued, Collected, TasksOf, First
<1>6. ASSUME NEW j \in Jobs, OnJobDone(j) PROVE NotBegun'
  BY <1>a, <1>6 DEF OnJobDone, submit, contexts, jobstate, loop, wakeups, limiter, NotBegun
<1>7. ASSUME NEW j \in Jobs, NEW how \in {"canceled", "expired"}, EndContext(j, how) PROVE NotBegun'
  BY <1>a, <1>7 DEF EndContext, submit, jobstate, loop, wakeups, limiter, NotBegun
<1>8. ASSUME TakeBatch PROVE NotBegun'
  BY <1>a, <1>8, TaskParts DEF TakeBatch, submit, contexts, jobstate, wakeups, limiter, NotBegun, SubmitTypes, TaskTypes, Queued, Collected, TasksOf, First
<1>9. ASSUME TakeToken PROVE NotBegun'
  BY <1>a, <1>9 DEF TakeToken, submit, contexts, jobstate, limiter, NotBegun
<1>10. ASSUME CoalesceFire PROVE NotBegun'
  BY <1>a, <1>10 DEF CoalesceFire, submit, contexts, jobstate, wakeups, limiter, NotBegun
<1>11. ASSUME ScheduleRetryTimer PROVE NotBegun'
  BY <1>a, <1>11 DEF ScheduleRetryTimer, submit, contexts, jobstate, limiter, NotBegun
<1>12. ASSUME NEW t \in Tasks, DispatchDead(t) PROVE NotBegun'
  BY <1>a, <1>12, TaskParts DEF DispatchDead, submit, wakeups, limiter, Complete, jobstate, LeaveQueue, NotBegun, SubmitTypes, TaskTypes, Queued, Collected, TasksOf, First
<1>13. ASSUME NEW t \in Tasks, DispatchSkip(t) PROVE NotBegun'
  BY <1>a, <1>13, TaskParts DEF DispatchSkip, submit, wakeups, limiter, Complete, jobstate, LeaveQueue, NotBegun, SubmitTypes, TaskTypes, Queued, Collected, TasksOf, First
<1>14. ASSUME NEW t \in Tasks, DispatchBlocked(t) PROVE NotBegun'
  BY <1>a, <1>14 DEF DispatchBlocked, submit, jobstate, wakeups, limiter, NotBegun
<1>15. ASSUME NEW t \in Tasks, DispatchRun(t) PROVE NotBegun'
  BY <1>a, <1>15, TaskParts DEF DispatchRun, submit, jobstate, wakeups, limiter, LeaveQueue, NotBegun, SubmitTypes, TaskTypes, Queued, Collected, TasksOf, First
<1>16. ASSUME NEW t \in Tasks, RecordRequest(t) PROVE NotBegun'
  BY <1>a, <1>16, TaskParts DEF RecordRequest, submit, contexts, jobstate, loop, wakeups, NotBegun, SubmitTypes, TaskTypes, Queued, Collected, TasksOf, First
<1>17. ASSUME NEW t \in Tasks, NEW o \in Outcomes, Answer(t, o) PROVE NotBegun'
  BY <1>a, <1>17, TaskParts DEF Answer, submit, contexts, jobstate, loop, wakeups, RecordAnswer, NotBegun, SubmitTypes, TaskTypes, Queued, Collected, TasksOf, First
<1>18. ASSUME NEW t \in Tasks, Finish(t) PROVE NotBegun'
  BY <1>a, <1>18, TaskParts DEF Finish, submit, contexts, loop, wakeups, limiter, Complete, jobstate, NotBegun, SubmitTypes, TaskTypes, Queued, Collected, TasksOf, First
<1>19. ASSUME NEW t \in Tasks, Leave(t) PROVE NotBegun'
  BY <1>a, <1>19, TaskParts DEF Leave, submit, contexts, jobstate, loop, limiter, NotBegun, SubmitTypes, TaskTypes, Queued, Collected, TasksOf, First
<1>20. ASSUME NEW t \in Tasks, FreshExpires(t) PROVE NotBegun'
  BY <1>a, <1>20 DEF FreshExpires, submit, jobstate, loop, wakeups, limiter, NotBegun
<1>21. ASSUME NEW i \in Indexers, DownloadCheck(i) PROVE NotBegun'
  BY <1>a, <1>21 DEF DownloadCheck, submit, contexts, jobstate, loop, wakeups, limiter, NotBegun
<1>22. ASSUME NEW i \in Indexers, NEW p \in Priorities, DownloadRequest(i, p) PROVE NotBegun'
  BY <1>a, <1>22 DEF DownloadRequest, submit, contexts, jobstate, loop, wakeups, NotBegun
<1>23. ASSUME NEW i \in Indexers, NEW o \in Outcomes, DownloadAnswer(i, o) PROVE NotBegun'
  BY <1>a, <1>23 DEF DownloadAnswer, submit, contexts, jobstate, loop, wakeups, NotBegun
<1>24. ASSUME Tick PROVE NotBegun'
  BY <1>a, <1>24 DEF Tick, submit, contexts, jobstate, loop, NotBegun
<1>25. CASE UNCHANGED vars
  BY <1>a, <1>25 DEF vars, submit, contexts, jobstate, loop, wakeups, limiter, NotBegun
<1> QED
  BY <1>1, <1>2, <1>3, <1>4, <1>5, <1>6, <1>7, <1>8, <1>9, <1>10, <1>11, <1>12,
     <1>13, <1>14, <1>15, <1>16, <1>17, <1>18, <1>19, <1>20, <1>21, <1>22, <1>23, <1>24, <1>25
  DEF Next, Submits, Loop, Dispatch, Worker, Download

\* The searches at the indexers, inFlight and the worker pool stay in step.
LEMMA InFlightExactStep ==
  Inductive /\ [Next]_vars => InFlightExact'
<1> SUFFICES ASSUME Inductive, [Next]_vars PROVE InFlightExact'
  OBVIOUS
<1>a. InFlightExact /\ TaskTypes /\ LoopTypes /\ NotBegun
  BY DEF Inductive, TypeOK
<1>1. ASSUME NEW j \in Jobs, NEW p \in Priorities, NEW I \in (SUBSET Indexers) \ {{}}, SubmitBegin(j, p, I) PROVE InFlightExact'
  BY <1>a, <1>1 DEF SubmitBegin, contexts, jobstate, loop, wakeups, limiter, InFlightExact, AtIndexers, SlotHolders
<1>2. ASSUME NEW j \in Jobs, NEW i \in Indexers, SubmitCollect(j, i) PROVE InFlightExact'
  <2>1. AtIndexers' = AtIndexers /\ SlotHolders' = SlotHolders
    BY <1>a, <1>2, TaskParts DEF SubmitCollect, submit, contexts, jobstate, loop, wakeups, limiter, AtIndexers, SlotHolders, AtIndexer, TaskTypes, Queued, Collected, TasksOf, NotBegun
  <2> QED
    BY <1>a, <2>1, <1>2 DEF InFlightExact, SubmitCollect, submit, contexts, jobstate, loop, wakeups, limiter
<1>3. ASSUME NEW j \in Jobs, SubmitRegister(j) PROVE InFlightExact'
  BY <1>a, <1>3 DEF SubmitRegister, contexts, loop, wakeups, limiter, InFlightExact, AtIndexers, SlotHolders
<1>4. ASSUME NEW j \in Jobs, SubmitSend(j) PROVE InFlightExact'
  <2>1. AtIndexers' = AtIndexers /\ SlotHolders' = SlotHolders
    BY <1>a, <1>4, TaskParts DEF SubmitSend, contexts, jobstate, loop, wakeups, limiter, AtIndexers, SlotHolders, AtIndexer, TaskTypes, Queued, Collected, TasksOf, NotBegun
  <2> QED
    BY <1>a, <2>1, <1>4 DEF InFlightExact, SubmitSend, contexts, jobstate, loop, wakeups, limiter
<1>5. ASSUME NEW j \in Jobs, SubmitRefuse(j) PROVE InFlightExact'
  <2>1. AtIndexers' = AtIndexers /\ SlotHolders' = SlotHolders
    BY <1>a, <1>5, TaskParts DEF SubmitRefuse, contexts, loop, wakeups, limiter, AtIndexers, SlotHolders, AtIndexer, TaskTypes, Queued, Collected, TasksOf, NotBegun
  <2> QED
    BY <1>a, <2>1, <1>5 DEF InFlightExact, SubmitRefuse, contexts, loop, wakeups, limiter
<1>6. ASSUME NEW j \in Jobs, OnJobDone(j) PROVE InFlightExact'
  BY <1>a, <1>6 DEF OnJobDone, submit, contexts, jobstate, loop, wakeups, limiter, InFlightExact, AtIndexers, SlotHolders
<1>7. ASSUME NEW j \in Jobs, NEW how \in {"canceled", "expired"}, EndContext(j, how) PROVE InFlightExact'
  BY <1>a, <1>7 DEF EndContext, submit, jobstate, loop, wakeups, limiter, InFlightExact, AtIndexers, SlotHolders
<1>8. ASSUME TakeBatch PROVE InFlightExact'
  <2>1. AtIndexers' = AtIndexers /\ SlotHolders' = SlotHolders
    BY <1>a, <1>8, TaskParts DEF TakeBatch, submit, contexts, jobstate, wakeups, limiter, AtIndexers, SlotHolders, AtIndexer, TaskTypes, Queued, Collected, TasksOf, NotBegun
  <2> QED
    BY <1>a, <2>1, <1>8 DEF InFlightExact, TakeBatch, submit, contexts, jobstate, wakeups, limiter
<1>9. ASSUME TakeToken PROVE InFlightExact'
  BY <1>a, <1>9 DEF TakeToken, submit, contexts, jobstate, limiter, InFlightExact, AtIndexers, SlotHolders
<1>10. ASSUME CoalesceFire PROVE InFlightExact'
  BY <1>a, <1>10 DEF CoalesceFire, submit, contexts, jobstate, wakeups, limiter, InFlightExact, AtIndexers, SlotHolders
<1>11. ASSUME ScheduleRetryTimer PROVE InFlightExact'
  BY <1>a, <1>11 DEF ScheduleRetryTimer, submit, contexts, jobstate, limiter, InFlightExact, AtIndexers, SlotHolders
<1>12. ASSUME NEW t \in Tasks, DispatchDead(t) PROVE InFlightExact'
  <2>1. AtIndexers' = AtIndexers /\ SlotHolders' = SlotHolders
    BY <1>a, <1>12 DEF DispatchDead, submit, wakeups, limiter, AtIndexers, SlotHolders, AtIndexer, TaskTypes, Queued, First, Complete
  <2> QED
    BY <1>a, <2>1, <1>12 DEF InFlightExact, DispatchDead, submit, wakeups, limiter
<1>13. ASSUME NEW t \in Tasks, DispatchSkip(t) PROVE InFlightExact'
  <2>1. AtIndexers' = AtIndexers /\ SlotHolders' = SlotHolders
    BY <1>a, <1>13 DEF DispatchSkip, submit, wakeups, limiter, AtIndexers, SlotHolders, AtIndexer, TaskTypes, Queued, First, Complete
  <2> QED
    BY <1>a, <2>1, <1>13 DEF InFlightExact, DispatchSkip, submit, wakeups, limiter
<1>14. ASSUME NEW t \in Tasks, DispatchBlocked(t) PROVE InFlightExact'
  BY <1>a, <1>14 DEF DispatchBlocked, submit, jobstate, wakeups, limiter, InFlightExact, AtIndexers, SlotHolders
<1>15. ASSUME NEW t \in Tasks, DispatchRun(t) PROVE InFlightExact'
  <2> DEFINE i == IndexerOf(t)
  <2>1. state[t] = "queued" /\ i \notin inFlight /\ workers # MaxWorkers
    BY <1>a, <1>15 DEF DispatchRun, First, Blocked, TaskTypes, Queued
  <2>2. state' = [state EXCEPT ![t] = "dispatched"] /\ inFlight' = inFlight \cup {i}
        /\ workers' = workers + 1
    BY <1>15 DEF DispatchRun
  <2>3. t \notin AtIndexers /\ t \notin SlotHolders
    BY <2>1 DEF AtIndexers, SlotHolders, AtIndexer
  <2>4. AtIndexers' = AtIndexers \cup {t} /\ SlotHolders' = SlotHolders \cup {t}
    BY <1>a, <2>2 DEF AtIndexers, SlotHolders, AtIndexer, TaskTypes
  <2>5. \A u \in AtIndexers : IndexerOf(u) # i
    BY <1>a, <2>1 DEF InFlightExact
  <2>6. \A u, v \in AtIndexers' : IndexerOf(u) = IndexerOf(v) => u = v
    BY <1>a, <2>4, <2>5 DEF InFlightExact
  <2>7. inFlight' = {IndexerOf(u) : u \in AtIndexers'}
    BY <1>a, <2>2, <2>4 DEF InFlightExact
  <2>8. workers' = Cardinality(SlotHolders')
    <3>1. SlotHolders \in SUBSET Tasks
      BY DEF SlotHolders
    <3> QED
      BY <1>a, <2>2, <2>3, <2>4, <3>1, TaskSetsFinite, FS_AddElement DEF InFlightExact
  <2>9. workers' <= MaxWorkers
    BY <1>a, <2>1, <2>2, BoundsAssumption DEF InFlightExact, LoopTypes
  <2> QED
    BY <2>6, <2>7, <2>8, <2>9 DEF InFlightExact
<1>16. ASSUME NEW t \in Tasks, RecordRequest(t) PROVE InFlightExact'
  <2>1. AtIndexers' = AtIndexers /\ SlotHolders' = SlotHolders
    BY <1>a, <1>16 DEF RecordRequest, submit, contexts, jobstate, loop, wakeups, AtIndexers, SlotHolders, AtIndexer, TaskTypes
  <2> QED
    BY <1>a, <2>1, <1>16 DEF InFlightExact, RecordRequest, submit, contexts, jobstate, loop, wakeups
<1>17. ASSUME NEW t \in Tasks, NEW o \in Outcomes, Answer(t, o) PROVE InFlightExact'
  <2>1. AtIndexers' = AtIndexers /\ SlotHolders' = SlotHolders
    BY <1>a, <1>17 DEF Answer, submit, contexts, jobstate, loop, wakeups, AtIndexers, SlotHolders, AtIndexer, TaskTypes
  <2> QED
    BY <1>a, <2>1, <1>17 DEF InFlightExact, Answer, submit, contexts, jobstate, loop, wakeups
<1>18. ASSUME NEW t \in Tasks, Finish(t) PROVE InFlightExact'
  <2> DEFINE i == IndexerOf(t)
  <2>1. state[t] = "answered" /\ state' = [state EXCEPT ![t] = "finished"]
        /\ inFlight' = inFlight \ {i} /\ workers' = workers
    BY <1>18 DEF Finish, Complete
  <2>2. t \in AtIndexers
    BY <2>1 DEF AtIndexers, AtIndexer
  <2>3. AtIndexers' = AtIndexers \ {t} /\ SlotHolders' = SlotHolders
    BY <1>a, <2>1 DEF AtIndexers, SlotHolders, AtIndexer, TaskTypes
  <2>4. inFlight' = {IndexerOf(u) : u \in AtIndexers'}
    BY <1>a, <2>1, <2>2, <2>3 DEF InFlightExact
  <2> QED
    BY <1>a, <2>1, <2>3, <2>4 DEF InFlightExact
<1>19. ASSUME NEW t \in Tasks, Leave(t) PROVE InFlightExact'
  <2>1. CASE state[t] = "finished"
    <3>1. state' = [state EXCEPT ![t] = "released"] /\ workers' = workers - 1
          /\ inFlight' = inFlight
      BY <1>19, <2>1 DEF Leave
    <3>2. AtIndexers' = AtIndexers /\ SlotHolders' = SlotHolders \ {t} /\ t \in SlotHolders
      BY <1>a, <2>1, <3>1 DEF AtIndexers, SlotHolders, AtIndexer, TaskTypes
    <3>3. SlotHolders \in SUBSET Tasks
      BY DEF SlotHolders
    <3>4. workers' = Cardinality(SlotHolders')
      BY <1>a, <3>1, <3>2, <3>3, TaskSetsFinite, FS_RemoveElement DEF InFlightExact
    <3>5. workers' <= MaxWorkers
      BY <1>a, <3>1, BoundsAssumption DEF InFlightExact, LoopTypes
    <3> QED
      BY <1>a, <3>1, <3>2, <3>4, <3>5 DEF InFlightExact
  <2>2. CASE state[t] = "released"
    <3>1. state' = [state EXCEPT ![t] = "done"] /\ workers' = workers
          /\ inFlight' = inFlight
      BY <1>19, <2>2 DEF Leave
    <3>2. AtIndexers' = AtIndexers /\ SlotHolders' = SlotHolders
      BY <1>a, <2>2, <3>1 DEF AtIndexers, SlotHolders, AtIndexer, TaskTypes
    <3> QED
      BY <1>a, <3>1, <3>2 DEF InFlightExact
  <2> QED
    BY <1>19, <2>1, <2>2 DEF Leave
<1>20. ASSUME NEW t \in Tasks, FreshExpires(t) PROVE InFlightExact'
  BY <1>a, <1>20 DEF FreshExpires, submit, jobstate, loop, wakeups, limiter, InFlightExact, AtIndexers, SlotHolders
<1>21. ASSUME NEW i \in Indexers, DownloadCheck(i) PROVE InFlightExact'
  BY <1>a, <1>21 DEF DownloadCheck, submit, contexts, jobstate, loop, wakeups, limiter, InFlightExact, AtIndexers, SlotHolders
<1>22. ASSUME NEW i \in Indexers, NEW p \in Priorities, DownloadRequest(i, p) PROVE InFlightExact'
  BY <1>a, <1>22 DEF DownloadRequest, submit, contexts, jobstate, loop, wakeups, InFlightExact, AtIndexers, SlotHolders
<1>23. ASSUME NEW i \in Indexers, NEW o \in Outcomes, DownloadAnswer(i, o) PROVE InFlightExact'
  BY <1>a, <1>23 DEF DownloadAnswer, submit, contexts, jobstate, loop, wakeups, InFlightExact, AtIndexers, SlotHolders
<1>24. ASSUME Tick PROVE InFlightExact'
  BY <1>a, <1>24 DEF Tick, submit, contexts, jobstate, loop, InFlightExact, AtIndexers, SlotHolders
<1>25. CASE UNCHANGED vars
  BY <1>a, <1>25 DEF vars, submit, contexts, jobstate, loop, wakeups, limiter, InFlightExact, AtIndexers, SlotHolders
<1> QED
  BY <1>1, <1>2, <1>3, <1>4, <1>5, <1>6, <1>7, <1>8, <1>9, <1>10, <1>11, <1>12,
     <1>13, <1>14, <1>15, <1>16, <1>17, <1>18, <1>19, <1>20, <1>21, <1>22, <1>23, <1>24, <1>25
  DEF Next, Submits, Loop, Dispatch, Worker, Download

\* The deduplication marks stay exact.
LEMMA RssPendingExactStep ==
  Inductive /\ [Next]_vars => RssPendingExact'
<1> SUFFICES ASSUME Inductive, [Next]_vars PROVE RssPendingExact'
  OBVIOUS
<1>a. RssPendingExact /\ NotBegun /\ TaskTypes /\ SubmitTypes
  BY DEF Inductive, TypeOK
<1>1. ASSUME NEW j \in Jobs, NEW p \in Priorities, NEW I \in (SUBSET Indexers) \ {{}}, SubmitBegin(j, p, I) PROVE RssPendingExact'
  <2>1. RssOnTheWay' = RssOnTheWay /\ pendingRSS' = pendingRSS
    BY <1>a, <1>1, TaskParts DEF SubmitBegin, contexts, jobstate, loop, wakeups, limiter, RssOnTheWay, IsRSS, Pending, AtIndexer, SubmitTypes, NotBegun
  <2> QED
    BY <1>a, <2>1 DEF RssPendingExact
<1>2. ASSUME NEW j \in Jobs, NEW i \in Indexers, SubmitCollect(j, i) PROVE RssPendingExact'
  <2> DEFINE t == <<j, i>>
  <2>1. t \in Tasks /\ JobOf(t) = j /\ IndexerOf(t) = i /\ state[t] = "none" /\ prio' = prio
    BY TaskParts, <1>2 DEF SubmitCollect, submit
  <2>2. t \notin RssOnTheWay
    BY <2>1 DEF RssOnTheWay, Pending, AtIndexer
  <2>3. CASE prio[j] = RSS /\ i \in pendingRSS
    <3>1. state' = [state EXCEPT ![t] = "dropped"] /\ pendingRSS' = pendingRSS
      BY <1>2, <2>3 DEF SubmitCollect
    <3>2. RssOnTheWay' = RssOnTheWay
      BY <1>a, <2>1, <3>1 DEF RssOnTheWay, IsRSS, Pending, AtIndexer, TaskTypes
    <3> QED
      BY <1>a, <3>1, <3>2 DEF RssPendingExact
  <2>4. CASE prio[j] = RSS /\ i \notin pendingRSS
    <3>1. state' = [state EXCEPT ![t] = "collected"] /\ pendingRSS' = pendingRSS \cup {i}
      BY <1>2, <2>4 DEF SubmitCollect
    <3>2. RssOnTheWay' = RssOnTheWay \cup {t}
      BY <1>a, <2>1, <2>4, <3>1 DEF RssOnTheWay, IsRSS, Pending, AtIndexer, TaskTypes
    <3>3. \A u \in RssOnTheWay : IndexerOf(u) # i
      BY <1>a, <2>4 DEF RssPendingExact
    <3> QED
      BY <1>a, <2>1, <3>1, <3>2, <3>3 DEF RssPendingExact
  <2>5. CASE prio[j] # RSS
    <3>1. state' = [state EXCEPT ![t] = "collected"] /\ pendingRSS' = pendingRSS
      BY <1>2, <2>5 DEF SubmitCollect
    <3>2. RssOnTheWay' = RssOnTheWay
      BY <1>a, <2>1, <2>5, <3>1 DEF RssOnTheWay, IsRSS, Pending, AtIndexer, TaskTypes
    <3> QED
      BY <1>a, <3>1, <3>2 DEF RssPendingExact
  <2> QED
    BY <2>3, <2>4, <2>5
<1>3. ASSUME NEW j \in Jobs, SubmitRegister(j) PROVE RssPendingExact'
  BY <1>a, <1>3 DEF SubmitRegister, contexts, loop, wakeups, limiter, RssPendingExact, RssOnTheWay, IsRSS
<1>4. ASSUME NEW j \in Jobs, SubmitSend(j) PROVE RssPendingExact'
  <2>1. RssOnTheWay' = RssOnTheWay /\ pendingRSS' = pendingRSS
    BY <1>a, <1>4, TaskParts DEF SubmitSend, contexts, jobstate, loop, wakeups, limiter, RssOnTheWay, IsRSS, Pending, TaskTypes, Collected, TasksOf
  <2> QED
    BY <1>a, <2>1 DEF RssPendingExact
<1>5. ASSUME NEW j \in Jobs, SubmitRefuse(j) PROVE RssPendingExact'
  <2>1. prio' = prio /\ state' = [t \in Tasks |-> IF t \in Collected(j) THEN "dropped" ELSE state[t]]
    BY <1>5 DEF SubmitRefuse
  <2>2. CASE prio[j] = RSS
    <3>1. pendingRSS' = pendingRSS \ {IndexerOf(t) : t \in Collected(j)}
      BY <1>5, <2>2 DEF SubmitRefuse
    <3>2. RssOnTheWay' = RssOnTheWay \ Collected(j)
      BY <1>a, <2>1 DEF RssOnTheWay, IsRSS, Pending, AtIndexer
    <3>3. Collected(j) \subseteq RssOnTheWay
      BY <2>2 DEF RssOnTheWay, IsRSS, Pending, AtIndexer, Collected, TasksOf
    <3> QED
      BY <1>a, <3>1, <3>2, <3>3 DEF RssPendingExact
  <2>3. CASE prio[j] # RSS
    <3>1. pendingRSS' = pendingRSS
      BY <1>5, <2>3 DEF SubmitRefuse
    <3>2. RssOnTheWay' = RssOnTheWay
      BY <1>a, <2>1, <2>3 DEF RssOnTheWay, IsRSS, Pending, AtIndexer, Collected, TasksOf
    <3> QED
      BY <1>a, <3>1, <3>2 DEF RssPendingExact
  <2> QED
    BY <2>2, <2>3
<1>6. ASSUME NEW j \in Jobs, OnJobDone(j) PROVE RssPendingExact'
  BY <1>a, <1>6 DEF OnJobDone, submit, contexts, jobstate, loop, wakeups, limiter, RssPendingExact, RssOnTheWay, IsRSS
<1>7. ASSUME NEW j \in Jobs, NEW how \in {"canceled", "expired"}, EndContext(j, how) PROVE RssPendingExact'
  BY <1>a, <1>7 DEF EndContext, submit, jobstate, loop, wakeups, limiter, RssPendingExact, RssOnTheWay, IsRSS
<1>8. ASSUME TakeBatch PROVE RssPendingExact'
  <2>1. RssOnTheWay' = RssOnTheWay /\ pendingRSS' = pendingRSS
    BY <1>a, <1>8, TaskParts DEF TakeBatch, submit, contexts, jobstate, wakeups, limiter, RssOnTheWay, IsRSS, Pending, TaskTypes, Collected, TasksOf
  <2> QED
    BY <1>a, <2>1 DEF RssPendingExact
<1>9. ASSUME TakeToken PROVE RssPendingExact'
  BY <1>a, <1>9 DEF TakeToken, submit, contexts, jobstate, limiter, RssPendingExact, RssOnTheWay, IsRSS
<1>10. ASSUME CoalesceFire PROVE RssPendingExact'
  BY <1>a, <1>10 DEF CoalesceFire, submit, contexts, jobstate, wakeups, limiter, RssPendingExact, RssOnTheWay, IsRSS
<1>11. ASSUME ScheduleRetryTimer PROVE RssPendingExact'
  BY <1>a, <1>11 DEF ScheduleRetryTimer, submit, contexts, jobstate, limiter, RssPendingExact, RssOnTheWay, IsRSS
<1>12. ASSUME NEW t \in Tasks, DispatchDead(t) PROVE RssPendingExact'
  <2>1. state[t] = "queued" /\ state' = [state EXCEPT ![t] = "done"] /\ prio' = prio
        /\ pendingRSS' = IF IsRSS(t) THEN pendingRSS \ {IndexerOf(t)} ELSE pendingRSS
    BY <1>a, <1>12 DEF DispatchDead, submit, Complete, First, TaskTypes, Queued
  <2>2. CASE IsRSS(t)
    <3>1. RssOnTheWay' = RssOnTheWay \ {t} /\ t \in RssOnTheWay
      BY <1>a, <2>1, <2>2 DEF RssOnTheWay, IsRSS, Pending, AtIndexer, TaskTypes
    <3> QED
      BY <1>a, <2>1, <2>2, <3>1 DEF RssPendingExact
  <2>3. CASE ~IsRSS(t)
    <3>1. RssOnTheWay' = RssOnTheWay
      BY <1>a, <2>1, <2>3 DEF RssOnTheWay, IsRSS, TaskTypes
    <3> QED
      BY <1>a, <2>1, <2>3, <3>1 DEF RssPendingExact
  <2> QED
    BY <2>2, <2>3
<1>13. ASSUME NEW t \in Tasks, DispatchSkip(t) PROVE RssPendingExact'
  <2>1. state[t] = "queued" /\ state' = [state EXCEPT ![t] = "done"] /\ prio' = prio
        /\ pendingRSS' = IF IsRSS(t) THEN pendingRSS \ {IndexerOf(t)} ELSE pendingRSS
    BY <1>a, <1>13 DEF DispatchSkip, submit, Complete, First, TaskTypes, Queued
  <2>2. CASE IsRSS(t)
    <3>1. RssOnTheWay' = RssOnTheWay \ {t} /\ t \in RssOnTheWay
      BY <1>a, <2>1, <2>2 DEF RssOnTheWay, IsRSS, Pending, AtIndexer, TaskTypes
    <3> QED
      BY <1>a, <2>1, <2>2, <3>1 DEF RssPendingExact
  <2>3. CASE ~IsRSS(t)
    <3>1. RssOnTheWay' = RssOnTheWay
      BY <1>a, <2>1, <2>3 DEF RssOnTheWay, IsRSS, TaskTypes
    <3> QED
      BY <1>a, <2>1, <2>3, <3>1 DEF RssPendingExact
  <2> QED
    BY <2>2, <2>3
<1>14. ASSUME NEW t \in Tasks, DispatchBlocked(t) PROVE RssPendingExact'
  BY <1>a, <1>14 DEF DispatchBlocked, submit, jobstate, wakeups, limiter, RssPendingExact, RssOnTheWay, IsRSS
<1>15. ASSUME NEW t \in Tasks, DispatchRun(t) PROVE RssPendingExact'
  <2>1. RssOnTheWay' = RssOnTheWay /\ pendingRSS' = pendingRSS
    BY <1>a, <1>15 DEF DispatchRun, submit, jobstate, wakeups, limiter, RssOnTheWay, IsRSS, Pending, AtIndexer, TaskTypes, Queued, First
  <2> QED
    BY <1>a, <2>1 DEF RssPendingExact
<1>16. ASSUME NEW t \in Tasks, RecordRequest(t) PROVE RssPendingExact'
  <2>1. RssOnTheWay' = RssOnTheWay /\ pendingRSS' = pendingRSS
    BY <1>a, <1>16 DEF RecordRequest, submit, contexts, jobstate, loop, wakeups, RssOnTheWay, IsRSS, Pending, AtIndexer, TaskTypes
  <2> QED
    BY <1>a, <2>1 DEF RssPendingExact
<1>17. ASSUME NEW t \in Tasks, NEW o \in Outcomes, Answer(t, o) PROVE RssPendingExact'
  <2>1. RssOnTheWay' = RssOnTheWay /\ pendingRSS' = pendingRSS
    BY <1>a, <1>17 DEF Answer, submit, contexts, jobstate, loop, wakeups, RssOnTheWay, IsRSS, Pending, AtIndexer, TaskTypes
  <2> QED
    BY <1>a, <2>1 DEF RssPendingExact
<1>18. ASSUME NEW t \in Tasks, Finish(t) PROVE RssPendingExact'
  <2>1. state[t] = "answered" /\ state' = [state EXCEPT ![t] = "finished"] /\ prio' = prio
        /\ pendingRSS' = IF IsRSS(t) THEN pendingRSS \ {IndexerOf(t)} ELSE pendingRSS
    BY <1>a, <1>18 DEF Finish, submit, Complete
  <2>2. CASE IsRSS(t)
    <3>1. RssOnTheWay' = RssOnTheWay \ {t} /\ t \in RssOnTheWay
      BY <1>a, <2>1, <2>2 DEF RssOnTheWay, IsRSS, Pending, AtIndexer, TaskTypes
    <3> QED
      BY <1>a, <2>1, <2>2, <3>1 DEF RssPendingExact
  <2>3. CASE ~IsRSS(t)
    <3>1. RssOnTheWay' = RssOnTheWay
      BY <1>a, <2>1, <2>3 DEF RssOnTheWay, IsRSS, TaskTypes
    <3> QED
      BY <1>a, <2>1, <2>3, <3>1 DEF RssPendingExact
  <2> QED
    BY <2>2, <2>3
<1>19. ASSUME NEW t \in Tasks, Leave(t) PROVE RssPendingExact'
  <2>1. RssOnTheWay' = RssOnTheWay /\ pendingRSS' = pendingRSS
    BY <1>a, <1>19 DEF Leave, submit, contexts, jobstate, loop, limiter, RssOnTheWay, IsRSS, Pending, AtIndexer, TaskTypes
  <2> QED
    BY <1>a, <2>1 DEF RssPendingExact
<1>20. ASSUME NEW t \in Tasks, FreshExpires(t) PROVE RssPendingExact'
  BY <1>a, <1>20 DEF FreshExpires, submit, jobstate, loop, wakeups, limiter, RssPendingExact, RssOnTheWay, IsRSS
<1>21. ASSUME NEW i \in Indexers, DownloadCheck(i) PROVE RssPendingExact'
  BY <1>a, <1>21 DEF DownloadCheck, submit, contexts, jobstate, loop, wakeups, limiter, RssPendingExact, RssOnTheWay, IsRSS
<1>22. ASSUME NEW i \in Indexers, NEW p \in Priorities, DownloadRequest(i, p) PROVE RssPendingExact'
  BY <1>a, <1>22 DEF DownloadRequest, submit, contexts, jobstate, loop, wakeups, RssPendingExact, RssOnTheWay, IsRSS
<1>23. ASSUME NEW i \in Indexers, NEW o \in Outcomes, DownloadAnswer(i, o) PROVE RssPendingExact'
  BY <1>a, <1>23 DEF DownloadAnswer, submit, contexts, jobstate, loop, wakeups, RssPendingExact, RssOnTheWay, IsRSS
<1>24. ASSUME Tick PROVE RssPendingExact'
  BY <1>a, <1>24 DEF Tick, submit, contexts, jobstate, loop, RssPendingExact, RssOnTheWay, IsRSS
<1>25. CASE UNCHANGED vars
  BY <1>a, <1>25 DEF vars, submit, contexts, jobstate, loop, wakeups, limiter, RssPendingExact, RssOnTheWay, IsRSS
<1> QED
  BY <1>1, <1>2, <1>3, <1>4, <1>5, <1>6, <1>7, <1>8, <1>9, <1>10, <1>11, <1>12,
     <1>13, <1>14, <1>15, <1>16, <1>17, <1>18, <1>19, <1>20, <1>21, <1>22, <1>23, <1>24, <1>25
  DEF Next, Submits, Loop, Dispatch, Worker, Download

\* Nothing but a download makes a dispatched search wait again.
LEMMA StillReadyStep ==
  Inductive /\ [Next]_vars => StillReady'
<1> SUFFICES ASSUME Inductive, [Next]_vars PROVE StillReady'
  OBVIOUS
<1>a. StillReady /\ NotBegun /\ InFlightExact /\ TaskTypes /\ SubmitTypes /\ LimiterTypes
  BY DEF Inductive, TypeOK
<1>1. ASSUME NEW j \in Jobs, NEW p \in Priorities, NEW I \in (SUBSET Indexers) \ {{}}, SubmitBegin(j, p, I) PROVE StillReady'
  <2>1. \A t \in Tasks : state[t] = "dispatched" => prio'[JobOf(t)] = prio[JobOf(t)]
    BY <1>a, <1>1, TaskParts DEF SubmitBegin, NotBegun, SubmitTypes
  <2> QED
    BY <1>a, <2>1, <1>1 DEF SubmitBegin, limiter, StillReady, MayAsk
<1>2. ASSUME NEW j \in Jobs, NEW i \in Indexers, SubmitCollect(j, i) PROVE StillReady'
  BY <1>a, <1>2 DEF SubmitCollect, submit, contexts, jobstate, loop, wakeups, limiter, StillReady, MayAsk, TaskTypes, Queued, Collected, TasksOf
<1>3. ASSUME NEW j \in Jobs, SubmitRegister(j) PROVE StillReady'
  BY <1>a, <1>3 DEF SubmitRegister, contexts, loop, wakeups, limiter, StillReady, MayAsk
<1>4. ASSUME NEW j \in Jobs, SubmitSend(j) PROVE StillReady'
  BY <1>a, <1>4 DEF SubmitSend, contexts, jobstate, loop, wakeups, limiter, StillReady, MayAsk, TaskTypes, Queued, Collected, TasksOf
<1>5. ASSUME NEW j \in Jobs, SubmitRefuse(j) PROVE StillReady'
  BY <1>a, <1>5 DEF SubmitRefuse, contexts, loop, wakeups, limiter, StillReady, MayAsk, TaskTypes, Queued, Collected, TasksOf
<1>6. ASSUME NEW j \in Jobs, OnJobDone(j) PROVE StillReady'
  BY <1>a, <1>6 DEF OnJobDone, submit, contexts, jobstate, loop, wakeups, limiter, StillReady, MayAsk
<1>7. ASSUME NEW j \in Jobs, NEW how \in {"canceled", "expired"}, EndContext(j, how) PROVE StillReady'
  BY <1>a, <1>7 DEF EndContext, submit, jobstate, loop, wakeups, limiter, StillReady, MayAsk
<1>8. ASSUME TakeBatch PROVE StillReady'
  BY <1>a, <1>8 DEF TakeBatch, submit, contexts, jobstate, wakeups, limiter, StillReady, MayAsk, TaskTypes, Queued, Collected, TasksOf
<1>9. ASSUME TakeToken PROVE StillReady'
  BY <1>a, <1>9 DEF TakeToken, submit, contexts, jobstate, limiter, StillReady, MayAsk
<1>10. ASSUME CoalesceFire PROVE StillReady'
  BY <1>a, <1>10 DEF CoalesceFire, submit, contexts, jobstate, wakeups, limiter, StillReady, MayAsk
<1>11. ASSUME ScheduleRetryTimer PROVE StillReady'
  BY <1>a, <1>11 DEF ScheduleRetryTimer, submit, contexts, jobstate, limiter, StillReady, MayAsk
<1>12. ASSUME NEW t \in Tasks, DispatchDead(t) PROVE StillReady'
  BY <1>a, <1>12 DEF DispatchDead, submit, wakeups, limiter, Complete, jobstate, LeaveQueue, StillReady, MayAsk, TaskTypes, Queued, Collected, TasksOf
<1>13. ASSUME NEW t \in Tasks, DispatchSkip(t) PROVE StillReady'
  BY <1>a, <1>13 DEF DispatchSkip, submit, wakeups, limiter, Complete, jobstate, LeaveQueue, StillReady, MayAsk, TaskTypes, Queued, Collected, TasksOf
<1>14. ASSUME NEW t \in Tasks, DispatchBlocked(t) PROVE StillReady'
  BY <1>a, <1>14 DEF DispatchBlocked, submit, jobstate, wakeups, limiter, StillReady, MayAsk
<1>15. ASSUME NEW t \in Tasks, DispatchRun(t) PROVE StillReady'
  <2>1. TaskWait(t) = 0
    BY <1>a, <1>15, WaitNat DEF DispatchRun, Blocked
  <2>2. cool[IndexerOf(t)] = 0 /\ age[IndexerOf(t)] >= Interval[prio[JobOf(t)]]
    BY <1>a, <2>1, TaskParts, LongestNat, PrioritiesAssumption
    DEF TaskWait, Wait, SubmitTypes, LimiterTypes
  <2> QED
    BY <1>a, <2>2, <1>15 DEF DispatchRun, submit, limiter, StillReady, MayAsk, TaskTypes
<1>16. ASSUME NEW t \in Tasks, RecordRequest(t) PROVE StillReady'
  <2>1. t \in AtIndexers
    BY <1>16 DEF RecordRequest, AtIndexers, AtIndexer
  <2>2. \A u \in Tasks : state'[u] = "dispatched" => /\ state[u] = "dispatched"
                                                    /\ IndexerOf(u) # IndexerOf(t)
    <3> SUFFICES ASSUME NEW u \in Tasks, state'[u] = "dispatched"
                 PROVE  state[u] = "dispatched" /\ IndexerOf(u) # IndexerOf(t)
      OBVIOUS
    <3>1. state[u] = "dispatched" /\ u # t
      BY <1>a, <1>16 DEF RecordRequest, TaskTypes
    <3>2. u \in AtIndexers
      BY <3>1 DEF AtIndexers, AtIndexer
    <3> QED
      BY <1>a, <2>1, <3>1, <3>2 DEF InFlightExact
  <2> QED
    BY <1>a, <2>2, <1>16, TaskParts DEF RecordRequest, submit, StillReady, MayAsk, LimiterTypes
<1>17. ASSUME NEW t \in Tasks, NEW o \in Outcomes, Answer(t, o) PROVE StillReady'
  <2>1. t \in AtIndexers
    BY <1>17 DEF Answer, AtIndexers, AtIndexer
  <2>2. \A u \in Tasks : state'[u] = "dispatched" => /\ state[u] = "dispatched"
                                                    /\ IndexerOf(u) # IndexerOf(t)
    <3> SUFFICES ASSUME NEW u \in Tasks, state'[u] = "dispatched"
                 PROVE  state[u] = "dispatched" /\ IndexerOf(u) # IndexerOf(t)
      OBVIOUS
    <3>1. state[u] = "dispatched" /\ u # t
      BY <1>a, <1>17 DEF Answer, TaskTypes
    <3>2. u \in AtIndexers
      BY <3>1 DEF AtIndexers, AtIndexer
    <3> QED
      BY <1>a, <2>1, <3>1, <3>2 DEF InFlightExact
  <2> QED
    BY <1>a, <2>2, <1>17, TaskParts DEF Answer, submit, StillReady, MayAsk, LimiterTypes, RecordAnswer
<1>18. ASSUME NEW t \in Tasks, Finish(t) PROVE StillReady'
  BY <1>a, <1>18 DEF Finish, submit, contexts, loop, wakeups, limiter, Complete, jobstate, StillReady, MayAsk, TaskTypes, Queued, Collected, TasksOf
<1>19. ASSUME NEW t \in Tasks, Leave(t) PROVE StillReady'
  BY <1>a, <1>19 DEF Leave, submit, contexts, jobstate, loop, limiter, StillReady, MayAsk, TaskTypes, Queued, Collected, TasksOf
<1>20. ASSUME NEW t \in Tasks, FreshExpires(t) PROVE StillReady'
  BY <1>a, <1>20 DEF FreshExpires, submit, jobstate, loop, wakeups, limiter, StillReady, MayAsk
<1>21. ASSUME NEW i \in Indexers, DownloadCheck(i) PROVE StillReady'
  BY <1>a, <1>21 DEF DownloadCheck, submit, limiter, StillReady, MayAsk
<1>22. ASSUME NEW i \in Indexers, NEW p \in Priorities, DownloadRequest(i, p) PROVE StillReady'
  <2>1. \A t \in Tasks \ overtaken' : /\ t \notin overtaken
                                      /\ state[t] = "dispatched" => age'[IndexerOf(t)] = age[IndexerOf(t)]
    BY <1>a, <1>22, TaskParts DEF DownloadRequest, AboutToAsk, LimiterTypes
  <2> QED
    BY <1>a, <2>1, <1>22 DEF DownloadRequest, submit, StillReady, MayAsk
<1>23. ASSUME NEW i \in Indexers, NEW o \in Outcomes, DownloadAnswer(i, o) PROVE StillReady'
  <2>1. \A t \in Tasks \ overtaken' : /\ t \notin overtaken
                                      /\ state[t] = "dispatched" => cool'[IndexerOf(t)] = cool[IndexerOf(t)]
    BY <1>a, <1>23, TaskParts DEF DownloadAnswer, RecordAnswer, AboutToAsk, LimiterTypes
  <2> QED
    BY <1>a, <2>1, <1>23 DEF DownloadAnswer, submit, StillReady, MayAsk
<1>24. ASSUME Tick PROVE StillReady'
  <2>1. \A i \in Indexers : age'[i] >= age[i] /\ (cool[i] = 0 => cool'[i] = 0)
    BY <1>a, <1>24, LongestNat DEF Tick, LimiterTypes
  <2>2. age' \in [Indexers -> 0..Longest]
    BY <1>a, <1>24, LongestNat DEF Tick, LimiterTypes
  <2> SUFFICES ASSUME NEW t \in Tasks \ overtaken, state[t] = "dispatched"
               PROVE  /\ cool'[IndexerOf(t)] = 0
                      /\ age'[IndexerOf(t)] >= Interval[prio[JobOf(t)]]
    BY <1>a, <1>24 DEF Tick, submit, StillReady, MayAsk
  <2> QED
    BY <1>a, <2>1, <2>2, TaskParts, LongestNat, PrioritiesAssumption
    DEF StillReady, MayAsk, LimiterTypes, SubmitTypes
<1>25. CASE UNCHANGED vars
  BY <1>a, <1>25 DEF vars, submit, contexts, jobstate, loop, wakeups, limiter, StillReady, MayAsk
<1> QED
  BY <1>1, <1>2, <1>3, <1>4, <1>5, <1>6, <1>7, <1>8, <1>9, <1>10, <1>11, <1>12,
     <1>13, <1>14, <1>15, <1>16, <1>17, <1>18, <1>19, <1>20, <1>21, <1>22, <1>23, <1>24, <1>25
  DEF Next, Submits, Loop, Dispatch, Worker, Download

\* A task that was put back keeps its reason to wait until its wait ends.
LEMMA PutBackStep ==
  Inductive /\ [Next]_vars => PutBack'
<1> SUFFICES ASSUME Inductive, [Next]_vars PROVE PutBack'
  OBVIOUS
<1>a. PutBack /\ NotBegun /\ InFlightExact /\ TaskTypes /\ SubmitTypes /\ LimiterTypes /\ LoopTypes
  BY DEF Inductive, TypeOK
<1>1. ASSUME NEW j \in Jobs, NEW p \in Priorities, NEW I \in (SUBSET Indexers) \ {{}}, SubmitBegin(j, p, I) PROVE PutBack'
  <2>1. \A t \in Queued : prio'[JobOf(t)] = prio[JobOf(t)]
    BY <1>a, <1>1, TaskParts DEF SubmitBegin, NotBegun, SubmitTypes, Queued
  <2>2. Queued' = Queued /\ Notifiers' = Notifiers
    BY <1>1 DEF SubmitBegin, Queued, Notifiers
  <2> QED
    BY <1>a, <2>1, <2>2, <1>1 DEF SubmitBegin, loop, wakeups, limiter, PutBack, TaskWait, Wait
<1>2. ASSUME NEW j \in Jobs, NEW i \in Indexers, SubmitCollect(j, i) PROVE PutBack'
  BY <1>2 DEF SubmitCollect, loop, PutBack, Unlocked
<1>3. ASSUME NEW j \in Jobs, SubmitRegister(j) PROVE PutBack'
  BY <1>a, <1>3 DEF SubmitRegister, contexts, loop, wakeups, limiter, PutBack, Queued, Notifiers, TaskWait, Wait
<1>4. ASSUME NEW j \in Jobs, SubmitSend(j) PROVE PutBack'
  <2>1. Queued' = Queued /\ Notifiers' = Notifiers
    BY <1>a, <1>4 DEF SubmitSend, Queued, Notifiers, Collected, TasksOf, AtIndexer
  <2> QED
    BY <1>a, <2>1, <1>4 DEF SubmitSend, loop, wakeups, limiter, PutBack, TaskWait, Wait
<1>5. ASSUME NEW j \in Jobs, SubmitRefuse(j) PROVE PutBack'
  BY <1>5 DEF SubmitRefuse, loop, PutBack, Unlocked
<1>6. ASSUME NEW j \in Jobs, OnJobDone(j) PROVE PutBack'
  BY <1>a, <1>6 DEF OnJobDone, submit, contexts, jobstate, loop, wakeups, limiter, PutBack, Queued, Notifiers, TaskWait, Wait
<1>7. ASSUME NEW j \in Jobs, NEW how \in {"canceled", "expired"}, EndContext(j, how) PROVE PutBack'
  BY <1>a, <1>7 DEF EndContext, submit, jobstate, loop, wakeups, limiter, PutBack, Queued, Notifiers, TaskWait, Wait
<1>8. ASSUME TakeBatch PROVE PutBack'
  BY <1>8 DEF TakeBatch, PutBack, Unlocked
<1>9. ASSUME TakeToken PROVE PutBack'
  BY <1>9 DEF TakeToken, BeginDispatch, PutBack, Queued
<1>10. ASSUME CoalesceFire PROVE PutBack'
  BY <1>10 DEF CoalesceFire, BeginDispatch, PutBack, Queued
<1>11. ASSUME ScheduleRetryTimer PROVE PutBack'
  BY <1>11 DEF ScheduleRetryTimer, PutBack, Unlocked
<1>12. ASSUME NEW t \in Tasks, DispatchDead(t) PROVE PutBack'
  <2>1. t \in todo /\ state[t] = "queued" /\ state' = [state EXCEPT ![t] = "done"]
        /\ todo' = todo \ {t}
    BY <1>a, <1>12 DEF DispatchDead, First, LeaveQueue, Complete, TaskTypes, Queued
  <2>2. Queued' = Queued \ {t} /\ Notifiers' = Notifiers
    BY <1>a, <2>1 DEF Queued, Notifiers, AtIndexer, TaskTypes
  <2>3. Queued' \ todo' = Queued \ todo
    BY <2>1, <2>2
  <2> QED
    BY <1>a, <2>3, <2>2, <1>12 DEF DispatchDead, submit, wakeups, limiter, PutBack, TaskWait, Wait
<1>13. ASSUME NEW t \in Tasks, DispatchSkip(t) PROVE PutBack'
  <2>1. t \in todo /\ state[t] = "queued" /\ state' = [state EXCEPT ![t] = "done"]
        /\ todo' = todo \ {t}
    BY <1>a, <1>13 DEF DispatchSkip, First, LeaveQueue, Complete, TaskTypes, Queued
  <2>2. Queued' = Queued \ {t} /\ Notifiers' = Notifiers
    BY <1>a, <2>1 DEF Queued, Notifiers, AtIndexer, TaskTypes
  <2>3. Queued' \ todo' = Queued \ todo
    BY <2>1, <2>2
  <2> QED
    BY <1>a, <2>3, <2>2, <1>13 DEF DispatchSkip, submit, wakeups, limiter, PutBack, TaskWait, Wait
<1>14. ASSUME NEW t \in Tasks, DispatchBlocked(t) PROVE PutBack'
  <2>1. TaskWait(t) > 0 \/ Notifiers # {}
    <3>1. CASE IndexerOf(t) \in inFlight
      <4>1. PICK u \in AtIndexers : IndexerOf(u) = IndexerOf(t)
        BY <1>a, <3>1 DEF InFlightExact
      <4> QED
        BY <4>1 DEF AtIndexers, Notifiers
    <3>2. CASE workers = MaxWorkers
      <4>1. SlotHolders # {}
        BY <1>a, <3>2, FS_EmptySet, BoundsAssumption DEF InFlightExact
      <4> QED
        BY <4>1 DEF SlotHolders, Notifiers
    <3> QED
      BY <3>1, <3>2, <1>14 DEF DispatchBlocked, Blocked
  <2>2. Queued' = Queued /\ Notifiers' = Notifiers /\ Queued' \ todo' \subseteq (Queued \ todo) \cup {t}
    BY <1>14 DEF DispatchBlocked, Queued, Notifiers
  <2> QED
    BY <1>a, <2>1, <2>2, <1>14 DEF DispatchBlocked, submit, wakeups, limiter, PutBack, TaskWait, Wait
<1>15. ASSUME NEW t \in Tasks, DispatchRun(t) PROVE PutBack'
  <2>1. t \in Notifiers'
    BY <1>a, <1>15 DEF DispatchRun, Notifiers, AtIndexer, TaskTypes
  <2> QED
    BY <2>1 DEF PutBack
<1>16. ASSUME NEW t \in Tasks, RecordRequest(t) PROVE PutBack'
  <2>1. t \in Notifiers'
    BY <1>a, <1>16 DEF RecordRequest, Notifiers, AtIndexer, TaskTypes
  <2> QED
    BY <2>1 DEF PutBack
<1>17. ASSUME NEW t \in Tasks, NEW o \in Outcomes, Answer(t, o) PROVE PutBack'
  <2>1. t \in Notifiers'
    BY <1>a, <1>17 DEF Answer, Notifiers, AtIndexer, TaskTypes
  <2> QED
    BY <2>1 DEF PutBack
<1>18. ASSUME NEW t \in Tasks, Finish(t) PROVE PutBack'
  BY <1>18 DEF Finish, loop, PutBack, Unlocked
<1>19. ASSUME NEW t \in Tasks, Leave(t) PROVE PutBack'
  <2>1. CASE state[t] = "finished"
    <3>1. t \in Notifiers'
      BY <1>a, <2>1, <1>19 DEF Leave, Notifiers, TaskTypes
    <3> QED
      BY <3>1 DEF PutBack
  <2>2. CASE state[t] = "released"
    <3>1. tokens' > 0
      BY <1>a, <2>2, <1>19, BoundsAssumption DEF Leave, Woken, LoopTypes
    <3> QED
      BY <3>1 DEF PutBack
  <2> QED
    BY <1>19, <2>1, <2>2 DEF Leave
<1>20. ASSUME NEW t \in Tasks, FreshExpires(t) PROVE PutBack'
  BY <1>a, <1>20 DEF FreshExpires, submit, jobstate, loop, wakeups, limiter, PutBack, Queued, Notifiers, TaskWait, Wait
<1>21. ASSUME NEW i \in Indexers, DownloadCheck(i) PROVE PutBack'
  BY <1>a, <1>21 DEF DownloadCheck, submit, contexts, jobstate, loop, wakeups, limiter, PutBack, Queued, Notifiers, TaskWait, Wait
<1>22. ASSUME NEW i \in Indexers, NEW p \in Priorities, DownloadRequest(i, p) PROVE PutBack'
  <2>a. \A k \in Indexers : age[k] \in Nat /\ age'[k] \in Nat /\ age'[k] <= age[k]
    BY <1>a, <1>22, LongestNat DEF DownloadRequest, LimiterTypes
  <2>b. cool' = cool /\ prio' = prio
    BY <1>22 DEF DownloadRequest, submit
  <2>1. \A t \in Tasks : TaskWait(t) > 0 => TaskWait(t)' > 0
    <3> SUFFICES ASSUME NEW t \in Tasks, TaskWait(t) > 0 PROVE TaskWait(t)' > 0
      OBVIOUS
    <3> DEFINE k == IndexerOf(t)  q == prio[JobOf(t)]
    <3>1. k \in Indexers /\ Interval[q] \in Nat /\ cool[k] \in Nat
      BY <1>a, TaskParts, PrioritiesAssumption DEF SubmitTypes, LimiterTypes
    <3>2. Wait(k, q) > 0
      BY DEF TaskWait
    <3>3. Wait(k, q)' > 0
      BY <2>a, <2>b, <3>1, <3>2 DEF Wait
    <3> QED
      BY <2>b, <3>3 DEF TaskWait
  <2> QED
    BY <1>a, <2>1, <1>22 DEF DownloadRequest, loop, wakeups, PutBack, Queued, Notifiers
<1>23. ASSUME NEW i \in Indexers, NEW o \in Outcomes, DownloadAnswer(i, o) PROVE PutBack'
  <2>1. \A k \in Indexers : cool'[k] \in Nat /\ (cool[k] > 0 => cool'[k] > 0)
    BY <1>a, <1>23, EscalationAssumption DEF DownloadAnswer, RecordAnswer, Escalated, LimiterTypes
  <2>2. \A t \in Tasks : TaskWait(t) > 0 => TaskWait(t)' > 0
    BY <1>a, <2>1, <1>23, TaskParts, LongestNat, PrioritiesAssumption
    DEF DownloadAnswer, submit, TaskWait, Wait, SubmitTypes, LimiterTypes
  <2> QED
    BY <1>a, <2>2, <1>23 DEF DownloadAnswer, loop, wakeups, PutBack, Queued, Notifiers
<1>24. ASSUME Tick PROVE PutBack'
  <2>1. ASSUME NEW t \in Tasks, TaskWait(t) > 0 PROVE TaskWait(t)' > 0 \/ TaskWait(t) = 1
    <3> DEFINE k == IndexerOf(t)  q == prio[JobOf(t)]
    <3>1. /\ k \in Indexers /\ Interval[q] \in Nat /\ Interval[q] <= Longest
          /\ cool[k] \in Nat /\ age[k] \in Nat
      BY <1>a, TaskParts, LongestNat, PrioritiesAssumption, IntervalUpToLongest DEF SubmitTypes, LimiterTypes
    <3>2. /\ age'[k] = IF age[k] < Longest THEN age[k] + 1 ELSE age[k]
          /\ cool'[k] = IF cool[k] > 0 THEN cool[k] - 1 ELSE 0
          /\ prio' = prio
      BY <1>24, <3>1 DEF Tick, submit
    <3>3. Wait(k, q) > 0
      BY <2>1 DEF TaskWait
    <3>4. Wait(k, q)' > 0 \/ Wait(k, q) = 1
      BY <3>1, <3>2, <3>3, LongestNat DEF Wait
    <3> QED
      BY <3>2, <3>4 DEF TaskWait
  <2>2. tokens > 0 => tokens' > 0
    BY <1>a, <1>24 DEF Tick, Woken, LoopTypes
  <2>3. Queued' = Queued /\ Notifiers' = Notifiers /\ lpc' = lpc /\ todo' = todo
    BY <1>24 DEF Tick, Queued, Notifiers
  <2>4. lpc = "dispatch" => missed' = missed \cup {t \in Queued \ todo : TaskWait(t) = 1}
    BY <1>24 DEF Tick
  <2>5. Queued \subseteq Tasks
    BY DEF Queued
  <2> QED
    BY <1>a, <2>1, <2>2, <2>3, <2>4, <2>5 DEF PutBack
<1>25. CASE UNCHANGED vars
  BY <1>a, <1>25 DEF vars, submit, contexts, jobstate, loop, wakeups, limiter, PutBack, Queued, Notifiers, TaskWait, Wait
<1> QED
  BY <1>1, <1>2, <1>3, <1>4, <1>5, <1>6, <1>7, <1>8, <1>9, <1>10, <1>11, <1>12,
     <1>13, <1>14, <1>15, <1>16, <1>17, <1>18, <1>19, <1>20, <1>21, <1>22, <1>23, <1>24, <1>25
  DEF Next, Submits, Loop, Dispatch, Worker, Download

\* The loop is woken for a queued task, unless its wait ended inside the dispatch.
LEMMA NoLostWakeupStep ==
  Inductive /\ [Next]_vars => NoLostWakeup'
<1> SUFFICES ASSUME Inductive, [Next]_vars PROVE NoLostWakeup'
  OBVIOUS
<1>a. NoLostWakeup /\ PutBack /\ TaskTypes /\ SubmitTypes /\ LimiterTypes /\ LoopTypes
  BY DEF Inductive, TypeOK
<1>1. ASSUME NEW j \in Jobs, NEW p \in Priorities, NEW I \in (SUBSET Indexers) \ {{}}, SubmitBegin(j, p, I) PROVE NoLostWakeup'
  BY <1>a, <1>1 DEF SubmitBegin, contexts, jobstate, loop, wakeups, limiter, NoLostWakeup, WillWake, Queued, Notifiers
<1>2. ASSUME NEW j \in Jobs, NEW i \in Indexers, SubmitCollect(j, i) PROVE NoLostWakeup'
  <2>1. Queued' = Queued /\ Notifiers' = Notifiers
    BY <1>a, <1>2, TaskParts DEF SubmitCollect, Queued, Notifiers, Collected, TasksOf, AtIndexer, TaskTypes
  <2> QED
    BY <1>a, <2>1, <1>2 DEF SubmitCollect, loop, wakeups, NoLostWakeup, WillWake
<1>3. ASSUME NEW j \in Jobs, SubmitRegister(j) PROVE NoLostWakeup'
  BY <1>a, <1>3 DEF SubmitRegister, contexts, loop, wakeups, limiter, NoLostWakeup, WillWake, Queued, Notifiers
<1>4. ASSUME NEW j \in Jobs, SubmitSend(j) PROVE NoLostWakeup'
  <2>1. Queued' = Queued /\ Notifiers' = Notifiers
    BY <1>a, <1>4, TaskParts DEF SubmitSend, Queued, Notifiers, Collected, TasksOf, AtIndexer, TaskTypes
  <2> QED
    BY <1>a, <2>1, <1>4 DEF SubmitSend, loop, wakeups, NoLostWakeup, WillWake
<1>5. ASSUME NEW j \in Jobs, SubmitRefuse(j) PROVE NoLostWakeup'
  <2>1. Queued' = Queued /\ Notifiers' = Notifiers
    BY <1>a, <1>5, TaskParts DEF SubmitRefuse, Queued, Notifiers, Collected, TasksOf, AtIndexer, TaskTypes
  <2> QED
    BY <1>a, <2>1, <1>5 DEF SubmitRefuse, loop, wakeups, NoLostWakeup, WillWake
<1>6. ASSUME NEW j \in Jobs, OnJobDone(j) PROVE NoLostWakeup'
  BY <1>a, <1>6 DEF OnJobDone, submit, contexts, jobstate, loop, wakeups, limiter, NoLostWakeup, WillWake, Queued, Notifiers
<1>7. ASSUME NEW j \in Jobs, NEW how \in {"canceled", "expired"}, EndContext(j, how) PROVE NoLostWakeup'
  BY <1>a, <1>7 DEF EndContext, submit, jobstate, loop, wakeups, limiter, NoLostWakeup, WillWake, Queued, Notifiers
<1>8. ASSUME TakeBatch PROVE NoLostWakeup'
  BY <1>8 DEF TakeBatch, NoLostWakeup, WillWake
<1>9. ASSUME TakeToken PROVE NoLostWakeup'
  BY <1>9 DEF TakeToken, BeginDispatch, NoLostWakeup, WillWake, Queued
<1>10. ASSUME CoalesceFire PROVE NoLostWakeup'
  BY <1>10 DEF CoalesceFire, BeginDispatch, NoLostWakeup, WillWake, Queued
<1>11. ASSUME ScheduleRetryTimer PROVE NoLostWakeup'
  <2> SUFFICES ASSUME NEW t \in Queued \ missed
               PROVE  tokens' > 0 \/ timer' > 0 \/ Notifiers' # {}
    BY <1>11 DEF NoLostWakeup, WillWake, ScheduleRetryTimer, Queued
  <2>1. TaskWait(t) > 0 \/ Notifiers # {} \/ tokens > 0
    BY <1>a, <1>11 DEF ScheduleRetryTimer, PutBack
  <2>2. CASE TaskWait(t) > 0
    <3>1. Waits \in SUBSET Nat /\ 0 \notin Waits
      BY <1>a, WaitNat DEF Waits, Queued
    <3>2. TaskWait(t) \in Waits
      BY <1>a, <2>2, WaitNat DEF Waits, Queued
    <3>3. Least(Waits) \in Waits
      BY <3>1, <3>2, LeastMember
    <3>5. Least(Waits) \in Nat /\ Least(Waits) # 0
      BY <3>1, <3>3
    <3>4. RetryDelay > 0
      BY <3>2, <3>5, BoundsAssumption DEF RetryDelay
    <3> QED
      BY <3>4, <1>11 DEF ScheduleRetryTimer
  <2>3. CASE Notifiers # {} \/ tokens > 0
    BY <2>3, <1>11 DEF ScheduleRetryTimer, Notifiers
  <2> QED
    BY <2>1, <2>2, <2>3
<1>12. ASSUME NEW t \in Tasks, DispatchDead(t) PROVE NoLostWakeup'
  BY <1>12 DEF DispatchDead, NoLostWakeup, WillWake
<1>13. ASSUME NEW t \in Tasks, DispatchSkip(t) PROVE NoLostWakeup'
  BY <1>13 DEF DispatchSkip, NoLostWakeup, WillWake
<1>14. ASSUME NEW t \in Tasks, DispatchBlocked(t) PROVE NoLostWakeup'
  BY <1>14 DEF DispatchBlocked, NoLostWakeup, WillWake
<1>15. ASSUME NEW t \in Tasks, DispatchRun(t) PROVE NoLostWakeup'
  BY <1>15 DEF DispatchRun, NoLostWakeup, WillWake
<1>16. ASSUME NEW t \in Tasks, RecordRequest(t) PROVE NoLostWakeup'
  <2>1. t \in Notifiers'
    BY <1>a, <1>16 DEF RecordRequest, Notifiers, AtIndexer, TaskTypes
  <2> QED
    BY <2>1 DEF NoLostWakeup, WillWake
<1>17. ASSUME NEW t \in Tasks, NEW o \in Outcomes, Answer(t, o) PROVE NoLostWakeup'
  <2>1. t \in Notifiers'
    BY <1>a, <1>17 DEF Answer, Notifiers, AtIndexer, TaskTypes
  <2> QED
    BY <2>1 DEF NoLostWakeup, WillWake
<1>18. ASSUME NEW t \in Tasks, Finish(t) PROVE NoLostWakeup'
  <2>1. t \in Notifiers'
    BY <1>a, <1>18 DEF Finish, Notifiers, AtIndexer, TaskTypes, Complete
  <2> QED
    BY <2>1 DEF NoLostWakeup, WillWake
<1>19. ASSUME NEW t \in Tasks, Leave(t) PROVE NoLostWakeup'
  <2>1. CASE state[t] = "finished"
    <3>1. t \in Notifiers'
      BY <1>a, <2>1, <1>19 DEF Leave, Notifiers, TaskTypes
    <3> QED
      BY <3>1 DEF NoLostWakeup, WillWake
  <2>2. CASE state[t] = "released"
    <3>1. tokens' > 0
      BY <1>a, <2>2, <1>19, BoundsAssumption DEF Leave, Woken, LoopTypes
    <3> QED
      BY <3>1 DEF NoLostWakeup, WillWake
  <2> QED
    BY <1>19, <2>1, <2>2 DEF Leave
<1>20. ASSUME NEW t \in Tasks, FreshExpires(t) PROVE NoLostWakeup'
  BY <1>a, <1>20 DEF FreshExpires, submit, jobstate, loop, wakeups, limiter, NoLostWakeup, WillWake, Queued, Notifiers
<1>21. ASSUME NEW i \in Indexers, DownloadCheck(i) PROVE NoLostWakeup'
  BY <1>a, <1>21 DEF DownloadCheck, submit, contexts, jobstate, loop, wakeups, limiter, NoLostWakeup, WillWake, Queued, Notifiers
<1>22. ASSUME NEW i \in Indexers, NEW p \in Priorities, DownloadRequest(i, p) PROVE NoLostWakeup'
  BY <1>a, <1>22 DEF DownloadRequest, submit, contexts, jobstate, loop, wakeups, NoLostWakeup, WillWake, Queued, Notifiers
<1>23. ASSUME NEW i \in Indexers, NEW o \in Outcomes, DownloadAnswer(i, o) PROVE NoLostWakeup'
  BY <1>a, <1>23 DEF DownloadAnswer, submit, contexts, jobstate, loop, wakeups, NoLostWakeup, WillWake, Queued, Notifiers
<1>24. ASSUME Tick PROVE NoLostWakeup'
  <2>1. Queued' = Queued /\ Notifiers' = Notifiers
    BY <1>24 DEF Tick, Queued, Notifiers
  <2>2. tokens > 0 => tokens' > 0
    BY <1>a, <1>24 DEF Tick, Woken, LoopTypes
  <2>3. timer > 0 => timer' > 0 \/ tokens' > 0
    BY <1>a, <1>24, BoundsAssumption DEF Tick, Woken, LoopTypes
  <2> QED
    BY <1>a, <2>1, <2>2, <2>3, <1>24 DEF Tick, NoLostWakeup, WillWake
<1>25. CASE UNCHANGED vars
  BY <1>a, <1>25 DEF vars, submit, contexts, jobstate, loop, wakeups, limiter, NoLostWakeup, WillWake, Queued, Notifiers
<1> QED
  BY <1>1, <1>2, <1>3, <1>4, <1>5, <1>6, <1>7, <1>8, <1>9, <1>10, <1>11, <1>12,
     <1>13, <1>14, <1>15, <1>16, <1>17, <1>18, <1>19, <1>20, <1>21, <1>22, <1>23, <1>24, <1>25
  DEF Next, Submits, Loop, Dispatch, Worker, Download

-----------------------------------------------------------------------------
(* The completions of a job *)

\* The tasks of a job that Submit has not yet sent are dropped, or collected.
Early == {"none", "dropped", "collected"}
OpenTasks(j) == {t \in TasksOf(j) : state[t] \in Pending}
OnlyEarly(j) == \A t \in TasksOf(j) : state[t] \in Early
NoneCollected(j) == \A t \in TasksOf(j) : state[t] # "collected"
Forgotten(j) == total[j] = 0 /\ completed[j] = 0

\* What a job still waits for is what it was registered with less what was completed
\* (jobState), and OnJobDone comes with the last completion.
JobCounted(j) ==
  /\ jpc[j] \in {"none", "collect"} => Forgotten(j) /\ jobDone[j] = 0 /\ OnlyEarly(j)
  /\ jpc[j] = "send" =>
       /\ OnlyEarly(j) /\ OpenTasks(j) # {} /\ total[j] = Cardinality(OpenTasks(j))
       /\ completed[j] = 0 /\ jobDone[j] = 0
  /\ jpc[j] = "accepted" =>
       /\ NoneCollected(j)
       /\ IF OpenTasks(j) = {} THEN Forgotten(j) /\ jobDone[j] = 1
          ELSE total[j] = completed[j] + Cardinality(OpenTasks(j)) /\ jobDone[j] = 0
  /\ jpc[j] = "refused" => Forgotten(j) /\ jobDone[j] = 0 /\ OpenTasks(j) = {}

JobsCounted == \A j \in Jobs : JobCounted(j)

\* A task of one job is no task of another.
LEMMA OwnTasks ==
  /\ \A j \in Jobs : \A t \in TasksOf(j) : t \in Tasks /\ JobOf(t) = j
  /\ \A t \in Tasks : JobOf(t) \in Jobs /\ t \in TasksOf(JobOf(t))
BY TaskParts DEF TasksOf

\* The tasks a job waits for can be counted.
LEMMA OpenTasksCount ==
  ASSUME NEW j \in Jobs
  PROVE  /\ IsFiniteSet(OpenTasks(j)) /\ Cardinality(OpenTasks(j)) \in Nat
         /\ Cardinality(OpenTasks(j)) = 0 <=> OpenTasks(j) = {}
<1>1. OpenTasks(j) \in SUBSET Tasks
  BY DEF OpenTasks, TasksOf
<1> QED
  BY <1>1, TaskSetsFinite, FS_EmptySet

\* A count depends only on the job and on which of its tasks are early, pending, collected.
LEMMA SameCount ==
  ASSUME NEW j \in Jobs, JobCounted(j),
         jpc'[j] = jpc[j], total'[j] = total[j], completed'[j] = completed[j],
         jobDone'[j] = jobDone[j],
         \A t \in TasksOf(j) : \/ state'[t] = state[t]
                               \/ /\ state[t] \notin Early /\ state'[t] \notin Early
                                  /\ state[t] \in Pending <=> state'[t] \in Pending
  PROVE  JobCounted(j)'
<1>1. OpenTasks(j)' = OpenTasks(j)
  BY DEF OpenTasks, TasksOf
<1>2. OnlyEarly(j) => OnlyEarly(j)'
  BY DEF OnlyEarly, TasksOf
<1>3. NoneCollected(j) => NoneCollected(j)'
  BY DEF NoneCollected, TasksOf, Early
<1>4. Forgotten(j) => Forgotten(j)'
  BY DEF Forgotten
<1> QED
  BY <1>1, <1>2, <1>3, <1>4 DEF JobCounted

\* A task goes from one pending stage to another, or leaves a worker that is through with it.
LEMMA MoveKeepsCounts ==
  ASSUME JobsCounted, TaskTypes, UNCHANGED <<jpc, jobstate>>,
         \A u \in Tasks : \/ state'[u] = state[u]
                          \/ /\ state[u] \notin Early /\ state'[u] \notin Early
                             /\ state[u] \in Pending <=> state'[u] \in Pending
  PROVE  JobsCounted'
<1> SUFFICES ASSUME NEW j \in Jobs PROVE JobCounted(j)'
  BY DEF JobsCounted
<1>1. JobCounted(j)
  BY DEF JobsCounted
<1> QED
  BY <1>1, SameCount, OwnTasks DEF jobstate

\* The completion of a task is counted once, and the last one is the job's.
LEMMA CompleteCounts ==
  ASSUME JobsCounted, TaskTypes, JobTypes, NEW t \in Tasks, NEW s \in Completed,
         state[t] \in {"queued", "answered"}, Complete(t, s), jpc' = jpc, SubmitTypes
  PROVE  JobsCounted'
<1> DEFINE k == JobOf(t)
<1>k. k \in Jobs /\ t \in TasksOf(k) /\ JobCounted(k)
  BY OwnTasks DEF JobsCounted
<1>s. state' = [state EXCEPT ![t] = s]
  BY DEF Complete
<1>o. t \in OpenTasks(k)
  BY <1>k DEF OpenTasks, Pending, AtIndexer
<1>1. /\ jpc[k] = "accepted" /\ NoneCollected(k) /\ jobDone[k] = 0
      /\ total[k] = completed[k] + Cardinality(OpenTasks(k))
  <2>1. ~OnlyEarly(k)
    BY <1>k DEF OnlyEarly, Early
  <2>2. jpc[k] \in {"none", "collect", "send", "accepted", "refused"}
    BY <1>k DEF SubmitTypes
  <2>3. jpc[k] = "accepted"
    BY <1>k, <1>o, <2>1, <2>2 DEF JobCounted
  <2> QED
    BY <1>k, <1>o, <2>3 DEF JobCounted
<1>2. /\ Cardinality(OpenTasks(k)) \in Nat \ {0} /\ IsFiniteSet(OpenTasks(k))
      /\ completed[k] \in Nat /\ total[k] \in Nat /\ jobDone[k] \in Nat
  BY <1>k, <1>o, OpenTasksCount DEF JobTypes
<1>3. total[k] # 0
  BY <1>1, <1>2
<1>4. /\ completed' = [completed EXCEPT ![k] = IF completed[k] + 1 >= total[k] THEN 0 ELSE @ + 1]
      /\ total' = [total EXCEPT ![k] = IF completed[k] + 1 >= total[k] THEN 0 ELSE @]
      /\ jobDone' = [jobDone EXCEPT ![k] = IF completed[k] + 1 >= total[k] THEN @ + 1 ELSE @]
  BY <1>3 DEF Complete
<1>5. OpenTasks(k)' = OpenTasks(k) \ {t}
  <2>1. \A u \in TasksOf(k) : u \in Tasks
    BY <1>k, OwnTasks
  <2>2. \A u \in TasksOf(k) : state'[u] = IF u = t THEN s ELSE state[u]
    BY <1>s, <2>1 DEF TaskTypes
  <2>3. s \notin Pending
    BY DEF Pending, Completed, AtIndexer
  <2> QED
    BY <2>2, <2>3 DEF OpenTasks, TasksOf
<1>6. /\ Cardinality(OpenTasks(k)') = Cardinality(OpenTasks(k)) - 1
      /\ OpenTasks(k)' = {} <=> Cardinality(OpenTasks(k)) = 1
  <2>1. /\ Cardinality(OpenTasks(k) \ {t}) = Cardinality(OpenTasks(k)) - 1
        /\ IsFiniteSet(OpenTasks(k) \ {t})
    BY <1>o, <1>2, FS_RemoveElement
  <2>2. Cardinality(OpenTasks(k) \ {t}) = 0 <=> OpenTasks(k) \ {t} = {}
    BY <2>1, FS_EmptySet
  <2> QED
    BY <1>2, <1>5, <2>1, <2>2
<1>7. NoneCollected(k)'
  BY <1>1, <1>s, <1>k, OwnTasks DEF NoneCollected, TasksOf, TaskTypes, Completed
<1>8. JobCounted(k)'
  <2>1. jpc'[k] = "accepted"
    BY <1>1
  <2>2. CASE Cardinality(OpenTasks(k)) = 1
    <3>1. total'[k] = 0 /\ completed'[k] = 0 /\ jobDone'[k] = 1
      BY <1>1, <1>2, <1>4, <1>k, <2>2 DEF JobTypes
    <3> QED
      BY <1>6, <1>7, <2>1, <2>2, <3>1 DEF JobCounted, Forgotten
  <2>3. CASE Cardinality(OpenTasks(k)) # 1
    <3>1. ~(completed[k] + 1 >= total[k])
      BY <1>1, <1>2, <2>3
    <3>2. total'[k] = total[k] /\ completed'[k] = completed[k] + 1 /\ jobDone'[k] = 0
      BY <1>1, <1>4, <1>k, <3>1 DEF JobTypes
    <3>3. total'[k] = completed'[k] + Cardinality(OpenTasks(k)')
      BY <1>1, <1>2, <1>6, <3>2
    <3> QED
      BY <1>6, <1>7, <2>1, <2>3, <3>2, <3>3 DEF JobCounted
  <2> QED
    BY <2>2, <2>3
<1>9. ASSUME NEW j \in Jobs, j # k PROVE JobCounted(j)'
  <2>1. JobCounted(j) /\ t \notin TasksOf(j)
    BY <1>9, OwnTasks DEF JobsCounted
  <2>2. total'[j] = total[j] /\ completed'[j] = completed[j] /\ jobDone'[j] = jobDone[j]
    BY <1>4, <1>9 DEF JobTypes
  <2>3. \A u \in TasksOf(j) : state'[u] = state[u]
    BY <1>s, <2>1, OwnTasks DEF TaskTypes
  <2> QED
    BY <2>1, <2>2, <2>3, SameCount
<1> QED
  BY <1>8, <1>9 DEF JobsCounted

\* The collection of a request: nothing is counted before the job is registered.
LEMMA CollectCounts ==
  ASSUME JobsCounted, TaskTypes, SubmitTypes, NEW k \in Jobs, NEW i \in Indexers,
         SubmitCollect(k, i)
  PROVE  JobsCounted'
<1> DEFINE t == <<k, i>>
<1>1. t \in Tasks /\ t \in TasksOf(k)
  BY TaskParts, OwnTasks DEF TasksOf
<1>2. /\ jpc[k] = "collect" /\ UNCHANGED <<jpc, total, completed, jobDone>>
      /\ \E s \in {"dropped", "collected"} : state' = [state EXCEPT ![t] = s]
  BY DEF SubmitCollect, submit, jobstate
<1>3. PICK s \in {"dropped", "collected"} : state' = [state EXCEPT ![t] = s]
  BY <1>2
<1>4. JobCounted(k)'
  <2>1. JobCounted(k)
    BY DEF JobsCounted
  <2>2. OnlyEarly(k)'
    BY <1>1, <1>2, <1>3, <2>1, OwnTasks DEF JobCounted, OnlyEarly, Early, TaskTypes, TasksOf
  <2> QED
    BY <1>2, <2>1, <2>2 DEF JobCounted, Forgotten
<1>5. ASSUME NEW j \in Jobs, j # k PROVE JobCounted(j)'
  <2>1. JobCounted(j) /\ t \notin TasksOf(j)
    BY <1>5, <1>1, OwnTasks DEF JobsCounted
  <2>2. \A u \in TasksOf(j) : state'[u] = state[u]
    BY <1>3, <2>1, OwnTasks DEF TaskTypes
  <2> QED
    BY <1>2, <2>1, <2>2, SameCount
<1> QED
  BY <1>4, <1>5 DEF JobsCounted

\* A job is registered with the number of tasks that were collected, or is done at once.
LEMMA RegisterCounts ==
  ASSUME JobsCounted, TaskTypes, JobTypes, SubmitTypes, NEW k \in Jobs, SubmitRegister(k)
  PROVE  JobsCounted'
<1>1. /\ jpc[k] = "collect" /\ state' = state /\ completed' = completed
      /\ \/ /\ Collected(k) = {} /\ jobDone' = [jobDone EXCEPT ![k] = @ + 1]
            /\ jpc' = [jpc EXCEPT ![k] = "accepted"] /\ total' = total
         \/ /\ Collected(k) # {} /\ jobDone' = jobDone
            /\ jpc' = [jpc EXCEPT ![k] = "send"]
            /\ total' = [total EXCEPT ![k] = Cardinality(Collected(k))]
  BY DEF SubmitRegister
<1>2. Forgotten(k) /\ jobDone[k] = 0 /\ OnlyEarly(k)
  BY <1>1 DEF JobsCounted, JobCounted
<1>3. OpenTasks(k) = Collected(k)
  BY <1>2 DEF OpenTasks, Collected, OnlyEarly, Early, Pending, AtIndexer
<1>4. OpenTasks(k)' = OpenTasks(k) /\ OnlyEarly(k)'
  BY <1>1, <1>2 DEF OpenTasks, TasksOf, OnlyEarly
<1>5. JobCounted(k)'
  <2>1. CASE Collected(k) = {}
    <3>1. jpc'[k] = "accepted" /\ jobDone'[k] = 1 /\ total'[k] = 0 /\ completed'[k] = 0
      BY <1>1, <1>2, <2>1 DEF SubmitTypes, JobTypes, Forgotten
    <3>2. NoneCollected(k)'
      BY <1>1, <2>1 DEF NoneCollected, Collected, TasksOf
    <3> QED
      BY <1>3, <1>4, <2>1, <3>1, <3>2 DEF JobCounted, Forgotten
  <2>2. CASE Collected(k) # {}
    <3>1. /\ jpc'[k] = "send" /\ jobDone'[k] = 0 /\ completed'[k] = 0
          /\ total'[k] = Cardinality(OpenTasks(k))
      BY <1>1, <1>2, <1>3, <2>2 DEF SubmitTypes, JobTypes, Forgotten
    <3> QED
      BY <1>3, <1>4, <2>2, <3>1 DEF JobCounted
  <2> QED
    BY <2>1, <2>2
<1>6. ASSUME NEW j \in Jobs, j # k PROVE JobCounted(j)'
  <2>1. JobCounted(j)
    BY DEF JobsCounted
  <2>2. /\ jpc'[j] = jpc[j] /\ total'[j] = total[j] /\ completed'[j] = completed[j]
        /\ jobDone'[j] = jobDone[j]
    BY <1>1, <1>6 DEF SubmitTypes, JobTypes
  <2>3. \A t \in TasksOf(j) : state'[t] = state[t]
    BY <1>1
  <2> QED
    BY <2>1, <2>2, <2>3, SameCount
<1> QED
  BY <1>5, <1>6 DEF JobsCounted

\* The batch goes to the channel as a whole, or is taken back as a whole.
LEMMA BatchCounts ==
  ASSUME JobsCounted, TaskTypes, JobTypes, SubmitTypes, NEW k \in Jobs,
         SubmitSend(k) \/ SubmitRefuse(k)
  PROVE  JobsCounted'
<1>1. /\ jpc[k] = "send" /\ completed' = completed /\ jobDone' = jobDone
      /\ \/ /\ jpc' = [jpc EXCEPT ![k] = "accepted"] /\ total' = total
            /\ state' = [t \in Tasks |-> IF t \in Collected(k) THEN "batched" ELSE state[t]]
         \/ /\ jpc' = [jpc EXCEPT ![k] = "refused"] /\ total' = [total EXCEPT ![k] = 0]
            /\ state' = [t \in Tasks |-> IF t \in Collected(k) THEN "dropped" ELSE state[t]]
  BY DEF SubmitSend, SubmitRefuse, jobstate
<1>2. /\ OnlyEarly(k) /\ OpenTasks(k) # {} /\ total[k] = Cardinality(OpenTasks(k))
      /\ completed[k] = 0 /\ jobDone[k] = 0
  BY <1>1 DEF JobsCounted, JobCounted
<1>3. \A t \in TasksOf(k) : state[t] \in {"none", "dropped"} \/ t \in Collected(k)
  BY <1>2 DEF OnlyEarly, Early, Collected
<1>4. JobCounted(k)'
  <2>1. CASE jpc' = [jpc EXCEPT ![k] = "accepted"]
    <3>0. jpc'[k] = "accepted"
      BY <2>1 DEF SubmitTypes
    <3>1. /\ total' = total
          /\ state' = [t \in Tasks |-> IF t \in Collected(k) THEN "batched" ELSE state[t]]
      BY <1>1, <3>0 DEF SubmitTypes
    <3>2. \A t \in TasksOf(k) :
             state'[t] = IF t \in Collected(k) THEN "batched" ELSE state[t]
      BY <3>1, OwnTasks
    <3>3. OpenTasks(k)' = OpenTasks(k)
      BY <1>3, <3>2 DEF OpenTasks, TasksOf, Pending, AtIndexer, Collected
    <3>4. NoneCollected(k)'
      BY <1>3, <3>2 DEF NoneCollected, TasksOf
    <3> QED
      BY <1>1, <1>2, <3>0, <3>1, <3>3, <3>4, OpenTasksCount DEF JobCounted
  <2>2. CASE jpc' # [jpc EXCEPT ![k] = "accepted"]
    <3>1. /\ jpc' = [jpc EXCEPT ![k] = "refused"] /\ total' = [total EXCEPT ![k] = 0]
          /\ state' = [t \in Tasks |-> IF t \in Collected(k) THEN "dropped" ELSE state[t]]
      BY <1>1, <2>2
    <3>2. jpc'[k] = "refused" /\ total'[k] = 0
      BY <3>1 DEF SubmitTypes, JobTypes
    <3>3. \A t \in TasksOf(k) :
             state'[t] = IF t \in Collected(k) THEN "dropped" ELSE state[t]
      BY <3>1, OwnTasks
    <3>4. OpenTasks(k)' = {}
      BY <1>3, <3>3 DEF OpenTasks, TasksOf, Pending, AtIndexer
    <3> QED
      BY <1>1, <1>2, <3>2, <3>4 DEF JobCounted, Forgotten
  <2> QED
    BY <2>1, <2>2
<1>5. ASSUME NEW j \in Jobs, j # k PROVE JobCounted(j)'
  <2>1. JobCounted(j)
    BY DEF JobsCounted
  <2>2. /\ jpc'[j] = jpc[j] /\ total'[j] = total[j] /\ completed'[j] = completed[j]
        /\ jobDone'[j] = jobDone[j]
    BY <1>1, <1>5 DEF SubmitTypes, JobTypes
  <2>3. \A t \in TasksOf(j) : t \in Tasks /\ t \notin Collected(k)
    BY <1>5, OwnTasks DEF Collected
  <2>4. \A t \in TasksOf(j) : state'[t] = state[t]
    BY <1>1, <2>3
  <2> QED
    BY <2>1, <2>2, <2>4, SameCount
<1> QED
  BY <1>4, <1>5 DEF JobsCounted

\* Every step keeps the count of every job.
LEMMA JobsCountedStep ==
  Inductive /\ JobsCounted /\ [Next]_vars => JobsCounted'
<1> SUFFICES ASSUME Inductive, JobsCounted, [Next]_vars PROVE JobsCounted'
  OBVIOUS
<1>a. TaskTypes /\ JobTypes /\ SubmitTypes
  BY DEF Inductive, TypeOK
<1>b. jpc' = jpc /\ UNCHANGED jobstate /\ state' = state => JobsCounted'
  BY <1>a, MoveKeepsCounts
<1>1. ASSUME NEW j \in Jobs, NEW p \in Priorities, NEW I \in (SUBSET Indexers) \ {{}}, SubmitBegin(j, p, I) PROVE JobsCounted'
  <2>1. /\ jpc[j] = "none" /\ jpc' = [jpc EXCEPT ![j] = "collect"]
        /\ state' = state /\ UNCHANGED <<total, completed, jobDone>>
    BY <1>1 DEF SubmitBegin, jobstate
  <2>2. ASSUME NEW k \in Jobs PROVE JobCounted(k)'
    <3>1. JobCounted(k)
      BY DEF JobsCounted
    <3>2. CASE k = j
      <4>1. Forgotten(k)' /\ jobDone'[k] = 0 /\ OnlyEarly(k)' /\ jpc'[k] = "collect"
        BY <1>a, <2>1, <3>1, <3>2 DEF JobCounted, Forgotten, OnlyEarly, TasksOf, SubmitTypes
      <4> QED
        BY <4>1 DEF JobCounted
    <3>3. CASE k # j
      <4>1. jpc'[k] = jpc[k] /\ \A t \in TasksOf(k) : state'[t] = state[t]
        BY <1>a, <2>1, <3>3 DEF SubmitTypes
      <4> QED
        BY <2>1, <3>1, <4>1, SameCount
    <3> QED
      BY <3>2, <3>3
  <2> QED
    BY <2>2 DEF JobsCounted
<1>2. ASSUME NEW j \in Jobs, NEW i \in Indexers, SubmitCollect(j, i) PROVE JobsCounted'
  BY <1>a, <1>2, CollectCounts
<1>3. ASSUME NEW j \in Jobs, SubmitRegister(j) PROVE JobsCounted'
  BY <1>a, <1>3, RegisterCounts
<1>4. ASSUME NEW j \in Jobs, SubmitSend(j) PROVE JobsCounted'
  BY <1>a, <1>4, BatchCounts
<1>5. ASSUME NEW j \in Jobs, SubmitRefuse(j) PROVE JobsCounted'
  BY <1>a, <1>5, BatchCounts
<1>6. ASSUME NEW j \in Jobs, OnJobDone(j) PROVE JobsCounted'
  BY <1>b, <1>6 DEF OnJobDone, submit
<1>7. ASSUME NEW j \in Jobs, NEW how \in {"canceled", "expired"}, EndContext(j, how) PROVE JobsCounted'
  BY <1>b, <1>7 DEF EndContext, submit
<1>8. ASSUME TakeBatch PROVE JobsCounted'
  <2>1. UNCHANGED <<jpc, jobstate>>
    BY <1>8 DEF TakeBatch, submit
  <2>2. \A u \in Tasks : state'[u] = state[u] \/ (state[u] = "batched" /\ state'[u] = "queued")
    BY <1>8 DEF TakeBatch
  <2>3. {"batched", "queued"} \subseteq Pending \ Early
    BY DEF Pending, Early
  <2> QED
    BY <1>a, <2>1, <2>2, <2>3, MoveKeepsCounts
<1>9. ASSUME TakeToken PROVE JobsCounted'
  BY <1>b, <1>9 DEF TakeToken, submit
<1>10. ASSUME CoalesceFire PROVE JobsCounted'
  BY <1>b, <1>10 DEF CoalesceFire, submit
<1>11. ASSUME ScheduleRetryTimer PROVE JobsCounted'
  BY <1>b, <1>11 DEF ScheduleRetryTimer, submit
<1>12. ASSUME NEW t \in Tasks, DispatchDead(t) PROVE JobsCounted'
  <2>1. state[t] \in {"queued", "answered"} /\ Complete(t, "done") /\ jpc' = jpc
    BY <1>a, <1>12 DEF DispatchDead, First, submit, TaskTypes, Queued
  <2> QED
    BY <1>a, <2>1, CompleteCounts DEF Completed
<1>13. ASSUME NEW t \in Tasks, DispatchSkip(t) PROVE JobsCounted'
  <2>1. state[t] \in {"queued", "answered"} /\ Complete(t, "done") /\ jpc' = jpc
    BY <1>a, <1>13 DEF DispatchSkip, First, submit, TaskTypes, Queued
  <2> QED
    BY <1>a, <2>1, CompleteCounts DEF Completed
<1>14. ASSUME NEW t \in Tasks, DispatchBlocked(t) PROVE JobsCounted'
  BY <1>b, <1>14 DEF DispatchBlocked, submit
<1>15. ASSUME NEW t \in Tasks, DispatchRun(t) PROVE JobsCounted'
  <2>1. /\ UNCHANGED <<jpc, jobstate>>
        /\ \E s \in Stages : state' = [state EXCEPT ![t] = s]
    BY <1>15 DEF DispatchRun, submit, Stages
  <2>2. /\ state[t] \notin Early /\ state'[t] \notin Early
        /\ state[t] \in Pending <=> state'[t] \in Pending
    BY <1>a, <1>15 DEF DispatchRun, First, Queued, TaskTypes, Early, Pending, AtIndexer, Queued
  <2> QED
    BY <1>a, <2>1, <2>2, MoveKeepsCounts DEF TaskTypes
<1>16. ASSUME NEW t \in Tasks, RecordRequest(t) PROVE JobsCounted'
  <2>1. /\ UNCHANGED <<jpc, jobstate>>
        /\ \E s \in Stages : state' = [state EXCEPT ![t] = s]
    BY <1>16 DEF RecordRequest, submit, Stages
  <2>2. /\ state[t] \notin Early /\ state'[t] \notin Early
        /\ state[t] \in Pending <=> state'[t] \in Pending
    BY <1>a, <1>16 DEF RecordRequest, TaskTypes, Early, Pending, AtIndexer, Queued
  <2> QED
    BY <1>a, <2>1, <2>2, MoveKeepsCounts DEF TaskTypes
<1>17. ASSUME NEW t \in Tasks, NEW o \in Outcomes, Answer(t, o) PROVE JobsCounted'
  <2>1. /\ UNCHANGED <<jpc, jobstate>>
        /\ \E s \in Stages : state' = [state EXCEPT ![t] = s]
    BY <1>17 DEF Answer, submit, Stages
  <2>2. /\ state[t] \notin Early /\ state'[t] \notin Early
        /\ state[t] \in Pending <=> state'[t] \in Pending
    BY <1>a, <1>17 DEF Answer, TaskTypes, Early, Pending, AtIndexer, Queued
  <2> QED
    BY <1>a, <2>1, <2>2, MoveKeepsCounts DEF TaskTypes
<1>18. ASSUME NEW t \in Tasks, Finish(t) PROVE JobsCounted'
  <2>1. state[t] \in {"queued", "answered"} /\ Complete(t, "finished") /\ jpc' = jpc
    BY <1>a, <1>18 DEF Finish, submit, TaskTypes, Queued
  <2> QED
    BY <1>a, <2>1, CompleteCounts DEF Completed
<1>19. ASSUME NEW t \in Tasks, Leave(t) PROVE JobsCounted'
  <2>1. /\ UNCHANGED <<jpc, jobstate>>
        /\ \E s \in Stages : state' = [state EXCEPT ![t] = s]
    BY <1>19 DEF Leave, submit, Stages
  <2>2. /\ state[t] \notin Early /\ state'[t] \notin Early
        /\ state[t] \in Pending <=> state'[t] \in Pending
    BY <1>a, <1>19 DEF Leave, TaskTypes, Early, Pending, AtIndexer, Queued
  <2> QED
    BY <1>a, <2>1, <2>2, MoveKeepsCounts DEF TaskTypes
<1>20. ASSUME NEW t \in Tasks, FreshExpires(t) PROVE JobsCounted'
  BY <1>b, <1>20 DEF FreshExpires, submit
<1>21. ASSUME NEW i \in Indexers, DownloadCheck(i) PROVE JobsCounted'
  BY <1>b, <1>21 DEF DownloadCheck, submit
<1>22. ASSUME NEW i \in Indexers, NEW p \in Priorities, DownloadRequest(i, p) PROVE JobsCounted'
  BY <1>b, <1>22 DEF DownloadRequest, submit
<1>23. ASSUME NEW i \in Indexers, NEW o \in Outcomes, DownloadAnswer(i, o) PROVE JobsCounted'
  BY <1>b, <1>23 DEF DownloadAnswer, submit
<1>24. ASSUME Tick PROVE JobsCounted'
  BY <1>b, <1>24 DEF Tick, submit
<1>25. CASE UNCHANGED vars
  BY <1>b, <1>25 DEF vars, submit
<1> QED
  BY <1>1, <1>2, <1>3, <1>4, <1>5, <1>6, <1>7, <1>8, <1>9, <1>10, <1>11, <1>12,
     <1>13, <1>14, <1>15, <1>16, <1>17, <1>18, <1>19, <1>20, <1>21, <1>22, <1>23, <1>24, <1>25
  DEF Next, Submits, Loop, Dispatch, Worker, Download

-----------------------------------------------------------------------------
(* Theorems *)

\* The invariant holds when newSearchScheduler returns.
LEMMA InitInductive == Init => Inductive
<1> SUFFICES ASSUME Init PROVE Inductive
  OBVIOUS
<1>1. SubmitTypes
  BY PrioritiesAssumption DEF Init, SubmitTypes
<1>8. JobTypes
  BY BoundsAssumption DEF Init, JobTypes
<1>9. LoopTypes
  <2>1. coalesce \in BOOLEAN
    BY DEF Init
  <2>2. tokens \in 0..ChanCap /\ workers \in Nat /\ timer \in Nat
    BY BoundsAssumption DEF Init
  <2>3. pendingRSS \subseteq Indexers /\ inFlight \subseteq Indexers /\ lpc \in {"select", "dispatch"}
    BY DEF Init
  <2>4. missed \subseteq Tasks
    BY DEF Init
  <2> QED
    BY <2>1, <2>2, <2>3, <2>4 DEF LoopTypes
<1>2. LimiterTypes
  <2>1. Restored \subseteq Nat
    BY EscalationAssumption
  <2>2. age \in [Indexers -> 0..Longest]
    BY LongestNat DEF Init
  <2>3. cool \in [Indexers -> Nat]
    BY <2>1 DEF Init
  <2>4. level \in [Indexers -> {0} \cup DOMAIN Escalation]
    BY DEF Init
  <2>5. download \in [Indexers -> {"none", "checked", "sent"}] /\ overtaken \subseteq Tasks
    BY DEF Init
  <2> QED
    BY <2>2, <2>3, <2>4, <2>5 DEF LimiterTypes
<1>3. TaskTypes
  BY DEF Init, TaskTypes, Stages, Queued
<1>4. NotBegun /\ StillReady /\ PutBack
  BY DEF Init, NotBegun, StillReady, PutBack
<1>5. AtIndexers = {} /\ SlotHolders = {} /\ RssOnTheWay = {} /\ Queued = {}
  BY DEF Init, AtIndexers, SlotHolders, RssOnTheWay, Queued, AtIndexer, Pending
<1>6. InFlightExact
  BY <1>5, FS_EmptySet, BoundsAssumption DEF Init, InFlightExact
<1>7. RssPendingExact /\ NoLostWakeup
  BY <1>5 DEF Init, RssPendingExact, NoLostWakeup, WillWake
<1> QED
  BY <1>1, <1>2, <1>3, <1>4, <1>6, <1>7, <1>8, <1>9 DEF Inductive, TypeOK

\* The invariant of the scheduler is inductive.
THEOREM InductiveInvariant == Spec => []Inductive
<1>1. Inductive /\ [Next]_vars => Inductive'
  BY SubmitTypesStep, TaskTypesStep, JobTypesStep, LoopTypesStep, LimiterTypesStep,
     NotBegunStep, InFlightExactStep, RssPendingExactStep, StillReadyStep, PutBackStep,
     NoLostWakeupStep
  DEF Inductive, TypeOK
<1> QED
  BY <1>1, InitInductive, PTL DEF Spec

\* The types hold, and what the dispatch still has to look at is in the queue.
THEOREM TypesHold == Spec => []TypeOK
<1>1. Inductive => TypeOK
  BY DEF Inductive
<1> QED
  BY <1>1, InductiveInvariant, PTL

\* At any indexer at most one search runs, inFlight names exactly the busy indexers and the
\* worker pool counts exactly the tasks that hold a slot (dispatchTasks, executeTask).
THEOREM OneSearchPerIndexer == Spec => []InFlightExact
<1>1. Inductive => InFlightExact
  BY DEF Inductive
<1> QED
  BY <1>1, InductiveInvariant, PTL

\* pendingRSS holds exactly the indexers with an RSS task on its way, whichever way tasks
\* end (Submit, dispatchTasks, executeTask, clearPendingRSSLocked).
THEOREM DeduplicationIsExact == Spec => []RssPendingExact
<1>1. Inductive => RssPendingExact
  BY DEF Inductive
<1> QED
  BY <1>1, InductiveInvariant, PTL

\* There is always something left to wake the loop for a queued task, however the clock,
\* the workers and the loop interleave, unless the wait of every queued task ended inside the
\* dispatch that put it back (scheduleRetryTimerLocked, completeCh).
THEOREM WakeupsAreNotLost == Spec => []NoLostWakeup
<1>1. Inductive => NoLostWakeup
  BY DEF Inductive
<1> QED
  BY <1>1, InductiveInvariant, PTL

\* A search that dispatchTasks let through is sent outside cooldowns and intervals, although
\* the worker does not look again, unless a download from the indexer came in between.
THEOREM RequestsAreAllowed == Spec => RequestAllowed
<1>1. Inductive /\ [Next]_vars =>
        [\A t \in Tasks \ overtaken : state[t] = "dispatched" /\ state'[t] = "running"
            => MayAsk(t)]_vars
  BY DEF Inductive, StillReady
<1> QED
  BY <1>1, InductiveInvariant, PTL DEF Spec, RequestAllowed

\* OnJobDone is called exactly once for an accepted job, when its last task is completed,
\* whichever way tasks end and however completions of jobs interleave, and never for a
\* refused one (Submit, handleTaskCompleteLocked).
THEOREM EachJobDoneOnce == Spec => []JobDoneOnce
<1>1. Init => JobsCounted
  <2> SUFFICES ASSUME Init, NEW j \in Jobs PROVE JobCounted(j)
    BY DEF JobsCounted
  <2>1. jpc[j] = "none" /\ total[j] = 0 /\ completed[j] = 0 /\ jobDone[j] = 0
    BY DEF Init
  <2>2. OnlyEarly(j)
    BY OwnTasks DEF Init, OnlyEarly, Early
  <2> QED
    BY <2>1, <2>2 DEF JobCounted, Forgotten
<1>2. Inductive /\ JobsCounted => JobDoneOnce
  <2> SUFFICES ASSUME Inductive, JobsCounted, NEW j \in Jobs
               PROVE  LET over == \A t \in TasksOf(j) : state[t] \notin Pending
                      IN /\ jobDone[j] = IF jpc[j] = "accepted" /\ over THEN 1 ELSE 0
                         /\ total[j] # 0 <=> jpc[j] \in {"send", "accepted"} /\ ~over
    BY DEF JobDoneOnce
  <2>1. (\A t \in TasksOf(j) : state[t] \notin Pending) <=> OpenTasks(j) = {}
    BY DEF OpenTasks
  <2>2. /\ JobCounted(j) /\ completed[j] \in Nat
        /\ jpc[j] \in {"none", "collect", "send", "accepted", "refused"}
    BY DEF JobsCounted, Inductive, TypeOK, SubmitTypes, JobTypes
  <2> QED
    BY <2>1, <2>2, OpenTasksCount DEF JobCounted, Forgotten
<1>3. Inductive /\ JobsCounted /\ [Next]_vars => JobsCounted'
  BY JobsCountedStep
<1> QED
  BY <1>1, <1>2, <1>3, InductiveInvariant, PTL DEF Spec

=============================================================================

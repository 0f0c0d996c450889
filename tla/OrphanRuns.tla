------------------------------ MODULE OrphanRuns ------------------------------
(***************************************************************************)
(* The life of an orphan-scan run: internal/services/orphanscan/service.go *)
(* against the orphan_scan_runs table (internal/models/orphan_scan.go).    *)
(*                                                                         *)
(* Actors: request threads (API handlers and the scheduler's jitter        *)
(* goroutines), one scan goroutine per run, one deletion goroutine per     *)
(* confirmed run, and the startup recovery, all interleaved at the         *)
(* granularity of one database statement or one critical section.  The     *)
(* rows survive a crash; cancelFuncs, the instance mutexes, the contexts   *)
(* and the goroutines do not.                                              *)
(*                                                                         *)
(* Which files are orphans is the business of module OrphanFiles: here a   *)
(* run is its status and the number of its file rows.                      *)
(***************************************************************************)
EXTENDS Naturals, FiniteSets

CONSTANTS Instances,    \* qBittorrent instances with local access
          Clients,      \* API request threads
          Jobs,         \* jitter goroutines of checkScheduledScans
          MaxRuns,      \* bound: rows ever created
          MaxFiles,     \* bound: orphans a scan may find
          AutoMax,      \* settings.AutoCleanupMaxFiles
          MaxFaults,    \* bound: database statements that fail
          MaxCrashes    \* bound: crashes of the process

ASSUME InstancesAssumption == Instances # {}
ASSUME ThreadsAssumption == Clients \cap Jobs = {}
ASSUME BoundsAssumption == /\ MaxRuns \in Nat /\ MaxFiles \in Nat
                           /\ AutoMax \in Nat
                           /\ MaxFaults \in Nat /\ MaxCrashes \in Nat

RunIds == 1..MaxRuns
Threads == Clients \cup Jobs

Open == {"pending", "scanning", "preview_ready"}
Finished == {"completed", "failed", "canceled"}
Statuses == {"none", "deleting"} \cup Open \cup Finished

Idle == [kind |-> "idle", run |-> 0]

ScanPcs == {"none", "start", "walk", "fail", "found", "finish", "auto",
            "autoLock", "exit"}
DelPcs == {"none", "start", "load", "fail", "files", "finish", "exit", "unlock"}
OpKinds == {"idle", "register", "cancelOpen", "cancelDeleting", "cancelWrite",
            "confirm"}

VARIABLES
  \* the database
  runs,          \* number of rows; run ids are handed out in order
  status, inst, trig,
  found,         \* files_found
  rows,          \* orphan_scan_files rows of the run still 'pending'
  aged,          \* runs 1..aged started more than StuckRunThreshold ago
  \* memory
  cancelFuncs,   \* whose cancel function the map holds: none, scan or del
  canceled,      \* contexts canceled, as <<"scan" or "del", run>>
  scan, del,     \* where executeScan and executeDeletion of the run are
  size,          \* len(allOrphans) of executeScan
  todo, erased, failed,   \* loop variables of executeDeletion
  mutex,         \* instanceMu: the run whose deletion holds it, or 0
  op,            \* what each request thread is in the middle of
  phase,         \* startup: "boot", then "stuck", then "up"
  \* the environment and history
  faults, crashes,
  confirmed,     \* runs a user's ConfirmDeletion was accepted for
  ended          \* runs whose row has ever been in a finished status

db == <<runs, status, inst, trig, found, rows, aged>>
loop == <<todo, erased, failed>>
vars == <<db, cancelFuncs, canceled, scan, del, size, loop, mutex, op, phase,
          faults, crashes, confirmed, ended>>

Init ==
  /\ runs = 0
  /\ status = [r \in RunIds |-> "none"]
  /\ inst = [r \in RunIds |-> CHOOSE i \in Instances : TRUE]
  /\ trig = [r \in RunIds |-> "manual"]
  /\ found = [r \in RunIds |-> 0]
  /\ rows = [r \in RunIds |-> 0]
  /\ aged = 0
  /\ cancelFuncs = [r \in RunIds |-> "none"]
  /\ canceled = {}
  /\ scan = [r \in RunIds |-> "none"]
  /\ del = [r \in RunIds |-> "none"]
  /\ size = [r \in RunIds |-> 0]
  /\ todo = [r \in RunIds |-> 0]
  /\ erased = [r \in RunIds |-> 0]
  /\ failed = [r \in RunIds |-> FALSE]
  /\ mutex = [i \in Instances |-> 0]
  /\ op = [t \in Threads |-> Idle]
  /\ phase = "boot"
  /\ faults = 0 /\ crashes = 0
  /\ confirmed = {}
  /\ ended = {}

-----------------------------------------------------------------------------
(* What the statements and the contexts mean. *)

\* Mutant: a preview does not count as active.
ActiveNoPreview(r) == status[r] \in {"pending", "scanning", "deleting"}

\* The WHERE NOT EXISTS clause of CreateRunIfNoActive.
Active(r) == \/ status[r] \in {"pending", "scanning", "deleting"}
             \/ status[r] = "preview_ready" /\ found[r] > 0

\* A statement issued with a canceled context fails.
Live(ctx, r) == <<ctx, r>> \notin canceled

\* The database refuses a statement; the environment does so MaxFaults times.
DbFault == faults < MaxFaults /\ faults' = faults + 1

\* UpdateRunStatus, UpdateRunFailed and UpdateRunCompleted name the run and
\* nothing else: no clause looks at the status they replace.
UpdateRunStatus(r, s) ==
  /\ status' = [status EXCEPT ![r] = s]
  /\ ended' = IF s \in Finished THEN ended \cup {r} ELSE ended

\* A goroutine goes on at pc.
ScanTo(r, pc) == scan' = [scan EXCEPT ![r] = pc]
DelTo(r, pc) == del' = [del EXCEPT ![r] = pc]

\* Unchanged by all but the actions that say otherwise.
others == <<size, loop, crashes, confirmed>>

-----------------------------------------------------------------------------
(* TriggerScan *)

\* CreateRunIfNoActive: the check and the insert are one statement.  The
\* scheduler's threads exist only once loop has finished the recovery; whether
\* a scan is due and the client ready is left to the environment.
TriggerCreate(t, i) ==
  /\ op[t] = Idle
  /\ t \in Jobs => phase = "up"
  /\ runs < MaxRuns
  /\ \A r \in 1..runs : inst[r] = i => ~Active(r)
  /\ runs' = runs + 1
  /\ UpdateRunStatus(runs + 1, "pending")
  /\ inst' = [inst EXCEPT ![runs + 1] = i]
  /\ trig' = [trig EXCEPT ![runs + 1] = IF t \in Jobs THEN "scheduled" ELSE "manual"]
  /\ op' = [op EXCEPT ![t] = [kind |-> "register", run |-> runs + 1]]
  /\ UNCHANGED <<found, rows, aged, cancelFuncs, canceled, scan, del, mutex,
                 phase, faults, others>>

\* The cancel function is registered and the scan goroutine started.
TriggerRegister(t) ==
  LET r == op[t].run IN
  /\ op[t].kind = "register"
  /\ cancelFuncs' = [cancelFuncs EXCEPT ![r] = "scan"]
  /\ ScanTo(r, "start")
  /\ op' = [op EXCEPT ![t] = Idle]
  /\ UNCHANGED <<db, ended, canceled, del, mutex, phase, faults, others>>

-----------------------------------------------------------------------------
(* CancelRun: read the status, act on the cancel function, write the status. *)

\* A finished run is refused (ErrRunAlreadyFinished).
CancelRead(t, r) ==
  /\ op[t] = Idle /\ t \in Clients
  /\ status[r] \in Open \cup {"deleting"}
  /\ op' = [op EXCEPT ![t] =
       [kind |-> IF status[r] = "deleting" THEN "cancelDeleting" ELSE "cancelOpen",
        run |-> r]]
  /\ UNCHANGED <<db, ended, cancelFuncs, canceled, scan, del, mutex, phase, faults, others>>

\* cancel() cancels the context of whichever goroutine registered last.
CancelCall(t) ==
  LET r == op[t].run IN
  /\ op[t].kind = "cancelOpen"
  /\ canceled' = IF cancelFuncs[r] = "none" THEN canceled
                 ELSE canceled \cup {<<cancelFuncs[r], r>>}
  /\ op' = [op EXCEPT ![t].kind = "cancelWrite"]
  /\ UNCHANGED <<db, ended, cancelFuncs, scan, del, mutex, phase, faults, others>>

\* A registered function means a deletion in progress: refuse.  Otherwise the
\* row is taken for a leftover of an earlier process.
CancelCheck(t) ==
  /\ op[t].kind = "cancelDeleting"
  /\ op' = [op EXCEPT ![t] = IF cancelFuncs[op[t].run] # "none" THEN Idle
                             ELSE [@ EXCEPT !.kind = "cancelWrite"]]
  /\ UNCHANGED <<db, ended, cancelFuncs, canceled, scan, del, mutex, phase, faults, others>>

CancelWrite(t) ==
  /\ op[t].kind = "cancelWrite"
  /\ \/ UpdateRunStatus(op[t].run, "canceled") /\ UNCHANGED faults
     \/ DbFault /\ UNCHANGED <<status, ended>>
  /\ op' = [op EXCEPT ![t] = Idle]
  /\ UNCHANGED <<runs, inst, trig, found, rows, aged, cancelFuncs, canceled,
                 scan, del, mutex, phase, others>>

-----------------------------------------------------------------------------
(* ConfirmDeletion: read the status, then TryLock, register and start. *)

\* Mutant: the mutex is not tried.
StartDeletionUnlocked(r) ==
  /\ mutex' = [mutex EXCEPT ![inst[r]] = r]
  /\ cancelFuncs' = [cancelFuncs EXCEPT ![r] = "del"]
  /\ canceled' = canceled \ {<<"del", r>>}
  /\ DelTo(r, "start")

\* The part of ConfirmDeletion after a successful TryLock; the context is new.
StartDeletion(r) ==
  /\ mutex[inst[r]] = 0
  /\ mutex' = [mutex EXCEPT ![inst[r]] = r]
  /\ cancelFuncs' = [cancelFuncs EXCEPT ![r] = "del"]
  /\ canceled' = canceled \ {<<"del", r>>}
  /\ DelTo(r, "start")

\* Mutant: the status is not looked at.
ConfirmReadAny(t, r) ==
  /\ op[t] = Idle /\ t \in Clients
  /\ status[r] # "none"
  /\ op' = [op EXCEPT ![t] = [kind |-> "confirm", run |-> r]]
  /\ UNCHANGED <<db, ended, cancelFuncs, canceled, scan, del, mutex, phase, faults, others>>

ConfirmRead(t, r) ==
  /\ op[t] = Idle /\ t \in Clients
  /\ status[r] = "preview_ready"
  /\ op' = [op EXCEPT ![t] = [kind |-> "confirm", run |-> r]]
  /\ UNCHANGED <<db, ended, cancelFuncs, canceled, scan, del, mutex, phase, faults, others>>

ConfirmLock(t) ==
  LET r == op[t].run IN
  /\ op[t].kind = "confirm"
  /\ op' = [op EXCEPT ![t] = Idle]
  /\ \/ StartDeletion(r) /\ confirmed' = confirmed \cup {r}
     \/ /\ mutex[inst[r]] # 0               \* ErrScanInProgress
        /\ UNCHANGED <<mutex, cancelFuncs, canceled, del, confirmed>>
  /\ UNCHANGED <<db, ended, scan, phase, faults, size, loop, crashes>>

-----------------------------------------------------------------------------
(* executeScan *)

\* A statement that writes status s and goes on at pc; an error ends the scan
\* (the code logs it and returns).
ScanWrite(r, s, pc) ==
  \/ /\ Live("scan", r)
     /\ UpdateRunStatus(r, s) /\ ScanTo(r, pc)
     /\ UNCHANGED faults
  \/ /\ \/ ~Live("scan", r) /\ UNCHANGED faults
        \/ Live("scan", r) /\ DbFault
     /\ ScanTo(r, "exit")
     /\ UNCHANGED <<status, ended>>

ScanStart(r) ==
  /\ scan[r] = "start"
  /\ ScanWrite(r, "scanning", "walk")
  /\ UNCHANGED <<runs, inst, trig, found, rows, aged, cancelFuncs, canceled, del,
                 mutex, op, phase, others>>

\* Settings, file map, walk, sort, truncation and InsertFiles.  Any of them may
\* fail and lead to failRun; a batch of rows inserted before the failure stays.
ScanWalk(r) ==
  /\ scan[r] = "walk"
  /\ \/ /\ Live("scan", r)
        /\ \E n \in 0..MaxFiles :
             /\ rows' = [rows EXCEPT ![r] = n]
             /\ size' = [size EXCEPT ![r] = n]
        /\ ScanTo(r, "found")
     \/ /\ \E n \in 0..MaxFiles :
             rows' = [rows EXCEPT ![r] = n]
        /\ ScanTo(r, "fail")
        /\ UNCHANGED size
  /\ UNCHANGED <<runs, status, ended, inst, trig, found, aged, cancelFuncs, canceled, del,
                 mutex, op, phase, faults, loop, crashes, confirmed>>

\* Mutant: the failure is not written.
ScanFailSilent(r) ==
  /\ scan[r] = "fail"
  /\ ScanTo(r, "exit")
  /\ UNCHANGED <<db, ended, cancelFuncs, canceled, del, mutex, op, phase, faults, others>>

\* failRun: nothing is written for a canceled run.
ScanFail(r) ==
  /\ scan[r] = "fail"
  /\ ScanWrite(r, "failed", "exit")
  /\ UNCHANGED <<runs, inst, trig, found, rows, aged, cancelFuncs, canceled, del,
                 mutex, op, phase, others>>

\* UpdateRunFoundStats: an error is logged and the scan goes on.
ScanFound(r) ==
  /\ scan[r] = "found"
  /\ \/ /\ Live("scan", r)
        /\ found' = [found EXCEPT ![r] = size[r]]
        /\ UNCHANGED faults
     \/ ~Live("scan", r) /\ UNCHANGED <<found, faults>>
     \/ Live("scan", r) /\ DbFault /\ UNCHANGED found
  /\ ScanTo(r, "finish")
  /\ UNCHANGED <<runs, status, ended, inst, trig, rows, aged, cancelFuncs, canceled, del,
                 mutex, op, phase, others>>

\* Completed when there is nothing to preview, otherwise preview_ready.
ScanFinish(r) ==
  /\ scan[r] = "finish"
  /\ IF size[r] = 0 THEN ScanWrite(r, "completed", "exit")
                          ELSE ScanWrite(r, "preview_ready", "auto")
  /\ UNCHANGED <<runs, inst, trig, found, rows, aged, cancelFuncs, canceled, del,
                 mutex, op, phase, others>>

\* Mutant: manual scans are cleaned up too.
AutoCleanupAnyTrigger(r) ==
  /\ scan[r] = "auto"
  /\ \/ size[r] <= AutoMax /\ Live("scan", r) /\ status[r] = "preview_ready"
        /\ ScanTo(r, "autoLock")
     \/ ScanTo(r, "exit")
  /\ UNCHANGED <<db, ended, cancelFuncs, canceled, del, mutex, op, phase, faults, others>>

\* maybeAutoCleanup up to the status ConfirmDeletion reads.  Auto-cleanup may be
\* off and a query may fail, so the scan may always end here.
MaybeAutoCleanup(r) ==
  /\ scan[r] = "auto"
  /\ \/ /\ trig[r] = "scheduled"
        /\ size[r] <= AutoMax
        /\ Live("scan", r)
        /\ status[r] = "preview_ready"
        /\ ScanTo(r, "autoLock")
     \/ ScanTo(r, "exit")
  /\ UNCHANGED <<db, ended, cancelFuncs, canceled, del, mutex, op, phase, faults, others>>

\* The rest of that ConfirmDeletion; it no longer looks at its context.
AutoLock(r) ==
  /\ scan[r] = "autoLock"
  /\ \/ StartDeletion(r)
     \/ /\ mutex[inst[r]] # 0
        /\ UNCHANGED <<mutex, cancelFuncs, canceled, del>>
  /\ ScanTo(r, "exit")
  /\ UNCHANGED <<db, ended, op, phase, faults, others>>

\* The deferred delete(s.cancelFuncs, runID) of the scan goroutine.
ScanExit(r) ==
  /\ scan[r] = "exit"
  /\ ScanTo(r, "none")
  /\ cancelFuncs' = [cancelFuncs EXCEPT ![r] = "none"]
  /\ canceled' = canceled \ {<<"scan", r>>}
  /\ UNCHANGED <<db, ended, del, mutex, op, phase, faults, others>>

-----------------------------------------------------------------------------
(* executeDeletion *)

DelWrite(r, s, pc) ==
  \/ /\ Live("del", r)
     /\ UpdateRunStatus(r, s) /\ DelTo(r, pc)
     /\ UNCHANGED faults
  \/ /\ \/ ~Live("del", r) /\ UNCHANGED faults
        \/ Live("del", r) /\ DbFault
     /\ DelTo(r, "exit")
     /\ UNCHANGED <<status, ended>>

DelStart(r) ==
  /\ del[r] = "start"
  /\ DelWrite(r, "deleting", "load")
  /\ UNCHANGED <<runs, inst, trig, found, rows, aged, cancelFuncs, canceled, scan,
                 mutex, op, phase, others>>

\* Mutant: the files of an earlier deletion of the run are listed again.
DelLoadAll(r) ==
  /\ del[r] = "load"
  /\ Live("del", r) /\ DelTo(r, "files") /\ todo' = [todo EXCEPT ![r] = size[r]]
  /\ UNCHANGED <<db, ended, cancelFuncs, canceled, scan, mutex, op, phase, faults,
                 size, erased, failed, crashes, confirmed>>

\* GetRun, buildFileMap and GetFilesForDeletion, or failRun.
DelLoad(r) ==
  /\ del[r] = "load"
  /\ \/ Live("del", r) /\ DelTo(r, "files") /\ todo' = [todo EXCEPT ![r] = rows[r]]
     \/ DelTo(r, "fail") /\ UNCHANGED todo
  /\ UNCHANGED <<db, ended, cancelFuncs, canceled, scan, mutex, op, phase, faults,
                 size, erased, failed, crashes, confirmed>>

DelFail(r) ==
  /\ del[r] = "fail"
  /\ DelWrite(r, "failed", "exit")
  /\ UNCHANGED <<runs, inst, trig, found, rows, aged, cancelFuncs, canceled, scan,
                 mutex, op, phase, others>>

\* One round of the loop: delete, skip or fail one file, then updateFileStatus,
\* whose error is only logged.
DelFile(r) ==
  /\ del[r] = "files" /\ todo[r] > 0
  /\ Live("del", r)
  /\ todo' = [todo EXCEPT ![r] = @ - 1]
  /\ \/ erased' = [erased EXCEPT ![r] = @ + 1] /\ UNCHANGED failed
     \/ failed' = [failed EXCEPT ![r] = TRUE] /\ UNCHANGED erased
     \/ UNCHANGED <<erased, failed>>
  /\ \/ rows' = [rows EXCEPT ![r] = @ - 1] /\ UNCHANGED faults
     \/ DbFault /\ UNCHANGED rows
  /\ UNCHANGED <<runs, status, ended, inst, trig, found, aged, cancelFuncs, canceled, scan,
                 del, mutex, op, phase, size, crashes, confirmed>>

\* Mutant: the loop does not look at its context.
DelLoopEndDeaf(r) ==
  /\ del[r] = "files" /\ todo[r] = 0
  /\ DelTo(r, "finish")
  /\ UNCHANGED <<db, ended, cancelFuncs, canceled, scan, mutex, op, phase, faults, others>>

\* The loop ends when no file is left or the context is canceled; the empty
\* directories are removed.
DelLoopEnd(r) ==
  /\ del[r] = "files"
  /\ todo[r] = 0 \/ ~Live("del", r)
  /\ DelTo(r, "finish")
  /\ UNCHANGED <<db, ended, cancelFuncs, canceled, scan, mutex, op, phase, faults, others>>

DelFinish(r) ==
  /\ del[r] = "finish"
  /\ IF failed[r] /\ erased[r] = 0 THEN DelWrite(r, "failed", "exit")
                                           ELSE DelWrite(r, "completed", "exit")
  /\ UNCHANGED <<runs, inst, trig, found, rows, aged, cancelFuncs, canceled, scan,
                 mutex, op, phase, others>>

\* Mutant: the cancel function stays registered.
DelExitRegistered(r) ==
  /\ del[r] = "exit"
  /\ DelTo(r, "unlock")
  /\ UNCHANGED <<db, ended, cancelFuncs, canceled, scan, mutex, op, phase, faults, others>>

\* The two deferred calls, in the order they run.
DelExit(r) ==
  /\ del[r] = "exit"
  /\ DelTo(r, "unlock")
  /\ cancelFuncs' = [cancelFuncs EXCEPT ![r] = "none"]
  /\ UNCHANGED <<db, ended, canceled, scan, mutex, op, phase, faults, others>>

DelUnlock(r) ==
  /\ del[r] = "unlock"
  /\ DelTo(r, "none")
  /\ mutex' = [mutex EXCEPT ![inst[r]] = 0]
  /\ canceled' = canceled \ {<<"del", r>>}
  /\ todo' = [todo EXCEPT ![r] = 0]
  /\ erased' = [erased EXCEPT ![r] = 0]
  /\ failed' = [failed EXCEPT ![r] = FALSE]
  /\ UNCHANGED <<db, ended, cancelFuncs, scan, op, phase, faults, size, crashes, confirmed>>

-----------------------------------------------------------------------------
(* Startup and crash *)

\* Mutant: interrupted deletions are left for the second statement.
RecoverNothing ==
  /\ phase = "boot" /\ phase' = "stuck"
  /\ UNCHANGED <<db, ended, cancelFuncs, canceled, scan, del, mutex, op, faults, others>>

\* recoverStuckRuns, first statement: MarkDeletingRunsFailed.  An error skips
\* the second statement.
RecoverDeleting ==
  /\ phase = "boot"
  /\ \/ /\ status' = [r \in RunIds |-> IF status[r] = "deleting" THEN "failed"
                                       ELSE status[r]]
        /\ ended' = ended \cup {r \in RunIds : status[r] = "deleting"}
        /\ phase' = "stuck" /\ UNCHANGED faults
     \/ DbFault /\ phase' = "up" /\ UNCHANGED <<status, ended>>
  /\ UNCHANGED <<runs, inst, trig, found, rows, aged, cancelFuncs, canceled, scan,
                 del, mutex, op, others>>

\* Second statement: MarkStuckRunsFailed, only rows older than the threshold.
Stuck == {r \in RunIds : status[r] \in {"pending", "scanning"} /\ r <= aged}

RecoverStuck ==
  /\ phase = "stuck"
  /\ \/ /\ status' = [r \in RunIds |->
             IF r \in Stuck THEN "failed" ELSE status[r]]
        /\ ended' = ended \cup Stuck
        /\ UNCHANGED faults
     \/ DbFault /\ UNCHANGED <<status, ended>>
  /\ phase' = "up"
  /\ UNCHANGED <<runs, inst, trig, found, rows, aged, cancelFuncs, canceled, scan,
                 del, mutex, op, others>>

\* The process dies and starts again after any delay.
Crash ==
  /\ crashes < MaxCrashes
  /\ crashes' = crashes + 1
  /\ aged' \in aged..runs
  /\ cancelFuncs' = [r \in RunIds |-> "none"]
  /\ canceled' = {}
  /\ scan' = [r \in RunIds |-> "none"]
  /\ del' = [r \in RunIds |-> "none"]
  /\ todo' = [r \in RunIds |-> 0]
  /\ erased' = [r \in RunIds |-> 0]
  /\ failed' = [r \in RunIds |-> FALSE]
  /\ mutex' = [i \in Instances |-> 0]
  /\ op' = [t \in Threads |-> Idle]
  /\ phase' = "boot"
  /\ UNCHANGED <<runs, status, ended, inst, trig, found, rows, size, faults, confirmed>>

-----------------------------------------------------------------------------
Request(t) == \/ \E i \in Instances : TriggerCreate(t, i)
              \/ \E r \in RunIds : CancelRead(t, r) \/ ConfirmRead(t, r)
Respond(t) == TriggerRegister(t) \/ CancelCall(t) \/ CancelCheck(t)
              \/ CancelWrite(t) \/ ConfirmLock(t)
ScanStep(r) == ScanStart(r) \/ ScanWalk(r) \/ ScanFail(r) \/ ScanFound(r)
               \/ ScanFinish(r) \/ MaybeAutoCleanup(r) \/ AutoLock(r) \/ ScanExit(r)
DelStep(r) == DelStart(r) \/ DelLoad(r) \/ DelFail(r) \/ DelFile(r)
              \/ DelLoopEnd(r) \/ DelFinish(r) \/ DelExit(r) \/ DelUnlock(r)
Recover == RecoverDeleting \/ RecoverStuck

Next == \/ \E t \in Threads : Request(t) \/ Respond(t)
        \/ \E r \in RunIds : ScanStep(r) \/ DelStep(r)
        \/ Recover
        \/ Crash

Spec == Init /\ [][Next]_vars

\* Goroutines and started requests run on; nobody is obliged to send a request.
Fairness == /\ \A t \in Threads : WF_vars(Respond(t))
            /\ \A r \in RunIds : WF_vars(ScanStep(r)) /\ WF_vars(DelStep(r))
            /\ WF_vars(Recover)
FairSpec == Spec /\ Fairness

-----------------------------------------------------------------------------
(* Properties *)

TypeOK ==
  /\ runs \in 0..MaxRuns
  /\ status \in [RunIds -> Statuses]
  /\ inst \in [RunIds -> Instances]
  /\ trig \in [RunIds -> {"manual", "scheduled"}]
  /\ found \in [RunIds -> 0..MaxFiles]
  /\ rows \in [RunIds -> 0..MaxFiles]
  /\ aged \in 0..MaxRuns
  /\ cancelFuncs \in [RunIds -> {"none", "scan", "del"}]
  /\ canceled \subseteq ({"scan", "del"} \X RunIds)
  /\ scan \in [RunIds -> ScanPcs]
  /\ del \in [RunIds -> DelPcs]
  /\ size \in [RunIds -> 0..MaxFiles]
  /\ todo \in [RunIds -> 0..MaxFiles]
  /\ erased \in [RunIds -> 0..MaxFiles]
  /\ failed \in [RunIds -> BOOLEAN]
  /\ mutex \in [Instances -> 0..MaxRuns]
  /\ op \in [Threads -> [kind : OpKinds, run : 0..MaxRuns]]
  /\ phase \in {"boot", "stuck", "up"}
  /\ faults \in 0..MaxFaults
  /\ crashes \in 0..MaxCrashes
  /\ confirmed \subseteq RunIds
  /\ ended \subseteq RunIds

\* The instance mutex is held exactly while a deletion of that instance runs:
\* no two deletions of an instance overlap, whatever threads confirm them, and
\* no error path, cancellation or early return of executeDeletion leaks the
\* lock (ConfirmDeletion's deferred Unlock).
MutexIsDeletion ==
  \A r \in RunIds : del[r] # "none" <=> mutex[inst[r]] = r

\* A function in cancelFuncs belongs to a goroutine that still runs: no exit of
\* executeScan or executeDeletion leaves an entry behind, which would make
\* CancelRun refuse to release a "deleting" row for good.
RegisteredIsAlive ==
  \A r \in RunIds :
    /\ cancelFuncs[r] = "scan" => scan[r] # "none"
    /\ cancelFuncs[r] = "del" => del[r] \notin {"none", "unlock"}

\* Rows that no statement has ever finished.
Unfinished == {r \in RunIds \ ended : status[r] # "none"}

\* A preview whose UpdateRunFoundStats failed: its error is only logged, and
\* CreateRunIfNoActive then reads files_found = 0 for files that are there.
CountLost(r) == /\ status[r] \in {"preview_ready", "deleting"}
                /\ found[r] = 0 /\ size[r] > 0
                /\ faults > 0

\* CreateRunIfNoActive admits one run at a time: a run is started beside an
\* older one of its instance that has never been finished only when that one is
\* a preview whose file count was lost to a failed statement (deleted since or
\* not).  Without failed statements there is at most one.
OneRunAtATime ==
  \A r, s \in Unfinished : inst[r] = inst[s] /\ r < s => CountLost(r)

\* The same without the exception, for rows the check counts.
\* "This prevents race conditions between HasActiveRun and CreateRun" -
\* orphan_scan.go:177.
NeverTwoActive ==
  \A r, s \in Unfinished : Active(r) /\ Active(s) /\ inst[r] = inst[s] => r = s

\* Files are deleted only for a run a user confirmed, or for a scheduled run
\* whose orphans are within the auto-cleanup threshold (maybeAutoCleanup).
DeletionAuthorized ==
  \A r \in RunIds :
    del[r] # "none" => \/ r \in confirmed
                       \/ trig[r] = "scheduled" /\ size[r] <= AutoMax

\* Once the recovery is past its first statement a row says "deleting" only
\* while a deletion runs or a CancelRun is about to overwrite it, unless a
\* statement failed: a crash in the middle of a deletion and a CancelRun that
\* hits one both leave no row that blocks every later scan.
NoZombieDeleting ==
  faults = 0 /\ phase # "boot" =>
    \A r \in RunIds : status[r] = "deleting" =>
      \/ del[r] # "none"
      \/ \E t \in Threads : op[t].kind = "cancelWrite" /\ op[t].run = r

\* Nothing is in progress on the run: no goroutine and no request.
Quiet(r) == /\ scan[r] = "none" /\ del[r] = "none"
            /\ \A t \in Threads : op[t].run # r

\* A finished run on which nothing is in progress is never touched again and no
\* request gets hold of it: only a thread that read the row before it was
\* finished can overwrite it.
FinishedStep ==
  \A r \in RunIds : status[r] \in Finished /\ Quiet(r) =>
    status'[r] = status[r] /\ rows'[r] = rows[r] /\ Quiet(r)'
FinishedStable == [][FinishedStep]_vars

\* Every scan leaves pending and scanning, whatever cancellations race with it,
\* unless a statement fails or the process crashes.
ScansEnd == \A r \in RunIds :
  status[r] \in {"pending", "scanning"}
    ~> status[r] \notin {"pending", "scanning"} \/ faults > 0 \/ crashes > 0

\* Every deletion ends, its row leaves "deleting" and its instance is unlocked:
\* even across a crash, unless a statement fails.
DeletionsEnd == \A r \in RunIds :
  /\ status[r] = "deleting" ~> status[r] # "deleting" \/ faults > 0
  /\ del[r] # "none" ~> mutex[inst[r]] # r

\* What CancelRun assumes of a row in "deleting": "If deletion is truly in
\* progress (in-memory cancel func exists)" - service.go:384.
DeletionRegistered ==
  \A r \in RunIds : del[r] \notin {"none", "exit", "unlock"} => cancelFuncs[r] # "none"

\* A run whose CancelRun has been answered with success erases no file after it.
\* ErrRunAlreadyFinished: "returned when attempting to modify a
\* completed/failed/canceled run" - types.go.
CanceledErasesNothing ==
  [][\A r \in RunIds : status[r] = "canceled" => erased'[r] <= erased[r]]_vars

-----------------------------------------------------------------------------
(* The parts of the inductive invariant the proofs use. *)

\* A request that is under way names an existing run.
OpsNameRuns == \A t \in Threads :
  op[t].kind # "idle" => op[t].run \in RunIds /\ op[t].run <= runs

\* Nothing exists for a run id that has not been handed out.
NothingAhead ==
  /\ \A r \in RunIds : r > runs =>
       /\ status[r] = "none" /\ r \notin ended
       /\ scan[r] = "none" /\ del[r] = "none"
  /\ \A i \in Instances : mutex[i] <= runs
  /\ aged <= runs

\* Where executeScan is before anybody can have read preview_ready.
Early == {"start", "walk", "fail", "found", "finish"}

\* Registering happens once, by one thread, before the scan exists.
RegisterOnce == \A t \in Threads : op[t].kind = "register" =>
  /\ scan[op[t].run] = "none" /\ del[op[t].run] = "none"
  /\ status[op[t].run] \notin {"preview_ready", "deleting"}
  /\ \A u \in Threads \ {t} : op[u].run = op[t].run =>
       op[u].kind \notin {"register", "confirm"}

\* A deletion cannot be requested, let alone run, before the scan is over.
ScanBeforeDeletion == \A r \in RunIds : scan[r] \in Early =>
  /\ del[r] = "none"
  /\ status[r] \notin {"preview_ready", "deleting"}
  /\ \A t \in Threads : op[t].run = r => op[t].kind \notin {"register", "confirm"}

\* The files a deletion still has to visit have pending rows.
TodoHasRows == \A r \in RunIds :
  /\ del[r] \in {"none", "start", "load"} => todo[r] = 0 /\ erased[r] = 0
  /\ todo[r] <= rows[r]
  /\ todo[r] + erased[r] <= MaxFiles

\* A mutex names a run of its own instance.
MutexOfInstance == \A i \in Instances : mutex[i] # 0 => inst[mutex[i]] = i

Structure == /\ TypeOK /\ OpsNameRuns /\ NothingAhead
             /\ RegisterOnce /\ ScanBeforeDeletion /\ TodoHasRows
             /\ MutexIsDeletion /\ MutexOfInstance

\* maybeAutoCleanup's checks hold where it goes on to lock.
AutoChecked == \A r \in RunIds :
  scan[r] = "autoLock" => trig[r] = "scheduled" /\ size[r] <= AutoMax

\* The status of a run that has never been finished is what its goroutine and
\* the requests on it last saw or wrote.
StatusFollowsWork == \A r \in RunIds \ ended :
  /\ status[r] \notin Finished
  /\ scan[r] = "start" => status[r] = "pending"
  /\ scan[r] \in {"walk", "fail", "found", "finish"} => status[r] = "scanning"
  /\ scan[r] \in {"auto", "autoLock"} \/ del[r] # "none" =>
       status[r] \in {"preview_ready", "deleting"}
  /\ \A t \in Threads : op[t].run = r =>
       /\ op[t].kind = "register" => status[r] = "pending"
       /\ op[t].kind = "confirm" => status[r] \in {"preview_ready", "deleting"}

\* A preview has files, and their number is stored unless a statement failed.
CountStored(r) ==
  /\ scan[r] = "finish" /\ Live("scan", r) => found[r] = size[r] \/ faults > 0
  /\ r \notin ended /\ status[r] \in {"preview_ready", "deleting"} =>
       size[r] > 0 /\ (found[r] = size[r] \/ faults > 0)
CountsStored == \A r \in RunIds : CountStored(r)

\* Who will overwrite a row that says "deleting".
DeletingHasWriter ==
  faults = 0 /\ phase # "boot" =>
    \A r \in RunIds : status[r] = "deleting" =>
      \/ del[r] \in {"load", "files", "fail", "finish"} /\ Live("del", r)
      \/ \E t \in Threads : op[t].kind = "cancelWrite" /\ op[t].run = r

Inductive == /\ Structure
             /\ RegisteredIsAlive
             /\ AutoChecked /\ DeletionAuthorized
             /\ StatusFollowsWork /\ CountsStored /\ OneRunAtATime
             /\ DeletingHasWriter

=============================================================================

-------------------------- MODULE OrphanRunsProofs --------------------------
(***************************************************************************)
(* Proofs about OrphanRuns for every set of instances and threads and      *)
(* every bound on runs, files, faults and crashes.                         *)
(*                                                                         *)
(* Structure is inductive by itself.  The other parts of Inductive are     *)
(* preserved by every step from a Structure state, each by a lemma of its  *)
(* own, and the theorems follow.                                           *)
(***************************************************************************)
EXTENDS OrphanRuns, TLAPS

\* Run ids are positive and at most MaxRuns.
LEMMA RunIdFacts == \A r \in RunIds : r \in Nat /\ r # 0 /\ r <= MaxRuns
BY BoundsAssumption DEF RunIds

\* Every step of the service preserves Structure.
LEMMA StructureNext == Structure /\ [Next]_vars => Structure'
<1> SUFFICES ASSUME Structure, [Next]_vars PROVE Structure'
  OBVIOUS
<1> USE BoundsAssumption, RunIdFacts DEF Structure, others, loop, db
<1>1. ASSUME NEW t \in Threads, NEW i \in Instances, TriggerCreate(t, i) PROVE Structure'
  <2> USE <1>1 DEF TriggerCreate, UpdateRunStatus, Active, Idle
  <2>1. TypeOK'
    <3>1. runs + 1 \in RunIds
      BY DEF RunIds, TypeOK
    <3>2. op' \in [Threads -> [kind : OpKinds, run : 0..MaxRuns]]
      BY <3>1 DEF TypeOK, OpKinds
    <3>3. status' \in [RunIds -> Statuses] /\ ended' \subseteq RunIds
      BY <3>1 DEF TypeOK, Statuses, Open, Finished
    <3>4. inst' \in [RunIds -> Instances] /\ trig' \in [RunIds -> {"manual", "scheduled"}]
      BY <3>1 DEF TypeOK
    <3>5. runs' \in 0..MaxRuns
      BY <3>1 DEF TypeOK
    <3> QED BY <3>2, <3>3, <3>4, <3>5 DEF TypeOK
  <2>2. OpsNameRuns'
    <3>1. runs + 1 \in RunIds
      BY DEF RunIds, TypeOK
    <3> QED BY <3>1 DEF TypeOK, OpsNameRuns, NothingAhead, Finished
  <2>3. NothingAhead'
    <3>1. runs + 1 \in RunIds
      BY DEF RunIds, TypeOK
    <3> QED BY <3>1 DEF TypeOK, OpsNameRuns, NothingAhead, Finished
  <2>4. RegisterOnce'
    <3>1. runs + 1 \in RunIds
      BY DEF RunIds, TypeOK
    <3>2. \A u \in Threads : op[u].kind # "idle" => op[u].run # runs + 1 /\ op[u].run \in RunIds
      BY DEF OpsNameRuns, TypeOK
    <3>3. scan[runs + 1] = "none" /\ del[runs + 1] = "none"
      BY <3>1 DEF NothingAhead, TypeOK
    <3>4. status'[runs + 1] = "pending" /\ \A q \in RunIds \ {runs + 1} : status'[q] = status[q]
      BY <3>1 DEF TypeOK
    <3>5. op'[t] = [kind |-> "register", run |-> runs + 1] /\ \A u \in Threads \ {t} : op'[u] = op[u]
      BY DEF TypeOK
    <3> QED BY <3>1, <3>2, <3>3, <3>4, <3>5 DEF RegisterOnce
  <2>5. ScanBeforeDeletion'
    BY DEF TypeOK, OpsNameRuns, NothingAhead, RegisterOnce, ScanBeforeDeletion, Early
  <2>6. TodoHasRows'
    BY DEF TypeOK, OpsNameRuns, ScanBeforeDeletion, TodoHasRows, Early, MutexIsDeletion
  <2>7. MutexIsDeletion'
    BY DEF TypeOK, OpsNameRuns, MutexIsDeletion, MutexOfInstance, NothingAhead
  <2>8. MutexOfInstance'
    BY DEF TypeOK, OpsNameRuns, NothingAhead, MutexIsDeletion, MutexOfInstance
  <2> QED BY <2>1, <2>2, <2>3, <2>4, <2>5, <2>6, <2>7, <2>8
<1>2. ASSUME NEW t \in Threads, TriggerRegister(t) PROVE Structure'
  <2> USE <1>2 DEF TriggerRegister, ScanTo, Idle
  <2>1. TypeOK'
    BY DEF TypeOK, OpsNameRuns, TodoHasRows, Statuses, Open, Finished, ScanPcs, DelPcs,
       OpKinds
  <2>2. OpsNameRuns'
    BY DEF TypeOK, OpsNameRuns, NothingAhead
  <2>3. NothingAhead'
    BY DEF TypeOK, OpsNameRuns, NothingAhead
  <2>4. RegisterOnce'
    BY DEF TypeOK, OpsNameRuns, NothingAhead, RegisterOnce, ScanBeforeDeletion, Early
  <2>5. ScanBeforeDeletion'
    BY DEF TypeOK, OpsNameRuns, NothingAhead, RegisterOnce, ScanBeforeDeletion, Early
  <2>6. TodoHasRows'
    BY DEF TypeOK, OpsNameRuns, ScanBeforeDeletion, TodoHasRows, Early, MutexIsDeletion
  <2>7. MutexIsDeletion'
    BY DEF TypeOK, OpsNameRuns, MutexIsDeletion, MutexOfInstance, NothingAhead
  <2>8. MutexOfInstance'
    BY DEF TypeOK, OpsNameRuns, NothingAhead, MutexIsDeletion, MutexOfInstance
  <2> QED BY <2>1, <2>2, <2>3, <2>4, <2>5, <2>6, <2>7, <2>8
<1>3. ASSUME NEW t \in Threads, CancelCall(t) PROVE Structure'
  <2> USE <1>3 DEF CancelCall
  <2>1. TypeOK'
    BY DEF TypeOK, OpsNameRuns, TodoHasRows, Statuses, Open, Finished, ScanPcs, DelPcs,
       OpKinds
  <2>2. OpsNameRuns'
    BY DEF TypeOK, OpsNameRuns, NothingAhead
  <2>3. NothingAhead'
    BY DEF TypeOK, OpsNameRuns, NothingAhead
  <2>4. RegisterOnce'
    BY DEF TypeOK, OpsNameRuns, NothingAhead, RegisterOnce, ScanBeforeDeletion, Early
  <2>5. ScanBeforeDeletion'
    BY DEF TypeOK, OpsNameRuns, NothingAhead, RegisterOnce, ScanBeforeDeletion, Early
  <2>6. TodoHasRows'
    BY DEF TypeOK, OpsNameRuns, ScanBeforeDeletion, TodoHasRows, Early, MutexIsDeletion
  <2>7. MutexIsDeletion'
    BY DEF TypeOK, OpsNameRuns, MutexIsDeletion, MutexOfInstance, NothingAhead
  <2>8. MutexOfInstance'
    BY DEF TypeOK, OpsNameRuns, NothingAhead, MutexIsDeletion, MutexOfInstance
  <2> QED BY <2>1, <2>2, <2>3, <2>4, <2>5, <2>6, <2>7, <2>8
<1>4. ASSUME NEW t \in Threads, CancelCheck(t) PROVE Structure'
  <2> USE <1>4 DEF CancelCheck, Idle
  <2>1. TypeOK'
    <3>1. op' \in [Threads -> [kind : OpKinds, run : 0..MaxRuns]]
      BY DEF TypeOK, OpKinds, Idle
    <3> QED BY <3>1 DEF TypeOK
  <2>2. OpsNameRuns'
    BY DEF TypeOK, OpsNameRuns, NothingAhead
  <2>3. NothingAhead'
    BY DEF TypeOK, OpsNameRuns, NothingAhead
  <2>4. RegisterOnce'
    BY DEF TypeOK, OpsNameRuns, NothingAhead, RegisterOnce, ScanBeforeDeletion, Early
  <2>5. ScanBeforeDeletion'
    BY DEF TypeOK, OpsNameRuns, NothingAhead, RegisterOnce, ScanBeforeDeletion, Early
  <2>6. TodoHasRows'
    BY DEF TypeOK, OpsNameRuns, ScanBeforeDeletion, TodoHasRows, Early, MutexIsDeletion
  <2>7. MutexIsDeletion'
    BY DEF TypeOK, OpsNameRuns, MutexIsDeletion, MutexOfInstance, NothingAhead
  <2>8. MutexOfInstance'
    BY DEF TypeOK, OpsNameRuns, NothingAhead, MutexIsDeletion, MutexOfInstance
  <2> QED BY <2>1, <2>2, <2>3, <2>4, <2>5, <2>6, <2>7, <2>8
<1>5. ASSUME NEW t \in Threads, CancelWrite(t) PROVE Structure'
  <2> USE <1>5 DEF CancelWrite, UpdateRunStatus, DbFault, Idle
  <2>1. TypeOK'
    <3>1. op' \in [Threads -> [kind : OpKinds, run : 0..MaxRuns]]
      BY DEF TypeOK, OpKinds, Idle
    <3>2. status' \in [RunIds -> Statuses] /\ ended' \subseteq RunIds
      BY DEF TypeOK, OpsNameRuns, Statuses, Finished
    <3>3. faults' \in 0..MaxFaults
      BY DEF TypeOK
    <3> QED BY <3>1, <3>2, <3>3 DEF TypeOK
  <2>2. OpsNameRuns'
    BY DEF TypeOK, OpsNameRuns, NothingAhead
  <2>3. NothingAhead'
    BY DEF TypeOK, OpsNameRuns, NothingAhead
  <2>4. RegisterOnce'
    BY DEF TypeOK, OpsNameRuns, NothingAhead, RegisterOnce, ScanBeforeDeletion, Early
  <2>5. ScanBeforeDeletion'
    BY DEF TypeOK, OpsNameRuns, NothingAhead, RegisterOnce, ScanBeforeDeletion, Early
  <2>6. TodoHasRows'
    BY DEF TypeOK, OpsNameRuns, ScanBeforeDeletion, TodoHasRows, Early, MutexIsDeletion
  <2>7. MutexIsDeletion'
    BY DEF TypeOK, OpsNameRuns, MutexIsDeletion, MutexOfInstance, NothingAhead
  <2>8. MutexOfInstance'
    BY DEF TypeOK, OpsNameRuns, NothingAhead, MutexIsDeletion, MutexOfInstance
  <2> QED BY <2>1, <2>2, <2>3, <2>4, <2>5, <2>6, <2>7, <2>8
<1>6. ASSUME NEW t \in Threads, ConfirmLock(t) PROVE Structure'
  <2> USE <1>6 DEF ConfirmLock, StartDeletion, DelTo, Idle
  <2>1. TypeOK'
    <3>1. op' \in [Threads -> [kind : OpKinds, run : 0..MaxRuns]]
      BY DEF TypeOK, OpKinds, Idle
    <3>2. op[t].run \in RunIds
      BY DEF OpsNameRuns
    <3>3. mutex' \in [Instances -> 0..MaxRuns]
      BY <3>2 DEF TypeOK
    <3>6. cancelFuncs' \in [RunIds -> {"none", "scan", "del"}]
      BY <3>2 DEF TypeOK
    <3>4. del' \in [RunIds -> DelPcs] /\ canceled' \subseteq ({"scan", "del"} \X RunIds)
      BY <3>2 DEF TypeOK, DelPcs
    <3>5. confirmed' \subseteq RunIds
      BY <3>2 DEF TypeOK
    <3> QED BY <3>1, <3>3, <3>4, <3>5, <3>6 DEF TypeOK
  <2>2. OpsNameRuns'
    BY DEF TypeOK, OpsNameRuns, NothingAhead
  <2>3. NothingAhead'
    BY DEF TypeOK, OpsNameRuns, NothingAhead
  <2>4. RegisterOnce'
    BY DEF TypeOK, OpsNameRuns, NothingAhead, RegisterOnce, ScanBeforeDeletion, Early
  <2>5. ScanBeforeDeletion'
    BY DEF TypeOK, OpsNameRuns, NothingAhead, RegisterOnce, ScanBeforeDeletion, Early
  <2>6. TodoHasRows'
    BY DEF TypeOK, OpsNameRuns, ScanBeforeDeletion, TodoHasRows, Early, MutexIsDeletion
  <2>7. MutexIsDeletion'
    BY DEF TypeOK, OpsNameRuns, MutexIsDeletion, MutexOfInstance, NothingAhead
  <2>8. MutexOfInstance'
    BY DEF TypeOK, OpsNameRuns, NothingAhead, MutexIsDeletion, MutexOfInstance
  <2> QED BY <2>1, <2>2, <2>3, <2>4, <2>5, <2>6, <2>7, <2>8
<1>7. ASSUME NEW t \in Threads, NEW r \in RunIds, CancelRead(t, r) PROVE Structure'
  <2> USE <1>7 DEF CancelRead, Idle, Open
  <2>1. TypeOK'
    BY DEF TypeOK, OpKinds
  <2>2. OpsNameRuns'
    BY DEF TypeOK, OpsNameRuns, NothingAhead
  <2>3. NothingAhead'
    BY DEF TypeOK, OpsNameRuns, NothingAhead
  <2>4. RegisterOnce'
    BY DEF TypeOK, OpsNameRuns, NothingAhead, RegisterOnce, ScanBeforeDeletion, Early
  <2>5. ScanBeforeDeletion'
    BY DEF TypeOK, OpsNameRuns, NothingAhead, RegisterOnce, ScanBeforeDeletion, Early
  <2>6. TodoHasRows'
    BY DEF TypeOK, OpsNameRuns, ScanBeforeDeletion, TodoHasRows, Early, MutexIsDeletion
  <2>7. MutexIsDeletion'
    BY DEF TypeOK, OpsNameRuns, MutexIsDeletion, MutexOfInstance, NothingAhead
  <2>8. MutexOfInstance'
    BY DEF TypeOK, OpsNameRuns, NothingAhead, MutexIsDeletion, MutexOfInstance
  <2> QED BY <2>1, <2>2, <2>3, <2>4, <2>5, <2>6, <2>7, <2>8
<1>8. ASSUME NEW t \in Threads, NEW r \in RunIds, ConfirmRead(t, r) PROVE Structure'
  <2> USE <1>8 DEF ConfirmRead, Idle
  <2>1. TypeOK'
    BY DEF TypeOK, OpKinds
  <2>2. OpsNameRuns'
    BY DEF TypeOK, OpsNameRuns, NothingAhead
  <2>3. NothingAhead'
    BY DEF TypeOK, OpsNameRuns, NothingAhead
  <2>4. RegisterOnce'
    BY DEF TypeOK, OpsNameRuns, NothingAhead, RegisterOnce, ScanBeforeDeletion, Early
  <2>5. ScanBeforeDeletion'
    BY DEF TypeOK, OpsNameRuns, NothingAhead, RegisterOnce, ScanBeforeDeletion, Early
  <2>6. TodoHasRows'
    BY DEF TypeOK, OpsNameRuns, ScanBeforeDeletion, TodoHasRows, Early, MutexIsDeletion
  <2>7. MutexIsDeletion'
    BY DEF TypeOK, OpsNameRuns, MutexIsDeletion, MutexOfInstance, NothingAhead
  <2>8. MutexOfInstance'
    BY DEF TypeOK, OpsNameRuns, NothingAhead, MutexIsDeletion, MutexOfInstance
  <2> QED BY <2>1, <2>2, <2>3, <2>4, <2>5, <2>6, <2>7, <2>8
<1>9. ASSUME NEW r \in RunIds, ScanStart(r) PROVE Structure'
  <2> USE <1>9 DEF ScanStart, ScanWrite, UpdateRunStatus, ScanTo, DbFault
  <2>1. TypeOK'
    BY DEF TypeOK, Statuses, Open, Finished, ScanPcs
  <2>2. OpsNameRuns'
    BY DEF TypeOK, OpsNameRuns, NothingAhead
  <2>3. NothingAhead'
    BY DEF TypeOK, OpsNameRuns, NothingAhead
  <2>4. RegisterOnce'
    BY DEF TypeOK, OpsNameRuns, NothingAhead, RegisterOnce, ScanBeforeDeletion, Early
  <2>5. ScanBeforeDeletion'
    BY DEF TypeOK, OpsNameRuns, NothingAhead, RegisterOnce, ScanBeforeDeletion, Early
  <2>6. TodoHasRows'
    BY DEF TypeOK, OpsNameRuns, ScanBeforeDeletion, TodoHasRows, Early, MutexIsDeletion
  <2>7. MutexIsDeletion'
    BY DEF TypeOK, OpsNameRuns, MutexIsDeletion, MutexOfInstance, NothingAhead
  <2>8. MutexOfInstance'
    BY DEF TypeOK, OpsNameRuns, NothingAhead, MutexIsDeletion, MutexOfInstance
  <2> QED BY <2>1, <2>2, <2>3, <2>4, <2>5, <2>6, <2>7, <2>8
<1>10. ASSUME NEW r \in RunIds, ScanWalk(r) PROVE Structure'
  <2> USE <1>10 DEF ScanWalk, ScanTo
  <2>1. TypeOK'
    <3>1. rows' \in [RunIds -> 0..MaxFiles] /\ size' \in [RunIds -> 0..MaxFiles]
      BY DEF TypeOK
    <3>2. scan' \in [RunIds -> ScanPcs]
      BY DEF TypeOK, ScanPcs
    <3> QED BY <3>1, <3>2 DEF TypeOK
  <2>2. OpsNameRuns'
    BY DEF TypeOK, OpsNameRuns, NothingAhead
  <2>3. NothingAhead'
    BY DEF TypeOK, OpsNameRuns, NothingAhead
  <2>4. RegisterOnce'
    BY DEF TypeOK, OpsNameRuns, NothingAhead, RegisterOnce, ScanBeforeDeletion, Early
  <2>5. ScanBeforeDeletion'
    BY DEF TypeOK, OpsNameRuns, NothingAhead, RegisterOnce, ScanBeforeDeletion, Early
  <2>6. TodoHasRows'
    <3>1. del[r] = "none" /\ todo[r] = 0
      BY DEF ScanBeforeDeletion, Early, TodoHasRows
    <3>2. rows'[r] \in Nat /\ \A q \in RunIds \ {r} : rows'[q] = rows[q]
      BY DEF TypeOK
    <3> QED BY <3>1, <3>2 DEF TodoHasRows
  <2>7. MutexIsDeletion'
    BY DEF TypeOK, OpsNameRuns, MutexIsDeletion, MutexOfInstance, NothingAhead
  <2>8. MutexOfInstance'
    BY DEF TypeOK, OpsNameRuns, NothingAhead, MutexIsDeletion, MutexOfInstance
  <2> QED BY <2>1, <2>2, <2>3, <2>4, <2>5, <2>6, <2>7, <2>8
<1>11. ASSUME NEW r \in RunIds, ScanFail(r) PROVE Structure'
  <2> USE <1>11 DEF ScanFail, ScanWrite, UpdateRunStatus, ScanTo, DbFault
  <2>1. TypeOK'
    BY DEF TypeOK, Statuses, Open, Finished, ScanPcs
  <2>2. OpsNameRuns'
    BY DEF TypeOK, OpsNameRuns, NothingAhead
  <2>3. NothingAhead'
    BY DEF TypeOK, OpsNameRuns, NothingAhead
  <2>4. RegisterOnce'
    BY DEF TypeOK, OpsNameRuns, NothingAhead, RegisterOnce, ScanBeforeDeletion, Early
  <2>5. ScanBeforeDeletion'
    BY DEF TypeOK, OpsNameRuns, NothingAhead, RegisterOnce, ScanBeforeDeletion, Early
  <2>6. TodoHasRows'
    BY DEF TypeOK, OpsNameRuns, ScanBeforeDeletion, TodoHasRows, Early, MutexIsDeletion
  <2>7. MutexIsDeletion'
    BY DEF TypeOK, OpsNameRuns, MutexIsDeletion, MutexOfInstance, NothingAhead
  <2>8. MutexOfInstance'
    BY DEF TypeOK, OpsNameRuns, NothingAhead, MutexIsDeletion, MutexOfInstance
  <2> QED BY <2>1, <2>2, <2>3, <2>4, <2>5, <2>6, <2>7, <2>8
<1>12. ASSUME NEW r \in RunIds, ScanFound(r) PROVE Structure'
  <2> USE <1>12 DEF ScanFound, ScanTo, DbFault
  <2>1. TypeOK'
    BY DEF TypeOK, Statuses, Open, Finished, ScanPcs
  <2>2. OpsNameRuns'
    BY DEF TypeOK, OpsNameRuns, NothingAhead
  <2>3. NothingAhead'
    BY DEF TypeOK, OpsNameRuns, NothingAhead
  <2>4. RegisterOnce'
    BY DEF TypeOK, OpsNameRuns, NothingAhead, RegisterOnce, ScanBeforeDeletion, Early
  <2>5. ScanBeforeDeletion'
    BY DEF TypeOK, OpsNameRuns, NothingAhead, RegisterOnce, ScanBeforeDeletion, Early
  <2>6. TodoHasRows'
    BY DEF TypeOK, OpsNameRuns, ScanBeforeDeletion, TodoHasRows, Early, MutexIsDeletion
  <2>7. MutexIsDeletion'
    BY DEF TypeOK, OpsNameRuns, MutexIsDeletion, MutexOfInstance, NothingAhead
  <2>8. MutexOfInstance'
    BY DEF TypeOK, OpsNameRuns, NothingAhead, MutexIsDeletion, MutexOfInstance
  <2> QED BY <2>1, <2>2, <2>3, <2>4, <2>5, <2>6, <2>7, <2>8
<1>13. ASSUME NEW r \in RunIds, ScanFinish(r) PROVE Structure'
  <2> USE <1>13 DEF ScanFinish, ScanWrite, UpdateRunStatus, ScanTo, DbFault
  <2>1. TypeOK'
    BY DEF TypeOK, Statuses, Open, Finished, ScanPcs
  <2>2. OpsNameRuns'
    BY DEF TypeOK, OpsNameRuns, NothingAhead
  <2>3. NothingAhead'
    BY DEF TypeOK, OpsNameRuns, NothingAhead
  <2>4. RegisterOnce'
    BY DEF TypeOK, OpsNameRuns, NothingAhead, RegisterOnce, ScanBeforeDeletion, Early
  <2>5. ScanBeforeDeletion'
    BY DEF TypeOK, OpsNameRuns, NothingAhead, RegisterOnce, ScanBeforeDeletion, Early
  <2>6. TodoHasRows'
    BY DEF TypeOK, OpsNameRuns, ScanBeforeDeletion, TodoHasRows, Early, MutexIsDeletion
  <2>7. MutexIsDeletion'
    BY DEF TypeOK, OpsNameRuns, MutexIsDeletion, MutexOfInstance, NothingAhead
  <2>8. MutexOfInstance'
    BY DEF TypeOK, OpsNameRuns, NothingAhead, MutexIsDeletion, MutexOfInstance
  <2> QED BY <2>1, <2>2, <2>3, <2>4, <2>5, <2>6, <2>7, <2>8
<1>14. ASSUME NEW r \in RunIds, MaybeAutoCleanup(r) PROVE Structure'
  <2> USE <1>14 DEF MaybeAutoCleanup, ScanTo
  <2>1. TypeOK'
    BY DEF TypeOK, OpsNameRuns, TodoHasRows, Statuses, Open, Finished, ScanPcs, DelPcs,
       OpKinds
  <2>2. OpsNameRuns'
    BY DEF TypeOK, OpsNameRuns, NothingAhead
  <2>3. NothingAhead'
    BY DEF TypeOK, OpsNameRuns, NothingAhead
  <2>4. RegisterOnce'
    BY DEF TypeOK, OpsNameRuns, NothingAhead, RegisterOnce, ScanBeforeDeletion, Early
  <2>5. ScanBeforeDeletion'
    BY DEF TypeOK, OpsNameRuns, NothingAhead, RegisterOnce, ScanBeforeDeletion, Early
  <2>6. TodoHasRows'
    BY DEF TypeOK, OpsNameRuns, ScanBeforeDeletion, TodoHasRows, Early, MutexIsDeletion
  <2>7. MutexIsDeletion'
    BY DEF TypeOK, OpsNameRuns, MutexIsDeletion, MutexOfInstance, NothingAhead
  <2>8. MutexOfInstance'
    BY DEF TypeOK, OpsNameRuns, NothingAhead, MutexIsDeletion, MutexOfInstance
  <2> QED BY <2>1, <2>2, <2>3, <2>4, <2>5, <2>6, <2>7, <2>8
<1>15. ASSUME NEW r \in RunIds, AutoLock(r) PROVE Structure'
  <2> USE <1>15 DEF AutoLock, StartDeletion, DelTo, ScanTo
  <2>1. TypeOK'
    <3>1. mutex' \in [Instances -> 0..MaxRuns]
      BY DEF TypeOK
    <3>2. cancelFuncs' \in [RunIds -> {"none", "scan", "del"}]
      BY DEF TypeOK
    <3>3. canceled' \subseteq ({"scan", "del"} \X RunIds)
      BY DEF TypeOK
    <3>4. scan' \in [RunIds -> ScanPcs] /\ del' \in [RunIds -> DelPcs]
      BY DEF TypeOK, ScanPcs, DelPcs
    <3> QED BY <3>1, <3>2, <3>3, <3>4 DEF TypeOK
  <2>2. OpsNameRuns'
    BY DEF TypeOK, OpsNameRuns, NothingAhead
  <2>3. NothingAhead'
    BY DEF TypeOK, OpsNameRuns, NothingAhead
  <2>4. RegisterOnce'
    BY DEF TypeOK, OpsNameRuns, NothingAhead, RegisterOnce, ScanBeforeDeletion, Early
  <2>5. ScanBeforeDeletion'
    BY DEF TypeOK, OpsNameRuns, NothingAhead, RegisterOnce, ScanBeforeDeletion, Early
  <2>6. TodoHasRows'
    BY DEF TypeOK, OpsNameRuns, ScanBeforeDeletion, TodoHasRows, Early, MutexIsDeletion
  <2>7. MutexIsDeletion'
    BY DEF TypeOK, OpsNameRuns, MutexIsDeletion, MutexOfInstance, NothingAhead
  <2>8. MutexOfInstance'
    BY DEF TypeOK, OpsNameRuns, NothingAhead, MutexIsDeletion, MutexOfInstance
  <2> QED BY <2>1, <2>2, <2>3, <2>4, <2>5, <2>6, <2>7, <2>8
<1>16. ASSUME NEW r \in RunIds, ScanExit(r) PROVE Structure'
  <2> USE <1>16 DEF ScanExit, ScanTo
  <2>1. TypeOK'
    BY DEF TypeOK, OpsNameRuns, TodoHasRows, Statuses, Open, Finished, ScanPcs, DelPcs,
       OpKinds
  <2>2. OpsNameRuns'
    BY DEF TypeOK, OpsNameRuns, NothingAhead
  <2>3. NothingAhead'
    BY DEF TypeOK, OpsNameRuns, NothingAhead
  <2>4. RegisterOnce'
    BY DEF TypeOK, OpsNameRuns, NothingAhead, RegisterOnce, ScanBeforeDeletion, Early
  <2>5. ScanBeforeDeletion'
    BY DEF TypeOK, OpsNameRuns, NothingAhead, RegisterOnce, ScanBeforeDeletion, Early
  <2>6. TodoHasRows'
    BY DEF TypeOK, OpsNameRuns, ScanBeforeDeletion, TodoHasRows, Early, MutexIsDeletion
  <2>7. MutexIsDeletion'
    BY DEF TypeOK, OpsNameRuns, MutexIsDeletion, MutexOfInstance, NothingAhead
  <2>8. MutexOfInstance'
    BY DEF TypeOK, OpsNameRuns, NothingAhead, MutexIsDeletion, MutexOfInstance
  <2> QED BY <2>1, <2>2, <2>3, <2>4, <2>5, <2>6, <2>7, <2>8
<1>17. ASSUME NEW r \in RunIds, DelStart(r) PROVE Structure'
  <2> USE <1>17 DEF DelStart, DelWrite, UpdateRunStatus, DelTo, DbFault
  <2>1. TypeOK'
    BY DEF TypeOK, Statuses, Open, Finished, DelPcs
  <2>2. OpsNameRuns'
    BY DEF TypeOK, OpsNameRuns, NothingAhead
  <2>3. NothingAhead'
    BY DEF TypeOK, OpsNameRuns, NothingAhead
  <2>4. RegisterOnce'
    BY DEF TypeOK, OpsNameRuns, NothingAhead, RegisterOnce, ScanBeforeDeletion, Early
  <2>5. ScanBeforeDeletion'
    BY DEF TypeOK, OpsNameRuns, NothingAhead, RegisterOnce, ScanBeforeDeletion, Early
  <2>6. TodoHasRows'
    BY DEF TypeOK, OpsNameRuns, ScanBeforeDeletion, TodoHasRows, Early, MutexIsDeletion
  <2>7. MutexIsDeletion'
    BY DEF TypeOK, OpsNameRuns, MutexIsDeletion, MutexOfInstance, NothingAhead
  <2>8. MutexOfInstance'
    BY DEF TypeOK, OpsNameRuns, NothingAhead, MutexIsDeletion, MutexOfInstance
  <2> QED BY <2>1, <2>2, <2>3, <2>4, <2>5, <2>6, <2>7, <2>8
<1>18. ASSUME NEW r \in RunIds, DelLoad(r) PROVE Structure'
  <2> USE <1>18 DEF DelLoad, DelTo
  <2>1. TypeOK'
    <3>1. todo' \in [RunIds -> 0..MaxFiles] /\ del' \in [RunIds -> DelPcs]
      BY DEF TypeOK, DelPcs
    <3> QED BY <3>1 DEF TypeOK
  <2>2. OpsNameRuns'
    BY DEF TypeOK, OpsNameRuns, NothingAhead
  <2>3. NothingAhead'
    BY DEF TypeOK, OpsNameRuns, NothingAhead
  <2>4. RegisterOnce'
    BY DEF TypeOK, OpsNameRuns, NothingAhead, RegisterOnce, ScanBeforeDeletion, Early
  <2>5. ScanBeforeDeletion'
    BY DEF TypeOK, OpsNameRuns, NothingAhead, RegisterOnce, ScanBeforeDeletion, Early
  <2>6. TodoHasRows'
    BY DEF TypeOK, OpsNameRuns, ScanBeforeDeletion, TodoHasRows, Early, MutexIsDeletion
  <2>7. MutexIsDeletion'
    BY DEF TypeOK, OpsNameRuns, MutexIsDeletion, MutexOfInstance, NothingAhead
  <2>8. MutexOfInstance'
    BY DEF TypeOK, OpsNameRuns, NothingAhead, MutexIsDeletion, MutexOfInstance
  <2> QED BY <2>1, <2>2, <2>3, <2>4, <2>5, <2>6, <2>7, <2>8
<1>19. ASSUME NEW r \in RunIds, DelFail(r) PROVE Structure'
  <2> USE <1>19 DEF DelFail, DelWrite, UpdateRunStatus, DelTo, DbFault
  <2>1. TypeOK'
    BY DEF TypeOK, Statuses, Open, Finished, DelPcs
  <2>2. OpsNameRuns'
    BY DEF TypeOK, OpsNameRuns, NothingAhead
  <2>3. NothingAhead'
    BY DEF TypeOK, OpsNameRuns, NothingAhead
  <2>4. RegisterOnce'
    BY DEF TypeOK, OpsNameRuns, NothingAhead, RegisterOnce, ScanBeforeDeletion, Early
  <2>5. ScanBeforeDeletion'
    BY DEF TypeOK, OpsNameRuns, NothingAhead, RegisterOnce, ScanBeforeDeletion, Early
  <2>6. TodoHasRows'
    BY DEF TypeOK, OpsNameRuns, ScanBeforeDeletion, TodoHasRows, Early, MutexIsDeletion
  <2>7. MutexIsDeletion'
    BY DEF TypeOK, OpsNameRuns, MutexIsDeletion, MutexOfInstance, NothingAhead
  <2>8. MutexOfInstance'
    BY DEF TypeOK, OpsNameRuns, NothingAhead, MutexIsDeletion, MutexOfInstance
  <2> QED BY <2>1, <2>2, <2>3, <2>4, <2>5, <2>6, <2>7, <2>8
<1>20. ASSUME NEW r \in RunIds, DelFile(r) PROVE Structure'
  <2> USE <1>20 DEF DelFile, DbFault
  <2>1. TypeOK'
    <3>1. todo[r] \in 1..MaxFiles /\ rows[r] \in 1..MaxFiles /\ erased[r] \in 0..(MaxFiles - 1)
      BY DEF TypeOK, TodoHasRows
    <3>2. todo' \in [RunIds -> 0..MaxFiles]
      BY <3>1 DEF TypeOK
    <3>3. rows' \in [RunIds -> 0..MaxFiles] /\ faults' \in 0..MaxFaults
      BY <3>1 DEF TypeOK
    <3>4. erased' \in [RunIds -> 0..MaxFiles]
      BY <3>1 DEF TypeOK
    <3>5. failed' \in [RunIds -> BOOLEAN]
      BY Zenon DEF TypeOK
    <3> QED BY <3>2, <3>3, <3>4, <3>5 DEF TypeOK
  <2>2. OpsNameRuns'
    BY DEF TypeOK, OpsNameRuns, NothingAhead
  <2>3. NothingAhead'
    BY DEF TypeOK, OpsNameRuns, NothingAhead
  <2>4. RegisterOnce'
    BY DEF TypeOK, OpsNameRuns, NothingAhead, RegisterOnce, ScanBeforeDeletion, Early
  <2>5. ScanBeforeDeletion'
    BY DEF TypeOK, OpsNameRuns, NothingAhead, RegisterOnce, ScanBeforeDeletion, Early
  <2>6. TodoHasRows'
    BY DEF TypeOK, OpsNameRuns, ScanBeforeDeletion, TodoHasRows, Early, MutexIsDeletion
  <2>7. MutexIsDeletion'
    BY DEF TypeOK, OpsNameRuns, MutexIsDeletion, MutexOfInstance, NothingAhead
  <2>8. MutexOfInstance'
    BY DEF TypeOK, OpsNameRuns, NothingAhead, MutexIsDeletion, MutexOfInstance
  <2> QED BY <2>1, <2>2, <2>3, <2>4, <2>5, <2>6, <2>7, <2>8
<1>21. ASSUME NEW r \in RunIds, DelLoopEnd(r) PROVE Structure'
  <2> USE <1>21 DEF DelLoopEnd, DelTo
  <2>1. TypeOK'
    BY DEF TypeOK, OpsNameRuns, TodoHasRows, Statuses, Open, Finished, ScanPcs, DelPcs,
       OpKinds
  <2>2. OpsNameRuns'
    BY DEF TypeOK, OpsNameRuns, NothingAhead
  <2>3. NothingAhead'
    BY DEF TypeOK, OpsNameRuns, NothingAhead
  <2>4. RegisterOnce'
    BY DEF TypeOK, OpsNameRuns, NothingAhead, RegisterOnce, ScanBeforeDeletion, Early
  <2>5. ScanBeforeDeletion'
    BY DEF TypeOK, OpsNameRuns, NothingAhead, RegisterOnce, ScanBeforeDeletion, Early
  <2>6. TodoHasRows'
    BY DEF TypeOK, OpsNameRuns, ScanBeforeDeletion, TodoHasRows, Early, MutexIsDeletion
  <2>7. MutexIsDeletion'
    BY DEF TypeOK, OpsNameRuns, MutexIsDeletion, MutexOfInstance, NothingAhead
  <2>8. MutexOfInstance'
    BY DEF TypeOK, OpsNameRuns, NothingAhead, MutexIsDeletion, MutexOfInstance
  <2> QED BY <2>1, <2>2, <2>3, <2>4, <2>5, <2>6, <2>7, <2>8
<1>22. ASSUME NEW r \in RunIds, DelFinish(r) PROVE Structure'
  <2> USE <1>22 DEF DelFinish, DelWrite, UpdateRunStatus, DelTo, DbFault
  <2>1. TypeOK'
    BY DEF TypeOK, Statuses, Open, Finished, DelPcs
  <2>2. OpsNameRuns'
    BY DEF TypeOK, OpsNameRuns, NothingAhead
  <2>3. NothingAhead'
    BY DEF TypeOK, OpsNameRuns, NothingAhead
  <2>4. RegisterOnce'
    BY DEF TypeOK, OpsNameRuns, NothingAhead, RegisterOnce, ScanBeforeDeletion, Early
  <2>5. ScanBeforeDeletion'
    BY DEF TypeOK, OpsNameRuns, NothingAhead, RegisterOnce, ScanBeforeDeletion, Early
  <2>6. TodoHasRows'
    BY DEF TypeOK, OpsNameRuns, ScanBeforeDeletion, TodoHasRows, Early, MutexIsDeletion
  <2>7. MutexIsDeletion'
    BY DEF TypeOK, OpsNameRuns, MutexIsDeletion, MutexOfInstance, NothingAhead
  <2>8. MutexOfInstance'
    BY DEF TypeOK, OpsNameRuns, NothingAhead, MutexIsDeletion, MutexOfInstance
  <2> QED BY <2>1, <2>2, <2>3, <2>4, <2>5, <2>6, <2>7, <2>8
<1>23. ASSUME NEW r \in RunIds, DelExit(r) PROVE Structure'
  <2> USE <1>23 DEF DelExit, DelTo
  <2>1. TypeOK'
    BY DEF TypeOK, OpsNameRuns, TodoHasRows, Statuses, Open, Finished, ScanPcs, DelPcs,
       OpKinds
  <2>2. OpsNameRuns'
    BY DEF TypeOK, OpsNameRuns, NothingAhead
  <2>3. NothingAhead'
    BY DEF TypeOK, OpsNameRuns, NothingAhead
  <2>4. RegisterOnce'
    BY DEF TypeOK, OpsNameRuns, NothingAhead, RegisterOnce, ScanBeforeDeletion, Early
  <2>5. ScanBeforeDeletion'
    BY DEF TypeOK, OpsNameRuns, NothingAhead, RegisterOnce, ScanBeforeDeletion, Early
  <2>6. TodoHasRows'
    BY DEF TypeOK, OpsNameRuns, ScanBeforeDeletion, TodoHasRows, Early, MutexIsDeletion
  <2>7. MutexIsDeletion'
    BY DEF TypeOK, OpsNameRuns, MutexIsDeletion, MutexOfInstance, NothingAhead
  <2>8. MutexOfInstance'
    BY DEF TypeOK, OpsNameRuns, NothingAhead, MutexIsDeletion, MutexOfInstance
  <2> QED BY <2>1, <2>2, <2>3, <2>4, <2>5, <2>6, <2>7, <2>8
<1>24. ASSUME NEW r \in RunIds, DelUnlock(r) PROVE Structure'
  <2> USE <1>24 DEF DelUnlock, DelTo
  <2>1. TypeOK'
    BY DEF TypeOK, OpsNameRuns, TodoHasRows, Statuses, Open, Finished, ScanPcs, DelPcs,
       OpKinds
  <2>2. OpsNameRuns'
    BY DEF TypeOK, OpsNameRuns, NothingAhead
  <2>3. NothingAhead'
    BY DEF TypeOK, OpsNameRuns, NothingAhead
  <2>4. RegisterOnce'
    BY DEF TypeOK, OpsNameRuns, NothingAhead, RegisterOnce, ScanBeforeDeletion, Early
  <2>5. ScanBeforeDeletion'
    BY DEF TypeOK, OpsNameRuns, NothingAhead, RegisterOnce, ScanBeforeDeletion, Early
  <2>6. TodoHasRows'
    BY DEF TypeOK, OpsNameRuns, ScanBeforeDeletion, TodoHasRows, Early, MutexIsDeletion
  <2>7. MutexIsDeletion'
    BY DEF TypeOK, OpsNameRuns, MutexIsDeletion, MutexOfInstance, NothingAhead
  <2>8. MutexOfInstance'
    BY DEF TypeOK, OpsNameRuns, NothingAhead, MutexIsDeletion, MutexOfInstance
  <2> QED BY <2>1, <2>2, <2>3, <2>4, <2>5, <2>6, <2>7, <2>8
<1>25. ASSUME RecoverDeleting PROVE Structure'
  <2> USE <1>25 DEF RecoverDeleting, DbFault
  <2>1. TypeOK'
    BY DEF TypeOK, OpsNameRuns, TodoHasRows, Statuses, Open, Finished, ScanPcs, DelPcs,
       OpKinds
  <2>2. OpsNameRuns'
    BY DEF TypeOK, OpsNameRuns, NothingAhead
  <2>3. NothingAhead'
    BY DEF TypeOK, OpsNameRuns, NothingAhead
  <2>4. RegisterOnce'
    BY DEF TypeOK, OpsNameRuns, NothingAhead, RegisterOnce, ScanBeforeDeletion, Early
  <2>5. ScanBeforeDeletion'
    BY DEF TypeOK, OpsNameRuns, NothingAhead, RegisterOnce, ScanBeforeDeletion, Early
  <2>6. TodoHasRows'
    BY DEF TypeOK, OpsNameRuns, ScanBeforeDeletion, TodoHasRows, Early, MutexIsDeletion
  <2>7. MutexIsDeletion'
    BY DEF TypeOK, OpsNameRuns, MutexIsDeletion, MutexOfInstance, NothingAhead
  <2>8. MutexOfInstance'
    BY DEF TypeOK, OpsNameRuns, NothingAhead, MutexIsDeletion, MutexOfInstance
  <2> QED BY <2>1, <2>2, <2>3, <2>4, <2>5, <2>6, <2>7, <2>8
<1>26. ASSUME RecoverStuck PROVE Structure'
  <2> USE <1>26 DEF RecoverStuck, DbFault, Stuck
  <2>1. TypeOK'
    BY DEF TypeOK, OpsNameRuns, TodoHasRows, Statuses, Open, Finished, ScanPcs, DelPcs,
       OpKinds
  <2>2. OpsNameRuns'
    BY DEF TypeOK, OpsNameRuns, NothingAhead
  <2>3. NothingAhead'
    BY DEF TypeOK, OpsNameRuns, NothingAhead
  <2>4. RegisterOnce'
    BY DEF TypeOK, OpsNameRuns, NothingAhead, RegisterOnce, ScanBeforeDeletion, Early
  <2>5. ScanBeforeDeletion'
    BY DEF TypeOK, OpsNameRuns, NothingAhead, RegisterOnce, ScanBeforeDeletion, Early
  <2>6. TodoHasRows'
    BY DEF TypeOK, OpsNameRuns, ScanBeforeDeletion, TodoHasRows, Early, MutexIsDeletion
  <2>7. MutexIsDeletion'
    BY DEF TypeOK, OpsNameRuns, MutexIsDeletion, MutexOfInstance, NothingAhead
  <2>8. MutexOfInstance'
    BY DEF TypeOK, OpsNameRuns, NothingAhead, MutexIsDeletion, MutexOfInstance
  <2> QED BY <2>1, <2>2, <2>3, <2>4, <2>5, <2>6, <2>7, <2>8
<1>27. ASSUME Crash PROVE Structure'
  <2> USE <1>27 DEF Crash, Idle
  <2>1. TypeOK'
    BY DEF TypeOK, OpsNameRuns, TodoHasRows, Statuses, Open, Finished, ScanPcs, DelPcs,
       OpKinds
  <2>2. OpsNameRuns'
    BY DEF TypeOK, OpsNameRuns, NothingAhead
  <2>3. NothingAhead'
    BY DEF TypeOK, OpsNameRuns, NothingAhead
  <2>4. RegisterOnce'
    BY DEF TypeOK, OpsNameRuns, NothingAhead, RegisterOnce, ScanBeforeDeletion, Early
  <2>5. ScanBeforeDeletion'
    BY DEF TypeOK, OpsNameRuns, NothingAhead, RegisterOnce, ScanBeforeDeletion, Early
  <2>6. TodoHasRows'
    BY DEF TypeOK, OpsNameRuns, ScanBeforeDeletion, TodoHasRows, Early, MutexIsDeletion
  <2>7. MutexIsDeletion'
    BY DEF TypeOK, OpsNameRuns, MutexIsDeletion, MutexOfInstance, NothingAhead
  <2>8. MutexOfInstance'
    BY DEF TypeOK, OpsNameRuns, NothingAhead, MutexIsDeletion, MutexOfInstance
  <2> QED BY <2>1, <2>2, <2>3, <2>4, <2>5, <2>6, <2>7, <2>8
<1>28. ASSUME UNCHANGED vars PROVE Structure'
  BY <1>28 DEF vars, TypeOK, OpsNameRuns, NothingAhead, RegisterOnce, ScanBeforeDeletion,
               TodoHasRows, MutexIsDeletion, MutexOfInstance
<1> QED
  BY <1>1, <1>2, <1>3, <1>4, <1>5, <1>6, <1>7, <1>8, <1>9, <1>10, <1>11, <1>12, <1>13,
     <1>14, <1>15, <1>16, <1>17, <1>18, <1>19, <1>20, <1>21, <1>22, <1>23, <1>24, <1>25,
     <1>26, <1>27, <1>28 DEF Next, Request, Respond, ScanStep, DelStep, Recover

\* A fresh database and process satisfy Structure.
LEMMA StructureInit == Init => Structure
BY InstancesAssumption, BoundsAssumption, RunIdFacts
   DEF Init, Structure, TypeOK, OpsNameRuns, NothingAhead, RegisterOnce, ScanBeforeDeletion,
       TodoHasRows, MutexIsDeletion, MutexOfInstance, Statuses, Idle, ScanPcs, DelPcs,
       OpKinds, Early

-----------------------------------------------------------------------------
\* Every step keeps cancelFuncs free of entries whose goroutine is gone.
LEMMA RegisteredNext == Structure /\ RegisteredIsAlive /\ [Next]_vars => RegisteredIsAlive'
<1> SUFFICES ASSUME Structure /\ RegisteredIsAlive, [Next]_vars PROVE RegisteredIsAlive'
  OBVIOUS
<1> USE BoundsAssumption, RunIdFacts DEF Structure, others, loop, db
<1>1. ASSUME NEW t \in Threads, NEW i \in Instances, TriggerCreate(t, i) PROVE RegisteredIsAlive'
  BY <1>1 DEF TriggerCreate, UpdateRunStatus, Active, Idle, RegisteredIsAlive, TypeOK,
     OpsNameRuns
<1>2. ASSUME NEW t \in Threads, TriggerRegister(t) PROVE RegisteredIsAlive'
  BY <1>2 DEF TriggerRegister, ScanTo, Idle, RegisteredIsAlive, TypeOK, OpsNameRuns
<1>3. ASSUME NEW t \in Threads, CancelCall(t) PROVE RegisteredIsAlive'
  BY <1>3 DEF CancelCall, RegisteredIsAlive, TypeOK, OpsNameRuns
<1>4. ASSUME NEW t \in Threads, CancelCheck(t) PROVE RegisteredIsAlive'
  BY <1>4 DEF CancelCheck, Idle, RegisteredIsAlive, TypeOK, OpsNameRuns
<1>5. ASSUME NEW t \in Threads, CancelWrite(t) PROVE RegisteredIsAlive'
  BY <1>5 DEF CancelWrite, UpdateRunStatus, DbFault, Idle, RegisteredIsAlive, TypeOK,
     OpsNameRuns
<1>6. ASSUME NEW t \in Threads, ConfirmLock(t) PROVE RegisteredIsAlive'
  BY <1>6 DEF ConfirmLock, StartDeletion, DelTo, Idle, RegisteredIsAlive, TypeOK,
     OpsNameRuns
<1>7. ASSUME NEW t \in Threads, NEW r \in RunIds, CancelRead(t, r) PROVE RegisteredIsAlive'
  BY <1>7 DEF CancelRead, Idle, Open, RegisteredIsAlive, TypeOK, OpsNameRuns
<1>8. ASSUME NEW t \in Threads, NEW r \in RunIds, ConfirmRead(t, r) PROVE RegisteredIsAlive'
  BY <1>8 DEF ConfirmRead, Idle, RegisteredIsAlive, TypeOK, OpsNameRuns
<1>9. ASSUME NEW r \in RunIds, ScanStart(r) PROVE RegisteredIsAlive'
  BY <1>9 DEF ScanStart, ScanWrite, UpdateRunStatus, ScanTo, DbFault, RegisteredIsAlive,
     TypeOK, OpsNameRuns
<1>10. ASSUME NEW r \in RunIds, ScanWalk(r) PROVE RegisteredIsAlive'
  BY <1>10 DEF ScanWalk, ScanTo, RegisteredIsAlive, TypeOK, OpsNameRuns
<1>11. ASSUME NEW r \in RunIds, ScanFail(r) PROVE RegisteredIsAlive'
  BY <1>11 DEF ScanFail, ScanWrite, UpdateRunStatus, ScanTo, DbFault, RegisteredIsAlive,
     TypeOK, OpsNameRuns
<1>12. ASSUME NEW r \in RunIds, ScanFound(r) PROVE RegisteredIsAlive'
  BY <1>12 DEF ScanFound, ScanTo, DbFault, RegisteredIsAlive, TypeOK, OpsNameRuns
<1>13. ASSUME NEW r \in RunIds, ScanFinish(r) PROVE RegisteredIsAlive'
  BY <1>13 DEF ScanFinish, ScanWrite, UpdateRunStatus, ScanTo, DbFault,
     RegisteredIsAlive, TypeOK, OpsNameRuns
<1>14. ASSUME NEW r \in RunIds, MaybeAutoCleanup(r) PROVE RegisteredIsAlive'
  BY <1>14 DEF MaybeAutoCleanup, ScanTo, RegisteredIsAlive, TypeOK, OpsNameRuns
<1>15. ASSUME NEW r \in RunIds, AutoLock(r) PROVE RegisteredIsAlive'
  BY <1>15 DEF AutoLock, StartDeletion, DelTo, ScanTo, RegisteredIsAlive, TypeOK,
     OpsNameRuns
<1>16. ASSUME NEW r \in RunIds, ScanExit(r) PROVE RegisteredIsAlive'
  BY <1>16 DEF ScanExit, ScanTo, RegisteredIsAlive, TypeOK, OpsNameRuns
<1>17. ASSUME NEW r \in RunIds, DelStart(r) PROVE RegisteredIsAlive'
  BY <1>17 DEF DelStart, DelWrite, UpdateRunStatus, DelTo, DbFault, RegisteredIsAlive,
     TypeOK, OpsNameRuns
<1>18. ASSUME NEW r \in RunIds, DelLoad(r) PROVE RegisteredIsAlive'
  BY <1>18 DEF DelLoad, DelTo, RegisteredIsAlive, TypeOK, OpsNameRuns
<1>19. ASSUME NEW r \in RunIds, DelFail(r) PROVE RegisteredIsAlive'
  BY <1>19 DEF DelFail, DelWrite, UpdateRunStatus, DelTo, DbFault, RegisteredIsAlive,
     TypeOK, OpsNameRuns
<1>20. ASSUME NEW r \in RunIds, DelFile(r) PROVE RegisteredIsAlive'
  BY <1>20 DEF DelFile, DbFault, RegisteredIsAlive, TypeOK, OpsNameRuns
<1>21. ASSUME NEW r \in RunIds, DelLoopEnd(r) PROVE RegisteredIsAlive'
  BY <1>21 DEF DelLoopEnd, DelTo, RegisteredIsAlive, TypeOK, OpsNameRuns
<1>22. ASSUME NEW r \in RunIds, DelFinish(r) PROVE RegisteredIsAlive'
  BY <1>22 DEF DelFinish, DelWrite, UpdateRunStatus, DelTo, DbFault, RegisteredIsAlive,
     TypeOK, OpsNameRuns
<1>23. ASSUME NEW r \in RunIds, DelExit(r) PROVE RegisteredIsAlive'
  BY <1>23 DEF DelExit, DelTo, RegisteredIsAlive, TypeOK, OpsNameRuns
<1>24. ASSUME NEW r \in RunIds, DelUnlock(r) PROVE RegisteredIsAlive'
  BY <1>24 DEF DelUnlock, DelTo, RegisteredIsAlive, TypeOK, OpsNameRuns
<1>25. ASSUME RecoverDeleting PROVE RegisteredIsAlive'
  BY <1>25 DEF RecoverDeleting, DbFault, RegisteredIsAlive, TypeOK, OpsNameRuns
<1>26. ASSUME RecoverStuck PROVE RegisteredIsAlive'
  BY <1>26 DEF RecoverStuck, DbFault, Stuck, RegisteredIsAlive, TypeOK, OpsNameRuns
<1>27. ASSUME Crash PROVE RegisteredIsAlive'
  BY <1>27 DEF Crash, Idle, RegisteredIsAlive, TypeOK, OpsNameRuns
<1>28. ASSUME UNCHANGED vars PROVE RegisteredIsAlive'
  BY <1>28 DEF vars, RegisteredIsAlive, TypeOK, OpsNameRuns
<1> QED
  BY <1>1, <1>2, <1>3, <1>4, <1>5, <1>6, <1>7, <1>8, <1>9, <1>10, <1>11, <1>12, <1>13,
     <1>14, <1>15, <1>16, <1>17, <1>18, <1>19, <1>20, <1>21, <1>22, <1>23, <1>24, <1>25,
     <1>26, <1>27, <1>28
     DEF Next, Request, Respond, ScanStep, DelStep, Recover

\* Every step keeps deletions to confirmed runs and small scheduled ones.
LEMMA AuthorizedNext == Structure /\ AutoChecked /\ DeletionAuthorized /\ [Next]_vars => (AutoChecked /\ DeletionAuthorized)'
<1> SUFFICES ASSUME Structure /\ AutoChecked /\ DeletionAuthorized, [Next]_vars PROVE (AutoChecked /\ DeletionAuthorized)'
  OBVIOUS
<1> USE BoundsAssumption, RunIdFacts DEF Structure, others, loop, db
<1>1. ASSUME NEW t \in Threads, NEW i \in Instances, TriggerCreate(t, i) PROVE (AutoChecked /\ DeletionAuthorized)'
  BY <1>1 DEF TriggerCreate, UpdateRunStatus, Active, Idle, AutoChecked,
     DeletionAuthorized, TypeOK, OpsNameRuns, NothingAhead, ScanBeforeDeletion, Early
<1>2. ASSUME NEW t \in Threads, TriggerRegister(t) PROVE (AutoChecked /\ DeletionAuthorized)'
  BY <1>2 DEF TriggerRegister, ScanTo, Idle, AutoChecked, DeletionAuthorized, TypeOK,
     OpsNameRuns, NothingAhead, ScanBeforeDeletion, Early
<1>3. ASSUME NEW t \in Threads, CancelCall(t) PROVE (AutoChecked /\ DeletionAuthorized)'
  BY <1>3 DEF CancelCall, AutoChecked, DeletionAuthorized, TypeOK, OpsNameRuns,
     NothingAhead, ScanBeforeDeletion, Early
<1>4. ASSUME NEW t \in Threads, CancelCheck(t) PROVE (AutoChecked /\ DeletionAuthorized)'
  BY <1>4 DEF CancelCheck, Idle, AutoChecked, DeletionAuthorized, TypeOK, OpsNameRuns,
     NothingAhead, ScanBeforeDeletion, Early
<1>5. ASSUME NEW t \in Threads, CancelWrite(t) PROVE (AutoChecked /\ DeletionAuthorized)'
  BY <1>5 DEF CancelWrite, UpdateRunStatus, DbFault, Idle, AutoChecked,
     DeletionAuthorized, TypeOK, OpsNameRuns, NothingAhead, ScanBeforeDeletion, Early
<1>6. ASSUME NEW t \in Threads, ConfirmLock(t) PROVE (AutoChecked /\ DeletionAuthorized)'
  BY <1>6 DEF ConfirmLock, StartDeletion, DelTo, Idle, AutoChecked, DeletionAuthorized,
     TypeOK, OpsNameRuns, NothingAhead, ScanBeforeDeletion, Early
<1>7. ASSUME NEW t \in Threads, NEW r \in RunIds, CancelRead(t, r) PROVE (AutoChecked /\ DeletionAuthorized)'
  BY <1>7 DEF CancelRead, Idle, Open, AutoChecked, DeletionAuthorized, TypeOK,
     OpsNameRuns, NothingAhead, ScanBeforeDeletion, Early
<1>8. ASSUME NEW t \in Threads, NEW r \in RunIds, ConfirmRead(t, r) PROVE (AutoChecked /\ DeletionAuthorized)'
  BY <1>8 DEF ConfirmRead, Idle, AutoChecked, DeletionAuthorized, TypeOK, OpsNameRuns,
     NothingAhead, ScanBeforeDeletion, Early
<1>9. ASSUME NEW r \in RunIds, ScanStart(r) PROVE (AutoChecked /\ DeletionAuthorized)'
  BY <1>9 DEF ScanStart, ScanWrite, UpdateRunStatus, ScanTo, DbFault, AutoChecked,
     DeletionAuthorized, TypeOK, OpsNameRuns, NothingAhead, ScanBeforeDeletion, Early
<1>10. ASSUME NEW r \in RunIds, ScanWalk(r) PROVE (AutoChecked /\ DeletionAuthorized)'
  BY <1>10 DEF ScanWalk, ScanTo, AutoChecked, DeletionAuthorized, TypeOK, OpsNameRuns,
     NothingAhead, ScanBeforeDeletion, Early
<1>11. ASSUME NEW r \in RunIds, ScanFail(r) PROVE (AutoChecked /\ DeletionAuthorized)'
  BY <1>11 DEF ScanFail, ScanWrite, UpdateRunStatus, ScanTo, DbFault, AutoChecked,
     DeletionAuthorized, TypeOK, OpsNameRuns, NothingAhead, ScanBeforeDeletion, Early
<1>12. ASSUME NEW r \in RunIds, ScanFound(r) PROVE (AutoChecked /\ DeletionAuthorized)'
  BY <1>12 DEF ScanFound, ScanTo, DbFault, AutoChecked, DeletionAuthorized, TypeOK,
     OpsNameRuns, NothingAhead, ScanBeforeDeletion, Early
<1>13. ASSUME NEW r \in RunIds, ScanFinish(r) PROVE (AutoChecked /\ DeletionAuthorized)'
  BY <1>13 DEF ScanFinish, ScanWrite, UpdateRunStatus, ScanTo, DbFault, AutoChecked,
     DeletionAuthorized, TypeOK, OpsNameRuns, NothingAhead, ScanBeforeDeletion, Early
<1>14. ASSUME NEW r \in RunIds, MaybeAutoCleanup(r) PROVE (AutoChecked /\ DeletionAuthorized)'
  BY <1>14 DEF MaybeAutoCleanup, ScanTo, AutoChecked, DeletionAuthorized, TypeOK,
     OpsNameRuns, NothingAhead, ScanBeforeDeletion, Early
<1>15. ASSUME NEW r \in RunIds, AutoLock(r) PROVE (AutoChecked /\ DeletionAuthorized)'
  BY <1>15 DEF AutoLock, StartDeletion, DelTo, ScanTo, AutoChecked, DeletionAuthorized,
     TypeOK, OpsNameRuns, NothingAhead, ScanBeforeDeletion, Early
<1>16. ASSUME NEW r \in RunIds, ScanExit(r) PROVE (AutoChecked /\ DeletionAuthorized)'
  BY <1>16 DEF ScanExit, ScanTo, AutoChecked, DeletionAuthorized, TypeOK, OpsNameRuns,
     NothingAhead, ScanBeforeDeletion, Early
<1>17. ASSUME NEW r \in RunIds, DelStart(r) PROVE (AutoChecked /\ DeletionAuthorized)'
  BY <1>17 DEF DelStart, DelWrite, UpdateRunStatus, DelTo, DbFault, AutoChecked,
     DeletionAuthorized, TypeOK, OpsNameRuns, NothingAhead, ScanBeforeDeletion, Early
<1>18. ASSUME NEW r \in RunIds, DelLoad(r) PROVE (AutoChecked /\ DeletionAuthorized)'
  BY <1>18 DEF DelLoad, DelTo, AutoChecked, DeletionAuthorized, TypeOK, OpsNameRuns,
     NothingAhead, ScanBeforeDeletion, Early
<1>19. ASSUME NEW r \in RunIds, DelFail(r) PROVE (AutoChecked /\ DeletionAuthorized)'
  BY <1>19 DEF DelFail, DelWrite, UpdateRunStatus, DelTo, DbFault, AutoChecked,
     DeletionAuthorized, TypeOK, OpsNameRuns, NothingAhead, ScanBeforeDeletion, Early
<1>20. ASSUME NEW r \in RunIds, DelFile(r) PROVE (AutoChecked /\ DeletionAuthorized)'
  BY <1>20 DEF DelFile, DbFault, AutoChecked, DeletionAuthorized, TypeOK, OpsNameRuns,
     NothingAhead, ScanBeforeDeletion, Early
<1>21. ASSUME NEW r \in RunIds, DelLoopEnd(r) PROVE (AutoChecked /\ DeletionAuthorized)'
  BY <1>21 DEF DelLoopEnd, DelTo, AutoChecked, DeletionAuthorized, TypeOK, OpsNameRuns,
     NothingAhead, ScanBeforeDeletion, Early
<1>22. ASSUME NEW r \in RunIds, DelFinish(r) PROVE (AutoChecked /\ DeletionAuthorized)'
  BY <1>22 DEF DelFinish, DelWrite, UpdateRunStatus, DelTo, DbFault, AutoChecked,
     DeletionAuthorized, TypeOK, OpsNameRuns, NothingAhead, ScanBeforeDeletion, Early
<1>23. ASSUME NEW r \in RunIds, DelExit(r) PROVE (AutoChecked /\ DeletionAuthorized)'
  BY <1>23 DEF DelExit, DelTo, AutoChecked, DeletionAuthorized, TypeOK, OpsNameRuns,
     NothingAhead, ScanBeforeDeletion, Early
<1>24. ASSUME NEW r \in RunIds, DelUnlock(r) PROVE (AutoChecked /\ DeletionAuthorized)'
  BY <1>24 DEF DelUnlock, DelTo, AutoChecked, DeletionAuthorized, TypeOK, OpsNameRuns,
     NothingAhead, ScanBeforeDeletion, Early
<1>25. ASSUME RecoverDeleting PROVE (AutoChecked /\ DeletionAuthorized)'
  BY <1>25 DEF RecoverDeleting, DbFault, AutoChecked, DeletionAuthorized, TypeOK,
     OpsNameRuns, NothingAhead, ScanBeforeDeletion, Early
<1>26. ASSUME RecoverStuck PROVE (AutoChecked /\ DeletionAuthorized)'
  BY <1>26 DEF RecoverStuck, DbFault, Stuck, AutoChecked, DeletionAuthorized, TypeOK,
     OpsNameRuns, NothingAhead, ScanBeforeDeletion, Early
<1>27. ASSUME Crash PROVE (AutoChecked /\ DeletionAuthorized)'
  BY <1>27 DEF Crash, Idle, AutoChecked, DeletionAuthorized, TypeOK, OpsNameRuns,
     NothingAhead, ScanBeforeDeletion, Early
<1>28. ASSUME UNCHANGED vars PROVE (AutoChecked /\ DeletionAuthorized)'
  BY <1>28 DEF vars, AutoChecked, DeletionAuthorized, TypeOK, OpsNameRuns, NothingAhead,
     ScanBeforeDeletion, Early
<1> QED
  BY <1>1, <1>2, <1>3, <1>4, <1>5, <1>6, <1>7, <1>8, <1>9, <1>10, <1>11, <1>12, <1>13,
     <1>14, <1>15, <1>16, <1>17, <1>18, <1>19, <1>20, <1>21, <1>22, <1>23, <1>24, <1>25,
     <1>26, <1>27, <1>28
     DEF Next, Request, Respond, ScanStep, DelStep, Recover

\* Every step keeps the status of a never-finished run in line with the work on it.
LEMMA StatusNext == Structure /\ StatusFollowsWork /\ [Next]_vars => StatusFollowsWork'
<1> SUFFICES ASSUME Structure /\ StatusFollowsWork, [Next]_vars PROVE StatusFollowsWork'
  OBVIOUS
<1> USE BoundsAssumption, RunIdFacts DEF Structure, others, loop, db
<1>1. ASSUME NEW t \in Threads, NEW i \in Instances, TriggerCreate(t, i) PROVE StatusFollowsWork'
  BY <1>1 DEF TriggerCreate, UpdateRunStatus, Active, Idle, StatusFollowsWork, TypeOK,
     OpsNameRuns, NothingAhead, RegisterOnce, ScanBeforeDeletion, Early, Finished
<1>2. ASSUME NEW t \in Threads, TriggerRegister(t) PROVE StatusFollowsWork'
  BY <1>2 DEF TriggerRegister, ScanTo, Idle, StatusFollowsWork, TypeOK, OpsNameRuns,
     NothingAhead, RegisterOnce, ScanBeforeDeletion, Early, Finished
<1>3. ASSUME NEW t \in Threads, CancelCall(t) PROVE StatusFollowsWork'
  BY <1>3 DEF CancelCall, StatusFollowsWork, TypeOK, OpsNameRuns, NothingAhead,
     RegisterOnce, ScanBeforeDeletion, Early, Finished
<1>4. ASSUME NEW t \in Threads, CancelCheck(t) PROVE StatusFollowsWork'
  BY <1>4 DEF CancelCheck, Idle, StatusFollowsWork, TypeOK, OpsNameRuns, NothingAhead,
     RegisterOnce, ScanBeforeDeletion, Early, Finished
<1>5. ASSUME NEW t \in Threads, CancelWrite(t) PROVE StatusFollowsWork'
  BY <1>5 DEF CancelWrite, UpdateRunStatus, DbFault, Idle, StatusFollowsWork, TypeOK,
     OpsNameRuns, NothingAhead, RegisterOnce, ScanBeforeDeletion, Early, Finished
<1>6. ASSUME NEW t \in Threads, ConfirmLock(t) PROVE StatusFollowsWork'
  BY <1>6 DEF ConfirmLock, StartDeletion, DelTo, Idle, StatusFollowsWork, TypeOK,
     OpsNameRuns, NothingAhead, RegisterOnce, ScanBeforeDeletion, Early, Finished
<1>7. ASSUME NEW t \in Threads, NEW r \in RunIds, CancelRead(t, r) PROVE StatusFollowsWork'
  BY <1>7 DEF CancelRead, Idle, Open, StatusFollowsWork, TypeOK, OpsNameRuns,
     NothingAhead, RegisterOnce, ScanBeforeDeletion, Early, Finished
<1>8. ASSUME NEW t \in Threads, NEW r \in RunIds, ConfirmRead(t, r) PROVE StatusFollowsWork'
  BY <1>8 DEF ConfirmRead, Idle, StatusFollowsWork, TypeOK, OpsNameRuns, NothingAhead,
     RegisterOnce, ScanBeforeDeletion, Early, Finished
<1>9. ASSUME NEW r \in RunIds, ScanStart(r) PROVE StatusFollowsWork'
  BY <1>9 DEF ScanStart, ScanWrite, UpdateRunStatus, ScanTo, DbFault, StatusFollowsWork,
     TypeOK, OpsNameRuns, NothingAhead, RegisterOnce, ScanBeforeDeletion, Early,
     Finished
<1>10. ASSUME NEW r \in RunIds, ScanWalk(r) PROVE StatusFollowsWork'
  BY <1>10 DEF ScanWalk, ScanTo, StatusFollowsWork, TypeOK, OpsNameRuns, NothingAhead,
     RegisterOnce, ScanBeforeDeletion, Early, Finished
<1>11. ASSUME NEW r \in RunIds, ScanFail(r) PROVE StatusFollowsWork'
  BY <1>11 DEF ScanFail, ScanWrite, UpdateRunStatus, ScanTo, DbFault, StatusFollowsWork,
     TypeOK, OpsNameRuns, NothingAhead, RegisterOnce, ScanBeforeDeletion, Early,
     Finished
<1>12. ASSUME NEW r \in RunIds, ScanFound(r) PROVE StatusFollowsWork'
  BY <1>12 DEF ScanFound, ScanTo, DbFault, StatusFollowsWork, TypeOK, OpsNameRuns,
     NothingAhead, RegisterOnce, ScanBeforeDeletion, Early, Finished
<1>13. ASSUME NEW r \in RunIds, ScanFinish(r) PROVE StatusFollowsWork'
  BY <1>13 DEF ScanFinish, ScanWrite, UpdateRunStatus, ScanTo, DbFault,
     StatusFollowsWork, TypeOK, OpsNameRuns, NothingAhead, RegisterOnce,
     ScanBeforeDeletion, Early, Finished
<1>14. ASSUME NEW r \in RunIds, MaybeAutoCleanup(r) PROVE StatusFollowsWork'
  BY <1>14 DEF MaybeAutoCleanup, ScanTo, StatusFollowsWork, TypeOK, OpsNameRuns,
     NothingAhead, RegisterOnce, ScanBeforeDeletion, Early, Finished
<1>15. ASSUME NEW r \in RunIds, AutoLock(r) PROVE StatusFollowsWork'
  BY <1>15 DEF AutoLock, StartDeletion, DelTo, ScanTo, StatusFollowsWork, TypeOK,
     OpsNameRuns, NothingAhead, RegisterOnce, ScanBeforeDeletion, Early, Finished
<1>16. ASSUME NEW r \in RunIds, ScanExit(r) PROVE StatusFollowsWork'
  BY <1>16 DEF ScanExit, ScanTo, StatusFollowsWork, TypeOK, OpsNameRuns, NothingAhead,
     RegisterOnce, ScanBeforeDeletion, Early, Finished
<1>17. ASSUME NEW r \in RunIds, DelStart(r) PROVE StatusFollowsWork'
  BY <1>17 DEF DelStart, DelWrite, UpdateRunStatus, DelTo, DbFault, StatusFollowsWork,
     TypeOK, OpsNameRuns, NothingAhead, RegisterOnce, ScanBeforeDeletion, Early,
     Finished
<1>18. ASSUME NEW r \in RunIds, DelLoad(r) PROVE StatusFollowsWork'
  BY <1>18 DEF DelLoad, DelTo, StatusFollowsWork, TypeOK, OpsNameRuns, NothingAhead,
     RegisterOnce, ScanBeforeDeletion, Early, Finished
<1>19. ASSUME NEW r \in RunIds, DelFail(r) PROVE StatusFollowsWork'
  BY <1>19 DEF DelFail, DelWrite, UpdateRunStatus, DelTo, DbFault, StatusFollowsWork,
     TypeOK, OpsNameRuns, NothingAhead, RegisterOnce, ScanBeforeDeletion, Early,
     Finished
<1>20. ASSUME NEW r \in RunIds, DelFile(r) PROVE StatusFollowsWork'
  BY <1>20 DEF DelFile, DbFault, StatusFollowsWork, TypeOK, OpsNameRuns, NothingAhead,
     RegisterOnce, ScanBeforeDeletion, Early, Finished
<1>21. ASSUME NEW r \in RunIds, DelLoopEnd(r) PROVE StatusFollowsWork'
  BY <1>21 DEF DelLoopEnd, DelTo, StatusFollowsWork, TypeOK, OpsNameRuns, NothingAhead,
     RegisterOnce, ScanBeforeDeletion, Early, Finished
<1>22. ASSUME NEW r \in RunIds, DelFinish(r) PROVE StatusFollowsWork'
  BY <1>22 DEF DelFinish, DelWrite, UpdateRunStatus, DelTo, DbFault, StatusFollowsWork,
     TypeOK, OpsNameRuns, NothingAhead, RegisterOnce, ScanBeforeDeletion, Early,
     Finished
<1>23. ASSUME NEW r \in RunIds, DelExit(r) PROVE StatusFollowsWork'
  BY <1>23 DEF DelExit, DelTo, StatusFollowsWork, TypeOK, OpsNameRuns, NothingAhead,
     RegisterOnce, ScanBeforeDeletion, Early, Finished
<1>24. ASSUME NEW r \in RunIds, DelUnlock(r) PROVE StatusFollowsWork'
  BY <1>24 DEF DelUnlock, DelTo, StatusFollowsWork, TypeOK, OpsNameRuns, NothingAhead,
     RegisterOnce, ScanBeforeDeletion, Early, Finished
<1>25. ASSUME RecoverDeleting PROVE StatusFollowsWork'
  BY <1>25 DEF RecoverDeleting, DbFault, StatusFollowsWork, TypeOK, OpsNameRuns,
     NothingAhead, RegisterOnce, ScanBeforeDeletion, Early, Finished
<1>26. ASSUME RecoverStuck PROVE StatusFollowsWork'
  BY <1>26 DEF RecoverStuck, DbFault, Stuck, StatusFollowsWork, TypeOK, OpsNameRuns,
     NothingAhead, RegisterOnce, ScanBeforeDeletion, Early, Finished
<1>27. ASSUME Crash PROVE StatusFollowsWork'
  BY <1>27 DEF Crash, Idle, StatusFollowsWork, TypeOK, OpsNameRuns, NothingAhead,
     RegisterOnce, ScanBeforeDeletion, Early, Finished
<1>28. ASSUME UNCHANGED vars PROVE StatusFollowsWork'
  BY <1>28 DEF vars, StatusFollowsWork, TypeOK, OpsNameRuns, NothingAhead, RegisterOnce,
     ScanBeforeDeletion, Early, Finished
<1> QED
  BY <1>1, <1>2, <1>3, <1>4, <1>5, <1>6, <1>7, <1>8, <1>9, <1>10, <1>11, <1>12, <1>13,
     <1>14, <1>15, <1>16, <1>17, <1>18, <1>19, <1>20, <1>21, <1>22, <1>23, <1>24, <1>25,
     <1>26, <1>27, <1>28
     DEF Next, Request, Respond, ScanStep, DelStep, Recover

\* Every step keeps the count of a preview stored unless a statement failed.
LEMMA CountsNext == Structure /\ StatusFollowsWork /\ CountsStored /\ [Next]_vars => CountsStored'
<1> SUFFICES ASSUME Structure, StatusFollowsWork, CountsStored, [Next]_vars,
                    NEW q \in RunIds
             PROVE  CountStored(q)'
  BY DEF CountsStored
<1>a. TypeOK /\ NothingAhead /\ CountStored(q)
  BY DEF Structure, CountsStored
<1>b. q \notin ended =>
        /\ status[q] \notin Finished
        /\ scan[q] = "start" => status[q] = "pending"
        /\ scan[q] \in {"walk", "fail", "found", "finish"} => status[q] = "scanning"
        /\ scan[q] \in {"auto", "autoLock"} \/ del[q] # "none" =>
             status[q] \in {"preview_ready", "deleting"}
  BY DEF StatusFollowsWork
<1> USE <1>a, <1>b, BoundsAssumption, RunIdFacts
        DEF others, loop, db, TypeOK, CountStored, Live, Finished
<1>1. ASSUME NEW t \in Threads, NEW i \in Instances, TriggerCreate(t, i) PROVE CountStored(q)'
  BY <1>1 DEF TriggerCreate, UpdateRunStatus, Active, Idle, NothingAhead
<1>2. ASSUME NEW t \in Threads, TriggerRegister(t) PROVE CountStored(q)'
  BY <1>2 DEF TriggerRegister, ScanTo, Idle
<1>3. ASSUME NEW t \in Threads, CancelCall(t) PROVE CountStored(q)'
  BY <1>3 DEF CancelCall
<1>4. ASSUME NEW t \in Threads, CancelCheck(t) PROVE CountStored(q)'
  BY <1>4 DEF CancelCheck, Idle
<1>5. ASSUME NEW t \in Threads, CancelWrite(t) PROVE CountStored(q)'
  BY <1>5 DEF CancelWrite, UpdateRunStatus, DbFault, Idle
<1>6. ASSUME NEW t \in Threads, ConfirmLock(t) PROVE CountStored(q)'
  BY <1>6 DEF ConfirmLock, StartDeletion, DelTo, Idle
<1>7. ASSUME NEW t \in Threads, NEW r \in RunIds, CancelRead(t, r) PROVE CountStored(q)'
  BY <1>7 DEF CancelRead, Idle, Open
<1>8. ASSUME NEW t \in Threads, NEW r \in RunIds, ConfirmRead(t, r) PROVE CountStored(q)'
  BY <1>8 DEF ConfirmRead, Idle
<1>9. ASSUME NEW r \in RunIds, ScanStart(r) PROVE CountStored(q)'
  BY <1>9 DEF ScanStart, ScanWrite, UpdateRunStatus, ScanTo, DbFault
<1>10. ASSUME NEW r \in RunIds, ScanWalk(r) PROVE CountStored(q)'
  BY <1>10 DEF ScanWalk, ScanTo
<1>11. ASSUME NEW r \in RunIds, ScanFail(r) PROVE CountStored(q)'
  BY <1>11 DEF ScanFail, ScanWrite, UpdateRunStatus, ScanTo, DbFault
<1>12. ASSUME NEW r \in RunIds, ScanFound(r) PROVE CountStored(q)'
  <2>1. /\ scan' = [scan EXCEPT ![r] = "finish"]
        /\ UNCHANGED <<status, ended, canceled, size>>
        /\ \A s \in RunIds \ {r} : found'[s] = found[s]
        /\ faults' >= faults /\ faults \in Nat /\ faults' \in Nat
    BY <1>12 DEF ScanFound, ScanTo, DbFault
  <2>2. Live("scan", r) => found'[r] = size[r] \/ faults' > 0
    BY <1>12 DEF ScanFound, DbFault
  <2>3. scan[r] = "found"
    BY <1>12 DEF ScanFound
  <2>4. CASE q = r
    BY <2>1, <2>2, <2>3, <2>4
  <2>5. CASE q # r
    BY <2>1, <2>2, <2>5
  <2> QED
    BY <2>4, <2>5
<1>13. ASSUME NEW r \in RunIds, ScanFinish(r) PROVE CountStored(q)'
  <2>1. /\ UNCHANGED <<found, size, canceled>>
        /\ faults' >= faults /\ faults \in Nat /\ faults' \in Nat
        /\ scan[r] = "finish" /\ \A s \in RunIds \ {r} : scan'[s] = scan[s]
        /\ scan'[r] # "finish"
    BY <1>13 DEF ScanFinish, ScanWrite, UpdateRunStatus, ScanTo, DbFault
  <2>2. \/ UNCHANGED <<status, ended>>
        \/ size[r] = 0 /\ status' = [status EXCEPT ![r] = "completed"] /\ ended' = ended \cup {r}
        \/ /\ size[r] # 0 /\ Live("scan", r)
           /\ status' = [status EXCEPT ![r] = "preview_ready"] /\ ended' = ended
    BY <1>13 DEF ScanFinish, ScanWrite, UpdateRunStatus
  <2>3. size[r] \in Nat
    OBVIOUS
  <2>4. CASE q = r
    BY <2>1, <2>2, <2>3, <2>4
  <2>5. CASE q # r
    BY <2>1, <2>2, <2>5
  <2> QED
    BY <2>4, <2>5
<1>14. ASSUME NEW r \in RunIds, MaybeAutoCleanup(r) PROVE CountStored(q)'
  BY <1>14 DEF MaybeAutoCleanup, ScanTo
<1>15. ASSUME NEW r \in RunIds, AutoLock(r) PROVE CountStored(q)'
  BY <1>15 DEF AutoLock, StartDeletion, DelTo, ScanTo
<1>16. ASSUME NEW r \in RunIds, ScanExit(r) PROVE CountStored(q)'
  BY <1>16 DEF ScanExit, ScanTo
<1>17. ASSUME NEW r \in RunIds, DelStart(r) PROVE CountStored(q)'
  BY <1>17 DEF DelStart, DelWrite, UpdateRunStatus, DelTo, DbFault
<1>18. ASSUME NEW r \in RunIds, DelLoad(r) PROVE CountStored(q)'
  BY <1>18 DEF DelLoad, DelTo
<1>19. ASSUME NEW r \in RunIds, DelFail(r) PROVE CountStored(q)'
  BY <1>19 DEF DelFail, DelWrite, UpdateRunStatus, DelTo, DbFault
<1>20. ASSUME NEW r \in RunIds, DelFile(r) PROVE CountStored(q)'
  BY <1>20 DEF DelFile, DbFault
<1>21. ASSUME NEW r \in RunIds, DelLoopEnd(r) PROVE CountStored(q)'
  BY <1>21 DEF DelLoopEnd, DelTo
<1>22. ASSUME NEW r \in RunIds, DelFinish(r) PROVE CountStored(q)'
  BY <1>22 DEF DelFinish, DelWrite, UpdateRunStatus, DelTo, DbFault
<1>23. ASSUME NEW r \in RunIds, DelExit(r) PROVE CountStored(q)'
  BY <1>23 DEF DelExit, DelTo
<1>24. ASSUME NEW r \in RunIds, DelUnlock(r) PROVE CountStored(q)'
  BY <1>24 DEF DelUnlock, DelTo
<1>25. ASSUME RecoverDeleting PROVE CountStored(q)'
  BY <1>25 DEF RecoverDeleting, DbFault
<1>26. ASSUME RecoverStuck PROVE CountStored(q)'
  BY <1>26 DEF RecoverStuck, DbFault, Stuck
<1>27. ASSUME Crash PROVE CountStored(q)'
  BY <1>27 DEF Crash, Idle
<1>28. ASSUME UNCHANGED vars PROVE CountStored(q)'
  BY <1>28 DEF vars, CountsStored, Live, StatusFollowsWork, TypeOK, OpsNameRuns,
     NothingAhead, RegisterOnce, ScanBeforeDeletion, Early, Finished
<1> QED
  BY <1>1, <1>2, <1>3, <1>4, <1>5, <1>6, <1>7, <1>8, <1>9, <1>10, <1>11, <1>12, <1>13,
     <1>14, <1>15, <1>16, <1>17, <1>18, <1>19, <1>20, <1>21, <1>22, <1>23, <1>24, <1>25,
     <1>26, <1>27, <1>28
     DEF Next, Request, Respond, ScanStep, DelStep, Recover

\* Every step keeps at most one never-finished run of an instance, apart from
\* previews whose count was lost.
LEMMA OneRunNext ==
  Structure /\ StatusFollowsWork /\ CountsStored /\ OneRunAtATime /\ [Next]_vars => OneRunAtATime'
<1> SUFFICES ASSUME Structure, StatusFollowsWork, CountsStored, OneRunAtATime, [Next]_vars PROVE OneRunAtATime'
  OBVIOUS
<1> USE BoundsAssumption, RunIdFacts DEF Structure, others, loop, db
<1>1. ASSUME NEW t \in Threads, NEW i \in Instances, TriggerCreate(t, i) PROVE OneRunAtATime'
  <2> SUFFICES ASSUME NEW r \in Unfinished', NEW s \in Unfinished', inst'[r] = inst'[s], r < s
               PROVE  CountLost(r)'
    BY DEF OneRunAtATime
  <2>1. runs + 1 \in RunIds /\ r \in RunIds /\ s \in RunIds
    BY <1>1 DEF TriggerCreate, TypeOK, RunIds, Unfinished
  <2>2. /\ status' = [status EXCEPT ![runs + 1] = "pending"] /\ ended' = ended
        /\ inst' = [inst EXCEPT ![runs + 1] = i]
        /\ UNCHANGED <<found, size, faults>>
        /\ \A q \in 1..runs : inst[q] = i => ~Active(q)
    BY <1>1 DEF TriggerCreate, UpdateRunStatus, Finished
  <2>3. s <= runs + 1 /\ r <= runs
    BY <2>1, <2>2 DEF Unfinished, TypeOK, NothingAhead
  <2>4. status'[r] = status[r] /\ inst'[r] = inst[r] /\ r \in Unfinished
    BY <2>1, <2>2, <2>3 DEF Unfinished, TypeOK
  <2>5. CASE s = runs + 1
    <3>1. inst'[s] = i
      BY <2>1, <2>2, <2>5 DEF TypeOK
    <3>2. inst[r] = i /\ ~Active(r)
      BY <2>1, <2>2, <2>3, <2>4, <3>1 DEF RunIds
    <3>3. status[r] = "preview_ready" /\ found[r] = 0
      BY <2>1, <2>4, <3>2 DEF Active, Unfinished, StatusFollowsWork, TypeOK, Statuses, Open, Finished
    <3> QED
      BY <2>1, <2>2, <2>4, <3>3 DEF CountLost, CountsStored, CountStored, Unfinished
  <2>6. CASE s # runs + 1
    <3>1. s \in Unfinished /\ inst'[s] = inst[s]
      BY <2>1, <2>2, <2>6 DEF Unfinished, TypeOK
    <3> QED
      BY <2>2, <2>4, <3>1 DEF OneRunAtATime, CountLost
  <2> QED
    BY <2>5, <2>6
<1>2. ASSUME NEW t \in Threads, TriggerRegister(t) PROVE OneRunAtATime'
  BY <1>2 DEF TriggerRegister, ScanTo, Idle, OneRunAtATime, CountLost, Unfinished, StatusFollowsWork,
     TypeOK, OpsNameRuns, NothingAhead, Finished
<1>3. ASSUME NEW t \in Threads, CancelCall(t) PROVE OneRunAtATime'
  BY <1>3 DEF CancelCall, OneRunAtATime, CountLost, Unfinished, StatusFollowsWork, TypeOK,
     OpsNameRuns, NothingAhead, Finished
<1>4. ASSUME NEW t \in Threads, CancelCheck(t) PROVE OneRunAtATime'
  BY <1>4 DEF CancelCheck, Idle, OneRunAtATime, CountLost, Unfinished, StatusFollowsWork, TypeOK,
     OpsNameRuns, NothingAhead, Finished
<1>5. ASSUME NEW t \in Threads, CancelWrite(t) PROVE OneRunAtATime'
  BY <1>5 DEF CancelWrite, UpdateRunStatus, DbFault, Idle, OneRunAtATime, CountLost, Unfinished,
     StatusFollowsWork, TypeOK, OpsNameRuns, NothingAhead, Finished
<1>6. ASSUME NEW t \in Threads, ConfirmLock(t) PROVE OneRunAtATime'
  BY <1>6 DEF ConfirmLock, StartDeletion, DelTo, Idle, OneRunAtATime, CountLost, Unfinished,
     StatusFollowsWork, TypeOK, OpsNameRuns, NothingAhead, Finished
<1>7. ASSUME NEW t \in Threads, NEW r \in RunIds, CancelRead(t, r) PROVE OneRunAtATime'
  BY <1>7 DEF CancelRead, Idle, Open, OneRunAtATime, CountLost, Unfinished, StatusFollowsWork,
     TypeOK, OpsNameRuns, NothingAhead, Finished
<1>8. ASSUME NEW t \in Threads, NEW r \in RunIds, ConfirmRead(t, r) PROVE OneRunAtATime'
  BY <1>8 DEF ConfirmRead, Idle, OneRunAtATime, CountLost, Unfinished, StatusFollowsWork, TypeOK,
     OpsNameRuns, NothingAhead, Finished
<1>9. ASSUME NEW r \in RunIds, ScanStart(r) PROVE OneRunAtATime'
  BY <1>9 DEF ScanStart, ScanWrite, UpdateRunStatus, ScanTo, DbFault, OneRunAtATime,
     CountLost, Unfinished, StatusFollowsWork, TypeOK, OpsNameRuns, NothingAhead, Finished
<1>10. ASSUME NEW r \in RunIds, ScanWalk(r) PROVE OneRunAtATime'
  BY <1>10 DEF ScanWalk, ScanTo, OneRunAtATime, CountLost, Unfinished, StatusFollowsWork, TypeOK,
     OpsNameRuns, NothingAhead, Finished
<1>11. ASSUME NEW r \in RunIds, ScanFail(r) PROVE OneRunAtATime'
  BY <1>11 DEF ScanFail, ScanWrite, UpdateRunStatus, ScanTo, DbFault, OneRunAtATime,
     CountLost, Unfinished, StatusFollowsWork, TypeOK, OpsNameRuns, NothingAhead, Finished
<1>12. ASSUME NEW r \in RunIds, ScanFound(r) PROVE OneRunAtATime'
  BY <1>12 DEF ScanFound, ScanTo, DbFault, OneRunAtATime, CountLost, Unfinished, StatusFollowsWork,
     TypeOK, OpsNameRuns, NothingAhead, Finished
<1>13. ASSUME NEW r \in RunIds, ScanFinish(r) PROVE OneRunAtATime'
  BY <1>13 DEF ScanFinish, ScanWrite, UpdateRunStatus, ScanTo, DbFault, OneRunAtATime,
     CountLost, Unfinished, StatusFollowsWork, TypeOK, OpsNameRuns, NothingAhead, Finished
<1>14. ASSUME NEW r \in RunIds, MaybeAutoCleanup(r) PROVE OneRunAtATime'
  BY <1>14 DEF MaybeAutoCleanup, ScanTo, OneRunAtATime, CountLost, Unfinished, StatusFollowsWork,
     TypeOK, OpsNameRuns, NothingAhead, Finished
<1>15. ASSUME NEW r \in RunIds, AutoLock(r) PROVE OneRunAtATime'
  BY <1>15 DEF AutoLock, StartDeletion, DelTo, ScanTo, OneRunAtATime, CountLost, Unfinished,
     StatusFollowsWork, TypeOK, OpsNameRuns, NothingAhead, Finished
<1>16. ASSUME NEW r \in RunIds, ScanExit(r) PROVE OneRunAtATime'
  BY <1>16 DEF ScanExit, ScanTo, OneRunAtATime, CountLost, Unfinished, StatusFollowsWork, TypeOK,
     OpsNameRuns, NothingAhead, Finished
<1>17. ASSUME NEW r \in RunIds, DelStart(r) PROVE OneRunAtATime'
  BY <1>17 DEF DelStart, DelWrite, UpdateRunStatus, DelTo, DbFault, OneRunAtATime,
     CountLost, Unfinished, StatusFollowsWork, TypeOK, OpsNameRuns, NothingAhead, Finished
<1>18. ASSUME NEW r \in RunIds, DelLoad(r) PROVE OneRunAtATime'
  BY <1>18 DEF DelLoad, DelTo, OneRunAtATime, CountLost, Unfinished, StatusFollowsWork, TypeOK,
     OpsNameRuns, NothingAhead, Finished
<1>19. ASSUME NEW r \in RunIds, DelFail(r) PROVE OneRunAtATime'
  BY <1>19 DEF DelFail, DelWrite, UpdateRunStatus, DelTo, DbFault, OneRunAtATime,
     CountLost, Unfinished, StatusFollowsWork, TypeOK, OpsNameRuns, NothingAhead, Finished
<1>20. ASSUME NEW r \in RunIds, DelFile(r) PROVE OneRunAtATime'
  BY <1>20 DEF DelFile, DbFault, OneRunAtATime, CountLost, Unfinished, StatusFollowsWork, TypeOK,
     OpsNameRuns, NothingAhead, Finished
<1>21. ASSUME NEW r \in RunIds, DelLoopEnd(r) PROVE OneRunAtATime'
  BY <1>21 DEF DelLoopEnd, DelTo, OneRunAtATime, CountLost, Unfinished, StatusFollowsWork, TypeOK,
     OpsNameRuns, NothingAhead, Finished
<1>22. ASSUME NEW r \in RunIds, DelFinish(r) PROVE OneRunAtATime'
  BY <1>22 DEF DelFinish, DelWrite, UpdateRunStatus, DelTo, DbFault, OneRunAtATime,
     CountLost, Unfinished, StatusFollowsWork, TypeOK, OpsNameRuns, NothingAhead, Finished
<1>23. ASSUME NEW r \in RunIds, DelExit(r) PROVE OneRunAtATime'
  BY <1>23 DEF DelExit, DelTo, OneRunAtATime, CountLost, Unfinished, StatusFollowsWork, TypeOK,
     OpsNameRuns, NothingAhead, Finished
<1>24. ASSUME NEW r \in RunIds, DelUnlock(r) PROVE OneRunAtATime'
  BY <1>24 DEF DelUnlock, DelTo, OneRunAtATime, CountLost, Unfinished, StatusFollowsWork, TypeOK,
     OpsNameRuns, NothingAhead, Finished
<1>25. ASSUME RecoverDeleting PROVE OneRunAtATime'
  BY <1>25 DEF RecoverDeleting, DbFault, OneRunAtATime, CountLost, Unfinished, StatusFollowsWork,
     TypeOK, OpsNameRuns, NothingAhead, Finished
<1>26. ASSUME RecoverStuck PROVE OneRunAtATime'
  BY <1>26 DEF RecoverStuck, DbFault, Stuck, OneRunAtATime, CountLost, Unfinished, StatusFollowsWork,
     TypeOK, OpsNameRuns, NothingAhead, Finished
<1>27. ASSUME Crash PROVE OneRunAtATime'
  BY <1>27 DEF Crash, Idle, OneRunAtATime, CountLost, Unfinished, StatusFollowsWork, TypeOK,
     OpsNameRuns, NothingAhead, Finished
<1>28. ASSUME UNCHANGED vars PROVE OneRunAtATime'
  BY <1>28 DEF vars, OneRunAtATime, CountLost, Unfinished, StatusFollowsWork, TypeOK, OpsNameRuns,
     NothingAhead, Finished
<1> QED
  BY <1>1, <1>2, <1>3, <1>4, <1>5, <1>6, <1>7, <1>8, <1>9, <1>10, <1>11, <1>12, <1>13,
     <1>14, <1>15, <1>16, <1>17, <1>18, <1>19, <1>20, <1>21, <1>22, <1>23, <1>24, <1>25,
     <1>26, <1>27, <1>28
     DEF Next, Request, Respond, ScanStep, DelStep, Recover

\* Every step leaves somebody who will overwrite each "deleting" row.
LEMMA WriterNext == Structure /\ DeletingHasWriter /\ [Next]_vars => DeletingHasWriter'
<1> SUFFICES ASSUME Structure /\ DeletingHasWriter, [Next]_vars PROVE DeletingHasWriter'
  OBVIOUS
<1> USE BoundsAssumption, RunIdFacts DEF Structure, others, loop, db
<1>1. ASSUME NEW t \in Threads, NEW i \in Instances, TriggerCreate(t, i) PROVE DeletingHasWriter'
  BY <1>1 DEF TriggerCreate, UpdateRunStatus, Active, Idle, DeletingHasWriter, TypeOK,
     OpsNameRuns, Live, MutexIsDeletion
<1>2. ASSUME NEW t \in Threads, TriggerRegister(t) PROVE DeletingHasWriter'
  BY <1>2 DEF TriggerRegister, ScanTo, Idle, DeletingHasWriter, TypeOK, OpsNameRuns,
     Live, MutexIsDeletion
<1>3. ASSUME NEW t \in Threads, CancelCall(t) PROVE DeletingHasWriter'
  BY <1>3 DEF CancelCall, DeletingHasWriter, TypeOK, OpsNameRuns, Live, MutexIsDeletion
<1>4. ASSUME NEW t \in Threads, CancelCheck(t) PROVE DeletingHasWriter'
  BY <1>4 DEF CancelCheck, Idle, DeletingHasWriter, TypeOK, OpsNameRuns, Live,
     MutexIsDeletion
<1>5. ASSUME NEW t \in Threads, CancelWrite(t) PROVE DeletingHasWriter'
  BY <1>5 DEF CancelWrite, UpdateRunStatus, DbFault, Idle, DeletingHasWriter, TypeOK,
     OpsNameRuns, Live, MutexIsDeletion
<1>6. ASSUME NEW t \in Threads, ConfirmLock(t) PROVE DeletingHasWriter'
  BY <1>6 DEF ConfirmLock, StartDeletion, DelTo, Idle, DeletingHasWriter, TypeOK,
     OpsNameRuns, Live, MutexIsDeletion
<1>7. ASSUME NEW t \in Threads, NEW r \in RunIds, CancelRead(t, r) PROVE DeletingHasWriter'
  BY <1>7 DEF CancelRead, Idle, Open, DeletingHasWriter, TypeOK, OpsNameRuns, Live,
     MutexIsDeletion
<1>8. ASSUME NEW t \in Threads, NEW r \in RunIds, ConfirmRead(t, r) PROVE DeletingHasWriter'
  BY <1>8 DEF ConfirmRead, Idle, DeletingHasWriter, TypeOK, OpsNameRuns, Live,
     MutexIsDeletion
<1>9. ASSUME NEW r \in RunIds, ScanStart(r) PROVE DeletingHasWriter'
  BY <1>9 DEF ScanStart, ScanWrite, UpdateRunStatus, ScanTo, DbFault, DeletingHasWriter,
     TypeOK, OpsNameRuns, Live, MutexIsDeletion
<1>10. ASSUME NEW r \in RunIds, ScanWalk(r) PROVE DeletingHasWriter'
  BY <1>10 DEF ScanWalk, ScanTo, DeletingHasWriter, TypeOK, OpsNameRuns, Live,
     MutexIsDeletion
<1>11. ASSUME NEW r \in RunIds, ScanFail(r) PROVE DeletingHasWriter'
  BY <1>11 DEF ScanFail, ScanWrite, UpdateRunStatus, ScanTo, DbFault, DeletingHasWriter,
     TypeOK, OpsNameRuns, Live, MutexIsDeletion
<1>12. ASSUME NEW r \in RunIds, ScanFound(r) PROVE DeletingHasWriter'
  BY <1>12 DEF ScanFound, ScanTo, DbFault, DeletingHasWriter, TypeOK, OpsNameRuns, Live,
     MutexIsDeletion
<1>13. ASSUME NEW r \in RunIds, ScanFinish(r) PROVE DeletingHasWriter'
  BY <1>13 DEF ScanFinish, ScanWrite, UpdateRunStatus, ScanTo, DbFault,
     DeletingHasWriter, TypeOK, OpsNameRuns, Live, MutexIsDeletion
<1>14. ASSUME NEW r \in RunIds, MaybeAutoCleanup(r) PROVE DeletingHasWriter'
  BY <1>14 DEF MaybeAutoCleanup, ScanTo, DeletingHasWriter, TypeOK, OpsNameRuns, Live,
     MutexIsDeletion
<1>15. ASSUME NEW r \in RunIds, AutoLock(r) PROVE DeletingHasWriter'
  BY <1>15 DEF AutoLock, StartDeletion, DelTo, ScanTo, DeletingHasWriter, TypeOK,
     OpsNameRuns, Live, MutexIsDeletion
<1>16. ASSUME NEW r \in RunIds, ScanExit(r) PROVE DeletingHasWriter'
  BY <1>16 DEF ScanExit, ScanTo, DeletingHasWriter, TypeOK, OpsNameRuns, Live,
     MutexIsDeletion
<1>17. ASSUME NEW r \in RunIds, DelStart(r) PROVE DeletingHasWriter'
  BY <1>17 DEF DelStart, DelWrite, UpdateRunStatus, DelTo, DbFault, DeletingHasWriter,
     TypeOK, OpsNameRuns, Live, MutexIsDeletion
<1>18. ASSUME NEW r \in RunIds, DelLoad(r) PROVE DeletingHasWriter'
  BY <1>18 DEF DelLoad, DelTo, DeletingHasWriter, TypeOK, OpsNameRuns, Live,
     MutexIsDeletion
<1>19. ASSUME NEW r \in RunIds, DelFail(r) PROVE DeletingHasWriter'
  BY <1>19 DEF DelFail, DelWrite, UpdateRunStatus, DelTo, DbFault, DeletingHasWriter,
     TypeOK, OpsNameRuns, Live, MutexIsDeletion
<1>20. ASSUME NEW r \in RunIds, DelFile(r) PROVE DeletingHasWriter'
  BY <1>20 DEF DelFile, DbFault, DeletingHasWriter, TypeOK, OpsNameRuns, Live,
     MutexIsDeletion
<1>21. ASSUME NEW r \in RunIds, DelLoopEnd(r) PROVE DeletingHasWriter'
  BY <1>21 DEF DelLoopEnd, DelTo, DeletingHasWriter, TypeOK, OpsNameRuns, Live,
     MutexIsDeletion
<1>22. ASSUME NEW r \in RunIds, DelFinish(r) PROVE DeletingHasWriter'
  BY <1>22 DEF DelFinish, DelWrite, UpdateRunStatus, DelTo, DbFault, DeletingHasWriter,
     TypeOK, OpsNameRuns, Live, MutexIsDeletion
<1>23. ASSUME NEW r \in RunIds, DelExit(r) PROVE DeletingHasWriter'
  BY <1>23 DEF DelExit, DelTo, DeletingHasWriter, TypeOK, OpsNameRuns, Live,
     MutexIsDeletion
<1>24. ASSUME NEW r \in RunIds, DelUnlock(r) PROVE DeletingHasWriter'
  BY <1>24 DEF DelUnlock, DelTo, DeletingHasWriter, TypeOK, OpsNameRuns, Live,
     MutexIsDeletion
<1>25. ASSUME RecoverDeleting PROVE DeletingHasWriter'
  BY <1>25 DEF RecoverDeleting, DbFault, DeletingHasWriter, TypeOK, OpsNameRuns, Live,
     MutexIsDeletion
<1>26. ASSUME RecoverStuck PROVE DeletingHasWriter'
  BY <1>26 DEF RecoverStuck, DbFault, Stuck, DeletingHasWriter, TypeOK, OpsNameRuns,
     Live, MutexIsDeletion
<1>27. ASSUME Crash PROVE DeletingHasWriter'
  BY <1>27 DEF Crash, Idle, DeletingHasWriter, TypeOK, OpsNameRuns, Live, MutexIsDeletion
<1>28. ASSUME UNCHANGED vars PROVE DeletingHasWriter'
  BY <1>28 DEF vars, DeletingHasWriter, TypeOK, OpsNameRuns, Live, MutexIsDeletion
<1> QED
  BY <1>1, <1>2, <1>3, <1>4, <1>5, <1>6, <1>7, <1>8, <1>9, <1>10, <1>11, <1>12, <1>13,
     <1>14, <1>15, <1>16, <1>17, <1>18, <1>19, <1>20, <1>21, <1>22, <1>23, <1>24, <1>25,
     <1>26, <1>27, <1>28
     DEF Next, Request, Respond, ScanStep, DelStep, Recover

\* No step touches a finished run on which nothing is in progress.
LEMMA FinishedStepNext == Structure /\ [Next]_vars => FinishedStep
<1> SUFFICES ASSUME Structure, [Next]_vars PROVE FinishedStep
  OBVIOUS
<1> USE BoundsAssumption, RunIdFacts DEF Structure, others, loop, db
<1>1. ASSUME NEW t \in Threads, NEW i \in Instances, TriggerCreate(t, i) PROVE FinishedStep
  BY <1>1 DEF TriggerCreate, UpdateRunStatus, Active, Idle, FinishedStep, Quiet, TypeOK,
     OpsNameRuns, NothingAhead, MutexIsDeletion, Finished
<1>2. ASSUME NEW t \in Threads, TriggerRegister(t) PROVE FinishedStep
  BY <1>2 DEF TriggerRegister, ScanTo, Idle, FinishedStep, Quiet, TypeOK, OpsNameRuns,
     NothingAhead, MutexIsDeletion, Finished
<1>3. ASSUME NEW t \in Threads, CancelCall(t) PROVE FinishedStep
  BY <1>3 DEF CancelCall, FinishedStep, Quiet, TypeOK, OpsNameRuns, NothingAhead,
     MutexIsDeletion, Finished
<1>4. ASSUME NEW t \in Threads, CancelCheck(t) PROVE FinishedStep
  BY <1>4 DEF CancelCheck, Idle, FinishedStep, Quiet, TypeOK, OpsNameRuns, NothingAhead,
     MutexIsDeletion, Finished
<1>5. ASSUME NEW t \in Threads, CancelWrite(t) PROVE FinishedStep
  BY <1>5 DEF CancelWrite, UpdateRunStatus, DbFault, Idle, FinishedStep, Quiet, TypeOK,
     OpsNameRuns, NothingAhead, MutexIsDeletion, Finished
<1>6. ASSUME NEW t \in Threads, ConfirmLock(t) PROVE FinishedStep
  BY <1>6 DEF ConfirmLock, StartDeletion, DelTo, Idle, FinishedStep, Quiet, TypeOK,
     OpsNameRuns, NothingAhead, MutexIsDeletion, Finished
<1>7. ASSUME NEW t \in Threads, NEW r \in RunIds, CancelRead(t, r) PROVE FinishedStep
  BY <1>7 DEF CancelRead, Idle, Open, FinishedStep, Quiet, TypeOK, OpsNameRuns,
     NothingAhead, MutexIsDeletion, Finished
<1>8. ASSUME NEW t \in Threads, NEW r \in RunIds, ConfirmRead(t, r) PROVE FinishedStep
  BY <1>8 DEF ConfirmRead, Idle, FinishedStep, Quiet, TypeOK, OpsNameRuns, NothingAhead,
     MutexIsDeletion, Finished
<1>9. ASSUME NEW r \in RunIds, ScanStart(r) PROVE FinishedStep
  BY <1>9 DEF ScanStart, ScanWrite, UpdateRunStatus, ScanTo, DbFault, FinishedStep,
     Quiet, TypeOK, OpsNameRuns, NothingAhead, MutexIsDeletion, Finished
<1>10. ASSUME NEW r \in RunIds, ScanWalk(r) PROVE FinishedStep
  BY <1>10 DEF ScanWalk, ScanTo, FinishedStep, Quiet, TypeOK, OpsNameRuns, NothingAhead,
     MutexIsDeletion, Finished
<1>11. ASSUME NEW r \in RunIds, ScanFail(r) PROVE FinishedStep
  BY <1>11 DEF ScanFail, ScanWrite, UpdateRunStatus, ScanTo, DbFault, FinishedStep,
     Quiet, TypeOK, OpsNameRuns, NothingAhead, MutexIsDeletion, Finished
<1>12. ASSUME NEW r \in RunIds, ScanFound(r) PROVE FinishedStep
  BY <1>12 DEF ScanFound, ScanTo, DbFault, FinishedStep, Quiet, TypeOK, OpsNameRuns,
     NothingAhead, MutexIsDeletion, Finished
<1>13. ASSUME NEW r \in RunIds, ScanFinish(r) PROVE FinishedStep
  BY <1>13 DEF ScanFinish, ScanWrite, UpdateRunStatus, ScanTo, DbFault, FinishedStep,
     Quiet, TypeOK, OpsNameRuns, NothingAhead, MutexIsDeletion, Finished
<1>14. ASSUME NEW r \in RunIds, MaybeAutoCleanup(r) PROVE FinishedStep
  BY <1>14 DEF MaybeAutoCleanup, ScanTo, FinishedStep, Quiet, TypeOK, OpsNameRuns,
     NothingAhead, MutexIsDeletion, Finished
<1>15. ASSUME NEW r \in RunIds, AutoLock(r) PROVE FinishedStep
  BY <1>15 DEF AutoLock, StartDeletion, DelTo, ScanTo, FinishedStep, Quiet, TypeOK,
     OpsNameRuns, NothingAhead, MutexIsDeletion, Finished
<1>16. ASSUME NEW r \in RunIds, ScanExit(r) PROVE FinishedStep
  BY <1>16 DEF ScanExit, ScanTo, FinishedStep, Quiet, TypeOK, OpsNameRuns, NothingAhead,
     MutexIsDeletion, Finished
<1>17. ASSUME NEW r \in RunIds, DelStart(r) PROVE FinishedStep
  BY <1>17 DEF DelStart, DelWrite, UpdateRunStatus, DelTo, DbFault, FinishedStep, Quiet,
     TypeOK, OpsNameRuns, NothingAhead, MutexIsDeletion, Finished
<1>18. ASSUME NEW r \in RunIds, DelLoad(r) PROVE FinishedStep
  BY <1>18 DEF DelLoad, DelTo, FinishedStep, Quiet, TypeOK, OpsNameRuns, NothingAhead,
     MutexIsDeletion, Finished
<1>19. ASSUME NEW r \in RunIds, DelFail(r) PROVE FinishedStep
  BY <1>19 DEF DelFail, DelWrite, UpdateRunStatus, DelTo, DbFault, FinishedStep, Quiet,
     TypeOK, OpsNameRuns, NothingAhead, MutexIsDeletion, Finished
<1>20. ASSUME NEW r \in RunIds, DelFile(r) PROVE FinishedStep
  BY <1>20 DEF DelFile, DbFault, FinishedStep, Quiet, TypeOK, OpsNameRuns, NothingAhead,
     MutexIsDeletion, Finished
<1>21. ASSUME NEW r \in RunIds, DelLoopEnd(r) PROVE FinishedStep
  BY <1>21 DEF DelLoopEnd, DelTo, FinishedStep, Quiet, TypeOK, OpsNameRuns,
     NothingAhead, MutexIsDeletion, Finished
<1>22. ASSUME NEW r \in RunIds, DelFinish(r) PROVE FinishedStep
  BY <1>22 DEF DelFinish, DelWrite, UpdateRunStatus, DelTo, DbFault, FinishedStep,
     Quiet, TypeOK, OpsNameRuns, NothingAhead, MutexIsDeletion, Finished
<1>23. ASSUME NEW r \in RunIds, DelExit(r) PROVE FinishedStep
  BY <1>23 DEF DelExit, DelTo, FinishedStep, Quiet, TypeOK, OpsNameRuns, NothingAhead,
     MutexIsDeletion, Finished
<1>24. ASSUME NEW r \in RunIds, DelUnlock(r) PROVE FinishedStep
  BY <1>24 DEF DelUnlock, DelTo, FinishedStep, Quiet, TypeOK, OpsNameRuns, NothingAhead,
     MutexIsDeletion, Finished
<1>25. ASSUME RecoverDeleting PROVE FinishedStep
  BY <1>25 DEF RecoverDeleting, DbFault, FinishedStep, Quiet, TypeOK, OpsNameRuns,
     NothingAhead, MutexIsDeletion, Finished
<1>26. ASSUME RecoverStuck PROVE FinishedStep
  BY <1>26 DEF RecoverStuck, DbFault, Stuck, FinishedStep, Quiet, TypeOK, OpsNameRuns,
     NothingAhead, MutexIsDeletion, Finished
<1>27. ASSUME Crash PROVE FinishedStep
  BY <1>27 DEF Crash, Idle, FinishedStep, Quiet, TypeOK, OpsNameRuns, NothingAhead,
     MutexIsDeletion, Finished
<1>28. ASSUME UNCHANGED vars PROVE FinishedStep
  BY <1>28 DEF vars, FinishedStep, Quiet
<1> QED
  BY <1>1, <1>2, <1>3, <1>4, <1>5, <1>6, <1>7, <1>8, <1>9, <1>10, <1>11, <1>12, <1>13,
     <1>14, <1>15, <1>16, <1>17, <1>18, <1>19, <1>20, <1>21, <1>22, <1>23, <1>24, <1>25,
     <1>26, <1>27, <1>28
     DEF Next, Request, Respond, ScanStep, DelStep, Recover

-----------------------------------------------------------------------------
\* The invariant the theorems rest on holds in every reachable state.
THEOREM InductiveInvariant == Spec => []Inductive
<1>1. Init => Inductive
  <2> SUFFICES ASSUME Init PROVE Inductive
    OBVIOUS
  <2>1. Structure
    BY StructureInit
  <2> QED
    BY <2>1 DEF Init, Inductive, RegisteredIsAlive, AutoChecked, DeletionAuthorized,
                StatusFollowsWork, CountsStored, CountStored, OneRunAtATime, Unfinished,
                DeletingHasWriter, Finished, Idle
<1>2. Inductive /\ [Next]_vars => Inductive'
  BY StructureNext, RegisteredNext, AuthorizedNext, StatusNext, CountsNext, OneRunNext, WriterNext
     DEF Inductive
<1> QED BY <1>1, <1>2, PTL DEF Spec

\* Every variable of the run lifecycle keeps its type; in particular no counter
\* of executeDeletion leaves 0..MaxFiles.
THEOREM TypeCorrect == Spec => []TypeOK
<1>1. Inductive => TypeOK
  BY DEF Inductive, Structure
<1> QED BY <1>1, InductiveInvariant, PTL

\* The instance mutex is held exactly while a deletion of the instance runs.
THEOREM MutualExclusion == Spec => []MutexIsDeletion
<1>1. Inductive => MutexIsDeletion
  BY DEF Inductive, Structure
<1> QED BY <1>1, InductiveInvariant, PTL

\* cancelFuncs never holds the function of a goroutine that has ended.
THEOREM NoLeakedCancelFunc == Spec => []RegisteredIsAlive
<1>1. Inductive => RegisteredIsAlive
  BY DEF Inductive
<1> QED BY <1>1, InductiveInvariant, PTL

\* Only runs a user confirmed, or small scheduled ones, are deleted.
THEOREM OnlyAuthorizedDeletions == Spec => []DeletionAuthorized
<1>1. Inductive => DeletionAuthorized
  BY DEF Inductive
<1> QED BY <1>1, InductiveInvariant, PTL

\* Beside an older never-finished run of its instance CreateRunIfNoActive admits
\* a run only when the older one is a preview whose count was lost to a failed
\* statement.
THEOREM OneRunPerInstance == Spec => []OneRunAtATime
<1>1. Inductive => OneRunAtATime
  BY DEF Inductive
<1> QED BY <1>1, InductiveInvariant, PTL

\* Without database faults no row stays "deleting" with nobody to change it.
THEOREM NoStrandedDeletion == Spec => []NoZombieDeleting
<1>1. Inductive => NoZombieDeleting
  BY DEF Inductive, DeletingHasWriter, NoZombieDeleting
<1> QED BY <1>1, InductiveInvariant, PTL

\* A finished run is only ever changed by work begun before it was finished.
THEOREM FinishedRunsStayPut == Spec => FinishedStable
<1>1. Inductive /\ [Next]_vars => [FinishedStep]_vars
  BY FinishedStepNext DEF Inductive
<1> QED BY <1>1, InductiveInvariant, PTL DEF Spec, FinishedStable
=============================================================================

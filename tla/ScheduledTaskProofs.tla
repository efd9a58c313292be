------------------------- MODULE ScheduledTaskProofs -------------------------
(* Proofs about ScheduledTask, for any sets of tasks, jobs and pods, any      *)
(* clock and any database faults.  One lemma per action shows that it keeps   *)
(* the types; the lease invariant rests on them.                              *)
EXTENDS ScheduledTask, TLAPS

(* What a merge of two definitions gives is a definition. *)
LEMMA MergeType ==
    ASSUME NEW p \in Patch, NEW d \in Definition
    PROVE  Merge(p, d) \in Definition
BY DEF Merge, Patch, Definition, FieldNames

(* Every schedule has an integer next date. *)
LEMMA ComputeNextType ==
    ASSUME NEW d \in Definition, NEW base \in Nat
    PROVE  ComputeNext(d, base) \in Int
<1>1. CASE d.kind = "interval"
  BY <1>1 DEF ComputeNext, Definition
<1>2. CASE d.kind = "at"
  BY <1>2 DEF ComputeNext, Definition
<1>3. CASE d.kind = "cron" /\ d.expr = 0
  BY <1>3 DEF ComputeNext, Definition, ZeroTimeUnix
<1>4. CASE d.kind = "cron" /\ d.expr # 0
  <2>1. d.expr \in Nat \ {0}
    BY <1>4 DEF Definition
  <2>2. base \div d.expr \in Int
    BY <2>1
  <2>3. ((base \div d.expr) + 1) * d.expr \in Int
    BY <2>1, <2>2
  <2> QED
    BY <1>4, <2>3 DEF ComputeNext
<1> QED
  BY <1>1, <1>2, <1>3, <1>4 DEF Definition, ScheduleKinds

LEMMA FirstRunType ==
    ASSUME NEW d \in Definition, NEW base \in Nat
    PROVE  FirstRun(d, base) \in Int
BY ComputeNextType DEF FirstRun

LEMMA NextRunType ==
    ASSUME NEW r \in Row, NEW base \in Nat
    PROVE  NextRun(r, base) \in Int
<1>1. r.def \in Definition
  BY DEF Row
<1>2. ComputeNext(r.def, base) \in Int
  BY <1>1, ComputeNextType
<1>3. r.def.cooldown \in Nat
  BY <1>1 DEF Definition
<1> QED
  BY <1>2, <1>3 DEF NextRun

(* A lease is a natural number and longer than no time at all. *)
LEMMA LeaseForType ==
    ASSUME NEW d \in Definition
    PROVE  LeaseFor(d) \in Nat \ {0}
BY ClockAssumption DEF LeaseFor, Definition

LEMMA ClaimedType ==
    ASSUME NEW r \in Row, now \in Nat
    PROVE  Claimed(r) \in Row
<1> DEFINE lease == now + LeaseFor(r.def)
<1>1. lease \in Nat /\ lease \in Int
  BY LeaseForType DEF Row
<1> HIDE DEF lease
<1>2. [r EXCEPT !.nextRunAt = lease, !.leaseUntil = lease] \in Row
  BY <1>1 DEF Row
<1> QED
  BY <1>2 DEF Claimed, lease

LEMMA EmptyTypes == EmptyRow \in Row /\ NoJob \in Job /\ NoRun \in RunRow /\ Idle \in Request
<1>1. EmptyRow \in Row
  BY DEF EmptyRow, Row, Definition, ScheduleKinds
<1>2. NoJob \in Job
  BY <1>1 DEF NoJob, Job
<1>3. NoRun \in RunRow
  BY DEF NoRun, RunRow
<1>4. Idle \in Request
  BY <1>1 DEF Idle, Request, EmptyRow, Row
<1> QED
  BY <1>1, <1>2, <1>3, <1>4

LEMMA NewJobType ==
    ASSUME TypeOK, NEW p \in Pods, NEW t \in Tasks, NEW o \in {"scan", "trigger"}
    PROVE  NewJob(p, t, o) \in Job
<1>1. row[t] \in Row /\ row[t].def \in Definition
  BY DEF TypeOK, Row
<1>2. Claimed(row[t]) \in Row
  BY <1>1, ClaimedType DEF TypeOK
<1>3. now + LeaseFor(row[t].def) \in Nat
  BY <1>1, LeaseForType DEF TypeOK
<1> QED
  BY <1>2, <1>3, EmptyTypes DEF NewJob, NoJob, Job, LivePCs, EndPCs

LEMMA EndedType ==
    ASSUME NEW g \in Job, NEW pc \in EndPCs
    PROVE  Ended(g, pc) \in Job
BY EmptyTypes DEF Ended, NoJob, Job

LEMMA AfterRunType ==
    ASSUME NEW r \in Row, NEW next \in Int, now \in Nat
    PROVE  AfterRun(r, next) \in Row
<1> DEFINE enabled == IF next = 0 THEN FALSE ELSE r.def.enabled
           def == [r.def EXCEPT !.enabled = enabled]
<1>1. r.def \in Definition /\ r.runCount + 1 \in Nat
  BY DEF Row
<1>2. enabled \in BOOLEAN
  BY <1>1 DEF Definition
<1> HIDE DEF enabled
<1>3. def \in Definition
  BY <1>1, <1>2 DEF Definition
<1>4. AfterRun(r, next) =
        [r EXCEPT !.lastRunAt = now, !.runCount = r.runCount + 1,
                  !.nextRunAt = next, !.leaseUntil = 0, !.def = def]
  BY DEF AfterRun, Row, enabled
<1> HIDE DEF def
<1>5. AfterRun(r, next) =
        [def |-> def, nextRunAt |-> next, leaseUntil |-> 0,
         lastRunAt |-> now, runCount |-> r.runCount + 1]
  BY <1>4 DEF Row
<1> QED
  BY <1>1, <1>3, <1>5 DEF Row
-----------------------------------------------------------------------------
(* Every step of the system keeps the types. *)

LEMMA InitType == Init => TypeOK
BY EmptyTypes, ClockAssumption DEF Init, TypeOK

LEMMA TickType == TypeOK /\ Tick => TypeOK'
BY DEF TypeOK, Tick

LEMMA CreateTaskType ==
    ASSUME TypeOK, NEW t \in Tasks, NEW d \in Inputs, CreateTask(t, d)
    PROVE  TypeOK'
<1>1. d \in Definition /\ now \in Nat
  BY InputAssumption DEF TypeOK
<1>2. FirstRun(d, now) \in Int
  BY <1>1, FirstRunType
<1>3. [EmptyRow EXCEPT !.def = d, !.nextRunAt = FirstRun(d, now)] \in Row
  BY <1>1, <1>2, EmptyTypes DEF Row
<1> QED
  BY <1>3 DEF TypeOK, CreateTask

LEMMA PatchReadType ==
    ASSUME TypeOK, NEW e \in Editors, NEW t \in Tasks, NEW p \in Patches,
           PatchRead(e, t, p)
    PROVE  TypeOK'
<1> DEFINE d == Merge(p, row[t].def)
<1>1. row[t].def \in Definition /\ p \in Patch /\ now \in Nat
  BY InputAssumption DEF TypeOK, Row
<1>2. d \in Definition
  BY <1>1, MergeType
<1> HIDE DEF d
<1>3. FirstRun(d, now) \in Int
  BY <1>1, <1>2, FirstRunType
<1>4. [pc |-> "read", task |-> t, def |-> d, next |-> FirstRun(d, now)] \in Request
  BY <1>2, <1>3 DEF Request
<1> QED
  BY <1>4 DEF TypeOK, PatchRead, d

LEMMA PatchWriteType ==
    ASSUME TypeOK, NEW e \in Editors, PatchWrite(e)
    PROVE  TypeOK'
<1> DEFINE t == req[e].task
           r == [row[t] EXCEPT !.def = req[e].def, !.nextRunAt = req[e].next]
<1>1. req[e].def \in Definition /\ req[e].next \in Int
  BY DEF TypeOK, Request
<1>2. req' \in [Editors -> Request]
  BY EmptyTypes DEF TypeOK, PatchWrite
<1>3. row' \in [Tasks -> Row]
  <2>1. CASE UNCHANGED row
    BY <2>1 DEF TypeOK
  <2>2. CASE row' = [row EXCEPT ![t].def = req[e].def, ![t].nextRunAt = req[e].next]
    <3>1. ASSUME t \in Tasks PROVE r \in Row
      BY <1>1, <3>1 DEF TypeOK, Row
    <3>2. row' = [row EXCEPT ![t] = r]
      BY <2>2 DEF TypeOK
    <3> HIDE DEF r
    <3> QED
      BY <3>1, <3>2 DEF TypeOK
  <2> QED
    BY <2>1, <2>2 DEF PatchWrite
<1>4. disturbed' \in [Tasks -> BOOLEAN]
  BY DEF TypeOK, PatchWrite
<1> QED
  BY <1>2, <1>3, <1>4 DEF TypeOK, PatchWrite

LEMMA DeleteTaskType ==
    ASSUME TypeOK, NEW t \in Tasks, DeleteTask(t)
    PROVE  TypeOK'
BY EmptyTypes DEF TypeOK, DeleteTask

LEMMA WriteTombstoneType ==
    ASSUME TypeOK, NEW t \in Tasks, WriteTombstone(t)
    PROVE  TypeOK'
BY DEF TypeOK, WriteTombstone

LEMMA ClaimRowsType ==
    ASSUME TypeOK, NEW batch \in SUBSET Tasks, ClaimRows(batch)
    PROVE  row' \in [Tasks -> Row] /\ disturbed' \in [Tasks -> BOOLEAN]
<1>1. \A t \in Tasks : Claimed(row[t]) \in Row
  BY ClaimedType DEF TypeOK
<1> QED
  BY <1>1 DEF TypeOK, ClaimRows

LEMMA ScanType ==
    ASSUME TypeOK, NEW p \in Pods, NEW locked \in SUBSET Tasks, Scan(p, locked)
    PROVE  TypeOK'
<1>1. PICK batch \in Batches(locked), slots \in SUBSET FreeJobs :
        \E taskOf \in [slots -> batch] :
          /\ ClaimRows(batch)
          /\ job' = [j \in Jobs |-> IF j \in slots
                                    THEN NewJob(p, taskOf[j], "scan") ELSE job[j]]
  BY DEF Scan
<1>2. PICK taskOf \in [slots -> batch] :
          /\ ClaimRows(batch)
          /\ job' = [j \in Jobs |-> IF j \in slots
                                    THEN NewJob(p, taskOf[j], "scan") ELSE job[j]]
  BY <1>1
<1>3. batch \in SUBSET Tasks
  BY DEF Batches
<1>4. row' \in [Tasks -> Row] /\ disturbed' \in [Tasks -> BOOLEAN]
  BY <1>2, <1>3, ClaimRowsType
<1>5. \A j \in slots : NewJob(p, taskOf[j], "scan") \in Job
  BY <1>3, NewJobType
<1>6. job' \in [Jobs -> Job]
  BY <1>2, <1>5 DEF TypeOK
<1> QED
  BY <1>4, <1>6 DEF TypeOK, Scan

LEMMA TriggerNowType ==
    ASSUME TypeOK, NEW p \in Pods, NEW t \in Tasks, TriggerNow(p, t)
    PROVE  TypeOK'
<1>1. row' \in [Tasks -> Row] /\ disturbed' \in [Tasks -> BOOLEAN]
  BY ClaimRowsType DEF TriggerNow
<1>2. NewJob(p, t, "trigger") \in Job
  BY NewJobType
<1>3. job' \in [Jobs -> Job]
  BY <1>2 DEF TypeOK, TriggerNow
<1> QED
  BY <1>1, <1>3 DEF TypeOK, TriggerNow

LEMMA JobStepType ==
    ASSUME TypeOK, NEW j \in Jobs, JobStep(j)
    PROVE  TypeOK'
<1>1. Ended(job[j], "done") \in Job
  BY EndedType DEF TypeOK, EndPCs
<1>2. CASE InsertRun(j)
  <2>1. now + PersistTTL \in Nat
    BY ClockAssumption DEF TypeOK
  <2> DEFINE g == [job[j] EXCEPT !.pc = "executing", !.persistBy = now + PersistTTL]
  <2>4. g \in Job
    BY <2>1 DEF TypeOK, Job, LivePCs
  <2>5. job' = [job EXCEPT ![j] = g]
    BY <1>2 DEF TypeOK, InsertRun
  <2> HIDE DEF g
  <2>2. job' \in [Jobs -> Job]
    BY <2>4, <2>5 DEF TypeOK
  <2>3. run' \in [Jobs -> RunRow]
    BY <1>2 DEF TypeOK, InsertRun, RunRow
  <2> QED
    BY <1>2, <2>2, <2>3 DEF TypeOK, InsertRun
<1>3. CASE InsertRunFails(j)
  BY <1>1, <1>3 DEF TypeOK, InsertRunFails, End
<1>4. CASE AbandonTrigger(j)
  BY <1>1, <1>4 DEF TypeOK, AbandonTrigger, End
<1>5. ASSUME NEW outcome \in Outcomes, ExecutorReturns(j, outcome) PROVE TypeOK'
  <2> DEFINE g == [job[j] EXCEPT !.pc = "returned", !.status = outcome]
  <2>2. g \in Job
    BY DEF TypeOK, Job, LivePCs
  <2>3. job' = [job EXCEPT ![j] = g]
    BY <1>5 DEF TypeOK, ExecutorReturns
  <2> HIDE DEF g
  <2>1. job' \in [Jobs -> Job]
    BY <2>2, <2>3 DEF TypeOK
  <2> QED
    BY <1>5, <2>1 DEF TypeOK, ExecutorReturns
<1>6. CASE FinishRun(j)
  <2> DEFINE g == [job[j] EXCEPT !.pc = "recorded"]
  <2>4. g \in Job
    BY DEF TypeOK, Job, LivePCs
  <2>5. job' = [job EXCEPT ![j] = g]
    BY <1>6 DEF TypeOK, FinishRun
  <2> HIDE DEF g
  <2>1. job' \in [Jobs -> Job]
    BY <2>4, <2>5 DEF TypeOK
  <2>2. job[j].status \in Outcomes \cup {"none", "running", "failed"}
    BY DEF TypeOK, Job
  <2>3. run' \in [Jobs -> RunRow]
    BY <1>6, <2>2 DEF TypeOK, FinishRun, RunRow
  <2> QED
    BY <1>6, <2>1, <2>3 DEF TypeOK, FinishRun
<1>7. CASE UpdateTaskAfterRun(j)
  <2> DEFINE t == job[j].task
             r == AfterRun(row[t], NextRun(job[j].snap, now))
  <2>1. job[j].snap \in Row /\ now \in Nat
    BY DEF TypeOK, Job
  <2>2. ASSUME t \in Tasks PROVE r \in Row
    BY <2>1, <2>2, NextRunType, AfterRunType DEF TypeOK
  <2>3. row' = row \/ row' = [row EXCEPT ![t] = r]
    BY <1>7 DEF UpdateTaskAfterRun, TypeOK
  <2> HIDE DEF r
  <2>4. row' \in [Tasks -> Row]
    BY <2>2, <2>3 DEF TypeOK
  <2> QED
    BY <1>1, <1>7, <2>4 DEF TypeOK, UpdateTaskAfterRun, End
<1> QED
  BY <1>2, <1>3, <1>4, <1>5, <1>6, <1>7 DEF JobStep

LEMMA ProcessType ==
    ASSUME TypeOK, NEW p \in Pods, Crash(p) \/ Stop(p) \/ Exit(p) \/ Start(p)
    PROVE  TypeOK'
<1>1. \A j \in Jobs : Ended(job[j], "crashed") \in Job
  BY EndedType DEF TypeOK, EndPCs
<1>2. CASE Crash(p)
  BY <1>1, <1>2 DEF TypeOK, Crash
<1>3. CASE Stop(p) \/ Exit(p) \/ Start(p)
  BY <1>3 DEF TypeOK, Stop, Exit, Start
<1> QED
  BY <1>2, <1>3

LEMMA MaintenanceType == TypeOK /\ RunMaintenance => TypeOK'
<1> SUFFICES ASSUME TypeOK, RunMaintenance PROVE TypeOK'
  OBVIOUS
<1>1. \A j \in Jobs : [run[j] EXCEPT !.status = "failed"] \in RunRow
  BY DEF TypeOK, RunRow
<1>2. \A t \in Tasks : [row[t] EXCEPT !.leaseUntil = 0] \in Row
  BY DEF TypeOK, Row
<1> QED
  BY <1>1, <1>2 DEF TypeOK, RunMaintenance

LEMMA NextType == TypeOK /\ [Next]_vars => TypeOK'
<1> SUFFICES ASSUME TypeOK, [Next]_vars PROVE TypeOK'
  OBVIOUS
<1>1. CASE Tick
  BY <1>1, TickType
<1>2. CASE Handlers
  BY <1>2, CreateTaskType, PatchReadType, DeleteTaskType, WriteTombstoneType,
     TriggerNowType, PatchWriteType DEF Handlers
<1>3. CASE \E p \in Pods, locked \in SUBSET Tasks : Scan(p, locked)
  BY <1>3, ScanType
<1>4. CASE \E j \in Jobs : JobStep(j)
  BY <1>4, JobStepType
<1>5. CASE Processes
  BY <1>5, ProcessType DEF Processes
<1>6. CASE RunMaintenance
  BY <1>6, MaintenanceType
<1>7. CASE UNCHANGED vars
  BY <1>7 DEF vars, TypeOK
<1> QED
  BY <1>1, <1>2, <1>3, <1>4, <1>5, <1>6, <1>7 DEF Next

(* Type correctness of the scheduler. *)
THEOREM TypeCorrect == Spec => []TypeOK
<1>1. Init => TypeOK
  BY InitType
<1>2. TypeOK /\ [Next]_vars => TypeOK'
  BY NextType
<1> QED
  BY <1>1, <1>2, PTL DEF Spec
-----------------------------------------------------------------------------
(* Mutual exclusion through the lease. *)

(* A live goroutine works for a task that was created. *)
JobsPlaced ==
    \A j \in Jobs : Live(j) => job[j].task \in Tasks /\ phase[job[j].task] # "unborn"

(* LeaseHeld is what makes the claim queries refuse the row of a live job;   *)
(* ExclusiveUntilDisturbed alone is not inductive.                           *)
IInv == TypeOK /\ JobsPlaced /\ ExclusiveUntilDisturbed /\ LeaseHeld

LEMMA InitIInv == Init => IInv
<1> SUFFICES ASSUME Init PROVE IInv
  OBVIOUS
<1>1. \A j \in Jobs : ~Live(j)
  BY DEF Init, Live, LivePCs, NoJob
<1> QED
  BY <1>1, InitType DEF IInv, JobsPlaced, ExclusiveUntilDisturbed, LeaseHeld, LiveOn

(* A step that leaves rows, clock and history alone, starts no goroutine,    *)
(* moves none to another task or lease and creates no task, keeps the        *)
(* invariant.                                                                *)
LEMMA QuietStep ==
    ASSUME IInv, TypeOK', UNCHANGED <<now, row, disturbed>>,
           \A t \in Tasks : /\ Stored(t)' => Stored(t)
                            /\ phase[t] # "unborn" => phase'[t] # "unborn",
           \A j \in Jobs : Live(j)' =>
               Live(j) /\ job'[j].task = job[j].task /\ job'[j].lease = job[j].lease
    PROVE  IInv'
<1>1. JobsPlaced'
  BY DEF IInv, JobsPlaced
<1>2. \A t \in Tasks : LiveOn(t)' \subseteq LiveOn(t)
  BY DEF LiveOn
<1>3. ExclusiveUntilDisturbed'
  BY <1>2 DEF IInv, ExclusiveUntilDisturbed
<1>4. LeaseHeld'
  BY <1>2 DEF IInv, LeaseHeld, LiveOn, Budget
<1> QED
  BY <1>1, <1>3, <1>4 DEF IInv

LEMMA TickIInv == IInv /\ Tick => IInv'
<1> SUFFICES ASSUME IInv, Tick PROVE IInv'
  OBVIOUS
<1>1. TypeOK'
  BY TickType DEF IInv
<1>2. \A t \in Tasks : LiveOn(t)' = LiveOn(t)
  BY DEF Tick, LiveOn, Live
<1>3. \A t \in Tasks : ~disturbed'[t] =>
          ~disturbed[t] /\ \A j \in LiveOn(t) : ~(job[j].lease <= now + 1)
  BY DEF Tick
<1>4. JobsPlaced'
  BY DEF IInv, JobsPlaced, Tick, Live
<1>5. ExclusiveUntilDisturbed'
  BY <1>2, <1>3 DEF IInv, ExclusiveUntilDisturbed
<1>6. \A j \in Jobs : job[j].lease \in Nat
  BY DEF IInv, TypeOK, Job
<1>7. LeaseHeld'
  BY <1>2, <1>3, <1>6 DEF IInv, LeaseHeld, Tick, Stored, Budget, LiveOn, TypeOK
<1> QED
  BY <1>1, <1>4, <1>5, <1>7 DEF IInv

LEMMA CreateTaskIInv ==
    ASSUME IInv, NEW t \in Tasks, NEW d \in Inputs, CreateTask(t, d)
    PROVE  IInv'
<1>1. TypeOK'
  BY CreateTaskType DEF IInv
<1>2. LiveOn(t) = {} /\ \A u \in Tasks : LiveOn(u)' = LiveOn(u)
  BY DEF IInv, JobsPlaced, CreateTask, LiveOn, Live
<1>3. JobsPlaced'
  BY DEF IInv, JobsPlaced, CreateTask, Live, TypeOK
<1>4. ExclusiveUntilDisturbed'
  BY <1>2 DEF IInv, ExclusiveUntilDisturbed, CreateTask
<1>5. LeaseHeld'
  BY <1>2 DEF IInv, LeaseHeld, CreateTask, Stored, Budget, LiveOn, TypeOK
<1> QED
  BY <1>1, <1>3, <1>4, <1>5 DEF IInv

LEMMA PatchWriteIInv ==
    ASSUME IInv, NEW e \in Editors, PatchWrite(e)
    PROVE  IInv'
<1> DEFINE t == req[e].task
<1>1. TypeOK'
  BY PatchWriteType DEF IInv
<1>2. \A u \in Tasks : LiveOn(u)' = LiveOn(u)
  BY DEF PatchWrite, LiveOn, Live
<1>3. JobsPlaced'
  BY DEF IInv, JobsPlaced, PatchWrite, Live
<1>4. \A u \in Tasks :
         \/ disturbed'[u] = disturbed[u] /\ row'[u] = row[u]
         \/ disturbed'[u] = (disturbed[u] \/ LiveOn(u) # {})
  BY DEF IInv, TypeOK, PatchWrite
<1>5. ExclusiveUntilDisturbed'
  BY <1>2, <1>4 DEF IInv, ExclusiveUntilDisturbed
<1>6. ASSUME NEW u \in Tasks, ~disturbed'[u], Stored(u)', NEW j \in LiveOn(u)'
      PROVE  /\ row'[u].leaseUntil = job'[j].lease
             /\ row'[u].nextRunAt = job'[j].lease
             /\ now' < job'[j].lease
             /\ Budget(row'[u])
  <2>1. j \in LiveOn(u) /\ ~disturbed[u] /\ row'[u] = row[u]
    BY <1>2, <1>4, <1>6
  <2>2. now' = now /\ job' = job /\ Stored(u)
    BY <1>6 DEF PatchWrite, Stored
  <2> QED
    BY <2>1, <2>2 DEF IInv, LeaseHeld
<1>7. LeaseHeld'
  BY <1>6 DEF LeaseHeld, Budget
<1> QED
  BY <1>1, <1>3, <1>5, <1>7 DEF IInv

(* The claim queries refuse the row of a live goroutine whose protocol was   *)
(* not disturbed.                                                            *)
LEMMA ClaimIsFree ==
    ASSUME IInv, NEW t \in Tasks, Due(t) \/ Claimable(t), ~disturbed[t]
    PROVE  LiveOn(t) = {}
<1>1. row[t].nextRunAt \in Int /\ row[t].leaseUntil \in Nat /\ now \in Nat
  BY DEF IInv, TypeOK, Row
<1>2. Stored(t) /\ (row[t].nextRunAt <= now \/ row[t].leaseUntil <= now)
  BY DEF Due, Claimable
<1> SUFFICES ASSUME NEW j \in LiveOn(t) PROVE FALSE
  OBVIOUS
<1>3. row[t].leaseUntil = row[t].nextRunAt /\ now < row[t].leaseUntil
  BY <1>2 DEF IInv, LeaseHeld
<1> QED
  BY <1>1, <1>2, <1>3

(* Claiming a set of rows, each for one new goroutine. *)
LEMMA ClaimStep ==
    ASSUME IInv, TypeOK', NEW p \in Pods, NEW o \in {"scan", "trigger"},
           NEW batch \in SUBSET Tasks, NEW slots \in SUBSET FreeJobs,
           NEW taskOf \in [slots -> batch],
           \A t \in batch : Due(t) \/ Claimable(t),
           \A j, k \in slots : taskOf[j] = taskOf[k] => j = k,
           ClaimRows(batch), UNCHANGED <<now, phase>>,
           job' = [j \in Jobs |-> IF j \in slots THEN NewJob(p, taskOf[j], o) ELSE job[j]]
    PROVE  IInv'
<1>1. slots \subseteq Jobs /\ \A j \in slots : ~Live(j)
  BY DEF FreeJobs, Live, LivePCs
<1>2. ASSUME NEW j \in slots
      PROVE  /\ taskOf[j] \in batch /\ taskOf[j] \in Tasks
             /\ job'[j].task = taskOf[j]
             /\ job'[j].lease = now + LeaseFor(row[taskOf[j]].def)
             /\ Live(j)'
  BY <1>1, <1>2 DEF NewJob, NoJob, Live, LivePCs
<1>3. \A j \in Jobs \ slots : job'[j] = job[j] /\ (Live(j)' <=> Live(j))
  BY DEF Live
<1>4. \A t \in batch : Stored(t) /\ Budget(row[t])
  BY DEF Due, Claimable
<1>5. JobsPlaced'
  <2>1. ASSUME NEW j \in Jobs, Live(j)'
        PROVE  job'[j].task \in Tasks /\ phase'[job'[j].task] # "unborn"
    <3>1. CASE j \in slots
      BY <1>2, <1>4, <3>1 DEF Stored
    <3>2. CASE j \notin slots
      BY <1>3, <2>1, <3>2 DEF IInv, JobsPlaced
    <3> QED
      BY <3>1, <3>2
  <2> QED
    BY <2>1 DEF JobsPlaced
<1>6. ASSUME NEW t \in Tasks \ batch
      PROVE  /\ LiveOn(t)' = LiveOn(t)
             /\ row'[t] = row[t] /\ disturbed'[t] = disturbed[t]
             /\ \A j \in LiveOn(t) : job'[j] = job[j]
  <2>1. row'[t] = row[t] /\ disturbed'[t] = disturbed[t]
    BY DEF ClaimRows
  <2>2. LiveOn(t)' = LiveOn(t)
    BY <1>1, <1>2, <1>3 DEF LiveOn
  <2>3. \A j \in LiveOn(t) : job'[j] = job[j]
    BY <1>1, <1>3 DEF LiveOn
  <2> QED
    BY <2>1, <2>2, <2>3
<1>7. ASSUME NEW t \in batch, ~disturbed'[t]
      PROVE  LiveOn(t) = {} /\ \A j \in LiveOn(t)' : j \in slots /\ taskOf[j] = t
  <2>1. LiveOn(t) = {}
    <3>1. CASE disturbed[t]
      BY <1>7, <3>1 DEF ClaimRows
    <3>2. CASE ~disturbed[t]
      BY <3>2, ClaimIsFree
    <3> QED
      BY <3>1, <3>2
  <2>2. ASSUME NEW j \in LiveOn(t)' PROVE j \in slots /\ taskOf[j] = t
    <3>1. j \in Jobs /\ Live(j)' /\ job'[j].task = t
      BY DEF LiveOn
    <3>2. j \in slots
      BY <1>3, <2>1, <3>1 DEF LiveOn
    <3> QED
      BY <1>2, <3>1, <3>2
  <2> QED
    BY <2>1, <2>2
<1>8. ExclusiveUntilDisturbed'
  <2>1. ASSUME NEW t \in Tasks, ~disturbed'[t], NEW j \in LiveOn(t)', NEW k \in LiveOn(t)'
        PROVE  j = k
    <3>1. CASE t \in batch
      BY <1>7, <2>1, <3>1
    <3>2. CASE t \notin batch
      BY <1>6, <2>1, <3>2 DEF IInv, ExclusiveUntilDisturbed
    <3> QED
      BY <3>1, <3>2
  <2> QED
    BY <2>1 DEF ExclusiveUntilDisturbed
<1>9. ASSUME NEW t \in Tasks, ~disturbed'[t], Stored(t)', NEW j \in LiveOn(t)'
      PROVE  /\ row'[t].leaseUntil = job'[j].lease
             /\ row'[t].nextRunAt = job'[j].lease
             /\ now' < job'[j].lease
             /\ Budget(row'[t])
  <2>1. CASE t \in batch
    <3>1. j \in slots /\ taskOf[j] = t
      BY <1>7, <1>9, <2>1
    <3>2. row[t] \in Row /\ row[t].def \in Definition /\ now \in Nat
      BY DEF IInv, TypeOK, Row
    <3>3. LeaseFor(row[t].def) \in Nat \ {0}
      BY <3>2, LeaseForType
    <3>4. row'[t] = Claimed(row[t])
      BY <2>1 DEF ClaimRows
    <3>5. /\ row'[t].leaseUntil = now + LeaseFor(row[t].def)
          /\ row'[t].nextRunAt = now + LeaseFor(row[t].def)
          /\ row'[t].def = row[t].def /\ row'[t].runCount = row[t].runCount
      BY <3>2, <3>4 DEF Claimed, Row
    <3>6. job'[j].lease = now + LeaseFor(row[t].def)
      BY <1>2, <3>1
    <3>7. now < now + LeaseFor(row[t].def)
      BY <3>2, <3>3
    <3>8. Budget(row'[t])
      BY <1>4, <2>1, <3>5 DEF Budget
    <3> QED
      BY <3>5, <3>6, <3>7, <3>8
  <2>2. CASE t \notin batch
    <3>1. j \in LiveOn(t) /\ job'[j] = job[j] /\ row'[t] = row[t] /\ ~disturbed[t]
      BY <1>6, <1>9, <2>2
    <3>2. Stored(t)
      BY <1>9 DEF Stored
    <3> QED
      BY <3>1, <3>2 DEF IInv, LeaseHeld
  <2> QED
    BY <2>1, <2>2
<1>10. LeaseHeld'
  BY <1>9 DEF LeaseHeld, Budget
<1> QED
  BY <1>5, <1>8, <1>10 DEF IInv

LEMMA ScanIInv ==
    ASSUME IInv, NEW p \in Pods, NEW locked \in SUBSET Tasks, Scan(p, locked)
    PROVE  IInv'
<1>1. TypeOK'
  BY ScanType DEF IInv
<1>2. PICK batch \in Batches(locked), slots \in SUBSET FreeJobs :
        \E taskOf \in [slots -> batch] :
          /\ \A j, k \in slots : taskOf[j] = taskOf[k] => j = k
          /\ ClaimRows(batch)
          /\ job' = [j \in Jobs |-> IF j \in slots
                                    THEN NewJob(p, taskOf[j], "scan") ELSE job[j]]
  BY DEF Scan
<1>3. PICK taskOf \in [slots -> batch] :
          /\ \A j, k \in slots : taskOf[j] = taskOf[k] => j = k
          /\ ClaimRows(batch)
          /\ job' = [j \in Jobs |-> IF j \in slots
                                    THEN NewJob(p, taskOf[j], "scan") ELSE job[j]]
  BY <1>2
<1>4. batch \in SUBSET Tasks /\ \A t \in batch : Due(t)
  BY DEF Batches
<1>5. UNCHANGED <<now, phase>>
  BY DEF Scan
<1> QED
  BY <1>1, <1>3, <1>4, <1>5, ClaimStep

LEMMA TriggerNowIInv ==
    ASSUME IInv, NEW p \in Pods, NEW t \in Tasks, TriggerNow(p, t)
    PROVE  IInv'
<1>1. TypeOK'
  BY TriggerNowType DEF IInv
<1>2. PICK k \in FreeJobs : job' = [job EXCEPT ![k] = NewJob(p, t, "trigger")]
  BY DEF TriggerNow
<1> DEFINE slots == {k}
           taskOf == [j \in slots |-> t]
<1>3. slots \in SUBSET FreeJobs /\ taskOf \in [slots -> {t}]
  BY <1>2
<1>4. \A i, j \in slots : taskOf[i] = taskOf[j] => i = j
  OBVIOUS
<1>5. job' = [j \in Jobs |-> IF j \in slots
                            THEN NewJob(p, taskOf[j], "trigger") ELSE job[j]]
  BY <1>2 DEF IInv, TypeOK
<1>6. Claimable(t) /\ ClaimRows({t}) /\ UNCHANGED <<now, phase>>
  BY DEF TriggerNow
<1>7. {t} \in SUBSET Tasks /\ \A u \in {t} : Due(u) \/ Claimable(u)
  BY <1>6
<1> HIDE DEF slots, taskOf
<1> QED
  BY <1>1, <1>3, <1>4, <1>5, <1>6, <1>7, ClaimStep

LEMMA UpdateTaskAfterRunIInv ==
    ASSUME IInv, NEW j \in Jobs, UpdateTaskAfterRun(j)
    PROVE  IInv'
<1> DEFINE t == job[j].task
<1>1. TypeOK'
  BY JobStepType DEF IInv, JobStep
<1>2. Live(j) /\ ~Live(j)' /\ t \in Tasks
  BY DEF IInv, TypeOK, JobsPlaced, UpdateTaskAfterRun, Live, LivePCs, End, Ended, NoJob
<1>3. \A k \in Jobs \ {j} : job'[k] = job[k] /\ (Live(k)' <=> Live(k))
  BY DEF IInv, TypeOK, UpdateTaskAfterRun, End, Live
<1>4. UNCHANGED <<now, phase, disturbed>>
  BY DEF UpdateTaskAfterRun
<1>5. JobsPlaced'
  BY <1>2, <1>3, <1>4 DEF IInv, JobsPlaced
<1>6. \A u \in Tasks : LiveOn(u)' = LiveOn(u) \ {j}
  BY <1>2, <1>3 DEF LiveOn
<1>7. ExclusiveUntilDisturbed'
  BY <1>4, <1>6 DEF IInv, ExclusiveUntilDisturbed
<1>8. \A u \in Tasks \ {t} : row'[u] = row[u]
  BY DEF IInv, TypeOK, UpdateTaskAfterRun
<1>9. ASSUME NEW u \in Tasks, ~disturbed'[u], Stored(u)', NEW k \in LiveOn(u)'
      PROVE  /\ row'[u].leaseUntil = job'[k].lease
             /\ row'[u].nextRunAt = job'[k].lease
             /\ now' < job'[k].lease
             /\ Budget(row'[u])
  <2>1. k \in LiveOn(u) /\ k # j /\ k \in Jobs
    BY <1>6, <1>9 DEF LiveOn
  <2>2. u # t
    <3>1. SUFFICES ASSUME u = t PROVE FALSE
      OBVIOUS
    <3>2. j \in LiveOn(u)
      BY <1>2, <3>1 DEF LiveOn
    <3> QED
      BY <1>4, <1>9, <2>1, <3>2 DEF IInv, ExclusiveUntilDisturbed
  <2>3. row'[u] = row[u] /\ job'[k] = job[k] /\ Stored(u)
    BY <1>3, <1>4, <1>8, <1>9, <2>1, <2>2 DEF Stored
  <2> QED
    BY <1>4, <1>9, <2>1, <2>3 DEF IInv, LeaseHeld
<1>10. LeaseHeld'
  BY <1>9 DEF LeaseHeld, Budget
<1> QED
  BY <1>1, <1>5, <1>7, <1>10 DEF IInv

LEMMA JobStepIInv ==
    ASSUME IInv, NEW j \in Jobs, JobStep(j)
    PROVE  IInv'
<1>1. TypeOK'
  BY JobStepType DEF IInv
<1>2. CASE UpdateTaskAfterRun(j)
  BY <1>2, UpdateTaskAfterRunIInv
<1>3. CASE InsertRunFails(j) \/ AbandonTrigger(j)
  <2>1. ~Live(j)' /\ \A k \in Jobs \ {j} : job'[k] = job[k]
    BY <1>3 DEF IInv, TypeOK, InsertRunFails, AbandonTrigger, End, Ended, NoJob,
                Live, LivePCs
  <2>2. UNCHANGED <<now, row, disturbed, phase>>
    BY <1>3 DEF InsertRunFails, AbandonTrigger
  <2>3. \A k \in Jobs : Live(k)' =>
            Live(k) /\ job'[k].task = job[k].task /\ job'[k].lease = job[k].lease
    BY <2>1 DEF Live
  <2> QED
    BY <1>1, <2>2, <2>3, QuietStep DEF Stored
<1>4. CASE InsertRun(j) \/ (\E outcome \in Outcomes : ExecutorReturns(j, outcome))
           \/ FinishRun(j)
  <2>1. \A k \in Jobs \ {j} : job'[k] = job[k]
    BY <1>4 DEF IInv, TypeOK, InsertRun, ExecutorReturns, FinishRun
  <2>2. Live(j) /\ job'[j].task = job[j].task /\ job'[j].lease = job[j].lease
    BY <1>4 DEF IInv, TypeOK, Job, InsertRun, ExecutorReturns, FinishRun, Live, LivePCs
  <2>3. UNCHANGED <<now, row, disturbed, phase>>
    BY <1>4 DEF InsertRun, ExecutorReturns, FinishRun
  <2>4. \A k \in Jobs : Live(k)' =>
            Live(k) /\ job'[k].task = job[k].task /\ job'[k].lease = job[k].lease
    BY <2>1, <2>2 DEF Live
  <2> QED
    BY <1>1, <2>3, <2>4, QuietStep DEF Stored
<1> QED
  BY <1>2, <1>3, <1>4 DEF JobStep

LEMMA ProcessIInv ==
    ASSUME IInv, NEW p \in Pods, Crash(p) \/ Stop(p) \/ Exit(p) \/ Start(p)
    PROVE  IInv'
<1>1. TypeOK'
  BY ProcessType DEF IInv
<1>2. UNCHANGED <<now, row, disturbed, phase>>
  BY DEF Crash, Stop, Exit, Start
<1>3. \A k \in Jobs : Live(k)' =>
          Live(k) /\ job'[k].task = job[k].task /\ job'[k].lease = job[k].lease
  <2>1. CASE Crash(p)
    BY <2>1 DEF Crash, Ended, NoJob, Live, LivePCs
  <2>2. CASE Stop(p) \/ Exit(p) \/ Start(p)
    BY <2>2 DEF Stop, Exit, Start, Live
  <2> QED
    BY <2>1, <2>2
<1> QED
  BY <1>1, <1>2, <1>3, QuietStep DEF Stored

LEMMA MaintenanceIInv == IInv /\ RunMaintenance => IInv'
<1> SUFFICES ASSUME IInv, RunMaintenance PROVE IInv'
  OBVIOUS
<1>1. TypeOK'
  BY MaintenanceType DEF IInv
<1>2. UNCHANGED <<now, phase, job, disturbed>>
  BY DEF RunMaintenance
<1>3. JobsPlaced' /\ ExclusiveUntilDisturbed'
  BY <1>2 DEF IInv, JobsPlaced, ExclusiveUntilDisturbed, LiveOn, Live
<1>4. ASSUME NEW t \in Tasks, ~disturbed'[t], Stored(t)', NEW j \in LiveOn(t)'
      PROVE  /\ row'[t].leaseUntil = job'[j].lease
             /\ row'[t].nextRunAt = job'[j].lease
             /\ now' < job'[j].lease
             /\ Budget(row'[t])
  <2>1. j \in LiveOn(t) /\ Stored(t) /\ ~disturbed[t]
    BY <1>2, <1>4 DEF LiveOn, Live, Stored
  <2>2. /\ row[t].leaseUntil = job[j].lease /\ row[t].nextRunAt = job[j].lease
        /\ now < job[j].lease /\ Budget(row[t])
    BY <2>1 DEF IInv, LeaseHeld
  <2>3. now \in Nat /\ row[t].leaseUntil \in Nat
    BY DEF IInv, TypeOK, Row
  <2>4. ~(row[t].leaseUntil < now)
    BY <2>2, <2>3
  <2>5. row'[t] = row[t]
    BY <2>4 DEF RunMaintenance
  <2> QED
    BY <1>2, <2>2, <2>5
<1>5. LeaseHeld'
  BY <1>4 DEF LeaseHeld, Budget
<1> QED
  BY <1>1, <1>3, <1>5 DEF IInv

LEMMA HandlersIInv == IInv /\ Handlers => IInv'
<1> SUFFICES ASSUME IInv, Handlers PROVE IInv'
  OBVIOUS
<1>1. ASSUME NEW t \in Tasks, NEW d \in Inputs, CreateTask(t, d) PROVE IInv'
  BY <1>1, CreateTaskIInv
<1>2. ASSUME NEW t \in Tasks, NEW e \in Editors, NEW p \in Patches, PatchRead(e, t, p)
      PROVE  IInv'
  <2>1. TypeOK'
    BY <1>2, PatchReadType DEF IInv
  <2>2. UNCHANGED <<now, row, disturbed, phase, job>>
    BY <1>2 DEF PatchRead
  <2> QED
    BY <2>1, <2>2, QuietStep DEF Stored, Live
<1>3. ASSUME NEW t \in Tasks, DeleteTask(t) \/ WriteTombstone(t) PROVE IInv'
  <2>1. TypeOK'
    BY <1>3, DeleteTaskType, WriteTombstoneType DEF IInv
  <2>2. UNCHANGED <<now, row, disturbed, job>>
    BY <1>3 DEF DeleteTask, WriteTombstone
  <2>3. \A u \in Tasks : /\ Stored(u)' => Stored(u)
                         /\ phase[u] # "unborn" => phase'[u] # "unborn"
    BY <1>3 DEF IInv, TypeOK, DeleteTask, WriteTombstone, Stored
  <2> QED
    BY <2>1, <2>2, <2>3, QuietStep DEF Live
<1>4. ASSUME NEW t \in Tasks, NEW p \in Pods, TriggerNow(p, t) PROVE IInv'
  BY <1>4, TriggerNowIInv
<1>5. ASSUME NEW e \in Editors, PatchWrite(e) PROVE IInv'
  BY <1>5, PatchWriteIInv
<1> QED
  BY <1>1, <1>2, <1>3, <1>4, <1>5 DEF Handlers

LEMMA NextIInv == IInv /\ [Next]_vars => IInv'
<1> SUFFICES ASSUME IInv, [Next]_vars PROVE IInv'
  OBVIOUS
<1>1. CASE Tick
  BY <1>1, TickIInv
<1>2. CASE Handlers
  BY <1>2, HandlersIInv
<1>3. CASE \E p \in Pods, locked \in SUBSET Tasks : Scan(p, locked)
  BY <1>3, ScanIInv
<1>4. CASE \E j \in Jobs : JobStep(j)
  BY <1>4, JobStepIInv
<1>5. CASE Processes
  BY <1>5, ProcessIInv DEF Processes
<1>6. CASE RunMaintenance
  BY <1>6, MaintenanceIInv
<1>7. CASE UNCHANGED vars
  <2>1. TypeOK' /\ UNCHANGED <<now, row, disturbed, phase, job>>
    BY <1>7, NextType DEF IInv, vars
  <2> QED
    BY <2>1, QuietStep DEF Stored, Live
<1> QED
  BY <1>1, <1>2, <1>3, <1>4, <1>5, <1>6, <1>7 DEF Next

(* For any number of pods, jobs and tasks and under any crash or fault, two  *)
(* goroutines never work for one task unless a lease was outlived or the row *)
(* was patched while claimed.                                                *)
THEOREM Exclusive == Spec => []ExclusiveUntilDisturbed
<1>1. Init => IInv
  BY InitIInv
<1>2. IInv /\ [Next]_vars => IInv'
  BY NextIInv
<1>3. IInv => ExclusiveUntilDisturbed
  BY DEF IInv
<1> QED
  BY <1>1, <1>2, <1>3, PTL DEF Spec

(* The row of an undisturbed live goroutine carries its lease and budget.    *)
THEOREM LeaseKept == Spec => []LeaseHeld
<1>1. IInv => LeaseHeld
  BY DEF IInv
<1> QED
  BY <1>1, InitIInv, NextIInv, PTL DEF Spec
-----------------------------------------------------------------------------
(* The budget of a task. *)

(* No action but the completion of a run raises a count. *)
LEMMA CountRaised ==
    ASSUME IInv, [Next]_vars, NEW t \in Tasks, row'[t].runCount > row[t].runCount
    PROVE  \E j \in Jobs : UpdateTaskAfterRun(j) /\ job[j].task = t /\ Stored(t)
<1>1. row[t] \in Row /\ row[t].runCount \in Nat
  BY DEF IInv, TypeOK, Row
<1>2. row'[t] # row[t]
  BY <1>1
<1>3. ASSUME NEW batch \in SUBSET Tasks, ClaimRows(batch) PROVE FALSE
  <2>1. row'[t] = row[t] \/ row'[t] = Claimed(row[t])
    BY <1>3 DEF ClaimRows
  <2>2. Claimed(row[t]).runCount = row[t].runCount
    BY <1>1 DEF Claimed, Row
  <2> QED
    BY <1>1, <2>1, <2>2
<1>4. CASE Tick
  BY <1>2, <1>4 DEF Tick
<1>5. CASE Handlers
  <2>1. ASSUME NEW u \in Tasks, NEW d \in Inputs, CreateTask(u, d) PROVE FALSE
    BY <1>1, <1>2, <2>1 DEF CreateTask, EmptyRow, IInv, TypeOK
  <2>2. ASSUME NEW u \in Tasks, NEW p \in Pods, TriggerNow(p, u) PROVE FALSE
    BY <1>3, <2>2 DEF TriggerNow
  <2>3. ASSUME NEW e \in Editors, PatchWrite(e) PROVE FALSE
    BY <1>1, <1>2, <2>3 DEF PatchWrite, IInv, TypeOK, Row
  <2> QED
    BY <1>2, <1>5, <2>1, <2>2, <2>3 DEF Handlers, PatchRead, DeleteTask, WriteTombstone
<1>6. CASE \E p \in Pods, locked \in SUBSET Tasks : Scan(p, locked)
  <2>1. PICK p \in Pods, locked \in SUBSET Tasks : Scan(p, locked)
    BY <1>6
  <2>2. PICK batch \in Batches(locked) : ClaimRows(batch)
    BY <2>1 DEF Scan
  <2> QED
    BY <1>3, <2>2 DEF Batches
<1>7. CASE \E j \in Jobs : JobStep(j)
  BY <1>2, <1>7 DEF JobStep, InsertRun, InsertRunFails, AbandonTrigger,
     ExecutorReturns, FinishRun, UpdateTaskAfterRun, IInv, TypeOK
<1>8. CASE Processes
  BY <1>2, <1>8 DEF Processes, Crash, Stop, Exit, Start
<1>9. CASE RunMaintenance
  BY <1>1, <1>9 DEF RunMaintenance, Row
<1>10. CASE UNCHANGED vars
  BY <1>2, <1>10 DEF vars
<1> QED
  BY <1>4, <1>5, <1>6, <1>7, <1>8, <1>9, <1>10 DEF Next

(* While the lease protocol of a task is undisturbed, no completed run is    *)
(* counted beyond max_runs.                                                  *)
THEOREM CapKept == Spec => CapHonoured
<1>1. ASSUME IInv, [Next]_vars
      PROVE  \A t \in Tasks :
                row'[t].runCount > row[t].runCount => disturbed[t] \/ Budget(row[t])
  <2> SUFFICES ASSUME NEW t \in Tasks, row'[t].runCount > row[t].runCount, ~disturbed[t]
               PROVE  Budget(row[t])
    OBVIOUS
  <2>1. PICK j \in Jobs : UpdateTaskAfterRun(j) /\ job[j].task = t /\ Stored(t)
    BY <1>1, CountRaised
  <2>2. j \in LiveOn(t)
    BY <2>1 DEF UpdateTaskAfterRun, LiveOn, Live, LivePCs
  <2> QED
    BY <1>1, <2>1, <2>2 DEF IInv, LeaseHeld
<1>2. IInv /\ [Next]_vars =>
        [\A t \in Tasks :
            row'[t].runCount > row[t].runCount => disturbed[t] \/ Budget(row[t])]_vars
  BY <1>1
<1> QED
  BY <1>2, InitIInv, NextIInv, PTL DEF Spec, CapHonoured
-----------------------------------------------------------------------------
(* The rows of runs. *)

(* The run row of a job: none before it executes, and of a stored task.      *)
RunKept(j) ==
    /\ job[j].pc \in {"free", "queued"} => run[j].status = "none"
    /\ run[j].status # "none" => job[j].task \in Tasks /\ Stored(job[j].task)

RunsInv == \A j \in Jobs : RunKept(j)

(* What a goroutine leaves when it ends.                                     *)
LEMMA EndedFields ==
    ASSUME NEW g \in Job, NEW pc \in EndPCs
    PROVE  /\ Ended(g, pc).pc = pc /\ Ended(g, pc).task = g.task
           /\ Ended(g, pc).persistBy = g.persistBy
BY EmptyTypes DEF Ended, Job

(* A step that leaves runs and tasks alone, and in which every job stays,    *)
(* starts, or ends with what it had, keeps the invariant.                    *)
LEMMA RunsQuiet ==
    ASSUME TypeOK, TypeOK', RunsInv, run' = run, now <= now',
           \A t \in Tasks : Stored(t) => Stored(t)',
           \A j \in Jobs : \/ job'[j] = job[j]
                           \/ run[j].status = "none" /\ job'[j].pc \in {"queued", "done"}
                           \/ /\ job'[j].pc = "crashed"
                              /\ job'[j].task = job[j].task
    PROVE  RunsInv'
<1> SUFFICES ASSUME NEW j \in Jobs PROVE RunKept(j)'
  BY DEF RunsInv
<1>1. RunKept(j) /\ now \in Nat /\ now' \in Nat /\ job[j].persistBy \in Nat
  BY DEF RunsInv, TypeOK, Job
<1>2. CASE job'[j] = job[j]
  BY <1>1, <1>2 DEF RunKept
<1>3. CASE run[j].status = "none" /\ job'[j].pc \in {"queued", "done"}
  BY <1>3 DEF RunKept
<1>4. CASE job'[j].pc = "crashed" /\ job'[j].task = job[j].task
  BY <1>1, <1>4 DEF RunKept
<1> QED
  BY <1>2, <1>3, <1>4

(* Claims start goroutines in free slots only.                               *)
LEMMA ClaimRuns ==
    ASSUME TypeOK, TypeOK', RunsInv,
           \/ \E p \in Pods, locked \in SUBSET Tasks : Scan(p, locked)
           \/ \E p \in Pods, t \in Tasks : TriggerNow(p, t)
    PROVE  RunsInv'
<1>1. UNCHANGED <<run, now, phase>>
  BY DEF Scan, TriggerNow
<1>2. \A p \in Pods, t \in Tasks, o \in {"scan", "trigger"} : NewJob(p, t, o).pc = "queued"
  BY DEF NewJob, NoJob
<1>3. ASSUME NEW j \in Jobs
      PROVE  job'[j] = job[j] \/ (job[j].pc = "free" /\ job'[j].pc = "queued")
  <2>1. ASSUME NEW p \in Pods, NEW locked \in SUBSET Tasks, Scan(p, locked)
        PROVE  job'[j] = job[j] \/ (job[j].pc = "free" /\ job'[j].pc = "queued")
    <3>1. PICK batch \in Batches(locked), slots \in SUBSET FreeJobs :
             \E taskOf \in [slots -> batch] :
                job' = [k \in Jobs |-> IF k \in slots
                                      THEN NewJob(p, taskOf[k], "scan") ELSE job[k]]
      BY <2>1 DEF Scan
    <3>2. PICK taskOf \in [slots -> batch] :
                job' = [k \in Jobs |-> IF k \in slots
                                      THEN NewJob(p, taskOf[k], "scan") ELSE job[k]]
      BY <3>1
    <3>3. batch \subseteq Tasks
      BY DEF Batches
    <3>4. CASE j \in slots
      <4>1. taskOf[j] \in Tasks /\ job[j].pc = "free"
        BY <3>2, <3>3, <3>4 DEF FreeJobs
      <4>2. job'[j] = NewJob(p, taskOf[j], "scan")
        BY <3>2, <3>4
      <4> QED
        BY <4>1, <4>2, <1>2
    <3> QED
      BY <3>2, <3>4
  <2>2. ASSUME NEW p \in Pods, NEW t \in Tasks, TriggerNow(p, t)
        PROVE  job'[j] = job[j] \/ (job[j].pc = "free" /\ job'[j].pc = "queued")
    <3>1. PICK k \in FreeJobs : job' = [job EXCEPT ![k] = NewJob(p, t, "trigger")]
      BY <2>2 DEF TriggerNow
    <3>2. k \in Jobs /\ job[k].pc = "free"
      BY DEF FreeJobs
    <3> QED
      BY <1>2, <3>1, <3>2 DEF TypeOK
  <2> QED
    BY <2>1, <2>2
<1>4. \A j \in Jobs : job[j].pc = "free" => run[j].status = "none"
  BY DEF RunsInv, RunKept
<1>5. now <= now' /\ \A t \in Tasks : Stored(t) => Stored(t)'
  BY <1>1 DEF TypeOK, Stored
<1> QED
  BY <1>1, <1>3, <1>4, <1>5, RunsQuiet

(* The steps of one job.                                                     *)
LEMMA JobRuns ==
    ASSUME IInv, RunsInv, NEW j \in Jobs, JobStep(j)
    PROVE  RunsInv'
<1>1. TypeOK /\ JobsPlaced /\ RunKept(j) /\ job[j] \in Job /\ run[j] \in RunRow
  BY DEF IInv, RunsInv, TypeOK
<1>2. UNCHANGED <<now, phase>>
  BY DEF JobStep, InsertRun, InsertRunFails, AbandonTrigger, ExecutorReturns, FinishRun,
         UpdateTaskAfterRun
<1>3. \A k \in Jobs \ {j} : job'[k] = job[k] /\ run'[k] = run[k]
  BY <1>1 DEF JobStep, InsertRun, InsertRunFails, AbandonTrigger, ExecutorReturns,
         FinishRun, UpdateTaskAfterRun, End, TypeOK
<1>4. \A k \in Jobs \ {j} : RunKept(k)'
  BY <1>2, <1>3 DEF RunsInv, RunKept, Stored
<1>5. ASSUME InsertRun(j) PROVE RunKept(j)'
  <2>1. /\ job[j].pc = "queued" /\ Stored(job[j].task)
        /\ job'[j] = [job[j] EXCEPT !.pc = "executing", !.persistBy = now + PersistTTL]
    BY <1>1, <1>5 DEF InsertRun, TypeOK
  <2>2. job[j].task \in Tasks
    BY <1>1, <2>1 DEF JobsPlaced, Live, LivePCs
  <2>3. job'[j].pc = "executing" /\ job'[j].task = job[j].task
    BY <1>1, <2>1 DEF Job
  <2> QED
    BY <1>2, <2>1, <2>2, <2>3 DEF RunKept, Stored
<1>6. ASSUME InsertRunFails(j) \/ AbandonTrigger(j) PROVE RunKept(j)'
  <2>1. job[j].pc = "queued" /\ run' = run /\ job'[j] = Ended(job[j], "done")
    BY <1>1, <1>6 DEF InsertRunFails, AbandonTrigger, End, TypeOK
  <2>2. run'[j].status = "none" /\ job'[j].pc = "done"
    BY <1>1, <2>1, EndedFields DEF RunKept, EndPCs
  <2> QED
    BY <2>2 DEF RunKept
<1>7. ASSUME NEW outcome \in Outcomes, ExecutorReturns(j, outcome) PROVE RunKept(j)'
  <2>1. /\ job'[j] = [job[j] EXCEPT !.pc = "returned", !.status = outcome]
        /\ run' = run
    BY <1>1, <1>7 DEF ExecutorReturns, TypeOK
  <2>2. /\ job'[j].pc = "returned" /\ job'[j].task = job[j].task
        /\ job'[j].status = outcome
    BY <1>1, <2>1 DEF Job
  <2>3. outcome # "running"
    BY ClockAssumption
  <2> QED
    BY <1>1, <1>2, <2>1, <2>2, <2>3 DEF RunKept, Stored
<1>8. ASSUME FinishRun(j) PROVE RunKept(j)'
  <2>1. /\ job[j].pc = "returned" /\ job'[j] = [job[j] EXCEPT !.pc = "recorded"]
    BY <1>1, <1>8 DEF FinishRun, TypeOK
  <2>2. /\ job'[j].pc = "recorded" /\ job'[j].task = job[j].task
        /\ job'[j].persistBy = job[j].persistBy
    BY <1>1, <2>1 DEF Job
  <2>3. CASE run' = IF run[j].status = "none" THEN run
                    ELSE [run EXCEPT ![j].status = job[j].status]
    <3>1. CASE run[j].status = "none"
      BY <2>2, <2>3, <3>1 DEF RunKept
    <3>2. CASE run[j].status # "none"
      <4>1. run'[j].status = job[j].status
        BY <1>1, <2>3, <3>2 DEF TypeOK, RunRow
      <4> QED
        BY <1>1, <1>2, <2>1, <2>2, <3>2, <4>1 DEF RunKept, Stored
    <3> QED
      BY <3>1, <3>2
  <2>4. CASE PersistFails(j) /\ UNCHANGED run
    BY <1>1, <1>2, <2>2, <2>4 DEF RunKept, Stored, PersistFails
  <2> QED
    BY <1>8, <2>3, <2>4 DEF FinishRun
<1>9. ASSUME UpdateTaskAfterRun(j) PROVE RunKept(j)'
  <2>1. job[j].pc = "recorded" /\ run' = run /\ job'[j] = Ended(job[j], "done")
    BY <1>1, <1>9 DEF UpdateTaskAfterRun, End, TypeOK
  <2>2. /\ job'[j].pc = "done" /\ job'[j].task = job[j].task
        /\ job'[j].persistBy = job[j].persistBy
    BY <1>1, <2>1, EndedFields DEF EndPCs
  <2> QED
    BY <1>1, <1>2, <2>1, <2>2 DEF RunKept, Stored
<1> QED
  BY <1>4, <1>5, <1>6, <1>7, <1>8, <1>9 DEF JobStep, RunsInv

LEMMA DeleteRuns ==
    ASSUME TypeOK, RunsInv, NEW t \in Tasks, DeleteTask(t)
    PROVE  RunsInv'
<1> SUFFICES ASSUME NEW j \in Jobs PROVE RunKept(j)'
  BY DEF RunsInv
<1>1. /\ job' = job /\ now' = now /\ RunKept(j)
      /\ run'[j] = IF job[j].task = t THEN NoRun ELSE run[j]
      /\ \A u \in Tasks \ {t} : phase'[u] = phase[u]
  BY DEF DeleteTask, RunsInv, TypeOK
<1>2. CASE job[j].task = t
  BY <1>1, <1>2 DEF RunKept, NoRun
<1>3. CASE job[j].task # t
  BY <1>1, <1>3 DEF RunKept, Stored
<1> QED
  BY <1>2, <1>3

LEMMA MaintenanceRuns ==
    ASSUME TypeOK, RunsInv, RunMaintenance
    PROVE  RunsInv'
<1> SUFFICES ASSUME NEW j \in Jobs PROVE RunKept(j)'
  BY DEF RunsInv
<1>1. /\ UNCHANGED <<job, now, phase>> /\ RunKept(j) /\ run[j] \in RunRow
      /\ run'[j] = IF Stale(j) THEN [run[j] EXCEPT !.status = "failed"] ELSE run[j]
  BY DEF RunMaintenance, RunsInv, TypeOK
<1>2. CASE Stale(j)
  <2>1. run'[j].status = "failed" /\ run[j].status = "running"
    BY <1>1, <1>2 DEF Stale, RunRow
  <2> QED
    BY <1>1, <2>1 DEF RunKept, Stored
<1>3. CASE ~Stale(j)
  BY <1>1, <1>3 DEF RunKept, Stored
<1> QED
  BY <1>2, <1>3

LEMMA NextRuns == IInv /\ RunsInv /\ [Next]_vars => RunsInv'
<1> SUFFICES ASSUME IInv, RunsInv, [Next]_vars PROVE RunsInv'
  OBVIOUS
<1>1. TypeOK /\ TypeOK'
  BY NextType DEF IInv
<1>2. now \in Nat
  BY <1>1 DEF TypeOK
<1>3. CASE Tick
  <2>1. UNCHANGED <<run, job, phase>> /\ now <= now'
    BY <1>2, <1>3 DEF Tick
  <2> QED
    BY <1>1, <2>1, RunsQuiet DEF Stored
<1>4. ASSUME NEW t \in Tasks,
             \/ \E d \in Inputs : CreateTask(t, d)
             \/ \E e \in Editors, p \in Patches : PatchRead(e, t, p)
             \/ WriteTombstone(t)
      PROVE  RunsInv'
  <2>1. UNCHANGED <<run, job, now>> /\ \A u \in Tasks : Stored(u) => Stored(u)'
    BY <1>1, <1>4 DEF CreateTask, PatchRead, WriteTombstone, Stored, TypeOK
  <2> QED
    BY <1>1, <1>2, <2>1, RunsQuiet
<1>5. ASSUME NEW e \in Editors, PatchWrite(e) PROVE RunsInv'
  <2>1. UNCHANGED <<run, job, now, phase>>
    BY <1>5 DEF PatchWrite
  <2> QED
    BY <1>1, <1>2, <2>1, RunsQuiet DEF Stored
<1>6. CASE Handlers
  BY <1>1, <1>4, <1>5, <1>6, ClaimRuns, DeleteRuns DEF Handlers
<1>7. CASE Processes
  <2>1. UNCHANGED <<run, now, phase>>
    BY <1>7 DEF Processes, Crash, Stop, Exit, Start
  <2>2. ASSUME NEW j \in Jobs
        PROVE  job'[j] = job[j] \/ (job'[j].pc = "crashed" /\ job'[j].task = job[j].task)
    <3>1. job'[j] = job[j] \/ job'[j] = Ended(job[j], "crashed")
      BY <1>1, <1>7 DEF Processes, Crash, Stop, Exit, Start, TypeOK
    <3>2. job[j] \in Job
      BY <1>1 DEF TypeOK
    <3> QED
      BY <3>1, <3>2, EndedFields DEF EndPCs
  <2> QED
    BY <1>1, <1>2, <2>1, <2>2, RunsQuiet DEF Stored
<1>8. CASE UNCHANGED vars
  <2>1. UNCHANGED <<run, job, now, phase>>
    BY <1>8 DEF vars
  <2> QED
    BY <1>1, <1>2, <2>1, RunsQuiet DEF Stored
<1> QED
  BY <1>1, <1>3, <1>6, <1>7, <1>8, ClaimRuns, JobRuns, MaintenanceRuns DEF Next

LEMMA InitRuns == Init => RunsInv
BY DEF Init, RunsInv, RunKept, NoJob, NoRun

(* Deletes leave no run row behind, and no job revives one (the foreign key  *)
(* and its cascade against CreateRun and FinishRun).                         *)
THEOREM RunsOwned == Spec => []NoOrphanRun
<1>1. RunsInv => NoOrphanRun
  BY DEF RunsInv, RunKept, NoOrphanRun
<1> QED
  BY <1>1, InitRuns, InitIInv, NextRuns, NextIInv, PTL DEF Spec
-----------------------------------------------------------------------------
(* One-shot tasks. *)

RanAfterDate(r) == r.runCount > 0 /\ r.def.expr <= r.lastRunAt

(* A one-shot without a cooldown that ran after its date is off.             *)
Retired(r) == r.def.kind = "at" /\ r.def.cooldown = 0 /\ RanAfterDate(r) => ~r.def.enabled

OneShotRetiredUncooled == \A t \in Tasks : Stored(t) => Retired(row[t])

SameSchedule(d, e) == d.kind = e.kind /\ d.expr = e.expr /\ d.cooldown = e.cooldown

(* Nobody edits, so goroutines finish with the schedule of their row.        *)
ShotInv ==
    /\ OneShotRetiredUncooled
    /\ \A e \in Editors : req[e].pc = "idle"
    /\ \A j \in Jobs : Live(j) => SameSchedule(job[j].snap.def, row[job[j].task].def)

(* A step after which rows differ in their leases, and goroutines are those  *)
(* of before.                                                                *)
LEMMA ShotQuiet ==
    ASSUME TypeOK, ShotInv, JobsPlaced, req' = req,
           \A t \in Tasks : Stored(t)' => Stored(t),
           \A t \in Tasks : /\ row'[t].def = row[t].def
                            /\ row'[t].runCount = row[t].runCount
                            /\ row'[t].lastRunAt = row[t].lastRunAt,
           \A j \in Jobs : Live(j)' => /\ Live(j) /\ job'[j].task = job[j].task
                                       /\ job'[j].snap = job[j].snap
    PROVE  ShotInv'
<1>1. OneShotRetiredUncooled'
  BY DEF ShotInv, OneShotRetiredUncooled, Retired, RanAfterDate
<1>2. ASSUME NEW j \in Jobs, Live(j)'
      PROVE  SameSchedule(job'[j].snap.def, row'[job'[j].task].def)
  <2>1. Live(j) /\ job[j].task \in Tasks
    BY <1>2 DEF JobsPlaced
  <2>2. SameSchedule(job[j].snap.def, row[job[j].task].def)
    BY <2>1 DEF ShotInv
  <2>3. job'[j].snap = job[j].snap /\ row'[job'[j].task].def = row[job[j].task].def
    BY <1>2, <2>1
  <2> QED
    BY <2>2, <2>3
<1> QED
  BY <1>1, <1>2 DEF ShotInv

(* Claims copy the row.                                                      *)
LEMMA ShotClaim ==
    ASSUME IInv, ShotInv, NEW p \in Pods, NEW o \in {"scan", "trigger"},
           NEW batch \in SUBSET Tasks, NEW slots \in SUBSET FreeJobs,
           NEW taskOf \in [slots -> batch], ClaimRows(batch), UNCHANGED <<phase, req>>,
           job' = [j \in Jobs |-> IF j \in slots THEN NewJob(p, taskOf[j], o) ELSE job[j]]
    PROVE  ShotInv'
<1>1. ASSUME NEW t \in Tasks
      PROVE  /\ row[t] \in Row /\ row'[t].def = row[t].def
             /\ row'[t].runCount = row[t].runCount /\ row'[t].lastRunAt = row[t].lastRunAt
             /\ Claimed(row[t]).def = row[t].def
  <2>1. row[t] \in Row
    BY DEF IInv, TypeOK
  <2>2. /\ Claimed(row[t]).def = row[t].def /\ Claimed(row[t]).runCount = row[t].runCount
        /\ Claimed(row[t]).lastRunAt = row[t].lastRunAt
    BY <2>1 DEF Claimed, Row
  <2> QED
    BY <2>1, <2>2 DEF ClaimRows
<1>2. OneShotRetiredUncooled'
  BY <1>1 DEF ShotInv, OneShotRetiredUncooled, Retired, RanAfterDate, Stored
<1>3. ASSUME NEW j \in Jobs, Live(j)'
      PROVE  SameSchedule(job'[j].snap.def, row'[job'[j].task].def)
  <2>1. CASE j \in slots
    <3>1. taskOf[j] \in Tasks
      BY <2>1
    <3>2. job'[j].snap = Claimed(row[taskOf[j]]) /\ job'[j].task = taskOf[j]
      BY <2>1 DEF NewJob, NoJob
    <3> QED
      BY <3>1, <3>2, <1>1 DEF SameSchedule
  <2>2. CASE j \notin slots
    <3>1. job'[j] = job[j] /\ Live(j) /\ job[j].task \in Tasks
      BY <1>3, <2>2 DEF Live, IInv, JobsPlaced
    <3> QED
      BY <3>1, <1>1 DEF ShotInv, SameSchedule
  <2> QED
    BY <2>1, <2>2
<1> QED
  BY <1>2, <1>3 DEF ShotInv

(* A completion after the date has no next date to write.                    *)
LEMMA ShotEnds ==
    ASSUME IInv, ShotInv, NEW j \in Jobs, UpdateTaskAfterRun(j)
    PROVE  ShotInv'
<1> DEFINE t    == job[j].task
           g    == job[j].snap
           next == NextRun(g, now)
<1>1. /\ Live(j) /\ ~Live(j)' /\ t \in Tasks /\ now \in Nat
      /\ g \in Row /\ g.def \in Definition /\ row[t] \in Row /\ row[t].def \in Definition
  <2>1. Live(j) /\ t \in Tasks
    BY DEF IInv, JobsPlaced, UpdateTaskAfterRun, Live, LivePCs
  <2>2. job'[j].pc = "done"
    BY EndedFields DEF UpdateTaskAfterRun, End, IInv, TypeOK, EndPCs
  <2> QED
    BY <2>1, <2>2 DEF IInv, TypeOK, Job, Row, Live, LivePCs
<1>2. \A k \in Jobs \ {j} : job'[k] = job[k] /\ (Live(k)' <=> Live(k))
  BY DEF IInv, TypeOK, UpdateTaskAfterRun, End, Live
<1>3. UNCHANGED <<phase, req>> /\ (row' = row \/ row' = [row EXCEPT ![t] = AfterRun(@, next)])
  BY DEF UpdateTaskAfterRun
<1>4. SameSchedule(g.def, row[t].def)
  BY <1>1 DEF ShotInv
<1>5. g.def.kind = "at" /\ g.def.cooldown = 0 /\ g.def.expr <= now => next = 0
  BY DEF NextRun, ComputeNext
<1> DEFINE after == AfterRun(row[t], next)
<1>6. /\ SameSchedule(after.def, row[t].def) /\ after.lastRunAt = now
      /\ next = 0 => ~after.def.enabled
  BY <1>1 DEF AfterRun, Row, Definition, SameSchedule
<1>7. Retired(after)
  BY <1>4, <1>5, <1>6 DEF Retired, RanAfterDate, SameSchedule
<1> HIDE DEF next
<1>8. \A u \in Tasks : row'[u] = row[u] \/ (u = t /\ row'[u] = after)
  BY <1>1, <1>3 DEF IInv, TypeOK
<1> HIDE DEF after, t, g
<1>9. OneShotRetiredUncooled'
  BY <1>3, <1>7, <1>8 DEF ShotInv, OneShotRetiredUncooled, Stored
<1>10. ASSUME NEW k \in Jobs, Live(k)'
       PROVE  SameSchedule(job'[k].snap.def, row'[job'[k].task].def)
  <2>1. k # j /\ job'[k] = job[k] /\ Live(k) /\ job[k].task \in Tasks
    BY <1>1, <1>2, <1>10 DEF IInv, JobsPlaced
  <2>2. SameSchedule(job[k].snap.def, row[job[k].task].def)
    BY <2>1 DEF ShotInv
  <2> QED
    BY <2>1, <2>2, <1>6, <1>8 DEF SameSchedule
<1> QED
  BY <1>3, <1>9, <1>10 DEF ShotInv

LEMMA NextShot == Patches = {} /\ IInv /\ ShotInv /\ [Next]_vars => ShotInv'
<1> SUFFICES ASSUME Patches = {}, IInv, ShotInv, [Next]_vars PROVE ShotInv'
  OBVIOUS
<1>0. TypeOK /\ JobsPlaced
  BY DEF IInv
<1>1. CASE Tick \/ UNCHANGED vars
  <2>1. UNCHANGED <<row, job, phase, req>>
    BY <1>1 DEF Tick, vars
  <2> QED
    BY <1>0, <2>1, ShotQuiet DEF Stored, Live
<1>2. ASSUME NEW t \in Tasks, NEW d \in Inputs, CreateTask(t, d) PROVE ShotInv'
  <2>1. /\ UNCHANGED <<job, req>> /\ phase[t] = "unborn"
        /\ \A u \in Tasks \ {t} : row'[u] = row[u] /\ phase'[u] = phase[u]
        /\ row'[t].runCount = 0
    BY <1>0, <1>2 DEF CreateTask, EmptyRow, TypeOK
  <2>2. Retired(row'[t])
    BY <2>1 DEF Retired, RanAfterDate
  <2>3. OneShotRetiredUncooled'
    BY <2>1, <2>2 DEF ShotInv, OneShotRetiredUncooled, Stored
  <2>4. \A j \in Jobs : Live(j) => job[j].task \in Tasks \ {t}
    BY <1>0, <2>1 DEF JobsPlaced
  <2> QED
    BY <2>1, <2>3, <2>4 DEF ShotInv, Live
<1>3. ASSUME NEW e \in Editors, PatchWrite(e) PROVE ShotInv'
  BY <1>3 DEF PatchWrite, ShotInv
<1>4. ASSUME NEW t \in Tasks, DeleteTask(t) \/ WriteTombstone(t) PROVE ShotInv'
  <2>1. UNCHANGED <<row, job, req>> /\ \A u \in Tasks : Stored(u)' => Stored(u)
    BY <1>0, <1>4 DEF DeleteTask, WriteTombstone, Stored, TypeOK
  <2> QED
    BY <1>0, <2>1, ShotQuiet DEF Live
<1>5. ASSUME NEW p \in Pods, NEW t \in Tasks, TriggerNow(p, t) PROVE ShotInv'
  <2>1. PICK k \in FreeJobs : job' = [job EXCEPT ![k] = NewJob(p, t, "trigger")]
    BY <1>5 DEF TriggerNow
  <2> DEFINE slots == {k}
             taskOf == [j \in slots |-> t]
  <2>2. slots \in SUBSET FreeJobs /\ taskOf \in [slots -> {t}]
    BY <2>1
  <2>3. job' = [j \in Jobs |-> IF j \in slots
                              THEN NewJob(p, taskOf[j], "trigger") ELSE job[j]]
    BY <1>0, <2>1 DEF TypeOK
  <2>4. ClaimRows({t}) /\ UNCHANGED <<phase, req>> /\ {t} \in SUBSET Tasks
    BY <1>5 DEF TriggerNow
  <2> HIDE DEF slots, taskOf
  <2> QED
    BY <2>2, <2>3, <2>4, ShotClaim
<1>6. CASE Handlers
  BY <1>2, <1>3, <1>4, <1>5, <1>6 DEF Handlers
<1>7. ASSUME NEW p \in Pods, NEW locked \in SUBSET Tasks, Scan(p, locked) PROVE ShotInv'
  <2>1. PICK batch \in Batches(locked), slots \in SUBSET FreeJobs :
          \E taskOf \in [slots -> batch] :
             /\ ClaimRows(batch)
             /\ job' = [j \in Jobs |-> IF j \in slots
                                       THEN NewJob(p, taskOf[j], "scan") ELSE job[j]]
    BY <1>7 DEF Scan
  <2>2. PICK taskOf \in [slots -> batch] :
             /\ ClaimRows(batch)
             /\ job' = [j \in Jobs |-> IF j \in slots
                                       THEN NewJob(p, taskOf[j], "scan") ELSE job[j]]
    BY <2>1
  <2>3. batch \in SUBSET Tasks /\ UNCHANGED <<phase, req>>
    BY <1>7 DEF Batches, Scan
  <2> QED
    BY <2>2, <2>3, ShotClaim
<1>8. ASSUME NEW j \in Jobs, JobStep(j) PROVE ShotInv'
  <2>1. CASE UpdateTaskAfterRun(j)
    BY <2>1, ShotEnds
  <2>2. CASE ~UpdateTaskAfterRun(j)
    <3>1. UNCHANGED <<row, phase, req>> /\ \A k \in Jobs \ {j} : job'[k] = job[k]
      BY <1>0, <1>8, <2>2 DEF JobStep, InsertRun, InsertRunFails, AbandonTrigger,
         ExecutorReturns, FinishRun, End, TypeOK
    <3>2. Live(j)' => Live(j) /\ job'[j].task = job[j].task /\ job'[j].snap = job[j].snap
      <4>1. CASE InsertRunFails(j) \/ AbandonTrigger(j)
        <5>1. job'[j].pc = "done"
          BY <1>0, <4>1, EndedFields DEF InsertRunFails, AbandonTrigger, End, TypeOK, EndPCs
        <5> QED
          BY <5>1 DEF Live, LivePCs
      <4>2. CASE InsertRun(j) \/ (\E outcome \in Outcomes : ExecutorReturns(j, outcome))
                 \/ FinishRun(j)
        BY <1>0, <4>2 DEF InsertRun, ExecutorReturns, FinishRun, Live, LivePCs, TypeOK, Job
      <4> QED
        BY <1>8, <2>2, <4>1, <4>2 DEF JobStep
    <3> QED
      BY <1>0, <3>1, <3>2, ShotQuiet DEF Stored, Live
  <2> QED
    BY <2>1, <2>2
<1>9. CASE Processes
  <2>1. UNCHANGED <<row, phase, req>>
    BY <1>9 DEF Processes, Crash, Stop, Exit, Start
  <2>2. ASSUME NEW j \in Jobs, Live(j)' PROVE job'[j] = job[j]
    <3>1. job'[j] = job[j] \/ job'[j] = Ended(job[j], "crashed")
      BY <1>0, <1>9 DEF Processes, Crash, Stop, Exit, Start, TypeOK
    <3>2. Ended(job[j], "crashed").pc = "crashed"
      BY <1>0, EndedFields DEF TypeOK, EndPCs
    <3> QED
      BY <2>2, <3>1, <3>2 DEF Live, LivePCs
  <2>3. \A j \in Jobs : Live(j)' => /\ Live(j) /\ job'[j].task = job[j].task
                                    /\ job'[j].snap = job[j].snap
    BY <2>2 DEF Live
  <2> QED
    BY <1>0, <2>1, <2>3, ShotQuiet DEF Stored
<1>10. CASE RunMaintenance
  <2>1. /\ UNCHANGED <<job, phase, req>>
        /\ \A t \in Tasks : /\ row'[t].def = row[t].def
                            /\ row'[t].runCount = row[t].runCount
                            /\ row'[t].lastRunAt = row[t].lastRunAt
    BY <1>0, <1>10 DEF RunMaintenance, TypeOK, Row
  <2> QED
    BY <1>0, <2>1, ShotQuiet DEF Stored, Live
<1> QED
  BY <1>1, <1>6, <1>7, <1>8, <1>9, <1>10 DEF Next

(* What the schedule's comment says of one-shot tasks holds of those without *)
(* a cooldown that nobody edits, whatever pods, triggers, crashes and lost   *)
(* completions do: only the cooldown gives an elapsed one a date (NextRun).  *)
THEOREM OneShotEnds == ASSUME Patches = {} PROVE Spec => []OneShotRetiredUncooled
<1>1. Init => ShotInv
  BY DEF Init, ShotInv, OneShotRetiredUncooled, Stored, Idle, Live, LivePCs, NoJob
<1>2. IInv /\ ShotInv /\ [Next]_vars => ShotInv'
  BY NextShot
<1>3. ShotInv => OneShotRetiredUncooled
  BY DEF ShotInv
<1> QED
  BY <1>1, <1>2, <1>3, InitIInv, NextIInv, PTL DEF Spec
-----------------------------------------------------------------------------
(* What a completion writes. *)

(* The schedule and the count that goroutine j works with are those of its   *)
(* row.                                                                      *)
Fresh(j, t) ==
    job[j].snap.def = row[t].def /\ job[j].snap.runCount = row[t].runCount

(* The row is as the claim found it while nothing disturbed it.              *)
SnapKept == \A t \in Tasks : ~disturbed[t] /\ Stored(t) => \A j \in LiveOn(t) : Fresh(j, t)

(* A completed run leaves its task at least its cooldown, or no budget.      *)
CooldownHonoured ==
    [][\A t \in Tasks :
          /\ row'[t].runCount > row[t].runCount
          /\ row[t].def.cooldown > 0 /\ ~disturbed[t]
          => row'[t].nextRunAt >= now + row[t].def.cooldown \/ ~Budget(row'[t])]_vars

(* It is enough that an undisturbed live goroutine was one and has its       *)
(* snapshot, and its row the definition and the count.                       *)
LEMMA SnapQuiet ==
    ASSUME SnapKept,
           \A t \in Tasks, j \in Jobs :
              ~disturbed'[t] /\ Stored(t)' /\ Live(j)' /\ job'[j].task = t
                => /\ ~disturbed[t] /\ Stored(t) /\ Live(j) /\ job[j].task = t
                   /\ job'[j].snap = job[j].snap
                   /\ row'[t].def = row[t].def /\ row'[t].runCount = row[t].runCount
    PROVE  SnapKept'
<1> SUFFICES ASSUME NEW t \in Tasks, (~disturbed[t] /\ Stored(t))', NEW j \in Jobs,
                    Live(j)', job'[j].task = t
             PROVE  Fresh(j, t)'
  BY DEF SnapKept, LiveOn
<1>1. j \in LiveOn(t) /\ ~disturbed[t] /\ Stored(t)
  BY DEF LiveOn
<1>2. Fresh(j, t)
  BY <1>1 DEF SnapKept
<1> QED
  BY <1>2 DEF Fresh

LEMMA SnapClaim ==
    ASSUME TypeOK, SnapKept, NEW p \in Pods, NEW o \in {"scan", "trigger"},
           NEW batch \in SUBSET Tasks, NEW slots \in SUBSET FreeJobs,
           NEW taskOf \in [slots -> batch], ClaimRows(batch), UNCHANGED phase,
           job' = [j \in Jobs |-> IF j \in slots THEN NewJob(p, taskOf[j], o) ELSE job[j]]
    PROVE  SnapKept'
<1> SUFFICES ASSUME NEW t \in Tasks, ~disturbed'[t], Stored(t)', NEW j \in Jobs,
                    Live(j)', job'[j].task = t
             PROVE  Fresh(j, t)'
  BY DEF SnapKept, LiveOn
<1>1. /\ Claimed(row[t]).def = row[t].def /\ Claimed(row[t]).runCount = row[t].runCount
      /\ row'[t].def = row[t].def /\ row'[t].runCount = row[t].runCount
  <2>1. row[t] \in Row
    BY DEF TypeOK
  <2>2. Claimed(row[t]).def = row[t].def /\ Claimed(row[t]).runCount = row[t].runCount
    BY <2>1 DEF Claimed, Row
  <2> QED
    BY <2>2 DEF ClaimRows
<1>2. CASE j \in slots
  <2>1. job'[j].snap = Claimed(row[taskOf[j]]) /\ job'[j].task = taskOf[j]
    BY <1>2 DEF NewJob, NoJob
  <2> QED
    BY <1>1, <2>1 DEF Fresh
<1>3. CASE j \notin slots
  <2>1. job'[j] = job[j] /\ Live(j) /\ job[j].task = t
    BY <1>3 DEF Live
  <2>2. j \in LiveOn(t)
    BY <2>1 DEF LiveOn
  <2>3. ~disturbed[t] /\ Stored(t)
    BY <2>2 DEF ClaimRows, Stored
  <2>4. Fresh(j, t)
    BY <2>2, <2>3 DEF SnapKept
  <2> QED
    BY <1>1, <2>1, <2>4 DEF Fresh
<1> QED
  BY <1>2, <1>3

(* The steps of one job.  The last one changes the row, and was alone.       *)
LEMMA SnapJob ==
    ASSUME IInv, SnapKept, NEW j \in Jobs, JobStep(j)
    PROVE  SnapKept'
<1>0. TypeOK
  BY DEF IInv
<1>1. UNCHANGED <<phase, disturbed>> /\ \A k \in Jobs \ {j} : job'[k] = job[k]
  BY <1>0 DEF JobStep, InsertRun, InsertRunFails, AbandonTrigger, ExecutorReturns,
     FinishRun, UpdateTaskAfterRun, End, TypeOK
<1>2. CASE UpdateTaskAfterRun(j)
  <2>1. job'[j].pc = "done" /\ Live(j)
    BY <1>0, <1>2, EndedFields DEF UpdateTaskAfterRun, End, TypeOK, EndPCs, Live, LivePCs
  <2>2. \A t \in Tasks \ {job[j].task} : row'[t] = row[t]
    BY <1>0, <1>2 DEF UpdateTaskAfterRun, TypeOK
  <2>3. ASSUME NEW t \in Tasks, NEW k \in Jobs,
               ~disturbed'[t] /\ Stored(t)' /\ Live(k)' /\ job'[k].task = t
        PROVE  /\ ~disturbed[t] /\ Stored(t) /\ Live(k) /\ job[k].task = t
               /\ job'[k].snap = job[k].snap /\ row'[t] = row[t]
    <3>1. k # j /\ job'[k] = job[k]
      BY <1>1, <2>1, <2>3 DEF Live, LivePCs
    <3>2. /\ ~disturbed[t] /\ Stored(t) /\ Live(k) /\ job[k].task = t
      BY <1>1, <2>3, <3>1 DEF Stored, Live
    <3>3. t # job[j].task
      BY <2>1, <3>1, <3>2 DEF IInv, ExclusiveUntilDisturbed, LiveOn
    <3> QED
      BY <2>2, <3>1, <3>2, <3>3
  <2> QED
    BY <2>3, SnapQuiet
<1>3. CASE ~UpdateTaskAfterRun(j)
  <2>1. row' = row
    BY <1>3 DEF JobStep, InsertRun, InsertRunFails, AbandonTrigger, ExecutorReturns, FinishRun
  <2>2. Live(j)' => Live(j) /\ job'[j].task = job[j].task /\ job'[j].snap = job[j].snap
    <3>1. CASE InsertRunFails(j) \/ AbandonTrigger(j)
      <4>1. job'[j].pc = "done"
        BY <1>0, <3>1, EndedFields DEF InsertRunFails, AbandonTrigger, End, TypeOK, EndPCs
      <4> QED
        BY <4>1 DEF Live, LivePCs
    <3>2. CASE InsertRun(j) \/ (\E outcome \in Outcomes : ExecutorReturns(j, outcome))
               \/ FinishRun(j)
      BY <1>0, <3>2 DEF InsertRun, ExecutorReturns, FinishRun, Live, LivePCs, TypeOK, Job
    <3> QED
      BY <1>3, <3>1, <3>2 DEF JobStep
  <2>3. \A k \in Jobs : Live(k)' => /\ Live(k) /\ job'[k].task = job[k].task
                                    /\ job'[k].snap = job[k].snap
    BY <1>1, <2>2 DEF Live
  <2> QED
    BY <1>1, <2>1, <2>3, SnapQuiet DEF Stored
<1> QED
  BY <1>2, <1>3

LEMMA NextSnap == IInv /\ SnapKept /\ [Next]_vars => SnapKept'
<1> SUFFICES ASSUME IInv, SnapKept, [Next]_vars PROVE SnapKept'
  OBVIOUS
<1>0. TypeOK /\ JobsPlaced
  BY DEF IInv
<1>1. CASE Tick
  <2>1. UNCHANGED <<row, job, phase>> /\ \A t \in Tasks : ~disturbed'[t] => ~disturbed[t]
    BY <1>1 DEF Tick
  <2> QED
    BY <2>1, SnapQuiet DEF Stored, Live
<1>2. ASSUME NEW t \in Tasks, NEW d \in Inputs, CreateTask(t, d) PROVE SnapKept'
  <2>1. /\ UNCHANGED <<job, disturbed>> /\ phase[t] = "unborn"
        /\ \A u \in Tasks \ {t} : row'[u] = row[u] /\ phase'[u] = phase[u]
    BY <1>0, <1>2 DEF CreateTask, TypeOK
  <2>2. \A j \in Jobs : Live(j) => job[j].task # t
    BY <1>0, <2>1 DEF JobsPlaced
  <2> QED
    BY <2>1, <2>2, SnapQuiet DEF Stored, Live
<1>3. ASSUME NEW e \in Editors, PatchWrite(e) PROVE SnapKept'
  <2> DEFINE t == req[e].task
  <2>1. /\ UNCHANGED <<job, phase>>
        /\ \A u \in Tasks \ {t} : row'[u] = row[u] /\ disturbed'[u] = disturbed[u]
        /\ Stored(t) \/ UNCHANGED <<row, disturbed>>
        /\ t \in Tasks /\ Stored(t) => disturbed'[t] = (disturbed[t] \/ LiveOn(t) # {})
    BY <1>0, <1>3 DEF PatchWrite, TypeOK
  <2>2. ASSUME NEW u \in Tasks, NEW j \in Jobs,
               ~disturbed'[u] /\ Stored(u)' /\ Live(j)' /\ job'[j].task = u
        PROVE  /\ ~disturbed[u] /\ Stored(u) /\ Live(j) /\ job[j].task = u
               /\ job'[j].snap = job[j].snap /\ row'[u] = row[u]
    <3>1. Stored(u) /\ Live(j) /\ job[j].task = u /\ j \in LiveOn(u)
      BY <2>1, <2>2 DEF Stored, Live, LiveOn
    <3> QED
      BY <2>1, <2>2, <3>1
  <2> QED
    BY <2>2, SnapQuiet
<1>4. ASSUME NEW t \in Tasks,
             \/ DeleteTask(t) \/ WriteTombstone(t)
             \/ \E e \in Editors, p \in Patches : PatchRead(e, t, p)
      PROVE  SnapKept'
  <2>1. UNCHANGED <<row, job, disturbed>> /\ \A u \in Tasks : Stored(u)' => Stored(u)
    BY <1>0, <1>4 DEF DeleteTask, WriteTombstone, PatchRead, Stored, TypeOK
  <2> QED
    BY <2>1, SnapQuiet DEF Live
<1>5. ASSUME NEW p \in Pods, NEW t \in Tasks, TriggerNow(p, t) PROVE SnapKept'
  <2>1. PICK k \in FreeJobs : job' = [job EXCEPT ![k] = NewJob(p, t, "trigger")]
    BY <1>5 DEF TriggerNow
  <2> DEFINE slots == {k}
             taskOf == [j \in slots |-> t]
  <2>2. slots \in SUBSET FreeJobs /\ taskOf \in [slots -> {t}]
    BY <2>1
  <2>3. job' = [j \in Jobs |-> IF j \in slots
                              THEN NewJob(p, taskOf[j], "trigger") ELSE job[j]]
    BY <1>0, <2>1 DEF TypeOK
  <2>4. ClaimRows({t}) /\ UNCHANGED phase /\ {t} \in SUBSET Tasks
    BY <1>5 DEF TriggerNow
  <2> HIDE DEF slots, taskOf
  <2> QED
    BY <1>0, <2>2, <2>3, <2>4, SnapClaim
<1>6. CASE Handlers
  BY <1>2, <1>3, <1>4, <1>5, <1>6 DEF Handlers
<1>7. ASSUME NEW p \in Pods, NEW locked \in SUBSET Tasks, Scan(p, locked) PROVE SnapKept'
  <2>1. PICK batch \in Batches(locked), slots \in SUBSET FreeJobs :
          \E taskOf \in [slots -> batch] :
             /\ ClaimRows(batch)
             /\ job' = [j \in Jobs |-> IF j \in slots
                                       THEN NewJob(p, taskOf[j], "scan") ELSE job[j]]
    BY <1>7 DEF Scan
  <2>2. PICK taskOf \in [slots -> batch] :
             /\ ClaimRows(batch)
             /\ job' = [j \in Jobs |-> IF j \in slots
                                       THEN NewJob(p, taskOf[j], "scan") ELSE job[j]]
    BY <2>1
  <2>3. batch \in SUBSET Tasks /\ UNCHANGED phase
    BY <1>7 DEF Batches, Scan
  <2> QED
    BY <1>0, <2>2, <2>3, SnapClaim
<1>8. CASE Processes
  <2>1. UNCHANGED <<row, phase, disturbed>>
    BY <1>8 DEF Processes, Crash, Stop, Exit, Start
  <2>2. ASSUME NEW j \in Jobs, Live(j)' PROVE job'[j] = job[j] /\ Live(j)
    <3>1. job'[j] = job[j] \/ job'[j] = Ended(job[j], "crashed")
      BY <1>0, <1>8 DEF Processes, Crash, Stop, Exit, Start, TypeOK
    <3>2. Ended(job[j], "crashed").pc = "crashed"
      BY <1>0, EndedFields DEF TypeOK, EndPCs
    <3> QED
      BY <2>2, <3>1, <3>2 DEF Live, LivePCs
  <2> QED
    BY <2>1, <2>2, SnapQuiet DEF Stored
<1>9. CASE RunMaintenance
  <2>1. /\ UNCHANGED <<job, phase, disturbed>>
        /\ \A t \in Tasks : row'[t].def = row[t].def /\ row'[t].runCount = row[t].runCount
    BY <1>0, <1>9 DEF RunMaintenance, TypeOK, Row
  <2> QED
    BY <2>1, SnapQuiet DEF Stored, Live
<1>10. CASE UNCHANGED vars
  BY <1>10, SnapQuiet DEF vars, Stored, Live
<1> QED
  BY <1>1, <1>6, <1>7, <1>8, <1>9, <1>10, SnapJob DEF Next

LEMMA CooldownAhead ==
    ASSUME NEW r \in Row, NEW base \in Nat, r.def.cooldown > 0,
           r.def.maxRuns = 0 \/ r.runCount + 1 < r.def.maxRuns
    PROVE  NextRun(r, base) >= base + r.def.cooldown
<1>1. /\ r.def \in Definition /\ r.runCount \in Nat
      /\ r.def.cooldown \in Nat /\ r.def.maxRuns \in Nat
  BY DEF Row, Definition
<1>2. ComputeNext(r.def, base) \in Int
  BY <1>1, ComputeNextType
<1> QED
  BY <1>1, <1>2 DEF NextRun

(* The snapshot of an undisturbed goroutine gives what the row gives.        *)
LEMMA CompletionStep ==
    ASSUME IInv, SnapKept, [Next]_vars, NEW t \in Tasks,
           row'[t].runCount > row[t].runCount, ~disturbed[t]
    PROVE  row'[t] = AfterRun(row[t], NextRun(row[t], now))
<1>1. PICK j \in Jobs : UpdateTaskAfterRun(j) /\ job[j].task = t /\ Stored(t)
  BY CountRaised
<1>2. row[t] \in Row /\ row[t].runCount \in Nat
  BY DEF IInv, TypeOK, Row
<1>3. Fresh(j, t)
  <2>1. j \in LiveOn(t)
    BY <1>1 DEF UpdateTaskAfterRun, LiveOn, Live, LivePCs
  <2> QED
    BY <1>1, <2>1 DEF SnapKept
<1>4. NextRun(job[j].snap, now) = NextRun(row[t], now)
  BY <1>3 DEF Fresh, NextRun
<1>5. row' = row \/ row' = [row EXCEPT ![t] = AfterRun(@, NextRun(row[t], now))]
  BY <1>1, <1>4 DEF UpdateTaskAfterRun
<1>6. row' # row
  BY <1>2
<1> QED
  BY <1>5, <1>6 DEF IInv, TypeOK

(* What a completion writes is what the row calls for then, whatever claims, *)
(* triggers, crashes and maintenance came since the snapshot was taken, but  *)
(* for a PATCH or an expired lease that met the goroutine (dispatch,         *)
(* UpdateTaskAfterRun).                                                      *)
THEOREM CompletionCurrent == Spec => CompletionIsCurrent
<1> DEFINE Current(t) ==
       row'[t].runCount > row[t].runCount /\ ~disturbed[t] =>
          LET next == NextRun(row[t], now)
          IN  /\ row'[t].nextRunAt = next
              /\ row'[t].def.enabled = (row[t].def.enabled /\ next # 0)
<1>1. ASSUME IInv, SnapKept, [Next]_vars, NEW t \in Tasks PROVE Current(t)
  <2> SUFFICES ASSUME row'[t].runCount > row[t].runCount, ~disturbed[t]
               PROVE  /\ row'[t].nextRunAt = NextRun(row[t], now)
                      /\ row'[t].def.enabled = (row[t].def.enabled /\ NextRun(row[t], now) # 0)
    OBVIOUS
  <2> DEFINE next == NextRun(row[t], now)
  <2>1. row'[t] = AfterRun(row[t], next)
    BY <1>1, CompletionStep
  <2>2. row[t] \in Row /\ row[t].def \in Definition
    BY <1>1 DEF IInv, TypeOK, Row
  <2> HIDE DEF next
  <2>3. row'[t].nextRunAt = next
    BY <2>1, <2>2 DEF AfterRun, Row
  <2>4. row'[t].def.enabled = IF next = 0 THEN FALSE ELSE row[t].def.enabled
    <3>1. row'[t].def = [row[t].def EXCEPT !.enabled = IF next = 0 THEN FALSE ELSE @]
      BY <2>1, <2>2 DEF AfterRun, Row
    <3> QED
      BY <2>2, <3>1, Zenon DEF Definition
  <2>5. row[t].def.enabled \in BOOLEAN
    BY <2>2 DEF Definition
  <2>6. (IF next = 0 THEN FALSE ELSE row[t].def.enabled) = (row[t].def.enabled /\ next # 0)
    BY <2>5
  <2> QED
    BY <2>3, <2>4, <2>6 DEF next
<1>2. IInv /\ SnapKept /\ [Next]_vars => [\A t \in Tasks : Current(t)]_vars
  BY <1>1
<1>3. Init => SnapKept
  BY DEF Init, SnapKept, Stored
<1> QED
  BY <1>2, <1>3, InitIInv, NextIInv, NextSnap, PTL DEF Spec, CompletionIsCurrent

(* A completed run leaves its task at least its cooldown before the next     *)
(* date, or no budget: the snapshot that the goroutine computes with is      *)
(* still true unless a PATCH or an expired lease came between (dispatch,     *)
(* UpdateTaskAfterRun).                                                      *)
THEOREM CooldownKept == Spec => CooldownHonoured
<1>1. ASSUME IInv, SnapKept, [Next]_vars, NEW t \in Tasks,
             row'[t].runCount > row[t].runCount,
             row[t].def.cooldown > 0, ~disturbed[t]
      PROVE  row'[t].nextRunAt >= now + row[t].def.cooldown \/ ~Budget(row'[t])
  <2> DEFINE next == NextRun(row[t], now)
  <2>1. row'[t] = AfterRun(row[t], next)
    BY <1>1, CompletionStep
  <2>2. /\ row[t] \in Row /\ now \in Nat
        /\ row[t].def \in Definition /\ row[t].runCount \in Nat
    BY <1>1 DEF IInv, TypeOK, Row
  <2>3. row[t].def.maxRuns = 0 \/ row[t].runCount + 1 < row[t].def.maxRuns
          => next >= now + row[t].def.cooldown
    BY <1>1, <2>2, CooldownAhead
  <2> HIDE DEF next
  <2>4. /\ row'[t].nextRunAt = next /\ row'[t].runCount = row[t].runCount + 1
        /\ row'[t].def.maxRuns = row[t].def.maxRuns
    BY <2>1, <2>2 DEF AfterRun, Row, Definition
  <2>5. row[t].def.maxRuns \in Nat
    BY <2>2 DEF Definition
  <2> QED
    BY <2>2, <2>3, <2>4, <2>5 DEF Budget
<1>2. IInv /\ SnapKept /\ [Next]_vars =>
        [\A t \in Tasks :
            /\ row'[t].runCount > row[t].runCount
            /\ row[t].def.cooldown > 0 /\ ~disturbed[t]
            => row'[t].nextRunAt >= now + row[t].def.cooldown \/ ~Budget(row'[t])]_vars
  BY <1>1
<1>3. Init => SnapKept
  BY DEF Init, SnapKept, Stored
<1> QED
  BY <1>2, <1>3, InitIInv, NextIInv, NextSnap, PTL DEF Spec, CooldownHonoured

LEMMA NextMultiple ==
    ASSUME NEW a \in Nat, NEW b \in Nat, b # 0
    PROVE  ((a \div b) + 1) * b > a
<1>1. b > 0
  OBVIOUS
<1>2. a < ((a \div b) + 1) * b
  BY <1>1
<1>3. ((a \div b) + 1) * b \in Int
  BY <1>1
<1> QED
  BY <1>2, <1>3

(* The date of a schedule lies after the base, but for three kinds: a        *)
(* one-shot date that has passed gives 0, an interval below a second the     *)
(* base, and a cron expression that never matches a negative number          *)
(* (ComputeNext, whose comment knows of the first only).                     *)
THEOREM DatesAreLater ==
    ASSUME NEW d \in Definition, NEW base \in Nat
    PROVE  \/ ComputeNext(d, base) > base
           \/ d.kind = "at" /\ d.expr <= base /\ ComputeNext(d, base) = 0
           \/ d.kind = "interval" /\ d.expr = 0 /\ ComputeNext(d, base) = base
           \/ d.kind = "cron" /\ d.expr = 0 /\ ComputeNext(d, base) < 0
<1>1. d.expr \in Nat
  BY DEF Definition
<1>2. CASE d.kind = "interval"
  BY <1>1, <1>2 DEF ComputeNext
<1>3. CASE d.kind = "at"
  BY <1>1, <1>3 DEF ComputeNext
<1>4. CASE d.kind = "cron" /\ d.expr = 0
  BY <1>4 DEF ComputeNext, ZeroTimeUnix
<1>5. CASE d.kind = "cron" /\ d.expr # 0
  BY <1>1, <1>5, NextMultiple DEF ComputeNext
<1> QED
  BY <1>2, <1>3, <1>4, <1>5 DEF Definition, ScheduleKinds
=============================================================================

---------------------------- MODULE ScheduledTask ----------------------------
(***************************************************************************)
(* The scheduled-task subsystem of pocketd (backend/internal/scheduledtask *)
(* and its HTTP handlers).  Several pocketd processes ("pods") share one   *)
(* PostgreSQL table of tasks.  Each pod scans the table, claims due rows by *)
(* writing a lease into them, and runs every claimed row in a goroutine of  *)
(* its own (a "job"), which ends by rewriting the row.  Users create,       *)
(* patch, delete and trigger tasks meanwhile, and a pod may crash.          *)
(*                                                                          *)
(* One SQL statement is one step; two statements of the same handler are    *)
(* two steps.  Time is discrete and bounded by MaxTime.                     *)
(***************************************************************************)
EXTENDS Integers, FiniteSets

CONSTANTS
    Tasks,         \* ids of task rows (random, never reused)
    Jobs,          \* ids of goroutines, and of the run row each one inserts
    Pods,          \* pocketd processes that share the database
    FragilePods,   \* the pods that may crash or be told to stop
    Editors,       \* concurrent PATCH requests
    None,          \* stands for "no task", "no pod"
    Inputs,        \* definitions a POST may carry
    Patches,       \* bodies a PATCH may carry: [fields, def]
    MaxParallel,   \* worker slots of a pod, and LIMIT of a scan (default 4)
    PersistTTL,    \* lifetime of dispatch's persistence context (10s)
    LeaseFloor,    \* shortest lease (300s)
    LeaseSlack,    \* what a lease adds to the task's timeout (60s)
    StaleAfter,    \* age at which maintenance abandons a running run (1h)
    Outcomes,      \* how a run may end: success, failed, skipped
    Prompt,        \* do only executors take time, and no longer than allowed?
    DBFaults,      \* may a statement of a job fail without a reason?
    MaxTime        \* bound on the clock

ASSUME ClockAssumption ==
    /\ PersistTTL \in Nat /\ StaleAfter \in Nat /\ MaxTime \in Nat
    /\ LeaseFloor \in Nat \ {0} /\ LeaseSlack \in Nat
    /\ MaxParallel \in Nat \ {0} /\ DBFaults \in BOOLEAN
    /\ Prompt \in BOOLEAN
    /\ Outcomes \subseteq {"success", "failed", "skipped"}

ASSUME NoneAssumption == None \notin Tasks \cup Pods

-----------------------------------------------------------------------------
(* Task definitions: what a user writes. *)

ScheduleKinds == {"cron", "interval", "at"}

(* expr is the period of a cron or interval schedule in whole seconds (0 for *)
(* an interval below one second, and for a cron expression without any match, *)
(* such as 30 February), and the date of an `at`.                            *)
Definition == [enabled : BOOLEAN, kind : ScheduleKinds, expr : Nat,
               maxRuns : Nat, cooldown : Nat, timeout : Nat]

ValidDef(d) == d.timeout > 0

FieldNames == {"enabled", "schedule", "maxRuns", "cooldown", "timeout"}

Patch == [fields : SUBSET FieldNames, def : Definition]

ASSUME InputAssumption ==
    /\ Inputs \subseteq Definition /\ \A d \in Inputs : ValidDef(d)
    /\ Patches \subseteq Patch

(* The definition a PATCH writes: every field it does not name is the one   *)
(* the handler read.                                                        *)
Merge(p, d) ==
    LET Pick(f, new, old) == IF f \in p.fields THEN new ELSE old
    IN  [enabled  |-> Pick("enabled",  p.def.enabled,  d.enabled),
         kind     |-> Pick("schedule", p.def.kind,     d.kind),
         expr     |-> Pick("schedule", p.def.expr,     d.expr),
         maxRuns  |-> Pick("maxRuns",  p.def.maxRuns,  d.maxRuns),
         cooldown |-> Pick("cooldown", p.def.cooldown, d.cooldown),
         timeout  |-> Pick("timeout",  p.def.timeout,  d.timeout)]

(* Unix() of the zero time that the cron library returns when it finds no   *)
(* match within five years: a large negative number.                        *)
ZeroTimeUnix == -1

ComputeNext(d, base) ==
    CASE d.kind = "interval" -> base + d.expr
      [] d.kind = "at"       -> IF d.expr <= base THEN 0 ELSE d.expr
      [] d.kind = "cron"     -> IF d.expr = 0 THEN ZeroTimeUnix
                                ELSE ((base \div d.expr) + 1) * d.expr

(* next_run_at of a row whose owner writes definition d at time base.       *)
FirstRun(d, base) == IF d.enabled THEN ComputeNext(d, base) ELSE 0

(* A row of scheduled_tasks. *)
Row == [def : Definition, nextRunAt : Int, leaseUntil : Nat,
        lastRunAt : Nat, runCount : Nat]

Budget(r) == r.def.maxRuns = 0 \/ r.runCount < r.def.maxRuns

LeaseFor(d) == IF d.timeout + LeaseSlack > LeaseFloor
               THEN d.timeout + LeaseSlack ELSE LeaseFloor

(* The date a finished job gives the row it claimed as snapshot r.          *)
NextRun(r, base) ==
    LET next    == ComputeNext(r.def, base)
        minimum == base + r.def.cooldown
    IN  IF r.def.maxRuns > 0 /\ r.runCount + 1 >= r.def.maxRuns THEN 0
        ELSE IF r.def.cooldown > 0 /\ next < minimum THEN minimum
        ELSE next
-----------------------------------------------------------------------------
VARIABLES
    now,        \* unix seconds, from 1: 0 means "never" in every column
    phase,      \* life of a task id: unborn, stored, deleted, tombstoned
    row,        \* the row of each stored task
    job,        \* the goroutine of each claim
    run,        \* scheduled_task_runs, one row per job that inserted one
    pod,        \* up, stopping (Stop called), down
    req,        \* PATCH requests between their read and their write
    disturbed   \* history: what broke the lease protocol since the last claim

vars == <<now, phase, row, job, run, pod, req, disturbed>>

EmptyRow == [def |-> [enabled |-> FALSE, kind |-> "at", expr |-> 0,
                      maxRuns |-> 0, cooldown |-> 0, timeout |-> 0],
             nextRunAt |-> 0, leaseUntil |-> 0, lastRunAt |-> 0,
             runCount |-> 0]

NoJob == [pc |-> "free", pod |-> None, task |-> None, origin |-> "scan",
          snap |-> EmptyRow, lease |-> 0, persistBy |-> 0,
          status |-> "running"]

NoRun == [status |-> "none", startedAt |-> 0]

Idle == [pc |-> "idle", task |-> None, def |-> EmptyRow.def, next |-> 0]

LivePCs == {"queued", "executing", "returned", "recorded"}
SlotPCs == LivePCs \ {"queued"}
EndPCs  == {"done", "crashed"}

(* What is left of a goroutine that ended: the run row still names its task. *)
Ended(g, pc) == [NoJob EXCEPT !.pc = pc, !.task = g.task, !.persistBy = g.persistBy]

Live(j) == job[j].pc \in LivePCs
LiveOn(t) == {j \in Jobs : Live(j) /\ job[j].task = t}
FreeJobs == {j \in Jobs : job[j].pc = "free"}
Stored(t) == phase[t] = "stored"

Init ==
    /\ now = 1
    /\ phase = [t \in Tasks |-> "unborn"]
    /\ row = [t \in Tasks |-> EmptyRow]
    /\ job = [j \in Jobs |-> NoJob]
    /\ run = [j \in Jobs |-> NoRun]
    /\ pod = [p \in Pods |-> "up"]
    /\ req = [e \in Editors |-> Idle]
    /\ disturbed = [t \in Tasks |-> FALSE]

SlotFree(p) ==
    Cardinality({j \in Jobs : job[j].pod = p /\ job[j].pc \in SlotPCs}) < MaxParallel

(* The execution context of j, opened right after the persistence context,   *)
(* is over.                                                                  *)
ContextOver(j) == job[j].persistBy - PersistTTL + job[j].snap.def.timeout <= now

(* A prompt job does not let time pass now.                                  *)
Urgent(j) ==
    \/ job[j].pc = "queued" /\ SlotFree(job[j].pod)
    \/ job[j].pc = "executing" /\ ContextOver(j)
    \/ job[j].pc \in {"returned", "recorded"}

(* Time passes.  A task whose lease runs out under a live job is disturbed. *)
Tick ==
    /\ now < MaxTime
    /\ Prompt => \A j \in Jobs : ~Urgent(j)
    /\ now' = now + 1
    /\ disturbed' = [t \in Tasks |->
          disturbed[t] \/ \E j \in LiveOn(t) : job[j].lease <= now + 1]
    /\ UNCHANGED <<phase, row, job, run, pod, req>>
-----------------------------------------------------------------------------
(* HTTP handlers *)

(* POST /api/scheduled-tasks *)
CreateTask(t, d) ==
    /\ phase[t] = "unborn"
    /\ phase' = [phase EXCEPT ![t] = "stored"]
    /\ row' = [row EXCEPT ![t] =
          [EmptyRow EXCEPT !.def = d, !.nextRunAt = FirstRun(d, now)]]
    /\ UNCHANGED <<now, job, run, pod, req, disturbed>>

(* PATCH /api/scheduled-tasks/{id}: the handler reads the row, merges,       *)
(* validates and computes the next date ...                                 *)
PatchRead(e, t, p) ==
    LET d == Merge(p, row[t].def)
    IN  /\ req[e].pc = "idle" /\ Stored(t) /\ ValidDef(d)
        /\ req' = [req EXCEPT ![e] =
              [pc |-> "read", task |-> t, def |-> d, next |-> FirstRun(d, now)]]
        /\ UNCHANGED <<now, phase, row, job, run, pod, disturbed>>

(* ... and writes the whole definition back, by id only.                     *)
PatchWrite(e) ==
    LET t == req[e].task
    IN  /\ req[e].pc = "read"
        /\ req' = [req EXCEPT ![e] = Idle]
        /\ IF Stored(t)
           THEN /\ row' = [row EXCEPT ![t].def = req[e].def,
                                      ![t].nextRunAt = req[e].next]
                /\ disturbed' = [disturbed EXCEPT ![t] = @ \/ LiveOn(t) # {}]
           ELSE UNCHANGED <<row, disturbed>>
        /\ UNCHANGED <<now, phase, job, run, pod>>

(* A slip: the delete without the cascade. *)
DeleteTaskOnly(t) ==
    /\ Stored(t)
    /\ phase' = [phase EXCEPT ![t] = "deleted"]
    /\ UNCHANGED <<now, row, job, run, pod, req, disturbed>>

(* DELETE: the row goes, and its runs with it (foreign key cascade) ...      *)
DeleteTask(t) ==
    /\ Stored(t)
    /\ phase' = [phase EXCEPT ![t] = "deleted"]
    /\ run' = [j \in Jobs |-> IF job[j].task = t THEN NoRun ELSE run[j]]
    /\ UNCHANGED <<now, row, job, pod, req, disturbed>>

(* ... then the tombstone is written.  An error here is only logged, so the  *)
(* step may never happen.                                                    *)
WriteTombstone(t) ==
    /\ phase[t] = "deleted"
    /\ phase' = [phase EXCEPT ![t] = "tombstoned"]
    /\ UNCHANGED <<now, row, job, run, pod, req, disturbed>>
-----------------------------------------------------------------------------
(* Claims *)

(* Slips a rewrite of the claim queries could make: no budget check, no      *)
(* recovery of leased rows, no lease check in the manual trigger.            *)
DueIgnoringBudget(t) ==
    /\ Stored(t) /\ row[t].def.enabled
    /\ 0 < row[t].nextRunAt /\ row[t].nextRunAt <= now

DueUnleased(t) ==
    /\ Stored(t) /\ row[t].def.enabled /\ Budget(row[t])
    /\ row[t].leaseUntil = 0
    /\ 0 < row[t].nextRunAt /\ row[t].nextRunAt <= now

ClaimableLeased(t) == Stored(t) /\ Budget(row[t])

ClaimableUncapped(t) == Stored(t) /\ row[t].leaseUntil <= now

Due(t) ==
    /\ Stored(t) /\ row[t].def.enabled /\ Budget(row[t])
    /\ \/ 0 < row[t].nextRunAt  /\ row[t].nextRunAt  <= now
       \/ 0 < row[t].leaseUntil /\ row[t].leaseUntil <= now

Claimable(t) ==
    /\ Stored(t) /\ Budget(row[t])
    /\ row[t].leaseUntil <= now

Claimed(r) == [r EXCEPT !.nextRunAt  = now + LeaseFor(r.def),
                        !.leaseUntil = now + LeaseFor(r.def)]

NewJob(p, t, origin) ==
    [NoJob EXCEPT !.pc = "queued", !.pod = p, !.task = t, !.origin = origin,
                  !.snap = Claimed(row[t]), !.lease = now + LeaseFor(row[t].def)]

(* The rows a scan takes: the oldest due ones, MaxParallel at most; rows     *)
(* that another statement holds locked are skipped.                          *)
Batches(locked) ==
    LET due == {t \in Tasks \ locked : Due(t)}
    IN  {b \in SUBSET due :
            /\ b # {}
            /\ Cardinality(b) <= MaxParallel
            /\ b = due \/ Cardinality(b) = MaxParallel
            /\ \A t \in b, u \in due \ b : row[t].nextRunAt <= row[u].nextRunAt}

ClaimRows(batch) ==
    /\ row' = [t \in Tasks |-> IF t \in batch THEN Claimed(row[t]) ELSE row[t]]
    /\ disturbed' = [t \in Tasks |-> IF t \in batch /\ LiveOn(t) = {}
                                     THEN FALSE ELSE disturbed[t]]

(* One tick of a pod's loop: ClaimDue, and a goroutine per claimed row.      *)
Scan(p, locked) ==
    /\ pod[p] = "up"
    /\ \E batch \in Batches(locked), slots \in SUBSET FreeJobs :
       \E taskOf \in [slots -> batch] :
          /\ \A t \in batch : \E j \in slots : taskOf[j] = t
          /\ \A j, k \in slots : taskOf[j] = taskOf[k] => j = k
          /\ ClaimRows(batch)
          /\ job' = [j \in Jobs |-> IF j \in slots
                                    THEN NewJob(p, taskOf[j], "scan") ELSE job[j]]
    /\ UNCHANGED <<now, phase, run, pod, req>>

(* POST /api/scheduled-tasks/{id}/run: ClaimTaskNow and one goroutine, also  *)
(* in a pod that was told to stop.                                           *)
TriggerNow(p, t) ==
    /\ pod[p] # "down"
    /\ Claimable(t)
    /\ ClaimRows({t})
    /\ \E j \in FreeJobs : job' = [job EXCEPT ![j] = NewJob(p, t, "trigger")]
    /\ UNCHANGED <<now, phase, run, pod, req>>
-----------------------------------------------------------------------------
(* dispatch: the life of a job *)

End(j, pc) == [job EXCEPT ![j] = Ended(@, pc)]

(* The job gets a worker slot, opens its persistence context and inserts     *)
(* its run row ...                                                           *)
InsertRun(j) ==
    /\ job[j].pc = "queued" /\ SlotFree(job[j].pod) /\ Stored(job[j].task)
    /\ job' = [job EXCEPT ![j].pc = "executing",
                          ![j].persistBy = now + PersistTTL]
    /\ run' = [run EXCEPT ![j] = [status |-> "running", startedAt |-> now]]
    /\ UNCHANGED <<now, phase, row, pod, req, disturbed>>

(* ... or gives up: the task is gone (foreign key) or the statement failed.  *)
InsertRunFails(j) ==
    /\ job[j].pc = "queued" /\ SlotFree(job[j].pod)
    /\ DBFaults \/ ~Stored(job[j].task)
    /\ job' = End(j, "done")
    /\ UNCHANGED <<now, phase, row, run, pod, req, disturbed>>

(* A triggered job that still waits for a slot leaves when the pod stops.    *)
AbandonTrigger(j) ==
    /\ job[j].pc = "queued" /\ job[j].origin = "trigger"
    /\ pod[job[j].pod] = "stopping"
    /\ job' = End(j, "done")
    /\ UNCHANGED <<now, phase, row, run, pod, req, disturbed>>

(* The executor returns: a result, a skip, an error, a timeout or a panic.   *)
ExecutorReturns(j, outcome) ==
    /\ job[j].pc = "executing"
    /\ job' = [job EXCEPT ![j].pc = "returned", ![j].status = outcome]
    /\ UNCHANGED <<now, phase, row, run, pod, req, disturbed>>

PersistOk(j)    == now < job[j].persistBy
PersistFails(j) == DBFaults \/ job[j].persistBy <= now

(* FinishRun; its error is logged and dispatch goes on.                      *)
FinishRun(j) ==
    /\ job[j].pc = "returned"
    /\ job' = [job EXCEPT ![j].pc = "recorded"]
    /\ \/ /\ PersistOk(j)
          /\ run' = IF run[j].status = "none" THEN run
                    ELSE [run EXCEPT ![j].status = job[j].status]
       \/ PersistFails(j) /\ UNCHANGED run
    /\ UNCHANGED <<now, phase, row, pod, req, disturbed>>

(* The row after a run: by id, whoever holds its lease by now.               *)
AfterRun(r, next) ==
    [r EXCEPT !.lastRunAt = now, !.runCount = @ + 1, !.nextRunAt = next,
              !.leaseUntil = 0,
              !.def.enabled = IF next = 0 THEN FALSE ELSE @]

UpdateTaskAfterRun(j) ==
    LET t == job[j].task
    IN  /\ job[j].pc = "recorded"
        /\ job' = End(j, "done")
        /\ \/ /\ PersistOk(j)
              /\ row' = IF Stored(t)
                        THEN [row EXCEPT ![t] = AfterRun(@, NextRun(job[j].snap, now))]
                        ELSE row
           \/ PersistFails(j) /\ UNCHANGED row
        /\ UNCHANGED <<now, phase, run, pod, req, disturbed>>
-----------------------------------------------------------------------------
(* Processes and maintenance *)

Crash(p) ==
    /\ p \in FragilePods /\ pod[p] # "down"
    /\ pod' = [pod EXCEPT ![p] = "down"]
    /\ job' = [j \in Jobs |-> IF Live(j) /\ job[j].pod = p
                              THEN Ended(job[j], "crashed")
                              ELSE job[j]]
    /\ UNCHANGED <<now, phase, row, run, req, disturbed>>

(* Stop ends the scan loop and waits for the jobs of the pod.                *)
Stop(p) ==
    /\ p \in FragilePods /\ pod[p] = "up"
    /\ pod' = [pod EXCEPT ![p] = "stopping"]
    /\ UNCHANGED <<now, phase, row, job, run, req, disturbed>>

Exit(p) ==
    /\ pod[p] = "stopping" /\ \A j \in Jobs : job[j].pod = p => ~Live(j)
    /\ pod' = [pod EXCEPT ![p] = "down"]
    /\ UNCHANGED <<now, phase, row, job, run, req, disturbed>>

Start(p) ==
    /\ pod[p] = "down"
    /\ pod' = [pod EXCEPT ![p] = "up"]
    /\ UNCHANGED <<now, phase, row, job, run, req, disturbed>>

Stale(j) == run[j].status = "running" /\ run[j].startedAt < now - StaleAfter

(* A slip: a status of its own for abandoned runs, which no reader knows.    *)
RunMaintenanceMarks ==
    /\ \E j \in Jobs : Stale(j)
    /\ run' = [j \in Jobs |-> IF Stale(j) THEN [run[j] EXCEPT !.status = "abandoned"]
                                          ELSE run[j]]
    /\ UNCHANGED <<now, phase, row, job, pod, req, disturbed>>

(* RunMaintenance, one transaction: abandon stale runs, and clear the        *)
(* expired lease of their tasks.                                             *)
RunMaintenance ==
    /\ \E j \in Jobs : Stale(j)
    /\ run' = [j \in Jobs |-> IF Stale(j) THEN [run[j] EXCEPT !.status = "failed"]
                                          ELSE run[j]]
    /\ row' = [t \in Tasks |->
          IF /\ row[t].leaseUntil < now
             /\ \E j \in Jobs : Stale(j) /\ job[j].task = t
          THEN [row[t] EXCEPT !.leaseUntil = 0] ELSE row[t]]
    /\ UNCHANGED <<now, phase, job, pod, req, disturbed>>
-----------------------------------------------------------------------------
Handlers ==
    \/ \E t \in Tasks : \/ \E d \in Inputs : CreateTask(t, d)
                        \/ \E e \in Editors, p \in Patches : PatchRead(e, t, p)
                        \/ DeleteTask(t)
                        \/ WriteTombstone(t)
                        \/ \E p \in Pods : TriggerNow(p, t)
    \/ \E e \in Editors : PatchWrite(e)

JobStep(j) ==
    \/ InsertRun(j)
    \/ InsertRunFails(j)
    \/ AbandonTrigger(j)
    \/ \E outcome \in Outcomes : ExecutorReturns(j, outcome)
    \/ FinishRun(j)
    \/ UpdateTaskAfterRun(j)

Processes ==
    \E p \in Pods : Crash(p) \/ Stop(p) \/ Exit(p) \/ Start(p)

Next ==
    \/ Tick
    \/ Handlers
    \/ \E p \in Pods, locked \in SUBSET Tasks : Scan(p, locked)
    \/ \E j \in Jobs : JobStep(j)
    \/ Processes
    \/ RunMaintenance

Spec == Init /\ [][Next]_vars

(* The clock runs, a stopped pod exits and is started again by its           *)
(* supervisor, and a pod scans as soon as it starts and on every tick of its *)
(* loop: it cannot be started again and again without ever scanning.         *)
(* Row locks last one statement, so a scan that skips nothing is also        *)
(* repeated.  Jobs go on: an executor must return when its context ends.     *)
(* Users, crashes and maintenance are under no obligation.                   *)
Fairness ==
    /\ WF_vars(Tick)
    /\ \A p \in Pods : WF_vars(Exit(p)) /\ WF_vars(Start(p)) /\ SF_vars(Scan(p, {}))
    /\ \A j \in Jobs : WF_vars(JobStep(j))

FairSpec == Spec /\ Fairness
-----------------------------------------------------------------------------
(* Properties *)

Job == [pc : {"free"} \cup LivePCs \cup EndPCs, pod : Pods \cup {None},
        task : Tasks \cup {None}, origin : {"scan", "trigger"}, snap : Row,
        lease : Nat, persistBy : Nat, status : Outcomes \cup {"running"}]

RunRow == [status : Outcomes \cup {"none", "running", "failed"}, startedAt : Nat]

Request == [pc : {"idle", "read"}, task : Tasks \cup {None},
            def : Definition, next : Int]

(* The variables have the types of the tables, goroutines and requests they  *)
(* stand for.                                                                *)
TypeOK ==
    /\ now \in Nat \ {0}
    /\ phase \in [Tasks -> {"unborn", "stored", "deleted", "tombstoned"}]
    /\ row \in [Tasks -> Row]
    /\ job \in [Jobs -> Job]
    /\ run \in [Jobs -> RunRow]
    /\ pod \in [Pods -> {"up", "stopping", "down"}]
    /\ req \in [Editors -> Request]
    /\ disturbed \in [Tasks -> BOOLEAN]

(* Whatever pods, scans, triggers, crashes, restarts and maintenance do, two *)
(* goroutines work for the same task only if one outlived its lease or a     *)
(* PATCH rewrote the row while it was claimed (ClaimDue, ClaimTaskNow).      *)
ExclusiveUntilDisturbed ==
    \A t \in Tasks : ~disturbed[t] =>
        \A j, k \in LiveOn(t) : j = k

(* The lease protocol behind it: while nothing disturbed the protocol of a    *)
(* stored task, its one live goroutine holds the lease written in the row,   *)
(* which is not over, and the budget found at the claim is still there.      *)
LeaseHeld ==
    \A t \in Tasks : ~disturbed[t] /\ Stored(t) =>
        \A j \in LiveOn(t) :
            /\ row[t].leaseUntil = job[j].lease
            /\ row[t].nextRunAt = job[j].lease
            /\ now < job[j].lease
            /\ Budget(row[t])

(* max_runs: a completed run is counted only while there is budget, unless   *)
(* the lease protocol was disturbed (the check is made when the row is       *)
(* claimed and the count is raised when the run ends).                       *)
CapHonoured ==
    [][\A t \in Tasks :
          row'[t].runCount > row[t].runCount => disturbed[t] \/ Budget(row[t])]_vars

(* Although a completion is computed from the snapshot of its claim, what it *)
(* writes is what the row calls for then: the date that the definition and   *)
(* the count of the row give, and `enabled` as it was but for a task without *)
(* a next date.  Only an edit of the claimed row or a lease that ran out     *)
(* under the goroutine parts snapshot and row (dispatch, nextRun,            *)
(* UpdateTaskAfterRun).                                                      *)
CompletionIsCurrent ==
    [][\A t \in Tasks :
          row'[t].runCount > row[t].runCount /\ ~disturbed[t] =>
             LET next == NextRun(row[t], now)
             IN  /\ row'[t].nextRunAt = next
                 /\ row'[t].def.enabled = (row[t].def.enabled /\ next # 0)]_vars

(* Run rows belong to stored tasks and to goroutines that began to execute:  *)
(* a delete that meets a job at any point leaves no row behind and none is   *)
(* inserted or revived later.                                                *)
NoOrphanRun ==
    \A j \in Jobs : run[j].status # "none" =>
        job[j].task \in Tasks /\ Stored(job[j].task) /\ job[j].pc # "queued"

(* A claimed task whose worker died, or whose completion was lost, is taken  *)
(* up again once its lease is over: the lease of an enabled task with budget *)
(* does not stay what it was.                                                *)
LeaseRecovered ==
    \A t \in Tasks, lease \in 1 .. MaxTime :
        (Stored(t) /\ row[t].leaseUntil = lease) ~>
            \/ row[t].leaseUntil # lease \/ ~Stored(t)
            \/ ~row[t].def.enabled \/ ~Budget(row[t])
            \/ FreeJobs = {}     \* the bound on jobs is reached

(* What comments and docs of the code say, and the code does not do. *)

(* scheduler.go:342: a finished execution is recorded whatever became of the *)
(* executor's context.                                                       *)
CompletionPersisted ==
    \A j \in Jobs : job[j].pc = "done" => run[j].status # "running"

(* schedule.go:95: a one-shot task is disabled once its date has elapsed and *)
(* it has run.                                                               *)
OneShotRetired ==
    \A t \in Tasks :
        /\ Stored(t) /\ row[t].def.kind = "at"
        /\ row[t].runCount > 0 /\ row[t].def.expr <= row[t].lastRunAt
        => ~row[t].def.enabled

(* store.go:366: a claimed row cannot be claimed again under its lease until *)
(* the dispatcher rewrites it.                                               *)
ClaimHoldsUntilRewritten ==
    \A t \in Tasks : \A j, k \in LiveOn(t) :
        now < job[j].lease /\ now < job[k].lease => j = k
=============================================================================

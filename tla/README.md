# Formal models of pocket-opencode

TLA+ models of the parts of pocket-opencode whose correctness depends on the
order in which concurrent actors act: TLC checks them on small instances, and
TLAPS proves the most important results for every instance.

## 1. The system

`pocketd` (Go, `backend/`) is the server of a mobile client for coding agents.
Several `pocketd` processes may share one PostgreSQL database. It watches
OpenCode instances, forwards their permission and question requests to users,
keeps tasks and their sessions, runs scheduled tasks, mirrors runs of an
external orchestrator (ACC), and pushes events over WebSocket.
`services/zagent-gateway` is a set of Go libraries (event bus cursor,
idempotency store, audit chain, tokens) for a gateway process. `pocketd` also
fetches the mail of its users, sorts it by rules, answers it during a vacation
and reminds of what is important. `frontend/` is the Vue client.

### 1.1 Components

| component | state | operations | what is hard |
| --- | --- | --- | --- |
| scheduled tasks (`scheduledtask/`, handlers in `server/scheduled_task_*.go`) | rows with `next_run_at`, `lease_until`, `run_count`; run rows; tombstones; worker slots of each pod | create, patch, delete, trigger, scan and claim, dispatch, maintenance, stop, restart | several pods, leases, persistence deadlines, edits of claimed rows, crashes |
| approval lifecycle (`opencode/permission_manager.go`, `question_manager.go`, `approval_projection.go`; `task/store.go` 602-1130) | pending sets in memory, observations and per-task projections in the database, versions | event, poll, reply, expire, project, attach session, complete, accept, patch | snapshots used after the lock is gone, versions, late events, terminal tasks |
| run projection (`task/run_projection.go`) | bindings with a watermark, run events, cursors | bind, apply batch, acknowledge, delete the task | reordered, repeated and missing batches |
| mail synchronisation (`email/fetcher.go`) | cursor of the mailbox, rows, uids seen by POP3 | round by IMAP or POP3 | windows, failed inserts, two processes |
| action intents (`email/store.go`, `scheduler.go`, `server/intent_executor.go`) | intents with a status | record, read a batch, execute, mark, delete the mail | nothing is reserved, a foreign key on the mail |
| vacation replies (`email/store.go`, `scheduler.go`) | deliveries with a status and two times | claim, send, mark | one reply a day over several processes, crashes |
| mail pipeline (`email/pipeline*.go`, `server/server_email_pipeline.go`) | advisory lock, lock and switch of a process, marks | daily and manual round | the lock may be lost, the switch is shared |
| WebSocket hubs (`websocket/`) | registries, send buffers | register, broadcast, evict, command, leave | slow clients, reconnects, closed channels, workspaces that share the maps |
| zagent-gateway (`services/zagent-gateway/internal`) | idempotency entries, event cursors, hash chain | reserve, complete, deliver, resume, acknowledge, append, verify | retries, expiry, back pressure, replay |
| agent transport over stdio (`agent/transport_stdio.go`, `jsonrpc.go`) | slots of the calls in flight, channels, two readers, child process | call, answer, notify, close | late answers, a blocked reader, a dead child |
| verification codes (`auth/email_codes.go`) | codes with their times | generate, verify | read and write are two statements |
| event stream (`opencode/event_stream.go`, `session_event_broadcaster.go`) | subscriptions, buffers, reconnect backoff | subscribe, connect, fan out, close | drops on full buffers, reconnects |
| list synchronisation, quota, sync settings | rows and tombstones, a table of budgets, stamps | list since, set, merge | clients outside the server |
| everything else (notes, finance, rss, flashcards, meeting, calendar, marketplace, vault, adapters, `frontend/`) | tables behind one-statement CRUD, parsers, views | | no interaction that a model would tell more about than a test |

`PROJECT.json` lists them with their sources and whether they are modelled.

### 1.2 Interactions

* HTTP handlers and the scheduler meet only in the rows of `scheduled_tasks`:
  a handler reads a row, decides, and writes it back by id while a scan may
  have claimed it meanwhile.
* The managers of OpenCode requests are called by the event stream, by a poll
  every 30 s (3 s without a stream) and by users' replies, all concurrently.
  Each change of a pending set is first written to the database
  (`approvalProjector.apply` -> `Store.ApplyApprovalProjection`), then
  broadcast, then made in memory.
* `Store.ApplyApprovalProjection`, `attachSession`, `CompleteTaskScoped` and
  `AcceptTaskScoped` serialise through PostgreSQL advisory locks;
  `UpdateTaskScoped`, `UpsertTask` and `DeleteTaskScoped` take none.
* The mail services of several processes meet in the rows of the database only.
  Inside a process the poll loop, the pipeline and the handlers start the same
  rounds. A round of the fetcher records the intents that the executor of any
  process carries out.
* A WebSocket hub is one goroutine; its pumps and handlers meet it in channels.

### 1.3 What makes each component correct

* Scheduled tasks: one execution per claim, at most `max_runs`, nothing
  stranded, run rows that tell the truth, recovery of crashed work.
* Approvals: a task is not completed over an open request; a resolved request
  never becomes pending again; every open request reaches the user; the
  projection of a task agrees with what was observed for its sessions.
* Run projection: a cursor stands on a stored event below the watermark.
* Mail: no mail is left out, one reply a day, an intent's status tells what
  happened, a reminder is not repeated, nothing is moved that was to be
  previewed.
* Gateway: one execution per idempotency key, no event skipped silently.
* Hubs and transports: nobody misses a message unnoticed, a reconnected plugin
  is reachable, whoever leaves or closes comes to an end.
* Codes: accepted once.

## 2. Plan

Ordered by importance.

1. `ScheduledTask` with `MCScheduledTask`, `MCScheduledTaskScenarios` and
   `ScheduledTaskProofs` (section 3). Done.
2. `ApprovalStore` with `MCApprovalStore` and `ApprovalStoreProofs`: one action
   per transaction (section 4). `ApprovalManager` with `MCApprovalManager`,
   `MCApprovalManagerScenarios` and `ApprovalManagerProofs`: the managers
   composed with the store (section 5). Done.
3. The mail: `MailSync`, `VacationReplies`, `ActionIntents`, `MailPipeline`,
   `EmailCodes`, with `MailSyncProofs` and `MailServicesProofs` (section 6). Done.
4. The gateway and the records: `EventCursor`, shown to implement `EventFeed`,
   `Idempotency`, `RunProjection`, with `GatewayProofs` (section 7). Done.
5. The connections: `AppHub`, `PluginHub`, `StdioCalls`, with `ConnectionProofs`
   (section 8). Done.
6. `ServicesProofs`: the theorems of 3 to 5 hold of their composition
   (section 9.1). Done.
7. Next: the transactions of the approval store with their locks and
   statements, shown to implement `ApprovalStore`.

`MCServices` checks the modules of 3 to 5 in one run (section 9).

## 3. Scheduled tasks

`ScheduledTask.tla` is the subsystem: `row` is `scheduled_tasks`, `run` is
`scheduled_task_runs`, `phase` the life of a task id with its tombstone, `job`
the goroutine that `scan` or `TriggerNow` starts for a claimed row, `pod` the
processes, `req` the PATCH requests between their read and their write.

| code | definition |
| --- | --- |
| `POST /api/scheduled-tasks` | `CreateTask` |
| `PATCH`: read, merge, validate, compute; then `UpdateTaskScoped` | `PatchRead`, `PatchWrite` (two steps: another actor may act between) |
| `DELETE`: row and cascade; then the tombstone | `DeleteTask`, `WriteTombstone` |
| `Scheduler.scan` with `Store.ClaimDue` | `Scan`, `Due`, `Batches`, `Claimed` |
| `TriggerNow` with `ClaimTaskNow` | `TriggerNow`, `Claimable` |
| `dispatch`, statement by statement | `InsertRun`, `InsertRunFails`, `ExecutorReturns`, `FinishRun`, `UpdateTaskAfterRun` |
| `select` on `s.stop` of a triggered job | `AbandonTrigger` |
| `Stop`, process exit, start | `Stop`, `Exit`, `Start`, `Crash` |
| `RunMaintenance` | `RunMaintenance` |
| `ComputeNext`, `nextRun`, `merge` | `ComputeNext`, `NextRun`, `Merge` |

One SQL statement is one step. `RunMaintenance` is one step too: its updates
repeat in their WHERE clauses what its query read (`status = 'running'`,
`lease_until = $2`), so a row that changed in between is left alone.
`SKIP LOCKED` is a set of rows a scan does not see (`locked`).

Abstractions: a schedule is a kind and a number; names, payloads, outputs,
owners and time zones are left out; the executor is any delay and any outcome.
A job's persistence context is the deadline `persistBy`: a statement succeeds
before it and fails from then on. `DBFaults` lets statements fail at any time.

`disturbed[t]` is a history variable: it becomes TRUE when a lease runs out
under a live goroutine of `t`, or a PATCH rewrites `t` while one is live, and
FALSE at a claim that finds none. The code guarantees exclusion only as long
as it is FALSE, and that is what the properties say.

### 3.1 Properties and runs (`MCScheduledTask`)

* `ScheduledTask_safety` (`MCScheduledTaskScenarios`) covers two scenarios; a
  variable that never changes says which.
  - `pods`: two pods that may crash, stop and restart, two goroutines, a
    recurring, a capped or a one-shot task.
  - `edits`: no crashes, but a PATCH in flight that disables the task or gives
    it a new schedule.

  It checks `TypeOK`, `ExclusiveUntilDisturbed`, `LeaseHeld` (the invariant
  behind the exclusion: the row carries the lease of the live goroutine),
  `CapHonoured` (no step counts a run past `max_runs`), `NoOrphanRun` (no run
  row without its task, whatever the delete meets) and `CompletionIsCurrent`: a
  completion is computed from the snapshot of its claim, and nevertheless gives
  the row the date, and the end of `enabled`, that the row's own definition and
  count call for, unless the task was disturbed. About 1.8 million states.
* `ScheduledTask_liveness`: `LeaseRecovered` with crashes and database faults.

Time units: the persistence context lives 1, a timeout is 2, a lease is 3, in
the order of the code (10 s, 120 s, 300 s); the clock runs to 5 or 6, past the
first lease, so that expiry, reclaim and a late completion all happen. Two
jobs are enough for two goroutines on one task. The bounds are `MaxTime`, the
set `Jobs` and the set `Tasks`; when no job is free no claim is made, and
`LeaseRecovered` says so.

Fairness (`Fairness`): the clock, every step of a job (an executor must return
when its context ends, as the `Executor` interface demands), restart of a
stopped pod by its supervisor, and the scan of a pod that runs. Scans need
strong fairness because crashes and restarts may disable them for ever in
turn: `Start` scans before it does anything else. Users, crashes and
maintenance are free.

Runs with a finding: `_lost` (a run that outlives the 10 s persistence context
is never recorded), `_oneshot` (an `at` task with a cooldown runs again),
`_patched` (a PATCH lets a claimed row be claimed under its lease). Each checks
what one comment says and TLC shows how the code departs from it. They run with
`Prompt`, under which only executors take time and no longer than they are
allowed, and without database faults, so nothing but the code is to blame.
`PROJECT.json` quotes the lines.

Other departures the model contains, without a run of their own:

* A task edited while it runs is disturbed, and its completion is stale: the
  date of the former schedule replaces the one that the PATCH computed, and the
  0 of a former one-shot also switches off the schedule that replaced it
  (`store.go:418-421`). `CompletionIsCurrent` says that nothing else does so.
* `types.go:118` calls `max_runs` a hard cap; `run_count` is raised by
  `UpdateTaskAfterRun` only, so a lost completion lets the task execute more
  often. `CapHonoured` is what the code does keep.
* `schedule.go:67` says `ComputeNext` returns 0 without a future occurrence; a
  cron expression without a match gives the Unix time of the zero time, which
  is negative (`ZeroTimeUnix`), and `schedule.go:66` says the result is later
  than the base; an interval below a second gives the base.
* `types.go:9` names an advisory lock that keeps two processes from firing a
  task at the same time; there is none, and a job that waited for a worker slot
  until its lease was over executes beside the job of the next claim.

### 3.2 Proofs (`ScheduledTaskProofs`)

For every value of the constants:

* `TypeCorrect`: `[]TypeOK`.
* `Exclusive`: `[]ExclusiveUntilDisturbed`, and `LeaseKept`: `[]LeaseHeld`.
  The invariant is `IInv`: exclusion alone is not inductive, since a claim is
  excluded only because the row carries the lease of the live goroutine and
  that lease is not over; a claim then needs both `Due` and `Claimable` to be
  false under such a lease. A goroutine starts with the lease its claim wrote,
  and the row changes only through a claim, a completion (which ends the
  goroutine), a PATCH (which disturbs) or maintenance (which touches expired
  leases only).
* `CapKept`: the action property `CapHonoured`. `run_count` is raised by
  `UpdateTaskAfterRun` only, and `LeaseHeld` says that the budget found at
  the claim is still there.
* `CompletionCurrent`: the action property `CompletionIsCurrent`. `SnapKept` is
  the invariant: the definition and the count that a goroutine took at its
  claim are still those of the row. The completion of another goroutine would
  break it, so it rests on `ExclusiveUntilDisturbed`. `CompletionStep` concludes
  what a completion writes.
* `RunsOwned`: `[]NoOrphanRun`. A goroutine inserts its run only while the task
  is stored, and the cascade takes all of them.
* `OneShotEnds`: what TLC refutes in `ScheduledTask_oneshot` holds of one-shot
  tasks without a cooldown that nobody edits (`OneShotRetiredUncooled`), with
  crashes, triggers, faults and jobs that outlive their lease. The invariant
  `ShotInv` is that a goroutine ends with the schedule of its row; when it ends
  after the date, `NextRun` gives it none and the row is switched off. Both
  conditions are needed: a cooldown gives an elapsed date a successor, and a
  PATCH of any field writes back the whole definition it read, `enabled`
  included, after a completion that came between its read and its write.
* `CooldownKept`: the action property `CooldownHonoured`, which no run checks. A
  completed run leaves its task at least its cooldown before the next date, or
  no budget, unless the task was disturbed; a PATCH that shortens or lengthens
  the cooldown meanwhile is one of the ways. It follows from `CompletionStep`.
* `DatesAreLater`: what `ComputeNext` gives for every definition and base: a
  later date, or one of three exceptions, of which `schedule.go:66` names the
  elapsed one-shot only. The others are an interval below a second and a cron
  expression without a match.

Only model-checked: `LeaseRecovered` (liveness). The assumptions are
`ClockAssumption`, `NoneAssumption` and `InputAssumption`.

## 4. Approvals and task status in the store

`ApprovalStore.tla` models the approval part of `task/store.go` with everything
that writes the status of a task: the HTTP handlers, the delegation to ACC, and
`tasksync`, which replays the board and refreshes delegated tasks.

| code | definition |
| --- | --- |
| `tasks` | `task`: is the row there, is it delegated, status, `pending_approvals` |
| `task_session_links` | `link` |
| `approval_observations`, `task_approval_projections` | `obs`, `proj` |
| the two upserts `ON CONFLICT ... WHERE version < ... AND NOT (...)` | `Upsert` |
| `ApplyApprovalProjection` | `ApplyApprovalProjection`, with `Reached` for the join and the test for a closed task |
| `attachSession`, `applyObservedApprovalsForTask` | `AttachSession`, `Caught` |
| `pendingApprovalCount` and the write of it | `Recount` |
| `CompleteTaskScoped`, `AcceptTaskScoped`, `UpdateTaskScoped` | `CompleteTask`, `AcceptTask`, `PatchTask` (any status but `completed`) |
| `POST /api/tasks`, `delegateCreateAndDispatch` | `CreateTask`, `DelegateTask` |
| `deleteTask`: the row with the cascade; then the links | `DeleteTask`; `DeleteLinks` or `DeleteLinksFails` |
| `UpsertTask` | `UpsertTask` |
| `refreshACCDispatchStatuses`: list; then one update per row | `ListBound`; `RefreshStatus` |

A transaction is a step. `ApplyApprovalProjection` and `attachSession` take the
advisory lock of the session, then those of the tasks in order of their ids,
then the row `FOR UPDATE`; completion and acceptance take the lock of the task
and the row. The writers without advisory locks are single statements on one
row, which wait for the row lock and evaluate their WHERE clause on the row as
it is then. The transactions that touch the same projections are therefore
serial in the order in which they get the task's lock. A transaction that fails
changes nothing and is no step. `DelegateTask` inserts and binds in one step:
an unbound row that is edited before it is bound looks the same as a bound row
edited later, for nothing reads the binding but `ListBound`.

Left out: `session_count` and the other columns; PATCHes without a status; the
decision text. `active` stands for active and blocked, `cancelled` for
cancelled and failed. One workspace, since every query is confined to one.

`steady[t]` is a history variable: the row was inserted open, with no old links
of its id and no deletion of them under way, and has not been closed since.
Only then does the code keep the projection in agreement with the
observations: a closed task takes no pending events, on purpose, and does not
catch up when it is opened again.

### 4.1 Properties and runs (`MCApprovalStore`)

* `CountDerived`: `pending_approvals` equals the number of pending projections.
* `NotClosedOverPending`: no completed or accepted task has a pending
  projection; tasks of the board (`Remote`) are excepted because `UpsertTask`
  sets any status.
* `ProjectionAgrees`: a steady task has exactly the observations of its
  sessions, for every order of attach and events.
* `CompletesClear`: no completion of a steady task passes over an open request
  of one of its sessions. It relates the task's status to the observations, not
  to the task's own count.
* `NeverPendingAgain`: a resolved request stays resolved.

`ApprovalStore_safety` has two tasks and two sessions, one of the tasks on the
board; the constraint `OneQuestion` leaves two scenarios: one task with two
sessions and a request each (an event of one session meets the attach of the
other), and two tasks of one session (an event reaches several tasks, each
closed or open, one of them rewritten by the board). Versions run to 3 and
requests have one resolved state: two versions make a late event, the third
an event between them or after them, and the code tells only pending from not
pending. `MaxVersion` is the only bound of the module; nothing else grows.
About 600 000 states.

A run with a finding: `_stale` (a late pending event blocks a task although the
request is known to be resolved). Two more departures are in the model without
a run of their own: `PatchTask` takes an accepted task out of its status, which
`store.go:985` calls terminal; and `Unfinished` lists accepted tasks, though
`store.go:538` says that a finished task stops being polled, so the refresh may
set one back to completed or failed.

### 4.2 Proofs (`ApprovalStoreProofs`)

`TypeCorrect`, `CountKept`, `ClosedKept` and `AgreementKept` prove the four
invariants, `CompletionIsClear` and `ResolvedForGood` the two action
properties, for all tasks, sessions, requests, versions and boards; the
assumptions are `RequestAssumption` (finitely many requests) and
`RemoteAssumption`. The invariant `IInv` adds `Bare` (a task without a row has
no projections) and `SteadyOpen` (a steady task is stored and open) to the
four. `NotClosedOverPending` needs `CountDerived`, because the refresh tests the
count and not the projections; `ProjectionAgrees` needs that steady tasks are
open, for a closed task skips events. `StepKinds` first reduces `Next` to seven
kinds of change of one row, so that each conjunct is proved once per kind.

## 5. The managers of permission and question requests

`ApprovalManager.tla` EXTENDS `ApprovalStore` and puts on top of it what
`opencode/permission_manager.go` does; `question_manager.go` does the same with
other names of states. Its variables are those of the store and:

| code | definition |
| --- | --- |
| `m.pending` | `cache` |
| requests and the list endpoint of OpenCode | `upstream` (external: `Ask`, `Withdraw`, the effect of `ReplyTaken`) |
| the channel of the event stream, `fanout` | `stream`, `Send` |
| a goroutine: listener, poll, HTTP request | `worker[w]`: where it is, what it publishes, the list it fetched, what is left of it |
| `publish`, `projectApprovalEvent`, `approvalProjector.apply` | `Publishing`, then `NextVersion`, then `Apply` or `ApplyFails` |
| what follows a publication under the lock | `Settle`, `Settled` |
| `handleNewPermissionFromEvent`, `handleResolvedPermissionFromEvent` | `HandleRequested`, `HandleResolved` |
| `pollInstance` | `Fetch`, `AddSeen` per request, `FindExpired`, `Expire` per request, `PollEnds` |
| `ReplyForWorkspace` and its siblings | `Reply`, then `ReplyTaken` or `ReplyRefused` |
| end of the process, start of another | `Restart` |

The lock of the set covers one look or one change, so each of these is a step,
and every publication is four: choose, take a version, transaction, settle. A
goroutine remembers in `then` where it goes on. `Apply` is the action
`ApplyApprovalProjection` of the store itself. Versions come from an atomic
counter raised to the clock; two overlapping calls may get the same one, and
then the store drops the later transaction, exactly as it drops one whose
number is lower, an order the model has.

Left out: subscribers of a manager and the broadcaster to WebSocket clients
(sends that do not block and change nothing here), `Close`, the registry, the
payloads, and more than one OpenCode instance (polls and keys are per
instance). The instance belongs to a workspace: for others nothing is stored.

`disturbed` is a history variable with the requests for which the code makes
no promise: those that were pending in the store when the process died, and
those whose resolution had a lower version than a pending event that reached
the store first.

### 5.1 Properties and runs (`MCApprovalManager`)

* `CachedIsKnown`: a request users are asked about is in the store, or the
  goroutine that will store it, and takes it back if that fails, is under way.
* `PendingIsTracked`: a request that is pending in the store, where it blocks
  tasks, is one users are asked about, unless disturbed.
* `CompletionSeesCache`: a completion never passes over a request users are
  asked about.
* `OpenIsAsked`, `ClosedIsGone`, `ClosedIsResolved`: every open request comes
  to the users or is closed; every closed one leaves the set; and it does not
  block tasks for ever.

`ApprovalManager_faults` (`MCApprovalManagerScenarios`) has one request,
listener, poll, caller, session and task, in two scenarios; a variable that
never changes says which.

- `faults`: the task is never stored, and up to `MaxFaults` = 2 faults of any
  kind happen: a lost event, a failed list, a failed transaction, an answer
  whose confirmation is lost, a restart. The answer is "rejected" so that it
  differs from what the event says.
- `tasks`: a task is created, attached, edited, completed and accepted beside
  the managers. Since it multiplies the states, it is not deleted (the run of
  the store does that), the only fault is one failed transaction, and nobody
  answers (a request is withdrawn, or answered elsewhere).

`MaxVersion` = 13 is more than a request with two faults uses, so it stops
nobody (otherwise the liveness properties would fail). About 447 000 states.
`ApprovalManager_expired` uses `MCApprovalManager` without the scenarios.

That a manager changes the store by the store's own actions only is no property
of a run, because the module is written so: it is the lemma behind section 5.2.

Fairness (`Fairness`): each goroutine goes on, whatever it waits for (the
database, OpenCode) returns, the ticker starts a poll again and again (the
instance is healthy), and the listener reads its channel. Weak fairness is
enough because nothing but its own step disables the step of a goroutine,
except a restart, of which there are finitely many. `ApplyFails` is not in the
fair part: transactions fail at most `MaxFaults` times.

`ApprovalManager_expired` has the finding: without any fault, a poll fetches
its list, an event adds a request, and the poll, which compares the set with
its older list, publishes the request as expired. The store keeps that for
good, so tasks may be completed while the agent still waits, although the next
poll asks the users again.

### 5.2 Proofs (`ApprovalManagerProofs`)

For any goroutines, requests, versions and faults, from
`DecisionAssumption` and the assumptions of the store (`WorkerAssumption`, that
goroutines of different kinds differ, is for TLC's instances only):
`ManagerTypeCorrect`; `ManagerImplements`, a lemma of form by which every
theorem about `ApprovalStore` holds here; `CacheKnown` and `PendingTracked`, the two
invariants; `CompletionIsSeen`, the action property, from both and from the
invariant of the store; `ManagerSafe`, the five theorems of the store restated
for the composition.

`PendingIsTracked` is not inductive: between the entry into the set and the
transaction another goroutine may remove the request or store something else.
`Tracking` adds four facts, each up to requests that are `Firm` (resolved in
the store, which nothing undoes, or disturbed): what a goroutine announces is
in the set, is new to the store, and is announced by no other goroutine; and a
resolution that was stored made its request firm. A request enters the set only
when it is not there, so by `PendingIsTracked` it is new or firm, and the facts
hold for the new announcement; a removal follows a stored resolution or a failed
announcement, and in both cases nothing that is pending is lost.

Only model-checked: the three liveness properties.

## 6. The mail

All the mail modules have a set of `pocketd` processes over one database, and a
number of faults (`...Faults`) that an instance may spend on failed statements,
failed calls to other servers, and crashes.

### 6.1 `MailSync`: rounds of the fetcher

| code | definition |
| --- | --- |
| `email_accounts.last_synced_uid`, `emails`, `email_pop3_seen` | `lastSyncedUid`, `mailRows` (by the path whose id the row has), `seenUidls` |
| a call of `Fetcher.Sync` | `round[p]`: where it is, the uid it read, what is left, what it got |
| the guard of the process, the account as it is | `StartRound` |
| dial, login, SELECT refused: POP3 instead | `RefuseIMAP` |
| UID SEARCH and `selectUIDWindow` | `SearchIMAP`, `SelectUIDWindow` |
| `syncPOP3Fallback`: UIDL and RETR | `ListPOP3` |
| `InsertEmailIfNew`; its error is logged | `InsertEmail`, `InsertFails` |
| `MarkPOP3UIDLSeen`, `UpdateSyncState` | `MarkSeen`, `UpdateSyncState` |
| a timeout, a panic, the end of the process | `AbortRound` |

A statement or an exchange with the server is a step, so rounds of two
processes interleave in every way; in a process one round of an account runs
at a time. The messages of a FETCH are inserted in any order. Left out: bodies,
folders, rules (see 6.3), accounts, the purge of old mail.

* `SkippedOnlyIfFailed`: a mail below the cursor, or seen by POP3, is stored,
  unless its insert failed. Windows, overlaps, an old uid written back, a lost
  stamp do not skip mail.
* `MailIsStored`: in the end every mail is stored, with the same exception.
* `NeverSkipped` without the exception is what `fetcher.go:885-887` says. The
  run `MailSync_lost` refutes it: one insert fails, a later mail of the round
  raises the cursor over it. IMAP never asks for the mail again.

### 6.2 `VacationReplies`

`delivery` is `email_vacation_deliveries`: status and the ages of `claimed_at`
and `updated_at`, which grow to a day and stay there, so the clock has no
bound. `ClaimNextVacationDelivery` is two steps: `ChooseLetter` (the row of the
mail is locked, others skip it) and `ClaimDelivery` (under the advisory lock of
the recipient it looks again). `ReplySent`, `ReplyFails` and `SenderCrash` are
the rest of `runVacationReplies`. One vacation is active. `VacTick` keeps to
what the code's timeouts ensure: a send ends before its claim is old enough to
be taken up again (`Retry`).

* `OneReplyADay`: no two deliveries of one recipient are claimed or sent within
  24 hours, for senders that choose different mails of it at the same time.
* `LetterIsAnswered`: every mail is answered in the end.

Seen on the way: a claim that was never marked stands at the head of the queue
and, since it counts against itself, is refused until it is a day old, while
the queue behind it waits. A mail suppressed by the daily limit is not dropped
but answered a day later. A reply whose mark was lost is sent again after a day.

### 6.3 `ActionIntents`

One mail and its intents. The row of an intent refers to the row of its mail
(`email_id ... REFERENCES emails(id) ON DELETE CASCADE`, `store.go:320`), so
`InsertRow` does nothing without the mail, and `DeleteMail` takes the rows along.

| code | definition |
| --- | --- |
| `Fetcher.Sync`, per mail: `recordActionIntent` for each intent, then `InsertEmailIfNew` | `FetchMail` ("sync"), `RecordIntent`, `EndFetch` |
| `BackfillHistory`, per mail: the insert, then the intents | `FetchMail` ("backfill"), `RecordIntent`, `EndFetch` |
| `InsertActionIntent`: foreign key, `ON CONFLICT DO NOTHING`; its error is logged | `InsertRow` |
| `ClaimActionIntents`, a SELECT that reserves nothing | `ReadBatch` |
| `intentExecutor.Execute`, `UpdateActionIntentStatus` (`WHERE status = 'pending'`) | `Execute`, `MarkIntent` |
| deletion of the mail or its account | `DeleteMail` |

* `IntentOutcome`: an intent is applied only if it was carried out since its mail
  is stored; it is given up only if a failure met it; it is carried out twice
  only if executors overlapped, one was cut off, or the mail was deleted and
  stored again while one held it. Rounds may record an intent again at any time.
* `IntentsLand`: after rounds without any failure a stored mail has the rows of
  its intents, as `fetcher.go:940-941` says. The run `ActionIntents_dropped`
  refutes it: `Sync` records the intents of a new mail before the mail, so the
  foreign key refuses each of them, and the refusal is only logged. The cursor
  of the mailbox then passes the mail. Intents land only when a later round
  meets a mail that is already stored, or by a backfill.

`excused` is a history variable that names what the code lets happen; `gone`
tells a row from one with the same intent that replaced it.
`server/intent_executor.go:121` says that a failed intent is retried after a
delay; `scheduler.go:518-520` says that failed is final, and that is what the
code does.

### 6.4 `MailPipeline`

A round is `pipe[<<process, kind>>]`. `StartDaily` takes the advisory lock of
the database (`dailyLock`), is skipped where another process has it, and goes on
without it where the lock cannot be asked for; `StartManual` takes no advisory
lock. `EnterRound` takes the lock of the process and sets the switch
`Pipeline.SpamDryRun` for a manual round, `LeaveRound` puts it back.
`CleanSpam`, `ListReminders`, `Remind` and `MarkNotified` are the steps of
`Pipeline.Run` that a second round could repeat or do wrongly; the other steps
call external services. The lock's connection may break (`LockIsLost`).
`EmailPipelineAdvisoryLock` is on, as it is by default.

* `MovesOnlyIfAsked`: no round moves mail that its own request or the
  configuration wanted previewed, although all rounds of a process share the
  switch.
* `RemindedOnce`: a mail is reminded of once, unless its mark was lost or a
  round that did not hold the lock had it in work beside another.

Not in the model: classification works through a limited list of candidates in
a fixed order, so mails that fail each time can keep later ones waiting.

### 6.5 `EmailCodes`

`Generate` is `CheckLimits`, then `InsertCode`; `Verify` is `FindCode`, then
`MarkUsed`, each a statement of its own. `AcceptedOnce`: a code is accepted
once, however many requests present it at the same time. The limits on
generation are no property: they are read before the insert, so requests at the
same time may pass them together.

### 6.6 Proofs

For any processes, mails, windows, requests and faults:

* `NothingSkipped` (`MailSyncProofs`): `[]SkippedOnlyIfFailed`. The invariant
  `MailIInv` adds `RoundCovered`: what lies below the uid a round has read, or
  will write back, is handled or still in its list. It needs that a window
  consists of the oldest uids (`WindowIsOldest`), otherwise the largest uid
  handled would stand above one left out.
* `NeverSkippedWithoutFaults`: the stronger `NeverSkipped`, which the run
  `MailSync_lost` refutes after a failed insert, holds as long as nothing
  failed. `FailedByFault` is the invariant: an insert fails by a fault only.
* `OneReply` (`MailServicesProofs`): `OneReplyADay` is inductive once the ages
  have their types; a claim makes the second conjunct true by its own test, and
  a mark changes the status of a claimed delivery only.
* `IntentsTold`: the invariant says that a row has its mail (`RowsKept`), what a
  process holds (`HoldsKept`: what two processes hold is excused, and what it
  holds without a row was deleted under it) and what an outcome means before it
  is marked (`OutcomeKept`). One lemma per actor: `FetcherKeeps`, `DeleteKeeps`,
  and those of the executors' steps.
* `MovesAsAsked`, `RemindersOnce`: from `SwitchKept` (the switch has the
  configured value unless the round inside has overridden it), `LockKept` (at
  most one round has the lock) and `RemindKept` (two rounds have a mail in work
  only if it is repeatable).
* `CodeAcceptedOnce`: a code that was accepted is marked.

* The type invariants: `MailTypeCorrect`, `VacTypeCorrect`, `IntentTypeCorrect`,
  `PipeTypeCorrect`, `CodeTypeCorrect`.

Only model-checked: the liveness properties.

## 7. The gateway and the run records

### 7.1 `EventCursor` implements `EventFeed`

`EventFeed` is what the head of `eventbus/cursor.go` promises a consumer: events
in the order of their numbers, none twice, and what is passed over is reported.
`EventCursor` is the code: `highSeq`, `dedup` and `pending` are the fields of
`Cursor`; `Deliver` is the method with its branches in their order (`DropSeen`,
`Refuse`, `DropLate`, `AcceptGap`, `Accept`), `Ack`, `Reconnect` (`Resume` and
the replay), and `GC`, which forgets arbitrary entries. Around it an upstream
numbers events, and a transport loses, repeats and reorders them (external).

* `ImplementsFeed`: `Feed!FeedSpec`, the refinement. `GatewayProofs` proves
  it for every instance (`CursorImplementsFeed`): only an acceptance changes the
  feed, and it is a `HandOver`. `EveryEventAccounted` concludes that from the
  first event on every number was handed over or reported.
* `EventIsReached`: every event is reached in the end, refused and lost ones by
  a replay, unless the counters of all consumers were left full by a crash.

`cursor.go:205-208` says that `Resume` returns the number the consumer has
acknowledged; it returns the highest number accepted, of any consumer. What a
crashed consumer had accepted and not acknowledged is therefore not replayed,
and its `pending` counter stays as it was.

### 7.2 `Idempotency`

One key. `Reserve` is `ReserveFresh`, `ReserveOther` or `Replay`, by its
branches; `CompleteCall`, `Sweep`; a handler may die (`Die`) or outlast its
entry. `OneExecution`: two requests execute only further apart than the
lifetime of an entry. `store.go:83-85` says that `Complete` for a key that is
not in flight is an error; the code (154-173) does not look at the status, so
an execution that outlived its entry completes, or overwrites, the entry of the
next one.

### 7.3 `RunProjection`

One run, the tasks that may be bound to it, one consumer each. An operation is
a transaction. `CreatedOf[t]` is the event that creates task `t`: a verified
binding must contain the one of its own task and is refused with that of another
(`IsChecked`, `run_projection.go:33-34, 49`). A batch is any set of events, so batches come repeated,
reordered and with gaps; deletion of a task leaves its binding behind, as
`deleteTask` does, and a later binding keeps it (`ON CONFLICT DO NOTHING`).
`CursorIsBacked`: a cursor is not above its watermark and names a stored event.
Only `BindVerifiedRun` is called in production; the other two operations have
tests. Seen on the way: an event delivered again is compared with what JSONB
made of it, so one that JSON spells differently (`Normal`) is refused as a
conflict; an event that fills a gap below a cursor is never given to it.

### 7.4 Proofs

`GatewayProofs`: `ExecutedOnce`, whose invariant is that an execution younger
than the lifetime owns the entry (`Owned`); `CursorBacked`, whose invariant adds
that bound tasks have cursors within the stored events; `CursorImplementsFeed`
and `EveryEventAccounted` (7.1). For all calls, tasks, numbers and lifetimes.

`QueuesAreBounded`: the queue of a consumer stays within `MaxQueue`. The counter
is what `Deliver` tests, so the invariant relates it to the queue: `pending` is
at least the number of events waiting (it may be more after a crash, which is
why `EventIsReached` has its exception), and `Ack` lowers both. The types of the
three modules (`BusTypeCorrect`, `IdemTypeCorrect`, `RunTypeCorrect`) follow
from the same invariants. `IdemTime \in Nat \ {0}`, the bound on the clock, is
assumed positive.

## 8. The connections

### 8.1 `AppHub`: the hub of the app

`HubRun` is the goroutine `Run`: `TakeRegister`, `TakeUnregister`,
`TakeMessage`, and `RemoveSlow`, which runs after the read lock is gone.
`reader` and `writer` are the two pumps of a client; `sendBuf` is `Client.send`.
A send on a closed channel ends the pump (`background.Go` recovers), a second
close ends `Run` (`hubAlive`).

* `NothingMissed`: what the hub took for a registered client is written or in
  its buffer, in order; a client that misses a message is removed.
* `LeaverIsReleased`: a pump that leaves is let go.

`HubMissesNothing` proves `NothingMissed` for any clients, messages and
capacities. `Carries(buf, messages)` says that the buffer without its pongs is
the messages, by the places at which they stand: a strictly increasing map of
places, which a proof can extend at one end and shorten at the other. The
invariant adds that a listed client has an open channel, and that the buffer of
a client not yet registered is empty; `HubNeverPanics` states the first fact for
the goroutine: it closes no channel twice.

### 8.2 `PluginHub`: plugins, managers and their clients

`listed` is the three maps; `TakeConn` and `TakeDeparture` the registrations and
departures of `Run`; `LookUp` and `SendCommand` the two halves of
`SendCommandToInstance`, between which the lock is released.

* `ConnectedIsListed`: a connection that is read is the one its id leads to,
  unless two were open at a time, and no entry leads to a closed channel.
* `ClientsAgree`: a client that missed no message knows the instances that the
  hub lists for its workspace, except ids that plugins of two workspaces had at
  a time (`shared`).

The maps have one entry for an id over all workspaces; notices, lists and
commands are filtered by workspace (`Audience`, `Instances`, `IsOf`).
`server_plugin_ws.go:17-18` says that the workspace, which comes from the
token, keeps a plugin from taking over another tenant's instance; a
registration overwrites the entry whichever workspace it is of
(`plugin_hub.go:151`) and announces itself to its own (156), so an instance
whose id another workspace uses as well disappears from its clients' list
without a notice. Two workspaces that never use an id at the same time do not
disturb each other, and that is what the property says.

`plugin_hub.go:382` says that the list has the connected instances; the
departure of a former connection removes the entry of its id although a new
connection has taken it (165-171), so a plugin that reconnected before its old
connection timed out is connected and not listed. `overlapped` marks these ids.
Both properties are proved for all connections, workspaces and capacities
(`Listed`, `Agreement`), from `Filed`: an entry holds a connection of its kind
and id. `Agreement` also needs `ForeignEntry`: as long as an id is not shared,
an entry that a registration overwrites, or a departure drops, is of the
workspace whose clients are told.

`mobile_hub.go` is not modelled: nothing in production constructs it. (Its
idempotency is a look-up followed by a later write, without a reservation.)

### 8.3 `StdioCalls`: calls to an agent process

`Register`, `WriteRequest`, `TakeAnswer` and `CallTimesOut` are `Call`;
`ReadAnswer`, `ReadNote`, `HandOn` and `ReadEnd` the goroutine `readStdout`;
`ForwardEnd` and `ForwardStops` the end of the goroutine `forwardStderr`, which
exists where there is a logger and ends with the pipe or at a line that is too
long; `BeginClose` to `JoinReaders` the five steps of `Close`, which waits for
both goroutines. The child does as it likes, and nobody has to call `Recv`.

* `CloseReturns`: `Close` comes to its end and no call is left waiting, also
  while the reader holds a notification that nobody takes.

Its safety is proved for any calls and capacities, from `StdioStages` (what each
step of `Close` has established). `CallsAreClosed`: once the slots are cleared,
whoever waits has an answer or an error, since a call that registers later sees
the flag, taken under the same lock. `CloseIsNotStuck`: while `Close` waits for
the two readers, each of them is back or has a step to take, and each step makes
`Ahead`, what is before them, smaller; nobody makes it larger. What is left to
TLC is that fair goroutines take these steps.

Seen on the way: the comment in `Call` (187) says that it watches for a crash of
the child; it watches the slot and the context, and a call to a dead child
waits for its deadline. A call that timed out leaves its slot. The child is
started under the context of the first caller. Without a subscriber of `Recv`
the reader blocks on the first notification that finds no room, and answers
behind it are not read.

## 9. The run `Services`

The modules of sections 6 to 8 share no state, so a product of them would only
multiply. `MCServices` runs one at a time (`part`), the others at rest, which is
the union of eleven small state spaces: about 591 000 states. Every action of
each fires, and the fairness is that of the module, for the part that moves.

Bounds, and what they let happen:

* mail: two processes, two uids with a window of one (a mail is left out and
  fetched later), one mail without a Message-ID, one fault;
* vacation: two processes, three mails, two of them of one sender; a day is
  three ticks and a retry two, so that a retry comes within the day; one fault;
* intents: one fetcher that stores the mail again and again by either path, two
  executors, two intents, batches of one; one fault, and any deletions;
* pipeline: two processes, one of which users ask for rounds, one important
  mail, preview configured; one fault;
* cursor: two consumers, three events (a gap needs three), a queue and a window
  of one; one fault;
* idempotency: three requests, one of another body; the clock runs past two
  lifetimes;
* hub: two clients, one aimed at, two places in a client's buffer and one in
  the channels of the hub, two messages, a ping;
* plugins: two plugin connections of one id and a third of it in another
  workspace, a manager and a client;
* stdio: two calls, two notifications, room for one frame, with and without a
  logger;
* runs: two tasks, each with its creation event, three events, one of which JSONB
  spells differently;
* codes: two requests, two verifiers, the clock past the lifetime of a code.

Deadlock is not checked in it: most parts end when their bounds are used up.

Fairness, and why the code justifies it:

* `MailFairness`: the poll loop starts rounds for ever, and the time limits of
  `Sync` end each protocol step. Weak fairness: nothing but a fault disables a
  step.
* `VacFairness`: the scheduler's ticker, and time.
* `BusFairness`: consumers acknowledge what they have and reconnect when
  nothing comes; a transport does not repeat one event for ever.
* `HubFairness`: the goroutine `Run` is scheduled. Pumps and users are free.
* `StdioFairness`: goroutines that can run do; the forwarder sees the end of its
  pipe once the child is gone. The child and the users of `Recv` are free.

### 9.1 Proofs (`ServicesProofs`)

A step of the composition is a step of one service beside which the others
stand still (`OneMoves`), so it implements each of them (`Projections`), for any
instance of the constants. `AllTypesCorrect` is `[]TypesOK`, and
`ServicesAreSafe` collects the eleven safety invariants of the run and the
refinement of the feed.

## 10. What is only model-checked

Liveness (`LeaseRecovered`, `OpenIsAsked`, `ClosedIsGone`, `ClosedIsResolved`,
`MailIsStored`, `LetterIsAnswered`, `EventIsReached`, `LeaverIsReleased`,
`CloseReturns`) is beyond the prover: it needs ENABLED for the fairness, and
induction over what is left to do. Every safety invariant and action property
that a passing run checks is a theorem.

## 11. Not modelled

`PROJECT.json`, `components`, gives the reason for each. By far most of the
backend's lines are tables behind one-statement CRUD, parsers, documents,
calls to external services, and HTTP handlers that join them, so a model of the
part that can go wrong in an interleaving covers a small share of its lines.

* Assistant, meeting, RSS, notes, finance, vault, calendar, flashcards,
  marketplace: sequential handlers over rows of one user.
* Event stream: its loss of events is in `ApprovalManager` (`Send`). Its
  reconnect loop never gives up, though a comment says the channel is closed
  after the last attempt.
* Audit chain, tokens, policy, settings: functions of their inputs under one
  lock or in one statement.
* HTTP and WebSocket transports of agents, adapters: I/O.
* Frontend, plugin, deployment.

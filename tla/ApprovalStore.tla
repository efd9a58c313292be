---------------------------- MODULE ApprovalStore ----------------------------
(***************************************************************************)
(* Approval requests in the task store of pocketd                          *)
(* (backend/internal/task/store.go).  What is known of each permission or  *)
(* question request of a session is an observation; every task linked to   *)
(* the session has its own projection of it, and the number of projections *)
(* that are pending is kept in the task row, where it forbids completion.  *)
(* Tasks are also written by HTTP handlers and by the synchronisation with *)
(* the external board (ACC), which know nothing of approvals.              *)
(*                                                                         *)
(* One transaction is one step: the advisory locks of a session and of a   *)
(* task, taken in that order, and the row lock serialise the transactions  *)
(* that touch the same rows.  A transaction that fails changes nothing.    *)
(* One workspace; sessions stand for (instance, session), requests for     *)
(* (request, kind).                                                        *)
(***************************************************************************)
EXTENDS Naturals, FiniteSets

CONSTANTS
    Tasks, Sessions, Requests,
    SessionOf,      \* the session a request belongs to
    Remote,         \* ids of tasks that the ACC board lists too
    RemoteStatus,   \* statuses the board may give them
    Resolutions,    \* states of a request that is no longer pending
    MaxVersion      \* bound on the versions of events

ASSUME RequestAssumption ==
    /\ IsFiniteSet(Requests)
    /\ SessionOf \in [Requests -> Sessions]
    /\ "pending" \notin Resolutions /\ "none" \notin Resolutions
    /\ MaxVersion \in Nat

(* "active" stands for active and blocked, "cancelled" for cancelled and    *)
(* failed: nothing tells them apart.                                        *)
Status == {"active", "cancelled", "completed", "accepted"}
Closed(st) == st \in {"completed", "accepted"}

ASSUME RemoteAssumption == Remote \subseteq Tasks /\ RemoteStatus \subseteq Status

States == {"pending"} \cup Resolutions
Event  == [state : States, version : 1..MaxVersion]
Unseen == [state |-> "none", version |-> 0]
Seen   == Event \cup {Unseen}

(* Variant: the version alone decides.                                      *)
UpsertByVersion(old, e) == IF old.version < e.version THEN e ELSE old

(* What a row that holds `old` holds after an upsert of event e.            *)
Upsert(old, e) ==
    IF old = Unseen \/ (old.version < e.version
                        /\ (old.state = "pending" \/ e.state # "pending"))
    THEN e ELSE old
-----------------------------------------------------------------------------
VARIABLES
    task,       \* rows of tasks
    link,       \* rows of task_session_links
    obs,        \* approval_observations
    proj,       \* task_approval_projections of each task
    deleting,   \* tasks whose row is gone and whose links are still to go
    listed,     \* rows that the status refresh read and has yet to write
    steady      \* history: stored without old links, never closed since

vars == <<task, link, obs, proj, deleting, listed, steady>>

Row == [stored : BOOLEAN, bound : BOOLEAN, status : Status, pending : Nat]

NoRow == [stored |-> FALSE, bound |-> FALSE, status |-> "active", pending |-> 0]

Stored(t) == task[t].stored
Linked(t, r) == <<t, SessionOf[r]>> \in link

(* The requests that are pending for a task with projections p.             *)
Pending(p) == {r \in Requests : p[r].state = "pending"}
PendingCount(p) == Cardinality(Pending(p))

Init ==
    /\ task = [t \in Tasks |-> NoRow]
    /\ link = {}
    /\ obs = [r \in Requests |-> Unseen]
    /\ proj = [t \in Tasks |-> [r \in Requests |-> Unseen]]
    /\ deleting = {}
    /\ listed = {}
    /\ steady = [t \in Tasks |-> FALSE]
-----------------------------------------------------------------------------
(* Approval events and sessions *)

(* Variants: no test for a closed task; no join with the links.             *)
ReachedClosed(t, r, e) == Stored(t) /\ Linked(t, r)
ReachedUnlinked(t, r, e) ==
    Stored(t) /\ ~(Closed(task[t].status) /\ e.state = "pending")

(* Does event e about request r concern task t?  A closed task takes no     *)
(* pending event.                                                           *)
Reached(t, r, e) ==
    Stored(t) /\ Linked(t, r) /\ ~(Closed(task[t].status) /\ e.state = "pending")

(* Variant: a counter instead of a count.                                   *)
RecountByOne(row, p) ==
    [row EXCEPT !.pending = IF Pending(p) = {} THEN row.pending - 1 ELSE row.pending + 1]

(* A row with the pending_approvals that projections p give it.             *)
Recount(row, p) == [row EXCEPT !.pending = PendingCount(p)]

(* ApplyApprovalProjection: the observation and every linked task.          *)
ApplyApprovalProjection(r, e) ==
    /\ obs' = [obs EXCEPT ![r] = Upsert(obs[r], e)]
    /\ proj' = [t \in Tasks |->
                   IF Reached(t, r, e)
                   THEN [proj[t] EXCEPT ![r] = Upsert(proj[t][r], e)] ELSE proj[t]]
    /\ task' = [t \in Tasks |->
                   IF Reached(t, r, e) THEN Recount(task[t], proj'[t]) ELSE task[t]]
    /\ UNCHANGED <<link, deleting, listed, steady>>

(* Variants: nothing is caught up; a closed task catches up too.            *)
CaughtNothing(t, s) == proj[t]
CaughtClosed(t, s) ==
    [r \in Requests |-> IF SessionOf[r] = s /\ obs[r] # Unseen
                        THEN Upsert(proj[t][r], obs[r]) ELSE proj[t][r]]

(* The projections of task t once session s is linked to it.                *)
Caught(t, s) ==
    IF Closed(task[t].status) THEN proj[t]
    ELSE [r \in Requests |-> IF SessionOf[r] = s /\ obs[r] # Unseen
                             THEN Upsert(proj[t][r], obs[r]) ELSE proj[t][r]]

AttachSession(t, s) ==
    /\ Stored(t)
    /\ link' = link \cup {<<t, s>>}
    /\ proj' = [proj EXCEPT ![t] = Caught(t, s)]
    /\ task' = [task EXCEPT ![t] = Recount(task[t], proj'[t])]
    /\ UNCHANGED <<obs, deleting, listed, steady>>
-----------------------------------------------------------------------------
(* Tasks *)

(* A new row of task t.  Links of an earlier row of that id may be there.   *)
Insert(t, bound, st) ==
    /\ ~Stored(t)
    /\ task' = [task EXCEPT ![t] = [stored |-> TRUE, bound |-> bound,
                                    status |-> st, pending |-> 0]]
    /\ steady' = [steady EXCEPT ![t] = /\ ~Closed(st) /\ t \notin deleting
                                       /\ \A s \in Sessions : <<t, s>> \notin link]
    /\ UNCHANGED <<link, obs, proj, deleting, listed>>

SetStatus(t, st) ==
    /\ task' = [task EXCEPT ![t].status = st]
    /\ steady' = [steady EXCEPT ![t] = steady[t] /\ ~Closed(st)]
    /\ UNCHANGED <<link, obs, proj, deleting>>

(* POST /api/tasks, and the local row of a task delegated to ACC.           *)
CreateTask(t)   == \E st \in {"active", "cancelled"} : Insert(t, FALSE, st)
DelegateTask(t) == Insert(t, TRUE, "active")

(* tasksync replays the tasks of the board.                                 *)
UpsertTask(t) ==
    \E st \in RemoteStatus :
        \/ Insert(t, FALSE, st)
        \/ Stored(t) /\ SetStatus(t, st) /\ UNCHANGED listed

(* Variant: completion without the check.                                   *)
CompleteUnchecked(t) == Stored(t) /\ SetStatus(t, "completed") /\ UNCHANGED listed

(* PATCH to "completed"; refused while an approval is pending.              *)
CompleteTask(t) ==
    /\ Stored(t)
    /\ PendingCount(proj[t]) = 0
    /\ SetStatus(t, "completed")
    /\ UNCHANGED listed

AcceptTask(t) ==
    /\ Stored(t)
    /\ task[t].status = "completed"
    /\ SetStatus(t, "accepted")
    /\ UNCHANGED listed

(* PATCH to any other status, and cancellation.                             *)
PatchTask(t) ==
    /\ Stored(t)
    /\ \E st \in {"active", "cancelled"} : SetStatus(t, st)
    /\ UNCHANGED listed

(* Variant: no foreign key, the projections stay.                           *)
DeleteRowOnly(t) ==
    /\ Stored(t)
    /\ task' = [task EXCEPT ![t] = NoRow]
    /\ deleting' = deleting \cup {t}
    /\ steady' = [steady EXCEPT ![t] = FALSE]
    /\ UNCHANGED <<proj, link, obs, listed>>

(* DELETE: the row, with its projections by the foreign key; then, in a     *)
(* statement of its own that may not come about, the links.                 *)
DeleteTask(t) ==
    /\ Stored(t)
    /\ task' = [task EXCEPT ![t] = NoRow]
    /\ proj' = [proj EXCEPT ![t] = [r \in Requests |-> Unseen]]
    /\ deleting' = deleting \cup {t}
    /\ steady' = [steady EXCEPT ![t] = FALSE]
    /\ UNCHANGED <<link, obs, listed>>

DeleteLinks(t) ==
    /\ t \in deleting
    /\ deleting' = deleting \ {t}
    /\ link' = link \ ({t} \X Sessions)
    /\ steady' = [steady EXCEPT ![t] = FALSE]
    /\ UNCHANGED <<task, obs, proj, listed>>

DeleteLinksFails(t) ==
    /\ t \in deleting
    /\ deleting' = deleting \ {t}
    /\ UNCHANGED <<task, link, obs, proj, listed, steady>>

(* The status refresh of tasksync: it lists the delegated rows that have    *)
(* not ended, asks ACC about each, and writes what ACC says.                *)
Unfinished(t) == Stored(t) /\ task[t].bound
                 /\ task[t].status \notin {"completed", "cancelled"}

ListBound ==
    /\ listed' = listed \cup {t \in Tasks : Unfinished(t)}
    /\ UNCHANGED <<task, link, obs, proj, deleting, steady>>

(* Variant: completion without the condition on pending_approvals.          *)
RefreshUnchecked(t) ==
    /\ t \in listed
    /\ listed' = listed \ {t}
    /\ \/ Stored(t) /\ (SetStatus(t, "cancelled") \/ SetStatus(t, "completed"))
       \/ UNCHANGED <<task, link, obs, proj, deleting, steady>>

RefreshStatus(t) ==
    /\ t \in listed
    /\ listed' = listed \ {t}
    /\ \/ /\ Stored(t)
          /\ \/ SetStatus(t, "cancelled")
             \/ task[t].pending = 0 /\ SetStatus(t, "completed")
       \/ UNCHANGED <<task, link, obs, proj, deleting, steady>>
-----------------------------------------------------------------------------
TaskStep(t) ==
    \/ CreateTask(t) \/ DelegateTask(t)
    \/ CompleteTask(t) \/ AcceptTask(t) \/ PatchTask(t)
    \/ DeleteTask(t) \/ DeleteLinks(t) \/ DeleteLinksFails(t)
    \/ RefreshStatus(t)
    \/ \E s \in Sessions : AttachSession(t, s)

Next ==
    \/ \E r \in Requests, e \in Event : ApplyApprovalProjection(r, e)
    \/ \E t \in Tasks : TaskStep(t)
    \/ \E t \in Remote : UpsertTask(t)
    \/ ListBound

Spec == Init /\ [][Next]_vars
-----------------------------------------------------------------------------
(* Properties *)

(* The types of the rows. *)
TypeOK ==
    /\ task \in [Tasks -> Row]
    /\ link \subseteq Tasks \X Sessions
    /\ obs \in [Requests -> Seen]
    /\ proj \in [Tasks -> [Requests -> Seen]]
    /\ deleting \subseteq Tasks
    /\ listed \subseteq Tasks
    /\ steady \in [Tasks -> BOOLEAN]

(* pending_approvals is derived: at all times it is the number of pending    *)
(* projections of the task, whatever handlers, deletions and the board do.   *)
CountDerived == \A t \in Tasks : task[t].pending = PendingCount(proj[t])

(* No task is completed or accepted over a pending projection, unless the    *)
(* board, which knows of no approvals, said so (UpsertTask).                 *)
NotClosedOverPending ==
    \A t \in Tasks \ Remote : Closed(task[t].status) => Pending(proj[t]) = {}

(* A task that has been open since it was stored has, for each of its        *)
(* sessions, exactly what was observed of the session's requests, in         *)
(* whatever order sessions were attached and events arrived, and nothing of  *)
(* other sessions.                                                           *)
ProjectionAgrees ==
    \A t \in Tasks, r \in Requests :
        steady[t] => proj[t][r] = IF Linked(t, r) THEN obs[r] ELSE Unseen

(* A task is completed only when nothing is pending in any session linked to *)
(* it: neither completion (PATCH) nor the status refresh passes over an open *)
(* request, of a task that was open all along.                               *)
CompletesClear ==
    [][\A t \in Tasks \ Remote :
         steady[t] /\ task'[t].status = "completed"
           => \A r \in Requests : Linked(t, r) => obs[r].state # "pending"]_vars

(* A request that is no longer pending never is again, neither as observed   *)
(* nor for a task while its row lives, although events come in any order and *)
(* sessions are attached again.                                              *)
NeverPendingAgain ==
    [][\A r \in Requests :
         /\ obs[r].state \in Resolutions => obs'[r].state \in Resolutions
         /\ \A t \in Tasks :
              Stored(t) /\ task'[t].stored /\ proj[t][r].state \in Resolutions
                => proj'[t][r].state \in Resolutions]_vars
-----------------------------------------------------------------------------
(* What the documentation says and the code does not keep *)

(* store.go:865: "An older or replayed version cannot overwrite a newer       *)
(* state."  A request that was resolved is not pending for any linked task.   *)
NoStalePending ==
    \A t \in Tasks, r \in Requests :
        Stored(t) /\ proj[t][r].state = "pending" => obs[r].state = "pending"
=============================================================================

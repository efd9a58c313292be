--------------------------- MODULE RunProjection ---------------------------
(***************************************************************************)
(* Runs of ACC projected into the task store                               *)
(* (backend/internal/task/run_projection.go): the binding of a task to a   *)
(* run with its watermark, the events of the run, and the cursors of       *)
(* consumers.  Every operation is one transaction.  Batches come as ACC    *)
(* gives them: repeated, out of order or with gaps.                        *)
(***************************************************************************)
EXTENDS Naturals

CONSTANTS
    RunTasks,   \* tasks that ACC may bind to the run
    MaxRunSeq,  \* bound on sequence numbers
    CreatedOf,  \* the task.created event of each task
    Normal      \* events whose JSON is spelled the way JSONB prints it

RunSeqs == 1 .. MaxRunSeq

ASSUME RunAssumption ==
    /\ MaxRunSeq \in Nat \ {0} /\ Normal \subseteq RunSeqs
    /\ CreatedOf \in [RunTasks -> RunSeqs]
    /\ \A t, u \in RunTasks : CreatedOf[t] = CreatedOf[u] => t = u

VARIABLES
    taskRow,    \* tasks with a row
    bound,      \* tasks with a row of task_run_bindings
    watermark,  \* its watermark
    runEvents,  \* pocket_run_events of the run, by sequence
    runCursor   \* pocket_run_cursors of a consumer of each task, 0: none

runVars == <<taskRow, bound, watermark, runEvents, runCursor>>

RunInit ==
    /\ taskRow = {} /\ bound = {} /\ runEvents = {}
    /\ watermark = [t \in RunTasks |-> 0]
    /\ runCursor = [t \in RunTasks |-> 0]

Larger(a, b) == IF a >= b THEN a ELSE b

(* insertEvent: an event that is there must be equal byte by byte to what    *)
(* JSONB made of it; one that differs ends the transaction.                  *)
Insertable(events) == events \cap runEvents \subseteq Normal

(* checkEvents: a batch for a task holds no task event of another one.       *)
IsChecked(t, events) == \A u \in RunTasks \ {t} : CreatedOf[u] \notin events

IsTop(events, top) == top \in events /\ \A e \in events : e <= top

(* Variant: the row of the binding is not written.                           *)
BindTaskOnly(t, events) ==
    /\ IsChecked(t, events) /\ CreatedOf[t] \in events
    /\ t \notin taskRow /\ Insertable(events)
    /\ taskRow' = taskRow \cup {t}
    /\ runEvents' = runEvents \cup events
    /\ UNCHANGED <<bound, watermark, runCursor>>

(* BindVerifiedRun.  A binding that outlived its task is kept as it is.      *)
BindVerifiedRun(t, events) ==
    /\ IsChecked(t, events) /\ CreatedOf[t] \in events
    /\ t \notin taskRow /\ Insertable(events)
    /\ taskRow' = taskRow \cup {t}
    /\ runEvents' = runEvents \cup events
    /\ bound' = bound \cup {t}
    /\ \E top \in RunSeqs :
          /\ IsTop(events, top)
          /\ watermark' = IF t \in bound THEN watermark ELSE [watermark EXCEPT ![t] = top]
    /\ UNCHANGED runCursor

(* Variant: the last number replaces the watermark.                          *)
SyncAsIs(t, events) ==
    /\ IsChecked(t, events) /\ t \in bound /\ Insertable(events)
    /\ runEvents' = runEvents \cup events
    /\ \E top \in RunSeqs :
          IsTop(events, top) /\ watermark' = [watermark EXCEPT ![t] = top]
    /\ UNCHANGED <<taskRow, bound, runCursor>>

SyncRunEvents(t, events) ==
    /\ IsChecked(t, events) /\ t \in bound /\ Insertable(events)
    /\ runEvents' = runEvents \cup events
    /\ \E top \in RunSeqs :
          IsTop(events, top) /\ watermark' = [watermark EXCEPT ![t] = Larger(@, top)]
    /\ UNCHANGED <<taskRow, bound, runCursor>>

AckRunCursor(t, seq) ==
    /\ t \in bound /\ seq <= watermark[t] /\ seq \in runEvents
    /\ runCursor' = [runCursor EXCEPT ![t] = Larger(@, seq)]
    /\ UNCHANGED <<taskRow, bound, watermark, runEvents>>

(* deleteTask knows nothing of bindings, events and cursors.                 *)
DeleteBoundTask(t) ==
    /\ t \in taskRow /\ taskRow' = taskRow \ {t}
    /\ UNCHANGED <<bound, watermark, runEvents, runCursor>>

RunNext ==
    \E t \in RunTasks :
       \/ \E events \in SUBSET RunSeqs \ {{}} :
             BindVerifiedRun(t, events) \/ SyncRunEvents(t, events)
       \/ \E seq \in RunSeqs : AckRunCursor(t, seq)
       \/ DeleteBoundTask(t)

RunSpec == RunInit /\ [][RunNext]_runVars
-----------------------------------------------------------------------------
(* Properties *)

(* Rows have the types of their columns.                                     *)
RunTypeOK ==
    /\ taskRow \subseteq bound /\ bound \subseteq RunTasks
    /\ runEvents \subseteq RunSeqs
    /\ watermark \in [RunTasks -> 0 .. MaxRunSeq]
    /\ runCursor \in [RunTasks -> 0 .. MaxRunSeq]

(* Whatever order batches come in, and with tasks deleted and bound again: a *)
(* cursor never stands above the watermark of its task, and the event it     *)
(* names is there (AckRunCursor, SyncRunEvents).                             *)
CursorIsBacked ==
    \A t \in RunTasks :
        runCursor[t] > 0 => runCursor[t] <= watermark[t] /\ runCursor[t] \in runEvents
=============================================================================

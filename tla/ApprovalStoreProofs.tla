------------------------- MODULE ApprovalStoreProofs -------------------------
(* Proofs about ApprovalStore, for any tasks, sessions, requests and any      *)
(* bound on versions.  The steps of Next are first put into seven kinds;      *)
(* each invariant is then shown to survive each kind.                         *)
EXTENDS ApprovalStore, TLAPS, FiniteSetTheorems

(* What an upsert leaves is one of the two, so it is typed. *)
LEMMA UpsertType ==
    ASSUME NEW old \in Seen, NEW e \in Seen
    PROVE  Upsert(old, e) \in Seen
BY DEF Upsert

(* A resolved row is not made pending by any upsert. *)
LEMMA UpsertResolved ==
    ASSUME NEW old \in Seen, old.state # "pending", NEW e \in Seen,
           Upsert(old, e).state = "pending"
    PROVE  old = Unseen /\ e.state = "pending"
BY DEF Upsert

(* An upsert with what is already there changes nothing. *)
LEMMA UpsertSame ==
    ASSUME NEW old \in Seen
    PROVE  Upsert(old, old) = old
BY DEF Upsert

(* The pending requests are finitely many; none means a count of 0. *)
LEMMA CountType ==
    ASSUME NEW p
    PROVE  /\ PendingCount(p) \in Nat
           /\ PendingCount(p) = 0 <=> Pending(p) = {}
<1>1. IsFiniteSet(Pending(p))
  BY RequestAssumption, FS_Subset DEF Pending
<1> QED
  BY <1>1, FS_CardinalityType, FS_EmptySet DEF PendingCount

LEMMA RecountType ==
    ASSUME NEW row \in Row, NEW p
    PROVE  /\ Recount(row, p) \in Row
           /\ Recount(row, p) = [stored |-> row.stored, bound |-> row.bound,
                                 status |-> row.status, pending |-> PendingCount(p)]
BY CountType DEF Recount, Row

(* Event states are not "none", versions of events are numbers. *)
LEMMA SeenFacts ==
    /\ Event \subseteq Seen /\ Unseen \in Seen
    /\ \A e \in Event : e # Unseen
    /\ \A x \in Seen : x.version \in Nat
    /\ Unseen.state # "pending" /\ Unseen.state \notin Resolutions
    /\ \A x \in Seen : x = Unseen \/ x.state \in States
<1>1. \A e \in Event : e.state \in States /\ e.version \in Nat
  BY RequestAssumption DEF Event
<1>2. "none" \notin States
  BY RequestAssumption DEF States
<1>3. Unseen.state = "none" /\ Unseen.version = 0
  BY DEF Unseen
<1> QED
  BY <1>1, <1>2, <1>3, RequestAssumption DEF Seen

-----------------------------------------------------------------------------
(* Kinds of steps *)

(* A status change to a closed status is one of the board, or one of a task  *)
(* without pending approvals, or one from a closed status.                   *)
Warranted(t, st) ==
    Closed(st) => \/ t \in Remote
                  \/ PendingCount(proj[t]) = 0
                  \/ task[t].pending = 0
                  \/ Closed(task[t].status)

Quiet == UNCHANGED <<task, link, obs, proj, steady>>

Kinds ==
    \/ \E r \in Requests, e \in Event : ApplyApprovalProjection(r, e)
    \/ \E t \in Tasks, s \in Sessions : AttachSession(t, s)
    \/ \E t \in Tasks, b \in BOOLEAN, st \in Status :
          Insert(t, b, st) /\ (Closed(st) => t \in Remote)
    \/ \E t \in Tasks, st \in Status :
          Stored(t) /\ SetStatus(t, st) /\ Warranted(t, st)
    \/ \E t \in Tasks : DeleteTask(t)
    \/ \E t \in Tasks : DeleteLinks(t)
    \/ Quiet

(* Every step is of one of the kinds. *)
LEMMA StepKinds ==
    ASSUME [Next]_vars
    PROVE  Kinds
<1>1. CASE UNCHANGED vars
  BY <1>1 DEF vars, Kinds, Quiet
<1>2. CASE \E r \in Requests, e \in Event : ApplyApprovalProjection(r, e)
  BY <1>2 DEF Kinds
<1>3. ASSUME NEW t \in Tasks, TaskStep(t)
      PROVE  Kinds
  <2>1. CASE CreateTask(t)
    BY <2>1 DEF CreateTask, Kinds, Status, Closed
  <2>2. CASE DelegateTask(t)
    BY <2>2 DEF DelegateTask, Kinds, Status, Closed
  <2>3. CASE CompleteTask(t)
    BY <2>3 DEF CompleteTask, Kinds, Status, Warranted
  <2>4. CASE AcceptTask(t)
    BY <2>4 DEF AcceptTask, Kinds, Status, Warranted, Closed
  <2>5. CASE PatchTask(t)
    BY <2>5 DEF PatchTask, Kinds, Status, Warranted, Closed
  <2>6. CASE DeleteTask(t) \/ DeleteLinks(t)
    BY <2>6 DEF Kinds
  <2>7. CASE DeleteLinksFails(t)
    BY <2>7 DEF DeleteLinksFails, Kinds, Quiet
  <2>8. CASE RefreshStatus(t)
    BY <2>8 DEF RefreshStatus, Kinds, Status, Warranted, Closed, Quiet
  <2>9. CASE \E s \in Sessions : AttachSession(t, s)
    BY <2>9 DEF Kinds
  <2> QED
    BY <1>3, <2>1, <2>2, <2>3, <2>4, <2>5, <2>6, <2>7, <2>8, <2>9 DEF TaskStep
<1>4. ASSUME NEW t \in Remote, UpsertTask(t)
      PROVE  Kinds
  BY <1>4, RemoteAssumption DEF UpsertTask, Kinds, Warranted
<1>5. CASE ListBound
  BY <1>5 DEF ListBound, Kinds, Quiet
<1> QED
  BY <1>1, <1>2, <1>3, <1>4, <1>5 DEF Next

-----------------------------------------------------------------------------
(* Types *)

LEMMA AttachType ==
    ASSUME TypeOK, NEW t \in Tasks, NEW s \in Sessions, AttachSession(t, s)
    PROVE  TypeOK'
<1>1. Caught(t, s) \in [Requests -> Seen]
  BY UpsertType DEF TypeOK, Caught
<1>2. proj' \in [Tasks -> [Requests -> Seen]]
  BY <1>1 DEF AttachSession, TypeOK
<1>3. task' \in [Tasks -> Row]
  BY RecountType DEF AttachSession, TypeOK
<1> QED
  BY <1>2, <1>3 DEF AttachSession, TypeOK

LEMMA ApplyType ==
    ASSUME TypeOK, NEW r \in Requests, NEW e \in Event, ApplyApprovalProjection(r, e)
    PROVE  TypeOK'
<1>1. obs' \in [Requests -> Seen]
  BY UpsertType, SeenFacts DEF ApplyApprovalProjection, TypeOK
<1>2. \A t \in Tasks : [proj[t] EXCEPT ![r] = Upsert(proj[t][r], e)] \in [Requests -> Seen]
  BY UpsertType, SeenFacts DEF TypeOK
<1>3. proj' \in [Tasks -> [Requests -> Seen]]
  BY <1>2 DEF ApplyApprovalProjection, TypeOK
<1>4. task' \in [Tasks -> Row]
  BY RecountType DEF ApplyApprovalProjection, TypeOK
<1> QED
  BY <1>1, <1>3, <1>4 DEF ApplyApprovalProjection, TypeOK

LEMMA InsertType ==
    ASSUME TypeOK, NEW t \in Tasks, NEW b \in BOOLEAN, NEW st \in Status,
           Insert(t, b, st)
    PROVE  TypeOK'
<1>1. [stored |-> TRUE, bound |-> b, status |-> st, pending |-> 0] \in Row
  BY DEF Row
<1>2. task' \in [Tasks -> Row]
  BY <1>1 DEF Insert, TypeOK
<1>3. steady' \in [Tasks -> BOOLEAN]
  BY DEF Insert, TypeOK
<1> QED
  BY <1>2, <1>3 DEF Insert, TypeOK

LEMMA SetStatusType ==
    ASSUME TypeOK, NEW t \in Tasks, NEW st \in Status, SetStatus(t, st),
           listed' \subseteq Tasks
    PROVE  TypeOK'
<1>1. task' \in [Tasks -> Row]
  BY DEF SetStatus, TypeOK, Row
<1>2. steady' \in [Tasks -> BOOLEAN]
  BY DEF SetStatus, TypeOK
<1> QED
  BY <1>1, <1>2 DEF SetStatus, TypeOK

LEMMA NoRowType == NoRow \in Row
BY DEF NoRow, Row, Status

LEMMA DeleteType ==
    ASSUME TypeOK, NEW t \in Tasks, DeleteTask(t)
    PROVE  TypeOK'
<1>1. [r \in Requests |-> Unseen] \in [Requests -> Seen]
  BY SeenFacts
<1>2. proj' \in [Tasks -> [Requests -> Seen]]
  BY <1>1 DEF DeleteTask, TypeOK
<1>3. task' \in [Tasks -> Row]
  BY NoRowType DEF DeleteTask, TypeOK
<1> QED
  BY <1>2, <1>3 DEF DeleteTask, TypeOK

LEMMA TypeInit == Init => TypeOK
BY NoRowType, SeenFacts DEF Init, TypeOK

LEMMA TypeStep ==
    ASSUME TypeOK, [Next]_vars
    PROVE  TypeOK'
<1>1. CASE UNCHANGED vars
  BY <1>1 DEF vars, TypeOK
<1>2. CASE \E r \in Requests, e \in Event : ApplyApprovalProjection(r, e)
  BY <1>2, ApplyType
<1>3. ASSUME NEW t \in Tasks, TaskStep(t)
      PROVE  TypeOK'
  <2>1. CASE CreateTask(t) \/ DelegateTask(t)
    BY <2>1, InsertType DEF CreateTask, DelegateTask, Status
  <2>2. CASE CompleteTask(t) \/ AcceptTask(t) \/ PatchTask(t)
    <3>1. listed' \subseteq Tasks
      BY <2>2 DEF CompleteTask, AcceptTask, PatchTask, TypeOK
    <3> QED
      BY <2>2, <3>1, SetStatusType DEF CompleteTask, AcceptTask, PatchTask, Status
  <2>3. CASE DeleteTask(t)
    BY <2>3, DeleteType
  <2>4. CASE DeleteLinks(t) \/ DeleteLinksFails(t)
    BY <2>4 DEF DeleteLinks, DeleteLinksFails, TypeOK
  <2>5. CASE RefreshStatus(t)
    <3>1. listed' \subseteq Tasks
      BY <2>5 DEF RefreshStatus, TypeOK
    <3>2. CASE \E st \in Status : SetStatus(t, st)
      BY <3>1, <3>2, SetStatusType
    <3>3. CASE UNCHANGED <<task, link, obs, proj, deleting, steady>>
      BY <3>1, <3>3 DEF TypeOK
    <3> QED
      BY <2>5, <3>2, <3>3 DEF RefreshStatus, Status
  <2>6. CASE \E s \in Sessions : AttachSession(t, s)
    BY <2>6, AttachType
  <2> QED
    BY <1>3, <2>1, <2>2, <2>3, <2>4, <2>5, <2>6 DEF TaskStep
<1>4. ASSUME NEW t \in Remote, UpsertTask(t)
      PROVE  TypeOK'
  <2>1. PICK st \in RemoteStatus :
               \/ Insert(t, FALSE, st)
               \/ (Stored(t) /\ SetStatus(t, st) /\ UNCHANGED listed)
    BY <1>4 DEF UpsertTask
  <2>2. t \in Tasks /\ st \in Status
    BY RemoteAssumption
  <2> QED
    BY <2>1, <2>2, InsertType, SetStatusType DEF TypeOK
<1>5. CASE ListBound
  BY <1>5 DEF ListBound, TypeOK
<1> QED
  BY <1>1, <1>2, <1>3, <1>4, <1>5 DEF Next

(* The rows keep their types in every behaviour. *)
THEOREM TypeCorrect == Spec => []TypeOK
<1> QED
  BY TypeInit, TypeStep, PTL DEF Spec

-----------------------------------------------------------------------------
(* The invariant *)

(* A task that is not stored has no projections, and a steady one is stored  *)
(* and open.                                                                 *)
Bare == \A t \in Tasks : ~Stored(t) => proj[t] = [r \in Requests |-> Unseen]
SteadyOpen == \A t \in Tasks : steady[t] => Stored(t) /\ ~Closed(task[t].status)

IInv == TypeOK /\ CountDerived /\ Bare /\ SteadyOpen
        /\ NotClosedOverPending /\ ProjectionAgrees

LEMMA UnseenNotPending ==
    ASSUME NEW p, p = [r \in Requests |-> Unseen]
    PROVE  Pending(p) = {} /\ PendingCount(p) = 0
<1>1. Pending(p) = {}
  BY DEF Pending, Unseen
<1> QED
  BY <1>1, CountType

LEMMA IInvInit == Init => IInv
<1> SUFFICES ASSUME Init PROVE IInv
  OBVIOUS
<1>1. TypeOK
  BY TypeInit
<1>2. \A t \in Tasks : proj[t] = [r \in Requests |-> Unseen] /\ task[t] = NoRow
                       /\ ~steady[t]
  BY DEF Init
<1>3. CountDerived /\ NotClosedOverPending
  BY <1>2, UnseenNotPending DEF CountDerived, NotClosedOverPending, NoRow
<1>4. Bare /\ SteadyOpen /\ ProjectionAgrees
  BY <1>2 DEF Bare, SteadyOpen, ProjectionAgrees
<1> QED
  BY <1>1, <1>3, <1>4 DEF IInv

(* Steps that leave the rows, projections and links alone. *)
LEMMA QuietKeeps ==
    ASSUME IInv, TypeOK', Quiet
    PROVE  IInv'
BY DEF Quiet, IInv, CountDerived, Bare, SteadyOpen, NotClosedOverPending,
       ProjectionAgrees, Stored, Linked, Pending, PendingCount

(* An event changes the projections it reaches as it changes the observation. *)
LEMMA ApplyKeeps ==
    ASSUME IInv, TypeOK', NEW r \in Requests, NEW e \in Event,
           ApplyApprovalProjection(r, e)
    PROVE  IInv'
<1> USE DEF IInv
<1>1. \A t \in Tasks : /\ task'[t].stored = task[t].stored
                       /\ task'[t].status = task[t].status
                       /\ task'[t].pending = IF Reached(t, r, e)
                                            THEN PendingCount(proj'[t]) ELSE task[t].pending
  BY RecountType DEF ApplyApprovalProjection, TypeOK
<1>2. \A t \in Tasks : ~Reached(t, r, e) => proj'[t] = proj[t]
  BY DEF ApplyApprovalProjection
<1>3. \A t \in Tasks : Reached(t, r, e)
          => proj'[t] = [proj[t] EXCEPT ![r] = Upsert(proj[t][r], e)]
  BY DEF ApplyApprovalProjection
<1>4. CountDerived'
  BY <1>1, <1>2 DEF CountDerived
<1>5. Bare' /\ SteadyOpen'
  BY <1>1, <1>2 DEF Bare, SteadyOpen, Stored, Reached, ApplyApprovalProjection
<1>6. NotClosedOverPending'
  <2> SUFFICES ASSUME NEW t \in Tasks \ Remote, Closed(task'[t].status),
                      NEW q \in Requests, proj'[t][q].state = "pending"
               PROVE  FALSE
    BY DEF NotClosedOverPending, Pending
  <2>1. Pending(proj[t]) = {} /\ Closed(task[t].status)
    BY <1>1 DEF NotClosedOverPending
  <2>2. proj[t][q].state # "pending"
    BY <2>1 DEF Pending
  <2>3. Reached(t, r, e) /\ q = r /\ proj'[t][r] = Upsert(proj[t][r], e)
    BY <1>2, <1>3, <2>2 DEF TypeOK
  <2>4. e.state # "pending"
    BY <2>1, <2>3 DEF Reached
  <2> QED
    BY <2>2, <2>3, <2>4, UpsertResolved, SeenFacts DEF TypeOK
<1>7. ProjectionAgrees'
  <2> SUFFICES ASSUME NEW t \in Tasks, NEW q \in Requests, steady'[t]
               PROVE  proj'[t][q] = IF Linked(t, q)' THEN obs'[q] ELSE Unseen
    BY DEF ProjectionAgrees
  <2>1. steady[t] /\ (Linked(t, q)' <=> Linked(t, q))
    BY DEF ApplyApprovalProjection, Linked
  <2>2. proj[t][q] = IF Linked(t, q) THEN obs[q] ELSE Unseen
    BY <2>1 DEF ProjectionAgrees
  <2>3. Reached(t, r, e) <=> Linked(t, r)
    BY <2>1 DEF SteadyOpen, Reached
  <2>4. obs'[q] = IF q = r THEN Upsert(obs[r], e) ELSE obs[q]
    BY DEF ApplyApprovalProjection, TypeOK
  <2>5. proj'[t][q] = IF q = r /\ Linked(t, r) THEN Upsert(proj[t][r], e) ELSE proj[t][q]
    BY <1>2, <1>3, <2>3 DEF TypeOK
  <2> QED
    BY <2>1, <2>2, <2>4, <2>5
<1> QED
  BY <1>4, <1>5, <1>6, <1>7

(* A session that is attached brings exactly what was observed of it. *)
LEMMA AttachKeeps ==
    ASSUME IInv, TypeOK', NEW t \in Tasks, NEW s \in Sessions, AttachSession(t, s)
    PROVE  IInv'
<1> USE DEF IInv
<1>1. /\ task'[t].stored = task[t].stored /\ task'[t].status = task[t].status
      /\ task'[t].pending = PendingCount(proj'[t])
  BY RecountType DEF AttachSession, TypeOK
<1>2. \A u \in Tasks : u # t => task'[u] = task[u] /\ proj'[u] = proj[u]
  BY DEF AttachSession, TypeOK
<1>3. proj'[t] = Caught(t, s) /\ Stored(t)
  BY DEF AttachSession, TypeOK
<1>4. CountDerived'
  BY <1>1, <1>2 DEF CountDerived
<1>5. Bare' /\ SteadyOpen'
  BY <1>1, <1>2, <1>3 DEF Bare, SteadyOpen, Stored, AttachSession
<1>6. NotClosedOverPending'
  BY <1>1, <1>2, <1>3 DEF NotClosedOverPending, Caught
<1>7. ProjectionAgrees'
  <2> SUFFICES ASSUME NEW u \in Tasks, NEW q \in Requests, steady'[u]
               PROVE  proj'[u][q] = IF Linked(u, q)' THEN obs'[q] ELSE Unseen
    BY DEF ProjectionAgrees
  <2>1. steady[u] /\ obs' = obs
    BY DEF AttachSession
  <2>2. proj[u][q] = IF Linked(u, q) THEN obs[q] ELSE Unseen
    BY <2>1 DEF ProjectionAgrees
  <2>3. Linked(u, q)' <=> Linked(u, q) \/ (u = t /\ SessionOf[q] = s)
    BY DEF AttachSession, Linked
  <2>4. CASE u # t
    BY <1>2, <2>1, <2>2, <2>3, <2>4
  <2>5. CASE u = t
    <3>1. ~Closed(task[t].status)
      BY <2>1, <2>5 DEF SteadyOpen
    <3>2. proj'[t][q] = IF SessionOf[q] = s /\ obs[q] # Unseen
                        THEN Upsert(proj[t][q], obs[q]) ELSE proj[t][q]
      BY <1>3, <3>1 DEF Caught
    <3>3. proj[t][q] = obs[q] \/ proj[t][q] = Unseen
      BY <2>2, <2>5
    <3>4. Upsert(obs[q], obs[q]) = obs[q] /\ Upsert(Unseen, obs[q]) = obs[q]
      BY UpsertSame DEF Upsert, TypeOK
    <3> QED
      BY <2>1, <2>2, <2>3, <2>5, <3>2, <3>3, <3>4
  <2> QED
    BY <2>4, <2>5
<1> QED
  BY <1>4, <1>5, <1>6, <1>7

(* A new row starts without approvals, and steady only without links. *)
LEMMA InsertKeeps ==
    ASSUME IInv, TypeOK', NEW t \in Tasks, NEW b \in BOOLEAN, NEW st \in Status,
           Insert(t, b, st), Closed(st) => t \in Remote
    PROVE  IInv'
<1> USE DEF IInv
<1>1. /\ task'[t] = [stored |-> TRUE, bound |-> b, status |-> st, pending |-> 0]
      /\ \A u \in Tasks : u # t => task'[u] = task[u] /\ steady'[u] = steady[u]
      /\ steady'[t] => ~Closed(st) /\ \A s \in Sessions : <<t, s>> \notin link
      /\ UNCHANGED <<link, obs, proj>>
  BY DEF Insert, TypeOK
<1>2. proj[t] = [r \in Requests |-> Unseen] /\ Pending(proj[t]) = {}
  BY UnseenNotPending DEF Insert, Bare
<1>3. CountDerived'
  BY <1>1, <1>2, UnseenNotPending DEF CountDerived
<1>4. Bare' /\ SteadyOpen' /\ NotClosedOverPending'
  BY <1>1, <1>2 DEF Bare, SteadyOpen, NotClosedOverPending, Stored
<1>5. ProjectionAgrees'
  <2> SUFFICES ASSUME NEW u \in Tasks, NEW q \in Requests, steady'[u]
               PROVE  proj[u][q] = IF Linked(u, q) THEN obs[q] ELSE Unseen
    BY <1>1 DEF ProjectionAgrees, Linked
  <2>1. CASE u # t
    BY <1>1, <2>1 DEF ProjectionAgrees
  <2>2. CASE u = t
    BY <1>1, <1>2, <2>2, RequestAssumption DEF Linked
  <2> QED
    BY <2>1, <2>2
<1> QED
  BY <1>3, <1>4, <1>5

(* A warranted change of status. *)
LEMMA SetStatusKeeps ==
    ASSUME IInv, TypeOK', NEW t \in Tasks, NEW st \in Status,
           Stored(t), SetStatus(t, st), Warranted(t, st)
    PROVE  IInv'
<1> USE DEF IInv
<1>1. /\ \A u \in Tasks : /\ task'[u].stored = task[u].stored
                          /\ task'[u].pending = task[u].pending
                          /\ task'[u].status = IF u = t THEN st ELSE task[u].status
                          /\ steady'[u] = IF u = t THEN steady[t] /\ ~Closed(st) ELSE steady[u]
      /\ UNCHANGED <<link, obs, proj>>
  BY DEF SetStatus, TypeOK, Row
<1>2. CountDerived' /\ Bare' /\ SteadyOpen'
  BY <1>1 DEF CountDerived, Bare, SteadyOpen, Stored
<1>3. NotClosedOverPending'
  <2> SUFFICES ASSUME t \in Tasks \ Remote, Closed(st)
               PROVE  Pending(proj[t]) = {}
    BY <1>1 DEF NotClosedOverPending
  <2>1. CASE PendingCount(proj[t]) = 0 \/ task[t].pending = 0
    BY <2>1, CountType DEF CountDerived
  <2>2. CASE Closed(task[t].status)
    BY <2>2 DEF NotClosedOverPending
  <2> QED
    BY <2>1, <2>2 DEF Warranted
<1>4. ProjectionAgrees'
  BY <1>1 DEF ProjectionAgrees, Linked
<1> QED
  BY <1>2, <1>3, <1>4

(* A deleted row takes its projections with it. *)
LEMMA DeleteKeeps ==
    ASSUME IInv, TypeOK', NEW t \in Tasks, DeleteTask(t)
    PROVE  IInv'
<1> USE DEF IInv
<1>1. /\ task'[t] = NoRow /\ proj'[t] = [r \in Requests |-> Unseen] /\ ~steady'[t]
      /\ \A u \in Tasks : u # t => /\ task'[u] = task[u] /\ proj'[u] = proj[u]
                                    /\ steady'[u] = steady[u]
      /\ UNCHANGED <<link, obs>>
  BY DEF DeleteTask, TypeOK
<1>2. Pending(proj'[t]) = {} /\ PendingCount(proj'[t]) = 0
  BY <1>1, UnseenNotPending
<1>3. CountDerived' /\ Bare' /\ SteadyOpen' /\ NotClosedOverPending'
  BY <1>1, <1>2 DEF CountDerived, Bare, SteadyOpen, NotClosedOverPending, Stored, NoRow
<1>4. ProjectionAgrees'
  BY <1>1 DEF ProjectionAgrees, Linked
<1> QED
  BY <1>3, <1>4

(* Links that go take only the task they belong to out of step. *)
LEMMA DeleteLinksKeeps ==
    ASSUME IInv, TypeOK', NEW t \in Tasks, DeleteLinks(t)
    PROVE  IInv'
<1> USE DEF IInv
<1>1. /\ ~steady'[t] /\ UNCHANGED <<task, proj, obs>>
      /\ \A u \in Tasks : u # t => steady'[u] = steady[u]
      /\ link' = link \ ({t} \X Sessions)
  BY DEF DeleteLinks, TypeOK
<1>2. CountDerived' /\ Bare' /\ SteadyOpen' /\ NotClosedOverPending'
  BY <1>1 DEF CountDerived, Bare, SteadyOpen, NotClosedOverPending, Stored
<1>3. ProjectionAgrees'
  BY <1>1 DEF ProjectionAgrees, Linked
<1> QED
  BY <1>2, <1>3

LEMMA IInvStep ==
    ASSUME IInv, [Next]_vars
    PROVE  IInv'
<1>1. TypeOK' /\ Kinds
  BY TypeStep, StepKinds DEF IInv
<1>2. CASE \E r \in Requests, e \in Event : ApplyApprovalProjection(r, e)
  BY <1>1, <1>2, ApplyKeeps
<1>3. CASE \E t \in Tasks, s \in Sessions : AttachSession(t, s)
  BY <1>1, <1>3, AttachKeeps
<1>4. CASE \E t \in Tasks, b \in BOOLEAN, st \in Status :
             Insert(t, b, st) /\ (Closed(st) => t \in Remote)
  BY <1>1, <1>4, InsertKeeps
<1>5. CASE \E t \in Tasks, st \in Status : Stored(t) /\ SetStatus(t, st) /\ Warranted(t, st)
  BY <1>1, <1>5, SetStatusKeeps
<1>6. CASE \E t \in Tasks : DeleteTask(t)
  BY <1>1, <1>6, DeleteKeeps
<1>7. CASE \E t \in Tasks : DeleteLinks(t)
  BY <1>1, <1>7, DeleteLinksKeeps
<1>8. CASE Quiet
  BY <1>1, <1>8, QuietKeeps
<1> QED
  BY <1>1, <1>2, <1>3, <1>4, <1>5, <1>6, <1>7, <1>8 DEF Kinds

(* The invariant of the store: its types, what was resolved, and the three    *)
(* properties below.                                                          *)
THEOREM Invariant == Spec => []IInv
<1> QED
  BY IInvInit, IInvStep, PTL DEF Spec

(* pending_approvals is at all times the number of pending projections. *)
THEOREM CountKept == Spec => []CountDerived
<1>1. IInv => CountDerived
  BY DEF IInv
<1> QED
  BY <1>1, Invariant, PTL

(* Only the board closes a task over a pending projection. *)
THEOREM ClosedKept == Spec => []NotClosedOverPending
<1>1. IInv => NotClosedOverPending
  BY DEF IInv
<1> QED
  BY <1>1, Invariant, PTL

(* A task that was open all along has exactly what was observed. *)
THEOREM AgreementKept == Spec => []ProjectionAgrees
<1>1. IInv => ProjectionAgrees
  BY DEF IInv
<1> QED
  BY <1>1, Invariant, PTL

-----------------------------------------------------------------------------
(* Action properties *)

(* A steady task becomes completed only without pending projections. *)
LEMMA CompletionStep ==
    ASSUME IInv, [Next]_vars, NEW t \in Tasks \ Remote,
           steady[t], task'[t].status = "completed"
    PROVE  Pending(proj[t]) = {}
<1> USE DEF IInv
<1>1. ~Closed(task[t].status) /\ Stored(t) /\ task[t].status # "completed"
  BY DEF SteadyOpen, Closed
<1>2. Kinds
  BY StepKinds
<1>3. CASE \E r \in Requests, e \in Event : ApplyApprovalProjection(r, e)
  <2>1. task'[t].status = task[t].status
    BY <1>3, RecountType DEF ApplyApprovalProjection, TypeOK
  <2> QED
    BY <1>1, <2>1
<1>4. CASE \E u \in Tasks, s \in Sessions : AttachSession(u, s)
  <2>1. task'[t].status = task[t].status
    BY <1>4, RecountType DEF AttachSession, TypeOK
  <2> QED
    BY <1>1, <2>1
<1>5. CASE \E u \in Tasks, b \in BOOLEAN, st \in Status :
             Insert(u, b, st) /\ (Closed(st) => u \in Remote)
  BY <1>1, <1>5 DEF Insert, TypeOK
<1>6. CASE \E u \in Tasks, st \in Status : Stored(u) /\ SetStatus(u, st) /\ Warranted(u, st)
  <2>1. PICK u \in Tasks, st \in Status : SetStatus(u, st) /\ Warranted(u, st)
    BY <1>6
  <2>2. u = t /\ st = "completed"
    BY <1>1, <2>1 DEF SetStatus, TypeOK, Row
  <2>3. PendingCount(proj[t]) = 0
    BY <1>1, <2>1, <2>2 DEF Warranted, Closed, CountDerived
  <2> QED
    BY <2>3, CountType
<1>7. CASE \E u \in Tasks : DeleteTask(u)
  BY <1>1, <1>7 DEF DeleteTask, TypeOK, NoRow
<1>8. CASE (\E u \in Tasks : DeleteLinks(u)) \/ Quiet
  BY <1>1, <1>8 DEF DeleteLinks, Quiet
<1> QED
  BY <1>2, <1>3, <1>4, <1>5, <1>6, <1>7, <1>8 DEF Kinds

(* No completion of a task that was open all along passes over a request     *)
(* that is pending in one of its sessions.                                   *)
THEOREM CompletionIsClear == Spec => CompletesClear
<1>1. IInv /\ [Next]_vars =>
        \A t \in Tasks \ Remote :
          steady[t] /\ task'[t].status = "completed"
            => \A r \in Requests : Linked(t, r) => obs[r].state # "pending"
  <2> SUFFICES ASSUME IInv, [Next]_vars, NEW t \in Tasks \ Remote,
                      steady[t], task'[t].status = "completed",
                      NEW r \in Requests, Linked(t, r)
               PROVE  obs[r].state # "pending"
    OBVIOUS
  <2>1. Pending(proj[t]) = {}
    BY CompletionStep
  <2>2. proj[t][r] = obs[r]
    BY DEF IInv, ProjectionAgrees
  <2> QED
    BY <2>1, <2>2 DEF Pending
<1> QED
  BY <1>1, Invariant, PTL DEF Spec, CompletesClear

(* A resolved request is not pending after any step. *)
LEMMA ResolvedStep ==
    ASSUME TypeOK, [Next]_vars, NEW r \in Requests
    PROVE  /\ obs[r].state \in Resolutions => obs'[r].state \in Resolutions
           /\ \A t \in Tasks :
                Stored(t) /\ task'[t].stored /\ proj[t][r].state \in Resolutions
                  => proj'[t][r].state \in Resolutions
<1>1. Kinds
  BY StepKinds
<1>2. \A old \in Seen, e \in Seen :
        old.state \in Resolutions => Upsert(old, e).state \in Resolutions
  <2> SUFFICES ASSUME NEW old \in Seen, NEW e \in Seen, old.state \in Resolutions,
                      Upsert(old, e) = e, Upsert(old, e) # old
               PROVE  e.state \in Resolutions
    BY DEF Upsert
  <2>1. old # Unseen /\ old.state # "pending"
    BY SeenFacts, RequestAssumption
  <2>2. old.version < e.version /\ e.state # "pending"
    BY <2>1 DEF Upsert
  <2>3. e # Unseen
    <3>1. Unseen.version = 0 /\ old.version \in Nat
      BY SeenFacts DEF Unseen
    <3> QED
      BY <2>2, <3>1
  <2> QED
    BY <2>2, <2>3, SeenFacts DEF States
<1>3. CASE \E q \in Requests, e \in Event : ApplyApprovalProjection(q, e)
  <2>1. PICK q \in Requests, e \in Event : ApplyApprovalProjection(q, e)
    BY <1>3
  <2>2. obs'[r] = obs[r] \/ obs'[r] = Upsert(obs[r], e)
    BY <2>1 DEF ApplyApprovalProjection, TypeOK
  <2>3. \A t \in Tasks : proj'[t][r] = proj[t][r] \/ proj'[t][r] = Upsert(proj[t][r], e)
    BY <2>1 DEF ApplyApprovalProjection, TypeOK
  <2>4. obs[r] \in Seen /\ \A t \in Tasks : proj[t][r] \in Seen
    BY DEF TypeOK
  <2> QED
    BY <1>2, <2>2, <2>3, <2>4, SeenFacts
<1>4. CASE \E t \in Tasks, s \in Sessions : AttachSession(t, s)
  <2>1. PICK u \in Tasks, s \in Sessions : AttachSession(u, s)
    BY <1>4
  <2>2. \A t \in Tasks : proj'[t][r] = proj[t][r] \/ proj'[t][r] = Upsert(proj[t][r], obs[r])
    BY <2>1 DEF AttachSession, Caught, TypeOK
  <2>3. obs[r] \in Seen /\ (\A t \in Tasks : proj[t][r] \in Seen) /\ obs' = obs
    BY <2>1 DEF TypeOK, AttachSession
  <2> QED
    BY <1>2, <2>2, <2>3
<1>5. CASE \/ \E t \in Tasks, b \in BOOLEAN, st \in Status : Insert(t, b, st)
           \/ \E t \in Tasks, st \in Status : SetStatus(t, st)
           \/ \E t \in Tasks : DeleteLinks(t)
           \/ Quiet
  BY <1>5 DEF Insert, SetStatus, DeleteLinks, Quiet
<1>6. CASE \E t \in Tasks : DeleteTask(t)
  BY <1>6 DEF DeleteTask, TypeOK, NoRow
<1> QED
  BY <1>1, <1>3, <1>4, <1>5, <1>6 DEF Kinds

(* A request that is no longer pending never is again. *)
THEOREM ResolvedForGood == Spec => NeverPendingAgain
<1>1. TypeOK /\ [Next]_vars =>
        \A r \in Requests :
          /\ obs[r].state \in Resolutions => obs'[r].state \in Resolutions
          /\ \A t \in Tasks :
               Stored(t) /\ task'[t].stored /\ proj[t][r].state \in Resolutions
                 => proj'[t][r].state \in Resolutions
  BY ResolvedStep
<1> QED
  BY <1>1, TypeCorrect, PTL DEF Spec, NeverPendingAgain
=============================================================================

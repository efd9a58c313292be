--------------------------- MODULE ApprovalManager ---------------------------
(***************************************************************************)
(* The managers of OpenCode's permission and question requests             *)
(* (backend/internal/opencode/permission_manager.go, question_manager.go,  *)
(* approval_projection.go) above the task store.  A manager keeps the set  *)
(* of requests it asks users about.  A listener feeds it from the event    *)
(* stream, polls compare it with what OpenCode lists, users answer.  Each  *)
(* of them is a goroutine that publishes what it found: it takes a         *)
(* version, applies the event to the store, and only then settles the set. *)
(* The set is locked for single looks and changes, never across these      *)
(* steps.                                                                  *)
(*                                                                         *)
(* The definitions follow the permission manager.  The one of questions    *)
(* does the same steps; only the states differ in name, and its events say *)
(* what the answer was.  One OpenCode instance, of some workspace; a       *)
(* request of it opens once.                                               *)
(***************************************************************************)
EXTENDS ApprovalStore, Sequences

CONSTANTS
    Listener,   \* the goroutine of the event stream
    Pollers,    \* goroutines of polls that may overlap
    Callers,    \* HTTP requests that answer
    Decisions,  \* states that an answer gives a request
    MaxFaults   \* bound on faults

Workers == {Listener} \cup Pollers \cup Callers

ASSUME WorkerAssumption ==
    Listener \notin Pollers \cup Callers /\ Pollers \cap Callers = {}

ASSUME DecisionAssumption ==
    /\ Requests # {}
    /\ Decisions \subseteq Resolutions
    /\ {"approved", "expired"} \subseteq Resolutions
    /\ MaxFaults \in Nat

VARIABLES
    upstream,       \* OpenCode's requests
    stream,         \* events on their way to the listener
    cache,          \* the set of the manager (m.pending)
    worker,         \* the goroutines
    lastVersion,    \* of the versions given out
    faults,         \* how many faults there were
    disturbed       \* history: requests that a crash dropped from the cache
                    \* or whose resolution a higher version overtook

managerVars == <<upstream, stream, cache, worker, lastVersion, faults, disturbed>>
allVars     == <<vars, managerVars>>

Notice == [type : {"requested", "resolved"}, req : Requests]

(* A goroutine.  "version", "apply", "stored" and "lost" are the steps of a  *)
(* publication of `state` for `req`, and `then` is where it goes on.         *)
Goroutine ==
    [pc   : {"idle", "calling", "adding", "expiring",
             "version", "apply", "stored", "lost"},
     then : {"idle", "adding", "expiring"},
     req  : Requests, state : States, version : 0..MaxVersion,
     seen : SUBSET Requests, todo : SUBSET Requests]

Idle == [pc |-> "idle", then |-> "idle", req |-> CHOOSE r \in Requests : TRUE,
         state |-> "pending", version |-> 0, seen |-> {}, todo |-> {}]

(* Goroutine g on its way to publish that r is in state st.                  *)
Publishing(g, r, st) ==
    [g EXCEPT !.pc = "version", !.then = g.pc, !.req = r, !.state = st]

ManagerInit ==
    /\ Init
    /\ upstream = [r \in Requests |-> "absent"]
    /\ stream = <<>>
    /\ cache = {}
    /\ worker = [w \in Workers |-> Idle]
    /\ lastVersion = 0
    /\ faults = 0
    /\ disturbed = {}

Fault == faults < MaxFaults /\ faults' = faults + 1
-----------------------------------------------------------------------------
(* OpenCode and its event stream *)

(* The event is sent, or lost: no connection, or the buffer is full.         *)
Send(type, r) ==
    \/ stream' = Append(stream, [type |-> type, req |-> r]) /\ UNCHANGED faults
    \/ Fault /\ UNCHANGED stream

Ask(r) ==
    /\ upstream[r] = "absent"
    /\ upstream' = [upstream EXCEPT ![r] = "open"]
    /\ Send("requested", r)
    /\ UNCHANGED <<vars, cache, worker, lastVersion, disturbed>>

(* Answered elsewhere, or withdrawn.                                         *)
Withdraw(r) ==
    /\ upstream[r] = "open"
    /\ upstream' = [upstream EXCEPT ![r] = "closed"]
    /\ Send("resolved", r)
    /\ UNCHANGED <<vars, cache, worker, lastVersion, disturbed>>
-----------------------------------------------------------------------------
(* Publication *)

(* Variant: the version is left out.                                         *)
NextVersionZero(w) ==
    /\ worker[w].pc = "version"
    /\ worker' = [worker EXCEPT ![w].pc = "apply", ![w].version = 0]
    /\ UNCHANGED <<vars, upstream, stream, cache, lastVersion, faults, disturbed>>

(* nextVersion.  Two overlapping calls may get the same number; the store    *)
(* then drops the later transaction, as if its number were the lower one.    *)
NextVersion(w) ==
    /\ worker[w].pc = "version"
    /\ lastVersion < MaxVersion
    /\ lastVersion' = lastVersion + 1
    /\ worker' = [worker EXCEPT ![w].pc = "apply", ![w].version = lastVersion + 1]
    /\ UNCHANGED <<vars, upstream, stream, cache, faults, disturbed>>

(* A resolution that the store drops although the request is pending there.  *)
Overtaken(g) ==
    /\ g.state # "pending"
    /\ obs[g.req].state = "pending"
    /\ obs[g.req].version >= g.version

(* The transaction of the projector, or its failure.                         *)
Apply(w) ==
    /\ worker[w].pc = "apply"
    /\ ApplyApprovalProjection(worker[w].req,
           [state |-> worker[w].state, version |-> worker[w].version])
    /\ worker' = [worker EXCEPT ![w].pc = "stored"]
    /\ disturbed' = IF Overtaken(worker[w]) THEN disturbed \cup {worker[w].req}
                    ELSE disturbed
    /\ UNCHANGED <<upstream, stream, cache, lastVersion, faults>>

ApplyFails(w) ==
    /\ worker[w].pc = "apply"
    /\ Fault
    /\ worker' = [worker EXCEPT ![w].pc = "lost"]
    /\ UNCHANGED <<vars, upstream, stream, cache, lastVersion, disturbed>>

(* Variants: a request that could not be stored stays; the outcome of the    *)
(* transaction is not looked at.                                             *)
SettledKept(g) == IF g.pc = "stored" /\ g.state # "pending" THEN cache \ {g.req} ELSE cache
SettledBlindly(g) == IF g.state = "pending" THEN cache ELSE cache \ {g.req}

(* The cache after a publication: a request that could not be stored leaves  *)
(* it, and one whose resolution was stored.                                  *)
Settled(g) ==
    IF (g.pc = "stored") = (g.state = "pending") THEN cache ELSE cache \ {g.req}

Settle(w) ==
    /\ worker[w].pc \in {"stored", "lost"}
    /\ cache' = Settled(worker[w])
    /\ worker' = [worker EXCEPT ![w] = [Idle EXCEPT !.pc = worker[w].then,
                                           !.seen = worker[w].seen,
                                           !.todo = worker[w].todo]]
    /\ UNCHANGED <<vars, upstream, stream, lastVersion, faults, disturbed>>
-----------------------------------------------------------------------------
(* The listener *)

HandleRequested ==
    /\ worker[Listener].pc = "idle"
    /\ stream # <<>>
    /\ Head(stream).type = "requested"
    /\ stream' = Tail(stream)
    /\ cache' = cache \cup {Head(stream).req}
    /\ worker' = IF Head(stream).req \in cache THEN worker
                 ELSE [worker EXCEPT ![Listener] =
                          Publishing(worker[Listener], Head(stream).req, "pending")]
    /\ UNCHANGED <<vars, upstream, lastVersion, faults, disturbed>>

(* Variant: only what is in the cache is published.                          *)
HandleCachedResolved ==
    /\ worker[Listener].pc = "idle"
    /\ stream # <<>>
    /\ Head(stream).type = "resolved"
    /\ stream' = Tail(stream)
    /\ cache' = cache \ {Head(stream).req}
    /\ UNCHANGED <<vars, upstream, worker, lastVersion, faults, disturbed>>

(* What the answer was is not in the event: "approved".                      *)
HandleResolved ==
    /\ worker[Listener].pc = "idle"
    /\ stream # <<>>
    /\ Head(stream).type = "resolved"
    /\ stream' = Tail(stream)
    /\ worker' = [worker EXCEPT ![Listener] =
                     Publishing(worker[Listener], Head(stream).req, "approved")]
    /\ UNCHANGED <<vars, upstream, cache, lastVersion, faults, disturbed>>
-----------------------------------------------------------------------------
(* Polls *)

(* The list of OpenCode; a failed call gives an empty one.                   *)
Fetch(p) ==
    /\ worker[p].pc = "idle"
    /\ \E seen \in SUBSET Requests :
          /\ \/ seen = {r \in Requests : upstream[r] = "open"} /\ UNCHANGED faults
             \/ seen = {} /\ Fault
          /\ worker' = [worker EXCEPT ![p].pc = "adding", ![p].seen = seen,
                                      ![p].todo = seen]
    /\ UNCHANGED <<vars, upstream, stream, cache, lastVersion, disturbed>>

(* Variant: only requests that are known are looked at.                      *)
AddKnown(p) ==
    /\ worker[p].pc = "adding"
    /\ \E r \in worker[p].todo :
          worker' = [worker EXCEPT ![p].todo = @ \ {r}]
    /\ UNCHANGED <<vars, upstream, stream, cache, lastVersion, faults, disturbed>>

(* The next request of the list.                                             *)
AddSeen(p) ==
    /\ worker[p].pc = "adding"
    /\ \E r \in worker[p].todo :
          LET g == [worker[p] EXCEPT !.todo = @ \ {r}] IN
          /\ cache' = cache \cup {r}
          /\ worker' = [worker EXCEPT ![p] =
                           IF r \in cache THEN g ELSE Publishing(g, r, "pending")]
    /\ UNCHANGED <<vars, upstream, stream, lastVersion, faults, disturbed>>

(* Variant: nothing expires.                                                 *)
FindNone(p) ==
    /\ worker[p].pc = "adding"
    /\ worker[p].todo = {}
    /\ worker' = [worker EXCEPT ![p].pc = "expiring"]
    /\ UNCHANGED <<vars, upstream, stream, cache, lastVersion, faults, disturbed>>

(* What is in the cache and not in the list.                                 *)
FindExpired(p) ==
    /\ worker[p].pc = "adding"
    /\ worker[p].todo = {}
    /\ worker' = [worker EXCEPT ![p].pc = "expiring",
                                ![p].todo = cache \ worker[p].seen]
    /\ UNCHANGED <<vars, upstream, stream, cache, lastVersion, faults, disturbed>>

Expire(p) ==
    /\ worker[p].pc = "expiring"
    /\ \E r \in worker[p].todo :
          LET g == [worker[p] EXCEPT !.todo = @ \ {r}] IN
          worker' = [worker EXCEPT ![p] =
                        IF r \in cache THEN Publishing(g, r, "expired") ELSE g]
    /\ UNCHANGED <<vars, upstream, stream, cache, lastVersion, faults, disturbed>>

PollEnds(p) ==
    /\ worker[p].pc = "expiring"
    /\ worker[p].todo = {}
    /\ worker' = [worker EXCEPT ![p].pc = "idle", ![p].seen = {}]
    /\ UNCHANGED <<vars, upstream, stream, cache, lastVersion, faults, disturbed>>
-----------------------------------------------------------------------------
(* Answers *)

(* ReplyForWorkspace and RejectForWorkspace: the request must be in the cache.*)
Reply(c) ==
    /\ worker[c].pc = "idle"
    /\ \E r \in cache, st \in Decisions :
          worker' = [worker EXCEPT ![c].pc = "calling", ![c].req = r, ![c].state = st]
    /\ UNCHANGED <<vars, upstream, stream, cache, lastVersion, faults, disturbed>>

(* OpenCode takes the answer; its own answer may be lost on the way back.    *)
ReplyTaken(c) ==
    LET g == worker[c] IN
    /\ g.pc = "calling"
    /\ upstream[g.req] = "open"
    /\ upstream' = [upstream EXCEPT ![g.req] = "closed"]
    /\ \/ /\ Send("resolved", g.req)
          /\ worker' = [worker EXCEPT ![c] =
                           Publishing([g EXCEPT !.pc = "idle"], g.req, g.state)]
       \/ /\ Fault
          /\ stream' = Append(stream, [type |-> "resolved", req |-> g.req])
          /\ worker' = [worker EXCEPT ![c].pc = "idle"]
    /\ UNCHANGED <<vars, cache, lastVersion, disturbed>>

(* OpenCode has no such request any more.                                    *)
ReplyRefused(c) ==
    /\ worker[c].pc = "calling"
    /\ upstream[worker[c].req] # "open"
    /\ worker' = [worker EXCEPT ![c].pc = "idle"]
    /\ UNCHANGED <<vars, upstream, stream, cache, lastVersion, faults, disturbed>>
-----------------------------------------------------------------------------
(* The process dies and another starts: without cache, goroutines and        *)
(* subscription, with versions from the clock.                               *)
Restart ==
    /\ Fault
    /\ cache' = {}
    /\ worker' = [w \in Workers |-> Idle]
    /\ stream' = <<>>
    /\ disturbed' = disturbed \cup {r \in Requests : obs[r].state = "pending"}
    /\ UNCHANGED <<vars, upstream, lastVersion>>

WorkerStep(w) == NextVersion(w) \/ Apply(w) \/ ApplyFails(w) \/ Settle(w)
Listen        == HandleRequested \/ HandleResolved
PollStep(p)   == Fetch(p) \/ AddSeen(p) \/ FindExpired(p) \/ Expire(p) \/ PollEnds(p)
ReplyStep(c)  == Reply(c) \/ ReplyTaken(c) \/ ReplyRefused(c)

(* What happens to tasks meanwhile.                                          *)
TaskSide ==
    /\ \/ \E t \in Tasks : TaskStep(t)
       \/ \E t \in Remote : UpsertTask(t)
       \/ ListBound
    /\ UNCHANGED managerVars

ManagerNext ==
    \/ \E r \in Requests : Ask(r) \/ Withdraw(r)
    \/ \E w \in Workers : WorkerStep(w)
    \/ Listen
    \/ \E p \in Pollers : PollStep(p)
    \/ \E c \in Callers : ReplyStep(c)
    \/ Restart
    \/ TaskSide

ManagerSpec == ManagerInit /\ [][ManagerNext]_allVars

(* Every goroutine goes on, the ticker starts polls, and the listener reads  *)
(* its channel.  There are only MaxFaults faults.  Users and OpenCode are    *)
(* free.                                                                     *)
Fairness ==
    /\ \A w \in Workers : WF_allVars(NextVersion(w) \/ Apply(w) \/ Settle(w))
    /\ \A p \in Pollers : WF_allVars(PollStep(p))
    /\ \A c \in Callers : WF_allVars(ReplyTaken(c) \/ ReplyRefused(c))
    /\ WF_allVars(Listen)

FairManagerSpec == ManagerSpec /\ Fairness
-----------------------------------------------------------------------------
(* Properties *)

(* The types of the managers' variables. *)
ManagerTypeOK ==
    /\ TypeOK
    /\ upstream \in [Requests -> {"absent", "open", "closed"}]
    /\ stream \in Seq(Notice)
    /\ cache \subseteq Requests
    /\ worker \in [Workers -> Goroutine]
    /\ lastVersion \in 0..MaxVersion
    /\ faults \in 0..MaxFaults
    /\ disturbed \subseteq Requests

(* Goroutine w is about to store that r is pending, or failed to.            *)
Announcing(w, r) ==
    /\ worker[w].req = r /\ worker[w].state = "pending"
    /\ worker[w].pc \in {"version", "apply", "lost"}

(* Users are asked about a request only if the store knows of it, or a       *)
(* goroutine is about to store it and takes it back if that fails.           *)
CachedIsKnown ==
    \A r \in cache : obs[r] # Unseen \/ \E w \in Workers : Announcing(w, r)

(* A request that is pending in the store, where it keeps tasks from being   *)
(* completed, is one that users are asked about, unless a crash emptied the  *)
(* cache or the resolution was overtaken: nobody else would ever resolve it. *)
PendingIsTracked ==
    \A r \in Requests : obs[r].state = "pending" => r \in cache \cup disturbed

(* While users are asked about a request, a task of its session that was     *)
(* open all along is not completed, unless the store has been told that the  *)
(* request is resolved, or not yet been told of it.                          *)
CompletionSeesCache ==
    [][\A t \in Tasks \ Remote, r \in cache :
         steady[t] /\ Linked(t, r) /\ task'[t].status = "completed"
           => obs[r].state \in Resolutions \/ \E w \in Workers : Announcing(w, r)]_allVars

(* An open request comes to the users, whatever events are lost.             *)
OpenIsAsked ==
    \A r \in Requests : upstream[r] = "open" ~> r \in cache \/ upstream[r] = "closed"

(* Users are not asked for ever about a request that is closed.              *)
ClosedIsGone == \A r \in Requests : upstream[r] = "closed" ~> r \notin cache

(* A closed request does not keep tasks from being completed for ever,       *)
(* although its event may be lost and transactions fail.                     *)
ClosedIsResolved ==
    \A r \in Requests :
        upstream[r] = "closed" ~> obs[r].state # "pending" \/ r \in disturbed
-----------------------------------------------------------------------------
(* What the documentation says and the code does not keep *)

(* permission_manager.go:519: "Detect resolved (no longer in pending set)".  *)
(* A request that a poll found resolved, and expired, is not open.           *)
ExpiredIsNotOpen ==
    \A r \in Requests : obs[r].state = "expired" => upstream[r] # "open"
=============================================================================

------------------------ MODULE ApprovalManagerProofs ------------------------
(* Proofs about ApprovalManager, for any goroutines, requests, faults and      *)
(* bound on versions: it implements ApprovalStore, what users are asked about  *)
(* is known to the store, and what is pending there is asked about.            *)
EXTENDS ApprovalManager, ApprovalStoreProofs, SequenceTheorems

(* The shape of goroutines that the types leave out: a version is there when   *)
(* it is used, and an answer is a resolution.                                  *)
Armed ==
    \A w \in Workers :
        /\ worker[w].pc = "apply" => worker[w].version \in 1..MaxVersion
        /\ worker[w].pc = "calling" => worker[w].state \in Resolutions

TInv == ManagerTypeOK /\ Armed

LEMMA WorkerKinds ==
    Listener \in Workers /\ Pollers \subseteq Workers /\ Callers \subseteq Workers
BY DEF Workers

LEMMA StateFacts ==
    /\ "pending" \in States /\ Resolutions \subseteq States
    /\ "approved" \in Resolutions /\ "expired" \in Resolutions
    /\ "pending" \notin Resolutions /\ Decisions \subseteq Resolutions
BY RequestAssumption, DecisionAssumption DEF States

(* A goroutine that rests, and one that starts to publish. *)
LEMMA IdleType ==
    /\ Idle \in Goroutine
    /\ Idle.pc = "idle"
    /\ \A g \in Goroutine, pc \in {"idle", "adding", "expiring"} :
         LET h == [Idle EXCEPT !.pc = pc, !.seen = g.seen, !.todo = g.todo] IN
         h \in Goroutine /\ h.pc = pc
<1>1. (CHOOSE r \in Requests : TRUE) \in Requests
  BY DecisionAssumption
<1>2. 0 \in 0..MaxVersion
  BY RequestAssumption
<1> QED
  BY <1>1, <1>2, StateFacts DEF Idle, Goroutine

LEMMA PublishingType ==
    ASSUME NEW g \in Goroutine, g.pc \in {"idle", "adding", "expiring"},
           NEW r \in Requests, NEW st \in States
    PROVE  /\ Publishing(g, r, st) \in Goroutine
           /\ Publishing(g, r, st).pc = "version"
           /\ Publishing(g, r, st).req = r /\ Publishing(g, r, st).state = st
BY DEF Publishing, Goroutine

-----------------------------------------------------------------------------
(* Refinement *)

(* A transaction of a publication is one of the store. *)
LEMMA ApplySimulates ==
    ASSUME TInv, NEW w \in Workers, Apply(w)
    PROVE  Next
<1> DEFINE e == [state |-> worker[w].state, version |-> worker[w].version]
<1>1. worker[w] \in Goroutine /\ worker[w].version \in 1..MaxVersion
  BY DEF Apply, TInv, ManagerTypeOK, Armed
<1>2. e \in Event /\ worker[w].req \in Requests
  BY <1>1 DEF Event, Goroutine
<1>3. ApplyApprovalProjection(worker[w].req, e)
  BY DEF Apply
<1> QED
  BY <1>2, <1>3 DEF Next

(* Every step of the managers is a step of the store or changes nothing there. *)
LEMMA StepSimulates ==
    ASSUME TInv, [ManagerNext]_allVars
    PROVE  [Next]_vars
<1>1. CASE UNCHANGED allVars
  BY <1>1 DEF allVars
<1>2. CASE \E r \in Requests : Ask(r) \/ Withdraw(r)
  BY <1>2 DEF Ask, Withdraw
<1>3. ASSUME NEW w \in Workers, WorkerStep(w)
      PROVE  [Next]_vars
  BY <1>3, ApplySimulates DEF WorkerStep, NextVersion, ApplyFails, Settle
<1>4. CASE Listen
  BY <1>4 DEF Listen, HandleRequested, HandleResolved
<1>5. ASSUME NEW p \in Pollers, PollStep(p)
      PROVE  [Next]_vars
  BY <1>5 DEF PollStep, Fetch, AddSeen, FindExpired, Expire, PollEnds
<1>6. ASSUME NEW c \in Callers, ReplyStep(c)
      PROVE  [Next]_vars
  BY <1>6 DEF ReplyStep, Reply, ReplyTaken, ReplyRefused
<1>7. CASE Restart
  BY <1>7 DEF Restart
<1>8. CASE TaskSide
  BY <1>8 DEF TaskSide, Next
<1> QED
  BY <1>1, <1>2, <1>3, <1>4, <1>5, <1>6, <1>7, <1>8 DEF ManagerNext

-----------------------------------------------------------------------------
(* Types *)

Fit(g) ==
    /\ g \in Goroutine
    /\ g.pc = "apply" => g.version \in 1..MaxVersion
    /\ g.pc = "calling" => g.state \in Resolutions

(* One goroutine changes and stays well formed. *)
LEMMA OneChanges ==
    ASSUME TInv, NEW w \in Workers, NEW g, Fit(g), worker' = [worker EXCEPT ![w] = g]
    PROVE  worker' \in [Workers -> Goroutine] /\ Armed'
BY DEF TInv, ManagerTypeOK, Armed, Fit

(* A goroutine with a version fits. *)
LEMMA VersionFits ==
    ASSUME NEW g \in Goroutine, NEW v \in 1..MaxVersion
    PROVE  Fit([g EXCEPT !.pc = "apply", !.version = v])
<1>1. v \in 0..MaxVersion
  BY RequestAssumption
<1> QED
  BY <1>1 DEF Goroutine, Fit

LEMMA TInvInit == ManagerInit => TInv
<1> SUFFICES ASSUME ManagerInit PROVE TInv
  OBVIOUS
<1>1. TypeOK
  BY TypeInit DEF ManagerInit
<1>2. worker \in [Workers -> Goroutine] /\ Armed
  BY IdleType DEF ManagerInit, Armed
<1>3. stream \in Seq(Notice)
  BY DEF ManagerInit
<1> QED
  BY <1>1, <1>2, <1>3, RequestAssumption, DecisionAssumption
  DEF ManagerInit, TInv, ManagerTypeOK

(* The steps of a publication. *)
LEMMA WorkerStepType ==
    ASSUME TInv, TypeOK', NEW w \in Workers, WorkerStep(w)
    PROVE  TInv'
<1> USE DEF TInv, ManagerTypeOK
<1>1. worker[w] \in Goroutine /\ MaxVersion \in Nat /\ lastVersion \in Nat
  BY RequestAssumption
<1>2. CASE NextVersion(w)
  <2>1. lastVersion' = lastVersion + 1 /\ lastVersion + 1 \in 1..MaxVersion
        /\ lastVersion' \in 0..MaxVersion
    BY <1>1, <1>2 DEF NextVersion
  <2>2. Fit([worker[w] EXCEPT !.pc = "apply", !.version = lastVersion + 1])
    BY <1>1, <2>1, VersionFits
  <2>3. worker' = [worker EXCEPT ![w] =
                      [worker[w] EXCEPT !.pc = "apply", !.version = lastVersion + 1]]
    BY <1>2 DEF NextVersion
  <2> QED
    BY <1>2, <2>1, <2>2, <2>3, OneChanges DEF NextVersion
<1>3. CASE Apply(w)
  <2>1. Fit([worker[w] EXCEPT !.pc = "stored"])
    BY <1>1 DEF Goroutine, Fit
  <2>2. worker' = [worker EXCEPT ![w] = [worker[w] EXCEPT !.pc = "stored"]]
    BY <1>3 DEF Apply
  <2>3. disturbed' \subseteq Requests
    BY <1>1, <1>3 DEF Apply, Goroutine
  <2> QED
    BY <1>3, <2>1, <2>2, <2>3, OneChanges DEF Apply
<1>4. CASE ApplyFails(w)
  <2>1. Fit([worker[w] EXCEPT !.pc = "lost"])
    BY <1>1 DEF Goroutine, Fit
  <2>2. worker' = [worker EXCEPT ![w] = [worker[w] EXCEPT !.pc = "lost"]]
    BY <1>4 DEF ApplyFails
  <2>3. faults' \in 0..MaxFaults
    BY <1>4, DecisionAssumption DEF ApplyFails, Fault
  <2> QED
    BY <1>4, <2>1, <2>2, <2>3, OneChanges DEF ApplyFails
<1>5. CASE Settle(w)
  <2> DEFINE g == [Idle EXCEPT !.pc = worker[w].then, !.seen = worker[w].seen,
                               !.todo = worker[w].todo]
  <2>1. worker[w].then \in {"idle", "adding", "expiring"}
    BY <1>1 DEF Goroutine
  <2>2. Fit(g)
    BY <1>1, <2>1, IdleType DEF Fit
  <2>3. worker' = [worker EXCEPT ![w] = g]
    BY <1>5 DEF Settle
  <2>4. cache' \subseteq Requests
    BY <1>5 DEF Settle, Settled
  <2> QED
    BY <1>5, <2>2, <2>3, <2>4, OneChanges DEF Settle
<1> QED
  BY <1>2, <1>3, <1>4, <1>5 DEF WorkerStep

(* The listener. *)
LEMMA ListenType ==
    ASSUME TInv, TypeOK', Listen
    PROVE  TInv'
<1> USE DEF TInv, ManagerTypeOK
<1>1. worker[Listener] \in Goroutine /\ worker[Listener].pc = "idle"
  BY WorkerKinds DEF Listen, HandleRequested, HandleResolved
<1>2. Head(stream).req \in Requests /\ Tail(stream) \in Seq(Notice)
  <2>1. stream \in Seq(Notice) /\ stream # <<>>
    BY DEF Listen, HandleRequested, HandleResolved
  <2>2. Head(stream) \in Notice /\ Tail(stream) \in Seq(Notice)
    BY <2>1, HeadTailProperties
  <2> QED
    BY <2>2 DEF Notice
<1>3. \A st \in States : Fit(Publishing(worker[Listener], Head(stream).req, st))
  BY <1>1, <1>2, PublishingType DEF Fit
<1>4. CASE HandleRequested
  <2>1. worker' \in [Workers -> Goroutine] /\ Armed'
    <3>1. CASE Head(stream).req \in cache
      BY <1>4, <3>1 DEF HandleRequested, Armed
    <3>2. CASE Head(stream).req \notin cache
      BY <1>3, <1>4, <3>2, WorkerKinds, StateFacts, OneChanges DEF HandleRequested
    <3> QED
      BY <3>1, <3>2
  <2> QED
    BY <1>2, <1>4, <2>1 DEF HandleRequested
<1>5. CASE HandleResolved
  <2>1. worker' \in [Workers -> Goroutine] /\ Armed'
    BY <1>3, <1>5, WorkerKinds, StateFacts, OneChanges DEF HandleResolved
  <2> QED
    BY <1>2, <1>5, <2>1 DEF HandleResolved
<1> QED
  BY <1>4, <1>5 DEF Listen

(* An event that is sent, or lost. *)
LEMMA SendType ==
    ASSUME TInv, NEW type \in {"requested", "resolved"}, NEW r \in Requests, Send(type, r)
    PROVE  stream' \in Seq(Notice) /\ faults' \in 0..MaxFaults
<1>1. [type |-> type, req |-> r] \in Notice
  BY DEF Notice
<1>2. stream \in Seq(Notice) /\ faults \in 0..MaxFaults /\ MaxFaults \in Nat
  BY DecisionAssumption DEF TInv, ManagerTypeOK
<1>3. Append(stream, [type |-> type, req |-> r]) \in Seq(Notice)
  BY <1>1, <1>2, AppendProperties
<1> QED
  BY <1>2, <1>3 DEF Send, Fault

(* OpenCode's own steps. *)
LEMMA OpenCodeType ==
    ASSUME TInv, TypeOK', NEW r \in Requests, Ask(r) \/ Withdraw(r)
    PROVE  TInv'
<1>1. stream' \in Seq(Notice) /\ faults' \in 0..MaxFaults
  BY SendType DEF Ask, Withdraw
<1>2. upstream' \in [Requests -> {"absent", "open", "closed"}]
  BY DEF TInv, ManagerTypeOK, Ask, Withdraw
<1> QED
  BY <1>1, <1>2 DEF TInv, ManagerTypeOK, Armed, Ask, Withdraw

(* The steps of a poll. *)
LEMMA PollType ==
    ASSUME TInv, TypeOK', NEW p \in Pollers, PollStep(p)
    PROVE  TInv'
<1>1. worker[p] \in Goroutine /\ p \in Workers
  BY WorkerKinds DEF TInv, ManagerTypeOK
<1>2. worker[p].pc \in {"idle", "adding", "expiring"}
  BY DEF PollStep, Fetch, AddSeen, FindExpired, Expire, PollEnds
<1>3. worker[p].todo \subseteq Requests /\ worker[p].seen \subseteq Requests
  BY <1>1 DEF Goroutine
<1>4. cache \subseteq Requests /\ worker \in [Workers -> Goroutine]
      /\ faults \in 0..MaxFaults /\ MaxFaults \in Nat
  BY DecisionAssumption DEF TInv, ManagerTypeOK
<1>5. \A pc \in {"idle", "adding", "expiring"}, seen, todo \in SUBSET Requests :
        Fit([worker[p] EXCEPT !.pc = pc, !.seen = seen, !.todo = todo])
  BY <1>1 DEF Goroutine, Fit
<1>6. \A r \in Requests, st \in States, todo \in SUBSET Requests :
        Fit(Publishing([worker[p] EXCEPT !.todo = todo], r, st))
        /\ Fit([worker[p] EXCEPT !.todo = todo])
  <2> SUFFICES ASSUME NEW r \in Requests, NEW st \in States, NEW todo \in SUBSET Requests
               PROVE  Fit(Publishing([worker[p] EXCEPT !.todo = todo], r, st))
                      /\ Fit([worker[p] EXCEPT !.todo = todo])
    OBVIOUS
  <2>1. [worker[p] EXCEPT !.todo = todo] \in Goroutine
        /\ [worker[p] EXCEPT !.todo = todo].pc = worker[p].pc
    BY <1>1 DEF Goroutine
  <2> QED
    BY <1>2, <2>1, PublishingType DEF Fit
<1>7. /\ worker' \in [Workers -> Goroutine] /\ Armed'
      /\ cache' \subseteq Requests /\ faults' \in 0..MaxFaults
      /\ UNCHANGED <<upstream, stream, lastVersion, disturbed>>
  <2>1. CASE Fetch(p)
    <3>1. PICK seen \in SUBSET Requests :
            /\ UNCHANGED faults \/ Fault
            /\ worker' = [worker EXCEPT ![p].pc = "adding", ![p].seen = seen, ![p].todo = seen]
      BY <2>1 DEF Fetch
    <3>2. worker' = [worker EXCEPT ![p] =
                        [worker[p] EXCEPT !.pc = "adding", !.seen = seen, !.todo = seen]]
      BY <3>1
    <3>3. Fit([worker[p] EXCEPT !.pc = "adding", !.seen = seen, !.todo = seen])
      BY <1>5
    <3>4. faults' \in 0..MaxFaults
      BY <1>4, <3>1 DEF Fault
    <3>5. worker' \in [Workers -> Goroutine] /\ Armed'
      BY <1>1, <3>2, <3>3, OneChanges
    <3> QED
      BY <1>4, <2>1, <3>4, <3>5 DEF Fetch
  <2>2. CASE AddSeen(p)
    <3>1. PICK r \in worker[p].todo :
            /\ cache' = cache \cup {r}
            /\ worker' = [worker EXCEPT ![p] =
                   IF r \in cache THEN [worker[p] EXCEPT !.todo = @ \ {r}]
                   ELSE Publishing([worker[p] EXCEPT !.todo = @ \ {r}], r, "pending")]
      BY <2>2 DEF AddSeen
    <3>2. r \in Requests /\ worker[p].todo \ {r} \in SUBSET Requests
      BY <1>3
    <3> QED
      BY <1>1, <1>4, <1>6, <2>2, <3>1, <3>2, StateFacts, OneChanges DEF AddSeen
  <2>3. CASE FindExpired(p)
    <3>1. worker' = [worker EXCEPT ![p] =
                        [worker[p] EXCEPT !.pc = "expiring", !.seen = worker[p].seen,
                                          !.todo = cache \ worker[p].seen]]
      BY <1>1, <2>3 DEF FindExpired, Goroutine
    <3>2. Fit([worker[p] EXCEPT !.pc = "expiring", !.seen = worker[p].seen,
                                !.todo = cache \ worker[p].seen])
      BY <1>3, <1>4, <1>5
    <3>3. worker' \in [Workers -> Goroutine] /\ Armed'
      BY <1>1, <3>1, <3>2, OneChanges
    <3> QED
      BY <1>4, <2>3, <3>3 DEF FindExpired
  <2>4. CASE Expire(p)
    <3>1. PICK r \in worker[p].todo :
            worker' = [worker EXCEPT ![p] =
                   IF r \in cache
                   THEN Publishing([worker[p] EXCEPT !.todo = @ \ {r}], r, "expired")
                   ELSE [worker[p] EXCEPT !.todo = @ \ {r}]]
      BY <2>4 DEF Expire
    <3>2. r \in Requests /\ worker[p].todo \ {r} \in SUBSET Requests
      BY <1>3
    <3> QED
      BY <1>1, <1>4, <1>6, <2>4, <3>1, <3>2, StateFacts, OneChanges DEF Expire
  <2>5. CASE PollEnds(p)
    <3>1. worker' = [worker EXCEPT ![p] =
                        [worker[p] EXCEPT !.pc = "idle", !.seen = {}, !.todo = {}]]
      BY <1>1, <2>5 DEF PollEnds, Goroutine
    <3>2. Fit([worker[p] EXCEPT !.pc = "idle", !.seen = {}, !.todo = {}])
      BY <1>5
    <3>3. worker' \in [Workers -> Goroutine] /\ Armed'
      BY <1>1, <3>1, <3>2, OneChanges
    <3> QED
      BY <1>4, <2>5, <3>3 DEF PollEnds
  <2> QED
    BY <2>1, <2>2, <2>3, <2>4, <2>5 DEF PollStep
<1> QED
  BY <1>7 DEF TInv, ManagerTypeOK

(* The steps of an answer. *)
LEMMA ReplyType ==
    ASSUME TInv, TypeOK', NEW c \in Callers, ReplyStep(c)
    PROVE  TInv'
<1>1. worker[c] \in Goroutine /\ c \in Workers
  BY WorkerKinds DEF TInv, ManagerTypeOK
<1>2. CASE Reply(c)
  <2>1. PICK r \in cache, st \in Decisions :
          worker' = [worker EXCEPT ![c].pc = "calling", ![c].req = r, ![c].state = st]
    BY <1>2 DEF Reply
  <2>2. worker' = [worker EXCEPT ![c] =
                      [worker[c] EXCEPT !.pc = "calling", !.req = r, !.state = st]]
    BY <2>1
  <2>3. r \in Requests /\ st \in Resolutions /\ st \in States
    BY StateFacts DEF TInv, ManagerTypeOK
  <2>4. Fit([worker[c] EXCEPT !.pc = "calling", !.req = r, !.state = st])
    BY <1>1, <2>3 DEF Goroutine, Fit
  <2> QED
    BY <1>1, <1>2, <2>2, <2>4, OneChanges DEF Reply, TInv, ManagerTypeOK
<1>3. CASE ReplyTaken(c)
  <2>1. worker[c].req \in Requests /\ worker[c].state \in States
    BY <1>1 DEF Goroutine
  <2>2. [worker[c] EXCEPT !.pc = "idle"] \in Goroutine
        /\ [worker[c] EXCEPT !.pc = "idle"].pc = "idle"
    BY <1>1 DEF Goroutine
  <2>3. Fit([worker[c] EXCEPT !.pc = "idle"])
        /\ Fit(Publishing([worker[c] EXCEPT !.pc = "idle"], worker[c].req, worker[c].state))
    BY <2>1, <2>2, PublishingType DEF Fit
  <2>4. \/ /\ Send("resolved", worker[c].req)
           /\ worker' = [worker EXCEPT ![c] =
                  Publishing([worker[c] EXCEPT !.pc = "idle"], worker[c].req, worker[c].state)]
        \/ /\ Fault
           /\ stream' = Append(stream, [type |-> "resolved", req |-> worker[c].req])
           /\ worker' = [worker EXCEPT ![c] = [worker[c] EXCEPT !.pc = "idle"]]
    BY <1>3 DEF ReplyTaken
  <2>5. worker' \in [Workers -> Goroutine] /\ Armed'
    BY <1>1, <2>3, <2>4, OneChanges
  <2>6. stream' \in Seq(Notice) /\ faults' \in 0..MaxFaults
    <3>1. CASE Send("resolved", worker[c].req)
      BY <2>1, <3>1, SendType
    <3>2. CASE /\ Fault
               /\ stream' = Append(stream, [type |-> "resolved", req |-> worker[c].req])
      <4>1. [type |-> "resolved", req |-> worker[c].req] \in Notice
        BY <2>1 DEF Notice
      <4>2. stream \in Seq(Notice) /\ faults \in 0..MaxFaults
        BY DEF TInv, ManagerTypeOK
      <4>3. stream' \in Seq(Notice)
        BY <3>2, <4>1, <4>2, AppendProperties
      <4> QED
        BY <3>2, <4>2, <4>3, DecisionAssumption DEF Fault
    <3> QED
      BY <2>4, <3>1, <3>2
  <2>7. upstream' \in [Requests -> {"absent", "open", "closed"}]
    BY <1>3, <2>1 DEF ReplyTaken, TInv, ManagerTypeOK
  <2> QED
    BY <1>3, <2>5, <2>6, <2>7 DEF ReplyTaken, TInv, ManagerTypeOK
<1>4. CASE ReplyRefused(c)
  <2>1. Fit([worker[c] EXCEPT !.pc = "idle"])
    BY <1>1 DEF Goroutine, Fit
  <2>2. worker' = [worker EXCEPT ![c] = [worker[c] EXCEPT !.pc = "idle"]]
    BY <1>4 DEF ReplyRefused
  <2> QED
    BY <1>1, <1>4, <2>1, <2>2, OneChanges DEF ReplyRefused, TInv, ManagerTypeOK
<1> QED
  BY <1>2, <1>3, <1>4 DEF ReplyStep

LEMMA RestartType ==
    ASSUME TInv, TypeOK', Restart
    PROVE  TInv'
<1>1. worker' \in [Workers -> Goroutine] /\ Armed'
  BY IdleType DEF Restart, Armed
<1>2. faults' \in 0..MaxFaults
  BY DecisionAssumption DEF Restart, Fault, TInv, ManagerTypeOK
<1>3. stream' \in Seq(Notice)
  BY DEF Restart
<1> QED
  BY <1>1, <1>2, <1>3 DEF Restart, TInv, ManagerTypeOK

LEMMA TInvStep ==
    ASSUME TInv, [ManagerNext]_allVars
    PROVE  TInv'
<1>1. TypeOK'
  BY StepSimulates, TypeStep DEF TInv, ManagerTypeOK
<1>2. CASE UNCHANGED allVars \/ TaskSide
  BY <1>1, <1>2 DEF allVars, managerVars, TaskSide, TInv, ManagerTypeOK, Armed
<1>3. CASE Listen
  BY <1>1, <1>3, ListenType
<1>4. CASE Restart
  BY <1>1, <1>4, RestartType
<1> QED
  BY <1>1, <1>2, <1>3, <1>4, OpenCodeType, WorkerStepType, PollType, ReplyType
  DEF ManagerNext

LEMMA ManagerTyped == ManagerSpec => []TInv
<1> QED
  BY TInvInit, TInvStep, PTL DEF ManagerSpec

(* The variables of the managers and of the store keep their types. *)
THEOREM ManagerTypeCorrect == ManagerSpec => []ManagerTypeOK
<1>1. TInv => ManagerTypeOK
  BY DEF TInv
<1> QED
  BY <1>1, ManagerTyped, PTL

(* Whatever the managers do to the store is what ApprovalStore allows, so all *)
(* that is proved of it holds here.                                           *)
THEOREM ManagerImplements == ManagerSpec => Spec
<1>1. ManagerInit => Init
  BY DEF ManagerInit
<1>2. TInv /\ [ManagerNext]_allVars => [Next]_vars
  BY StepSimulates
<1> QED
  BY <1>1, <1>2, ManagerTyped, PTL DEF ManagerSpec, Spec

-----------------------------------------------------------------------------
(* The cache and the store *)

(* Request r is no longer of concern: resolved in the store, which nothing    *)
(* undoes, or disturbed.                                                      *)
Firm(r) == obs[r].state \in Resolutions \/ r \in disturbed

(* What a goroutine announces is in the cache, is new to the store, and is    *)
(* announced by no other one, as long as it is not firm; a resolution that    *)
(* was stored makes it firm.                                                  *)
AnnouncedIsCached ==
    \A w \in Workers, r \in Requests : Announcing(w, r) => r \in cache \/ Firm(r)
AnnouncedIsNew ==
    \A w \in Workers, r \in Requests : Announcing(w, r) => obs[r] = Unseen \/ Firm(r)
AnnouncedOnce ==
    \A w, x \in Workers, r \in Requests :
        Announcing(w, r) /\ Announcing(x, r) /\ w # x => Firm(r)
ResolvedIsFirm ==
    \A w \in Workers :
        worker[w].pc = "stored" /\ worker[w].state # "pending" => Firm(worker[w].req)

Tracking == /\ AnnouncedIsCached /\ AnnouncedIsNew /\ AnnouncedOnce
            /\ ResolvedIsFirm /\ CachedIsKnown /\ PendingIsTracked

MInv == TInv /\ Tracking

LEMMA ObsFacts ==
    ASSUME TInv, NEW r \in Requests
    PROVE  /\ obs[r] \in Seen
           /\ obs[r] = Unseen \/ obs[r].state = "pending" \/ obs[r].state \in Resolutions
           /\ ~(obs[r].state = "pending" /\ obs[r].state \in Resolutions)
           /\ Unseen.state # "pending"
<1>1. obs[r] \in Seen
  BY DEF TInv, ManagerTypeOK, TypeOK
<1> QED
  BY <1>1, SeenFacts, RequestAssumption DEF States

(* A goroutine changes, and announces the same as before.                     *)
LEMMA UnheardKeeps ==
    ASSUME MInv, UNCHANGED <<obs, cache, disturbed>>,
           NEW w \in Workers, NEW g, worker' = [worker EXCEPT ![w] = g],
           \A r \in Requests : Announcing(w, r)' <=> Announcing(w, r),
           g.pc = "stored" => g.state = "pending"
    PROVE  Tracking'
<1> USE DEF MInv
<1>0. worker \in [Workers -> Goroutine] /\ cache \subseteq Requests
  BY DEF TInv, ManagerTypeOK
<1>1. \A x \in Workers, r \in Requests : Announcing(x, r)' <=> Announcing(x, r)
  BY <1>0 DEF Announcing
<1>2. \A r \in Requests : Firm(r)' <=> Firm(r)
  BY DEF Firm
<1>3. AnnouncedIsCached' /\ AnnouncedIsNew' /\ AnnouncedOnce'
  BY <1>1, <1>2 DEF Tracking, AnnouncedIsCached, AnnouncedIsNew, AnnouncedOnce
<1>4. ResolvedIsFirm'
  <2>1. worker'[w] = g /\ \A x \in Workers : x # w => worker'[x] = worker[x]
    BY <1>0
  <2> QED
    BY <2>1 DEF Tracking, ResolvedIsFirm, Firm
<1>5. CachedIsKnown' /\ PendingIsTracked'
  BY <1>0, <1>1 DEF Tracking, CachedIsKnown, PendingIsTracked
<1> QED
  BY <1>3, <1>4, <1>5 DEF Tracking

(* A request that was not in the cache enters it and is announced.            *)
LEMMA AnnounceKeeps ==
    ASSUME MInv, UNCHANGED <<obs, disturbed>>,
           NEW w \in Workers, NEW g \in Goroutine, worker' = [worker EXCEPT ![w] = g],
           NEW r \in Requests, r \notin cache, cache' = cache \cup {r},
           worker[w].pc \in {"idle", "adding"},
           g.pc = "version", g.req = r, g.state = "pending"
    PROVE  Tracking'
<1> USE DEF MInv, Tracking
<1>0. worker \in [Workers -> Goroutine]
  BY DEF TInv, ManagerTypeOK
<1>1. \A q \in Requests : ~Announcing(w, q) /\ (Announcing(w, q)' <=> q = r)
  BY <1>0 DEF Announcing
<1>2. \A x \in Workers, q \in Requests :
        x # w => (Announcing(x, q)' <=> Announcing(x, q))
  BY <1>0 DEF Announcing
<1>3. \A q \in Requests : Firm(q)' <=> Firm(q)
  BY DEF Firm
<1>4. obs[r] = Unseen \/ Firm(r)
  BY ObsFacts DEF PendingIsTracked, Firm
<1>5. AnnouncedIsCached'
  BY <1>1, <1>2, <1>3 DEF AnnouncedIsCached
<1>6. AnnouncedIsNew'
  BY <1>1, <1>2, <1>3, <1>4 DEF AnnouncedIsNew
<1>7. \A x \in Workers : Announcing(x, r) => Firm(r)
  BY DEF AnnouncedIsCached
<1>8. AnnouncedOnce'
  BY <1>1, <1>2, <1>3, <1>7 DEF AnnouncedOnce
<1>9. ResolvedIsFirm'
  BY <1>0, <1>3 DEF ResolvedIsFirm, Firm
<1>10. CachedIsKnown' /\ PendingIsTracked'
  <2>1. Announcing(w, r)'
    BY <1>1
  <2>2. \A q \in cache : \A x \in Workers : Announcing(x, q) => Announcing(x, q)'
    BY <1>1, <1>2 DEF TInv, ManagerTypeOK
  <2> QED
    BY <2>1, <2>2 DEF CachedIsKnown, PendingIsTracked
<1> QED
  BY <1>5, <1>6, <1>8, <1>9, <1>10

(* The end of a publication. *)
LEMMA SettleKeeps ==
    ASSUME MInv, NEW w \in Workers, Settle(w)
    PROVE  Tracking'
<1> USE DEF MInv
<1> DEFINE g == [Idle EXCEPT !.pc = worker[w].then, !.seen = worker[w].seen,
                             !.todo = worker[w].todo]
           q == worker[w].req
<1>0. worker \in [Workers -> Goroutine] /\ cache \subseteq Requests
  BY DEF TInv, ManagerTypeOK
<1>1. g.pc \in {"idle", "adding", "expiring"} /\ q \in Requests
  BY <1>0, IdleType DEF Goroutine
<1>2. worker' = [worker EXCEPT ![w] = g] /\ worker'[w] = g
      /\ \A x \in Workers : x # w => worker'[x] = worker[x]
  BY <1>0 DEF Settle
<1>3. \A r \in Requests : ~Announcing(w, r)'
  <2>1. \A r \in Requests : Announcing(w, r)' => g.pc \in {"version", "apply", "lost"}
    BY <1>2 DEF Announcing
  <2> QED
    BY <1>1, <2>1
<1>4. UNCHANGED <<obs, disturbed>>
  BY DEF Settle, vars
<1>5. CASE (worker[w].pc = "stored") = (worker[w].state = "pending")
  <2>1. cache' = cache
    BY <1>5 DEF Settle, Settled
  <2>2. \A r \in Requests : ~Announcing(w, r)
    BY <1>5 DEF Settle, Announcing
  <2> QED
    BY <1>1, <1>2, <1>3, <1>4, <2>1, <2>2, UnheardKeeps
<1>6. CASE (worker[w].pc = "stored") # (worker[w].state = "pending")
  <2>1. cache' = cache \ {q}
    BY <1>6 DEF Settle, Settled
  <2>2. \A x \in Workers, r \in Requests :
          x # w => (Announcing(x, r)' <=> Announcing(x, r))
    BY <1>2 DEF Announcing
  <2>3. \A r \in Requests : Firm(r)' <=> Firm(r)
    BY <1>4 DEF Firm
  <2>4. \A r \in Requests : Announcing(w, r) => r = q
    BY DEF Announcing
  <2>5. Firm(q) \/ Announcing(w, q)
    BY <1>6 DEF Settle, Announcing, Tracking, ResolvedIsFirm
  <2>6. \A x \in Workers : x # w /\ Announcing(x, q) => Firm(q)
    BY <1>1, <2>5 DEF Tracking, AnnouncedOnce
  <2>7. AnnouncedIsCached'
    BY <1>0, <1>3, <2>1, <2>2, <2>3, <2>6 DEF Tracking, AnnouncedIsCached
  <2>8. AnnouncedIsNew' /\ AnnouncedOnce'
    BY <1>3, <1>4, <2>2, <2>3 DEF Tracking, AnnouncedIsNew, AnnouncedOnce
  <2>9. ResolvedIsFirm'
    BY <1>1, <1>2, <1>4 DEF Tracking, ResolvedIsFirm, Firm
  <2>10. CachedIsKnown'
    BY <1>0, <1>4, <2>1, <2>2, <2>4 DEF Tracking, CachedIsKnown
  <2>11. obs[q].state = "pending" => q \in disturbed
    <3>1. Firm(q) \/ obs[q] = Unseen
      BY <1>1, <2>5 DEF Tracking, AnnouncedIsNew
    <3> QED
      BY <1>1, <3>1, ObsFacts DEF Firm
  <2>12. PendingIsTracked'
    BY <1>1, <1>4, <2>1, <2>11 DEF Tracking, PendingIsTracked
  <2> QED
    BY <2>7, <2>8, <2>9, <2>10, <2>12 DEF Tracking
<1> QED
  BY <1>5, <1>6

(* The transaction of a publication.                                          *)
LEMMA StoreKeeps ==
    ASSUME MInv, NEW w \in Workers, Apply(w)
    PROVE  Tracking'
<1> USE DEF MInv
<1>q. PICK q \in Requests : q = worker[w].req
  BY DEF TInv, ManagerTypeOK, Goroutine
<1> DEFINE e == [state |-> worker[w].state, version |-> worker[w].version]
<1>0. worker \in [Workers -> Goroutine] /\ cache \subseteq Requests
      /\ obs \in [Requests -> Seen]
  BY DEF TInv, ManagerTypeOK, TypeOK
<1>1. worker[w] \in Goroutine /\ worker[w].version \in 1..MaxVersion
      /\ worker[w].pc = "apply"
  BY <1>0 DEF Apply, TInv, Armed
<1>2. q \in Requests /\ e \in Event /\ e.state = worker[w].state
      /\ e.version = worker[w].version
  BY <1>1 DEF Event, Goroutine
<1>3. obs' = [obs EXCEPT ![q] = Upsert(obs[q], e)] /\ cache' = cache
      /\ disturbed' = IF Overtaken(worker[w]) THEN disturbed \cup {q} ELSE disturbed
  BY <1>q DEF Apply, ApplyApprovalProjection
<1>4. worker' = [worker EXCEPT ![w].pc = "stored"]
  BY DEF Apply
<1>5. worker'[w].pc = "stored" /\ worker'[w].req = q /\ worker'[w].state = e.state
      /\ \A x \in Workers : x # w => worker'[x] = worker[x]
  BY <1>0, <1>1, <1>4, <1>q DEF Goroutine
<1>6. /\ \A r \in Requests : ~Announcing(w, r)'
      /\ \A x \in Workers, r \in Requests : x # w => (Announcing(x, r)' <=> Announcing(x, r))
  BY <1>5 DEF Announcing
<1>7. /\ obs'[q] = Upsert(obs[q], e)
      /\ \A r \in Requests : r # q => obs'[r] = obs[r]
  BY <1>0, <1>2, <1>3
<1>8. obs'[q] # Unseen
  BY <1>2, <1>7, SeenFacts DEF Upsert
<1>9. obs[q].state \in Resolutions => obs'[q].state \in Resolutions
  BY <1>2, ApplySimulates, ResolvedStep DEF TInv, ManagerTypeOK
<1>10. \A r \in Requests : Firm(r) => Firm(r)'
  BY <1>3, <1>7, <1>9 DEF Firm
<1>11. e.state # "pending" => Firm(q)'
  <2> SUFFICES ASSUME e.state # "pending" PROVE Firm(q)'
    OBVIOUS
  <2>1. e.state \in Resolutions
    BY <1>2 DEF Event, States
  <2>2. CASE obs'[q] = e
    BY <2>1, <2>2 DEF Firm
  <2>3. CASE obs'[q] # e
    <3>1. obs'[q] = obs[q] /\ obs[q] # Unseen /\ ~(obs[q].version < e.version)
      BY <1>7, <2>3 DEF Upsert
    <3>2. obs[q].version \in Nat /\ e.version \in Nat
      BY <1>0, <1>2, SeenFacts
    <3>3. obs[q].version >= worker[w].version
      BY <1>2, <3>1, <3>2
    <3>4. obs[q].state = "pending" => q \in disturbed'
      BY <1>2, <1>3, <1>q, <3>3 DEF Overtaken
    <3> QED
      BY <1>2, <3>1, <3>4, ObsFacts DEF Firm
  <2> QED
    BY <2>2, <2>3
<1>12. e.state = "pending" => Announcing(w, q)
  BY <1>1, <1>2, <1>q DEF Announcing
<1>13. AnnouncedIsCached'
  BY <1>3, <1>6, <1>10 DEF Tracking, AnnouncedIsCached
<1>14. AnnouncedOnce'
  BY <1>6, <1>10 DEF Tracking, AnnouncedOnce
<1>15. AnnouncedIsNew'
  <2>1. \A x \in Workers : x # w /\ Announcing(x, q) => Firm(q)'
    BY <1>2, <1>10, <1>11, <1>12 DEF Tracking, AnnouncedOnce
  <2> QED
    BY <1>6, <1>7, <1>10, <2>1 DEF Tracking, AnnouncedIsNew
<1>16. ResolvedIsFirm'
  <2> SUFFICES ASSUME NEW x \in Workers, worker'[x].pc = "stored",
                      worker'[x].state # "pending"
               PROVE  Firm(worker[x].req)' 
    BY DEF ResolvedIsFirm
  <2>1. CASE x = w
    BY <1>5, <1>11, <2>1 DEF Firm
  <2>2. CASE x # w
    <3>1. Firm(worker[x].req) /\ worker[x].req \in Requests
      BY <1>0, <1>5, <2>2 DEF Tracking, ResolvedIsFirm, Goroutine
    <3> QED
      BY <1>5, <1>10, <2>2, <3>1 DEF Firm
  <2> QED
    BY <2>1, <2>2
<1>17. CachedIsKnown'
  <2> SUFFICES ASSUME NEW r \in cache, r # q
               PROVE  obs'[r] # Unseen \/ \E x \in Workers : Announcing(x, r)'
    BY <1>3, <1>8 DEF CachedIsKnown
  <2>1. obs[r] # Unseen \/ \E x \in Workers : x # w /\ Announcing(x, r)
    BY <1>q DEF Tracking, CachedIsKnown, Announcing
  <2> QED
    BY <1>0, <1>6, <1>7, <2>1
<1>18. PendingIsTracked'
  <2>1. obs'[q].state = "pending" => q \in cache \cup disturbed'
    <3> SUFFICES ASSUME obs'[q].state = "pending" PROVE q \in cache \cup disturbed'
      OBVIOUS
    <3>1. obs'[q].state \notin Resolutions
      BY RequestAssumption
    <3>2. CASE e.state = "pending"
      BY <1>2, <1>3, <1>9, <1>12, <3>1, <3>2 DEF Tracking, AnnouncedIsCached, Firm
    <3>3. CASE e.state # "pending"
      BY <1>11, <3>1, <3>3 DEF Firm
    <3> QED
      BY <3>2, <3>3
  <2> QED
    BY <1>3, <1>7, <2>1 DEF Tracking, PendingIsTracked
<1> QED
  BY <1>13, <1>14, <1>15, <1>16, <1>17, <1>18 DEF Tracking

LEMMA ListenKeeps ==
    ASSUME MInv, Listen
    PROVE  Tracking'
<1> USE DEF MInv
<1>1. worker[Listener] \in Goroutine /\ worker[Listener].pc = "idle"
      /\ worker \in [Workers -> Goroutine] /\ Listener \in Workers
  BY WorkerKinds DEF Listen, HandleRequested, HandleResolved, TInv, ManagerTypeOK
<1>2. Head(stream).req \in Requests
  <2>1. stream \in Seq(Notice) /\ stream # <<>>
    BY DEF Listen, HandleRequested, HandleResolved, TInv, ManagerTypeOK
  <2>2. Head(stream) \in Notice
    BY <2>1, HeadTailProperties
  <2> QED
    BY <2>2 DEF Notice
<1>3. PICK r \in Requests : r = Head(stream).req
  BY <1>2
<1>4. UNCHANGED <<obs, disturbed>>
  BY DEF Listen, HandleRequested, HandleResolved, vars
<1>5. \A q \in Requests : ~Announcing(Listener, q)
  BY <1>1 DEF Announcing
<1>6. PICK g : g = Publishing(worker[Listener], r, "pending")
  OBVIOUS
<1>7. PICK h : h = Publishing(worker[Listener], r, "approved")
  OBVIOUS
<1>8. /\ g \in Goroutine /\ g.pc = "version" /\ g.req = r /\ g.state = "pending"
      /\ h \in Goroutine /\ h.pc = "version" /\ h.state = "approved"
  BY <1>1, <1>6, <1>7, StateFacts, PublishingType
<1>9. CASE HandleRequested /\ r \in cache
  <2>1. cache' = cache /\ worker' = worker
    BY <1>3, <1>9 DEF HandleRequested
  <2> QED
    BY <1>4, <2>1 DEF Tracking, AnnouncedIsCached, AnnouncedIsNew, AnnouncedOnce,
       ResolvedIsFirm, CachedIsKnown, PendingIsTracked, Announcing, Firm
<1>10. CASE HandleRequested /\ r \notin cache
  <2>1. cache' = cache \cup {r} /\ worker' = [worker EXCEPT ![Listener] = g]
    BY <1>3, <1>6, <1>10 DEF HandleRequested
  <2> QED
    BY <1>1, <1>4, <1>8, <1>10, <2>1, AnnounceKeeps
<1>11. CASE HandleResolved
  <2>1. cache' = cache /\ worker' = [worker EXCEPT ![Listener] = h]
    BY <1>3, <1>7, <1>11 DEF HandleResolved
  <2>2. \A q \in Requests : ~Announcing(Listener, q)'
    BY <1>1, <1>8, <2>1, StateFacts DEF Announcing
  <2> QED
    BY <1>1, <1>4, <1>5, <1>8, <2>1, <2>2, UnheardKeeps
<1> QED
  BY <1>9, <1>10, <1>11 DEF Listen

LEMMA PollKeeps ==
    ASSUME MInv, NEW p \in Pollers, PollStep(p)
    PROVE  Tracking'
<1> USE DEF MInv
<1>1. worker \in [Workers -> Goroutine] /\ p \in Workers /\ cache \subseteq Requests
      /\ worker[p] \in Goroutine
  BY WorkerKinds DEF TInv, ManagerTypeOK
<1>2. worker[p].pc \in {"idle", "adding", "expiring"}
  BY DEF PollStep, Fetch, AddSeen, FindExpired, Expire, PollEnds
<1>3. UNCHANGED <<obs, disturbed>>
  BY DEF PollStep, Fetch, AddSeen, FindExpired, Expire, PollEnds, vars
<1>4. \A q \in Requests : ~Announcing(p, q)
  BY <1>2 DEF Announcing
<1>5. worker[p].todo \subseteq Requests
  BY <1>1 DEF Goroutine
<1>6. CASE AddSeen(p)
  <2>1. PICK r \in worker[p].todo :
          /\ cache' = cache \cup {r}
          /\ worker' = [worker EXCEPT ![p] =
                 IF r \in cache THEN [worker[p] EXCEPT !.todo = @ \ {r}]
                 ELSE Publishing([worker[p] EXCEPT !.todo = @ \ {r}], r, "pending")]
    BY <1>6 DEF AddSeen
  <2>2. PICK h : h = [worker[p] EXCEPT !.todo = @ \ {r}]
    OBVIOUS
  <2>3. h \in Goroutine /\ h.pc = worker[p].pc
    BY <1>1, <2>2 DEF Goroutine
  <2>4. CASE r \in cache
    <3>1. worker' = [worker EXCEPT ![p] = h] /\ cache' = cache
      BY <2>1, <2>2, <2>4
    <3>2. worker'[p] = h
      BY <1>1, <3>1
    <3>3. \A q \in Requests : ~Announcing(p, q)'
      BY <1>2, <2>3, <3>2 DEF Announcing
    <3> QED
      BY <1>1, <1>2, <1>3, <1>4, <2>3, <3>1, <3>3, UnheardKeeps
  <2>5. CASE r \notin cache
    <3>1. PICK g : g = Publishing(h, r, "pending")
      OBVIOUS
    <3>2. g \in Goroutine /\ g.pc = "version" /\ g.req = r /\ g.state = "pending"
      BY <1>2, <1>5, <2>1, <2>3, <3>1, StateFacts, PublishingType
    <3>3. worker' = [worker EXCEPT ![p] = g]
      BY <2>1, <2>2, <2>5, <3>1
    <3>4. worker[p].pc \in {"idle", "adding"} /\ r \in Requests
      BY <1>5, <1>6, <2>1 DEF AddSeen
    <3> QED
      BY <1>1, <1>3, <2>1, <2>5, <3>2, <3>3, <3>4, AnnounceKeeps
  <2> QED
    BY <2>4, <2>5
<1>7. CASE Expire(p)
  <2>1. PICK r \in worker[p].todo :
          worker' = [worker EXCEPT ![p] =
                 IF r \in cache
                 THEN Publishing([worker[p] EXCEPT !.todo = @ \ {r}], r, "expired")
                 ELSE [worker[p] EXCEPT !.todo = @ \ {r}]]
    BY <1>7 DEF Expire
  <2>2. PICK h : h = [worker[p] EXCEPT !.todo = @ \ {r}]
    OBVIOUS
  <2>3. h \in Goroutine /\ h.pc = worker[p].pc
    BY <1>1, <2>2 DEF Goroutine
  <2>4. PICK g : g = IF r \in cache THEN Publishing(h, r, "expired") ELSE h
    OBVIOUS
  <2>5. g.pc # "stored" /\ (g.pc \in {"version", "apply", "lost"} => g.state # "pending")
    BY <1>2, <1>5, <2>1, <2>3, <2>4, StateFacts, PublishingType
  <2>6. worker' = [worker EXCEPT ![p] = g] /\ cache' = cache
    BY <1>7, <2>1, <2>2, <2>4 DEF Expire
  <2>7. worker'[p] = g
    BY <1>1, <2>6
  <2>8. \A q \in Requests : ~Announcing(p, q)'
    BY <2>5, <2>7 DEF Announcing
  <2> QED
    BY <1>1, <1>3, <1>4, <2>5, <2>6, <2>8, UnheardKeeps
<1>8. CASE Fetch(p) \/ FindExpired(p) \/ PollEnds(p)
  <2>1. PICK g : worker' = [worker EXCEPT ![p] = g] /\ g.pc \in {"idle", "adding", "expiring"}
    <3>1. CASE Fetch(p)
      <4>1. PICK seen \in SUBSET Requests :
              worker' = [worker EXCEPT ![p].pc = "adding", ![p].seen = seen, ![p].todo = seen]
        BY <3>1 DEF Fetch
      <4>2. PICK g : g = [worker[p] EXCEPT !.pc = "adding", !.seen = seen, !.todo = seen]
        OBVIOUS
      <4>3. worker' = [worker EXCEPT ![p] = g] /\ g.pc = "adding"
        BY <1>1, <4>1, <4>2 DEF Goroutine
      <4> QED
        BY <4>3
    <3>2. CASE FindExpired(p)
      <4>1. PICK g : g = [worker[p] EXCEPT !.pc = "expiring", !.todo = cache \ worker[p].seen]
        OBVIOUS
      <4>2. worker' = [worker EXCEPT ![p] = g] /\ g.pc = "expiring"
        BY <1>1, <3>2, <4>1 DEF FindExpired, Goroutine
      <4> QED
        BY <4>2
    <3>3. CASE PollEnds(p)
      <4>1. PICK g : g = [worker[p] EXCEPT !.pc = "idle", !.seen = {}]
        OBVIOUS
      <4>2. worker' = [worker EXCEPT ![p] = g] /\ g.pc = "idle"
        BY <1>1, <3>3, <4>1 DEF PollEnds, Goroutine
      <4> QED
        BY <4>2
    <3> QED
      BY <1>8, <3>1, <3>2, <3>3
  <2>2. cache' = cache
    BY <1>8 DEF Fetch, FindExpired, PollEnds
  <2>3. \A q \in Requests : ~Announcing(p, q)'
    BY <1>1, <2>1 DEF Announcing
  <2> QED
    BY <1>1, <1>3, <1>4, <2>1, <2>2, <2>3, UnheardKeeps
<1> QED
  BY <1>6, <1>7, <1>8 DEF PollStep

LEMMA ReplyKeeps ==
    ASSUME MInv, NEW c \in Callers, ReplyStep(c)
    PROVE  Tracking'
<1> USE DEF MInv
<1>1. worker \in [Workers -> Goroutine] /\ c \in Workers /\ worker[c] \in Goroutine
  BY WorkerKinds DEF TInv, ManagerTypeOK
<1>2. worker[c].pc \in {"idle", "calling"}
  BY DEF ReplyStep, Reply, ReplyTaken, ReplyRefused
<1>3. UNCHANGED <<obs, cache, disturbed>>
  BY DEF ReplyStep, Reply, ReplyTaken, ReplyRefused, vars
<1> DEFINE Hushed(g) ==
             g.pc \in {"idle", "calling"} \/ (g.pc = "version" /\ g.state # "pending")
<1> HIDE DEF Hushed
<1>4. PICK g : worker' = [worker EXCEPT ![c] = g] /\ Hushed(g)
  <2>1. CASE Reply(c)
    <3>1. PICK r \in cache, st \in Decisions :
            worker' = [worker EXCEPT ![c].pc = "calling", ![c].req = r, ![c].state = st]
      BY <2>1 DEF Reply
    <3>2. PICK g : g = [worker[c] EXCEPT !.pc = "calling", !.req = r, !.state = st]
      OBVIOUS
    <3>3. worker' = [worker EXCEPT ![c] = g]
      BY <3>1, <3>2
    <3>4. Hushed(g)
      BY <1>1, <3>2 DEF Goroutine, Hushed
    <3> QED
      BY <3>3, <3>4
  <2>2. CASE ReplyTaken(c)
    <3>1. PICK h : h = [worker[c] EXCEPT !.pc = "idle"]
      OBVIOUS
    <3>2. h \in Goroutine /\ h.pc = "idle"
      BY <1>1, <3>1 DEF Goroutine
    <3>3. worker[c].req \in Requests /\ worker[c].state \in Resolutions
      BY <1>1, <2>2 DEF ReplyTaken, TInv, Armed, Goroutine
    <3>4. PICK k : k = Publishing(h, worker[c].req, worker[c].state)
      OBVIOUS
    <3>5. k.pc = "version" /\ k.state # "pending"
      BY <3>2, <3>3, <3>4, StateFacts, PublishingType
    <3>6. worker' = [worker EXCEPT ![c] = h] \/ worker' = [worker EXCEPT ![c] = k]
      BY <2>2, <3>1, <3>4 DEF ReplyTaken
    <3>7. Hushed(h) /\ Hushed(k)
      BY <3>2, <3>5 DEF Hushed
    <3> QED
      BY <3>6, <3>7
  <2>3. CASE ReplyRefused(c)
    <3>1. PICK h : h = [worker[c] EXCEPT !.pc = "idle"]
      OBVIOUS
    <3>2. worker' = [worker EXCEPT ![c] = h]
      BY <2>3, <3>1 DEF ReplyRefused
    <3>3. Hushed(h)
      BY <1>1, <3>1 DEF Goroutine, Hushed
    <3> QED
      BY <3>2, <3>3
  <2> QED
    BY <2>1, <2>2, <2>3 DEF ReplyStep
<1>5. worker'[c] = g
  BY <1>1, <1>4
<1>6. \A q \in Requests : ~Announcing(c, q) /\ ~Announcing(c, q)'
  BY <1>2, <1>4, <1>5 DEF Announcing, Hushed
<1>7. g.pc # "stored"
  BY <1>4 DEF Hushed
<1> QED
  BY <1>1, <1>3, <1>4, <1>6, <1>7, UnheardKeeps

(* After a restart nothing is cached or announced, and what was pending is    *)
(* disturbed.                                                                 *)
LEMMA RestartKeeps ==
    ASSUME MInv, Restart
    PROVE  Tracking'
<1>1. /\ cache' = {} /\ obs' = obs
      /\ \A w \in Workers : worker'[w] = Idle
      /\ disturbed' = disturbed \cup {r \in Requests : obs[r].state = "pending"}
  BY DEF Restart, vars
<1>2. \A w \in Workers : worker'[w].pc = "idle"
  BY <1>1, IdleType
<1>3. AnnouncedIsCached' /\ AnnouncedIsNew' /\ AnnouncedOnce' /\ ResolvedIsFirm'
  BY <1>2 DEF AnnouncedIsCached, AnnouncedIsNew, AnnouncedOnce, ResolvedIsFirm, Announcing
<1>4. CachedIsKnown' /\ PendingIsTracked'
  BY <1>1 DEF CachedIsKnown, PendingIsTracked
<1> QED
  BY <1>3, <1>4 DEF Tracking

(* Steps that touch neither the managers nor the observations.                *)
LEMMA ElsewhereKeeps ==
    ASSUME MInv, obs' = obs, cache' = cache, worker' = worker, disturbed' = disturbed
    PROVE  Tracking'
BY DEF MInv, Tracking, AnnouncedIsCached, AnnouncedIsNew, AnnouncedOnce,
   ResolvedIsFirm, CachedIsKnown, PendingIsTracked, Announcing, Firm

LEMMA PublicationKeeps ==
    ASSUME MInv, NEW w \in Workers, NextVersion(w) \/ ApplyFails(w)
    PROVE  Tracking'
<1> USE DEF MInv
<1>1. worker \in [Workers -> Goroutine] /\ worker[w] \in Goroutine
  BY DEF TInv, ManagerTypeOK
<1>2. PICK g : /\ worker' = [worker EXCEPT ![w] = g]
               /\ g.pc \in {"apply", "lost"} /\ g.req = worker[w].req
               /\ g.state = worker[w].state
  <2>1. CASE NextVersion(w)
    <3>1. PICK g : g = [worker[w] EXCEPT !.pc = "apply", !.version = lastVersion + 1]
      OBVIOUS
    <3>2. /\ worker' = [worker EXCEPT ![w] = g] /\ g.pc = "apply"
          /\ g.req = worker[w].req /\ g.state = worker[w].state
      BY <1>1, <2>1, <3>1 DEF NextVersion, Goroutine
    <3> QED
      BY <3>2
  <2>2. CASE ApplyFails(w)
    <3>1. PICK g : g = [worker[w] EXCEPT !.pc = "lost"]
      OBVIOUS
    <3>2. /\ worker' = [worker EXCEPT ![w] = g] /\ g.pc = "lost"
          /\ g.req = worker[w].req /\ g.state = worker[w].state
      BY <1>1, <2>2, <3>1 DEF ApplyFails, Goroutine
    <3> QED
      BY <3>2
  <2> QED
    BY <2>1, <2>2
<1>3. worker'[w] = g
  BY <1>1, <1>2
<1>4. worker[w].pc \in {"version", "apply"} /\ UNCHANGED <<obs, cache, disturbed>>
  BY DEF NextVersion, ApplyFails, vars
<1>5. \A q \in Requests : Announcing(w, q)' <=> Announcing(w, q)
  BY <1>2, <1>3, <1>4 DEF Announcing
<1> QED
  BY <1>1, <1>2, <1>4, <1>5, UnheardKeeps

LEMMA MInvInit == ManagerInit => MInv
<1> SUFFICES ASSUME ManagerInit PROVE MInv
  OBVIOUS
<1>1. TInv
  BY TInvInit
<1>2. /\ cache = {} /\ \A w \in Workers : worker[w].pc = "idle"
      /\ \A r \in Requests : obs[r] = Unseen
  BY IdleType DEF ManagerInit, Init
<1>3. Tracking
  BY <1>2, SeenFacts DEF Tracking, AnnouncedIsCached, AnnouncedIsNew, AnnouncedOnce,
     ResolvedIsFirm, CachedIsKnown, PendingIsTracked, Announcing
<1> QED
  BY <1>1, <1>3 DEF MInv

LEMMA MInvStep ==
    ASSUME MInv, [ManagerNext]_allVars
    PROVE  MInv'
<1>1. TInv'
  BY TInvStep DEF MInv
<1> SUFFICES Tracking'
  BY <1>1 DEF MInv
<1>2. CASE UNCHANGED allVars
  <2>1. obs' = obs /\ cache' = cache /\ worker' = worker /\ disturbed' = disturbed
    BY <1>2 DEF allVars, vars, managerVars
  <2> QED
    BY <2>1, ElsewhereKeeps
<1>3. CASE \E r \in Requests : Ask(r) \/ Withdraw(r)
  <2>1. obs' = obs /\ cache' = cache /\ worker' = worker /\ disturbed' = disturbed
    BY <1>3 DEF Ask, Withdraw, vars
  <2> QED
    BY <2>1, ElsewhereKeeps
<1>4. ASSUME NEW w \in Workers, WorkerStep(w)
      PROVE  Tracking'
  BY <1>4, PublicationKeeps, StoreKeeps, SettleKeeps DEF WorkerStep
<1>5. CASE TaskSide
  <2>1. obs' = obs /\ cache' = cache /\ worker' = worker /\ disturbed' = disturbed
    BY <1>5 DEF managerVars, TaskSide, TaskStep, CreateTask, DelegateTask, CompleteTask, AcceptTask,
       PatchTask, DeleteTask, DeleteLinks, DeleteLinksFails, RefreshStatus, AttachSession,
       UpsertTask, ListBound, Insert, SetStatus
  <2> QED
    BY <2>1, ElsewhereKeeps
<1> QED
  BY <1>2, <1>3, <1>4, <1>5, ListenKeeps, PollKeeps, ReplyKeeps, RestartKeeps
  DEF ManagerNext

LEMMA ManagerInvariant == ManagerSpec => []MInv
<1> QED
  BY MInvInit, MInvStep, PTL DEF ManagerSpec

(* Users are asked only about requests that the store knows or is being told  *)
(* of.                                                                        *)
THEOREM CacheKnown == ManagerSpec => []CachedIsKnown
<1>1. MInv => CachedIsKnown
  BY DEF MInv, Tracking
<1> QED
  BY <1>1, ManagerInvariant, PTL

(* What keeps a task from being completed is a request that users are asked   *)
(* about, except after a crash or an overtaken resolution.                    *)
THEOREM PendingTracked == ManagerSpec => []PendingIsTracked
<1>1. MInv => PendingIsTracked
  BY DEF MInv, Tracking
<1> QED
  BY <1>1, ManagerInvariant, PTL

(* A completion, with the invariants of the store and of the managers.        *)
LEMMA CompletionSeen ==
    ASSUME MInv, IInv, [ManagerNext]_allVars, NEW t \in Tasks \ Remote, NEW r \in cache,
           steady[t], Linked(t, r), task'[t].status = "completed"
    PROVE  obs[r].state \in Resolutions \/ \E w \in Workers : Announcing(w, r)
<1>1. r \in Requests
  BY DEF MInv, TInv, ManagerTypeOK
<1>2. [Next]_vars
  BY StepSimulates DEF MInv
<1>3. Pending(proj[t]) = {}
  BY <1>2, CompletionStep
<1>4. proj[t][r] = obs[r]
  BY <1>1 DEF IInv, ProjectionAgrees
<1>5. obs[r].state # "pending"
  BY <1>1, <1>3, <1>4 DEF Pending
<1> QED
  BY <1>1, <1>5, ObsFacts DEF MInv, Tracking, CachedIsKnown

(* No completion passes over a request that users are being asked about.      *)
THEOREM CompletionIsSeen == ManagerSpec => CompletionSeesCache
<1>1. MInv /\ IInv /\ [ManagerNext]_allVars =>
        \A t \in Tasks \ Remote, r \in cache :
          steady[t] /\ Linked(t, r) /\ task'[t].status = "completed"
            => obs[r].state \in Resolutions \/ \E w \in Workers : Announcing(w, r)
  BY CompletionSeen
<1>2. ManagerSpec => []IInv
  BY ManagerImplements, Invariant, PTL
<1> QED
  BY <1>1, <1>2, ManagerInvariant, PTL DEF ManagerSpec, CompletionSeesCache

(* So tasks are as safe behind the managers as behind the store alone: their  *)
(* counters, their closing, their projections and what was resolved.          *)
THEOREM ManagerSafe ==
    ManagerSpec => /\ [](CountDerived /\ NotClosedOverPending /\ ProjectionAgrees)
                   /\ CompletesClear /\ NeverPendingAgain
BY ManagerImplements, CountKept, ClosedKept, AgreementKept, CompletionIsClear,
   ResolvedForGood, PTL
=============================================================================

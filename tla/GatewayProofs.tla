---------------------------- MODULE GatewayProofs ----------------------------
(* Proofs about the gateway and the records of its upstream: idempotency   *)
(* keys, runs projected into the task store, and the cursor of the bus,    *)
(* which implements the feed, for any requests, tasks, consumers, numbers, *)
(* lifetimes, queues and windows.                                          *)
EXTENDS Idempotency, RunProjection, EventCursor, FiniteSetTheorems, TLAPS
-----------------------------------------------------------------------------
(* Idempotency *)

(* An execution younger than the lifetime of an entry still owns the entry.*)
Began(c) == began[c] > 0
Owned(c) == Began(c) /\ idemNow <= began[c] + TTL =>
               entry.by = c /\ entry.expires = began[c] + TTL /\ entry.status # "none"

EntryRow == [status : {"none", "in_flight", "complete"}, by : Calls \cup {NoCall},
             expires : Nat]
Fates    == {"new", "executing", "answered", "mismatch", "dead"}

IdemIInv ==
    /\ entry \in EntryRow /\ call \in [Calls -> Fates]
    /\ idemNow \in Nat \ {0}
    /\ began \in [Calls -> Nat]
    /\ \A c \in Calls : call[c] = "new" => began[c] = 0
    /\ \A c \in Calls : began[c] <= idemNow
    /\ \A c \in Calls : Owned(c)
    /\ OneExecution

LEMMA IdemInitial == IdemInit => IdemIInv
BY IdemAssumption DEF IdemInit, IdemIInv, Owned, Began, OneExecution, EntryRow, NoEntry,
                      Fates

(* A request reserves the key only when each earlier execution has outlived*)
(* its entry: an entry that still counts would be taken.                   *)
LEMMA FreshIsLate ==
    ASSUME IdemIInv, NEW c \in Calls, ReserveFresh(c), NEW d \in Calls, began[d] > 0
    PROVE  idemNow > began[d] + TTL
<1> SUFFICES ASSUME ~(idemNow > began[d] + TTL) PROVE FALSE
  OBVIOUS
<1>1. idemNow \in Nat /\ began[d] \in Nat /\ TTL \in Nat
  BY IdemAssumption DEF IdemIInv
<1>2. entry.expires = began[d] + TTL /\ entry.status # "none"
  BY <1>1 DEF IdemIInv, Owned, Began
<1>4. entry # NoEntry
  BY <1>2 DEF NoEntry
<1>3. ~IsPast(entry)
  BY <1>1, <1>2 DEF IsPast
<1> QED
  BY <1>3, <1>4 DEF ReserveFresh, IsTaken

LEMMA ReserveFreshStep ==
    ASSUME IdemIInv, NEW c \in Calls, ReserveFresh(c)
    PROVE  IdemIInv'
<1>1. /\ idemNow \in Nat \ {0} /\ TTL \in Nat \ {0} /\ NoCall \notin Calls
      /\ began \in [Calls -> Nat]
  BY IdemAssumption DEF IdemIInv
<1>2. /\ idemNow' = idemNow
      /\ entry' = [status |-> "in_flight", by |-> c, expires |-> idemNow + TTL]
      /\ began' = [began EXCEPT ![c] = idemNow]
  BY DEF ReserveFresh
<1>3. /\ began'[c] = idemNow /\ began' \in [Calls -> Nat]
      /\ \A d \in Calls \ {c} : began'[d] = began[d]
  BY <1>1, <1>2
<1>4. \A d \in Calls \ {c} : began[d] > 0 => idemNow > began[d] + TTL
  BY FreshIsLate
<1>5. \A d \in Calls : call'[d] = "new" => began'[d] = 0
  BY <1>3 DEF IdemIInv, ReserveFresh
<1>6. \A d \in Calls : began'[d] <= idemNow'
  BY <1>1, <1>2, <1>3 DEF IdemIInv
<1>7. entry'.by = c /\ entry'.expires = idemNow + TTL /\ entry'.status # "none"
  BY <1>2
<1>10. entry' \in EntryRow
  BY <1>1, <1>2 DEF EntryRow
<1>11. call' \in [Calls -> Fates]
  BY DEF IdemIInv, ReserveFresh, Fates
<1>8. \A d \in Calls : Owned(d)'
  BY <1>1, <1>2, <1>3, <1>4, <1>7 DEF Owned, Began
<1>9. OneExecution'
  BY <1>1, <1>3, <1>4 DEF IdemIInv, OneExecution
<1> QED
  BY <1>1, <1>2, <1>3, <1>5, <1>6, <1>8, <1>9, <1>10, <1>11 DEF IdemIInv

LEMMA CompleteCallStep ==
    ASSUME IdemIInv, NEW c \in Calls, CompleteCall(c)
    PROVE  IdemIInv'
<1>1. UNCHANGED <<idemNow, began>> /\ call' = [call EXCEPT ![c] = "answered"]
  BY DEF CompleteCall
<1>2. /\ entry'.by = entry.by /\ entry'.expires = entry.expires
      /\ entry.status # "none" => entry'.status # "none"
      /\ entry' \in EntryRow
  <2>0. entry \in EntryRow
    BY DEF IdemIInv
  <2>1. entry' = entry \/ entry' = [entry EXCEPT !.status = "complete"]
    BY DEF CompleteCall
  <2>2. CASE entry' = entry
    BY <2>0, <2>2
  <2>3. CASE entry' = [entry EXCEPT !.status = "complete"]
    BY <2>0, <2>3 DEF EntryRow
  <2> QED
    BY <2>1, <2>2, <2>3
<1>3. \A d \in Calls : Owned(d)'
  BY <1>1, <1>2 DEF IdemIInv, Owned, Began
<1>4. (\A d \in Calls : call'[d] = "new" => began'[d] = 0) /\ call' \in [Calls -> Fates]
  BY <1>1 DEF IdemIInv, Fates
<1> QED
  BY <1>1, <1>2, <1>3, <1>4 DEF IdemIInv, OneExecution

(* An entry is swept only once its own execution has outlived it.          *)
LEMMA SweepStep ==
    ASSUME IdemIInv, Sweep
    PROVE  IdemIInv'
<1>1. /\ UNCHANGED <<idemNow, began, call>> /\ idemNow > entry.expires
      /\ entry' \in EntryRow
  BY DEF Sweep, IsPast, NoEntry, EntryRow
<1>2. \A d \in Calls : ~(Began(d) /\ idemNow <= began[d] + TTL)
  BY <1>1, IdemAssumption DEF IdemIInv, Owned
<1>3. \A d \in Calls : Owned(d)'
  BY <1>1, <1>2 DEF Owned, Began
<1> QED
  BY <1>1, <1>3 DEF IdemIInv, OneExecution

LEMMA IdemStep == IdemIInv /\ [IdemNext]_idemVars => IdemIInv'
<1> SUFFICES ASSUME IdemIInv, [IdemNext]_idemVars PROVE IdemIInv'
  OBVIOUS
<1>1. CASE IdemTick
  BY <1>1, IdemAssumption DEF IdemTick, IdemIInv, Owned, Began, OneExecution
<1>2. ASSUME NEW c \in Calls, ReserveOther(c) \/ Replay(c) \/ Die(c) PROVE IdemIInv'
  <2>1. /\ UNCHANGED <<idemNow, entry, began>>
        /\ \A d \in Calls : call'[d] = "new" => call[d] = "new"
        /\ call' \in [Calls -> Fates]
    BY <1>2 DEF ReserveOther, Replay, Die, IdemIInv, Fates
  <2> QED
    BY <2>1 DEF IdemIInv, Owned, Began, OneExecution
<1>3. CASE UNCHANGED idemVars
  BY <1>3 DEF idemVars, IdemIInv, Owned, Began, OneExecution
<1> QED
  BY <1>1, <1>2, <1>3, ReserveFreshStep, CompleteCallStep, SweepStep DEF IdemNext

(* Two requests of one key execute only further apart than the lifetime of *)
(* an entry, for all requests, bodies, lifetimes (Reserve, Complete, Sweep)*)
THEOREM ExecutedOnce == IdemSpec => []OneExecution
<1>1. IdemIInv => OneExecution
  BY DEF IdemIInv
<1> QED
  BY IdemInitial, IdemStep, <1>1, PTL DEF IdemSpec
-----------------------------------------------------------------------------
(* RunProjection *)

LEMMA LargerFact ==
    ASSUME NEW a \in Nat, NEW b \in Nat
    PROVE  /\ Larger(a, b) \in Nat /\ a <= Larger(a, b) /\ b <= Larger(a, b)
           /\ Larger(a, b) \in {a, b}
BY DEF Larger

RunIInv ==
    /\ bound \subseteq RunTasks
    /\ watermark \in [RunTasks -> Nat]
    /\ runCursor \in [RunTasks -> Nat]
    /\ \A t \in RunTasks : t \notin bound => runCursor[t] = 0
    /\ CursorIsBacked

(* A batch adds events, and moves a watermark up or sets that of a new     *)
(* binding, which has no cursor yet.                                       *)
LEMMA BatchStep ==
    ASSUME RunIInv, NEW t \in RunTasks, NEW events \in SUBSET RunSeqs,
           BindVerifiedRun(t, events) \/ SyncRunEvents(t, events)
    PROVE  RunIInv'
<1>1. /\ runCursor' = runCursor /\ runEvents \subseteq runEvents'
      /\ bound \subseteq bound' /\ bound' \subseteq RunTasks
  BY DEF RunIInv, BindVerifiedRun, SyncRunEvents
<1>2. /\ watermark' \in [RunTasks -> Nat]
      /\ \A u \in bound : watermark[u] <= watermark'[u]
  <2>1. CASE BindVerifiedRun(t, events)
    <3>1. PICK top \in RunSeqs :
             watermark' = IF t \in bound THEN watermark ELSE [watermark EXCEPT ![t] = top]
      BY <2>1 DEF BindVerifiedRun
    <3>2. top \in Nat
      BY RunAssumption DEF RunSeqs
    <3> QED
      BY <3>1, <3>2 DEF RunIInv
  <2>2. CASE SyncRunEvents(t, events)
    <3>1. PICK top \in RunSeqs : watermark' = [watermark EXCEPT ![t] = Larger(@, top)]
      BY <2>2 DEF SyncRunEvents
    <3>2. top \in Nat /\ watermark[t] \in Nat
      BY RunAssumption DEF RunSeqs, RunIInv
    <3>3. Larger(watermark[t], top) \in Nat /\ watermark[t] <= Larger(watermark[t], top)
      BY <3>2, LargerFact
    <3> QED
      BY <3>1, <3>3 DEF RunIInv
  <2> QED
    BY <2>1, <2>2
<1>3. CursorIsBacked'
  <2> SUFFICES ASSUME NEW u \in RunTasks, runCursor'[u] > 0
               PROVE  runCursor'[u] <= watermark'[u] /\ runCursor'[u] \in runEvents'
    BY DEF CursorIsBacked
  <2>1. u \in bound /\ runCursor[u] <= watermark[u] /\ runCursor[u] \in runEvents
    BY <1>1 DEF RunIInv, CursorIsBacked
  <2> QED
    BY <1>1, <1>2, <2>1 DEF RunIInv
<1> QED
  BY <1>1, <1>2, <1>3 DEF RunIInv

LEMMA AckStep ==
    ASSUME RunIInv, NEW t \in RunTasks, NEW seq \in RunSeqs, AckRunCursor(t, seq)
    PROVE  RunIInv'
<1>1. /\ t \in bound /\ seq <= watermark[t] /\ seq \in runEvents
      /\ runCursor' = [runCursor EXCEPT ![t] = Larger(@, seq)]
      /\ UNCHANGED <<bound, watermark, runEvents>>
  BY DEF AckRunCursor
<1>2. seq \in Nat /\ runCursor[t] \in Nat
  BY RunAssumption DEF RunSeqs, RunIInv
<1>3. Larger(runCursor[t], seq) \in Nat /\ Larger(runCursor[t], seq) \in {runCursor[t], seq}
  BY <1>2, LargerFact
<1>4. /\ runCursor'[t] = runCursor[t] \/ runCursor'[t] = seq
      /\ \A u \in RunTasks \ {t} : runCursor'[u] = runCursor[u]
      /\ runCursor' \in [RunTasks -> Nat]
  BY <1>1, <1>3 DEF RunIInv
<1> QED
  BY <1>1, <1>4 DEF RunIInv, CursorIsBacked

LEMMA RunStep == RunIInv /\ [RunNext]_runVars => RunIInv'
<1> SUFFICES ASSUME RunIInv, [RunNext]_runVars PROVE RunIInv'
  OBVIOUS
<1>1. ASSUME NEW t \in RunTasks, DeleteBoundTask(t) PROVE RunIInv'
  BY <1>1 DEF DeleteBoundTask, RunIInv, CursorIsBacked
<1>2. CASE UNCHANGED runVars
  BY <1>2 DEF runVars, RunIInv, CursorIsBacked
<1> QED
  BY <1>1, <1>2, BatchStep, AckStep DEF RunNext

(* A cursor never stands above the watermark of its task, and the event it *)
(* names is there, for any tasks and batches (AckRunCursor, SyncRunEvents).*)
THEOREM CursorBacked == RunSpec => []CursorIsBacked
<1>1. RunInit => RunIInv
  BY DEF RunInit, RunIInv, CursorIsBacked
<1>2. RunIInv => CursorIsBacked
  BY DEF RunIInv
<1> QED
  BY <1>1, <1>2, RunStep, PTL DEF RunSpec
-----------------------------------------------------------------------------
(* EventCursor *)

(* An event of the upstream has a positive number.                           *)
LEMMA SeqType == ASSUME NEW s \in Seqs PROVE s \in Nat /\ s > 0
BY BusAssumption DEF Seqs

(* The two ways to accept an event.                                          *)
LEMMA AcceptIsHandOver ==
    ASSUME highSeq \in Nat, NEW c \in Consumers, NEW s \in Seqs,
           AcceptGap(c, s) \/ Accept(c, s)
    PROVE  Feed!HandOver(s)
<1>0. s \in Nat /\ s > 0
  BY SeqType
<1>1. CASE AcceptGap(c, s)
  <2>1. highSeq > 0 /\ s > highSeq + 1
    BY <1>1 DEF AcceptGap, IsJump
  <2>2. /\ highSeq' = s /\ handedOver' = handedOver \cup {s}
        /\ gaps' = gaps \cup (highSeq + 1 .. s - 1)
    BY <1>1 DEF AcceptGap, Enqueue
  <2> QED
    BY <2>1, <2>2, <1>0 DEF Feed!HandOver
<1>2. CASE Accept(c, s)
  <2>1. s > highSeq /\ (highSeq > 0 => s <= highSeq + 1)
    BY <1>2, <1>0 DEF Accept, IsJump
  <2>2. highSeq' = s /\ handedOver' = handedOver \cup {s} /\ gaps' = gaps
    BY <1>2 DEF Accept, Enqueue
  <2>3. highSeq > 0 => highSeq + 1 .. s - 1 = {}
    BY <2>1, <1>0
  <2>4. gaps' = IF highSeq = 0 THEN gaps ELSE gaps \cup (highSeq + 1 .. s - 1)
    BY <2>2, <2>3
  <2> QED
    BY <2>1, <2>2, <2>4 DEF Feed!HandOver
<1> QED
  BY <1>1, <1>2

(* Every step of the cursor is one of the feed, or changes nothing of it.    *)
LEMMA FeedStep ==
    ASSUME highSeq \in Nat, [BusNext]_busVars
    PROVE  [Feed!FeedNext]_<<highSeq, handedOver, gaps>> /\ highSeq' \in Nat
<1>1. CASE UNCHANGED <<highSeq, handedOver, gaps>>
  BY <1>1
<1>2. ASSUME NEW c \in Consumers, NEW s \in Seqs, AcceptGap(c, s) \/ Accept(c, s)
      PROVE  Feed!FeedNext /\ highSeq' \in Nat
  <2>1. Feed!HandOver(s)
    BY <1>2, AcceptIsHandOver
  <2> QED
    BY <2>1, SeqType DEF Feed!FeedNext, Feed!HandOver
<1>3. ASSUME NEW c \in Consumers, NEW s \in Seqs, Deliver(c, s)
      PROVE  \/ UNCHANGED <<highSeq, handedOver, gaps>>
             \/ AcceptGap(c, s) \/ Accept(c, s)
  BY <1>3 DEF Deliver, DropSeen, Refuse, DropLate
<1>4. ASSUME NEW c \in Consumers,
             \/ LoseEvent(c) \/ Reconnect(c) \/ ConsumerCrash(c) \/ \E s \in Seqs : Ack(c, s)
      PROVE  UNCHANGED <<highSeq, handedOver, gaps>>
  BY <1>4 DEF LoseEvent, Reconnect, ConsumerCrash, Ack
<1>5. ASSUME Publish \/ GC \/ UNCHANGED busVars
      PROVE  UNCHANGED <<highSeq, handedOver, gaps>>
  BY <1>5 DEF Publish, GC, busVars
<1> QED
  BY <1>1, <1>2, <1>3, <1>4, <1>5 DEF BusNext

(* The cursor implements the feed, whatever the transport, its window and    *)
(* its consumers do: events are accepted in the order of their numbers, none *)
(* twice, and what is passed over is reported (cursor.go, Deliver).          *)
THEOREM CursorImplementsFeed == BusSpec => ImplementsFeed
<1> DEFINE Inv == highSeq \in Nat
<1>1. BusInit => Feed!FeedInit /\ Inv
  BY DEF BusInit, Feed!FeedInit
<1>2. Inv /\ [BusNext]_busVars => Inv' /\ [Feed!FeedNext]_Feed!feedVars
  BY FeedStep DEF Feed!feedVars
<1> HIDE DEF Inv
<1> QED
  BY <1>1, <1>2, PTL DEF BusSpec, ImplementsFeed, Feed!FeedSpec

(* An event handed over extends the stretch of numbers accounted for.        *)
LEMMA HandOverAccounts ==
    ASSUME highSeq \in Nat, NEW s \in Seqs, Feed!Accounted, Feed!HandOver(s)
    PROVE  Feed!Accounted'
<1>0. /\ s \in Nat /\ s > highSeq /\ highSeq' = s /\ handedOver' = handedOver \cup {s}
      /\ gaps' = IF highSeq = 0 THEN gaps ELSE gaps \cup (highSeq + 1 .. s - 1)
  BY SeqType DEF Feed!HandOver
<1>1. PICK first \in 0 .. highSeq :
         handedOver \cup gaps = {n \in 1 .. highSeq : n >= first}
  BY DEF Feed!Accounted
<1>2. handedOver \cap gaps = {}
  BY DEF Feed!Accounted
<1>3. \A n \in handedOver \cup gaps : n \in Nat /\ n <= highSeq /\ n >= first /\ n >= 1
  BY <1>1
<1>4. handedOver' \cap gaps' = {}
  BY <1>0, <1>2, <1>3
<1>5. CASE highSeq = 0
  <2>1. handedOver \cup gaps = {}
    BY <1>3, <1>5
  <2>2. handedOver' \cup gaps' = {n \in 1 .. s : n >= s}
    BY <2>1, <1>0, <1>5
  <2>3. s \in 0 .. highSeq'
    BY <1>0
  <2> QED
    BY <2>2, <2>3, <1>0, <1>4 DEF Feed!Accounted
<1>6. CASE highSeq # 0
  <2>1. handedOver' \cup gaps' =
           {n \in 1 .. highSeq : n >= first} \cup (highSeq + 1 .. s - 1) \cup {s}
    BY <1>0, <1>1, <1>6
  <2>2. @ = {n \in 1 .. s : n >= first}
    BY <1>0, <1>1, <1>6
  <2>3. first \in 0 .. highSeq'
    BY <1>0, <1>1
  <2> QED
    BY <2>1, <2>2, <2>3, <1>0, <1>4 DEF Feed!Accounted
<1> QED
  BY <1>5, <1>6

(* From the first event on, the cursor has accepted or reported every number *)
(* up to the newest, and none of them both ways (cursor.go, Deliver's gaps). *)
THEOREM EveryEventAccounted == BusSpec => []Feed!Accounted
<1> DEFINE Inv == highSeq \in Nat /\ Feed!Accounted
<1>1. BusInit => Inv
  <2> SUFFICES ASSUME BusInit PROVE Inv
    OBVIOUS
  <2>1. highSeq = 0 /\ handedOver = {} /\ gaps = {}
    BY DEF BusInit
  <2>2. 0 \in 0 .. highSeq /\ handedOver \cup gaps = {n \in 1 .. highSeq : n >= 0}
    BY <2>1
  <2> QED
    BY <2>1, <2>2 DEF Feed!Accounted
<1>2. Inv /\ [BusNext]_busVars => Inv'
  <2> SUFFICES ASSUME Inv, [BusNext]_busVars PROVE Inv'
    OBVIOUS
  <2>1. highSeq' \in Nat /\ [Feed!FeedNext]_<<highSeq, handedOver, gaps>>
    BY FeedStep
  <2>2. CASE UNCHANGED <<highSeq, handedOver, gaps>>
    BY <2>1, <2>2 DEF Feed!Accounted
  <2>3. CASE Feed!FeedNext
    BY <2>1, <2>3, HandOverAccounts DEF Feed!FeedNext
  <2> QED
    BY <2>1, <2>2, <2>3
<1> QED
  BY <1>1, <1>2, PTL DEF BusSpec

-----------------------------------------------------------------------------
(* Types *)

EntryType == [status : {"none", "in_flight", "complete"}, by : Calls \cup {NoCall},
              expires : 0 .. IdemTime + TTL]

LEMMA IdemTypeStep == IdemTypeOK /\ [IdemNext]_idemVars => IdemTypeOK'
<1> SUFFICES ASSUME IdemTypeOK, [IdemNext]_idemVars PROVE IdemTypeOK'
  OBVIOUS
<1>0. /\ TTL \in Nat /\ IdemTime \in Nat /\ idemNow \in 1 .. IdemTime
      /\ entry \in EntryType
  BY IdemAssumption DEF IdemTypeOK, EntryType
<1>1. CASE IdemTick
  <2>1. idemNow' \in 1 .. IdemTime
    BY <1>0, <1>1 DEF IdemTick
  <2> QED
    BY <1>1, <2>1 DEF IdemTick, IdemTypeOK
<1>2. ASSUME NEW c \in Calls, ReserveFresh(c) PROVE IdemTypeOK'
  <2>1. idemNow + TTL \in 0 .. IdemTime + TTL /\ idemNow \in 0 .. IdemTime
    BY <1>0
  <2>2. entry' \in EntryType
    BY <1>2, <2>1 DEF ReserveFresh, EntryType
  <2>3. idemNow' = idemNow /\ call' \in [Calls -> Fates] /\ began' \in [Calls -> 0 .. IdemTime]
    BY <1>2, <2>1 DEF ReserveFresh, IdemTypeOK, Fates
  <2> QED
    BY <1>0, <2>2, <2>3 DEF IdemTypeOK, EntryType, Fates
<1>3. ASSUME NEW c \in Calls, ReserveOther(c) \/ Replay(c) \/ Die(c) PROVE IdemTypeOK'
  BY <1>3 DEF ReserveOther, Replay, Die, IdemTypeOK
<1>4. ASSUME NEW c \in Calls, CompleteCall(c) PROVE IdemTypeOK'
  <2>1. entry' \in EntryType
    <3>1. entry' = entry \/ entry' = [entry EXCEPT !.status = "complete"]
      BY <1>4 DEF CompleteCall
    <3>2. [entry EXCEPT !.status = "complete"] \in EntryType
      BY <1>0 DEF EntryType
    <3> QED
      BY <1>0, <3>1, <3>2
  <2> QED
    BY <1>4, <2>1 DEF CompleteCall, IdemTypeOK, EntryType
<1>5. CASE Sweep
  <2>1. entry' \in EntryType
    BY <1>0, <1>5 DEF Sweep, NoEntry, EntryType
  <2> QED
    BY <1>5, <2>1 DEF Sweep, IdemTypeOK, EntryType
<1>6. CASE UNCHANGED idemVars
  BY <1>6 DEF idemVars, IdemTypeOK
<1> QED
  BY <1>1, <1>2, <1>3, <1>4, <1>5, <1>6 DEF IdemNext

(* The entry and the requests keep their types.                            *)
THEOREM IdemTypeCorrect == IdemSpec => []IdemTypeOK
<1>1. IdemInit => IdemTypeOK
  BY IdemAssumption DEF IdemInit, NoEntry, IdemTypeOK
<1> QED
  BY <1>1, IdemTypeStep, PTL DEF IdemSpec

LEMMA LargerIsOne == ASSUME NEW a, NEW b PROVE Larger(a, b) = a \/ Larger(a, b) = b
BY DEF Larger

LEMMA RunTypeStep == RunTypeOK /\ [RunNext]_runVars => RunTypeOK'
<1> SUFFICES ASSUME RunTypeOK, [RunNext]_runVars PROVE RunTypeOK'
  OBVIOUS
<1>0. RunSeqs \subseteq 0 .. MaxRunSeq
  BY RunAssumption DEF RunSeqs
<1>1. ASSUME NEW t \in RunTasks, NEW events \in SUBSET RunSeqs, BindVerifiedRun(t, events)
      PROVE  RunTypeOK'
  <2>1. PICK top \in RunSeqs :
           watermark' = IF t \in bound THEN watermark ELSE [watermark EXCEPT ![t] = top]
    BY <1>1 DEF BindVerifiedRun
  <2>2. watermark' \in [RunTasks -> 0 .. MaxRunSeq]
    BY <1>0, <2>1 DEF RunTypeOK
  <2> QED
    BY <1>1, <2>2 DEF BindVerifiedRun, RunTypeOK
<1>2. ASSUME NEW t \in RunTasks, NEW events \in SUBSET RunSeqs, SyncRunEvents(t, events)
      PROVE  RunTypeOK'
  <2>1. PICK top \in RunSeqs : watermark' = [watermark EXCEPT ![t] = Larger(watermark[t], top)]
    BY <1>2 DEF SyncRunEvents
  <2>2. Larger(watermark[t], top) \in 0 .. MaxRunSeq
    BY <1>0, LargerIsOne DEF RunTypeOK
  <2>3. watermark' \in [RunTasks -> 0 .. MaxRunSeq]
    BY <2>1, <2>2 DEF RunTypeOK
  <2> QED
    BY <1>2, <2>3 DEF SyncRunEvents, RunTypeOK
<1>3. ASSUME NEW t \in RunTasks, NEW seq \in RunSeqs, AckRunCursor(t, seq) PROVE RunTypeOK'
  <2>1. runCursor' = [runCursor EXCEPT ![t] = Larger(runCursor[t], seq)]
    BY <1>3 DEF AckRunCursor
  <2>2. Larger(runCursor[t], seq) \in 0 .. MaxRunSeq
    BY <1>0, LargerIsOne DEF RunTypeOK
  <2>3. runCursor' \in [RunTasks -> 0 .. MaxRunSeq]
    BY <2>1, <2>2 DEF RunTypeOK
  <2> QED
    BY <1>3, <2>3 DEF AckRunCursor, RunTypeOK
<1>4. ASSUME NEW t \in RunTasks, DeleteBoundTask(t) PROVE RunTypeOK'
  BY <1>4 DEF DeleteBoundTask, RunTypeOK
<1>5. CASE UNCHANGED runVars
  BY <1>5 DEF runVars, RunTypeOK
<1> QED
  BY <1>1, <1>2, <1>3, <1>4, <1>5 DEF RunNext

(* A task is bound while it has a row, and no watermark or cursor leaves the *)
(* numbers of the run.                                                       *)
THEOREM RunTypeCorrect == RunSpec => []RunTypeOK
<1>1. RunInit => RunTypeOK
  BY RunAssumption DEF RunInit, RunTypeOK
<1> QED
  BY <1>1, RunTypeStep, PTL DEF RunSpec
-----------------------------------------------------------------------------
(* The bound on what a consumer queues *)

(* What a consumer has not acknowledged lies below the cursor, and the       *)
(* counter of the cursor counts it, or more after a crash.                   *)
IsCounted(c) ==
    /\ IsFiniteSet(queue[c])
    /\ \A s \in queue[c] : s <= highSeq
    /\ Cardinality(queue[c]) <= pending[c]

QueueBounded == \A c \in Consumers : Cardinality(queue[c]) <= MaxQueue

BusIInv == BusTypeOK /\ \A c \in Consumers : IsCounted(c)

LEMMA CardinalityFact ==
    ASSUME NEW S, IsFiniteSet(S)
    PROVE  /\ Cardinality(S) \in Nat
           /\ \A x \in S : /\ IsFiniteSet(S \ {x}) /\ Cardinality(S \ {x}) = Cardinality(S) - 1
                          /\ Cardinality(S) > 0
           /\ \A x : x \notin S => /\ IsFiniteSet(S \cup {x})
                                   /\ Cardinality(S \cup {x}) = Cardinality(S) + 1
<1>1. Cardinality(S) \in Nat
  BY FS_CardinalityType
<1>2. ASSUME NEW x \in S
      PROVE  /\ IsFiniteSet(S \ {x}) /\ Cardinality(S \ {x}) = Cardinality(S) - 1
             /\ Cardinality(S) > 0
  <2>1. Cardinality(S) # 0
    BY FS_EmptySet
  <2> QED
    BY <1>1, <2>1, FS_RemoveElement
<1> QED
  BY <1>1, <1>2, FS_AddElement

LEMMA ReceivedType ==
    ASSUME BusTypeOK, NEW c \in Consumers, NEW s \in Seqs, Received(c, s)
    PROVE  flight' \in [Consumers -> SUBSET Seqs]
BY DEF BusTypeOK, Received

(* An accepted event is above all that the consumers hold.                   *)
LEMMA EnqueueStep ==
    ASSUME BusIInv, NEW c \in Consumers, NEW s \in Seqs, AcceptGap(c, s) \/ Accept(c, s)
    PROVE  BusIInv'
<1>1. /\ Received(c, s) /\ pending[c] < MaxQueue
      /\ pending' = [pending EXCEPT ![c] = pending[c] + 1]
      /\ queue' = [queue EXCEPT ![c] = queue[c] \cup {s}]
      /\ dedup' = dedup \cup {s} /\ highSeq' = s /\ handedOver' = handedOver \cup {s}
      /\ UNCHANGED <<published, busFaults>>
  BY DEF AcceptGap, Accept, IsOpenTo, Enqueue, Remember
<1>2. /\ s \in Nat /\ highSeq \in Nat /\ MaxSeq \in Nat /\ MaxQueue \in Nat /\ s <= MaxSeq
      /\ pending[c] \in 0 .. MaxQueue
  BY BusAssumption DEF BusIInv, BusTypeOK, Seqs
<1>3. highSeq < s
  BY <1>2 DEF AcceptGap, Accept, IsJump
<1>4. gaps' \subseteq Seqs
  <2>1. gaps' \subseteq gaps \cup (highSeq + 1 .. s - 1)
    BY DEF AcceptGap, Accept
  <2>2. (highSeq + 1 .. s - 1) \subseteq Seqs
    BY <1>2 DEF Seqs
  <2> QED
    BY <2>1, <2>2 DEF BusIInv, BusTypeOK
<1>5. BusTypeOK'
  <2>1. pending[c] + 1 \in 0 .. MaxQueue
    BY <1>1, <1>2
  <2>2. pending' \in [Consumers -> 0 .. MaxQueue] /\ highSeq' \in 0 .. MaxSeq
    BY <1>1, <1>2, <2>1 DEF BusIInv, BusTypeOK
  <2>3. flight' \in [Consumers -> SUBSET Seqs]
    BY <1>1, ReceivedType DEF BusIInv
  <2>4. queue' \in [Consumers -> SUBSET Seqs] /\ dedup' \subseteq Seqs /\ handedOver' \subseteq Seqs
    BY <1>1 DEF BusIInv, BusTypeOK
  <2> QED
    BY <1>1, <1>4, <2>2, <2>3, <2>4 DEF BusIInv, BusTypeOK
<1>6. ASSUME NEW d \in Consumers PROVE IsCounted(d)'
  <2>1. \A e \in queue[d] : e \in Nat /\ e <= highSeq /\ e < s
    <3> SUFFICES ASSUME NEW e \in queue[d] PROVE e \in Nat /\ e <= highSeq /\ e < s
      OBVIOUS
    <3>1. e \in Seqs /\ e <= highSeq
      BY DEF BusIInv, BusTypeOK, IsCounted
    <3> QED
      BY <1>2, <1>3, <3>1, SeqType
  <2>2. IsFiniteSet(queue[d]) /\ Cardinality(queue[d]) <= pending[d] /\ pending[d] \in Nat
    BY DEF BusIInv, BusTypeOK, IsCounted
  <2>3. CASE d = c
    <3>1. s \notin queue[c]
      BY <1>2, <2>1, <2>3
    <3>2. IsFiniteSet(queue[c] \cup {s}) /\ Cardinality(queue[c] \cup {s}) = Cardinality(queue[c]) + 1
          /\ Cardinality(queue[c]) \in Nat
      BY <2>2, <2>3, <3>1, CardinalityFact
    <3>3. queue'[d] = queue[c] \cup {s} /\ pending'[d] = pending[c] + 1
      BY <1>1, <2>3 DEF BusIInv, BusTypeOK
    <3>4. \A e \in queue'[d] : e <= highSeq'
      BY <1>1, <1>2, <2>1, <2>3, <3>3
    <3> QED
      BY <2>2, <2>3, <3>2, <3>3, <3>4 DEF IsCounted
  <2>4. CASE d # c
    <3>1. queue'[d] = queue[d] /\ pending'[d] = pending[d]
      BY <1>1, <2>4 DEF BusIInv, BusTypeOK
    <3>2. \A e \in queue'[d] : e <= highSeq'
      BY <1>1, <1>2, <2>1, <3>1
    <3> QED
      BY <2>2, <3>1, <3>2 DEF IsCounted
  <2> QED
    BY <2>3, <2>4
<1> QED
  BY <1>5, <1>6 DEF BusIInv

LEMMA AckStepCounts ==
    ASSUME BusIInv, NEW c \in Consumers, NEW s \in Seqs, Ack(c, s)
    PROVE  BusIInv'
<1>1. /\ s \in queue[c] /\ queue' = [queue EXCEPT ![c] = queue[c] \ {s}]
      /\ pending' = [pending EXCEPT ![c] = IF pending[c] > 0 THEN pending[c] - 1 ELSE pending[c]]
      /\ dedup' = dedup \ {s}
      /\ UNCHANGED <<published, flight, highSeq, busFaults, handedOver, gaps>>
  BY DEF Ack
<1>2. /\ pending[c] \in 0 .. MaxQueue /\ MaxQueue \in Nat
      /\ IsFiniteSet(queue[c]) /\ Cardinality(queue[c]) <= pending[c]
  BY BusAssumption DEF BusIInv, BusTypeOK, IsCounted
<1>3. /\ Cardinality(queue[c]) \in Nat /\ Cardinality(queue[c]) > 0
      /\ IsFiniteSet(queue[c] \ {s}) /\ Cardinality(queue[c] \ {s}) = Cardinality(queue[c]) - 1
  BY <1>1, <1>2, CardinalityFact
<1>4. pending[c] > 0 /\ pending[c] - 1 \in 0 .. MaxQueue
  BY <1>2, <1>3
<1>5. /\ queue' \in [Consumers -> SUBSET Seqs] /\ queue'[c] = queue[c] \ {s}
      /\ pending' \in [Consumers -> 0 .. MaxQueue] /\ pending'[c] = pending[c] - 1
      /\ \A d \in Consumers \ {c} : queue'[d] = queue[d] /\ pending'[d] = pending[d]
  BY <1>1, <1>4 DEF BusIInv, BusTypeOK
<1>6. BusTypeOK'
  BY <1>1, <1>5 DEF BusIInv, BusTypeOK
<1>7. Cardinality(queue'[c]) <= pending'[c]
  BY <1>2, <1>3, <1>5
<1>8. \A d \in Consumers : IsCounted(d)'
  BY <1>1, <1>3, <1>5, <1>7 DEF BusIInv, IsCounted
<1> QED
  BY <1>6, <1>8 DEF BusIInv

LEMMA BusStep == BusIInv /\ [BusNext]_busVars => BusIInv'
<1> SUFFICES ASSUME BusIInv, [BusNext]_busVars PROVE BusIInv'
  OBVIOUS
<1>0. MaxSeq \in Nat /\ BusFaults \in Nat
  BY BusAssumption
<1>1. ASSUME UNCHANGED <<queue, pending, highSeq>>, BusTypeOK' PROVE BusIInv'
  BY <1>1 DEF BusIInv, IsCounted
<1>2. CASE Publish
  <2>1. published' \in 0 .. MaxSeq /\ published + 1 \in Seqs
    BY <1>0, <1>2 DEF Publish, BusIInv, BusTypeOK, Seqs
  <2>2. BusTypeOK'
    BY <1>2, <2>1 DEF Publish, BusIInv, BusTypeOK
  <2> QED
    BY <1>1, <1>2, <2>2 DEF Publish
<1>3. CASE GC \/ UNCHANGED busVars
  <2>1. BusTypeOK'
    BY <1>3 DEF GC, busVars, BusIInv, BusTypeOK
  <2> QED
    BY <1>1, <1>3, <2>1 DEF GC, busVars
<1>4. ASSUME NEW c \in Consumers, LoseEvent(c) PROVE BusIInv'
  <2>1. busFaults' \in 0 .. BusFaults
    BY <1>0, <1>4 DEF LoseEvent, BusFault, BusIInv, BusTypeOK
  <2>2. BusTypeOK'
    BY <1>4, <2>1 DEF LoseEvent, BusIInv, BusTypeOK
  <2> QED
    BY <1>1, <1>4, <2>2 DEF LoseEvent
<1>5. ASSUME NEW c \in Consumers, Reconnect(c) PROVE BusIInv'
  <2>1. (highSeq + 1 .. published) \subseteq Seqs
    BY <1>0 DEF BusIInv, BusTypeOK, Seqs
  <2>2. BusTypeOK'
    BY <1>5, <2>1 DEF Reconnect, BusIInv, BusTypeOK
  <2> QED
    BY <1>1, <1>5, <2>2 DEF Reconnect
<1>6. ASSUME NEW c \in Consumers, ConsumerCrash(c) PROVE BusIInv'
  <2>1. busFaults' \in 0 .. BusFaults
    BY <1>0, <1>6 DEF ConsumerCrash, BusFault, BusIInv, BusTypeOK
  <2>2. BusTypeOK'
    BY <1>6, <2>1 DEF ConsumerCrash, BusIInv, BusTypeOK
  <2>3. /\ queue' = [queue EXCEPT ![c] = {}] /\ UNCHANGED <<pending, highSeq>>
        /\ pending[c] \in 0 .. MaxQueue
    BY <1>6 DEF ConsumerCrash, BusIInv, BusTypeOK
  <2>4. queue'[c] = {} /\ \A d \in Consumers \ {c} : queue'[d] = queue[d]
    BY <2>3 DEF BusIInv, BusTypeOK
  <2>5. IsFiniteSet({}) /\ Cardinality({}) = 0 /\ 0 <= pending[c]
    BY <2>3, FS_EmptySet
  <2>6. IsCounted(c)'
    BY <2>3, <2>4, <2>5 DEF IsCounted
  <2>7. \A d \in Consumers \ {c} : IsCounted(d)'
    BY <2>3, <2>4 DEF BusIInv, IsCounted
  <2> QED
    BY <2>2, <2>6, <2>7 DEF BusIInv
<1>7. ASSUME NEW c \in Consumers, NEW s \in Seqs, Deliver(c, s) PROVE BusIInv'
  <2>1. CASE DropSeen(c, s) \/ Refuse(c, s) \/ DropLate(c, s)
    <3>1. /\ Received(c, s) /\ dedup' \in {dedup, dedup \cup {s}}
          /\ UNCHANGED <<published, highSeq, pending, queue, busFaults, handedOver, gaps>>
      BY <2>1 DEF DropSeen, Refuse, DropLate, Remember
    <3>2. flight' \in [Consumers -> SUBSET Seqs]
      BY <3>1, ReceivedType DEF BusIInv
    <3>3. BusTypeOK'
      BY <3>1, <3>2 DEF BusIInv, BusTypeOK
    <3> QED
      BY <1>1, <3>1, <3>3
  <2> QED
    BY <1>7, <2>1, EnqueueStep DEF Deliver
<1> QED
  BY <1>2, <1>3, <1>4, <1>5, <1>6, <1>7, AckStepCounts DEF BusNext

LEMMA BusInitial == BusInit => BusIInv
<1> SUFFICES ASSUME BusInit PROVE BusIInv
  OBVIOUS
<1>1. BusTypeOK
  BY BusAssumption DEF BusInit, BusTypeOK
<1>2. \A c \in Consumers : queue[c] = {} /\ pending[c] = 0
  BY DEF BusInit
<1>3. \A c \in Consumers : IsCounted(c)
  BY <1>2, FS_EmptySet DEF IsCounted
<1> QED
  BY <1>1, <1>3 DEF BusIInv

(* The cursor and its surroundings keep their types.                         *)
THEOREM BusTypeCorrect == BusSpec => []BusTypeOK
<1>1. BusIInv => BusTypeOK
  BY DEF BusIInv
<1> QED
  BY <1>1, BusInitial, BusStep, PTL DEF BusSpec

(* The counter that a cursor refuses by never falls below what a consumer    *)
(* has not acknowledged, crashes included: no consumer is made to queue more *)
(* than MaxQueue events (Deliver's ErrBackpressure, Ack).                    *)
THEOREM QueuesAreBounded == BusSpec => []QueueBounded
<1>1. BusIInv => QueueBounded
  <2> SUFFICES ASSUME BusIInv, NEW c \in Consumers PROVE Cardinality(queue[c]) <= MaxQueue
    BY DEF QueueBounded
  <2>1. /\ Cardinality(queue[c]) <= pending[c] /\ pending[c] \in 0 .. MaxQueue
        /\ IsFiniteSet(queue[c]) /\ MaxQueue \in Nat
    BY BusAssumption DEF BusIInv, BusTypeOK, IsCounted
  <2>2. Cardinality(queue[c]) \in Nat
    BY <2>1, FS_CardinalityType
  <2> QED
    BY <2>1, <2>2
<1> QED
  BY <1>1, BusInitial, BusStep, PTL DEF BusSpec
=============================================================================

----------------------------- MODULE EventCursor -----------------------------
(***************************************************************************)
(* The cursor of one (tenant, aggregate) of the event bus                  *)
(* (services/zagent-gateway/internal/eventbus/cursor.go), between an       *)
(* upstream whose transport loses, repeats and reorders events and         *)
(* consumers that queue what they accept, acknowledge it, crash and        *)
(* reconnect.  One cursor serves all consumers of the aggregate.           *)
(* Implements EventFeed.                                                   *)
(***************************************************************************)
EXTENDS Naturals, FiniteSets

CONSTANTS
    Consumers,
    MaxSeq,         \* bound on the events published
    MaxQueue,       \* CursorConfig.MaxQueue
    WindowSize,     \* GC's maxEntries
    BusFaults       \* bound on lost events and crashes

ASSUME BusAssumption ==
    MaxSeq \in Nat /\ MaxQueue \in Nat \ {0} /\ WindowSize \in Nat /\ BusFaults \in Nat

Seqs == 1 .. MaxSeq

VARIABLES
    published,      \* events of the upstream: numbers 1 .. published
    flight,         \* events on their way to each consumer
    highSeq, dedup, pending,    \* Cursor
    queue,          \* what a consumer accepted and has not acknowledged
    busFaults,      \* lost events and crashes so far
    handedOver,     \* history: events accepted
    gaps            \* history: events reported by ErrGap

busVars == <<published, flight, highSeq, dedup, pending, queue, busFaults, handedOver, gaps>>

BusInit ==
    /\ published = 0
    /\ flight = [c \in Consumers |-> {}]
    /\ highSeq = 0
    /\ dedup = {}
    /\ pending = [c \in Consumers |-> 0]
    /\ queue = [c \in Consumers |-> {}]
    /\ busFaults = 0
    /\ handedOver = {}
    /\ gaps = {}

BusFault == busFaults < BusFaults /\ busFaults' = busFaults + 1
-----------------------------------------------------------------------------
(* Upstream and transport *)

Publish ==
    /\ published < MaxSeq
    /\ published' = published + 1
    /\ flight' = [c \in Consumers |-> flight[c] \cup {published + 1}]
    /\ UNCHANGED <<highSeq, dedup, pending, queue, busFaults, handedOver, gaps>>

LoseEvent(c) ==
    /\ BusFault
    /\ \E s \in flight[c] : flight' = [flight EXCEPT ![c] = @ \ {s}]
    /\ UNCHANGED <<published, highSeq, dedup, pending, queue, handedOver, gaps>>

(* Resume: the upstream replays what lies above the number it returns.     *)
Reconnect(c) ==
    /\ flight' = [flight EXCEPT ![c] = highSeq + 1 .. published]
    /\ UNCHANGED <<published, highSeq, dedup, pending, queue, busFaults, handedOver, gaps>>
-----------------------------------------------------------------------------
(* Deliver *)

(* The event leaves the transport, or stays to be delivered again.         *)
Received(c, s) == \E rest \in {flight[c], flight[c] \ {s}} :
                      flight' = [flight EXCEPT ![c] = rest]

Remember(s) == dedup' = dedup \cup {s}

(* An event that was seen.                                                 *)
DropSeen(c, s) ==
    /\ s \in dedup
    /\ Received(c, s)
    /\ UNCHANGED <<published, highSeq, dedup, pending, queue, busFaults, handedOver, gaps>>

(* Variant: the event is remembered before it is refused.                  *)
RefuseRemembered(c, s) ==
    /\ s \notin dedup /\ pending[c] >= MaxQueue
    /\ Received(c, s)
    /\ Remember(s)
    /\ UNCHANGED <<published, highSeq, pending, queue, busFaults, handedOver, gaps>>

(* ErrBackpressure: the consumer has too much to do; the event is dropped  *)
Refuse(c, s) ==
    /\ s \notin dedup /\ pending[c] >= MaxQueue
    /\ Received(c, s)
    /\ UNCHANGED <<published, highSeq, dedup, pending, queue, busFaults, handedOver, gaps>>

IsOpenTo(c, s) == s \notin dedup /\ pending[c] < MaxQueue
IsJump(s)      == highSeq > 0 /\ s > highSeq + 1

DropLate(c, s) ==
    /\ IsOpenTo(c, s) /\ s <= highSeq
    /\ Received(c, s)
    /\ Remember(s)
    /\ UNCHANGED <<published, highSeq, pending, queue, busFaults, handedOver, gaps>>

Enqueue(c, s) ==
    /\ Received(c, s)
    /\ pending' = [pending EXCEPT ![c] = @ + 1]
    /\ queue' = [queue EXCEPT ![c] = @ \cup {s}]
    /\ Remember(s)
    /\ highSeq' = s
    /\ handedOver' = handedOver \cup {s}
    /\ UNCHANGED <<published, busFaults>>

(* ErrGap: the event is accepted all the same.                             *)
AcceptGap(c, s) ==
    /\ IsOpenTo(c, s) /\ IsJump(s)
    /\ Enqueue(c, s)
    /\ gaps' = gaps \cup (highSeq + 1 .. s - 1)

(* Variant: what the window does not hold is accepted.                     *)
AcceptUnseen(c, s) ==
    /\ IsOpenTo(c, s) /\ ~IsJump(s)
    /\ Enqueue(c, s)
    /\ UNCHANGED gaps

Accept(c, s) ==
    /\ IsOpenTo(c, s) /\ s > highSeq /\ ~IsJump(s)
    /\ Enqueue(c, s)
    /\ UNCHANGED gaps

Deliver(c, s) ==
    /\ s \in flight[c]
    /\ \/ DropSeen(c, s) \/ Refuse(c, s) \/ DropLate(c, s)
       \/ AcceptGap(c, s) \/ Accept(c, s)
-----------------------------------------------------------------------------
(* Consumers *)

(* An acknowledged event leaves the window, too.                           *)
Ack(c, s) ==
    /\ s \in queue[c]
    /\ queue' = [queue EXCEPT ![c] = @ \ {s}]
    /\ pending' = [pending EXCEPT ![c] = IF @ > 0 THEN @ - 1 ELSE @]
    /\ dedup' = dedup \ {s}
    /\ UNCHANGED <<published, flight, highSeq, busFaults, handedOver, gaps>>

(* The cursor does not learn of it: pending stays.                         *)
ConsumerCrash(c) ==
    /\ BusFault
    /\ queue' = [queue EXCEPT ![c] = {}]
    /\ flight' = [flight EXCEPT ![c] = {}]
    /\ UNCHANGED <<published, highSeq, dedup, pending, handedOver, gaps>>

(* The order in which GC drops entries is arbitrary.                       *)
GC ==
    /\ Cardinality(dedup) > WindowSize
    /\ \E kept \in SUBSET dedup : Cardinality(kept) = WindowSize /\ dedup' = kept
    /\ UNCHANGED <<published, flight, highSeq, pending, queue, busFaults, handedOver, gaps>>
-----------------------------------------------------------------------------
BusNext ==
    \/ Publish \/ GC
    \/ \E c \in Consumers :
          \/ LoseEvent(c) \/ Reconnect(c) \/ ConsumerCrash(c)
          \/ \E s \in Seqs : Deliver(c, s) \/ Ack(c, s)

BusSpec == BusInit /\ [][BusNext]_busVars

(* Consumers work through what they have, and reconnect when nothing comes;*)
(* an event that is repeated for ever is in the end not repeated any more. *)
BusFairness ==
    \A c \in Consumers :
        /\ WF_busVars(flight[c] = {} /\ Reconnect(c))
        /\ \A s \in Seqs :
              /\ WF_busVars(Ack(c, s))
              /\ WF_busVars(Deliver(c, s) /\ s \notin flight'[c])
-----------------------------------------------------------------------------
(* Properties *)

(* The cursor and its surroundings have their types.                       *)
BusTypeOK ==
    /\ published \in 0 .. MaxSeq
    /\ flight \in [Consumers -> SUBSET Seqs]
    /\ highSeq \in 0 .. MaxSeq
    /\ dedup \subseteq Seqs
    /\ pending \in [Consumers -> 0 .. MaxQueue]
    /\ queue \in [Consumers -> SUBSET Seqs]
    /\ busFaults \in 0 .. BusFaults
    /\ handedOver \subseteq Seqs
    /\ gaps \subseteq Seqs

Feed == INSTANCE EventFeed
            WITH Numbers <- Seqs, last <- highSeq, handed <- handedOver, missed <- gaps

(* Whatever the transport repeats, reorders and loses, whatever GC and Ack *)
(* forget and however consumers crash and reconnect: the cursor implements *)
(* the feed, so no event is accepted twice or out of order, and none is    *)
(* passed over unreported after the first (Deliver).                       *)
ImplementsFeed == Feed!FeedSpec

(* A consumer whose counter was left full by a crash, with nothing to      *)
(* acknowledge any more.                                                   *)
IsStuck(c) == pending[c] >= MaxQueue /\ queue[c] = {}

(* Every event is reached in the end, refused ones included, unless every  *)
(* consumer is stuck: a refused or lost one is replayed (Deliver, Resume). *)
EventIsReached == <>[](published <= highSeq \/ \A c \in Consumers : IsStuck(c))
=============================================================================

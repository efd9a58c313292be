------------------------------- MODULE AppHub -------------------------------
(***************************************************************************)
(* The WebSocket hub of the app (backend/internal/websocket/hub.go): one   *)
(* goroutine takes registrations, departures and messages, and never waits *)
(* for a client: a client whose buffer is full is removed and its channel  *)
(* closed.  Every client has a read pump, which answers a ping through the *)
(* same channel, and a write pump.  background.Go turns the panic of a     *)
(* pump, a send on a closed channel, into the end of the pump.             *)
(***************************************************************************)
EXTENDS Naturals, Sequences, FiniteSets

CONSTANTS
    HubClients,     \* connections
    Aimed,          \* clients that a message to one workspace matches
    HubCap,         \* capacity of the channels broadcast and broadcastTo
    SendCap,        \* capacity of the channel of a client
    MaxHubMsg,      \* bound on the messages broadcast
    MaxPings        \* bound on the pings of a client

ASSUME HubAssumption ==
    /\ Aimed \subseteq HubClients
    /\ HubCap \in Nat \ {0} /\ SendCap \in Nat \ {0}
    /\ MaxHubMsg \in Nat /\ MaxPings \in Nat

VARIABLES
    registered,     \* Hub.clients
    toRemove,       \* the slow clients that Run goes on to remove
    hubQueue,       \* the channels broadcast ("all") and broadcastTo ("aimed")
    sendBuf,        \* Client.send
    sendClosed,     \* clients whose channel is closed
    reader, writer, \* where the pumps of a client are
    pings,          \* pings a client sent
    hubSent,        \* messages broadcast so far
    hubAlive,       \* Run has not panicked
    owed            \* history: messages the hub took for a client, not written yet

hubVars == <<registered, toRemove, hubQueue, sendBuf, sendClosed, reader, writer,
             pings, hubSent, hubAlive, owed>>

Pong == 0       \* the answer to a ping; messages are 1, 2, ...

HubInit ==
    /\ registered = {} /\ toRemove = {} /\ sendClosed = {}
    /\ hubQueue = [k \in {"all", "aimed"} |-> <<>>]
    /\ sendBuf = [c \in HubClients |-> <<>>]
    /\ reader = [c \in HubClients |-> "new"]
    /\ writer = [c \in HubClients |-> "new"]
    /\ pings = [c \in HubClients |-> 0]
    /\ hubSent = 0
    /\ hubAlive = TRUE
    /\ owed = [c \in HubClients |-> <<>>]

IsFull(c) == Len(sendBuf[c]) = SendCap
Ready     == hubAlive /\ toRemove = {}      \* Run is at its select

(* A handler registers its client and blocks until Run takes it.           *)
Dial(c) ==
    /\ reader[c] = "new"
    /\ reader' = [reader EXCEPT ![c] = "registering"]
    /\ UNCHANGED <<registered, toRemove, hubQueue, sendBuf, sendClosed, writer,
                   pings, hubSent, hubAlive, owed>>

(* Broadcast and BroadcastTo drop the message when the channel is full.    *)
HubBroadcast(k) ==
    /\ hubSent < MaxHubMsg
    /\ hubSent' = hubSent + 1
    /\ hubQueue' = IF Len(hubQueue[k]) < HubCap
                   THEN [hubQueue EXCEPT ![k] = Append(@, hubSent + 1)] ELSE hubQueue
    /\ UNCHANGED <<registered, toRemove, sendBuf, sendClosed, reader, writer,
                   pings, hubAlive, owed>>
-----------------------------------------------------------------------------
(* Run                                                                     *)

TakeRegister(c) ==
    /\ Ready /\ reader[c] = "registering"
    /\ registered' = registered \cup {c}
    /\ reader' = [reader EXCEPT ![c] = "reading"]
    /\ writer' = [writer EXCEPT ![c] = "writing"]
    /\ UNCHANGED <<toRemove, hubQueue, sendBuf, sendClosed, pings, hubSent,
                   hubAlive, owed>>

(* A channel that is closed a second time ends Run.                        *)
CloseSends(cs) ==
    /\ sendClosed' = sendClosed \cup cs
    /\ hubAlive' = (cs \cap sendClosed = {})

(* Variant: without a look at the map.                                     *)
TakeUnregisterAlways(c) ==
    /\ Ready /\ reader[c] = "leaving"
    /\ registered' = registered \ {c}
    /\ CloseSends({c})
    /\ reader' = [reader EXCEPT ![c] = "gone"]
    /\ UNCHANGED <<toRemove, hubQueue, sendBuf, writer, pings, hubSent, owed>>

(* The read pump that left goes on to cancel the context of the client.    *)
TakeUnregister(c) ==
    /\ Ready /\ reader[c] = "leaving"
    /\ registered' = registered \ {c}
    /\ CloseSends({c} \cap registered)
    /\ reader' = [reader EXCEPT ![c] = "gone"]
    /\ UNCHANGED <<toRemove, hubQueue, sendBuf, writer, pings, hubSent, owed>>

Matched(k) == IF k = "aimed" THEN registered \cap Aimed ELSE registered

(* Variant: a client without room misses the message and stays.            *)
TakeMessageSkipping(k) ==
    /\ Ready /\ hubQueue[k] # <<>>
    /\ hubQueue' = [hubQueue EXCEPT ![k] = Tail(@)]
    /\ sendBuf' = [c \in HubClients |->
          IF c \in Matched(k) /\ ~IsFull(c) THEN Append(sendBuf[c], Head(hubQueue[k]))
                                            ELSE sendBuf[c]]
    /\ owed' = [c \in HubClients |->
          IF c \in Matched(k) THEN Append(owed[c], Head(hubQueue[k])) ELSE owed[c]]
    /\ UNCHANGED <<registered, toRemove, sendClosed, reader, writer, pings, hubSent,
                   hubAlive>>

TakeMessage(k) ==
    /\ Ready /\ hubQueue[k] # <<>>
    /\ hubQueue' = [hubQueue EXCEPT ![k] = Tail(@)]
    /\ sendBuf' = [c \in HubClients |->
          IF c \in Matched(k) /\ ~IsFull(c) THEN Append(sendBuf[c], Head(hubQueue[k]))
                                            ELSE sendBuf[c]]
    /\ toRemove' = {c \in Matched(k) : IsFull(c)}
    /\ owed' = [c \in HubClients |->
          IF c \in Matched(k) THEN Append(owed[c], Head(hubQueue[k])) ELSE owed[c]]
    /\ UNCHANGED <<registered, sendClosed, reader, writer, pings, hubSent, hubAlive>>

(* After the read lock: the pumps went on in between.                      *)
RemoveSlow ==
    /\ hubAlive /\ toRemove # {}
    /\ CloseSends(toRemove \cap registered)
    /\ registered' = registered \ toRemove
    /\ toRemove' = {}
    /\ UNCHANGED <<hubQueue, sendBuf, reader, writer, pings, hubSent, owed>>
-----------------------------------------------------------------------------
(* The pumps                                                               *)

(* A ping arrived, and the answer is under way.                            *)
ReadPing(c) ==
    /\ reader[c] = "reading" /\ pings[c] < MaxPings
    /\ pings' = [pings EXCEPT ![c] = @ + 1]
    /\ reader' = [reader EXCEPT ![c] = "ponging"]
    /\ UNCHANGED <<registered, toRemove, hubQueue, sendBuf, sendClosed, writer,
                   hubSent, hubAlive, owed>>

(* The send blocks while the buffer is full and panics on a closed channel.*)
SendPong(c) ==
    /\ reader[c] = "ponging"
    /\ c \in sendClosed \/ ~IsFull(c)
    /\ IF c \in sendClosed
       THEN reader' = [reader EXCEPT ![c] = "leaving"] /\ UNCHANGED sendBuf
       ELSE /\ reader' = [reader EXCEPT ![c] = "reading"]
            /\ sendBuf' = [sendBuf EXCEPT ![c] = Append(@, Pong)]
    /\ UNCHANGED <<registered, toRemove, hubQueue, sendClosed, writer, pings,
                   hubSent, hubAlive, owed>>

(* The peer is gone or silent, or the write pump closed the connection.    *)
ReadFails(c) ==
    /\ reader[c] = "reading"
    /\ reader' = [reader EXCEPT ![c] = "leaving"]
    /\ UNCHANGED <<registered, toRemove, hubQueue, sendBuf, sendClosed, writer,
                   pings, hubSent, hubAlive, owed>>

Write(c) ==
    /\ writer[c] = "writing" /\ sendBuf[c] # <<>>
    /\ sendBuf' = [sendBuf EXCEPT ![c] = Tail(@)]
    /\ owed' = [owed EXCEPT ![c] = IF Head(sendBuf[c]) = Pong THEN @ ELSE Tail(@)]
    /\ UNCHANGED <<registered, toRemove, hubQueue, sendClosed, reader, writer,
                   pings, hubSent, hubAlive>>

(* A write or the heartbeat fails with or without a message in hand; or the*)
(* context was cancelled; or the closed channel is drained.                *)
WriterEnds(c) ==
    /\ writer[c] = "writing"
    /\ \E buf \in {sendBuf[c], SubSeq(sendBuf[c], 2, Len(sendBuf[c]))} :
          sendBuf' = [sendBuf EXCEPT ![c] = buf]
    /\ writer' = [writer EXCEPT ![c] = "gone"]
    /\ UNCHANGED <<registered, toRemove, hubQueue, sendClosed, reader, pings,
                   hubSent, hubAlive, owed>>
-----------------------------------------------------------------------------
HubRun ==
    \/ \E c \in HubClients : TakeRegister(c) \/ TakeUnregister(c)
    \/ \E k \in {"all", "aimed"} : TakeMessage(k)
    \/ RemoveSlow

HubNext ==
    \/ HubRun
    \/ \E k \in {"all", "aimed"} : HubBroadcast(k)
    \/ \E c \in HubClients :
          \/ Dial(c) \/ ReadPing(c) \/ SendPong(c) \/ ReadFails(c)
          \/ Write(c) \/ WriterEnds(c)

HubSpec == HubInit /\ [][HubNext]_hubVars

(* Run never blocks outside its select.                                    *)
HubFairness == WF_hubVars(HubRun)
-----------------------------------------------------------------------------
(* Properties                                                              *)

(* The channels hold what they may, and the pumps are where they can be.   *)
HubTypeOK ==
    /\ registered \subseteq HubClients /\ toRemove \subseteq registered
    /\ sendClosed \subseteq HubClients /\ hubAlive \in BOOLEAN
    /\ \A k \in {"all", "aimed"} : Len(hubQueue[k]) <= HubCap
    /\ \A c \in HubClients :
          /\ sendBuf[c] \in Seq(0 .. MaxHubMsg) /\ Len(sendBuf[c]) <= SendCap
          /\ reader[c] \in {"new", "registering", "reading", "ponging", "leaving", "gone"}
          /\ writer[c] \in {"new", "writing", "gone"}
          /\ pings[c] \in 0 .. MaxPings
    /\ hubSent \in 0 .. MaxHubMsg

(* The messages are those of the buffer that are no pongs, in their order:  *)
(* at lists where in the buffer they are.                                  *)
Carries(buf, messages) ==
    \E at \in [1 .. Len(messages) -> 1 .. Len(buf)] :
        /\ \A m, n \in 1 .. Len(messages) : m < n => at[m] < at[n]
        /\ \A m \in 1 .. Len(messages) : messages[m] # Pong /\ buf[at[m]] = messages[m]
        /\ \A i \in 1 .. Len(buf) :
              buf[i] # Pong => \E m \in 1 .. Len(messages) : at[m] = i

(* A registered client whose write pump works has each message the hub took*)
(* for it since its registration either written or in its buffer, in order:*)
(* a client that misses one is removed, never left in the dark             *)
(* (Hub.Run's default branches and removal, ReadPump's pongs in between).  *)
NothingMissed ==
    \A c \in registered \ toRemove :
        writer[c] = "writing" => Carries(sendBuf[c], owed[c])

(* A pump that leaves is let go, however many slow or stuck clients there  *)
(* are, and whatever order a removal and a departure come in: Run waits for*)
(* nobody, and closes no channel twice, which would end it.                *)
LeaverIsReleased == []<>(\A c \in HubClients : reader[c] # "leaving")
=============================================================================
